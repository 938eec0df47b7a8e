SPECIFICATION FairSpec
CONSTANTS
  Layers <- MCLayers
  TarLayers <- MCTar
  ReadOnly <- MCReadOnly
  Paths <- MCPaths
  PathOf <- MCPathOf
  NameOf <- MCNameOf
  TempOf <- MCTempOf
  Above <- MCAbove
  Dotted <- MCDotted
  Artifacts <- MCArtifacts
  PatternLists <- MCPatterns
  Edited <- MCEdited
  Concurrency = 2
  Attempts = 2
  MaxFaults = 2
  None = None
INVARIANT TypeOK
INVARIANT Unpacked
INVARIANT TempsGone
INVARIANT FailureExplained
PROPERTY EveryUnpackReturns
