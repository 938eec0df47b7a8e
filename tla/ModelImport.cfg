SPECIFICATION Spec
CONSTANTS
  Order <- MCOrder
  Dirs <- MCDirs
  Skippable <- MCSkippable
  TablesOf <- MCTables
  SizeOf <- MCSizes
  Threshold = 2
  MaxFile = 5
  MaxFiles = 3
  MaxTotal = 8
  ConfigFiles <- MCConfigs
  Declares <- MCDeclares
  Own <- MCOwn
  Base <- MCBase
  Versions <- MCVersions
  Published <- MCPublished
  LatestOf <- MCLatest
  Objects <- MCObjects
  Namesakes <- MCNamesakes
  Urls <- MCUrls
  Options <- MCOptions
  Handwritten <- MCHandwritten
  Added <- MCAdded
  MaxEdits = 1
  MaxFaults = 2
  None = None
INVARIANT TypeOK
INVARIANT BuildFaithful
INVARIANT ImportFaithful
INVARIANT ModelfileKept
INVARIANT CutSafe
PROPERTY BuildExplained
