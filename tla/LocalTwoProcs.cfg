SPECIFICATION Spec
CONSTANTS
  m1 = m1  m2 = m2
  b1 = b1  b2 = b2  b3 = b3
  Manifests = {m1, m2}
  Blobs = {b1, b2, b3}
  Repos = {r1}
  Tags = {t1}
  Procs = {p1, p2}
  LayersOf <- MCLayersOf
  ConfigOf <- MCConfigOf
  Nobody = Nobody
  NoManifest = NoManifest
  NoCommand = NoCommand
  Concurrency = 2
  PruneAlone = TRUE
  PruneFlags <- MCDefaultFlags
SYMMETRY MCSymmetry
INVARIANT TaggedComplete
INVARIANT ReaderServed
