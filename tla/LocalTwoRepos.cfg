SPECIFICATION Spec
CONSTANTS
  m1 = m1  m2 = m2
  b1 = b1  b2 = b2  b3 = b3
  Manifests = {m1, m2}
  Blobs = {b1, b3}
  Repos = {r1, r2}
  Tags = {t1}
  Procs = {p1}
  LayersOf <- MCSmallLayersOf
  ConfigOf <- MCConfigOf
  Nobody = Nobody
  NoManifest = NoManifest
  NoCommand = NoCommand
  Concurrency = 1
  PruneAlone = TRUE
  PruneFlags <- MCAllFlags
INVARIANT TypeOK
INVARIANT Delivered
 
INVARIANT PruneCanRead
INVARIANT SuccessPublishes
PROPERTY CatalogSpec
