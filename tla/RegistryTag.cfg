SPECIFICATION Spec
CONSTANTS
  m1 = m1  m2 = m2
  b1 = b1  b2 = b2  b3 = b3
  Manifests = {m1, m2}
  Blobs = {b1, b2, b3}
  LayersOf <- MCLayersOf
  ConfigOf <- MCConfigOf
  Clients = {c1}
  Tags = {t1}
  Kinds = {"push", "build"}
  None = None
INVARIANT PublishMovesTag
