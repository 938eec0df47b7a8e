SPECIFICATION Spec
CONSTANTS
  m1 = m1  m2 = m2
  b1 = b1  b2 = b2  b3 = b3
  Manifests = {m1, m2}
  Blobs = {b1, b2, b3}
  LayersOf <- MCLayersOf
  ConfigOf <- MCConfigOf
  Clients = {c1, c2}
  Tags = {t1, t2}
  Kinds = {"push", "build", "attach", "upload"}
  None = None
INVARIANT TypeOK
INVARIANT RemoteTaggedComplete
INVARIANT RemoteDelivered
INVARIANT PushTagExists
PROPERTY RemoteCatalogSpec
