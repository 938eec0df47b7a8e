SPECIFICATION Spec
CONSTANTS
  Paths = {1, 2, 3}
  TypeOf <- MCTypeOf
  Dests <- MCDests
  Contents = {1, 2}
  MaxLayers = 4
INVARIANT TypeOK
INVARIANT AttachOverwrites
INVARIANT OthersKept
INVARIANT AttachIsIdempotent
