SPECIFICATION Spec
CONSTANTS
  Layers = {d1, d2}
  SizeOf <- MCSizeOf
  Workers = {w1, w2}
  None = None
SYMMETRY MCSymmetry
INVARIANT TypeOK
INVARIANT SuccessIsRight
