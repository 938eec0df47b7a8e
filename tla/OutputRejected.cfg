SPECIFICATION Spec
CONSTANTS
  Layers = {d2}
  SizeOf <- MCSizeOf
  Workers = {w1}
  None = None
INVARIANT RejectedStaysRejected
