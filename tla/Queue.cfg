CONSTANTS
  Workers = {w1, w2}
  MaxOffers = 3
  SizeModulus = 8
SPECIFICATION Spec
CHECK_DEADLOCK FALSE
INVARIANTS
  SerialCallsAreFifo
  OneTakerInOrder
SYMMETRY Alike
