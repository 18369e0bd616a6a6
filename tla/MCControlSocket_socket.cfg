SPECIFICATION Spec
CONSTANTS
  a = a
  b = b
  c = c
  Daemons = {a, b, c}
  address <- TwoShare
  Unreliable = {c}
SYMMETRY Interchangeable
INVARIANTS RefusalHasCause
PROPERTIES OneAddressOneOwner
