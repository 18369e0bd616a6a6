SPECIFICATION Spec
CONSTANTS
  a = a
  b = b
  c = c
  Daemons = {a, b}
  address <- OwnAddress
  Unreliable = {}
INVARIANTS NeverStolen
