SPECIFICATION Spec
CONSTANTS
  x1 = x1
  x2 = x2
  b1 = b1
  b2 = b2
  b3 = b3
  k1 = k1
  k2 = k2
  NoKey = NoKey
  Callers = {c1, c2, c3}
  Keys = {k1, k2}
  Bits = {b1, b2, b3}
  Words = {x1, x2}
  WordOf <- MCWordOf
  BitsOf <- MCBitsOf
  Cap = 1
  MaxAmount = 1
SYMMETRY Symmetry
INVARIANTS AddedIsFound ResetForgets NotFullTooEarly
