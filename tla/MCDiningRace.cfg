SPECIFICATION Spec
CONSTANTS
  N = 4
  Pounds = 1
INVARIANT
  RiceProtected
