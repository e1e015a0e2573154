SPECIFICATION Spec
CONSTANTS
  N = 3
  Pounds = 1
INVARIANT
  WaitedForAll
