SPECIFICATION Spec
CONSTANTS
  N = 4
  Pounds = 2
INVARIANTS
  TypeOK
  OverdraftBound
  RiceNeverVanishes
