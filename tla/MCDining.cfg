SPECIFICATION FairSpec
CONSTANTS
  N = 3
  Pounds = 2
INVARIANTS
  ChopsticksAccounted
  SomeoneCanMove
PROPERTIES
  ImplementsTable
  Termination
  
