SPECIFICATION Spec
CONSTANTS
  NUMBER_OF_PAGES = 3
  Addresses <- MCAddresses
  MaxLength = 6
INVARIANTS
  TypeOK
  CountsMatchString
  PrintsTheBytes
  CrashOnlyOnFailure
