SPECIFICATION Spec
CONSTANTS
  NUMBER_OF_FRAMES = 2
  Pages = {p1, p2, p3}
  MaxLength = 4
  MaxFailures = 0
PROPERTY
  HitNeedsNoSwap
