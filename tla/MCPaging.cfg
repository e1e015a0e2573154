SPECIFICATION Spec
CONSTANTS
  NUMBER_OF_FRAMES = 3
  Pages = {p1, p2, p3, p4}
  MaxLength = 7
  MaxFailures = 1
SYMMETRY PageSymmetry
INVARIANTS
  TypeOK
  FrameHoldsPage
  PageLoadedOnce
  HistoryFollowsTLB
  HangsOnlyAfterFailure
  FIFOKeepsQueue
  LRUKeepsRecent
  OptimalIsOptimal
