SPECIFICATION Spec
CONSTANTS
  Procs = {"a", "b"}
  MAXBOX = 2
  Writes = 1
  MaxTweets <- MCTweets
  MaxStarts <- MCStarts
INVARIANT
  OneOwner
CHECK_DEADLOCK FALSE
