SPECIFICATION FairSpec
CONSTANTS
  Procs = {"a", "b"}
  MAXBOX = 2
  Writes = 2
  MaxTweets <- MCTweets
  MaxStarts <- MCStarts
INVARIANTS
  TypeOK
  NodesAlive
  FaultsOnlyInExit
  AllUnmapped
  OneMessageLate
PROPERTIES
  ShownInOrder
  MailboxEmptied
CHECK_DEADLOCK FALSE
