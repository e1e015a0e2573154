SPECIFICATION FairSpec
CONSTANTS
  Senders = {0, 1}
  Writes = 3
  MaxTweets <- MCTweets
INVARIANTS
  TypeOK
  NoMoreThanWritten
  TornOnlyIfOverlapped
PROPERTIES
  TweetArrives
CHECK_DEADLOCK FALSE
