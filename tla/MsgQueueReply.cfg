\* One session that nobody interrupts.
SPECIFICATION FairSpec
CONSTANTS
  Requests <- MCRequests
  Rounds = 2
  QueueSize = 2
  MaxStarts = 1
  MaxSignals = 0
INVARIANTS
  ReplyAnswersRequest
\* The programs end, and the server can wait for a request that never comes.
CHECK_DEADLOCK FALSE
