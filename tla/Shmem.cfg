\* Three starts of each program, two SIGINTs.
SPECIFICATION FairSpec
CONSTANTS
  Requests <- MCTwoRequests
  Rounds = 2
  MaxStarts = 3
  MaxSignals = 2
INVARIANTS
  MutualExclusion
PROPERTIES
  SessionCompletes
  Implements
\* The programs end, and a lone restart can leave both waiting.
CHECK_DEADLOCK FALSE
