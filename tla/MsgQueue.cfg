\* Restarts and one SIGINT.
SPECIFICATION FairSpec
CONSTANTS
  Requests <- MCRequests
  Rounds = 2
  QueueSize = 2
  MaxStarts = 2
  MaxSignals = 1
INVARIANTS
  OneInFlight
PROPERTIES
  ClientFinishes
\* The programs end, and the server can wait for a request that never comes.
CHECK_DEADLOCK FALSE
