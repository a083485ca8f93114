\* SIGINT to either process or both, at any moment.
SPECIFICATION FairSpec
CONSTANTS
  Requests <- MCRequests
  Rounds = 3
  Interrupted = {"parent", "child"}
INVARIANTS
  OnlyLastReplyStale
PROPERTIES
  NobodyHangs
  Implements
\* The processes are gone after their SIGINTs.
CHECK_DEADLOCK FALSE
