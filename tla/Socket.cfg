\* Two clients, one of which is left in the backlog, and SIGINTs to the
\* server and to the first client.
SPECIFICATION FairSpec
CONSTANTS
  Clients = {"client", "second"}
  Requests <- MCTwoRequests
  Rounds = 2
  Interrupted = {"server", "client"}
INVARIANTS
  AnswerOrRepeat
PROPERTIES
  EverybodyEnds
  Implements
\* The programs end, and the server waits for a client that was refused.
CHECK_DEADLOCK FALSE
