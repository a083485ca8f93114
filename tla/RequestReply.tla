----------------------------- MODULE RequestReply -----------------------------
(***************************************************************************)
(* What the HW4 programs promise over each of their transports: a client   *)
(* asks Rounds times, one question at a time, and gets the server's answer *)
(* to exactly that question before it asks the next one.  The client's log *)
(* records each question with its answer.                                  *)
(***************************************************************************)
EXTENDS Naturals, Sequences

CONSTANTS Requests,   \* what the client may ask
          Rounds,     \* how often it asks; 10 in the programs
          Answer(_)   \* the server's answer to a request

VARIABLES asked,      \* the open question, as a sequence of length 0 or 1
          answered,   \* the answer to it, likewise
          log         \* the exchanges, <<request, answer>>

vars == <<asked, answered, log>>

Init == asked = <<>> /\ answered = <<>> /\ log = <<>>

Ask(r) ==
  /\ asked = <<>> /\ Len(log) < Rounds
  /\ asked' = <<r>>
  /\ UNCHANGED <<answered, log>>

Reply ==
  /\ asked # <<>> /\ answered = <<>>
  /\ answered' = <<Answer(asked[1])>>
  /\ UNCHANGED <<asked, log>>

Take ==
  /\ asked # <<>> /\ answered # <<>>
  /\ log' = Append(log, <<asked[1], answered[1]>>)
  /\ asked' = <<>> /\ answered' = <<>>

Next == (\E r \in Requests : Ask(r)) \/ Reply \/ Take

Spec == Init /\ [][Next]_vars
=============================================================================
