-------------------------------- MODULE PipeIPC --------------------------------
(***************************************************************************)
(* HW4, IPC_pipes: a parent sends requests to its forked child through     *)
(* pipe_msg_p and gets the replies through pipe_msg_c.  Neither looks at   *)
(* what read and write return.  When the other process is gone, read gives *)
(* end of file and leaves the old structure in place, provided that nobody *)
(* holds a write end any more, and write kills the writer with SIGPIPE,    *)
(* provided that nobody holds a read end.                                  *)
(***************************************************************************)
EXTENDS Naturals, Sequences

CONSTANTS Requests,     \* the messages the parent chooses from
          Rounds,       \* iterations of both loops; 10 in the code
          Interrupted   \* the processes that may get a SIGINT

Procs == {"parent", "child"}

ASSUME RoundsAssumption == Rounds \in Nat \ {0}
ASSUME InterruptedAssumption == Interrupted \subseteq Procs

VARIABLES pipe,    \* what is in the pipes "p" (requests) and "c" (replies)
          open,    \* the ends <<pipe, direction>> each process has open
          pc, i,   \* where each process is, and its loop counter
          msg1,    \* the parent's request
          msg_r,   \* the child's copy of it
          r1,      \* each process's response structure
          log      \* the exchanges the parent has logged

vars == <<pipe, open, pc, i, msg1, msg_r, r1, log>>

Text(flag, t) == [is_command |-> flag, text |-> t]
Garbage == Text(2, "garbage")   \* a structure nothing was read into

child_status_update(d) ==
  IF d.is_command = 1
  THEN Text(1, IF d.text = "LED ON" THEN "LED is now ON" ELSE "LED is now OFF")
  ELSE Text(0, "Message successfully received")

Replies == {child_status_update(r) : r \in Requests \cup {Garbage}}
Ends == {"p", "c"} \X {"read", "write"}
Done == {"spin", "dead"}

TypeOK ==
  /\ pipe \in [{"p", "c"} -> Seq(Requests \cup Replies)]
  /\ open \in [Procs -> SUBSET Ends]
  /\ pc \in [Procs -> {"close", "read", "write", "end"} \cup Done]
  /\ i \in [Procs -> 0..Rounds]
  /\ msg1 \in Requests \cup {Garbage}
  /\ msg_r \in Requests \cup {Garbage}
  /\ r1 \in [Procs -> Replies \cup {Garbage}]

(* After fork both processes have all four ends open.                      *)
Init ==
  /\ pipe = [k \in {"p", "c"} |-> <<>>]
  /\ open = [p \in Procs |-> Ends]
  /\ pc = [p \in Procs |-> "close"]
  /\ i = [p \in Procs |-> 0]
  /\ msg1 = Garbage /\ msg_r = Garbage
  /\ r1 = [p \in Procs |-> Garbage]
  /\ log = <<>>

Goto(p, label) == pc' = [pc EXCEPT ![p] = label]
Held(k, dir) == \E p \in Procs : <<k, dir>> \in open[p]

(* exit, or a fatal signal: the kernel closes what is open.                *)
Exit(p) ==
  /\ open' = [open EXCEPT ![p] = {}]
  /\ Goto(p, "dead")

(* write: m goes into pipe k, or nobody can read it and the writer dies.   *)
Write(p, k, m, after) ==
  IF Held(k, "read")
  THEN pipe' = [pipe EXCEPT ![k] = Append(@, m)] /\ Goto(p, after) /\ UNCHANGED open
  ELSE Exit(p) /\ UNCHANGED pipe

(* read: m is what the structure holds afterwards, old if it was.          *)
Read(k, old, m) ==
  IF pipe[k] # <<>>
  THEN m = Head(pipe[k]) /\ pipe' = [pipe EXCEPT ![k] = Tail(@)]
  ELSE ~ Held(k, "write") /\ m = old /\ UNCHANGED pipe

NextRound(p, top) ==
  /\ i' = [i EXCEPT ![p] = @ + 1]
  /\ Goto(p, IF i[p] + 1 < Rounds THEN top ELSE "end")

-----------------------------------------------------------------------------
(* Mutant: close(pipe_msg_p[0]) is missing.                                *)
ParentCloseOne ==
  /\ pc["parent"] = "close"
  /\ open' = [open EXCEPT !["parent"] = @ \ {<<"c", "write">>}]
  /\ Goto("parent", "write")
  /\ UNCHANGED <<pipe, i, msg1, msg_r, r1, log>>

ParentClose ==
  /\ pc["parent"] = "close"
  /\ open' = [open EXCEPT !["parent"] = @ \ {<<"p", "read">>, <<"c", "write">>}]
  /\ Goto("parent", "write")
  /\ UNCHANGED <<pipe, i, msg1, msg_r, r1, log>>

ParentWrite ==
  /\ pc["parent"] = "write"
  /\ \E r \in Requests : msg1' = r /\ Write("parent", "p", r, "read")
  /\ UNCHANGED <<i, msg_r, r1, log>>

(* The status pointer of a structure never read into may not be readable.  *)
ParentRead ==
  /\ pc["parent"] = "read"
  /\ \E m \in Replies \cup {Garbage} :
        /\ Read("c", r1["parent"], m)
        /\ r1' = [r1 EXCEPT !["parent"] = m]
        /\ \/ /\ log' = Append(log, <<msg1, m>>)
              /\ NextRound("parent", "write") /\ UNCHANGED open
           \/ /\ m = Garbage
              /\ Exit("parent") /\ UNCHANGED <<i, log>>
  /\ UNCHANGED <<msg1, msg_r>>

-----------------------------------------------------------------------------
(* Mutant: close(pipe_msg_p[1]) is missing.                                *)
ChildCloseOne ==
  /\ pc["child"] = "close"
  /\ open' = [open EXCEPT !["child"] = @ \ {<<"c", "read">>}]
  /\ Goto("child", "read")
  /\ UNCHANGED <<pipe, i, msg1, msg_r, r1, log>>

ChildClose ==
  /\ pc["child"] = "close"
  /\ open' = [open EXCEPT !["child"] = @ \ {<<"p", "write">>, <<"c", "read">>}]
  /\ Goto("child", "read")
  /\ UNCHANGED <<pipe, i, msg1, msg_r, r1, log>>

ChildRead ==
  /\ pc["child"] = "read"
  /\ \E m \in Requests \cup {Garbage} :
        /\ Read("p", msg_r, m)
        /\ msg_r' = m
        /\ \/ Goto("child", "write") /\ UNCHANGED open
           \/ m = Garbage /\ Exit("child")
  /\ UNCHANGED <<i, msg1, r1, log>>

(* Mutant: the child sends the reply it had before.                        *)
ChildWriteOld ==
  /\ pc["child"] = "write"
  /\ r1' = [r1 EXCEPT !["child"] = child_status_update(msg_r)]
  /\ IF Held("c", "read")
     THEN /\ pipe' = [pipe EXCEPT !["c"] = Append(@, r1["child"])]
          /\ NextRound("child", "read") /\ UNCHANGED open
     ELSE Exit("child") /\ UNCHANGED <<pipe, i>>
  /\ UNCHANGED <<msg1, msg_r, log>>

ChildWrite ==
  /\ pc["child"] = "write"
  /\ r1' = [r1 EXCEPT !["child"] = child_status_update(msg_r)]
  /\ IF Held("c", "read")
     THEN /\ pipe' = [pipe EXCEPT !["c"] = Append(@, r1'["child"])]
          /\ NextRound("child", "read") /\ UNCHANGED open
     ELSE Exit("child") /\ UNCHANGED <<pipe, i>>
  /\ UNCHANGED <<msg1, msg_r, log>>

-----------------------------------------------------------------------------
(* The four close calls after the loops, and then while(1).                *)
End(p) ==
  /\ pc[p] = "end"
  /\ open' = [open EXCEPT ![p] = {}]
  /\ Goto(p, "spin")
  /\ UNCHANGED <<pipe, i, msg1, msg_r, r1, log>>

(* SIGINT, at any moment; only this lets the programs end.                 *)
handler(p) ==
  /\ p \in Interrupted /\ pc[p] # "dead"
  /\ Exit(p)
  /\ UNCHANGED <<pipe, i, msg1, msg_r, r1, log>>

Parent == ParentClose \/ ParentWrite \/ ParentRead \/ End("parent")
Child == ChildClose \/ ChildRead \/ ChildWrite \/ End("child")

Next == Parent \/ Child \/ \E p \in Procs : handler(p)

Spec == Init /\ [][Next]_vars

(* Both processes are scheduled; nobody need send a SIGINT.                *)
FairSpec == Spec /\ WF_vars(Parent) /\ WF_vars(Child)

-----------------------------------------------------------------------------
(* Every reply in the log answers the request logged with it, except that  *)
(* one stale reply may follow when the child is gone: the parent then dies *)
(* of its next write.                                                      *)
OnlyLastReplyStale ==
  \A n \in DOMAIN log :
     log[n][2] = child_status_update(log[n][1]) \/ (n = Len(log) /\ pc["child"] = "dead")

(* Neither process waits for ever, whenever the other one is interrupted.  *)
NobodyHangs == \A p \in Procs : <>(pc[p] \in Done)

(* Until one of the processes is killed, every step is one of RequestReply *)
(* or leaves its state alone.  In particular there is never a second reply *)
(* in the pipe, so the parent's read of up to 30 bytes into a structure of *)
(* 16 gets exactly one.                                                    *)
RR == INSTANCE RequestReply
        WITH Answer <- child_status_update,
             asked <- IF pc["parent"] = "read" THEN <<msg1>> ELSE <<>>,
             answered <- pipe["c"]
Killed == \E p \in Procs : pc[p] = "dead"
Implements == RR!Init /\ [][Killed' \/ RR!Next]_(RR!vars)
=============================================================================
