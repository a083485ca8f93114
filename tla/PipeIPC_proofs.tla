---------------------------- MODULE PipeIPC_proofs ----------------------------
(***************************************************************************)
(* Proofs about module PipeIPC, for every set of requests, every number of *)
(* rounds, and whichever of the two processes may be interrupted.          *)
(***************************************************************************)
EXTENDS PipeIPC, TLAPS

(* The ends a process has open, and its place in its loop.                 *)
Own(p) == IF p = "parent" THEN {<<"p", "write">>, <<"c", "read">>}
                          ELSE {<<"p", "read">>, <<"c", "write">>}
OpenInv ==
  \A p \in Procs :
    /\ pc[p] = "close" => open[p] = Ends
    /\ pc[p] \in {"read", "write", "end"} => open[p] = Own(p)
    /\ pc[p] \in Done => open[p] = {}
LoopInv ==
  \A p \in Procs :
    /\ pc[p] \in {"close", "read", "write"} => i[p] < Rounds
    /\ pc[p] \in {"end", "spin"} => i[p] = Rounds

(* Where the question the parent waits for is, or its answer, while the    *)
(* parent lives; a child that is dead leaves it there.                     *)
Asked == pipe["p"] = <<msg1>> /\ pipe["c"] = <<>> /\ pc["child"] \in {"close", "read", "dead"}
Taken == /\ pipe["p"] = <<>> /\ pipe["c"] = <<>>
         /\ pc["child"] = "dead" \/ (pc["child"] = "write" /\ msg_r = msg1)
Answered == /\ pipe["p"] = <<>> /\ pipe["c"] = <<child_status_update(msg1)>>
            /\ pc["child"] \in {"read", "end", "spin", "dead"}
Idle == /\ pipe["c"] = <<>>
        /\ pc["child"] = "dead" \/ (pipe["p"] = <<>> /\ pc["child"] # "write")
TurnInv ==
  pc["parent"] # "dead" =>
    /\ pc["parent"] = "read" => msg1 \in Requests /\ (Asked \/ Taken \/ Answered)
    /\ pc["parent"] # "read" => Idle
    /\ pc["child"] # "dead" => i["child"] = i["parent"] + Len(pipe["c"])

(* Every logged reply is the answer while the child lives, and whenever    *)
(* the parent waits for another one.                                       *)
Exchanges == (Requests \cup {Garbage}) \X (Replies \cup {Garbage})
AllRight == \A n \in DOMAIN log : log[n][2] = child_status_update(log[n][1])
LogInv ==
  /\ log \in Seq(Exchanges) /\ Len(log) = i["parent"]
  /\ pc["child"] # "dead" \/ pc["parent"] \in {"close", "read"} => AllRight
  /\ OnlyLastReplyStale

PipeInv == TypeOK /\ OpenInv /\ LoopInv /\ TurnInv /\ LogInv

LEMMA InitPipe == Init => PipeInv
<1> SUFFICES ASSUME Init PROVE PipeInv
  OBVIOUS
<1>1. TypeOK
  BY RoundsAssumption DEF Init, TypeOK
<1>2. OpenInv /\ LoopInv
  BY RoundsAssumption DEF Init, OpenInv, LoopInv, Done
<1>3. TurnInv
  BY DEF Init, TurnInv, Idle, Procs
<1>4. LogInv
  BY DEF Init, LogInv, AllRight, OnlyLastReplyStale, Procs
<1> QED BY <1>1, <1>2, <1>3, <1>4 DEF PipeInv

-----------------------------------------------------------------------------
(* A step is one of RequestReply's or leaves its state alone, unless one   *)
(* of the processes is dead.                                               *)
Matched == Killed' \/ RR!Next \/ UNCHANGED RR!vars

LEMMA TwoProcs == /\ "parent" \in Procs /\ "child" \in Procs /\ "parent" # "child"
                  /\ \A p \in Procs : p = "parent" \/ p = "child"
BY DEF Procs

LEMMA GotoPC ==
  ASSUME TypeOK, NEW p \in Procs, NEW label \in {"close", "read", "write", "end"} \cup Done,
         Goto(p, label)
  PROVE  /\ pc' \in [Procs -> {"close", "read", "write", "end"} \cup Done] /\ pc'[p] = label
         /\ \A q \in Procs \ {p} : pc'[q] = pc[q]
BY DEF Goto, TypeOK

(* What a process holds is gone when it exits.                             *)
LEMMA ExitPC ==
  ASSUME TypeOK, NEW p \in Procs, Exit(p)
  PROVE  /\ pc' \in [Procs -> {"close", "read", "write", "end"} \cup Done] /\ pc'[p] = "dead"
         /\ open' \in [Procs -> SUBSET Ends] /\ open'[p] = {}
         /\ \A q \in Procs \ {p} : pc'[q] = pc[q] /\ open'[q] = open[q]
<1>1. "dead" \in {"close", "read", "write", "end"} \cup Done
  BY DEF Done
<1>2. open' \in [Procs -> SUBSET Ends] /\ open'[p] = {} /\ \A q \in Procs \ {p} : open'[q] = open[q]
  BY DEF Exit, TypeOK
<1> QED BY <1>1, <1>2, GotoPC DEF Exit

(* The death of either process.                                            *)
LEMMA ParentExit ==
  ASSUME PipeInv, Exit("parent"), UNCHANGED <<i, log, msg_r>>,
         pipe' \in [{"p", "c"} -> Seq(Requests \cup Replies)],
         msg1' \in Requests \cup {Garbage}, r1' \in [Procs -> Replies \cup {Garbage}]
  PROVE  PipeInv' /\ Matched
<1> USE DEF PipeInv
<1>1. /\ pc'["parent"] = "dead" /\ open'["parent"] = {}
      /\ pc'["child"] = pc["child"] /\ open'["child"] = open["child"]
      /\ pc' \in [Procs -> {"close", "read", "write", "end"} \cup Done]
      /\ open' \in [Procs -> SUBSET Ends]
  BY TwoProcs, ExitPC
<1>2. TypeOK'
  BY <1>1 DEF TypeOK
<1>3. OpenInv' /\ LoopInv'
  BY <1>1, TwoProcs DEF OpenInv, LoopInv, Done, Own
<1>4. TurnInv' /\ Killed'
  BY <1>1, TwoProcs DEF TurnInv, Killed
<1>5. LogInv'
  BY <1>1 DEF LogInv, AllRight, OnlyLastReplyStale
<1> QED BY <1>2, <1>3, <1>4, <1>5 DEF Matched

LEMMA ChildExit ==
  ASSUME PipeInv, pc["child"] # "dead", Exit("child"), UNCHANGED <<i, log, msg1>>,
         \/ UNCHANGED pipe
         \/ pipe["p"] # <<>> /\ pipe' = [pipe EXCEPT !["p"] = Tail(@)],
         msg_r' \in Requests \cup {Garbage}, r1' \in [Procs -> Replies \cup {Garbage}]
  PROVE  PipeInv' /\ Matched
<1> USE DEF PipeInv
<1>1. /\ pc'["child"] = "dead" /\ open'["child"] = {}
      /\ pc'["parent"] = pc["parent"] /\ open'["parent"] = open["parent"]
      /\ pc' \in [Procs -> {"close", "read", "write", "end"} \cup Done]
      /\ open' \in [Procs -> SUBSET Ends]
  BY TwoProcs, ExitPC
<1>2. /\ pipe' \in [{"p", "c"} -> Seq(Requests \cup Replies)]
      /\ pipe'["c"] = pipe["c"]
      /\ pipe'["p"] = pipe["p"] \/ (pipe["p"] # <<>> /\ pipe'["p"] = Tail(pipe["p"]))
  <2>1. pipe \in [{"p", "c"} -> Seq(Requests \cup Replies)]
    BY DEF TypeOK
  <2>2. CASE pipe["p"] # <<>> /\ pipe' = [pipe EXCEPT !["p"] = Tail(pipe["p"])]
    <3>1. Tail(pipe["p"]) \in Seq(Requests \cup Replies)
      BY <2>1, <2>2
    <3> QED BY <2>1, <2>2, <3>1
  <2> QED BY <2>1, <2>2
<1>3. TypeOK'
  BY <1>1, <1>2 DEF TypeOK
<1>4. OpenInv' /\ LoopInv'
  BY <1>1, TwoProcs DEF OpenInv, LoopInv, Done, Own
<1>5. TurnInv'
  <2>1. SUFFICES ASSUME pc["parent"] # "dead"
                 PROVE  /\ pc["parent"] = "read" => msg1 \in Requests /\ (Asked' \/ Taken' \/ Answered')
                        /\ pc["parent"] # "read" => Idle'
    BY <1>1 DEF TurnInv
  <2>2. CASE pc["parent"] = "read"
    <3>1. msg1 \in Requests /\ (Asked \/ Taken \/ Answered)
      BY <2>1, <2>2 DEF TurnInv
    <3>2. CASE Asked
      <4>1. pipe'["p"] = <<msg1>> \/ pipe'["p"] = <<>>
        <5>1. Tail(<<msg1>>) = <<>>
          OBVIOUS
        <5>2. pipe["p"] = <<msg1>>
          BY <3>2 DEF Asked
        <5> QED BY <1>2, <5>1, <5>2
      <4>2. pipe'["c"] = <<>> /\ msg1' = msg1
        BY <1>2, <3>2 DEF Asked
      <4>3. Asked' \/ Taken'
        BY <1>1, <4>1, <4>2 DEF Asked, Taken
      <4> QED BY <2>2, <3>1, <4>3
    <3>3. CASE Taken \/ Answered
      <4>1. pipe'["p"] = pipe["p"] /\ pipe'["c"] = pipe["c"] /\ msg1' = msg1
        BY <1>2, <3>3 DEF Taken, Answered
      <4>2. Taken' \/ Answered'
        BY <1>1, <3>3, <4>1 DEF Taken, Answered
      <4> QED BY <2>2, <3>1, <4>2
    <3> QED BY <2>2, <3>1, <3>2, <3>3
  <2>3. CASE pc["parent"] # "read"
    BY <1>1, <1>2, <2>1, <2>3 DEF TurnInv, Idle
  <2> QED BY <2>2, <2>3
<1>6. LogInv'
  BY <1>1 DEF LogInv, AllRight, OnlyLastReplyStale
<1>7. Killed'
  BY <1>1, TwoProcs DEF Killed
<1> QED BY <1>3, <1>4, <1>5, <1>6, <1>7 DEF Matched

(* The ends of the pipes that are held.                                    *)
LEMMA HeldEnds ==
  ASSUME PipeInv
  PROVE  /\ pc["parent"] # "close" => (Held("p", "read") <=> pc["child"] \notin Done)
                                   /\ (Held("c", "write") <=> pc["child"] \notin Done)
         /\ pc["child"] # "close" => (Held("c", "read") <=> pc["parent"] \notin Done)
                                  /\ (Held("p", "write") <=> pc["parent"] \notin Done)
<1> USE DEF PipeInv
<1>1. ASSUME NEW p \in Procs
      PROVE  \/ pc[p] = "close" /\ open[p] = Ends
             \/ pc[p] \in {"read", "write", "end"} /\ open[p] = Own(p)
             \/ pc[p] \in Done /\ open[p] = {}
  BY <1>1 DEF TypeOK, OpenInv
<1>2. /\ <<"p", "read">> \notin Own("parent") /\ <<"p", "read">> \in Own("child")
      /\ <<"c", "write">> \notin Own("parent") /\ <<"c", "write">> \in Own("child")
      /\ <<"c", "read">> \in Own("parent") /\ <<"c", "read">> \notin Own("child")
      /\ <<"p", "write">> \in Own("parent") /\ <<"p", "write">> \notin Own("child")
  BY DEF Own
<1>3. \A k \in {"p", "c"}, dir \in {"read", "write"} : <<k, dir>> \in Ends
  BY DEF Ends
<1>4. /\ "close" \notin Done /\ "read" \notin Done /\ "write" \notin Done /\ "end" \notin Done
  BY DEF Done
<1>5. \A k, dir : Held(k, dir) <=> <<k, dir>> \in open["parent"] \/ <<k, dir>> \in open["child"]
  BY TwoProcs DEF Held
<1> QED BY <1>1, <1>2, <1>3, <1>4, <1>5, TwoProcs

(* The close calls before and after the loops.                             *)
LEMMA CloseStep ==
  ASSUME PipeInv, NEW p \in Procs, NEW label,
         \/ pc[p] = "close" /\ label = (IF p = "parent" THEN "write" ELSE "read")
         \/ pc[p] = "end" /\ label = "spin",
         open' = [open EXCEPT ![p] = IF label = "spin" THEN {} ELSE Own(p)],
         Goto(p, label), UNCHANGED <<pipe, i, msg1, msg_r, r1, log>>
  PROVE  PipeInv' /\ Matched
<1> USE DEF PipeInv
<1>1. label \in {"close", "read", "write", "end"} \cup Done
  BY DEF Done
<1>2. /\ pc'[p] = label /\ \A q \in Procs \ {p} : pc'[q] = pc[q]
      /\ pc' \in [Procs -> {"close", "read", "write", "end"} \cup Done]
  BY <1>1, GotoPC
<1>3. /\ open'[p] = (IF label = "spin" THEN {} ELSE Own(p))
      /\ \A q \in Procs \ {p} : open'[q] = open[q]
      /\ open' \in [Procs -> SUBSET Ends]
  <2>1. Own(p) \subseteq Ends
    BY DEF Own, Ends
  <2> QED BY <2>1 DEF TypeOK
<1>4. TypeOK'
  BY <1>2, <1>3 DEF TypeOK
<1>5. OpenInv' /\ LoopInv'
  BY <1>2, <1>3 DEF OpenInv, LoopInv, Done
<1>6. TurnInv'
  <2>1. /\ pc'["parent"] = "dead" <=> pc["parent"] = "dead"
        /\ pc'["parent"] = "read" <=> pc["parent"] = "read"
        /\ pc'["child"] = "dead" <=> pc["child"] = "dead"
        /\ pc'["child"] = "write" <=> pc["child"] = "write"
        /\ pc["child"] \in {"close", "read"} => pc'["child"] \in {"close", "read"}
        /\ pc["child"] \in {"read", "end", "spin"} => pc'["child"] \in {"read", "end", "spin"}
    BY <1>2, TwoProcs
  <2>2. /\ Asked => Asked'
        /\ Taken => Taken'
        /\ Answered => Answered'
        /\ Idle => Idle'
    BY <2>1 DEF Asked, Taken, Answered, Idle
  <2> QED BY <2>1, <2>2 DEF TurnInv
<1>7. LogInv'
  <2>1. /\ pc'["child"] = "dead" <=> pc["child"] = "dead"
        /\ pc'["parent"] \in {"close", "read"} => pc["parent"] \in {"close", "read"}
    BY <1>2, TwoProcs
  <2> QED BY <2>1 DEF LogInv, AllRight, OnlyLastReplyStale
<1>8. UNCHANGED RR!vars
  BY <1>2, TwoProcs DEF RR!vars
<1> QED BY <1>4, <1>5, <1>6, <1>7, <1>8 DEF Matched

LEMMA WriteStep ==
  ASSUME PipeInv, ParentWrite
  PROVE  PipeInv' /\ Matched
<1> USE DEF PipeInv
<1>1. /\ pc["parent"] = "write" /\ msg1' \in Requests
      /\ Write("parent", "p", msg1', "read")
      /\ UNCHANGED <<i, msg_r, r1, log>>
  BY DEF ParentWrite
<1>2. CASE ~ Held("p", "read")
  <2>1. Exit("parent") /\ UNCHANGED pipe
    BY <1>1, <1>2 DEF Write
  <2> QED BY <1>1, <2>1, ParentExit DEF TypeOK
<1>3. CASE Held("p", "read")
  <2>1. /\ pipe' = [pipe EXCEPT !["p"] = Append(pipe["p"], msg1')]
        /\ Goto("parent", "read") /\ UNCHANGED open
    BY <1>1, <1>3 DEF Write
  <2>2. /\ pc'["parent"] = "read" /\ pc'["child"] = pc["child"]
        /\ pc' \in [Procs -> {"close", "read", "write", "end"} \cup Done]
    BY <2>1, GotoPC, TwoProcs
  <2>3. pc["child"] \notin Done
    BY <1>1, <1>3, HeldEnds
  <2>4. pc["child"] # "dead" /\ pc["child"] # "spin"
    BY <2>3 DEF Done
  <2>5. pipe["p"] = <<>> /\ pipe["c"] = <<>> /\ pc["child"] # "write"
    BY <1>1, <2>4 DEF TurnInv, Idle
  <2>6. i["parent"] < Rounds /\ i["child"] = i["parent"] /\ i["parent"] \in Nat
    <3>1. i["child"] = i["parent"] + Len(pipe["c"])
      BY <1>1, <2>4 DEF TurnInv
    <3>2. Len(pipe["c"]) = 0
      BY <2>5
    <3> QED BY <1>1, <3>1, <3>2, TwoProcs DEF LoopInv, TypeOK
  <2>7. pc["child"] \in {"close", "read"}
    BY <2>4, <2>5, <2>6, TwoProcs DEF LoopInv, TypeOK, Done
  <2>8. pipe'["p"] = <<msg1'>> /\ pipe'["c"] = <<>>
    <3>1. Append(<<>>, msg1') = <<msg1'>>
      OBVIOUS
    <3> QED BY <2>1, <2>5, <3>1 DEF TypeOK
  <2>9. TypeOK'
    <3>1. <<msg1'>> \in Seq(Requests \cup Replies)
      BY <1>1
    <3>2. pipe' = [pipe EXCEPT !["p"] = <<msg1'>>]
      <4>1. Append(pipe["p"], msg1') = <<msg1'>>
        BY <2>5
      <4> QED BY <2>1, <4>1
    <3>3. pipe' \in [{"p", "c"} -> Seq(Requests \cup Replies)]
      BY <3>1, <3>2 DEF TypeOK
    <3> QED BY <1>1, <2>1, <2>2, <3>3 DEF TypeOK
  <2>10. OpenInv' /\ LoopInv'
    BY <1>1, <2>1, <2>2, TwoProcs DEF OpenInv, LoopInv, Done
  <2>11. TurnInv'
    <3>1. Asked'
      BY <2>2, <2>7, <2>8 DEF Asked
    <3>2. Len(pipe'["c"]) = 0
      BY <2>8
    <3> QED BY <1>1, <2>2, <2>6, <3>1, <3>2 DEF TurnInv
  <2>12. LogInv'
    BY <1>1, <2>2, <2>4 DEF LogInv, AllRight, OnlyLastReplyStale
  <2>13. RR!Ask(msg1')
    <3>1. Len(log) < Rounds
      BY <2>6 DEF LogInv
    <3> QED BY <1>1, <2>2, <2>5, <2>8, <3>1 DEF RR!Ask
  <2> QED BY <1>1, <2>9, <2>10, <2>11, <2>12, <2>13 DEF Matched, RR!Next
<1> QED BY <1>2, <1>3

LEMMA ReadStep ==
  ASSUME PipeInv, ParentRead
  PROVE  PipeInv' /\ Matched
<1> USE DEF PipeInv
<1>1. PICK m \in Replies \cup {Garbage} :
        /\ Read("c", r1["parent"], m)
        /\ r1' = [r1 EXCEPT !["parent"] = m]
        /\ \/ /\ log' = Append(log, <<msg1, m>>)
              /\ NextRound("parent", "write") /\ UNCHANGED open
           \/ /\ m = Garbage
              /\ Exit("parent") /\ UNCHANGED <<i, log>>
  BY DEF ParentRead
<1>2. pc["parent"] = "read" /\ UNCHANGED <<msg1, msg_r>>
  BY DEF ParentRead
<1>3. /\ pipe' \in [{"p", "c"} -> Seq(Requests \cup Replies)]
      /\ pipe'["p"] = pipe["p"]
      /\ \/ pipe["c"] # <<>> /\ m = Head(pipe["c"]) /\ pipe'["c"] = Tail(pipe["c"])
         \/ pipe["c"] = <<>> /\ pipe'["c"] = <<>> /\ ~ Held("c", "write")
  <2>1. CASE pipe["c"] # <<>>
    <3>1. m = Head(pipe["c"]) /\ pipe' = [pipe EXCEPT !["c"] = Tail(pipe["c"])]
      BY <1>1, <2>1 DEF Read
    <3>2. Tail(pipe["c"]) \in Seq(Requests \cup Replies)
      BY <2>1 DEF TypeOK
    <3> QED BY <2>1, <3>1, <3>2 DEF TypeOK
  <2>2. CASE pipe["c"] = <<>>
    BY <1>1, <2>2 DEF Read, TypeOK
  <2> QED BY <2>1, <2>2
<1>4. r1' \in [Procs -> Replies \cup {Garbage}]
  BY <1>1 DEF TypeOK
<1>5. CASE Exit("parent") /\ UNCHANGED <<i, log>>
  BY <1>2, <1>3, <1>4, <1>5, ParentExit DEF TypeOK
<1>6. CASE /\ log' = Append(log, <<msg1, m>>)
           /\ NextRound("parent", "write") /\ UNCHANGED open
  <2>1. /\ pc'["parent"] = (IF i["parent"] + 1 < Rounds THEN "write" ELSE "end")
        /\ pc'["child"] = pc["child"]
        /\ pc' \in [Procs -> {"close", "read", "write", "end"} \cup Done]
    BY <1>6, GotoPC, TwoProcs DEF NextRound
  <2>2. /\ i["parent"] \in Nat /\ i["parent"] < Rounds /\ Rounds \in Nat
        /\ i'["parent"] = i["parent"] + 1 /\ i'["child"] = i["child"]
        /\ i' \in [Procs -> 0..Rounds]
    <3>1. i["parent"] \in Nat /\ i["parent"] < Rounds /\ Rounds \in Nat
      BY <1>2, TwoProcs, RoundsAssumption DEF LoopInv, TypeOK
    <3>2. i' = [i EXCEPT !["parent"] = i["parent"] + 1]
      BY <1>6 DEF NextRound
    <3> QED BY <3>1, <3>2, TwoProcs DEF TypeOK
  <2>3. TypeOK'
    BY <1>2, <1>3, <1>4, <1>6, <2>1, <2>2 DEF TypeOK
  <2>4. OpenInv' /\ LoopInv'
    <3>1. \/ pc'["parent"] = "write" /\ i'["parent"] < Rounds
          \/ pc'["parent"] = "end" /\ i'["parent"] = Rounds
      BY <2>1, <2>2
    <3>2. OpenInv'
      BY <1>2, <1>6, <2>1, <3>1, TwoProcs DEF OpenInv, Done
    <3>3. LoopInv'
      BY <2>1, <2>2, <3>1, TwoProcs DEF LoopInv
    <3> QED BY <3>2, <3>3
  <2>5. msg1 \in Requests /\ (Asked \/ Taken \/ Answered)
    BY <1>2 DEF TurnInv
  <2>6. AllRight /\ log \in Seq(Exchanges) /\ Len(log) = i["parent"]
    BY <1>2 DEF LogInv
  <2>7. <<msg1, m>> \in Exchanges
    BY <2>5 DEF Exchanges
  <2>8. /\ log' \in Seq(Exchanges) /\ Len(log') = Len(log) + 1
        /\ log'[Len(log) + 1] = <<msg1, m>>
        /\ \A n \in 1..Len(log) : log'[n] = log[n]
        /\ DOMAIN log' = 1..(Len(log) + 1) /\ DOMAIN log = 1..Len(log)
    BY <1>6, <2>6, <2>7
  <2>9. CASE Answered
    <3>1. m = child_status_update(msg1) /\ pipe'["c"] = <<>>
      <4>1. /\ Head(<<child_status_update(msg1)>>) = child_status_update(msg1)
            /\ Tail(<<child_status_update(msg1)>>) = <<>>
            /\ <<child_status_update(msg1)>> # <<>>
        OBVIOUS
      <4>2. pipe["c"] = <<child_status_update(msg1)>>
        BY <2>9 DEF Answered
      <4> HIDE DEF child_status_update
      <4> QED BY <1>3, <4>1, <4>2
    <3>2. Len(pipe["c"]) = 1 /\ Len(pipe'["c"]) = 0
      BY <2>9, <3>1 DEF Answered
    <3>3. TurnInv'
      <4>1. Idle'
        BY <1>3, <2>1, <2>9, <3>1 DEF Idle, Answered
      <4>2. pc["child"] # "dead" => i["child"] = i["parent"] + 1
        BY <1>2, <3>2 DEF TurnInv
      <4> QED BY <2>1, <2>2, <3>2, <4>1, <4>2 DEF TurnInv
    <3>4. AllRight'
      <4>1. ASSUME NEW n \in DOMAIN log' PROVE log'[n][2] = child_status_update(log'[n][1])
        <5>1. CASE n = Len(log) + 1
          BY <2>8, <3>1, <5>1
        <5>2. CASE n \in DOMAIN log
          BY <2>6, <2>8, <5>2 DEF AllRight
        <5> QED BY <2>6, <2>8, <5>1, <5>2
      <4> QED BY <4>1 DEF AllRight
    <3>5. LogInv'
      BY <2>2, <2>6, <2>8, <3>4 DEF LogInv, AllRight, OnlyLastReplyStale
    <3>6. RR!Take
      <4>1. pipe["c"] = <<child_status_update(msg1)>>
        BY <2>9 DEF Answered
      <4>2. pipe["c"] # <<>> /\ pipe["c"][1] = m
        BY <3>1, <4>1
      <4> QED BY <1>2, <1>6, <2>1, <3>1, <4>2 DEF RR!Take
    <3> QED BY <2>3, <2>4, <3>3, <3>5, <3>6 DEF Matched, RR!Next
  <2>10. CASE ~Answered
    <3>1. pipe["c"] = <<>> /\ pipe'["c"] = <<>> /\ ~ Held("c", "write")
      BY <1>3, <2>5, <2>10 DEF Asked, Taken
    <3>2. pc["child"] \in Done
      BY <1>2, <3>1, HeldEnds
    <3>3. pc["child"] = "dead"
      BY <2>5, <2>10, <3>2 DEF Asked, Taken, Done
    <3>4. TurnInv'
      BY <2>1, <3>1, <3>3 DEF TurnInv, Idle
    <3>5. OnlyLastReplyStale'
      <4>1. SUFFICES ASSUME NEW n \in DOMAIN log'
                     PROVE  log'[n][2] = child_status_update(log'[n][1]) \/ n = Len(log')
        BY <2>1, <3>3 DEF OnlyLastReplyStale
      <4>2. CASE n \in DOMAIN log
        BY <2>6, <2>8, <4>2 DEF AllRight
      <4> QED BY <2>6, <2>8, <4>2
    <3>6. LogInv'
      BY <2>1, <2>2, <2>6, <2>8, <3>3, <3>5 DEF LogInv
    <3>7. Killed'
      BY <2>1, <3>3, TwoProcs DEF Killed
    <3> QED BY <2>3, <2>4, <3>4, <3>6, <3>7 DEF Matched
  <2> QED BY <2>9, <2>10
<1> QED BY <1>1, <1>5, <1>6

LEMMA ChildReadStep ==
  ASSUME PipeInv, ChildRead
  PROVE  PipeInv' /\ Matched
<1> USE DEF PipeInv
<1>1. PICK m \in Requests \cup {Garbage} :
        /\ Read("p", msg_r, m)
        /\ msg_r' = m
        /\ \/ Goto("child", "write") /\ UNCHANGED open
           \/ m = Garbage /\ Exit("child")
  BY DEF ChildRead
<1>2. pc["child"] = "read" /\ UNCHANGED <<i, msg1, r1, log>>
  BY DEF ChildRead
<1>3. \/ /\ pipe["p"] # <<>> /\ m = Head(pipe["p"])
         /\ pipe' = [pipe EXCEPT !["p"] = Tail(pipe["p"])]
      \/ pipe["p"] = <<>> /\ ~ Held("p", "write") /\ UNCHANGED pipe
  BY <1>1 DEF Read
<1>4. CASE Exit("child")
  BY <1>1, <1>2, <1>3, <1>4, ChildExit DEF TypeOK
<1>5. CASE Goto("child", "write") /\ UNCHANGED open
  <2>1. /\ pc'["child"] = "write" /\ pc'["parent"] = pc["parent"]
        /\ pc' \in [Procs -> {"close", "read", "write", "end"} \cup Done]
    BY <1>5, GotoPC, TwoProcs
  <2>2. /\ pipe' \in [{"p", "c"} -> Seq(Requests \cup Replies)]
        /\ pipe'["c"] = pipe["c"]
    <3>1. CASE pipe["p"] # <<>> /\ pipe' = [pipe EXCEPT !["p"] = Tail(pipe["p"])]
      <4>1. Tail(pipe["p"]) \in Seq(Requests \cup Replies)
        BY <3>1 DEF TypeOK
      <4> QED BY <3>1, <4>1 DEF TypeOK
    <3> QED BY <1>3, <3>1 DEF TypeOK
  <2>3. TypeOK'
    BY <1>1, <1>2, <1>5, <2>1, <2>2 DEF TypeOK
  <2>4. OpenInv' /\ LoopInv'
    BY <1>2, <1>5, <2>1, TwoProcs DEF OpenInv, LoopInv, Done
  <2>5. LogInv'
    BY <1>2, <2>1 DEF LogInv, AllRight, OnlyLastReplyStale
  <2>6. TurnInv'
    <3>1. CASE pc["parent"] = "dead"
      BY <2>1, <3>1 DEF TurnInv
    <3>2. CASE pc["parent"] \notin {"dead", "spin"}
      <4>1. pc["parent"] \notin Done
        BY <3>2 DEF Done
      <4>2. Held("p", "write")
        BY <1>2, <4>1, HeldEnds
      <4>3. pipe["p"] # <<>> /\ m = Head(pipe["p"]) /\ pipe'["p"] = Tail(pipe["p"])
        BY <1>3, <4>2 DEF TypeOK
      <4>4. pc["parent"] = "read" /\ msg1 \in Requests /\ Asked
        BY <1>2, <3>2, <4>3 DEF TurnInv, Idle, Taken, Answered
      <4>5. pipe["p"] = <<msg1>> /\ pipe["c"] = <<>>
        BY <4>4 DEF Asked
      <4>6. Head(<<msg1>>) = msg1 /\ Tail(<<msg1>>) = <<>>
        OBVIOUS
      <4>7. m = msg1 /\ pipe'["p"] = <<>>
        BY <4>3, <4>5, <4>6
      <4>8. Taken'
        BY <1>1, <1>2, <2>1, <2>2, <4>5, <4>7 DEF Taken
      <4> QED BY <1>2, <2>1, <2>2, <4>4, <4>8 DEF TurnInv
    <3>3. CASE pc["parent"] = "spin"
      <4>1. i["child"] = i["parent"] + Len(pipe["c"]) /\ pipe["c"] = <<>>
        BY <1>2, <3>3 DEF TurnInv, Idle
      <4>2. Len(pipe["c"]) = 0
        BY <4>1
      <4> QED BY <1>2, <3>3, <4>1, <4>2, TwoProcs DEF LoopInv, TypeOK
    <3> QED BY <3>1, <3>2, <3>3
  <2>7. UNCHANGED RR!vars
    BY <1>2, <2>1, <2>2 DEF RR!vars
  <2> QED BY <2>3, <2>4, <2>5, <2>6, <2>7 DEF Matched
<1> QED BY <1>1, <1>4, <1>5

LEMMA ChildWriteStep ==
  ASSUME PipeInv, ChildWrite
  PROVE  PipeInv' /\ Matched
<1> USE DEF PipeInv
<1> DEFINE reply == child_status_update(msg_r)
<1>1. /\ pc["child"] = "write" /\ UNCHANGED <<msg1, msg_r, log>>
      /\ r1' = [r1 EXCEPT !["child"] = reply]
  BY DEF ChildWrite
<1>2. reply \in Replies \/ msg_r \notin Requests \cup {Garbage}
  BY DEF Replies
<1>3. reply \in Replies
  BY <1>2 DEF TypeOK
<1>4. r1' \in [Procs -> Replies \cup {Garbage}] /\ r1'["child"] = reply
  BY <1>1, <1>3, TwoProcs DEF TypeOK
<1> HIDE DEF reply
<1>5. CASE ~ Held("c", "read")
  <2>1. Exit("child") /\ UNCHANGED <<pipe, i>>
    BY <1>5 DEF ChildWrite
  <2> QED BY <1>1, <1>4, <2>1, ChildExit DEF TypeOK
<1>6. CASE Held("c", "read")
  <2>1. /\ pipe' = [pipe EXCEPT !["c"] = Append(pipe["c"], reply)]
        /\ NextRound("child", "read") /\ UNCHANGED open
    BY <1>4, <1>6 DEF ChildWrite
  <2>2. /\ pc'["child"] = (IF i["child"] + 1 < Rounds THEN "read" ELSE "end")
        /\ pc'["parent"] = pc["parent"]
        /\ pc' \in [Procs -> {"close", "read", "write", "end"} \cup Done]
    BY <2>1, GotoPC, TwoProcs DEF NextRound
  <2>3. /\ i["child"] \in Nat /\ i["child"] < Rounds /\ Rounds \in Nat
        /\ i'["child"] = i["child"] + 1 /\ i'["parent"] = i["parent"]
        /\ i' \in [Procs -> 0..Rounds]
    <3>1. i["child"] \in Nat /\ i["child"] < Rounds /\ Rounds \in Nat
      BY <1>1, TwoProcs, RoundsAssumption DEF LoopInv, TypeOK
    <3>2. i' = [i EXCEPT !["child"] = i["child"] + 1]
      BY <2>1 DEF NextRound
    <3> QED BY <3>1, <3>2, TwoProcs DEF TypeOK
  <2>4. /\ pipe' \in [{"p", "c"} -> Seq(Requests \cup Replies)]
        /\ pipe'["p"] = pipe["p"] /\ pipe'["c"] = Append(pipe["c"], reply)
    <3>1. Append(pipe["c"], reply) \in Seq(Requests \cup Replies)
      BY <1>3 DEF TypeOK
    <3> QED BY <2>1, <3>1 DEF TypeOK
  <2>5. TypeOK'
    BY <1>1, <1>4, <2>1, <2>2, <2>3, <2>4 DEF TypeOK
  <2>6. OpenInv' /\ LoopInv'
    <3>1. \/ pc'["child"] = "read" /\ i'["child"] < Rounds
          \/ pc'["child"] = "end" /\ i'["child"] = Rounds
      BY <2>2, <2>3
    <3>2. OpenInv'
      BY <1>1, <2>1, <2>2, <3>1, TwoProcs DEF OpenInv, Done
    <3>3. LoopInv'
      BY <2>2, <2>3, <3>1, TwoProcs DEF LoopInv
    <3> QED BY <3>2, <3>3
  <2>7. LogInv'
    BY <1>1, <2>2, <2>3 DEF LogInv, AllRight, OnlyLastReplyStale
  <2>8. CASE pc["parent"] = "dead"
    <3>1. TurnInv' /\ Killed'
      BY <2>2, <2>8, TwoProcs DEF TurnInv, Killed
    <3> QED BY <2>5, <2>6, <2>7, <3>1 DEF Matched
  <2>9. CASE pc["parent"] # "dead"
    <3>1. pc["parent"] = "read" /\ msg1 \in Requests /\ Taken
      BY <1>1, <2>9 DEF TurnInv, Idle, Asked, Answered
    <3>2. reply = child_status_update(msg1) /\ pipe["c"] = <<>> /\ pipe["p"] = <<>>
      BY <1>1, <3>1 DEF Taken, reply
    <3>3. pipe'["c"] = <<child_status_update(msg1)>> /\ pipe'["p"] = <<>>
      <4>1. Append(<<>>, reply) = <<reply>>
        OBVIOUS
      <4> QED BY <2>4, <3>2, <4>1
    <3>4. TurnInv'
      <4>1. Answered'
        BY <1>1, <2>2, <3>3 DEF Answered
      <4>2. Len(pipe["c"]) = 0 /\ Len(pipe'["c"]) = 1
        BY <3>2, <3>3
      <4>3. i["child"] = i["parent"] + Len(pipe["c"])
        BY <1>1, <2>9 DEF TurnInv
      <4>4. i'["child"] = i'["parent"] + Len(pipe'["c"])
        BY <2>3, <4>2, <4>3, TwoProcs DEF TypeOK
      <4> QED BY <1>1, <2>2, <3>1, <4>1, <4>4 DEF TurnInv
    <3>5. RR!Reply
      BY <1>1, <2>2, <3>1, <3>2, <3>3 DEF RR!Reply
    <3> QED BY <2>5, <2>6, <2>7, <3>4, <3>5 DEF Matched, RR!Next
  <2> QED BY <2>8, <2>9
<1> QED BY <1>5, <1>6

LEMMA PipeStep == PipeInv /\ [Next]_vars => PipeInv' /\ Matched
<1> SUFFICES ASSUME PipeInv, [Next]_vars PROVE PipeInv' /\ Matched
  OBVIOUS
<1>1. ASSUME NEW p \in Procs, End(p) PROVE PipeInv' /\ Matched
  BY <1>1, CloseStep DEF End
<1>2. ASSUME ParentClose PROVE PipeInv' /\ Matched
  <2>1. PipeInv => open["parent"] \ {<<"p", "read">>, <<"c", "write">>} = Own("parent")
    BY <1>2, TwoProcs DEF PipeInv, OpenInv, ParentClose, Own, Ends
  <2> QED BY <1>2, <2>1, CloseStep, TwoProcs DEF ParentClose
<1>3. ASSUME ChildClose PROVE PipeInv' /\ Matched
  <2>1. PipeInv => open["child"] \ {<<"p", "write">>, <<"c", "read">>} = Own("child")
    BY <1>3, TwoProcs DEF PipeInv, OpenInv, ChildClose, Own, Ends
  <2> QED BY <1>3, <2>1, CloseStep, TwoProcs DEF ChildClose
<1>4. ASSUME NEW p \in Procs, handler(p) PROVE PipeInv' /\ Matched
  <2>1. TypeOK
    BY DEF PipeInv
  <2> QED BY <1>4, <2>1, ParentExit, ChildExit, TwoProcs DEF handler, TypeOK
<1>5. CASE UNCHANGED vars
  <2>1. PipeInv'
    BY <1>5 DEF vars, PipeInv, TypeOK, OpenInv, LoopInv, TurnInv, Asked, Taken, Answered, Idle, LogInv,
       AllRight, OnlyLastReplyStale
  <2>2. UNCHANGED RR!vars
    BY <1>5 DEF vars, RR!vars
  <2> QED BY <2>1, <2>2 DEF Matched
<1> QED BY <1>1, <1>2, <1>3, <1>4, <1>5, WriteStep, ReadStep, ChildReadStep, ChildWriteStep, TwoProcs
     DEF Next, Parent, Child

(* The invariant holds throughout.                                         *)
THEOREM Invariance == Spec => []PipeInv
BY InitPipe, PipeStep, PTL DEF Spec

(* Type correctness of the two processes and their pipes.                  *)
THEOREM TypeCorrect == Spec => []TypeOK
<1>1. PipeInv => TypeOK
  BY DEF PipeInv
<1> QED BY <1>1, Invariance, PTL

(* Whenever either process is interrupted, at most the last logged reply   *)
(* is a stale one, and only when the child is dead.                        *)
THEOREM StaleOnlyAtTheEnd == Spec => []OnlyLastReplyStale
<1>1. PipeInv => OnlyLastReplyStale
  BY DEF PipeInv, LogInv
<1> QED BY <1>1, Invariance, PTL

(* Until one of the processes is dead the two pipes implement one question *)
(* and its answer at a time.                                               *)
THEOREM Refinement == Spec => Implements
<1>1. Init => RR!Init
  BY DEF Init, RR!Init, Procs
<1>2. PipeInv /\ [Next]_vars => [Killed' \/ RR!Next]_(RR!vars)
  BY PipeStep DEF Matched
<1> QED BY <1>1, <1>2, Invariance, PTL DEF Spec, Implements
================================================================================
