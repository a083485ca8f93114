---------------------------- MODULE ShmemIPC_proofs ----------------------------
(***************************************************************************)
(* Proofs about module ShmemIPC, for every set of requests, every number   *)
(* of rounds, and however often the programs are started and interrupted.  *)
(***************************************************************************)
EXTENDS ShmemIPC, TLAPS

InLoop == {"wait", "read", "write", "post"}

(* A process in its loop has rounds left.                                  *)
LoopInv == \A p \in Procs : pc[p] \in InLoop \cup {"open1", "open2"} => i[p] < Rounds

(* What a process has opened, and what it has unlinked.                    *)
OpenInv ==
  \A p \in Procs :
    /\ pc[p] \in InLoop \cup {"unlink1", "unlink2"} => sem[p][1] # 0 /\ sem[p][2] # 0
    /\ pc[p] = "open1" => sem[p][1] = 0
    /\ pc[p] = "open2" => sem[p][1] # 0 /\ sem[p][2] = 0
    /\ sem[p][1] = 0 => sem[p][2] = 0
UnlinkInv ==
  \A p \in Procs :
    /\ pc[p] \in {"down", "unlink2", "int2"} /\ names[1] # 0 => names[1] # sem[p][1]
    /\ pc[p] = "down" /\ names[2] # 0 => names[2] # sem[p][2]

(* No semaphore is behind both names.                                      *)
Behind(k) == {names[k], sem["p1"][k], sem["p2"][k]} \ {0}
KindInv == Behind(1) \cap Behind(2) = {}

(* A process has the turn from its wait to its post.                       *)
Turn(p) == IF pc[p] \in {"read", "write", "post"} THEN 1 ELSE 0

(* A semaphore that can still be opened has no posts but those of the one  *)
(* running process that posts to it.                                       *)
FreshInv ==
  /\ names[1] # 0 /\ sem["p1"][1] # names[1] => value[names[1]] = 0
  /\ names[2] # 0 /\ sem["p2"][2] # names[2] => value[names[2]] = 0
  /\ pc["p1"] = "open2" => value[sem["p1"][1]] = 0

(* p2 has opened semaphore 1, and p1 has not used it.                      *)
Unshared ==
  \/ names[1] = sem["p2"][1] /\ sem["p1"][1] # sem["p2"][1]
  \/ pc["p1"] = "open2" /\ sem["p1"][1] = sem["p2"][1]

(* p1 alone has asked at most once; p2 alone has answered nothing.         *)
AloneInv ==
  /\ (names[2] # 0 /\ sem["p1"][2] = names[2] /\ sem["p2"][2] # names[2]) =>
       value[sem["p1"][1]] + Turn("p1") <= 1
  /\ (names[2] # 0 /\ sem["p2"][2] = names[2] /\ Unshared) =>
       Turn("p2") = 0 /\ value[names[2]] = 0

(* With the same semaphores, at most one has the turn or is given it.      *)
TurnInv ==
  Paired => value[sem["p1"][1]] + value[sem["p1"][2]] + Turn("p1") + Turn("p2") <= 1

PairInv == TypeOK /\ LoopInv /\ OpenInv /\ UnlinkInv /\ KindInv /\ FreshInv /\ AloneInv /\ TurnInv

LEMMA InitPaired == Init => PairInv
<1> SUFFICES ASSUME Init PROVE PairInv
  OBVIOUS
<1>1. TypeOK
  BY RoundsAssumption, BoundsAssumption DEF Init, TypeOK, Procs, PC
<1> QED BY <1>1, RoundsAssumption DEF Init, PairInv, LoopInv, OpenInv, UnlinkInv, KindInv, Behind, FreshInv, AloneInv, TurnInv,
     Paired, Procs, InLoop

-----------------------------------------------------------------------------
(* What the operations on semaphores do.                                   *)

(* The types of the state the semaphores live in.                          *)
SemTypes ==
  /\ value \in Seq(Nat)
  /\ names \in [1..2 -> 0..Len(value)]
  /\ sem \in [Procs -> [1..2 -> 0..Len(value)]]
  /\ pc \in [Procs -> PC]

LEMMA Types == TypeOK => SemTypes
BY DEF TypeOK, SemTypes

LEMMA GotoPC ==
  ASSUME SemTypes, NEW p \in Procs, NEW label \in PC, Goto(p, label)
  PROVE  /\ pc' \in [Procs -> PC] /\ pc'[p] = label
         /\ \A q \in Procs \ {p} : pc'[q] = pc[q]
BY DEF Goto, SemTypes

(* Where semaphores are, and that the two kinds are different ones.        *)
LEMMA SemAt ==
  ASSUME SemTypes
  PROVE  /\ Len(value) \in Nat
         /\ \A x \in 1..Len(value) : value[x] \in Nat
         /\ \A l \in 1..2 : names[l] \in 0..Len(value) /\ (names[l] # 0 => names[l] \in 1..Len(value))
         /\ \A q \in Procs, l \in 1..2 :
              sem[q][l] \in 0..Len(value) /\ (sem[q][l] # 0 => sem[q][l] \in 1..Len(value))
BY DEF SemTypes

LEMMA Kinds ==
  ASSUME KindInv, NEW x \in Behind(1), NEW y \in Behind(2)
  PROVE  x # y
BY DEF KindInv

(* What p1 and p2 have, and what is behind the names.                      *)
LEMMA Apart ==
  ASSUME KindInv, NEW p \in Procs
  PROVE  /\ sem[p][1] # 0 => /\ sem[p][1] # sem["p1"][2] /\ sem[p][1] # sem["p2"][2]
                            /\ sem[p][1] # names[2]
         /\ sem[p][2] # 0 => /\ sem[p][2] # sem["p1"][1] /\ sem[p][2] # sem["p2"][1]
                            /\ sem[p][2] # names[1]
BY DEF KindInv, Behind, Procs

(* One entry of the values changes.                                        *)
LEMMA ValueAt ==
  ASSUME SemTypes, NEW s \in 1..Len(value), NEW v \in Nat,
         value' = [value EXCEPT ![s] = v]
  PROVE  /\ value' \in Seq(Nat) /\ Len(value') = Len(value)
         /\ value'[s] = v
         /\ \A x \in 1..Len(value) : x # s => value'[x] = value[x]
BY DEF SemTypes

LEMMA Post ==
  ASSUME SemTypes, NEW p \in Procs, NEW k \in 1..2, sem[p][k] # 0, sem_post(p, k)
  PROVE  /\ sem[p][k] \in 1..Len(value) /\ value[sem[p][k]] \in Nat
         /\ value' \in Seq(Nat) /\ Len(value') = Len(value)
         /\ value'[sem[p][k]] = value[sem[p][k]] + 1
         /\ \A x \in 1..Len(value) : x # sem[p][k] => value'[x] = value[x]
<1>1. sem[p][k] \in 1..Len(value) /\ value[sem[p][k]] \in Nat
  BY DEF SemTypes
<1>2. value[sem[p][k]] + 1 \in Nat
  BY <1>1
<1> QED BY <1>1, <1>2, ValueAt DEF sem_post

LEMMA Wait ==
  ASSUME SemTypes, NEW p \in Procs, NEW k \in 1..2, sem[p][k] # 0, sem_wait(p, k)
  PROVE  /\ sem[p][k] \in 1..Len(value) /\ value[sem[p][k]] \in Nat \ {0}
         /\ value' \in Seq(Nat) /\ Len(value') = Len(value)
         /\ value'[sem[p][k]] = value[sem[p][k]] - 1
         /\ \A x \in 1..Len(value) : x # sem[p][k] => value'[x] = value[x]
<1>1. sem[p][k] \in 1..Len(value) /\ value[sem[p][k]] \in Nat \ {0}
  BY DEF SemTypes, sem_wait
<1>2. value[sem[p][k]] - 1 \in Nat
  BY <1>1
<1> QED BY <1>1, <1>2, ValueAt DEF sem_wait

(* sem_open gives p what is behind the name: that, or a new semaphore.     *)
LEMMA Open ==
  ASSUME SemTypes, NEW p \in Procs, NEW k \in 1..2, NEW after \in PC, sem_open(p, k, after)
  PROVE  /\ pc[p] = OpenLabel(k) /\ pc'[p] = after
         /\ \A q \in Procs \ {p} : pc'[q] = pc[q]
         /\ sem'[p][k] = names'[k] /\ names'[k] # 0
         /\ \A q \in Procs, l \in 1..2 : ~(q = p /\ l = k) => sem'[q][l] = sem[q][l]
         /\ \A l \in 1..2 \ {k} : names'[l] = names[l]
         /\ \/ /\ names[k] # 0 /\ names'[k] = names[k]
               /\ value' = value
            \/ /\ names[k] = 0 /\ names'[k] = Len(value) + 1
               /\ Len(value') = Len(value) + 1 /\ value'[Len(value) + 1] = 0
               /\ \A x \in 1..Len(value) : value'[x] = value[x]
         /\ SemTypes'
<1>1. /\ pc' \in [Procs -> PC] /\ pc[p] = OpenLabel(k) /\ pc'[p] = after
      /\ \A q \in Procs \ {p} : pc'[q] = pc[q]
  BY GotoPC DEF sem_open
<1>2. \/ /\ names[k] # 0 /\ names' = names /\ value' = value
      \/ /\ names[k] = 0 /\ names' = [names EXCEPT ![k] = Len(value) + 1]
         /\ value' = Append(value, 0)
  BY DEF sem_open
<1>3. /\ value' \in Seq(Nat) /\ Len(value') \in Nat /\ Len(value) <= Len(value')
      /\ \/ names[k] # 0 /\ value' = value
         \/ /\ names[k] = 0 /\ Len(value') = Len(value) + 1 /\ value'[Len(value) + 1] = 0
            /\ \A x \in 1..Len(value) : value'[x] = value[x]
  <2>1. value \in Seq(Nat) /\ Len(value) \in Nat /\ 0 \in Nat
    BY DEF SemTypes
  <2>2. CASE value' = value
    BY <1>2, <2>1, <2>2
  <2>3. CASE value' = Append(value, 0)
    BY <1>2, <2>1, <2>3
  <2> QED BY <1>2, <2>2, <2>3
<1>4. /\ names' \in [1..2 -> 0..Len(value')]
      /\ names'[k] = IF names[k] # 0 THEN names[k] ELSE Len(value) + 1
      /\ names'[k] # 0 /\ \A l \in 1..2 \ {k} : names'[l] = names[l]
  <2>1. names \in [1..2 -> 0..Len(value)] /\ Len(value) \in Nat
    BY DEF SemTypes
  <2>2. CASE names' = names
    BY <1>2, <1>3, <2>1, <2>2
  <2>3. CASE names' = [names EXCEPT ![k] = Len(value) + 1]
    BY <1>2, <1>3, <2>1, <2>3
  <2> QED BY <1>2, <2>2, <2>3
<1>5. sem' = [sem EXCEPT ![p][k] = names'[k]]
  BY DEF sem_open
<1>6. /\ sem' \in [Procs -> [1..2 -> 0..Len(value')]]
      /\ sem'[p][k] = names'[k]
      /\ \A q \in Procs, l \in 1..2 : ~(q = p /\ l = k) => sem'[q][l] = sem[q][l]
  <2>1. \A q \in Procs : sem[q] \in [1..2 -> 0..Len(value')]
    <3>1. Len(value) \in Nat /\ 0..Len(value) \subseteq 0..Len(value')
      BY <1>3 DEF SemTypes
    <3> QED BY <3>1 DEF SemTypes
  <2>2. [sem[p] EXCEPT ![k] = names'[k]] \in [1..2 -> 0..Len(value')]
    BY <1>4, <2>1
  <2>3. sem' = [sem EXCEPT ![p] = [sem[p] EXCEPT ![k] = names'[k]]]
    BY <1>5
  <2>4. /\ sem'[p] = [sem[p] EXCEPT ![k] = names'[k]]
        /\ \A q \in Procs \ {p} : sem'[q] = sem[q]
    BY <2>3 DEF SemTypes
  <2>5. sem' \in [Procs -> [1..2 -> 0..Len(value')]]
    BY <2>1, <2>2, <2>3 DEF SemTypes
  <2> QED BY <2>1, <2>4, <2>5
<1> QED BY <1>1, <1>3, <1>4, <1>6 DEF SemTypes

-----------------------------------------------------------------------------
(* Every step keeps the types.                                             *)
LEMMA TypeStep == TypeOK /\ LoopInv /\ OpenInv /\ [Next]_vars => TypeOK' /\ LoopInv'
<1> SUFFICES ASSUME TypeOK, LoopInv, OpenInv, [Next]_vars PROVE TypeOK' /\ LoopInv'
  OBVIOUS
<1>0. /\ SemTypes /\ i \in [Procs -> 0..Rounds] /\ Rounds \in Nat \ {0}
      /\ starts \in [Procs -> 0..MaxStarts] /\ signals \in 0..MaxSignals
      /\ MaxStarts \in Nat /\ MaxSignals \in Nat
  BY Types, RoundsAssumption, BoundsAssumption DEF TypeOK
<1>1. ASSUME SemTypes', UNCHANGED data_send \/ data_send' \in Requests,
             i' \in [Procs -> 0..Rounds], starts' \in [Procs -> 0..MaxStarts],
             signals' \in 0..MaxSignals
      PROVE  TypeOK'
  BY <1>1 DEF TypeOK, SemTypes
<1>2. ASSUME NEW p \in Procs, NEW k \in 1..2, NEW after \in PC, sem_open(p, k, after)
      PROVE  TypeOK' /\ LoopInv'
  <2>1. TypeOK'
    BY <1>0, <1>1, <1>2, Open DEF sem_open
  <2>2. /\ pc[p] \in {"open1", "open2"} /\ i' = i
        /\ \A q \in Procs \ {p} : pc'[q] = pc[q]
    BY <1>0, <1>2, Open DEF sem_open, OpenLabel
  <2> QED BY <2>1, <2>2 DEF LoopInv
<1>3. ASSUME NEW p \in Procs, NEW from, NEW label \in PC, pc[p] = from, Goto(p, label), UNCHANGED <<i, starts>>,
             signals' \in 0..MaxSignals,
             (from \in InLoop /\ label \in InLoop) \/ label \in {"int1", "int2", "unlink2", "down"},
             UNCHANGED data_send \/ data_send' \in Requests,
             \/ UNCHANGED value
             \/ \E k \in 1..2 : from \in InLoop /\ (sem_post(p, k) \/ sem_wait(p, k)),
             UNCHANGED sem, names' \in [1..2 -> 0..Len(value)]
      PROVE  TypeOK' /\ LoopInv'
  <2>1. /\ pc' \in [Procs -> PC] /\ pc'[p] = label
        /\ \A q \in Procs \ {p} : pc'[q] = pc[q]
    BY <1>0, <1>3, GotoPC
  <2>2. value' \in Seq(Nat) /\ Len(value') = Len(value)
    <3>1. CASE UNCHANGED value
      BY <1>0, <3>1 DEF SemTypes
    <3>2. ASSUME NEW k \in 1..2, from \in InLoop, sem_post(p, k) \/ sem_wait(p, k)
          PROVE  value' \in Seq(Nat) /\ Len(value') = Len(value)
      <4>1. sem[p][k] # 0
        BY <1>3, <3>2 DEF OpenInv
      <4> QED BY <1>0, <3>2, <4>1, Post, Wait
    <3> QED BY <1>3, <3>1, <3>2
  <2>3. SemTypes'
    BY <1>0, <1>3, <2>1, <2>2 DEF SemTypes
  <2>4. LoopInv'
    BY <1>0, <1>3, <2>1 DEF LoopInv, InLoop
  <2> QED BY <1>0, <1>1, <1>3, <2>3, <2>4
<1>4. ASSUME NEW p \in Procs, NEW top \in InLoop, NextRound(p, top), pc[p] \in InLoop,
             \/ UNCHANGED value
             \/ \E k \in 1..2 : sem_post(p, k),
             UNCHANGED <<names, sem, data_send, starts, signals>>
      PROVE  TypeOK' /\ LoopInv'
  <2>1. /\ i[p] < Rounds /\ i[p] \in Nat
        /\ i' = [i EXCEPT ![p] = i[p] + 1]
    BY <1>0, <1>4 DEF LoopInv, NextRound
  <2>2. /\ i' \in [Procs -> 0..Rounds] /\ i'[p] = i[p] + 1
        /\ \A q \in Procs \ {p} : i'[q] = i[q]
    BY <1>0, <2>1
  <2> DEFINE label == IF i[p] + 1 < Rounds THEN top ELSE "unlink1"
  <2>3. label \in PC /\ Goto(p, label)
    BY <1>4 DEF NextRound, InLoop, PC
  <2>4. label \in InLoop => i[p] + 1 < Rounds
    BY DEF InLoop
  <2>a. label \notin {"open1", "open2"}
    BY <1>4 DEF InLoop
  <2> HIDE DEF label
  <2>5. /\ pc' \in [Procs -> PC] /\ pc'[p] = label
        /\ \A q \in Procs \ {p} : pc'[q] = pc[q]
    BY <1>0, <2>3, GotoPC
  <2>6. value' \in Seq(Nat) /\ Len(value') = Len(value)
    <3>1. CASE UNCHANGED value
      BY <1>0, <3>1 DEF SemTypes
    <3>2. ASSUME NEW k \in 1..2, sem_post(p, k)
          PROVE  value' \in Seq(Nat) /\ Len(value') = Len(value)
      <4>1. sem[p][k] # 0
        BY <1>4, <3>2 DEF OpenInv
      <4> QED BY <1>0, <3>2, <4>1, Post
    <3> QED BY <1>4, <3>1, <3>2
  <2>7. SemTypes'
    BY <1>0, <1>4, <2>5, <2>6 DEF SemTypes
  <2>8. LoopInv'
    BY <1>0, <2>2, <2>4, <2>a, <2>5 DEF LoopInv
  <2> QED BY <1>0, <1>1, <1>4, <2>2, <2>7, <2>8
<1>5. ASSUME NEW p \in Procs, NEW k \in 1..2, NEW label, NEW after \in {"unlink2", "down", "int2"},
             sem_unlink(p, k, label, after)
      PROVE  TypeOK' /\ LoopInv'
  <2>1. names' \in [1..2 -> 0..Len(value)]
    BY <1>0, <1>5 DEF sem_unlink, SemTypes
  <2>2. after \in PC
    BY DEF PC
  <2> QED BY <1>0, <1>3, <1>5, <2>1, <2>2 DEF sem_unlink
<1>6. ASSUME NEW p \in Procs, Start(p) PROVE TypeOK' /\ LoopInv'
  <2>1. pc' \in [Procs -> PC] /\ \A q \in Procs \ {p} : pc'[q] = pc[q]
    BY <1>0, <1>6, GotoPC DEF Start, PC
  <2>2. sem' \in [Procs -> [1..2 -> 0..Len(value)]]
    BY <1>0, <1>6 DEF Start, SemTypes
  <2>3. i' \in [Procs -> 0..Rounds] /\ i'[p] = 0 /\ \A q \in Procs \ {p} : i'[q] = i[q]
    BY <1>0, <1>6 DEF Start
  <2>4. starts' \in [Procs -> 0..MaxStarts]
    BY <1>0, <1>6 DEF Start
  <2>5. SemTypes' /\ LoopInv'
    BY <1>0, <1>6, <2>1, <2>2, <2>3 DEF Start, SemTypes, LoopInv
  <2> QED BY <1>0, <1>1, <1>6, <2>3, <2>4, <2>5 DEF Start
<1>7. names \in [1..2 -> 0..Len(value)] /\ InLoop \subseteq PC
  BY <1>0 DEF SemTypes, InLoop, PC
<1>8. ASSUME NEW p \in Procs, SIGINT(p) PROVE TypeOK' /\ LoopInv'
  BY <1>0, <1>3, <1>7, <1>8 DEF SIGINT, PC
<1>9. CASE P1
  <2>1. CASE P1Write \/ P1Post \/ P1Wait
    BY <1>0, <1>3, <1>7, <2>1 DEF P1Write, P1Post, P1Wait, Procs, InLoop
  <2>2. CASE P1Read
    BY <1>4, <2>2 DEF P1Read, Procs, InLoop
  <2>3. CASE sem_open("p1", 1, "open2") \/ sem_open("p1", 2, "write")
    BY <1>2, <2>3 DEF Procs, PC
  <2>4. CASE EndNormally("p1") \/ handler("p1")
    BY <1>5, <2>4 DEF EndNormally, handler, Procs
  <2> QED BY <1>9, <2>1, <2>2, <2>3, <2>4 DEF P1
<1>10. CASE P2
  <2>1. CASE P2Wait \/ P2Read \/ P2Write
    BY <1>0, <1>3, <1>7, <2>1 DEF P2Wait, P2Read, P2Write, Procs, InLoop
  <2>2. CASE P2Post
    BY <1>4, <2>2 DEF P2Post, Procs, InLoop
  <2>3. CASE sem_open("p2", 1, "open2") \/ sem_open("p2", 2, "wait")
    BY <1>2, <2>3 DEF Procs, PC
  <2>4. CASE EndNormally("p2") \/ handler("p2")
    BY <1>5, <2>4 DEF EndNormally, handler, Procs
  <2> QED BY <1>10, <2>1, <2>2, <2>3, <2>4 DEF P2
<1>11. CASE UNCHANGED vars
  BY <1>0, <1>1, <1>11 DEF vars, SemTypes, LoopInv
<1> QED BY <1>6, <1>8, <1>9, <1>10, <1>11 DEF Next

-----------------------------------------------------------------------------
(* Every step keeps the account of the turn.                               *)
Account == OpenInv /\ UnlinkInv /\ KindInv /\ FreshInv /\ AloneInv /\ TurnInv

(* A step of p that leaves names and semaphores alone, takes no turn and   *)
(* removes nothing.                                                        *)
LEMMA QuietStep ==
  ASSUME SemTypes, Account, NEW p \in Procs, UNCHANGED <<names, value, sem>>,
         \A q \in Procs \ {p} : pc'[q] = pc[q],
         \/ pc[p] \in InLoop /\ pc'[p] \in InLoop \cup {"unlink1"}
         \/ pc'[p] = "int1",
         pc'[p] \in {"read", "write", "post"} => pc[p] \in {"read", "write", "post"}
  PROVE  Account'
<1> USE DEF Account
<1>1. Turn(p)' <= Turn(p) /\ \A q \in Procs : Turn(q) \in 0..1 /\ Turn(q)' \in 0..1
                         /\ (q # p => Turn(q)' = Turn(q))
  BY DEF Turn
<1>2. OpenInv' /\ UnlinkInv' /\ KindInv'
  BY DEF OpenInv, UnlinkInv, KindInv, Behind, InLoop
<1>3. /\ pc'["p1"] = "open2" => pc["p1"] = "open2"
      /\ Unshared' => Unshared
  BY DEF InLoop, Procs, Unshared
<1>4. FreshInv'
  BY <1>3 DEF FreshInv
<1>5. \A x \in 1..Len(value) : value[x] \in Nat
  BY DEF SemTypes
<1>6. /\ sem["p1"][1] # 0 => sem["p1"][1] \in 1..Len(value)
      /\ sem["p1"][2] # 0 => sem["p1"][2] \in 1..Len(value)
      /\ sem["p1"][2] # 0 => sem["p1"][1] # 0
  BY DEF SemTypes, Procs, OpenInv
<1>7. AloneInv'
  BY <1>1, <1>3, <1>5, <1>6 DEF AloneInv, Procs
<1>8. TurnInv'
  <2>1. SUFFICES ASSUME Paired
                 PROVE  value[sem["p1"][1]] + value[sem["p1"][2]] + Turn("p1")' + Turn("p2")' <= 1
    BY DEF TurnInv, Paired
  <2>2. value[sem["p1"][1]] + value[sem["p1"][2]] + Turn("p1") + Turn("p2") <= 1
    BY <2>1 DEF TurnInv
  <2>3. value[sem["p1"][1]] \in Nat /\ value[sem["p1"][2]] \in Nat
    BY <1>5, <1>6, <2>1 DEF Paired
  <2>4. /\ Turn("p1") \in 0..1 /\ Turn("p1")' \in 0..1 /\ Turn("p1")' <= Turn("p1")
        /\ Turn("p2") \in 0..1 /\ Turn("p2")' \in 0..1 /\ Turn("p2")' <= Turn("p2")
    BY <1>1 DEF Procs
  <2> QED BY <2>2, <2>3, <2>4
<1> QED BY <1>2, <1>4, <1>7, <1>8

(* A process is started: it has no semaphores, and none it had before can  *)
(* be opened again.                                                        *)
LEMMA StartStep ==
  ASSUME SemTypes, Account, NEW p \in Procs, Start(p)
  PROVE  Account'
<1> USE DEF Account
<1>1. /\ pc[p] = "down" /\ pc'[p] = "open1" /\ UNCHANGED <<names, value>>
      /\ \A q \in Procs \ {p} : pc'[q] = pc[q] /\ sem'[q] = sem[q]
      /\ sem'[p] = [k \in 1..2 |-> 0]
  <2>1. pc'[p] = "open1" /\ \A q \in Procs \ {p} : pc'[q] = pc[q]
    BY GotoPC DEF Start, PC
  <2> QED BY <2>1 DEF Start, SemTypes
<1>2. sem'[p][1] = 0 /\ sem'[p][2] = 0
  BY <1>1
<1> HIDE DEF Start
<1>3. OpenInv' /\ UnlinkInv' /\ KindInv'
  BY <1>1, <1>2 DEF OpenInv, UnlinkInv, KindInv, Behind, InLoop, Procs
<1>4. \A k \in 1..2 : names[k] # 0 => names[k] # sem[p][k]
  BY <1>1 DEF UnlinkInv
<1>5. CASE p = "p1"
  <2>1. sem'["p2"] = sem["p2"] /\ pc'["p2"] = pc["p2"]
    BY <1>1, <1>5 DEF Procs
  <2>2. FreshInv'
    BY <1>1, <1>2, <1>4, <1>5, <2>1 DEF FreshInv
  <2>3. AloneInv'
    BY <1>1, <1>2, <1>4, <1>5, <2>1 DEF AloneInv, Unshared, Turn
  <2>4. TurnInv'
    BY <1>2, <1>5 DEF TurnInv, Paired
  <2> QED BY <1>3, <2>2, <2>3, <2>4
<1>6. CASE p = "p2"
  <2>1. sem'["p1"] = sem["p1"] /\ pc'["p1"] = pc["p1"]
    BY <1>1, <1>6 DEF Procs
  <2>2. FreshInv'
    BY <1>1, <1>2, <1>4, <1>6, <2>1 DEF FreshInv
  <2>3. AloneInv'
    BY <1>1, <1>2, <1>4, <1>6, <2>1 DEF AloneInv, Unshared, Turn
  <2>4. TurnInv'
    BY <1>2, <1>6, <2>1 DEF TurnInv, Paired
  <2> QED BY <1>3, <2>2, <2>3, <2>4
<1> QED BY <1>5, <1>6 DEF Procs

(* A name is unlinked: less can be opened.                                 *)
LEMMA UnlinkStep ==
  ASSUME SemTypes, Account, NEW p \in Procs, NEW k \in 1..2, NEW label, NEW after,
         sem_unlink(p, k, label, after),
         \/ k = 1 /\ <<label, after>> \in {<<"unlink1", "unlink2">>, <<"int1", "int2">>}
         \/ k = 2 /\ <<label, after>> \in {<<"unlink2", "down">>, <<"int2", "down">>}
  PROVE  Account'
<1> USE DEF Account
<1>1. /\ pc[p] = label /\ pc'[p] = after /\ UNCHANGED <<value, sem>>
      /\ \A q \in Procs \ {p} : pc'[q] = pc[q]
      /\ names'[k] = 0 /\ \A l \in 1..2 \ {k} : names'[l] = names[l]
  <2>1. after \in PC
    BY DEF PC
  <2>2. pc'[p] = after /\ \A q \in Procs \ {p} : pc'[q] = pc[q]
    BY <2>1, GotoPC DEF sem_unlink
  <2> QED BY <2>2 DEF sem_unlink, SemTypes
<1>2. \A q \in Procs : Turn(q)' = Turn(q)
  BY <1>1 DEF Turn
<1>3. OpenInv' /\ KindInv'
  BY <1>1 DEF OpenInv, KindInv, Behind, InLoop, Procs
<1>4. UnlinkInv'
  BY <1>1 DEF UnlinkInv
<1>5. /\ pc'["p1"] = "open2" => pc["p1"] = "open2"
      /\ \A l \in 1..2 : names'[l] # 0 => names'[l] = names[l]
  BY <1>1 DEF Procs
<1>6. FreshInv'
  BY <1>1, <1>5 DEF FreshInv
<1>7. AloneInv'
  <2>1. names'[1] # 0 => names'[1] = names[1]
    BY <1>5
  <2>2. names'[2] # 0 => names'[2] = names[2]
    BY <1>5
  <2>3. sem["p2"][2] # 0 => sem["p2"][1] # 0
    BY DEF OpenInv, Procs
  <2>4. sem["p2"][2] # 0 /\ Unshared' => Unshared
    BY <1>1, <1>5, <2>1, <2>3 DEF Unshared
  <2> QED BY <1>1, <1>2, <2>2, <2>4 DEF AloneInv, Procs
<1>8. TurnInv'
  BY <1>1, <1>2 DEF TurnInv, Paired, Procs
<1> QED BY <1>3, <1>4, <1>6, <1>7, <1>8

(* p1 opens a name.                                                        *)
LEMMA OpenP1 ==
  ASSUME SemTypes, Account,
         NEW k \in 1..2, sem_open("p1", k, IF k = 1 THEN "open2" ELSE "write")
  PROVE  Account'
<1> USE DEF Account
<1>1. /\ "p1" \in Procs /\ "p2" \in Procs /\ "p1" # "p2" /\ 1 \in 1..2 /\ 2 \in 1..2
      /\ \A q \in Procs \ {"p1"} : q = "p2"
      /\ (IF k = 1 THEN "open2" ELSE "write") \in PC
  BY DEF Procs, PC
<1>2. /\ pc["p1"] = OpenLabel(k) /\ pc'["p1"] = (IF k = 1 THEN "open2" ELSE "write")
      /\ pc'["p2"] = pc["p2"] /\ sem'["p2"][1] = sem["p2"][1] /\ sem'["p2"][2] = sem["p2"][2]
      /\ sem'["p1"][k] = names'[k] /\ names'[k] # 0
      /\ \A l \in 1..2 \ {k} : sem'["p1"][l] = sem["p1"][l] /\ names'[l] = names[l]
      /\ \/ names[k] # 0 /\ names'[k] = names[k] /\ value' = value
         \/ /\ names[k] = 0 /\ names'[k] = Len(value) + 1
            /\ value'[Len(value) + 1] = 0
            /\ \A x \in 1..Len(value) : value'[x] = value[x]
      /\ SemTypes'
  BY <1>1, Open
<1>3. /\ Len(value) \in Nat
      /\ \A x \in 1..Len(value) : value[x] \in Nat
      /\ \A x \in 1..Len(value) : value'[x] = value[x]
      /\ \A q \in Procs, l \in 1..2 : sem[q][l] \in 0..Len(value)
      /\ \A l \in 1..2 : names[l] \in 0..Len(value)
      /\ names'[k] = names[k] \/ names'[k] = Len(value) + 1
  <2>1. /\ Len(value) \in Nat
        /\ \A x \in 1..Len(value) : value[x] \in Nat
        /\ \A q \in Procs, l \in 1..2 : sem[q][l] \in 0..Len(value)
        /\ \A l \in 1..2 : names[l] \in 0..Len(value)
    BY DEF SemTypes
  <2>2. \A x \in 1..Len(value) : value'[x] = value[x]
    BY <1>2
  <2> QED BY <1>2, <2>1, <2>2
<1>4. sem["p1"][2] = 0 /\ (k = 1 => sem["p1"][1] = 0) /\ (k = 2 => sem["p1"][1] # 0)
  BY <1>1, <1>2 DEF OpenInv, OpenLabel
<1>5. OpenInv'
  BY <1>1, <1>2, <1>4 DEF OpenInv, InLoop
<1>6. UnlinkInv'
  BY <1>1, <1>2, <1>3 DEF UnlinkInv
<1>7. KindInv'
  <2>1. CASE k = 1
    <3>1. Behind(2)' = Behind(2) /\ Behind(1)' \subseteq Behind(1) \cup {Len(value) + 1}
      BY <1>1, <1>2, <1>3, <2>1 DEF Behind
    <3>2. Len(value) + 1 \notin Behind(2)
      BY <1>1, <1>3 DEF Behind
    <3> QED BY <3>1, <3>2 DEF KindInv
  <2>2. CASE k = 2
    <3>1. Behind(1)' = Behind(1) /\ Behind(2)' \subseteq Behind(2) \cup {Len(value) + 1}
      BY <1>1, <1>2, <1>3, <2>2 DEF Behind
    <3>2. Len(value) + 1 \notin Behind(1)
      BY <1>1, <1>3 DEF Behind
    <3> QED BY <3>1, <3>2 DEF KindInv
  <2> QED BY <2>1, <2>2
<1>8. Turn("p2")' = Turn("p2") /\ Turn("p1") = 0 /\ (k = 1 => Turn("p1")' = 0) /\ (k = 2 => Turn("p1")' = 1)
  BY <1>2 DEF Turn, OpenLabel
<1>9. CASE k = 1
  <2>1. names'[2] = names[2] /\ sem'["p1"][2] = 0 /\ sem'["p1"][1] = names'[1]
    BY <1>1, <1>2, <1>4, <1>9
  <2>2. value'[names'[1]] = 0
    BY <1>1, <1>2, <1>3, <1>4, <1>9 DEF FreshInv
  <2>3. FreshInv'
    BY <1>1, <1>2, <1>3, <2>1, <2>2 DEF FreshInv
  <2>4. sem["p2"][2] # 0 => sem["p2"][1] # 0
    BY <1>1 DEF OpenInv
  <2>5. names'[2] # 0 /\ sem'["p2"][2] = names'[2] /\ Unshared' => Unshared
    BY <1>1, <1>2, <1>3, <1>4, <1>9, <2>1, <2>4 DEF Unshared
  <2>6. AloneInv'
    BY <1>1, <1>2, <1>3, <1>8, <2>1, <2>5 DEF AloneInv
  <2>7. TurnInv'
    BY <2>1 DEF TurnInv, Paired
  <2> QED BY <1>5, <1>6, <1>7, <2>3, <2>6, <2>7
<1>10. CASE k = 2
  <2>1. /\ names'[1] = names[1] /\ sem'["p1"][1] = sem["p1"][1] /\ sem'["p1"][2] = names'[2]
        /\ pc["p1"] = "open2" /\ sem["p1"][1] \in 1..Len(value)
        /\ pc'["p1"] = "write"
    BY <1>1, <1>2, <1>3, <1>4, <1>10 DEF OpenLabel
  <2>2. value[sem["p1"][1]] = 0 /\ value'[sem["p1"][1]] = 0
    BY <1>3, <2>1 DEF FreshInv
  <2>3. FreshInv'
    BY <1>1, <1>2, <1>3, <1>10, <2>1 DEF FreshInv
  <2>4. (names'[2] # 0 /\ sem'["p1"][2] = names'[2] /\ sem'["p2"][2] # names'[2]) =>
          value'[sem'["p1"][1]] + Turn("p1")' <= 1
    BY <1>8, <1>10, <2>1, <2>2
  <2>5. Unshared' => names[1] = sem["p2"][1] /\ sem["p1"][1] # sem["p2"][1]
    BY <1>2, <2>1 DEF Unshared
  <2>6. sem'["p2"][2] = names'[2] => names'[2] = names[2] /\ names'[2] \in 1..Len(value)
    <3>1. sem["p2"][2] \in 0..Len(value) /\ names[2] \in 0..Len(value)
      BY <1>1, <1>3
    <3>2. names'[2] # 0 /\ (names'[2] = names[2] \/ names'[2] = Len(value) + 1)
      BY <1>2, <1>3, <1>10
    <3> QED BY <1>2, <1>3, <3>1, <3>2
  <2>7. (names'[2] # 0 /\ sem'["p2"][2] = names'[2] /\ Unshared') =>
          Turn("p2")' = 0 /\ value'[names'[2]] = 0
    BY <1>2, <1>3, <1>8, <2>5, <2>6 DEF AloneInv, Unshared
  <2>8. AloneInv'
    BY <2>4, <2>7 DEF AloneInv
  <2>9. TurnInv'
    <3>1. SUFFICES ASSUME Paired'
                   PROVE  value'[sem'["p1"][1]] + value'[sem'["p1"][2]] + Turn("p1")' + Turn("p2")' <= 1
      BY DEF TurnInv
    <3>2. sem["p2"][1] = sem["p1"][1] /\ sem["p2"][2] = names'[2]
      BY <1>2, <2>1, <3>1 DEF Paired
    <3>3. Turn("p2") = 0 /\ value[names[2]] = 0 /\ names'[2] = names[2] /\ names[2] \in 1..Len(value)
      BY <1>2, <2>1, <2>6, <3>2 DEF AloneInv, Unshared
    <3> QED BY <1>3, <1>8, <1>10, <2>1, <2>2, <3>2, <3>3
  <2> QED BY <1>5, <1>6, <1>7, <2>3, <2>8, <2>9
<1> QED BY <1>9, <1>10

(* p2 opens a name.                                                        *)
LEMMA OpenP2 ==
  ASSUME SemTypes, Account,
         NEW k \in 1..2, sem_open("p2", k, IF k = 1 THEN "open2" ELSE "wait")
  PROVE  Account'
<1> USE DEF Account
<1>1. /\ "p1" \in Procs /\ "p2" \in Procs /\ "p1" # "p2" /\ 1 \in 1..2 /\ 2 \in 1..2
      /\ \A q \in Procs \ {"p2"} : q = "p1"
      /\ (IF k = 1 THEN "open2" ELSE "wait") \in PC
  BY DEF Procs, PC
<1>2. /\ pc["p2"] = OpenLabel(k) /\ pc'["p2"] = (IF k = 1 THEN "open2" ELSE "wait")
      /\ pc'["p1"] = pc["p1"] /\ sem'["p1"][1] = sem["p1"][1] /\ sem'["p1"][2] = sem["p1"][2]
      /\ sem'["p2"][k] = names'[k] /\ names'[k] # 0
      /\ \A l \in 1..2 \ {k} : sem'["p2"][l] = sem["p2"][l] /\ names'[l] = names[l]
      /\ \/ names[k] # 0 /\ names'[k] = names[k] /\ value' = value
         \/ /\ names[k] = 0 /\ names'[k] = Len(value) + 1
            /\ value'[Len(value) + 1] = 0
            /\ \A x \in 1..Len(value) : value'[x] = value[x]
      /\ SemTypes'
  BY <1>1, Open
<1>3. /\ Len(value) \in Nat
      /\ \A x \in 1..Len(value) : value[x] \in Nat
      /\ \A x \in 1..Len(value) : value'[x] = value[x]
      /\ \A q \in Procs, l \in 1..2 : sem[q][l] \in 0..Len(value)
      /\ \A l \in 1..2 : names[l] \in 0..Len(value)
      /\ names'[k] = names[k] \/ names'[k] = Len(value) + 1
  <2>1. /\ Len(value) \in Nat
        /\ \A x \in 1..Len(value) : value[x] \in Nat
        /\ \A q \in Procs, l \in 1..2 : sem[q][l] \in 0..Len(value)
        /\ \A l \in 1..2 : names[l] \in 0..Len(value)
    BY DEF SemTypes
  <2>2. \A x \in 1..Len(value) : value'[x] = value[x]
    BY <1>2
  <2> QED BY <1>2, <2>1, <2>2
<1>4. sem["p2"][2] = 0 /\ (k = 1 => sem["p2"][1] = 0) /\ (k = 2 => sem["p2"][1] # 0)
  BY <1>1, <1>2 DEF OpenInv, OpenLabel
<1>5. OpenInv'
  BY <1>1, <1>2, <1>4 DEF OpenInv, InLoop
<1>6. UnlinkInv'
  BY <1>1, <1>2, <1>3 DEF UnlinkInv
<1>7. KindInv'
  <2>1. CASE k = 1
    <3>1. Behind(2)' = Behind(2) /\ Behind(1)' \subseteq Behind(1) \cup {Len(value) + 1}
      BY <1>1, <1>2, <1>3, <2>1 DEF Behind
    <3>2. Len(value) + 1 \notin Behind(2)
      BY <1>1, <1>3 DEF Behind
    <3> QED BY <3>1, <3>2 DEF KindInv
  <2>2. CASE k = 2
    <3>1. Behind(1)' = Behind(1) /\ Behind(2)' \subseteq Behind(2) \cup {Len(value) + 1}
      BY <1>1, <1>2, <1>3, <2>2 DEF Behind
    <3>2. Len(value) + 1 \notin Behind(1)
      BY <1>1, <1>3 DEF Behind
    <3> QED BY <3>1, <3>2 DEF KindInv
  <2> QED BY <2>1, <2>2
<1>8. Turn("p1")' = Turn("p1") /\ Turn("p1") \in 0..1 /\ Turn("p2") = 0 /\ Turn("p2")' = 0
  BY <1>2 DEF Turn, OpenLabel
<1>9. /\ sem["p1"][1] # 0 => sem["p1"][1] \in 1..Len(value)
      /\ sem["p1"][2] # 0 => sem["p1"][2] \in 1..Len(value) /\ sem["p1"][1] # 0
  BY <1>1, <1>3 DEF OpenInv
<1>10. CASE k = 1
  <2>1. names'[2] = names[2] /\ sem'["p2"][2] = 0 /\ sem'["p2"][1] = names'[1]
    BY <1>1, <1>2, <1>4, <1>10
  <2>2. names'[1] = names[1] \/ (names'[1] = Len(value) + 1 /\ value'[names'[1]] = 0)
    <3>1. \/ names[k] # 0 /\ names'[k] = names[k]
          \/ names'[k] = Len(value) + 1 /\ value'[Len(value) + 1] = 0
      BY <1>2
    <3> QED BY <1>10, <3>1
  <2>3. names'[1] # 0 /\ sem'["p1"][1] # names'[1] => value'[names'[1]] = 0
    BY <1>1, <1>2, <1>3, <2>2 DEF FreshInv
  <2>4. FreshInv'
    <3>1. names'[2] # 0 /\ sem'["p2"][2] # names'[2] => value'[names'[2]] = 0
      BY <1>1, <1>3, <1>4, <2>1 DEF FreshInv
    <3>2. pc'["p1"] = "open2" => value'[sem'["p1"][1]] = 0
      <4>1. SUFFICES ASSUME pc["p1"] = "open2" PROVE value'[sem["p1"][1]] = 0
        BY <1>2
      <4>2. sem["p1"][1] \in 1..Len(value)
        BY <1>1, <1>9, <4>1 DEF OpenInv
      <4>3. value[sem["p1"][1]] = 0
        BY <4>1 DEF FreshInv
      <4> QED BY <1>3, <4>2, <4>3
    <3> QED BY <2>3, <3>1, <3>2 DEF FreshInv
  <2>5. AloneInv'
    BY <1>1, <1>2, <1>3, <1>4, <1>8, <1>9, <2>1 DEF AloneInv
  <2>6. TurnInv'
    BY <2>1 DEF TurnInv, Paired
  <2> QED BY <1>5, <1>6, <1>7, <2>4, <2>5, <2>6
<1>11. CASE k = 2
  <2>1. /\ names'[1] = names[1] /\ sem'["p2"][1] = sem["p2"][1] /\ sem'["p2"][2] = names'[2]
        /\ sem["p2"][1] \in 1..Len(value)
    BY <1>1, <1>2, <1>3, <1>4, <1>11
  <2>2. /\ names'[2] # 0
        /\ \/ names'[2] = names[2] /\ names[2] \in 1..Len(value) /\ value'[names'[2]] = value[names[2]]
           \/ names'[2] = Len(value) + 1 /\ value'[names'[2]] = 0
    BY <1>2, <1>3, <1>11
  <2>3. value'[names'[2]] = 0
    BY <1>4, <2>2 DEF FreshInv
  <2>4. FreshInv'
    BY <1>1, <1>2, <1>3, <1>9, <2>1 DEF FreshInv, OpenInv
  <2>5. AloneInv'
    BY <1>8, <2>1, <2>3 DEF AloneInv
  <2>6. TurnInv'
    <3>1. SUFFICES ASSUME Paired'
                   PROVE  value'[sem'["p1"][1]] + value'[sem'["p1"][2]] + Turn("p1")' + Turn("p2")' <= 1
      BY DEF TurnInv
    <3>2. sem["p1"][1] = sem["p2"][1] /\ sem["p1"][2] = names'[2]
      BY <1>2, <2>1, <3>1 DEF Paired
    <3>3. names'[2] = names[2] /\ names[2] \in 1..Len(value)
      BY <1>1, <1>3, <2>2, <3>2
    <3>4. value[sem["p1"][1]] + Turn("p1") <= 1
      BY <1>4, <3>2, <3>3 DEF AloneInv
    <3> QED BY <1>2, <1>3, <1>8, <2>1, <2>3, <3>2, <3>4
  <2> QED BY <1>5, <1>6, <1>7, <2>4, <2>5, <2>6
<1> QED BY <1>10, <1>11

(* p1 posts: it gives the turn away, to whoever has its semaphore 1.       *)
LEMMA PostP1 ==
  ASSUME SemTypes, Account, P1Post
  PROVE  Account'
<1> USE DEF Account
<1> DEFINE a == sem["p1"][1]
           b == sem["p1"][2]
<1>1. /\ "p1" \in Procs /\ "p2" \in Procs /\ "wait" \in PC
      /\ \A q \in Procs \ {"p1"} : q = "p2"
  BY DEF Procs, PC
<1>2. /\ pc["p1"] = "post" /\ pc'["p1"] = "wait" /\ pc'["p2"] = pc["p2"]
      /\ UNCHANGED <<names, sem>>
  BY <1>1, GotoPC DEF P1Post
<1>3. a # 0 /\ b # 0
  BY <1>1, <1>2 DEF OpenInv, InLoop
<1>4. /\ a \in 1..Len(value) /\ value[a] \in Nat
      /\ value'[a] = value[a] + 1
      /\ \A x \in 1..Len(value) : x # a => value'[x] = value[x]
  BY <1>1, <1>3, Post DEF P1Post
<1>5. /\ b \in 1..Len(value) /\ b # a /\ value[b] \in Nat /\ value'[b] = value[b]
  <2>1. a # b
    BY <1>1, <1>3, Apart
  <2>2. a \in 1..Len(value) /\ b \in 1..Len(value)
    BY <1>1, <1>3, SemAt
  <2> QED BY <1>4, <2>1, <2>2, SemAt
<1>6. /\ \A l \in 1..2 : names[l] \in 0..Len(value)
      /\ names[2] # 0 => names[2] # a
  BY <1>1, <1>3, SemAt, Apart
<1>7. names[2] # 0 => value'[names[2]] = value[names[2]]
  BY <1>4, <1>6
<1>8. OpenInv' /\ UnlinkInv' /\ KindInv'
  BY <1>1, <1>2 DEF OpenInv, UnlinkInv, KindInv, Behind, InLoop
<1>9. FreshInv'
  BY <1>2, <1>4, <1>6, <1>7 DEF FreshInv
<1>10. Turn("p1") = 1 /\ Turn("p1")' = 0 /\ Turn("p2")' = Turn("p2") /\ Turn("p2") \in 0..1
  BY <1>2 DEF Turn
<1>11. Unshared' => Unshared
  BY <1>2 DEF Unshared
<1>12. AloneInv'
  BY <1>2, <1>4, <1>7, <1>10, <1>11 DEF AloneInv
<1>13. TurnInv'
  BY <1>2, <1>4, <1>5, <1>10 DEF TurnInv, Paired
<1> QED BY <1>8, <1>9, <1>12, <1>13

(* p2 posts: with p1's semaphores, it gives the turn back.                 *)
LEMMA PostP2 ==
  ASSUME SemTypes, Account, P2Post
  PROVE  Account'
<1> USE DEF Account
<1> DEFINE a == sem["p2"][1]
           b == sem["p2"][2]
<1>1. /\ "p1" \in Procs /\ "p2" \in Procs /\ "wait" \in PC /\ "unlink1" \in PC
      /\ \A q \in Procs \ {"p2"} : q = "p1"
  BY DEF Procs, PC
<1>2. /\ pc["p2"] = "post" /\ pc'["p2"] \in {"wait", "unlink1"} /\ pc'["p1"] = pc["p1"]
      /\ UNCHANGED <<names, sem>>
  BY <1>1, GotoPC DEF P2Post, NextRound
<1>3. a # 0 /\ b # 0
  BY <1>1, <1>2 DEF OpenInv, InLoop
<1>4. /\ b \in 1..Len(value) /\ value[b] \in Nat
      /\ value'[b] = value[b] + 1
      /\ \A x \in 1..Len(value) : x # b => value'[x] = value[x]
  BY <1>1, <1>3, Post DEF P2Post
<1>5. /\ a \in 1..Len(value) /\ b # a /\ value[a] \in Nat /\ value'[a] = value[a]
  <2>1. a # b
    BY <1>1, <1>3, Apart
  <2>2. a \in 1..Len(value) /\ b \in 1..Len(value)
    BY <1>1, <1>3, SemAt
  <2> QED BY <1>4, <2>1, <2>2, SemAt
<1>6. /\ \A l \in 1..2 : names[l] \in 0..Len(value)
      /\ names[1] # 0 => names[1] # b
      /\ sem["p1"][1] \in 0..Len(value) /\ sem["p1"][1] # b
  BY <1>1, <1>3, SemAt, Apart
<1>7. /\ names[1] # 0 => value'[names[1]] = value[names[1]]
      /\ sem["p1"][1] # 0 => value'[sem["p1"][1]] = value[sem["p1"][1]]
      /\ sem["p1"][2] # 0 => sem["p1"][1] # 0
      /\ pc["p1"] = "open2" => sem["p1"][1] # 0
  BY <1>1, <1>4, <1>6 DEF OpenInv
<1>8. OpenInv' /\ UnlinkInv' /\ KindInv'
  BY <1>1, <1>2 DEF OpenInv, UnlinkInv, KindInv, Behind, InLoop
<1>9. FreshInv'
  BY <1>2, <1>4, <1>6, <1>7 DEF FreshInv
<1>10. Turn("p2") = 1 /\ Turn("p2")' = 0 /\ Turn("p1")' = Turn("p1") /\ Turn("p1") \in 0..1
  BY <1>2 DEF Turn
<1>11. Unshared' => Unshared
  BY <1>2 DEF Unshared
<1>12. AloneInv'
  BY <1>2, <1>4, <1>7, <1>10, <1>11 DEF AloneInv
<1>13. TurnInv'
  BY <1>2, <1>4, <1>5, <1>10 DEF TurnInv, Paired
<1> QED BY <1>8, <1>9, <1>12, <1>13

(* A wait takes the turn that was given.                                   *)
LEMMA WaitP1 ==
  ASSUME SemTypes, Account, P1Wait
  PROVE  Account'
<1> USE DEF Account
<1> DEFINE a == sem["p1"][1]
           b == sem["p1"][2]
<1>1. /\ "p1" \in Procs /\ "p2" \in Procs /\ "read" \in PC
      /\ \A q \in Procs \ {"p1"} : q = "p2"
  BY DEF Procs, PC
<1>2. /\ pc["p1"] = "wait" /\ pc'["p1"] = "read" /\ pc'["p2"] = pc["p2"]
      /\ UNCHANGED <<names, sem>>
  BY <1>1, GotoPC DEF P1Wait
<1>3. a # 0 /\ b # 0
  BY <1>1, <1>2 DEF OpenInv, InLoop
<1>4. /\ b \in 1..Len(value) /\ value[b] \in Nat \ {0}
      /\ value'[b] = value[b] - 1
      /\ \A x \in 1..Len(value) : x # b => value'[x] = value[x]
  BY <1>1, <1>3, Wait DEF P1Wait
<1>5. /\ a \in 1..Len(value) /\ b # a /\ value[a] \in Nat /\ value'[a] = value[a]
  <2>1. a # b
    BY <1>1, <1>3, Apart
  <2>2. a \in 1..Len(value) /\ b \in 1..Len(value)
    BY <1>1, <1>3, SemAt
  <2> QED BY <1>4, <2>1, <2>2, SemAt
<1>6. /\ \A l \in 1..2 : names[l] \in 0..Len(value)
      /\ names[1] # 0 => names[1] # b
  BY <1>1, <1>3, SemAt, Apart
<1>7. names[1] # 0 => value'[names[1]] = value[names[1]]
  BY <1>4, <1>6
<1>8. OpenInv' /\ UnlinkInv' /\ KindInv'
  BY <1>1, <1>2 DEF OpenInv, UnlinkInv, KindInv, Behind, InLoop
<1>9. FreshInv'
  BY <1>2, <1>4, <1>6, <1>7 DEF FreshInv
<1>10. Turn("p1") = 0 /\ Turn("p1")' = 1 /\ Turn("p2")' = Turn("p2") /\ Turn("p2") \in 0..1
  BY <1>2 DEF Turn
<1>11. Unshared' => Unshared
  BY <1>2 DEF Unshared
<1>12. AloneInv'
  <2>1. (names[2] # 0 /\ b = names[2] /\ sem["p2"][2] # names[2]) => FALSE
    BY <1>4 DEF FreshInv
  <2>2. (names[2] # 0 /\ sem["p2"][2] = names[2] /\ Unshared) =>
          Turn("p2") = 0 /\ value'[names[2]] = 0
    BY <1>4, <1>6 DEF AloneInv
  <2> QED BY <1>2, <1>10, <1>11, <2>1, <2>2 DEF AloneInv
<1>13. TurnInv'
  BY <1>2, <1>4, <1>5, <1>10 DEF TurnInv, Paired
<1> QED BY <1>8, <1>9, <1>12, <1>13

LEMMA WaitP2 ==
  ASSUME SemTypes, Account, P2Wait
  PROVE  Account'
<1> USE DEF Account
<1> DEFINE a == sem["p2"][1]
           b == sem["p2"][2]
<1>1. /\ "p1" \in Procs /\ "p2" \in Procs /\ "read" \in PC
      /\ \A q \in Procs \ {"p2"} : q = "p1"
  BY DEF Procs, PC
<1>2. /\ pc["p2"] = "wait" /\ pc'["p2"] = "read" /\ pc'["p1"] = pc["p1"]
      /\ UNCHANGED <<names, sem>>
  BY <1>1, GotoPC DEF P2Wait
<1>3. a # 0 /\ b # 0
  BY <1>1, <1>2 DEF OpenInv, InLoop
<1>4. /\ a \in 1..Len(value) /\ value[a] \in Nat \ {0}
      /\ value'[a] = value[a] - 1
      /\ \A x \in 1..Len(value) : x # a => value'[x] = value[x]
  BY <1>1, <1>3, Wait DEF P2Wait
<1>5. /\ b \in 1..Len(value) /\ b # a /\ value[b] \in Nat /\ value'[b] = value[b]
  <2>1. a # b
    BY <1>1, <1>3, Apart
  <2>2. a \in 1..Len(value) /\ b \in 1..Len(value)
    BY <1>1, <1>3, SemAt
  <2> QED BY <1>4, <2>1, <2>2, SemAt
<1>6. /\ \A l \in 1..2 : names[l] \in 0..Len(value)
      /\ names[2] # 0 => names[2] # a
      /\ sem["p1"][1] \in 0..Len(value)
      /\ \A x \in 1..Len(value) : value[x] \in Nat
      /\ sem["p1"][2] # 0 => sem["p1"][1] # 0
      /\ pc["p1"] = "open2" => sem["p1"][1] # 0
  <2>1. /\ sem["p1"][2] # 0 => sem["p1"][1] # 0
        /\ pc["p1"] = "open2" => sem["p1"][1] # 0
    BY <1>1 DEF OpenInv
  <2> QED BY <1>1, <1>3, <2>1, SemAt, Apart
<1>7. /\ names[2] # 0 => value'[names[2]] = value[names[2]]
      /\ \A x \in 1..Len(value) : value'[x] <= value[x] /\ value'[x] \in Nat
      /\ sem["p1"][1] # 0 => sem["p1"][1] \in 1..Len(value)
  BY <1>4, <1>6
<1>8. OpenInv' /\ UnlinkInv' /\ KindInv'
  BY <1>1, <1>2 DEF OpenInv, UnlinkInv, KindInv, Behind, InLoop
<1>9. FreshInv'
  BY <1>2, <1>4, <1>6, <1>7 DEF FreshInv
<1>10. Turn("p2") = 0 /\ Turn("p2")' = 1 /\ Turn("p1")' = Turn("p1") /\ Turn("p1") \in 0..1
  BY <1>2 DEF Turn
<1>11. AloneInv'
  <2>1. (names[2] # 0 /\ sem["p1"][2] = names[2] /\ sem["p2"][2] # names[2]) =>
          value'[sem["p1"][1]] + Turn("p1") <= 1
    <3>1. SUFFICES ASSUME names[2] # 0, sem["p1"][2] = names[2], sem["p2"][2] # names[2]
                   PROVE  value'[sem["p1"][1]] + Turn("p1") <= 1
      OBVIOUS
    <3>2. value[sem["p1"][1]] + Turn("p1") <= 1
      BY <3>1 DEF AloneInv
    <3>3. sem["p1"][1] \in 1..Len(value)
      BY <1>6, <1>7, <3>1
    <3> QED BY <1>6, <1>7, <1>10, <3>2, <3>3
  <2>2. ~Unshared
    <3>1. CASE names[1] = a /\ sem["p1"][1] # a
      BY <1>3, <1>4, <3>1 DEF FreshInv
    <3>2. CASE pc["p1"] = "open2" /\ sem["p1"][1] = a
      BY <1>4, <3>2 DEF FreshInv
    <3> QED BY <3>1, <3>2 DEF Unshared
  <2>3. ~Unshared'
    BY <1>2, <2>2 DEF Unshared
  <2> QED BY <1>2, <1>10, <2>1, <2>3 DEF AloneInv
<1>12. TurnInv'
  BY <1>2, <1>4, <1>5, <1>10 DEF TurnInv, Paired
<1> QED BY <1>8, <1>9, <1>11, <1>12

(* Every step keeps the invariant.                                         *)
LEMMA PairStep == PairInv /\ [Next]_vars => PairInv'
<1> SUFFICES ASSUME PairInv, [Next]_vars PROVE PairInv'
  OBVIOUS
<1>1. TypeOK /\ LoopInv /\ Account /\ SemTypes
  BY Types DEF PairInv, Account
<1>2. TypeOK' /\ LoopInv'
  BY <1>1, TypeStep DEF Account
<1>3. Account'
  <2>1. CASE P1Write \/ P1Read \/ P2Read \/ P2Write
    <3>1. ASSUME NEW p \in Procs, NEW label \in PC, Goto(p, label), UNCHANGED <<names, value, sem>>,
                 pc[p] \in InLoop, label \in InLoop \cup {"unlink1"},
                 label \in {"read", "write", "post"} => pc[p] \in {"read", "write", "post"}
          PROVE  Account'
      BY <1>1, <3>1, GotoPC, QuietStep
    <3>2. {"write", "post", "unlink1"} \subseteq PC
      BY DEF PC
    <3> QED BY <2>1, <3>1, <3>2 DEF P1Write, P1Read, P2Read, P2Write, NextRound, InLoop, Procs
  <2>2. CASE P1Post \/ P2Post \/ P1Wait \/ P2Wait
    BY <1>1, <2>2, PostP1, PostP2, WaitP1, WaitP2
  <2>3. ASSUME NEW k \in 1..2, \/ sem_open("p1", k, IF k = 1 THEN "open2" ELSE "write")
                               \/ sem_open("p2", k, IF k = 1 THEN "open2" ELSE "wait")
        PROVE  Account'
    BY <1>1, <2>3, OpenP1, OpenP2
  <2>4. ASSUME NEW p \in Procs, EndNormally(p) \/ handler(p) PROVE Account'
    BY <1>1, <2>4, UnlinkStep DEF EndNormally, handler
  <2>5. ASSUME NEW p \in Procs, Start(p) PROVE Account'
    BY <1>1, <2>5, StartStep
  <2>6. ASSUME NEW p \in Procs, SIGINT(p) PROVE Account'
    <3>1. "int1" \in PC
      BY DEF PC
    <3>2. pc'[p] = "int1" /\ \A q \in Procs \ {p} : pc'[q] = pc[q]
      BY <1>1, <2>6, <3>1, GotoPC DEF SIGINT
    <3> QED BY <1>1, <2>6, <3>2, QuietStep DEF SIGINT
  <2>7. CASE UNCHANGED vars
    BY <1>1, <2>7 DEF vars, Account, OpenInv, UnlinkInv, KindInv, Behind, FreshInv, AloneInv, Unshared,
       TurnInv, Turn, Paired
  <2>8. CASE P1 \/ P2
    <3>1. sem_open("p1", 1, "open2") \/ sem_open("p1", 2, "write") => Account'
      BY <2>3
    <3>2. sem_open("p2", 1, "open2") \/ sem_open("p2", 2, "wait") => Account'
      BY <2>3
    <3> QED BY <2>1, <2>2, <2>4, <2>8, <3>1, <3>2 DEF P1, P2, Procs
  <2> QED BY <2>5, <2>6, <2>7, <2>8 DEF Next
<1> QED BY <1>1, <1>2, <1>3 DEF PairInv, Account

(* The invariant holds throughout.                                         *)
THEOREM Invariance == Spec => []PairInv
BY InitPaired, PairStep, PTL DEF Spec

(* Type correctness of the two programs and their semaphores.              *)
THEOREM TypeCorrect == Spec => []TypeOK
<1>1. PairInv => TypeOK
  BY DEF PairInv
<1> QED BY <1>1, Invariance, PTL

(* Two processes with the same semaphores never both copy from or to the   *)
(* shared memory: sem_wait and sem_post pass one turn between them, and no *)
(* post of an earlier session is left in a semaphore they can both open.   *)
THEOREM ExclusionHolds == Spec => []MutualExclusion
<1>1. PairInv => MutualExclusion
  <2> SUFFICES ASSUME PairInv, Paired, pc["p1"] \in {"read", "write"}, pc["p2"] \in {"read", "write"}
               PROVE  FALSE
    BY DEF MutualExclusion
  <2>1. SemTypes
    BY Types DEF PairInv
  <2>2. value[sem["p1"][1]] \in Nat /\ value[sem["p1"][2]] \in Nat
    BY <2>1, SemAt DEF Paired, Procs
  <2>3. value[sem["p1"][1]] + value[sem["p1"][2]] + Turn("p1") + Turn("p2") <= 1
    BY DEF PairInv, TurnInv
  <2>4. Turn("p1") = 1 /\ Turn("p2") = 1
    BY DEF Turn
  <2> QED BY <2>2, <2>3, <2>4
<1> QED BY <1>1, Invariance, PTL

-----------------------------------------------------------------------------
(* The first session, until a SIGINT or a restart: the programs are an     *)
(* implementation of RequestReply.                                         *)

(* A process that has come to its end in this session.                     *)
Done(p) == pc[p] \in {"unlink1", "unlink2"} \/ (pc[p] = "down" /\ starts[p] = 1)

Begun ==
  \A p \in Procs :
    /\ starts[p] \in 0..1
    /\ starts[p] = 0 => pc[p] = "down" /\ sem[p][1] = 0 /\ sem[p][2] = 0 /\ i[p] = 0
    /\ pc[p] \notin {"int1", "int2"}
    /\ Done(p) => i[p] > 0 /\ sem[p][2] # 0

(* A name is not unlinked before both have opened it.                      *)
SameSems ==
  \A k \in 1..2 : IF names[k] = 0 THEN sem["p1"][k] = sem["p2"][k]
                  ELSE \A p \in Procs : sem[p][k] \in {0, names[k]}

(* A process that was given the turn was given it by the other.            *)
Met ==
  /\ pc["p1"] = "read" \/ i["p1"] > 0 => sem["p2"][2] # 0
  /\ Turn("p2") = 1 \/ i["p2"] > 0 => sem["p1"][2] # 0

(* Either p1 has the turn, or it waits and one of three things is so.      *)
Asking ==
  /\ pc["p1"] \in {"write", "post", "read"} =>
       value[sem["p1"][1]] = 0 /\ value[sem["p1"][2]] = 0 /\ Turn("p2") = 0
  /\ pc["p1"] = "wait" => value[sem["p1"][1]] + value[sem["p1"][2]] + Turn("p2") = 1

(* What is in the shared memory, or in p2's copy, meanwhile.               *)
Asked == \/ pc["p1"] = "post"
         \/ pc["p1"] = "wait" /\ (value[sem["p1"][1]] = 1 \/ pc["p2"] = "read")
Answered == \/ pc["p1"] = "read"
            \/ pc["p1"] = "wait" /\ (value[sem["p1"][2]] = 1 \/ pc["p2"] = "post")
Carried ==
  /\ pc["p1"] \in {"post", "wait", "read"} => data_send \in Requests
  /\ Asked => shm = data_send
  /\ pc["p1"] = "wait" /\ pc["p2"] = "write" => data_rec = data_send
  /\ Answered => shm = status_update(data_send)

Exchanges == {<<r, status_update(r)>> : r \in Requests}
Logged == log \in Seq(Exchanges) /\ Len(log) = i["p1"]

Calm == Begun /\ SameSems /\ Met /\ Asking /\ Carried /\ Logged
CalmInv == ~Disturbed => Calm

(* A step is one of RequestReply's or leaves its state alone.              *)
Matched == RR!Next \/ UNCHANGED RR!vars

(* What is known of p1's two semaphores while it is in its loop.           *)
LEMMA LoopP1 ==
  ASSUME TypeOK, Account, pc["p1"] \in InLoop
  PROVE  /\ sem["p1"][1] \in 1..Len(value) /\ sem["p1"][2] \in 1..Len(value)
         /\ sem["p1"][1] # sem["p1"][2]
         /\ value[sem["p1"][1]] \in Nat /\ value[sem["p1"][2]] \in Nat
<1>1. SemTypes /\ "p1" \in Procs
  BY Types DEF Procs
<1>2. sem["p1"][1] # 0 /\ sem["p1"][2] # 0
  BY <1>1 DEF Account, OpenInv
<1>3. sem["p1"][1] # sem["p1"][2]
  BY <1>1, <1>2, Apart DEF Account
<1> QED BY <1>1, <1>2, <1>3, SemAt

LEMMA CalmP1Post ==
  ASSUME TypeOK, LoopInv, Account, Calm, P1Post
  PROVE  Calm' /\ Matched
<1> USE DEF Calm
<1> DEFINE a == sem["p1"][1]
           b == sem["p1"][2]
<1>1. /\ pc["p1"] = "post" /\ pc'["p1"] = "wait" /\ pc'["p2"] = pc["p2"]
      /\ UNCHANGED <<names, sem, shm, i, data_send, data_rec, log, starts, signals>>
  BY Types, GotoPC DEF P1Post, Procs, PC
<1>2. /\ a \in 1..Len(value) /\ b \in 1..Len(value) /\ a # b
      /\ value[a] = 0 /\ value[b] = 0 /\ Turn("p2") = 0
  BY <1>1, LoopP1 DEF InLoop, Asking
<1>3. value'[a] = 1 /\ value'[b] = 0
  <2>1. sem["p1"][1] # 0 /\ "p1" \in Procs /\ 1 \in 1..2 /\ sem_post("p1", 1)
    BY <1>2 DEF P1Post, Procs
  <2>2. value'[a] = value[a] + 1 /\ \A x \in 1..Len(value) : x # a => value'[x] = value[x]
    BY <2>1, Types, Post
  <2> QED BY <1>2, <2>2
<1>4. Begun' /\ SameSems' /\ Logged'
  BY <1>1 DEF Begun, Done, SameSems, Logged, Procs
<1>5. Turn("p2")' = Turn("p2")
  BY <1>1 DEF Turn
<1>6. Met' /\ Asking'
  BY <1>1, <1>2, <1>3, <1>5 DEF Met, Asking
<1>7. Carried'
  BY <1>1, <1>2, <1>3 DEF Carried, Asked, Answered, Turn
<1>8. RR!Ask(data_send)
  <2>1. ~Posted /\ ~Replied /\ Posted' /\ ~Replied'
    BY <1>1, <1>2, <1>3 DEF Posted, Replied
  <2>2. Len(log) < Rounds
    BY <1>1 DEF Logged, LoopInv, InLoop, Procs
  <2> QED BY <1>1, <2>1, <2>2 DEF RR!Ask
<1>9. data_send \in Requests
  BY <1>1 DEF Carried
<1> QED BY <1>4, <1>6, <1>7, <1>8, <1>9 DEF Matched, RR!Next

LEMMA CalmP1Wait ==
  ASSUME TypeOK, LoopInv, Account, Calm, P1Wait
  PROVE  Calm' /\ Matched
<1> USE DEF Calm
<1> DEFINE a == sem["p1"][1]
           b == sem["p1"][2]
<1>1. /\ pc["p1"] = "wait" /\ pc'["p1"] = "read" /\ pc'["p2"] = pc["p2"]
      /\ UNCHANGED <<names, sem, shm, i, data_send, data_rec, log, starts, signals>>
      /\ value[b] > 0
  BY Types, GotoPC DEF P1Wait, sem_wait, Procs, PC
<1>2. /\ a \in 1..Len(value) /\ b \in 1..Len(value) /\ a # b
      /\ value[a] \in Nat /\ value[b] \in Nat /\ value[a] + value[b] + Turn("p2") = 1
  BY <1>1, LoopP1 DEF InLoop, Asking
<1>3. Turn("p2") \in 0..1 /\ Turn("p2")' = Turn("p2")
  BY <1>1 DEF Turn
<1>4. value[a] = 0 /\ value[b] = 1 /\ Turn("p2") = 0
  BY <1>1, <1>2, <1>3
<1>5. value'[a] = 0 /\ value'[b] = 0
  <2>1. sem["p1"][2] # 0 /\ "p1" \in Procs /\ 2 \in 1..2 /\ sem_wait("p1", 2)
    BY <1>2 DEF P1Wait, Procs
  <2>2. value'[b] = value[b] - 1 /\ \A x \in 1..Len(value) : x # b => value'[x] = value[x]
    BY <2>1, Types, Wait
  <2> QED BY <1>2, <1>4, <2>2
<1>6. Begun' /\ SameSems' /\ Logged'
  BY <1>1 DEF Begun, Done, SameSems, Logged, Procs
<1>7. sem["p2"][2] # 0
  <2>1. names[2] # 0 /\ sem["p2"][2] # names[2] => value[names[2]] = 0
    BY DEF Account, FreshInv
  <2>2. \/ names[2] = 0 /\ b = sem["p2"][2]
        \/ names[2] # 0 /\ b \in {0, names[2]}
    BY DEF SameSems, Procs
  <2> QED BY <1>2, <1>4, <2>1, <2>2
<1>8. Met' /\ Asking'
  BY <1>1, <1>3, <1>4, <1>5, <1>7 DEF Met, Asking
<1>9. Carried'
  BY <1>1, <1>4 DEF Carried, Asked, Answered
<1>10. UNCHANGED RR!vars
  BY <1>1 DEF RR!vars, Posted, Replied
<1> QED BY <1>6, <1>8, <1>9, <1>10 DEF Matched

LEMMA CalmP1Read ==
  ASSUME TypeOK, LoopInv, Account, Calm, P1Read
  PROVE  Calm' /\ Matched
<1> USE DEF Calm
<1>1. /\ pc["p1"] = "read" /\ pc'["p1"] \in {"write", "unlink1"} /\ pc'["p2"] = pc["p2"]
      /\ UNCHANGED <<names, value, sem, shm, data_send, data_rec, starts, signals>>
  BY Types, GotoPC DEF P1Read, NextRound, Procs, PC
<1>2. i'["p1"] = i["p1"] + 1 /\ i'["p2"] = i["p2"] /\ i["p1"] \in Nat
  BY DEF TypeOK, P1Read, NextRound, Procs
<1>3. log' = Append(log, <<data_send, shm>>)
  BY DEF P1Read
<1>4. data_send \in Requests /\ shm = status_update(data_send)
  BY <1>1 DEF Carried, Answered
<1>5. Logged'
  <2>1. <<data_send, shm>> \in Exchanges
    BY <1>4 DEF Exchanges
  <2>2. log \in Seq(Exchanges) /\ Len(log) = i["p1"]
    BY DEF Logged
  <2> QED BY <1>2, <1>3, <2>1, <2>2 DEF Logged
<1>6. sem["p1"][2] # 0 /\ starts["p1"] # 0
  BY <1>1, LoopP1 DEF InLoop, Begun, Procs
<1>7. Begun' /\ SameSems'
  <2>1. \A p \in Procs \ {"p1"} : p = "p2"
    BY DEF Procs
  <2> QED BY <1>1, <1>2, <1>6, <2>1 DEF Begun, Done, SameSems, Procs
<1>8. Turn("p2")' = Turn("p2")
  BY <1>1 DEF Turn
<1>9. Met' /\ Asking'
  BY <1>1, <1>2, <1>8 DEF Met, Asking
<1>10. Carried'
  BY <1>1 DEF Carried, Asked, Answered
<1>11. RR!Take
  BY <1>1, <1>3 DEF RR!Take, Posted, Replied
<1> QED BY <1>5, <1>7, <1>9, <1>10, <1>11 DEF Matched, RR!Next

LEMMA CalmP1Write ==
  ASSUME TypeOK, LoopInv, Account, Calm, P1Write
  PROVE  Calm' /\ Matched
<1> USE DEF Calm
<1>1. /\ pc["p1"] = "write" /\ pc'["p1"] = "post" /\ pc'["p2"] = pc["p2"]
      /\ UNCHANGED <<names, value, sem, i, data_rec, log, starts, signals>>
      /\ data_send' \in Requests /\ shm' = data_send'
  BY Types, GotoPC DEF P1Write, Procs, PC
<1>2. Begun' /\ SameSems' /\ Logged'
  BY <1>1 DEF Begun, Done, SameSems, Logged, Procs
<1>3. Turn("p2")' = Turn("p2")
  BY <1>1 DEF Turn
<1>4. Met' /\ Asking' /\ Carried'
  BY <1>1, <1>3 DEF Met, Asking, Carried, Asked, Answered
<1>5. UNCHANGED RR!vars
  BY <1>1 DEF RR!vars, Posted, Replied
<1> QED BY <1>2, <1>4, <1>5 DEF Matched

LEMMA CalmP2Read ==
  ASSUME TypeOK, LoopInv, Account, Calm, P2Read
  PROVE  Calm' /\ Matched
<1> USE DEF Calm
<1>1. /\ pc["p2"] = "read" /\ pc'["p2"] = "write" /\ pc'["p1"] = pc["p1"]
      /\ UNCHANGED <<names, value, sem, shm, i, data_send, log, starts, signals>>
      /\ data_rec' = shm
  BY Types, GotoPC DEF P2Read, Procs, PC
<1>2. Begun' /\ SameSems' /\ Logged'
  BY <1>1 DEF Begun, Done, SameSems, Logged, Procs
<1>3. Turn("p2")' = 1 /\ Turn("p2") = 1
  BY <1>1 DEF Turn
<1>4. Met' /\ Asking' /\ Carried'
  BY <1>1, <1>3 DEF Met, Asking, Carried, Asked, Answered
<1>5. UNCHANGED RR!vars
  BY <1>1 DEF RR!vars, Posted, Replied
<1> QED BY <1>2, <1>4, <1>5 DEF Matched

LEMMA CalmP2Write ==
  ASSUME TypeOK, LoopInv, Account, Calm, P2Write
  PROVE  Calm' /\ Matched
<1> USE DEF Calm
<1>1. /\ pc["p2"] = "write" /\ pc'["p2"] = "post" /\ pc'["p1"] = pc["p1"]
      /\ UNCHANGED <<names, value, sem, i, data_send, data_rec, log, starts, signals>>
      /\ shm' = status_update(data_rec)
  BY Types, GotoPC DEF P2Write, Procs, PC
<1>2. Begun' /\ SameSems' /\ Logged'
  BY <1>1 DEF Begun, Done, SameSems, Logged, Procs
<1>3. Turn("p2")' = 1 /\ Turn("p2") = 1
  BY <1>1 DEF Turn
<1>4. pc["p1"] \notin {"write", "post", "read"}
  BY <1>3 DEF Asking
<1>5. pc["p1"] = "wait" => value[sem["p1"][1]] = 0 /\ value[sem["p1"][2]] = 0
  <2>1. SUFFICES ASSUME pc["p1"] = "wait"
                 PROVE  value[sem["p1"][1]] = 0 /\ value[sem["p1"][2]] = 0
    OBVIOUS
  <2>2. value[sem["p1"][1]] \in Nat /\ value[sem["p1"][2]] \in Nat
    BY <2>1, LoopP1 DEF InLoop
  <2>3. value[sem["p1"][1]] + value[sem["p1"][2]] + Turn("p2") = 1
    BY <2>1 DEF Asking
  <2> QED BY <1>3, <2>2, <2>3
<1>6. Met' /\ Asking' /\ Carried'
  BY <1>1, <1>3, <1>4, <1>5 DEF Met, Asking, Carried, Asked, Answered
<1>7. UNCHANGED RR!vars
  BY <1>1, <1>4, <1>5 DEF RR!vars, Posted, Replied
<1> QED BY <1>2, <1>6, <1>7 DEF Matched

LEMMA CalmP2Wait ==
  ASSUME TypeOK, LoopInv, Account, Calm, P2Wait
  PROVE  Calm' /\ Matched
<1> USE DEF Calm
<1> DEFINE a == sem["p1"][1]
           b == sem["p1"][2]
<1>1. /\ pc["p2"] = "wait" /\ pc'["p2"] = "read" /\ pc'["p1"] = pc["p1"]
      /\ UNCHANGED <<names, sem, shm, i, data_send, data_rec, log, starts, signals>>
      /\ value[sem["p2"][1]] > 0
  BY Types, GotoPC DEF P2Wait, sem_wait, Procs, PC
<1>2. SemTypes /\ "p1" \in Procs /\ "p2" \in Procs /\ 1 \in 1..2 /\ 2 \in 1..2
  BY Types DEF Procs
<1>3. sem["p2"][1] # 0 /\ sem["p2"][1] \in 1..Len(value)
  <2>1. sem["p2"][1] # 0
    BY <1>1, <1>2 DEF Account, OpenInv, InLoop
  <2> QED BY <1>2, <2>1, SemAt
<1>4. a = sem["p2"][1] /\ pc["p1"] # "open2"
  <2>1. value[sem["p2"][1]] # 0
    BY <1>1
  <2>2. names[1] # 0 /\ a # names[1] => value[names[1]] = 0
    BY DEF Account, FreshInv
  <2>3. pc["p1"] = "open2" => value[a] = 0
    BY DEF Account, FreshInv
  <2>4. \/ names[1] = 0 /\ a = sem["p2"][1]
        \/ names[1] # 0 /\ a \in {0, names[1]} /\ sem["p2"][1] \in {0, names[1]}
    BY <1>2 DEF SameSems
  <2>5. a = sem["p2"][1]
    BY <1>3, <2>1, <2>2, <2>4
  <2> QED BY <2>1, <2>3, <2>5
<1>5. b # 0
  <2>1. pc["p1"] \notin {"open1", "int1", "int2"}
    BY <1>2, <1>3, <1>4 DEF Account, OpenInv, Begun
  <2>2. CASE pc["p1"] \in InLoop \cup {"unlink1", "unlink2"}
    BY <1>2, <2>2 DEF Account, OpenInv
  <2>3. CASE pc["p1"] = "down"
    <3>1. starts["p1"] = 1
      BY <1>2, <1>3, <1>4 DEF Begun
    <3> QED BY <1>2, <2>3, <3>1 DEF Begun, Done
  <2>4. pc["p1"] \in PC
    BY <1>2 DEF TypeOK
  <2> QED BY <1>4, <2>1, <2>2, <2>3, <2>4 DEF PC, InLoop
<1>6. pc["p1"] \in InLoop => pc["p1"] = "wait"
  BY <1>1, <1>4 DEF Asking, InLoop
<1>7. Turn("p2") = 0 /\ Turn("p2")' = 1
  BY <1>1 DEF Turn
<1>8. pc["p1"] = "wait" => /\ value[a] = 1 /\ value[b] = 0
                           /\ value'[a] = 0 /\ value'[b] = 0
  <2>1. SUFFICES ASSUME pc["p1"] = "wait"
                 PROVE  value[a] = 1 /\ value[b] = 0 /\ value'[a] = 0 /\ value'[b] = 0
    OBVIOUS
  <2>2. /\ a \in 1..Len(value) /\ b \in 1..Len(value) /\ a # b
        /\ value[a] \in Nat /\ value[b] \in Nat
    BY <2>1, LoopP1 DEF InLoop
  <2>3. value[a] = 1 /\ value[b] = 0
    BY <1>1, <1>4, <1>7, <2>1, <2>2 DEF Asking
  <2>4. /\ value'[sem["p2"][1]] = value[sem["p2"][1]] - 1
        /\ \A x \in 1..Len(value) : x # sem["p2"][1] => value'[x] = value[x]
    BY <1>2, <1>3, Wait DEF P2Wait
  <2> QED BY <1>4, <2>2, <2>3, <2>4
<1>9. Begun' /\ SameSems' /\ Logged'
  BY <1>1 DEF Begun, Done, SameSems, Logged, Procs
<1>10. Met' /\ Asking'
  BY <1>1, <1>5, <1>6, <1>7, <1>8 DEF Met, Asking, InLoop
<1>11. Carried'
  BY <1>1, <1>6, <1>8 DEF Carried, Asked, Answered, InLoop
<1>12. UNCHANGED RR!vars
  BY <1>1, <1>6, <1>8 DEF RR!vars, Posted, Replied, InLoop
<1> QED BY <1>9, <1>10, <1>11, <1>12 DEF Matched

LEMMA CalmP2Post ==
  ASSUME TypeOK, LoopInv, Account, Calm, P2Post
  PROVE  Calm' /\ Matched
<1> USE DEF Calm
<1> DEFINE a == sem["p1"][1]
           b == sem["p1"][2]
<1>1. /\ pc["p2"] = "post" /\ pc'["p2"] \in {"wait", "unlink1"} /\ pc'["p1"] = pc["p1"]
      /\ UNCHANGED <<names, sem, shm, data_send, data_rec, log, starts, signals>>
      /\ i'["p2"] = i["p2"] + 1 /\ i'["p1"] = i["p1"] /\ i["p2"] \in Nat
  <2>1. pc'["p2"] \in {"wait", "unlink1"} /\ pc'["p1"] = pc["p1"]
    BY Types, GotoPC DEF P2Post, NextRound, Procs, PC
  <2>2. i'["p2"] = i["p2"] + 1 /\ i'["p1"] = i["p1"] /\ i["p2"] \in Nat
    BY DEF TypeOK, P2Post, NextRound, Procs
  <2> QED BY <2>1, <2>2 DEF P2Post
<1>2. SemTypes /\ "p1" \in Procs /\ "p2" \in Procs /\ 1 \in 1..2 /\ 2 \in 1..2
  BY Types DEF Procs
<1>3. sem["p2"][2] # 0 /\ sem["p2"][2] \in 1..Len(value)
  <2>1. sem["p2"][2] # 0
    BY <1>1, <1>2 DEF Account, OpenInv, InLoop
  <2> QED BY <1>2, <2>1, SemAt
<1>4. Turn("p2") = 1 /\ Turn("p2")' = 0
  BY <1>1 DEF Turn
<1>5. b # 0 /\ b = sem["p2"][2]
  BY <1>2, <1>3, <1>4 DEF Met, SameSems
<1>6. pc["p1"] \in InLoop => pc["p1"] = "wait"
  BY <1>4 DEF Asking, InLoop
<1>7. pc["p1"] = "wait" => /\ value[a] = 0 /\ value[b] = 0
                           /\ value'[a] = 0 /\ value'[b] = 1
  <2>1. SUFFICES ASSUME pc["p1"] = "wait"
                 PROVE  value[a] = 0 /\ value[b] = 0 /\ value'[a] = 0 /\ value'[b] = 1
    OBVIOUS
  <2>2. /\ a \in 1..Len(value) /\ b \in 1..Len(value) /\ a # b
        /\ value[a] \in Nat /\ value[b] \in Nat
    BY <2>1, LoopP1 DEF InLoop
  <2>3. value[a] = 0 /\ value[b] = 0
    <3>1. value[a] + value[b] + Turn("p2") = 1
      BY <2>1 DEF Asking
    <3> QED BY <1>4, <2>2, <3>1
  <2>4. /\ value'[sem["p2"][2]] = value[sem["p2"][2]] + 1
        /\ \A x \in 1..Len(value) : x # sem["p2"][2] => value'[x] = value[x]
    BY <1>2, <1>3, Post DEF P2Post
  <2> QED BY <1>5, <2>2, <2>3, <2>4
<1>8. Begun' /\ SameSems' /\ Logged'
  <2>1. starts["p2"] # 0
    BY <1>1, <1>2 DEF Begun
  <2>2. \A p \in Procs \ {"p2"} : p = "p1"
    BY DEF Procs
  <2>3. Begun'
    BY <1>1, <1>2, <1>3, <2>1, <2>2 DEF Begun, Done
  <2> QED BY <1>1, <2>3 DEF SameSems, Logged
<1>9. Met' /\ Asking'
  BY <1>1, <1>5, <1>4, <1>6, <1>7 DEF Met, Asking, InLoop
<1>10. Carried'
  BY <1>1, <1>6, <1>7 DEF Carried, Asked, Answered, InLoop
<1>11. CASE pc["p1"] = "wait"
  <2>1. Posted /\ ~Replied /\ Posted' /\ Replied'
    BY <1>1, <1>7, <1>11 DEF Posted, Replied
  <2>2. shm = status_update(data_send)
    BY <1>1, <1>11 DEF Carried, Answered
  <2>3. RR!Reply
    BY <1>1, <2>1, <2>2 DEF RR!Reply
  <2> QED BY <1>8, <1>9, <1>10, <2>3 DEF Matched, RR!Next
<1>12. CASE pc["p1"] # "wait"
  <2>1. UNCHANGED RR!vars
    BY <1>1, <1>6, <1>12 DEF RR!vars, Posted, Replied, InLoop
  <2> QED BY <1>8, <1>9, <1>10, <2>1 DEF Matched
<1> QED BY <1>11, <1>12

(* The end of a program: both had opened both names.                       *)
LEMMA CalmUnlink ==
  ASSUME TypeOK, LoopInv, Account, Calm, NEW p \in Procs, EndNormally(p)
  PROVE  Calm' /\ Matched
<1> USE DEF Calm
<1>1. /\ UNCHANGED <<value, sem, shm, i, data_send, data_rec, log, starts, signals>>
      /\ pc[p] \in {"unlink1", "unlink2"} /\ pc'[p] \in {"unlink2", "down"}
      /\ \A q \in Procs \ {p} : pc'[q] = pc[q]
      /\ \A k \in 1..2 : names'[k] \in {0, names[k]}
  <2>1. pc'[p] \in {"unlink2", "down"} /\ \A q \in Procs \ {p} : pc'[q] = pc[q]
    BY Types, GotoPC DEF EndNormally, sem_unlink, PC
  <2>2. \A k \in 1..2 : names'[k] \in {0, names[k]}
    BY DEF EndNormally, sem_unlink, TypeOK
  <2> QED BY <2>1, <2>2 DEF EndNormally, sem_unlink
<1>2. "p1" \in Procs /\ "p2" \in Procs /\ Procs = {"p1", "p2"}
  BY DEF Procs
<1>3. i[p] \in Nat /\ i[p] > 0
  BY <1>1 DEF Begun, Done, TypeOK
<1>4. /\ \A q \in Procs : sem[q][2] # 0
      /\ \A q \in Procs : sem[q][1] # 0
  <2>1. sem[p][2] # 0
    BY <1>1 DEF Begun, Done
  <2>2. \A q \in Procs : sem[q][2] # 0
    BY <1>2, <1>3, <2>1 DEF Met
  <2> QED BY <2>2 DEF Account, OpenInv
<1>5. \A k \in 1..2 : sem["p1"][k] # 0 /\ sem["p2"][k] # 0
  BY <1>2, <1>4
<1>6. \A k \in 1..2 : sem["p1"][k] = sem["p2"][k]
  BY <1>2, <1>5 DEF SameSems
<1>7. SameSems'
  BY <1>1, <1>2, <1>6 DEF SameSems
<1>8. starts[p] # 0
  BY <1>1 DEF Begun
<1>9. Begun'
  BY <1>1, <1>3, <1>4, <1>8 DEF Begun, Done
<1>10. Turn("p2")' = Turn("p2")
  BY <1>1, <1>2 DEF Turn
<1>11. Met' /\ Asking' /\ Carried' /\ Logged'
  BY <1>1, <1>2, <1>10 DEF Met, Asking, Carried, Asked, Answered, Logged
<1>12. UNCHANGED RR!vars
  BY <1>1, <1>2 DEF RR!vars, Posted, Replied
<1> QED BY <1>7, <1>9, <1>11, <1>12 DEF Matched

(* The first start of a program.                                           *)
LEMMA CalmStart ==
  ASSUME TypeOK, LoopInv, Account, Calm, NEW p \in Procs, Start(p), starts'[p] <= 1
  PROVE  Calm' /\ Matched
<1> USE DEF Calm
<1>1. Procs = {"p1", "p2"}
  BY DEF Procs
<1>2. /\ UNCHANGED <<names, value, shm, data_send, data_rec, signals>>
      /\ pc[p] = "down" /\ pc'[p] = "open1" /\ \A q \in Procs \ {p} : pc'[q] = pc[q]
      /\ starts'[p] = starts[p] + 1 /\ \A q \in Procs \ {p} : starts'[q] = starts[q]
      /\ starts[p] \in Nat
      /\ i'[p] = 0 /\ \A q \in Procs \ {p} : i'[q] = i[q]
      /\ sem'[p][1] = 0 /\ sem'[p][2] = 0 /\ \A q \in Procs \ {p} : sem'[q] = sem[q]
      /\ log' = IF p = "p1" THEN <<>> ELSE log
  <2>1. pc'[p] = "open1" /\ \A q \in Procs \ {p} : pc'[q] = pc[q]
    BY Types, GotoPC DEF Start, PC
  <2>2. starts'[p] = starts[p] + 1 /\ starts[p] \in Nat /\ \A q \in Procs \ {p} : starts'[q] = starts[q]
    BY BoundsAssumption DEF Start, TypeOK
  <2>3. /\ i'[p] = 0 /\ \A q \in Procs \ {p} : i'[q] = i[q]
        /\ sem' = [sem EXCEPT ![p] = [k \in 1..2 |-> 0]]
    BY DEF Start, TypeOK
  <2>4. sem'[p] = [k \in 1..2 |-> 0] /\ \A q \in Procs \ {p} : sem'[q] = sem[q]
    BY <2>3 DEF TypeOK
  <2> QED BY <2>1, <2>2, <2>3, <2>4 DEF Start
<1>3. starts[p] = 0
  BY <1>2
<1>4. sem[p][1] = 0 /\ sem[p][2] = 0 /\ i[p] = 0
  BY <1>3 DEF Begun
<1>5. \A q \in Procs, k \in 1..2 : sem'[q][k] = sem[q][k]
  BY <1>2, <1>4
<1>6. \A q \in Procs : i'[q] = i[q]
  BY <1>2, <1>4
<1>7. Begun'
  BY <1>2, <1>3, <1>5, <1>6 DEF Begun, Done
<1>8. SameSems'
  BY <1>1, <1>2, <1>5 DEF SameSems
<1>9. Turn("p2")' = Turn("p2")
  BY <1>1, <1>2 DEF Turn
<1>10. /\ pc'["p1"] \in InLoop => pc["p1"] \in InLoop /\ pc'["p1"] = pc["p1"]
       /\ pc'["p2"] \in InLoop => pc'["p2"] = pc["p2"]
       /\ pc["p1"] \in InLoop => pc'["p1"] = pc["p1"]
  BY <1>1, <1>2 DEF InLoop
<1>11. /\ sem'["p1"][1] = sem["p1"][1] /\ sem'["p1"][2] = sem["p1"][2]
       /\ sem'["p2"][2] = sem["p2"][2] /\ i'["p1"] = i["p1"] /\ i'["p2"] = i["p2"]
  BY <1>1, <1>5, <1>6
<1>12. Met' /\ Asking' /\ Carried'
  BY <1>2, <1>9, <1>10, <1>11 DEF Met, Asking, Carried, Asked, Answered, InLoop
<1>13. log' = log
  <2>1. CASE p = "p1"
    <3>1. log \in Seq(Exchanges) /\ Len(log) = 0
      BY <1>4, <2>1 DEF Logged
    <3> QED BY <1>2, <2>1, <3>1
  <2> QED BY <1>2, <2>1
<1>14. Logged'
  BY <1>11, <1>13 DEF Logged
<1>15. UNCHANGED RR!vars
  BY <1>2, <1>10, <1>11, <1>13 DEF RR!vars, Posted, Replied, InLoop
<1> QED BY <1>7, <1>8, <1>12, <1>14, <1>15 DEF Matched

(* A program opens a name: nobody has unlinked it.                         *)
LEMMA SameOpen ==
  ASSUME SemTypes, SameSems, NEW p \in Procs, NEW k \in 1..2, NEW after \in PC,
         sem_open(p, k, after), sem[p][k] = 0
  PROVE  SameSems'
<1>1. Procs = {"p1", "p2"}
  BY DEF Procs
<1>2. /\ sem'[p][k] = names'[k] /\ names'[k] # 0
      /\ names[k] # 0 => names'[k] = names[k]
      /\ \A q \in Procs, l \in 1..2 : ~(q = p /\ l = k) => sem'[q][l] = sem[q][l]
      /\ \A l \in 1..2 \ {k} : names'[l] = names[l]
  BY Open
<1>3. ASSUME NEW l \in 1..2, l # k
      PROVE  IF names'[l] = 0 THEN sem'["p1"][l] = sem'["p2"][l]
             ELSE \A q \in Procs : sem'[q][l] \in {0, names'[l]}
  <2>1. names'[l] = names[l] /\ \A q \in Procs : sem'[q][l] = sem[q][l]
    BY <1>2, <1>3
  <2> QED BY <1>1, <2>1 DEF SameSems
<1>4. IF names'[k] = 0 THEN sem'["p1"][k] = sem'["p2"][k]
      ELSE \A q \in Procs : sem'[q][k] \in {0, names'[k]}
  <2>1. \A q \in Procs \ {p} : sem'[q][k] = sem[q][k]
    BY <1>2
  <2>2. CASE names[k] = 0
    <3>1. \A q \in Procs : sem[q][k] = 0
      BY <1>1, <2>2 DEF SameSems
    <3> QED BY <1>2, <2>1, <3>1
  <2>3. CASE names[k] # 0
    <3>1. \A q \in Procs : sem[q][k] \in {0, names[k]}
      BY <2>3 DEF SameSems
    <3> QED BY <1>2, <2>1, <2>3, <3>1
  <2> QED BY <2>2, <2>3
<1> QED BY <1>3, <1>4 DEF SameSems

LEMMA CalmOpenP1 ==
  ASSUME TypeOK, LoopInv, Account, Calm,
         NEW k \in 1..2, sem_open("p1", k, IF k = 1 THEN "open2" ELSE "write")
  PROVE  Calm' /\ Matched
<1> USE DEF Calm
<1>1. /\ "p1" \in Procs /\ "p2" \in Procs /\ Procs = {"p1", "p2"} /\ 1 \in 1..2 /\ 2 \in 1..2
      /\ (IF k = 1 THEN "open2" ELSE "write") \in PC /\ SemTypes
  BY Types DEF Procs, PC
<1>2. /\ pc["p1"] = OpenLabel(k) /\ pc'["p1"] = (IF k = 1 THEN "open2" ELSE "write")
      /\ pc'["p2"] = pc["p2"] /\ sem'["p2"][1] = sem["p2"][1] /\ sem'["p2"][2] = sem["p2"][2]
      /\ sem'["p1"][k] = names'[k] /\ names'[k] # 0
      /\ \A l \in 1..2 \ {k} : sem'["p1"][l] = sem["p1"][l] /\ names'[l] = names[l]
      /\ \/ names[k] # 0 /\ names'[k] = names[k] /\ value' = value
         \/ /\ names[k] = 0 /\ names'[k] = Len(value) + 1
            /\ value'[Len(value) + 1] = 0
            /\ \A x \in 1..Len(value) : value'[x] = value[x]
      /\ UNCHANGED <<shm, i, data_send, data_rec, log, starts, signals>>
  <2>1. UNCHANGED <<shm, i, data_send, data_rec, log, starts, signals>>
    BY DEF sem_open
  <2>2. \A q \in Procs \ {"p1"} : pc'[q] = pc[q]
    BY <1>1, Open
  <2> QED BY <1>1, <2>1, <2>2, Open
<1>3. sem["p1"][2] = 0 /\ sem["p1"][k] = 0 /\ (k = 2 => sem["p1"][1] # 0)
  BY <1>1, <1>2 DEF Account, OpenInv, OpenLabel
<1>4. SameSems'
  BY <1>1, <1>3, SameOpen
<1>5. pc["p1"] # "down" /\ pc'["p1"] \notin {"down", "unlink1", "unlink2", "int1", "int2"}
  BY <1>2 DEF OpenLabel
<1>6. Begun'
  BY <1>1, <1>2, <1>5 DEF Begun, Done
<1>7. Turn("p2")' = Turn("p2") /\ Turn("p2") \in 0..1
  BY <1>2 DEF Turn
<1>8. Turn("p2") = 0 /\ i["p2"] \in Nat /\ ~(i["p2"] > 0)
  <2>1. i["p2"] \in Nat
    BY <1>1 DEF TypeOK
  <2> QED BY <1>3, <1>7, <2>1 DEF Met
<1>9. Met'
  BY <1>2, <1>7, <1>8 DEF Met, OpenLabel
<1>10. Asking'
  <2>1. CASE k = 1
    BY <1>2, <2>1 DEF Asking
  <2>2. CASE k = 2
    <3>1. sem["p1"][1] \in 1..Len(value) /\ value[sem["p1"][1]] = 0
      BY <1>1, <1>2, <1>3, <2>2, SemAt DEF Account, FreshInv, OpenLabel
    <3>2. sem'["p1"][1] = sem["p1"][1] /\ sem'["p1"][2] = names'[2]
      BY <1>2, <2>2
    <3>3. value'[sem["p1"][1]] = 0
      BY <1>2, <3>1
    <3>4. names[2] # 0 => value[names[2]] = 0
      <4>1. SUFFICES ASSUME names[2] # 0 PROVE value[names[2]] = 0
        OBVIOUS
      <4>2. CASE sem["p2"][2] # names[2]
        BY <4>1, <4>2 DEF Account, FreshInv
      <4>3. CASE sem["p2"][2] = names[2]
        <5>1. sem["p2"][1] # 0
          BY <1>1, <4>1, <4>3 DEF Account, OpenInv
        <5>2. sem["p1"][1] = sem["p2"][1]
          BY <1>1, <3>1, <5>1 DEF SameSems
        <5>3. Unshared
          BY <1>2, <2>2, <5>2 DEF Unshared, OpenLabel
        <5> QED BY <4>1, <4>3, <5>3 DEF Account, AloneInv
      <4> QED BY <4>2, <4>3
    <3>5. value'[names'[2]] = 0
      <4>1. \/ names[2] # 0 /\ names'[2] = names[2] /\ value' = value
            \/ names'[2] = Len(value) + 1 /\ value'[Len(value) + 1] = 0
        BY <1>2, <2>2
      <4> QED BY <3>4, <4>1
    <3>6. pc'["p1"] = "write"
      BY <1>2, <2>2
    <3> QED BY <1>7, <1>8, <3>2, <3>3, <3>5, <3>6 DEF Asking
  <2> QED BY <2>1, <2>2
<1>11. Carried' /\ Logged'
  BY <1>2 DEF Carried, Asked, Answered, Logged
<1>12. UNCHANGED RR!vars
  <2>1. pc["p1"] \notin {"wait", "read"} /\ pc'["p1"] \notin {"wait", "read"}
    BY <1>2 DEF OpenLabel
  <2> QED BY <1>2, <2>1 DEF RR!vars, Posted, Replied
<1> QED BY <1>4, <1>6, <1>9, <1>10, <1>11, <1>12 DEF Matched

LEMMA CalmOpenP2 ==
  ASSUME TypeOK, LoopInv, Account, Calm,
         NEW k \in 1..2, sem_open("p2", k, IF k = 1 THEN "open2" ELSE "wait")
  PROVE  Calm' /\ Matched
<1> USE DEF Calm
<1>1. /\ "p1" \in Procs /\ "p2" \in Procs /\ Procs = {"p1", "p2"} /\ 1 \in 1..2 /\ 2 \in 1..2
      /\ (IF k = 1 THEN "open2" ELSE "wait") \in PC /\ SemTypes
  BY Types DEF Procs, PC
<1>2. /\ pc["p2"] = OpenLabel(k) /\ pc'["p2"] = (IF k = 1 THEN "open2" ELSE "wait")
      /\ pc'["p1"] = pc["p1"] /\ sem'["p1"][1] = sem["p1"][1] /\ sem'["p1"][2] = sem["p1"][2]
      /\ sem'["p2"][k] = names'[k] /\ names'[k] # 0
      /\ \A l \in 1..2 \ {k} : sem'["p2"][l] = sem["p2"][l]
      /\ value' = value \/ \A x \in 1..Len(value) : value'[x] = value[x]
      /\ UNCHANGED <<shm, i, data_send, data_rec, log, starts, signals>>
  <2>1. UNCHANGED <<shm, i, data_send, data_rec, log, starts, signals>>
    BY DEF sem_open
  <2>2. \A q \in Procs \ {"p2"} : pc'[q] = pc[q]
    BY <1>1, Open
  <2> QED BY <1>1, <2>1, <2>2, Open
<1>3. sem["p2"][2] = 0 /\ sem["p2"][k] = 0
  BY <1>1, <1>2 DEF Account, OpenInv, OpenLabel
<1>4. SameSems'
  BY <1>1, <1>3, SameOpen
<1>5. pc["p2"] # "down" /\ pc'["p2"] \notin {"down", "unlink1", "unlink2", "int1", "int2"}
  BY <1>2 DEF OpenLabel
<1>6. Begun'
  BY <1>1, <1>2, <1>5 DEF Begun, Done
<1>7. Turn("p2")' = 0 /\ Turn("p2") = 0
  BY <1>2 DEF Turn, OpenLabel
<1>8. Met'
  BY <1>2, <1>3, <1>7 DEF Met
<1>9. pc["p1"] \in InLoop => /\ value'[sem["p1"][1]] = value[sem["p1"][1]]
                             /\ value'[sem["p1"][2]] = value[sem["p1"][2]]
  BY <1>2, LoopP1
<1>10. Asking'
  BY <1>2, <1>7, <1>9 DEF Asking, InLoop
<1>11. Carried' /\ Logged'
  <2>1. pc'["p2"] \notin {"read", "write", "post"}
    BY <1>2
  <2> QED BY <1>2, <1>9, <2>1 DEF Carried, Asked, Answered, Logged, InLoop
<1>12. UNCHANGED RR!vars
  BY <1>2, <1>9 DEF RR!vars, Posted, Replied, InLoop
<1> QED BY <1>4, <1>6, <1>8, <1>10, <1>11, <1>12 DEF Matched

(* Until the first SIGINT or restart, the invariant holds and every step   *)
(* is one of RequestReply's or leaves its state alone.                     *)
LEMMA CalmStep ==
  PairInv /\ CalmInv /\ [Next]_vars => CalmInv' /\ (Disturbed' \/ Matched)
<1> SUFFICES ASSUME PairInv, CalmInv, [Next]_vars, ~Disturbed'
             PROVE  Calm' /\ Matched
  BY DEF CalmInv
<1>1. TypeOK /\ LoopInv /\ Account
  BY DEF PairInv, Account
<1>2. signals \in Nat /\ \A p \in Procs : starts[p] \in Nat
  BY <1>1, BoundsAssumption DEF TypeOK
<1>3. UNCHANGED starts \/ \E p \in Procs : Start(p)
  BY DEF Next, P1, P2, P1Write, P1Post, P1Wait, P1Read, P2Wait, P2Read, P2Write, P2Post,
     sem_open, EndNormally, handler, sem_unlink, SIGINT, vars
<1>4. UNCHANGED signals \/ \E p \in Procs : SIGINT(p)
  BY DEF Next, P1, P2, P1Write, P1Post, P1Wait, P1Read, P2Wait, P2Read, P2Write, P2Post,
     sem_open, EndNormally, handler, sem_unlink, Start, vars
<1>5. ~Disturbed
  <2>1. \A p \in Procs : starts'[p] >= starts[p]
    <3>1. ASSUME NEW q \in Procs, Start(q), NEW p \in Procs PROVE starts'[p] >= starts[p]
      <4>1. starts \in [Procs -> 0..MaxStarts] /\ starts' = [starts EXCEPT ![q] = starts[q] + 1]
        BY <1>1, <3>1 DEF TypeOK, Start
      <4>2. starts'[p] = IF p = q THEN starts[p] + 1 ELSE starts[p]
        BY <4>1
      <4> QED BY <1>2, <4>2
    <3>2. ASSUME UNCHANGED starts, NEW p \in Procs PROVE starts'[p] >= starts[p]
      BY <1>2, <3>2
    <3> QED BY <1>3, <3>1, <3>2
  <2>2. signals' >= signals
    BY <1>2, <1>4 DEF SIGINT
  <2>3. \A p \in Procs : starts'[p] \in Nat
    <3>1. TypeOK'
      BY <1>1, TypeStep DEF Account
    <3> QED BY <3>1, BoundsAssumption DEF TypeOK
  <2>4. signals' \in Nat
    BY <1>2, <1>4 DEF SIGINT
  <2> QED BY <1>2, <2>1, <2>2, <2>3, <2>4 DEF Disturbed
<1>6. Calm
  BY <1>5 DEF CalmInv
<1>7. ASSUME NEW p \in Procs, SIGINT(p) PROVE FALSE
  BY <1>2, <1>7 DEF SIGINT, Disturbed
<1>8. ASSUME NEW p \in Procs, handler(p) PROVE FALSE
  BY <1>6, <1>8 DEF handler, sem_unlink, Calm, Begun
<1>9. ASSUME NEW p \in Procs, Start(p) PROVE Calm' /\ Matched
  <2>1. starts'[p] <= 1
    <3>1. starts'[p] = starts[p] + 1
      BY <1>1, <1>9 DEF Start, TypeOK
    <3>2. ~(starts'[p] > 1)
      BY <1>9 DEF Disturbed
    <3> QED BY <1>2, <3>1, <3>2
  <2> QED BY <1>1, <1>6, <1>9, <2>1, CalmStart
<1>10. CASE P1
  <2>1. ASSUME sem_open("p1", 1, "open2") \/ sem_open("p1", 2, "write") PROVE Calm' /\ Matched
    <3>1. PICK k \in 1..2 : sem_open("p1", k, IF k = 1 THEN "open2" ELSE "write")
      BY <2>1
    <3> QED BY <1>1, <1>6, <3>1, CalmOpenP1
  <2>2. "p1" \in Procs
    BY DEF Procs
  <2> QED BY <1>1, <1>6, <1>8, <1>10, <2>1, <2>2, CalmP1Write, CalmP1Post, CalmP1Wait, CalmP1Read,
       CalmUnlink DEF P1
<1>11. CASE P2
  <2>1. ASSUME sem_open("p2", 1, "open2") \/ sem_open("p2", 2, "wait") PROVE Calm' /\ Matched
    <3>1. PICK k \in 1..2 : sem_open("p2", k, IF k = 1 THEN "open2" ELSE "wait")
      BY <2>1
    <3> QED BY <1>1, <1>6, <3>1, CalmOpenP2
  <2>2. "p2" \in Procs
    BY DEF Procs
  <2> QED BY <1>1, <1>6, <1>8, <1>11, <2>1, <2>2, CalmP2Wait, CalmP2Read, CalmP2Write, CalmP2Post,
       CalmUnlink DEF P2
<1>12. CASE UNCHANGED vars
  <2>1. Calm'
    BY <1>6, <1>12 DEF vars, Calm, Begun, Done, SameSems, Met, Asking, Carried, Asked, Answered,
       Logged, Turn
  <2>2. UNCHANGED RR!vars
    BY <1>12 DEF vars, RR!vars, Posted, Replied
  <2> QED BY <2>1, <2>2 DEF Matched
<1> QED BY <1>7, <1>9, <1>10, <1>11, <1>12 DEF Next

LEMMA InitCalm == Init => CalmInv /\ RR!Init
<1> SUFFICES ASSUME Init PROVE Calm /\ RR!Init
  BY DEF CalmInv
<1>1. \A p \in Procs : pc[p] = "down" /\ starts[p] = 0 /\ i[p] = 0 /\ sem[p][1] = 0 /\ sem[p][2] = 0
  BY DEF Init
<1>2. "p1" \in Procs /\ "p2" \in Procs
  BY DEF Procs
<1>3. Begun
  BY <1>1 DEF Begun, Done
<1>4. SameSems
  <2>1. \A k \in 1..2 : sem["p1"][k] = 0 /\ sem["p2"][k] = 0 /\ names[k] = 0
    BY <1>2 DEF Init
  <2> QED BY <2>1 DEF SameSems
<1>5. Met /\ Asking
  BY <1>1, <1>2 DEF Met, Asking, Turn
<1>6. Carried
  BY <1>1, <1>2 DEF Carried, Asked, Answered
<1>7. Logged
  BY <1>1, <1>2 DEF Logged, Init
<1>8. RR!Init
  BY <1>1, <1>2 DEF Init, RR!Init, Posted, Replied
<1> QED BY <1>3, <1>4, <1>5, <1>6, <1>7, <1>8 DEF Calm

(* The shared memory and its two semaphores implement one question and its *)
(* answer at a time: each step of either program until the first SIGINT or *)
(* restart is Ask, Reply or Take of RequestReply or changes none of it.    *)
THEOREM Refinement == Spec => Implements
<1>1. Init => PairInv /\ CalmInv /\ RR!Init
  BY InitPaired, InitCalm
<1>2. PairInv /\ CalmInv /\ [Next]_vars => PairInv' /\ CalmInv'
  BY PairStep, CalmStep
<1>3. PairInv /\ CalmInv /\ [Next]_vars => [Disturbed' \/ RR!Next]_(RR!vars)
  BY CalmStep DEF Matched
<1>4. Spec => [](PairInv /\ CalmInv)
  BY <1>1, <1>2, PTL DEF Spec
<1> QED BY <1>1, <1>3, <1>4, PTL DEF Spec, Implements
================================================================================
