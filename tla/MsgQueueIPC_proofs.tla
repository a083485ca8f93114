-------------------------- MODULE MsgQueueIPC_proofs --------------------------
(***************************************************************************)
(* Proofs about module MsgQueueIPC, for every set of requests, every       *)
(* number of rounds, every size of the queue, and however often the two    *)
(* programs are started and interrupted.                                   *)
(***************************************************************************)
EXTENDS MsgQueueIPC, SequenceTheorems, TLAPS

(* The provers do not know that a string literal is in Words, so the      *)
(* words of the server's replies are named.                                *)
Words == STRING \cup {"LED is now ON", "LED is now OFF", "You sent message:"}
AnyMessage == [is_command : {0, 1}, text : Seq(Words)]

(* What is in the queues, and in the buffers.                              *)
QueueTypes == queues \in Seq(Seq(AnyMessage)) /\ buffer \in [Procs -> AnyMessage]

(* A process in its loop has rounds left and a queue.                      *)
LoopInv ==
  \A p \in Procs :
    /\ pc[p] \in {"open", "send", "receive", "blocked", "got"} => i[p] < Rounds
    /\ pc[p] \in {"send", "receive", "blocked", "got"} => myqueue[p] # 0

(* A client's queue cannot be opened any more when the client has ended.   *)
NameInv == pc["client"] \in {"down", "open"} /\ name # 0 => myqueue["client"] # name

(* A process may send: the client first, and who received a message.       *)
MaySend(p) == IF pc[p] = "got" \/ (p = "client" /\ pc[p] = "send") THEN 1 ELSE 0
Holds(p, q) == IF myqueue[p] = q THEN MaySend(p) ELSE 0

(* The messages there are in queue q, and those that may be sent to it.    *)
Credit(q) == Len(queues[q]) + Holds("client", q) + Holds("server", q)
CreditInv ==
  \A q \in 1..Len(queues) :
    /\ Credit(q) <= 1
    /\ q = name /\ myqueue["client"] # q => Credit(q) = 0

MsgInv == TypeOK /\ QueueTypes /\ LoopInv /\ NameInv /\ CreditInv

LEMMA Actors == /\ "client" \in Procs /\ "server" \in Procs
                /\ \A p \in Procs : p = "client" \/ p = "server"
                /\ Other("client") = "server" /\ Other("server") = "client"
BY DEF Procs, Other

LEMMA RequestTypes == \A r \in Requests : r \in AnyMessage
<1> SUFFICES ASSUME NEW r \in Requests PROVE r \in AnyMessage
  OBVIOUS
<1>1. r \in [is_command : {0, 1}, text : Seq(STRING)]
  BY RequestsAssumption DEF Messages
<1>2. r.text \in Seq(Words)
  <2>1. r.text \in Seq(STRING) /\ STRING \subseteq Words
    BY <1>1 DEF Words
  <2> HIDE DEF Words
  <2> QED BY <2>1, SeqMonotonic
<1> HIDE DEF Words
<1> QED BY <1>1, <1>2 DEF AnyMessage

LEMMA Tokens ==
  ASSUME QueueTypes, NEW q \in 1..Len(queues)
  PROVE  /\ queues[q] \in Seq(AnyMessage) /\ Len(queues[q]) \in Nat
         /\ Holds("client", q) \in 0..1 /\ Holds("server", q) \in 0..1
BY DEF QueueTypes, Holds, MaySend

LEMMA EmptyQueue ==
  ASSUME NEW s \in Seq(AnyMessage), Len(s) = 0 \/ s = <<>>
  PROVE  s = <<>> /\ Len(s) = 0
<1>1. s # <<>> => Len(s) # 0
  <2>1. s # <<>> => Len(s) \in Nat \ {0}
    BY EmptySeq, Zenon
  <2> QED BY <2>1
<1>2. Len(<<>>) = 0
  OBVIOUS
<1> QED BY <1>1, <1>2, Zenon

LEMMA InitMsg == Init => MsgInv
<1> SUFFICES ASSUME Init PROVE MsgInv
  OBVIOUS
<1>1. queues = <<>> /\ Len(queues) = 0 /\ name = 0
  BY DEF Init
<1>2. TypeOK
  <2>1. \A q \in DOMAIN queues : Len(queues[q]) <= QueueSize
    BY <1>1
  <2>2. name \in 0..Len(queues) /\ myqueue \in [Procs -> 0..Len(queues)]
    BY <1>1 DEF Init
  <2>3. data_send \in Requests \cup {Empty} /\ crashed \in BOOLEAN
    BY DEF Init
  <2>4. i \in [Procs -> 0..Rounds] /\ starts \in [Procs -> 0..MaxStarts] /\ signals \in 0..MaxSignals
    BY RoundsAssumption, BoundsAssumption DEF Init
  <2>5. pc \in [Procs -> PC]
    BY DEF Init, PC
  <2> QED BY <2>1, <2>2, <2>3, <2>4, <2>5 DEF TypeOK
<1>3. QueueTypes
  <2>1. Empty \in AnyMessage
    BY DEF Empty, Text, AnyMessage
  <2>2. queues \in Seq(Seq(AnyMessage))
    BY <1>1
  <2> QED BY <2>1, <2>2 DEF Init, QueueTypes
<1>4. LoopInv /\ NameInv
  BY RoundsAssumption DEF Init, LoopInv, NameInv
<1>5. CreditInv
  BY <1>1 DEF CreditInv
<1> QED BY <1>2, <1>3, <1>4, <1>5 DEF MsgInv

-----------------------------------------------------------------------------
LEMMA GotoPC ==
  ASSUME TypeOK, NEW p \in Procs, NEW label \in PC, Goto(p, label)
  PROVE  /\ pc' \in [Procs -> PC] /\ pc'[p] = label
         /\ \A o \in Procs \ {p} : pc'[o] = pc[o]
BY DEF Goto, TypeOK, PC

(* A step that brings no queue another message or sender.                  *)
LEMMA CreditStep ==
  ASSUME MsgInv, QueueTypes', Len(queues') = Len(queues), name' \in {0, name},
         UNCHANGED myqueue,
         \A q \in 1..Len(queues) : Credit(q)' <= Credit(q)
  PROVE  CreditInv'
<1> SUFFICES ASSUME NEW q \in 1..Len(queues)
             PROVE  /\ Credit(q)' <= 1
                    /\ q = name' /\ myqueue'["client"] # q => Credit(q)' = 0
  BY DEF CreditInv
<1>1. Credit(q) \in Nat
  BY Tokens DEF Credit, MsgInv
<1>2. /\ Len(queues'[q]) \in Nat /\ Holds("client", q)' \in 0..1
      /\ Holds("server", q)' \in 0..1
  BY DEF QueueTypes, Holds, MaySend
<1>3. Credit(q)' \in Nat
  BY <1>2 DEF Credit
<1>4. Credit(q) <= 1 /\ (q = name /\ myqueue["client"] # q => Credit(q) = 0)
  BY DEF MsgInv, CreditInv
<1> QED BY <1>1, <1>3, <1>4

(* The same when no queue changes and no process may send that could not.  *)
LEMMA CreditFrame ==
  ASSUME MsgInv, UNCHANGED <<queues, myqueue, buffer>>, name' \in {0, name},
         \A p \in Procs : MaySend(p)' <= MaySend(p)
  PROVE  CreditInv' /\ QueueTypes'
<1>1. QueueTypes'
  BY DEF MsgInv, QueueTypes
<1>2. ASSUME NEW q \in 1..Len(queues) PROVE Credit(q)' <= Credit(q)
  <2>1. /\ MaySend("client")' <= MaySend("client")
        /\ MaySend("server")' <= MaySend("server")
    BY Actors
  <2>2. Holds("client", q)' <= Holds("client", q) /\ Holds("server", q)' <= Holds("server", q)
    BY <2>1 DEF Holds
  <2>3. Len(queues'[q]) = Len(queues[q])
    OBVIOUS
  <2>4. /\ Holds("client", q)' \in 0..1 /\ Holds("server", q)' \in 0..1
    BY DEF Holds, MaySend
  <2> QED BY <2>2, <2>3, <2>4, Tokens DEF Credit, MsgInv
<1> QED BY <1>1, <1>2, CreditStep

(* mq_send passes the sender's turn to the receiver or into the queue.     *)
LEMMA SendStep ==
  ASSUME MsgInv, NEW p \in Procs, MaySend(p) = 1, NEW m \in AnyMessage,
         NEW after \in {"receive", "close"}, mq_send(p, m, after),
         UNCHANGED <<name, myqueue>>
  PROVE  /\ pc' \in [Procs -> PC] /\ pc'[p] = after
         /\ pc'[Other(p)] = pc[Other(p)]
            \/ (pc[Other(p)] = "blocked" /\ pc'[Other(p)] = "got")
         /\ Len(queues') = Len(queues)
         /\ \A q \in 1..Len(queues) : Len(queues'[q]) <= QueueSize
         /\ QueueTypes' /\ NameInv' /\ CreditInv'
<1> DEFINE o == Other(p)
           k == myqueue[p]
<1>1. o \in Procs /\ o # p /\ \A d \in Procs : d = p \/ d = o
  BY DEF Other, Procs
<1>2. pc[p] \in {"send", "got"} /\ k \in 1..Len(queues)
  <2>1. pc[p] \in {"send", "got"}
    BY DEF MaySend
  <2>2. k # 0 /\ k \in 0..Len(queues)
    BY <2>1 DEF MsgInv, LoopInv, TypeOK
  <2>3. Len(queues) \in Nat
    BY DEF MsgInv, QueueTypes
  <2> QED BY <2>1, <2>2, <2>3
<1>3. /\ pc[p] # "blocked" /\ pc \in [Procs -> PC] /\ buffer \in [Procs -> AnyMessage]
      /\ queues \in Seq(Seq(AnyMessage)) /\ QueueSize \in Nat \ {0}
  BY <1>2, RoundsAssumption DEF MsgInv, TypeOK, QueueTypes
<1>4. queues[k] = <<>> /\ Holds(o, k) = 0 /\ Holds(p, k) = 1
  <2>1. Holds(p, k) = 1
    BY DEF Holds
  <2>2. Credit(k) <= 1 /\ Credit(k) = Len(queues[k]) + Holds(p, k) + Holds(o, k)
    BY <1>1, <1>2, Tokens, Actors DEF MsgInv, CreditInv, Credit
  <2>3. Holds(o, k) \in 0..1 /\ Len(queues[k]) \in Nat /\ queues[k] \in Seq(AnyMessage)
    BY <1>1, <1>2, Tokens, Actors DEF MsgInv
  <2> HIDE DEF o, k
  <2>4. Holds(o, k) = 0 /\ Len(queues[k]) = 0
    BY <2>1, <2>2, <2>3
  <2> QED BY <2>1, <2>3, <2>4, EmptyQueue
<1>5. ASSUME NEW q \in 1..Len(queues)
      PROVE  Credit(q) = Len(queues[q]) + Holds(p, q) + Holds(o, q)
  BY <1>1, Tokens, Actors DEF Credit, MsgInv
<1>6. ASSUME NEW q \in 1..Len(queues)
      PROVE  Credit(q)' = Len(queues'[q]) + Holds(p, q)' + Holds(o, q)'
                 \/ ~ (Len(queues'[q]) \in Nat)
  <2>1. Holds("client", q)' \in 0..1 /\ Holds("server", q)' \in 0..1
    BY DEF Holds, MaySend
  <2> QED BY <1>1, <2>1, Actors DEF Credit
<1>7. ASSUME NEW q \in 1..Len(queues), q # k
      PROVE  Holds(p, q)' = Holds(p, q)
  BY <1>7 DEF Holds
<1>8. /\ \A q \in 1..Len(queues) : Len(queues[q]) \in Nat /\ Len(queues[q]) <= QueueSize
      /\ \A q \in 1..Len(queues) : Holds(p, q) \in 0..1 /\ Holds(o, q) \in 0..1
  <2>1. ASSUME NEW q \in 1..Len(queues)
        PROVE  Len(queues[q]) \in Nat /\ Len(queues[q]) <= QueueSize
    BY DEF MsgInv, TypeOK, QueueTypes
  <2>2. ASSUME NEW q \in 1..Len(queues)
        PROVE  Holds(p, q) \in 0..1 /\ Holds(o, q) \in 0..1
    BY DEF Holds, MaySend
  <2> QED BY <2>1, <2>2
<1>9. CASE pc[o] = "blocked" /\ myqueue[o] = k
  <2>1. /\ buffer' = [buffer EXCEPT ![o] = m] /\ queues' = queues
        /\ pc' = [pc EXCEPT ![p] = after, ![o] = "got"]
    BY <1>9 DEF mq_send
  <2>2. /\ pc' \in [Procs -> PC] /\ pc'[p] = after /\ pc'[o] = "got"
    BY <1>1, <1>3, <2>1 DEF PC
  <2>3. QueueTypes'
    BY <1>1, <1>3, <2>1 DEF QueueTypes
  <2>4. NameInv'
    BY <1>1, <2>2, <1>9, Actors DEF MsgInv, NameInv
  <2>5. ASSUME NEW q \in 1..Len(queues) PROVE Credit(q)' <= Credit(q)
    <3>1. Holds(p, q)' = 0 \/ q # k
      BY <2>2 DEF Holds, MaySend
    <3>2. Holds(o, q)' = IF q = k THEN 1 ELSE 0
      BY <1>9, <2>2, <1>1 DEF Holds, MaySend
    <3>3. Holds(o, q) = 0
      BY <1>9, <1>1 DEF Holds, MaySend
    <3>4. Holds(p, q)' \in 0..1
      BY DEF Holds, MaySend
    <3>5. Len(queues'[q]) = Len(queues[q])
      BY <2>1
    <3> HIDE DEF o, k
    <3> QED BY <1>4, <1>5, <1>6, <1>7, <1>8, <3>1, <3>2, <3>3, <3>4, <3>5
  <2>6. CreditInv'
    BY <2>1, <2>3, <2>5, CreditStep
  <2> QED BY <1>8, <1>9, <2>1, <2>2, <2>3, <2>4, <2>6
<1>10. CASE ~ (pc[o] = "blocked" /\ myqueue[o] = k)
  <2>1. /\ queues' = [queues EXCEPT ![k] = Append(@, m)] /\ Goto(p, after)
        /\ UNCHANGED buffer
    BY <1>10 DEF mq_send
  <2>2. pc' \in [Procs -> PC] /\ pc'[p] = after /\ pc'[o] = pc[o]
    BY <1>1, <2>1, GotoPC DEF MsgInv, PC
  <2>3. Append(<<>>, m) = <<m>> /\ Len(<<m>>) = 1 /\ <<m>> \in Seq(AnyMessage)
    OBVIOUS
  <2>4. /\ queues' \in Seq(Seq(AnyMessage)) /\ Len(queues') = Len(queues)
        /\ queues'[k] = <<m>>
        /\ \A q \in 1..Len(queues) : q # k => queues'[q] = queues[q]
    <3>1. queues' = [queues EXCEPT ![k] = <<m>>]
      BY <1>4, <2>1, <2>3
    <3>2. /\ [queues EXCEPT ![k] = <<m>>] \in Seq(Seq(AnyMessage))
          /\ Len([queues EXCEPT ![k] = <<m>>]) = Len(queues)
      BY <1>2, <1>3, <2>3, ExceptSeq
    <3>3. DOMAIN queues = 1..Len(queues)
      BY <1>3
    <3> QED BY <1>2, <3>1, <3>2, <3>3
  <2>5. QueueTypes'
    BY <2>1, <2>4 DEF QueueTypes, MsgInv
  <2>6. NameInv'
    BY <1>1, <2>2, Actors DEF MsgInv, NameInv
  <2>7. ASSUME NEW q \in 1..Len(queues)
        PROVE  Credit(q)' <= Credit(q) /\ Len(queues'[q]) <= QueueSize
    <3>1. Holds(p, q)' = 0 \/ q # k
      BY <2>2 DEF Holds, MaySend
    <3>2. Holds(o, q)' = Holds(o, q)
      BY <2>2 DEF Holds, MaySend
    <3>3. Holds(p, q)' \in 0..1
      BY DEF Holds, MaySend
    <3>4. CASE q = k
      <4>1. Len(queues'[q]) = 1 /\ Len(queues[q]) = 0 /\ Holds(p, q)' = 0
        BY <1>4, <2>3, <2>4, <3>1, <3>4
      <4>2. Holds(p, q) = 1 /\ Holds(o, q) = 0 /\ Holds(o, q)' = 0
        BY <1>4, <3>2, <3>4
      <4>3. Credit(q) = 1
        BY <1>5, <4>1, <4>2
      <4>4. Credit(q)' = 1
        <5>1. Credit(q)' = Len(queues'[q]) + Holds(p, q)' + Holds(o, q)'
          <6>1. Len(queues'[q]) \in Nat
            BY <4>1
          <6> QED BY <1>6, <6>1, Zenon
        <5>2. Credit(q)' = 1 + 0 + 0
          BY <4>1, <4>2, <5>1, Zenon
        <5> QED BY <5>2
      <4>5. 1 <= QueueSize
        BY <1>3
      <4> QED BY <4>1, <4>3, <4>4, <4>5
    <3>5. CASE q # k
      <4>1. Len(queues'[q]) = Len(queues[q]) /\ Holds(p, q)' = Holds(p, q)
        BY <2>4, <3>5, <1>7
      <4>2. Len(queues[q]) \in Nat /\ Len(queues[q]) <= QueueSize
        BY <1>8
      <4>3. Credit(q)' = Credit(q)
        BY <1>5, <1>6, <3>2, <4>1, <4>2
      <4>4. Credit(q) \in Nat
        BY <1>5, <1>8
      <4> QED BY <4>1, <4>2, <4>3, <4>4
    <3> QED BY <3>4, <3>5
  <2>8. CreditInv'
    BY <2>4, <2>5, <2>7, CreditStep
  <2> QED BY <2>2, <2>4, <2>5, <2>6, <2>7, <2>8
<1> QED BY <1>9, <1>10

-----------------------------------------------------------------------------
(* One lemma per action.                                                   *)

LEMMA StartStep == ASSUME MsgInv, NEW p \in Procs, Start(p) PROVE MsgInv'
<1>1. /\ pc[p] = "down" /\ starts' = [starts EXCEPT ![p] = @ + 1]
      /\ starts[p] < MaxStarts /\ i' = [i EXCEPT ![p] = 0] /\ Goto(p, "open")
  BY DEF Start
<1>2. UNCHANGED <<name, queues, myqueue, buffer, data_send, crashed, signals>>
  BY DEF Start
<1>3. /\ pc' \in [Procs -> PC] /\ pc'[p] = "open"
      /\ \A o \in Procs \ {p} : pc'[o] = pc[o]
  BY <1>1, GotoPC DEF MsgInv, PC
<1>4. TypeOK'
  <2>1. i' \in [Procs -> 0..Rounds]
    BY <1>1, RoundsAssumption DEF MsgInv, TypeOK
  <2>2. starts' \in [Procs -> 0..MaxStarts]
    <3>1. starts \in [Procs -> 0..MaxStarts] /\ MaxStarts \in Nat
      BY BoundsAssumption DEF MsgInv, TypeOK
    <3> QED BY <1>1, <3>1
  <2> QED BY <1>2, <1>3, <2>1, <2>2 DEF MsgInv, TypeOK
<1>5. LoopInv'
  BY <1>1, <1>2, <1>3, RoundsAssumption DEF MsgInv, LoopInv, TypeOK
<1>6. NameInv'
  BY <1>1, <1>2, <1>3, Actors DEF MsgInv, NameInv
<1>7. QueueTypes' /\ CreditInv'
  BY <1>1, <1>2, <1>3, CreditFrame DEF MaySend
<1> QED BY <1>4, <1>5, <1>6, <1>7 DEF MsgInv

LEMMA OpenStep ==
  ASSUME MsgInv, NEW p \in Procs, NEW after,
         after = IF p = "client" THEN "send" ELSE "receive", mq_open(p, after)
  PROVE  MsgInv'
<1>1. /\ pc[p] = "open" /\ myqueue' = [myqueue EXCEPT ![p] = name']
      /\ Goto(p, after)
      /\ \/ name = 0 /\ queues' = Append(queues, <<>>) /\ name' = Len(queues) + 1
         \/ name # 0 /\ queues' = queues /\ name' = name
  BY DEF mq_open
<1>2. UNCHANGED <<buffer, i, data_send, log, crashed, starts, signals>>
  BY DEF mq_open
<1>3. /\ pc' \in [Procs -> PC] /\ pc'[p] = after
      /\ \A o \in Procs \ {p} : pc'[o] = pc[o]
  BY <1>1, GotoPC DEF MsgInv, PC
<1>4. /\ queues \in Seq(Seq(AnyMessage)) /\ Len(queues) \in Nat
      /\ name \in 0..Len(queues)
      /\ myqueue \in [Procs -> 0..Len(queues)] /\ QueueSize \in Nat
  BY RoundsAssumption DEF MsgInv, QueueTypes, TypeOK
<1>5. /\ queues' \in Seq(Seq(AnyMessage)) /\ name' \in 1..Len(queues')
      /\ Len(queues') \in Nat /\ Len(queues) <= Len(queues')
      /\ \A q \in 1..Len(queues) : queues'[q] = queues[q]
      /\ \A q \in 1..Len(queues') :
            q \in 1..Len(queues) \/ (q = name' /\ queues'[q] = <<>> /\ q \notin 0..Len(queues))
  <2>1. CASE name = 0
    <3>1. <<>> \in Seq(AnyMessage)
      OBVIOUS
    <3>2. queues' = Append(queues, <<>>) /\ name' = Len(queues) + 1
      BY <1>1, <2>1
    <3>3. /\ queues' \in Seq(Seq(AnyMessage)) /\ Len(queues') = Len(queues) + 1
          /\ \A q \in 1..Len(queues) : queues'[q] = queues[q]
          /\ queues'[Len(queues) + 1] = <<>>
      BY <1>4, <3>1, <3>2, AppendProperties
    <3> QED BY <1>4, <3>2, <3>3
  <2>2. CASE name # 0
    BY <1>1, <1>4, <2>2
  <2> QED BY <2>1, <2>2
<1>6. myqueue' \in [Procs -> 0..Len(queues')] /\ myqueue'[p] = name' /\ name' # 0
      /\ \A o \in Procs \ {p} : myqueue'[o] = myqueue[o]
  BY <1>1, <1>4, <1>5
<1>7. QueueTypes'
  BY <1>2, <1>5 DEF QueueTypes, MsgInv
<1>8. TypeOK'
  <2>1. \A q \in DOMAIN queues' : Len(queues'[q]) <= QueueSize
    <3>1. DOMAIN queues' = 1..Len(queues') /\ DOMAIN queues = 1..Len(queues)
      BY <1>4, <1>5
    <3>2. Len(<<>>) = 0
      OBVIOUS
    <3>3. \A q \in 1..Len(queues) : Len(queues[q]) <= QueueSize
      BY <3>1 DEF MsgInv, TypeOK
    <3>4. ASSUME NEW q \in 1..Len(queues') PROVE Len(queues'[q]) <= QueueSize
      <4>1. CASE q \in 1..Len(queues)
        BY <1>5, <3>3, <4>1
      <4>2. CASE queues'[q] = <<>>
        BY <1>4, <3>2, <4>2
      <4> QED BY <1>5, <4>1, <4>2
    <3> QED BY <3>1, <3>4
  <2>2. name' \in 0..Len(queues')
    BY <1>5
  <2> QED BY <1>2, <1>3, <1>6, <2>1, <2>2 DEF MsgInv, TypeOK
<1>9. LoopInv'
  BY <1>1, <1>2, <1>3, <1>6 DEF MsgInv, LoopInv
<1>10. NameInv'
  <2>1. CASE p = "client"
    BY <1>3, <2>1 DEF NameInv
  <2>2. CASE p # "client"
    <3>1. pc'["client"] = pc["client"] /\ myqueue'["client"] = myqueue["client"]
      BY <1>3, <1>6, <2>2, Actors
    <3>2. myqueue["client"] \in 0..Len(queues)
      BY <1>4, Actors
    <3>3. CASE name = 0
      BY <1>1, <1>4, <3>1, <3>2, <3>3 DEF NameInv
    <3>4. CASE name # 0
      BY <1>1, <3>1, <3>4 DEF NameInv, MsgInv
    <3> QED BY <3>3, <3>4
  <2> QED BY <2>1, <2>2
<1>11. ASSUME NEW q \in 1..Len(queues')
       PROVE  /\ Credit(q)' <= 1
              /\ q = name' /\ myqueue'["client"] # q => Credit(q)' = 0
  <2>1. MaySend(p) = 0 /\ (p = "server" => MaySend(p)' = 0)
    BY <1>1, <1>3 DEF MaySend
  <2>2. Holds(p, q) = 0 /\ Holds(p, q)' \in 0..1 /\ (Holds(p, q)' = 1 => p = "client" /\ q = name')
    BY <1>6, <2>1, Actors DEF Holds, MaySend
  <2>3. ASSUME NEW o \in Procs \ {p} PROVE Holds(o, q)' = Holds(o, q)
    BY <1>3, <1>6 DEF Holds, MaySend
  <2>4. CASE q \in 1..Len(queues)
    <3>1. /\ Holds("client", q) \in 0..1 /\ Holds("server", q) \in 0..1
          /\ Len(queues[q]) \in Nat /\ Len(queues'[q]) = Len(queues[q])
      BY <1>5, <2>4, Tokens DEF MsgInv
    <3>2. /\ Credit(q) = Len(queues[q]) + Holds("client", q) + Holds("server", q)
          /\ Credit(q)' = Len(queues'[q]) + Holds("client", q)' + Holds("server", q)'
      BY DEF Credit
    <3>3. Credit(q) <= 1 /\ (q = name /\ myqueue["client"] # q => Credit(q) = 0)
      BY <2>4 DEF MsgInv, CreditInv
    <3>4. CASE p = "server"
      <4>1. Holds("server", q)' = 0 /\ Holds("server", q) = 0 /\ Holds("client", q)' = Holds("client", q)
        BY <2>2, <2>3, <3>4, Actors
      <4>2. Credit(q)' = Credit(q)
        BY <3>1, <3>2, <4>1
      <4>3. q = name' => q = name
        BY <1>1, <1>4, <2>4
      <4>4. myqueue'["client"] = myqueue["client"]
        BY <1>6, <3>4, Actors
      <4> QED BY <3>3, <4>2, <4>3, <4>4
    <3>5. CASE p = "client"
      <4>1. Holds("client", q) = 0 /\ Holds("server", q)' = Holds("server", q)
        BY <2>2, <2>3, <3>5, Actors
      <4>2. Holds("client", q)' = 0 \/ (Holds("client", q)' = 1 /\ q = name')
        BY <2>2, <3>5
      <4>3. q = name' => Credit(q) = 0
        <5>1. q = name' => q = name /\ name # 0
          BY <1>1, <1>4, <2>4
        <5>2. name # 0 => myqueue["client"] # name
          BY <1>1, <3>5 DEF MsgInv, NameInv
        <5> QED BY <5>1, <5>2, <3>3
      <4>4. q = name' => myqueue'["client"] = q
        BY <1>6, <3>5
      <4>5. CASE q = name'
        <5>1. Len(queues[q]) = 0 /\ Holds("server", q) = 0
          BY <3>1, <3>2, <4>3, <4>5
        <5>2. Len(queues'[q]) = 0 /\ Holds("server", q)' = 0
          BY <3>1, <4>1, <5>1
        <5>3. Credit(q)' = 0 + 0 + 0 \/ Credit(q)' = 0 + 1 + 0
          BY <3>2, <4>2, <5>2, Zenon
        <5> QED BY <4>4, <4>5, <5>3
      <4>6. CASE q # name'
        <5>1. Credit(q)' = Credit(q)
          BY <3>1, <3>2, <4>1, <4>2, <4>6
        <5> QED BY <3>3, <4>6, <5>1
      <4> QED BY <4>5, <4>6
    <3> QED BY <3>4, <3>5, Actors
  <2>5. CASE q = name' /\ queues'[q] = <<>> /\ q \notin 0..Len(queues)
    <3>1. Len(queues'[q]) = 0
      <4>1. Len(<<>>) = 0
        OBVIOUS
      <4> QED BY <2>5, <4>1, Zenon
    <3>2. ASSUME NEW o \in Procs \ {p} PROVE Holds(o, q)' = 0
      <4>1. myqueue'[o] # q
        BY <1>4, <1>6, <2>5
      <4> QED BY <4>1 DEF Holds
    <3>3. Credit(q)' = Len(queues'[q]) + Holds("client", q)' + Holds("server", q)'
      BY DEF Credit
    <3>4. CASE p = "server"
      <4>1. Holds("server", q)' = 0 /\ Holds("client", q)' = 0
        BY <2>2, <3>2, <3>4, Actors
      <4>2. Credit(q)' = 0 + 0 + 0
        BY <3>1, <3>3, <4>1, Zenon
      <4> QED BY <4>2
    <3>5. CASE p = "client"
      <4>1. Holds("server", q)' = 0 /\ (Holds("client", q)' = 0 \/ Holds("client", q)' = 1)
        BY <2>2, <3>2, <3>5, Actors
      <4>2. Credit(q)' = 0 + 0 + 0 \/ Credit(q)' = 0 + 1 + 0
        BY <3>1, <3>3, <4>1, Zenon
      <4>3. myqueue'["client"] = q
        BY <1>6, <2>5, <3>5
      <4> QED BY <4>2, <4>3
    <3> QED BY <3>4, <3>5, Actors
  <2> QED BY <1>5, <2>4, <2>5
<1>12. CreditInv'
  BY <1>11 DEF CreditInv
<1> QED BY <1>7, <1>8, <1>9, <1>10, <1>12 DEF MsgInv

LEMMA EndStep == ASSUME MsgInv, NEW p \in Procs, End(p) PROVE MsgInv'
<1>1. pc[p] \in {"close", "int"} /\ name' = 0 /\ Goto(p, "down")
  BY DEF End
<1>2. UNCHANGED <<queues, myqueue, buffer, i, data_send, log, crashed, starts, signals>>
  BY DEF End
<1>3. /\ pc' \in [Procs -> PC] /\ pc'[p] = "down"
      /\ \A o \in Procs \ {p} : pc'[o] = pc[o]
  BY <1>1, GotoPC DEF MsgInv, PC
<1>4. TypeOK'
  BY <1>1, <1>2, <1>3 DEF MsgInv, TypeOK, QueueTypes
<1>5. LoopInv' /\ NameInv'
  BY <1>1, <1>2, <1>3 DEF MsgInv, LoopInv, NameInv
<1>6. QueueTypes' /\ CreditInv'
  BY <1>1, <1>2, <1>3, CreditFrame DEF MaySend
<1> QED BY <1>4, <1>5, <1>6 DEF MsgInv

LEMMA SigintStep == ASSUME MsgInv, NEW p \in Procs, SIGINT(p) PROVE MsgInv'
<1>1. pc[p] \notin {"down", "int"} /\ signals < MaxSignals /\ signals' = signals + 1
      /\ Goto(p, "int")
  BY DEF SIGINT
<1>2. UNCHANGED <<name, queues, myqueue, buffer, i, data_send, log, crashed, starts>>
  BY DEF SIGINT
<1>3. /\ pc' \in [Procs -> PC] /\ pc'[p] = "int"
      /\ \A o \in Procs \ {p} : pc'[o] = pc[o]
  BY <1>1, GotoPC DEF MsgInv, PC
<1>4. TypeOK'
  BY <1>1, <1>2, <1>3, BoundsAssumption DEF MsgInv, TypeOK
<1>5. LoopInv' /\ NameInv'
  BY <1>1, <1>2, <1>3, Actors DEF MsgInv, LoopInv, NameInv
<1>6. QueueTypes' /\ CreditInv'
  BY <1>1, <1>2, <1>3, CreditFrame DEF MaySend
<1> QED BY <1>4, <1>5, <1>6 DEF MsgInv

LEMMA ReceiveStep == ASSUME MsgInv, NEW p \in Procs, mq_receive(p) PROVE MsgInv'
<1> DEFINE k == myqueue[p]
<1>1. UNCHANGED <<name, myqueue, i, data_send, log, crashed, starts, signals>>
  BY DEF mq_receive
<1>2. pc[p] = "receive" /\ k \in 1..Len(queues) /\ queues[k] \in Seq(AnyMessage)
  <2>1. pc[p] = "receive"
    BY DEF mq_receive
  <2>2. k # 0 /\ k \in 0..Len(queues) /\ Len(queues) \in Nat
    BY <2>1 DEF MsgInv, LoopInv, TypeOK, QueueTypes
  <2>3. k \in 1..Len(queues)
    BY <2>2
  <2> QED BY <2>1, <2>3, Tokens DEF MsgInv
<1>3. CASE queues[k] = <<>>
  <2>1. Goto(p, "blocked") /\ UNCHANGED <<queues, buffer>>
    BY <1>3 DEF mq_receive
  <2>2. /\ pc' \in [Procs -> PC] /\ pc'[p] = "blocked"
        /\ \A o \in Procs \ {p} : pc'[o] = pc[o]
    BY <2>1, GotoPC DEF MsgInv, PC
  <2>3. TypeOK'
    BY <1>1, <2>1, <2>2 DEF MsgInv, TypeOK
  <2>4. LoopInv' /\ NameInv'
    BY <1>1, <1>2, <2>1, <2>2, Actors DEF MsgInv, LoopInv, NameInv
  <2>5. \A o \in Procs : MaySend(o)' <= MaySend(o)
    BY <1>2, <2>2 DEF MaySend
  <2>6. QueueTypes' /\ CreditInv'
    BY <1>1, <2>1, <2>5, CreditFrame
  <2> QED BY <2>3, <2>4, <2>6 DEF MsgInv
<1>4. CASE queues[k] # <<>>
  <2>1. /\ buffer' = [buffer EXCEPT ![p] = Head(queues[k])]
        /\ queues' = [queues EXCEPT ![k] = Tail(@)] /\ Goto(p, "got")
    BY <1>4 DEF mq_receive
  <2>2. /\ pc' \in [Procs -> PC] /\ pc'[p] = "got"
        /\ \A o \in Procs \ {p} : pc'[o] = pc[o]
    BY <2>1, GotoPC DEF MsgInv, PC
  <2>3. /\ Head(queues[k]) \in AnyMessage /\ Tail(queues[k]) \in Seq(AnyMessage)
        /\ Len(Tail(queues[k])) = Len(queues[k]) - 1 /\ Len(queues[k]) \in Nat
    BY <1>2, <1>4, HeadTailProperties
  <2>4. /\ queues' \in Seq(Seq(AnyMessage)) /\ Len(queues') = Len(queues)
        /\ queues'[k] = Tail(queues[k])
        /\ \A q \in 1..Len(queues) : q # k => queues'[q] = queues[q]
    <3>1. queues \in Seq(Seq(AnyMessage)) /\ DOMAIN queues = 1..Len(queues)
      BY DEF MsgInv, QueueTypes
    <3>2. queues' = [queues EXCEPT ![k] = Tail(queues[k])]
      BY <2>1
    <3>3. /\ [queues EXCEPT ![k] = Tail(queues[k])] \in Seq(Seq(AnyMessage))
          /\ Len([queues EXCEPT ![k] = Tail(queues[k])]) = Len(queues)
      BY <1>2, <2>3, <3>1, ExceptSeq
    <3> QED BY <1>2, <3>1, <3>2, <3>3
  <2>5. QueueTypes'
    BY <2>1, <2>3, <2>4 DEF QueueTypes, MsgInv
  <2>6. TypeOK'
    <3>1. \A q \in 1..Len(queues) : Len(queues[q]) <= QueueSize
      BY DEF MsgInv, TypeOK, QueueTypes
    <3>2. ASSUME NEW q \in 1..Len(queues) PROVE Len(queues'[q]) <= QueueSize
      <4>1. CASE q = k
        <5>1. Len(queues'[q]) = Len(queues[k]) - 1 /\ Len(queues[k]) <= QueueSize
          BY <1>2, <2>3, <2>4, <3>1, <4>1
        <5> QED BY <5>1, <2>3, RoundsAssumption
      <4>2. CASE q # k
        BY <2>4, <3>1, <4>2
      <4> QED BY <4>1, <4>2
    <3>3. DOMAIN queues' = 1..Len(queues)
      BY <2>4
    <3>4. \A q \in DOMAIN queues' : Len(queues'[q]) <= QueueSize
      BY <3>2, <3>3
    <3>5. name' \in 0..Len(queues') /\ myqueue' \in [Procs -> 0..Len(queues')]
      BY <1>1, <2>4 DEF MsgInv, TypeOK
    <3> QED BY <1>1, <2>2, <3>4, <3>5 DEF MsgInv, TypeOK
  <2>7. LoopInv' /\ NameInv'
    BY <1>1, <1>2, <2>2, Actors DEF MsgInv, LoopInv, NameInv
  <2>8. ASSUME NEW q \in 1..Len(queues) PROVE Credit(q)' <= Credit(q)
    <3>1. ASSUME NEW o \in Procs
          PROVE  Holds(o, q)' = IF o = p /\ q = k THEN 1 ELSE Holds(o, q)
      BY <1>1, <1>2, <2>2 DEF Holds, MaySend
    <3>2. q = k => Holds(p, q) = 0
      BY <1>2 DEF Holds, MaySend
    <3>3. /\ Holds("client", q) \in 0..1 /\ Holds("server", q) \in 0..1
          /\ Len(queues[q]) \in Nat
      BY Tokens DEF MsgInv
    <3>4. /\ Credit(q) = Len(queues[q]) + Holds("client", q) + Holds("server", q)
          /\ Credit(q)' = Len(queues'[q]) + Holds("client", q)' + Holds("server", q)'
      BY DEF Credit
    <3>5. CASE q = k
      <4>1. Len(queues'[q]) = Len(queues[q]) - 1
        BY <2>3, <2>4, <3>5
      <4>2. \/ /\ Holds("client", q) = 0 /\ Holds("client", q)' = 1
               /\ Holds("server", q)' = Holds("server", q)
            \/ /\ Holds("server", q) = 0 /\ Holds("server", q)' = 1
               /\ Holds("client", q)' = Holds("client", q)
        BY <3>1, <3>2, <3>5, Actors
      <4> HIDE DEF k
      <4> QED BY <3>3, <3>4, <4>1, <4>2
    <3>6. CASE q # k
      <4>1. Credit(q)' = Credit(q)
        <5>1. Len(queues'[q]) = Len(queues[q])
          BY <2>4, <3>6
        <5>2. Holds("client", q)' = Holds("client", q) /\ Holds("server", q)' = Holds("server", q)
          BY <3>1, <3>6, Actors
        <5> QED BY <3>4, <5>1, <5>2, Zenon
      <4>2. Credit(q) \in Nat
        BY <3>3, <3>4
      <4> QED BY <4>1, <4>2
    <3> QED BY <3>5, <3>6
  <2>9. CreditInv'
    BY <1>1, <2>4, <2>5, <2>8, CreditStep
  <2> QED BY <2>5, <2>6, <2>7, <2>9 DEF MsgInv
<1> QED BY <1>3, <1>4

LEMMA ClientSendStep == ASSUME MsgInv, ClientSend PROVE MsgInv'
<1>1. PICK r \in Requests : data_send' = r /\ mq_send("client", r, "receive")
  BY DEF ClientSend
<1>2. pc["client"] = "send" /\ UNCHANGED <<name, myqueue, i, log, crashed, starts, signals>>
  BY DEF ClientSend
<1>3. MaySend("client") = 1
  BY <1>2 DEF MaySend
<1>4. /\ pc' \in [Procs -> PC] /\ pc'["client"] = "receive"
      /\ pc'["server"] = pc["server"]
         \/ (pc["server"] = "blocked" /\ pc'["server"] = "got")
      /\ Len(queues') = Len(queues)
      /\ \A q \in 1..Len(queues) : Len(queues'[q]) <= QueueSize
      /\ QueueTypes' /\ NameInv' /\ CreditInv'
  <2>1. r \in AnyMessage
    BY RequestTypes
  <2> QED BY <1>1, <1>2, <1>3, <2>1, SendStep, Actors
<1>5. TypeOK'
  <2>1. DOMAIN queues' = 1..Len(queues)
    BY <1>4 DEF QueueTypes
  <2>2. \A q \in DOMAIN queues' : Len(queues'[q]) <= QueueSize
    BY <1>4, <2>1
  <2>3. data_send' \in Requests \cup {Empty}
    BY <1>1
  <2> QED BY <1>2, <1>4, <2>2, <2>3 DEF MsgInv, TypeOK
<1>6. LoopInv'
  BY <1>2, <1>4, Actors DEF MsgInv, LoopInv
<1> QED BY <1>4, <1>5, <1>6 DEF MsgInv

LEMMA ClientLogStep == ASSUME MsgInv, ClientLog PROVE MsgInv'
<1> DEFINE after == IF More("client") THEN "send" ELSE "close"
<1>1. /\ pc["client"] = "got" /\ i' = [i EXCEPT !["client"] = @ + 1]
      /\ Goto("client", after)
  BY DEF ClientLog
<1>2. UNCHANGED <<name, queues, myqueue, buffer, data_send, crashed, starts, signals>>
  BY DEF ClientLog
<1>3. /\ pc' \in [Procs -> PC] /\ pc'["client"] = after
      /\ pc'["server"] = pc["server"]
  BY <1>1, GotoPC, Actors DEF MsgInv, PC
<1>4. i["client"] < Rounds /\ i \in [Procs -> 0..Rounds] /\ Rounds \in Nat
  BY <1>1, RoundsAssumption, Actors DEF MsgInv, LoopInv, TypeOK
<1>5. /\ i' \in [Procs -> 0..Rounds] /\ i'["server"] = i["server"]
      /\ i'["client"] = i["client"] + 1
  BY <1>1, <1>4, Actors
<1>6. TypeOK'
  BY <1>2, <1>3, <1>5 DEF MsgInv, TypeOK
<1>7. LoopInv'
  BY <1>1, <1>2, <1>3, <1>5, Actors DEF MsgInv, LoopInv, More
<1>8. NameInv'
  BY <1>3 DEF NameInv
<1>9. \A p \in Procs : MaySend(p)' <= MaySend(p)
  BY <1>1, <1>3, Actors DEF MaySend
<1>10. QueueTypes' /\ CreditInv'
  BY <1>2, <1>9, CreditFrame
<1> QED BY <1>6, <1>7, <1>8, <1>10 DEF MsgInv

LEMMA ReplyStep ==
  ASSUME MsgInv, pc["server"] = "got", NEW reply \in AnyMessage, ServerReply(reply)
  PROVE  MsgInv'
<1> DEFINE after == IF More("server") THEN "receive" ELSE "close"
<1>1. mq_send("server", reply, after) /\ i' = [i EXCEPT !["server"] = @ + 1]
  BY DEF ServerReply
<1>2. UNCHANGED <<name, myqueue, data_send, log, crashed, starts, signals>>
  BY DEF ServerReply
<1>3. MaySend("server") = 1 /\ after \in {"receive", "close"}
  BY DEF MaySend
<1>4. /\ pc' \in [Procs -> PC] /\ pc'["server"] = after
      /\ pc'["client"] = pc["client"]
         \/ (pc["client"] = "blocked" /\ pc'["client"] = "got")
      /\ Len(queues') = Len(queues)
      /\ \A q \in 1..Len(queues) : Len(queues'[q]) <= QueueSize
      /\ QueueTypes' /\ NameInv' /\ CreditInv'
  <2> HIDE DEF after
  <2> QED BY <1>1, <1>2, <1>3, SendStep, Actors
<1>5. i["server"] < Rounds /\ i \in [Procs -> 0..Rounds] /\ Rounds \in Nat
  BY RoundsAssumption, Actors DEF MsgInv, LoopInv, TypeOK
<1>6. /\ i' \in [Procs -> 0..Rounds] /\ i'["client"] = i["client"]
      /\ i'["server"] = i["server"] + 1
  BY <1>1, <1>5, Actors
<1>7. TypeOK'
  <2>1. DOMAIN queues' = 1..Len(queues)
    BY <1>4 DEF QueueTypes
  <2>2. \A q \in DOMAIN queues' : Len(queues'[q]) <= QueueSize
    BY <1>4, <2>1
  <2> QED BY <1>2, <1>4, <1>6, <2>2 DEF MsgInv, TypeOK
<1>8. LoopInv'
  <2>1. after = "receive" => i'["server"] < Rounds
    BY <1>6 DEF More
  <2>2. pc'["server"] \in {"open", "send", "receive", "blocked", "got"} =>
          i'["server"] < Rounds /\ myqueue'["server"] # 0
    BY <1>2, <1>4, <2>1, Actors DEF MsgInv, LoopInv
  <2> QED BY <1>2, <1>4, <1>6, <2>2, Actors DEF MsgInv, LoopInv
<1> QED BY <1>4, <1>7, <1>8 DEF MsgInv

LEMMA ReplyType == ASSUME NEW d \in AnyMessage PROVE status_update(d) \in AnyMessage
<1>1. d.text \in Seq(Words) /\ d.is_command \in {0, 1}
  BY DEF AnyMessage
<1>2. /\ <<"LED is now ON">> \in Seq(Words) /\ <<"LED is now OFF">> \in Seq(Words)
      /\ <<"You sent message:">> \in Seq(Words)
  <2>1. \A x \in Words : <<x>> \in Seq(Words)
    OBVIOUS
  <2>2. /\ "LED is now ON" \in Words /\ "LED is now OFF" \in Words
        /\ "You sent message:" \in Words
    BY DEF Words
  <2> QED BY <2>1, <2>2, Zenon
<1>3. <<"You sent message:">> \o d.text \in Seq(Words)
  BY <1>1, <1>2, ConcatProperties
<1>4. ASSUME NEW f \in {0, 1}, NEW t \in Seq(Words) PROVE Text(f, t) \in AnyMessage
  BY DEF Text, AnyMessage
<1> QED BY <1>2, <1>3, <1>4 DEF status_update

LEMMA ServerAnswerStep == ASSUME MsgInv, ServerAnswer PROVE MsgInv'
<1>1. buffer["server"] \in AnyMessage
  BY Actors DEF MsgInv, QueueTypes
<1> QED BY <1>1, ReplyType, ReplyStep DEF ServerAnswer

LEMMA ServerOverrunStep == ASSUME MsgInv, ServerOverrun PROVE MsgInv'
<1> DEFINE reply == status_update(buffer["server"])
           cut == SubSeq(reply.text, 1, 2)
<1>1. pc["server"] = "got" /\ ~ Fits(reply)
  BY DEF ServerOverrun
<1>2. reply \in AnyMessage
  BY ReplyType, Actors DEF MsgInv, QueueTypes
<1>3. Text(0, cut) \in AnyMessage
  <2>1. reply.text \in Seq(Words)
    BY <1>2 DEF AnyMessage
  <2>2. Len(reply.text) \in Nat /\ Len(reply.text) > 2
    BY <1>1, <2>1 DEF Fits
  <2>3. \A n \in 1..2 : reply.text[n] \in Words
    BY <2>1, <2>2
  <2>4. cut \in Seq(Words)
    BY <2>3, SubSeqProperties
  <2> HIDE DEF cut
  <2> QED BY <2>4 DEF Text, AnyMessage
<1>4. CASE ServerReply(Text(0, cut))
  BY <1>1, <1>3, <1>4, ReplyStep
<1>5. CASE /\ crashed' = TRUE /\ Goto("server", "down")
           /\ UNCHANGED <<name, queues, myqueue, buffer, i, data_send, log, starts, signals>>
  <2>1. /\ pc' \in [Procs -> PC] /\ pc'["server"] = "down"
        /\ pc'["client"] = pc["client"]
    BY <1>5, GotoPC, Actors DEF MsgInv, PC
  <2>2. TypeOK'
    BY <1>5, <2>1 DEF MsgInv, TypeOK
  <2>3. LoopInv' /\ NameInv'
    BY <1>5, <2>1, Actors DEF MsgInv, LoopInv, NameInv
  <2>4. \A p \in Procs : MaySend(p)' <= MaySend(p)
    BY <2>1, Actors DEF MaySend
  <2>5. QueueTypes' /\ CreditInv'
    BY <1>5, <2>4, CreditFrame
  <2> QED BY <2>2, <2>3, <2>5 DEF MsgInv
<1> QED BY <1>4, <1>5 DEF ServerOverrun

LEMMA StepMsg == MsgInv /\ [Next]_vars => MsgInv'
<1> SUFFICES ASSUME MsgInv, [Next]_vars PROVE MsgInv'
  OBVIOUS
<1>1. CASE mq_open("client", "send") \/ mq_open("server", "receive")
  BY <1>1, OpenStep, Actors
<1>2. CASE ClientSend
  BY <1>2, ClientSendStep
<1>3. CASE mq_receive("client") \/ mq_receive("server")
  BY <1>3, ReceiveStep, Actors
<1>4. CASE ClientLog
  BY <1>4, ClientLogStep
<1>5. CASE ServerAnswer
  BY <1>5, ServerAnswerStep
<1>6. CASE ServerOverrun
  BY <1>6, ServerOverrunStep
<1>7. CASE End("client") \/ End("server")
  BY <1>7, EndStep, Actors
<1>8. ASSUME NEW p \in Procs, Start(p) \/ SIGINT(p) PROVE MsgInv'
  BY <1>8, StartStep, SigintStep
<1>9. CASE UNCHANGED vars
  <2>1. UNCHANGED <<name, queues, myqueue, buffer, pc, i, data_send, log, crashed,
                    starts, signals>>
    BY <1>9 DEF vars
  <2>2. TypeOK' /\ QueueTypes' /\ LoopInv' /\ NameInv'
    BY <2>1 DEF MsgInv, TypeOK, QueueTypes, LoopInv, NameInv
  <2>3. CreditInv'
    BY <2>1 DEF MsgInv, CreditInv, Credit, Holds, MaySend
  <2> QED BY <2>2, <2>3 DEF MsgInv
<1> QED BY <1>1, <1>2, <1>3, <1>4, <1>5, <1>6, <1>7, <1>8, <1>9
        DEF Next, Client, Server

-----------------------------------------------------------------------------
(* However often the programs are started, interrupted or killed, the      *)
(* right to send and the messages in flight stay one per queue.            *)
THEOREM Invariance == Spec => []MsgInv
BY InitMsg, StepMsg, PTL DEF Spec

(* The states of both programs and of the queues are those of the code.    *)
THEOREM TypeCorrect == Spec => []TypeOK
<1>1. MsgInv => TypeOK
  BY DEF MsgInv
<1> QED BY <1>1, Invariance, PTL

(* No queue ever holds a second message, and none while the server works   *)
(* on one: mq_send never blocks, whatever the size of the queue.           *)
THEOREM NeverFull == Spec => []OneInFlight
<1>1. MsgInv => OneInFlight
  <2> SUFFICES ASSUME MsgInv PROVE OneInFlight
    OBVIOUS
  <2>1. queues \in Seq(Seq(AnyMessage)) /\ DOMAIN queues = 1..Len(queues) /\ Len(queues) \in Nat
    BY DEF MsgInv, QueueTypes
  <2>2. ASSUME NEW q \in 1..Len(queues) PROVE Len(queues[q]) <= 1
    BY Tokens DEF MsgInv, CreditInv, Credit
  <2>3. ASSUME pc["server"] = "got" PROVE queues[myqueue["server"]] = <<>>
    <3> DEFINE k == myqueue["server"]
    <3>1. k \in 0..Len(queues) /\ k # 0
      BY <2>3, Actors DEF MsgInv, LoopInv, TypeOK
    <3>2. k \in 1..Len(queues)
      BY <2>1, <3>1
    <3>3. Holds("server", k) = 1
      BY <2>3 DEF Holds, MaySend
    <3>4. Credit(k) = Len(queues[k]) + Holds("client", k) + Holds("server", k) /\ Credit(k) <= 1
      BY <3>2 DEF MsgInv, CreditInv, Credit
    <3>5. Len(queues[k]) \in Nat /\ queues[k] \in Seq(AnyMessage) /\ Holds("client", k) \in 0..1
      BY <3>2, Tokens DEF MsgInv
    <3> HIDE DEF k
    <3>6. Len(queues[k]) = 0
      BY <3>3, <3>4, <3>5
    <3>7. queues[k] = <<>>
      BY <3>5, <3>6, EmptyQueue
    <3> QED BY <3>7 DEF k
  <2> QED BY <2>1, <2>2, <2>3 DEF OneInFlight
<1> QED BY <1>1, Invariance, PTL
================================================================================
