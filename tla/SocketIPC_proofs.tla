--------------------------- MODULE SocketIPC_proofs ---------------------------
(***************************************************************************)
(* Proofs about module SocketIPC, for every set of clients and requests,   *)
(* every number of rounds, and whichever processes may be interrupted.     *)
(***************************************************************************)
EXTENDS SocketIPC, TLAPS

(* A process that is not done has rounds left.                             *)
LoopInv == \A p \in Procs : pc[p] # "down" => i[p] < Rounds

(* Whom the server has accepted, and who has connected.                    *)
ServedInv ==
  /\ pc[Server] \in {"start", "accept"} => served = {}
  /\ pc[Server] \in {"read", "send"} => served # {}
  /\ pc[Server] # "down" /\ served = {} => i[Server] = 0
  /\ pc[Server] = "start" => backlog = {}
  /\ \A c \in Clients : pc[c] # "accept" /\ (pc[c] = "start" => c \notin backlog \cup served)

(* Where the question of a living client is, or its answer.                *)
Answering(c) == c \in served /\ pc[Server] = "send"
Quiet(c) ==
  back[c] = <<>> /\ (pc[Server] = "down" \/ (to[c] = <<>> /\ ~ Answering(c)))
Asked(c) == to[c] = <<data_send[c]>> /\ back[c] = <<>> /\ ~ Answering(c)
Taken(c) == /\ to[c] = <<>> /\ back[c] = <<>>
            /\ Answering(c) /\ buffer[Server] = data_send[c]
Answered(c) == /\ back[c] = <<status_update(data_send[c])>>
               /\ c \in served
               /\ pc[Server] = "down" \/ (pc[Server] = "read" /\ to[c] = <<>>)
Lost(c) == back[c] = <<>> /\ pc[Server] = "down"
Turn(c) ==
  /\ pc[c] \in {"start", "send"} => Quiet(c)
  /\ pc[c] = "read" =>
       /\ data_send[c] \in Requests
       /\ Asked(c) \/ Taken(c) \/ Answered(c) \/ Lost(c)
  /\ c \notin served => back[c] = <<>>

(* The two loops go round together unless the server ended before its last *)
(* round, and a client does not finish before the server.                  *)
Count(c) ==
  /\ pc[c] # "down" /\ c \in served /\ ~ EndedEarly(Server) =>
       i[Server] = i[c] + Len(back[c])
  /\ pc[c] # "down" /\ c \notin served => i[c] = 0 \/ pc[Server] = "down"
  /\ pc[c] = "down" /\ i[c] = Rounds => pc[Server] = "down"

(* What a client has logged, and what its buffer holds.                    *)
Exchanges == Messages \X (Replies \cup {Empty})
RightOrRepeat(c) ==
  \A n \in DOMAIN log[c] :
     \/ log[c][n][2] = status_update(log[c][n][1])
     \/ /\ pc[Server] = "down"
        /\ log[c][n][2] = IF n = 1 THEN Empty ELSE log[c][n - 1][2]
Logged(c) ==
  /\ log[c] \in Seq(Exchanges) /\ Len(log[c]) = i[c]
  /\ buffer[c] = IF log[c] = <<>> THEN Empty ELSE log[c][Len(log[c])][2]
  /\ RightOrRepeat(c)

ClientInv(c) == Turn(c) /\ Count(c) /\ Logged(c)
SocketInv == /\ TypeOK /\ LoopInv /\ ServedInv /\ buffer[Server] \in Messages
             /\ \A c \in Clients : ClientInv(c)

(* A step is one of c's RequestReply or leaves its state alone, unless the *)
(* conversation is broken or never began.                                  *)
Matched(c) == Broken(c)' \/ Unserved(c)' \/ RR(c)!Next \/ UNCHANGED RR(c)!vars

LEMMA Actors == /\ Server \in Procs /\ \A p \in Procs : p = Server \/ p \in Clients
                /\ \A c \in Clients : c # Server /\ c \in Procs
BY ClientsAssumption DEF Procs

LEMMA InitSocket == Init => SocketInv
<1> SUFFICES ASSUME Init PROVE SocketInv
  OBVIOUS
<1>1. TypeOK /\ buffer[Server] \in Messages
  BY RoundsAssumption, Actors DEF Init, TypeOK, Messages
<1>2. LoopInv
  BY RoundsAssumption DEF Init, LoopInv
<1>3. ServedInv
  BY Actors DEF Init, ServedInv
<1>4. ASSUME NEW c \in Clients PROVE ClientInv(c)
  <2>1. /\ pc[c] = "start" /\ pc[Server] = "start" /\ served = {} /\ i[c] = 0
        /\ to[c] = <<>> /\ back[c] = <<>> /\ buffer[c] = Empty /\ log[c] = <<>>
    BY Actors DEF Init
  <2>2. Turn(c) /\ Count(c)
    BY <2>1 DEF Turn, Quiet, Answering, Count
  <2>3. Logged(c)
    BY <2>1 DEF Logged, RightOrRepeat
  <2> QED BY <2>2, <2>3 DEF ClientInv
<1> QED BY <1>1, <1>2, <1>3, <1>4 DEF SocketInv

-----------------------------------------------------------------------------
PCs == {"start", "accept", "send", "read", "down"}

LEMMA GotoPC ==
  ASSUME TypeOK, NEW p \in Procs, NEW label \in PCs, Goto(p, label)
  PROVE  /\ pc' \in [Procs -> PCs] /\ pc'[p] = label
         /\ \A q \in Procs \ {p} : pc'[q] = pc[q]
BY DEF Goto, TypeOK, PCs

LEMMA ExitPC ==
  ASSUME TypeOK, NEW p \in Procs, Exit(p)
  PROVE  /\ pc' \in [Procs -> PCs] /\ pc'[p] = "down"
         /\ \A q \in Procs \ {p} : pc'[q] = pc[q]
         /\ reset' \subseteq Procs
<1>1. "down" \in PCs
  BY DEF PCs
<1>2. reset' \subseteq Procs
  BY Actors DEF Exit, TypeOK
<1> QED BY <1>1, <1>2, GotoPC DEF Exit

(* A step that does not touch client d.                                    *)
LEMMA Frame ==
  ASSUME NEW d \in Clients, ClientInv(d),
         pc'[d] = pc[d], i'[d] = i[d], to'[d] = to[d], back'[d] = back[d],
         data_send'[d] = data_send[d], log'[d] = log[d], buffer'[d] = buffer[d],
         pc[Server] = "down" => pc'[Server] = "down",
         \/ d \notin served /\ d \notin served'
         \/ /\ d \in served <=> d \in served'
            /\ pc'[Server] = pc[Server] /\ i'[Server] = i[Server] /\ buffer'[Server] = buffer[Server]
  PROVE  ClientInv(d)' /\ Matched(d)
<1>1. Turn(d)'
  BY DEF ClientInv, Turn, Quiet, Asked, Taken, Answered, Lost, Answering
<1>2. Count(d)'
  BY DEF ClientInv, Count, EndedEarly
<1>3. Logged(d)'
  BY DEF ClientInv, Logged, RightOrRepeat
<1>4. UNCHANGED RR(d)!vars
  BY DEF RR!vars
<1> QED BY <1>1, <1>2, <1>3, <1>4 DEF ClientInv, Matched

(* The end of a client, in the middle of its rounds.                       *)
LEMMA ClientExit ==
  ASSUME SocketInv, NEW c \in Clients, pc[c] # "down", Exit(c),
         UNCHANGED <<i, backlog, served, to, back, buffer, log>>,
         data_send' \in [Clients -> Messages],
         \A d \in Clients \ {c} : data_send'[d] = data_send[d]
  PROVE  SocketInv' /\ \A d \in Clients : Matched(d)
<1> USE DEF SocketInv
<1>1. /\ pc' \in [Procs -> PCs] /\ pc'[c] = "down" /\ reset' \subseteq Procs
      /\ \A q \in Procs \ {c} : pc'[q] = pc[q]
  BY ExitPC, Actors
<1>2. i[c] < Rounds /\ i[c] \in Nat
  BY Actors DEF LoopInv, TypeOK
<1>3. TypeOK'
  BY <1>1 DEF TypeOK, PCs
<1>4. LoopInv' /\ ServedInv' /\ (buffer[Server] \in Messages)'
  BY <1>1, Actors DEF LoopInv, ServedInv
<1>5. ASSUME NEW d \in Clients, d # c PROVE ClientInv(d)' /\ Matched(d)
  BY <1>1, <1>5, Frame, Actors
<1>6. ClientInv(c)'
  <2>1. pc'[Server] = pc[Server]
    BY <1>1, Actors
  <2>2. Turn(c)'
    BY <1>1 DEF ClientInv, Turn
  <2>3. Count(c)'
    BY <1>1, <1>2, RoundsAssumption DEF Count
  <2>4. Logged(c)'
    BY <2>1 DEF ClientInv, Logged, RightOrRepeat
  <2> QED BY <2>2, <2>3, <2>4 DEF ClientInv
<1>7. Matched(c)
  BY <1>1, <1>2 DEF Matched, Broken, EndedEarly
<1> QED BY <1>3, <1>4, <1>5, <1>6, <1>7

(* The end of the server, likewise.                                        *)
LEMMA ServerExit ==
  ASSUME SocketInv, pc[Server] # "down", Exit(Server),
         UNCHANGED <<i, backlog, served, to, back, buffer, data_send, log>>
  PROVE  SocketInv' /\ \A d \in Clients : Matched(d)
<1> USE DEF SocketInv
<1>1. /\ pc' \in [Procs -> PCs] /\ pc'[Server] = "down" /\ reset' \subseteq Procs
      /\ \A c \in Clients : pc'[c] = pc[c]
  BY ExitPC, Actors
<1>2. i[Server] < Rounds /\ EndedEarly(Server)'
  BY <1>1, Actors DEF LoopInv, EndedEarly
<1>3. TypeOK'
  BY <1>1 DEF TypeOK, PCs
<1>4. LoopInv' /\ ServedInv' /\ (buffer[Server] \in Messages)'
  BY <1>1, Actors DEF LoopInv, ServedInv
<1>5. ASSUME NEW d \in Clients PROVE ClientInv(d)' /\ Matched(d)
  <2>1. Turn(d)'
    <3>1. Turn(d)
      BY <1>5 DEF ClientInv
    <3>2. Quiet(d) => Quiet(d)'
      BY <1>1 DEF Quiet
    <3>3. Asked(d) \/ Taken(d) \/ Answered(d) \/ Lost(d) => Answered(d)' \/ Lost(d)'
      BY <1>1 DEF Asked, Taken, Answered, Lost
    <3> QED BY <1>1, <3>1, <3>2, <3>3 DEF Turn
  <2>2. Count(d)'
    BY <1>1, <1>2 DEF Count
  <2>3. Logged(d)'
    BY <1>1 DEF ClientInv, Logged, RightOrRepeat
  <2>4. Matched(d)
    BY <1>2 DEF Matched, Broken
  <2> QED BY <2>1, <2>2, <2>3, <2>4 DEF ClientInv
<1> QED BY <1>3, <1>4, <1>5

LEMMA ListenStep ==
  ASSUME SocketInv, listen
  PROVE  SocketInv' /\ \A d \in Clients : Matched(d)
<1> USE DEF SocketInv
<1>1. /\ pc' \in [Procs -> PCs] /\ pc[Server] = "start" /\ pc'[Server] = "accept"
      /\ \A c \in Clients : pc'[c] = pc[c]
      /\ UNCHANGED <<i, backlog, served, to, back, reset, buffer, data_send, log>>
  BY GotoPC, Actors DEF listen, PCs
<1>2. TypeOK'
  BY <1>1 DEF TypeOK, PCs
<1>3. LoopInv' /\ ServedInv' /\ (buffer[Server] \in Messages)'
  BY <1>1, Actors DEF LoopInv, ServedInv
<1>4. ASSUME NEW d \in Clients PROVE ClientInv(d)' /\ Matched(d)
  <2>1. d \notin served
    BY <1>1 DEF ServedInv
  <2> QED BY <1>1, <2>1, Frame
<1> QED BY <1>2, <1>3, <1>4

LEMMA AcceptStep ==
  ASSUME SocketInv, NEW c \in Clients, accept(c)
  PROVE  SocketInv' /\ \A d \in Clients : Matched(d)
<1> USE DEF SocketInv
<1>1. /\ pc' \in [Procs -> PCs] /\ pc[Server] = "accept" /\ pc'[Server] = "read"
      /\ \A d \in Clients : pc'[d] = pc[d]
      /\ backlog' = backlog \ {c} /\ c \in backlog /\ served' = {c}
      /\ UNCHANGED <<i, to, back, reset, buffer, data_send, log>>
  BY GotoPC, Actors DEF accept, PCs
<1>2. served = {}
  BY <1>1 DEF ServedInv
<1>3. TypeOK'
  BY <1>1 DEF TypeOK, PCs
<1>4. LoopInv' /\ ServedInv' /\ (buffer[Server] \in Messages)'
  BY <1>1, <1>2, Actors DEF LoopInv, ServedInv
<1>5. ASSUME NEW d \in Clients, d # c PROVE ClientInv(d)' /\ Matched(d)
  BY <1>1, <1>2, <1>5, Frame
<1>6. ClientInv(c)'
  <2>1. back[c] = <<>>
    BY <1>2 DEF ClientInv, Turn
  <2>2. Turn(c)'
    BY <1>1, <1>2, <2>1 DEF ClientInv, Turn, Quiet, Asked, Taken, Answered, Lost, Answering
  <2>3. Count(c)'
    <3>1. i[Server] = 0 /\ (pc[c] # "down" => i[c] = 0)
      BY <1>1, <1>2 DEF ClientInv, Count, ServedInv
    <3>2. pc[c] = "down" => i[c] # Rounds
      BY <1>1 DEF ClientInv, Count
    <3>3. Len(back[c]) = 0
      BY <2>1
    <3> QED BY <1>1, <3>1, <3>2, <3>3 DEF Count
  <2>4. Logged(c)'
    BY <1>1 DEF ClientInv, Logged, RightOrRepeat
  <2> QED BY <2>2, <2>3, <2>4 DEF ClientInv
<1>7. Matched(c)
  BY <1>1 DEF Matched, RR!vars
<1> QED BY <1>3, <1>4, <1>5, <1>6, <1>7

(* The server has one client.                                              *)
LEMMA OneServed ==
  ASSUME TypeOK, NEW c \in served
  PROVE  \A d \in Clients \ {c} : d \notin served
BY DEF TypeOK

LEMMA ServerReadStep ==
  ASSUME SocketInv, NEW c \in Clients, ServerRead(c)
  PROVE  SocketInv' /\ \A d \in Clients : Matched(d)
<1> USE DEF SocketInv
<1>1. /\ pc' \in [Procs -> PCs] /\ pc[Server] = "read" /\ pc'[Server] = "send"
      /\ \A d \in Clients : pc'[d] = pc[d]
      /\ c \in served /\ (to[c] # <<>> \/ pc[c] = "down")
      /\ buffer' = (IF to[c] = <<>> THEN buffer ELSE [buffer EXCEPT ![Server] = Head(to[c])])
      /\ to' = [to EXCEPT ![c] = <<>>]
      /\ UNCHANGED <<i, backlog, served, back, reset, data_send, log>>
  BY GotoPC, Actors DEF ServerRead, PCs
<1>2. /\ buffer' \in [Procs -> Messages \cup Replies]
      /\ buffer'[Server] = (IF to[c] = <<>> THEN buffer[Server] ELSE Head(to[c]))
      /\ buffer'[Server] \in Messages
      /\ \A d \in Clients : buffer'[d] = buffer[d]
  <2>1. buffer \in [Procs -> Messages \cup Replies] /\ buffer[Server] \in Messages
    BY DEF TypeOK
  <2>2. CASE to[c] # <<>>
    <3>1. Head(to[c]) \in Messages
      BY <2>2 DEF TypeOK, Messages
    <3> QED BY <1>1, <2>1, <2>2, <3>1, Actors
  <2>3. CASE to[c] = <<>>
    BY <1>1, <2>1, <2>3
  <2> QED BY <2>2, <2>3
<1>3. /\ to' \in [Clients -> Seq(Requests)] /\ to'[c] = <<>>
      /\ \A d \in Clients \ {c} : to'[d] = to[d]
  BY <1>1 DEF TypeOK
<1>4. TypeOK'
  BY <1>1, <1>2, <1>3 DEF TypeOK, PCs
<1>5. LoopInv' /\ ServedInv'
  BY <1>1, Actors DEF LoopInv, ServedInv
<1>6. ASSUME NEW d \in Clients, d # c PROVE ClientInv(d)' /\ Matched(d)
  <2>1. d \notin served
    BY <1>1, <1>6, OneServed
  <2> QED BY <1>1, <1>2, <1>3, <1>6, <2>1, Frame
<1>7. ClientInv(c)'
  <2>1. Turn(c) /\ Count(c) /\ Logged(c)
    BY DEF ClientInv
  <2>2. pc[c] \notin {"start", "send"}
    BY <1>1, <2>1 DEF Turn, Quiet
  <2>3. pc[c] = "read" => to[c] = <<data_send[c]>> /\ back[c] = <<>>
    BY <1>1, <2>1 DEF Turn, Asked, Taken, Answered, Lost, Answering
  <2>4. pc[c] = "read" => Taken(c)'
    <3>1. Head(<<data_send[c]>>) = data_send[c] /\ <<data_send[c]>> # <<>>
      OBVIOUS
    <3> QED BY <1>1, <1>2, <1>3, <2>3, <3>1 DEF Taken, Answering
  <2>5. Turn(c)'
    BY <1>1, <2>1, <2>2, <2>4 DEF Turn
  <2>6. Count(c)'
    BY <1>1, <2>1 DEF Count, EndedEarly
  <2>7. Logged(c)'
    BY <1>1, <1>2, <2>1 DEF Logged, RightOrRepeat
  <2> QED BY <2>5, <2>6, <2>7 DEF ClientInv
<1>8. Matched(c)
  BY <1>1 DEF Matched, RR!vars
<1> QED BY <1>2, <1>4, <1>5, <1>6, <1>7, <1>8

LEMMA ConnectStep ==
  ASSUME SocketInv, NEW c \in Clients, connect(c)
  PROVE  SocketInv' /\ \A d \in Clients : Matched(d)
<1> USE DEF SocketInv
<1>1. /\ pc' \in [Procs -> PCs] /\ pc[c] = "start" /\ pc'[c] \in {"send", "down"}
      /\ \A q \in Procs \ {c} : pc'[q] = pc[q]
      /\ \/ pc[Server] \in {"accept", "read", "send"} /\ backlog' = backlog \cup {c}
         \/ backlog' = backlog
      /\ UNCHANGED <<i, served, to, back, reset, buffer, data_send, log>>
  <2>1. pc' \in [Procs -> PCs] /\ pc'[c] \in {"send", "down"} /\ \A q \in Procs \ {c} : pc'[q] = pc[q]
    BY GotoPC, Actors DEF connect, PCs
  <2> QED BY <2>1 DEF connect
<1>2. pc'[Server] = pc[Server] /\ \A d \in Clients \ {c} : pc'[d] = pc[d]
  BY <1>1, Actors
<1>3. TypeOK'
  BY <1>1 DEF TypeOK, PCs
<1>4. LoopInv' /\ ServedInv' /\ (buffer[Server] \in Messages)'
  BY <1>1, <1>2, Actors DEF LoopInv, ServedInv
<1>5. ASSUME NEW d \in Clients, d # c PROVE ClientInv(d)' /\ Matched(d)
  BY <1>1, <1>2, <1>5, Frame
<1>6. ClientInv(c)'
  <2>1. Turn(c) /\ Count(c) /\ Logged(c)
    BY DEF ClientInv
  <2>2. Turn(c)'
    BY <1>1, <1>2, <2>1 DEF Turn, Quiet, Answering
  <2>3. Count(c)'
    <3>1. i[c] < Rounds /\ i[c] \in Nat
      BY <1>1, Actors DEF LoopInv, TypeOK
    <3> QED BY <1>1, <1>2, <2>1, <3>1, RoundsAssumption DEF Count, EndedEarly
  <2>4. Logged(c)'
    BY <1>1, <1>2, <2>1 DEF Logged, RightOrRepeat
  <2> QED BY <2>2, <2>3, <2>4 DEF ClientInv
<1>7. Matched(c)
  BY <1>1 DEF Matched, RR!vars
<1> QED BY <1>3, <1>4, <1>5, <1>6, <1>7

(* A client that has rounds left and waits for nothing, or has lost its    *)
(* question, is not in an unbroken conversation with a server that is down.*)
LEMMA NotAfterTheEnd ==
  ASSUME SocketInv, NEW c \in Clients, pc[c] # "down", back[c] = <<>>, pc[Server] = "down"
  PROVE  c \notin served \/ EndedEarly(Server)
<1>1. /\ Count(c) /\ i[c] < Rounds /\ i[c] \in Nat
      /\ i[Server] \in 0..Rounds /\ Rounds \in Nat
  BY Actors, RoundsAssumption DEF SocketInv, ClientInv, LoopInv, TypeOK
<1>2. Len(back[c]) = 0
  OBVIOUS
<1>3. c \in served /\ ~EndedEarly(Server) => i[Server] = i[c]
  BY <1>1, <1>2 DEF Count
<1> QED BY <1>1, <1>3 DEF EndedEarly

LEMMA ClientSendStep ==
  ASSUME SocketInv, NEW c \in Clients, ClientSend(c)
  PROVE  SocketInv' /\ \A d \in Clients : Matched(d)
<1> USE DEF SocketInv
<1>1. PICK r \in Requests :
        /\ data_send' = [data_send EXCEPT ![c] = r]
        /\ \/ /\ pc[Server] # "down"
              /\ to' = [to EXCEPT ![c] = Append(@, r)]
              /\ Goto(c, "read") /\ UNCHANGED reset
           \/ /\ pc[Server] = "down"
              /\ \E got \in {{}, {c}} : reset' = reset \cup got
              /\ Goto(c, "read") /\ UNCHANGED to
           \/ /\ c \in reset
              /\ Exit(c) /\ UNCHANGED to
  BY DEF ClientSend
<1>2. pc[c] = "send" /\ UNCHANGED <<i, backlog, served, back, buffer, log>>
  BY DEF ClientSend
<1>3. /\ data_send' \in [Clients -> Messages] /\ data_send'[c] = r
      /\ \A d \in Clients \ {c} : data_send'[d] = data_send[d]
  BY <1>1 DEF TypeOK, Messages
<1>4. CASE Exit(c) /\ UNCHANGED to
  BY <1>2, <1>3, <1>4, ClientExit
<1>5. ASSUME Goto(c, "read"), reset' \subseteq Procs,
             \/ /\ pc[Server] # "down" /\ to' = [to EXCEPT ![c] = Append(to[c], r)]
             \/ pc[Server] = "down" /\ UNCHANGED to
      PROVE  SocketInv' /\ \A d \in Clients : Matched(d)
  <2>1. /\ pc' \in [Procs -> PCs] /\ pc'[c] = "read" /\ pc'[Server] = pc[Server]
        /\ \A d \in Clients \ {c} : pc'[d] = pc[d]
    BY <1>5, GotoPC, Actors DEF PCs
  <2>2. Turn(c) /\ Count(c) /\ Logged(c)
    BY DEF ClientInv
  <2>3. Quiet(c)
    BY <1>2, <2>2 DEF Turn
  <2>4. /\ to' \in [Clients -> Seq(Requests)]
        /\ pc[Server] # "down" => to'[c] = <<r>>
        /\ \A d \in Clients \ {c} : to'[d] = to[d]
    <3>1. CASE pc[Server] # "down"
      <4>1. to[c] = <<>> /\ Append(<<>>, r) = <<r>> /\ <<r>> \in Seq(Requests)
        BY <2>3, <3>1 DEF Quiet
      <4>2. to' = [to EXCEPT ![c] = <<r>>]
        BY <1>5, <3>1, <4>1
      <4> QED BY <4>1, <4>2 DEF TypeOK
    <3>2. CASE pc[Server] = "down"
      BY <1>5, <3>2 DEF TypeOK
    <3> QED BY <3>1, <3>2
  <2>5. TypeOK'
    BY <1>2, <1>3, <1>5, <2>1, <2>4 DEF TypeOK, PCs
  <2>6. LoopInv' /\ ServedInv' /\ (buffer[Server] \in Messages)'
    BY <1>2, <2>1, Actors DEF LoopInv, ServedInv
  <2>7. ASSUME NEW d \in Clients, d # c PROVE ClientInv(d)' /\ Matched(d)
    BY <1>2, <1>3, <2>1, <2>4, <2>7, Frame
  <2>8. ClientInv(c)'
    <3>1. back'[c] = <<>> /\ (pc[Server] # "down" => ~ Answering(c)')
      BY <1>2, <2>1, <2>3 DEF Quiet, Answering
    <3>2. Asked(c)' \/ Lost(c)'
      BY <1>3, <2>1, <2>4, <3>1 DEF Asked, Lost
    <3>3. Turn(c)'
      BY <1>3, <2>1, <3>1, <3>2 DEF Turn
    <3>4. Count(c)'
      BY <1>2, <2>1, <2>2 DEF Count, EndedEarly
    <3>5. Logged(c)'
      BY <1>2, <2>1, <2>2 DEF Logged, RightOrRepeat
    <3> QED BY <3>3, <3>4, <3>5 DEF ClientInv
  <2>9. Matched(c)
    <3>1. CASE pc[Server] = "down"
      <4>1. c \notin served \/ EndedEarly(Server)
        BY <1>2, <2>3, <3>1, NotAfterTheEnd DEF Quiet
      <4> QED BY <1>2, <2>1, <3>1, <4>1 DEF Matched, Unserved, Broken, EndedEarly
    <3>2. CASE pc[Server] # "down"
      <4>1. Len(log[c]) < Rounds
        BY <1>2, <2>2, Actors DEF Logged, LoopInv
      <4>2. RR(c)!Ask(r)
        BY <1>2, <1>3, <2>1, <4>1 DEF RR!Ask
      <4> QED BY <4>2 DEF Matched, RR!Next
    <3> QED BY <3>1, <3>2
  <2> QED BY <2>5, <2>6, <2>7, <2>8, <2>9
<1>6. CASE /\ pc[Server] # "down"
           /\ to' = [to EXCEPT ![c] = Append(@, r)]
           /\ Goto(c, "read") /\ UNCHANGED reset
  BY <1>5, <1>6 DEF TypeOK
<1>7. CASE /\ pc[Server] = "down"
           /\ \E got \in {{}, {c}} : reset' = reset \cup got
           /\ Goto(c, "read") /\ UNCHANGED to
  <2>1. reset' \subseteq Procs
    BY <1>7, Actors DEF TypeOK
  <2> QED BY <1>5, <1>7, <2>1
<1> QED BY <1>1, <1>4, <1>6, <1>7

(* The next round of p, or its end after the last.                         *)
LEMMA RoundPC ==
  ASSUME TypeOK, NEW p \in Procs, NEW top \in PCs, i[p] < Rounds,
         \/ i[p] + 1 < Rounds /\ Goto(p, top) /\ reset' \subseteq Procs
         \/ ~(i[p] + 1 < Rounds) /\ Exit(p),
         i' = [i EXCEPT ![p] = @ + 1]
  PROVE  /\ pc' \in [Procs -> PCs] /\ \A q \in Procs \ {p} : pc'[q] = pc[q]
         /\ \/ pc'[p] = top /\ i'[p] < Rounds
            \/ pc'[p] = "down" /\ i'[p] = Rounds
         /\ i[p] \in Nat /\ i'[p] = i[p] + 1 /\ \A q \in Procs \ {p} : i'[q] = i[q]
         /\ i' \in [Procs -> 0..Rounds]
         /\ reset' \subseteq Procs
<1>1. i[p] \in Nat /\ Rounds \in Nat /\ i[p] + 1 \in 0..Rounds
  BY RoundsAssumption DEF TypeOK
<1>2. /\ i'[p] = i[p] + 1 /\ \A q \in Procs \ {p} : i'[q] = i[q]
      /\ i' \in [Procs -> 0..Rounds]
  <2>1. i' = [i EXCEPT ![p] = i[p] + 1]
    OBVIOUS
  <2> QED BY <1>1, <2>1 DEF TypeOK
<1>3. CASE i[p] + 1 < Rounds
  BY <1>1, <1>2, <1>3, GotoPC
<1>4. CASE ~(i[p] + 1 < Rounds)
  BY <1>1, <1>2, <1>4, ExitPC
<1> QED BY <1>3, <1>4

LEMMA ServerSendStep ==
  ASSUME SocketInv, NEW c \in Clients, ServerSend(c)
  PROVE  SocketInv' /\ \A d \in Clients : Matched(d)
<1> USE DEF SocketInv
<1>1. /\ pc[Server] = "send" /\ c \in served
      /\ UNCHANGED <<backlog, served, to, buffer, data_send, log>>
  BY DEF ServerSend
<1>2. CASE Exit(Server) /\ UNCHANGED <<i, back>>
  BY <1>1, <1>2, ServerExit
<1>3. i[Server] < Rounds /\ "read" \in PCs
  BY <1>1, Actors DEF LoopInv, PCs
<1>4. Turn(c) /\ Count(c) /\ Logged(c)
  BY DEF ClientInv
<1>5. ASSUME i' = [i EXCEPT ![Server] = @ + 1],
             \/ i[Server] + 1 < Rounds /\ Goto(Server, "read") /\ reset' \subseteq Procs
             \/ ~(i[Server] + 1 < Rounds) /\ Exit(Server),
             \/ pc[c] = "down" /\ UNCHANGED back
             \/ pc[c] # "down" /\ back' = [back EXCEPT ![c] = Append(back[c], status_update(buffer[Server]))]
      PROVE  SocketInv' /\ \A d \in Clients : Matched(d)
  <2>1. /\ pc' \in [Procs -> PCs] /\ \A d \in Clients : pc'[d] = pc[d]
        /\ \/ pc'[Server] = "read" /\ i'[Server] < Rounds
           \/ pc'[Server] = "down" /\ i'[Server] = Rounds
        /\ i[Server] \in Nat /\ i'[Server] = i[Server] + 1 /\ \A d \in Clients : i'[d] = i[d]
        /\ i' \in [Procs -> 0..Rounds]
        /\ reset' \subseteq Procs
    BY <1>3, <1>5, RoundPC, Actors
  <2>2. pc[c] # "down" => pc[c] = "read" /\ data_send[c] \in Requests /\ Taken(c)
    <3>1. pc[c] \in PCs /\ pc[c] # "accept"
      BY Actors DEF TypeOK, PCs, ServedInv
    <3> QED BY <1>1, <1>4, <3>1 DEF PCs, Turn, Quiet, Asked, Answered, Lost, Answering
  <2>3. /\ back' \in [Clients -> Seq(Replies)]
        /\ pc[c] # "down" => back'[c] = <<status_update(data_send[c])>>
        /\ \A d \in Clients \ {c} : back'[d] = back[d]
    <3>1. CASE pc[c] = "down"
      BY <1>5, <3>1 DEF TypeOK
    <3>2. CASE pc[c] # "down"
      <4>1. back[c] = <<>> /\ status_update(buffer[Server]) = status_update(data_send[c])
        BY <2>2, <3>2 DEF Taken
      <4>2. /\ Append(<<>>, status_update(data_send[c])) = <<status_update(data_send[c])>>
            /\ status_update(data_send[c]) \in Replies
        BY <2>2, <3>2 DEF Replies, Messages
      <4>3. /\ back' = [back EXCEPT ![c] = <<status_update(data_send[c])>>]
            /\ <<status_update(data_send[c])>> \in Seq(Replies)
        BY <1>5, <3>2, <4>1, <4>2
      <4> QED BY <4>3 DEF TypeOK
    <3> QED BY <3>1, <3>2
  <2>4. TypeOK'
    BY <1>1, <2>1, <2>3 DEF TypeOK, PCs
  <2>5. LoopInv' /\ ServedInv' /\ (buffer[Server] \in Messages)'
    <3>1. LoopInv'
      BY <2>1, Actors DEF LoopInv
    <3> QED BY <1>1, <2>1, <3>1 DEF ServedInv
  <2>6. ASSUME NEW d \in Clients, d # c PROVE ClientInv(d)' /\ Matched(d)
    <3>1. d \notin served
      BY <1>1, <2>6, OneServed
    <3> QED BY <1>1, <2>1, <2>3, <2>6, <3>1, Frame
  <2>7. Logged(c)'
    <3>1. RightOrRepeat(c)'
      BY <1>1, <1>4 DEF Logged, RightOrRepeat
    <3> QED BY <1>1, <1>4, <2>1, <3>1 DEF Logged
  <2>8. CASE pc[c] = "down"
    <3>1. i[c] # Rounds
      BY <1>1, <1>4, <2>8 DEF Count
    <3>2. Turn(c)' /\ Count(c)'
      BY <1>1, <2>1, <2>8, <3>1 DEF Turn, Count
    <3>3. Matched(c)
      BY <1>1, <1>5, <2>1, <2>8 DEF Matched, RR!vars
    <3> QED BY <2>4, <2>5, <2>6, <2>7, <3>2, <3>3 DEF ClientInv
  <2>9. CASE pc[c] # "down"
    <3>1. Answered(c)'
      BY <1>1, <2>1, <2>2, <2>3, <2>9 DEF Answered, Taken
    <3>2. Turn(c)'
      BY <1>1, <2>1, <2>2, <2>9, <3>1 DEF Turn
    <3>3. back[c] = <<>> /\ Len(back[c]) = 0 /\ Len(back'[c]) = 1
      BY <2>2, <2>3, <2>9 DEF Taken
    <3>4. i[Server] = i[c] + Len(back[c]) /\ i[c] \in Nat
      BY <1>1, <1>4, <2>9, Actors DEF Count, EndedEarly, TypeOK
    <3>5. Count(c)'
      BY <1>1, <2>1, <2>9, <3>3, <3>4 DEF Count
    <3>6. RR(c)!Reply
      BY <1>1, <2>1, <2>2, <2>3, <2>9, <3>3 DEF RR!Reply
    <3> QED BY <2>4, <2>5, <2>6, <2>7, <3>2, <3>5, <3>6 DEF ClientInv, Matched, RR!Next
  <2> QED BY <2>8, <2>9
<1>6. CASE /\ pc[c] # "down"
           /\ back' = [back EXCEPT ![c] = Append(@, status_update(buffer[Server]))]
           /\ NextRound(Server, "read")
  BY <1>5, <1>6, Actors DEF NextRound, TypeOK
<1>7. CASE /\ pc[c] = "down"
           /\ i' = [i EXCEPT ![Server] = @ + 1]
           /\ \E got \in {{}, {Server}} :
                IF i[Server] + 1 < Rounds
                THEN Goto(Server, "read") /\ reset' = reset \cup got
                ELSE Exit(Server)
           /\ UNCHANGED back
  <2>1. \/ i[Server] + 1 < Rounds /\ Goto(Server, "read") /\ reset' \subseteq Procs
        \/ ~(i[Server] + 1 < Rounds) /\ Exit(Server)
    BY <1>7, Actors DEF TypeOK
  <2> QED BY <1>5, <1>7, <2>1
<1> QED BY <1>2, <1>6, <1>7 DEF ServerSend

LEMMA ClientReadStep ==
  ASSUME SocketInv, NEW c \in Clients, ClientRead(c)
  PROVE  SocketInv' /\ \A d \in Clients : Matched(d)
<1> USE DEF SocketInv
<1> DEFINE reply == IF back[c] = <<>> THEN buffer[c] ELSE Head(back[c])
<1>1. /\ pc[c] = "read" /\ (back[c] # <<>> \/ pc[Server] = "down")
      /\ buffer' = (IF back[c] = <<>> THEN buffer ELSE [buffer EXCEPT ![c] = Head(back[c])])
      /\ back' = [back EXCEPT ![c] = <<>>]
      /\ log' = [log EXCEPT ![c] = Append(@, <<data_send[c], buffer'[c]>>)]
      /\ NextRound(c, "send")
      /\ UNCHANGED <<backlog, served, to, data_send>>
  BY DEF ClientRead
<1>2. Turn(c) /\ Count(c) /\ Logged(c)
  BY DEF ClientInv
<1>3. /\ pc' \in [Procs -> PCs] /\ \A q \in Procs \ {c} : pc'[q] = pc[q]
      /\ \/ pc'[c] = "send" /\ i'[c] < Rounds
         \/ pc'[c] = "down" /\ i'[c] = Rounds
      /\ i[c] \in Nat /\ i'[c] = i[c] + 1 /\ \A q \in Procs \ {c} : i'[q] = i[q]
      /\ i' \in [Procs -> 0..Rounds]
      /\ reset' \subseteq Procs
  <2>1. i[c] < Rounds /\ "send" \in PCs /\ reset \subseteq Procs
    BY <1>1, Actors DEF LoopInv, PCs, TypeOK
  <2>2. /\ i' = [i EXCEPT ![c] = @ + 1]
        /\ \/ i[c] + 1 < Rounds /\ Goto(c, "send") /\ reset' \subseteq Procs
           \/ ~(i[c] + 1 < Rounds) /\ Exit(c)
    BY <1>1, <2>1 DEF NextRound
  <2> QED BY <2>1, <2>2, RoundPC, Actors
<1>4. data_send[c] \in Messages /\ buffer[c] \in Replies \cup {Empty}
  <2>1. log[c] # <<>> => log[c][Len(log[c])] \in Exchanges
    BY <1>2 DEF Logged
  <2>2. log[c] # <<>> => log[c][Len(log[c])][2] \in Replies \cup {Empty}
    BY <2>1 DEF Exchanges
  <2> QED BY <1>2, <2>2 DEF Logged, TypeOK
<1>5. reply \in Replies \cup {Empty}
  BY <1>4 DEF TypeOK
<1>6. /\ buffer' \in [Procs -> Messages \cup Replies] /\ buffer'[c] = reply
      /\ \A q \in Procs \ {c} : buffer'[q] = buffer[q]
  <2>1. CASE back[c] = <<>>
    BY <1>1, <2>1 DEF TypeOK
  <2>2. CASE back[c] # <<>>
    <3>1. Head(back[c]) \in Replies
      BY <2>2 DEF TypeOK
    <3> QED BY <1>1, <2>2, <3>1, Actors DEF TypeOK
  <2> QED BY <2>1, <2>2
<1> HIDE DEF reply
<1>7. /\ back' \in [Clients -> Seq(Replies)] /\ back'[c] = <<>>
      /\ \A d \in Clients \ {c} : back'[d] = back[d]
  BY <1>1 DEF TypeOK
<1>8. /\ log'[c] = Append(log[c], <<data_send[c], reply>>)
      /\ \A d \in Clients \ {c} : log'[d] = log[d]
      /\ log[c] \in Seq(Exchanges) /\ log'[c] \in Seq(Exchanges)
      /\ log' \in [Clients -> Seq(Exchanges)]
  <2>1. log[c] \in Seq(Exchanges) /\ <<data_send[c], reply>> \in Exchanges
    BY <1>2, <1>4, <1>5 DEF Logged, Exchanges
  <2>2. Append(log[c], <<data_send[c], reply>>) \in Seq(Exchanges)
    BY <2>1
  <2>3. log' = [log EXCEPT ![c] = Append(log[c], <<data_send[c], reply>>)]
    BY <1>1, <1>6
  <2>4. log \in [Clients -> Seq(Exchanges)]
    BY DEF TypeOK, Exchanges
  <2> QED BY <2>1, <2>2, <2>3, <2>4
<1>9. TypeOK'
  BY <1>1, <1>3, <1>6, <1>7, <1>8 DEF TypeOK, PCs, Exchanges
<1>10. pc'[Server] = pc[Server] /\ i'[Server] = i[Server] /\ buffer'[Server] = buffer[Server]
  BY <1>3, <1>6, Actors
<1>11. LoopInv' /\ ServedInv' /\ (buffer[Server] \in Messages)'
  <2>1. LoopInv'
    BY <1>3 DEF LoopInv
  <2> QED BY <1>1, <1>3, <1>10, <2>1, Actors DEF ServedInv
<1>12. ASSUME NEW d \in Clients, d # c PROVE ClientInv(d)' /\ Matched(d)
  BY <1>1, <1>3, <1>6, <1>7, <1>8, <1>10, <1>12, Frame, Actors
<1>13. \/ pc[Server] = "down"
       \/ pc[Server] = "read" /\ to[c] = <<>> /\ Answered(c)
  BY <1>1, <1>2 DEF Turn, Asked, Taken, Answered, Lost
<1>14. Turn(c)'
  <2>1. Quiet(c)'
    BY <1>1, <1>7, <1>10, <1>13 DEF Quiet, Answering
  <2> QED BY <1>3, <1>7, <2>1 DEF Turn
<1>15. back[c] # <<>> => /\ back[c] = <<status_update(data_send[c])>> /\ Len(back[c]) = 1
                         /\ reply = status_update(data_send[c]) /\ c \in served
  <2>1. Head(<<status_update(data_send[c])>>) = status_update(data_send[c])
    OBVIOUS
  <2>2. back[c] # <<>> => back[c] = <<status_update(data_send[c])>> /\ c \in served
    BY <1>1, <1>2 DEF Turn, Asked, Taken, Answered, Lost
  <2>3. SUFFICES ASSUME back[c] # <<>>
                 PROVE  /\ back[c] = <<status_update(data_send[c])>> /\ Len(back[c]) = 1
                        /\ reply = status_update(data_send[c]) /\ c \in served
    OBVIOUS
  <2>4. reply = Head(back[c])
    BY <2>3 DEF reply
  <2>5. Len(<<status_update(data_send[c])>>) = 1
    OBVIOUS
  <2>6. back[c] = <<status_update(data_send[c])>> /\ c \in served
    BY <2>2, <2>3
  <2>7. Head(back[c]) = status_update(data_send[c]) /\ Len(back[c]) = 1
    BY <2>1, <2>5, <2>6, Zenon
  <2> QED BY <2>4, <2>6, <2>7, Zenon
<1>16. back[c] = <<>> => pc[Server] = "down" /\ (c \notin served \/ EndedEarly(Server))
  BY <1>1, NotAfterTheEnd
<1>17. Count(c)'
  <2>1. CASE back[c] # <<>>
    <3>1. ~ EndedEarly(Server) => i[Server] = i[c] + 1
      BY <1>1, <1>2, <1>15, <2>1 DEF Count
    <3>2. pc[Server] # "down" => i[Server] < Rounds /\ ~ EndedEarly(Server)
      BY Actors DEF LoopInv, EndedEarly
    <3>3. i'[c] = Rounds => pc[Server] = "down"
      BY <1>3, <3>1, <3>2, RoundsAssumption
    <3>4. Len(back'[c]) = 0 /\ EndedEarly(Server)' = EndedEarly(Server)
      BY <1>7, <1>10 DEF EndedEarly
    <3> QED BY <1>1, <1>3, <1>10, <1>15, <2>1, <3>1, <3>3, <3>4 DEF Count
  <2>2. CASE back[c] = <<>>
    BY <1>1, <1>10, <1>16, <2>2 DEF Count, EndedEarly
  <2> QED BY <2>1, <2>2
<1>18. Logged(c)'
  <2>1. /\ Len(log'[c]) = Len(log[c]) + 1 /\ Len(log[c]) \in Nat
        /\ log'[c][Len(log[c]) + 1] = <<data_send[c], reply>>
        /\ \A n \in 1..Len(log[c]) : log'[c][n] = log[c][n]
        /\ DOMAIN log'[c] = 1..(Len(log[c]) + 1) /\ DOMAIN log[c] = 1..Len(log[c])
        /\ log'[c] # <<>>
    BY <1>8
  <2>2. buffer'[c] = log'[c][Len(log'[c])][2]
    BY <1>6, <2>1
  <2>3. ASSUME NEW n \in 1..Len(log[c])
        PROVE  \/ log'[c][n][2] = status_update(log'[c][n][1])
               \/ /\ pc'[Server] = "down"
                  /\ log'[c][n][2] = IF n = 1 THEN Empty ELSE log'[c][n - 1][2]
    <3>1. \/ log[c][n][2] = status_update(log[c][n][1])
          \/ /\ pc[Server] = "down"
             /\ log[c][n][2] = IF n = 1 THEN Empty ELSE log[c][n - 1][2]
      BY <1>2, <2>1 DEF Logged, RightOrRepeat
    <3>2. n # 1 => n - 1 \in 1..Len(log[c])
      BY <2>1
    <3> QED BY <1>10, <2>1, <3>1, <3>2
  <2>4. \/ reply = status_update(data_send[c])
        \/ /\ pc'[Server] = "down"
           /\ reply = IF Len(log[c]) + 1 = 1 THEN Empty ELSE log'[c][Len(log[c])][2]
    <3>1. CASE back[c] = <<>>
      <4>1. reply = IF log[c] = <<>> THEN Empty ELSE log[c][Len(log[c])][2]
        BY <1>2, <3>1 DEF reply, Logged
      <4>2. log[c] = <<>> <=> Len(log[c]) = 0
        BY <1>8
      <4>3. Len(log[c]) # 0 => log'[c][Len(log[c])] = log[c][Len(log[c])]
        BY <2>1
      <4> QED BY <1>10, <1>16, <2>1, <3>1, <4>1, <4>2, <4>3
    <3> QED BY <1>15, <3>1
  <2>5. RightOrRepeat(c)'
    <3>1. SUFFICES ASSUME NEW n \in DOMAIN log'[c]
                   PROVE  \/ log'[c][n][2] = status_update(log'[c][n][1])
                          \/ /\ pc'[Server] = "down"
                             /\ log'[c][n][2] = IF n = 1 THEN Empty ELSE log'[c][n - 1][2]
      BY DEF RightOrRepeat
    <3>2. CASE n = Len(log[c]) + 1
      <4>1. log'[c][n] = <<data_send[c], reply>> /\ n - 1 = Len(log[c])
        BY <2>1, <3>2
      <4>2. log'[c][n][1] = data_send[c] /\ log'[c][n][2] = reply
        BY <4>1
      <4> QED BY <2>4, <3>2, <4>1, <4>2
    <3>3. CASE n \in 1..Len(log[c])
      BY <2>3, <3>3
    <3> QED BY <2>1, <3>1, <3>2, <3>3
  <2> QED BY <1>2, <1>3, <1>8, <2>1, <2>2, <2>5 DEF Logged
<1>19. Matched(c)
  <2>1. CASE back[c] = <<>>
    BY <1>1, <1>10, <1>16, <2>1 DEF Matched, Broken, Unserved, EndedEarly
  <2>2. CASE back[c] # <<>>
    <3>1. back[c] = <<status_update(data_send[c])>> /\ reply = status_update(data_send[c])
      BY <1>15, <2>2
    <3>2. back[c][1] = reply
      BY <3>1
    <3>3. RR(c)!Take
      BY <1>1, <1>3, <1>7, <1>8, <2>2, <3>2 DEF RR!Take
    <3> QED BY <3>3 DEF Matched, RR!Next
  <2> QED BY <2>1, <2>2
<1> QED BY <1>9, <1>11, <1>12, <1>14, <1>17, <1>18, <1>19 DEF ClientInv

LEMMA SocketStep == SocketInv /\ [Next]_vars => SocketInv' /\ \A d \in Clients : Matched(d)
<1> SUFFICES ASSUME SocketInv, [Next]_vars PROVE SocketInv' /\ \A d \in Clients : Matched(d)
  OBVIOUS
<1>1. CASE ServerStep
  BY <1>1, ListenStep, AcceptStep, ServerReadStep, ServerSendStep DEF ServerStep
<1>2. ASSUME NEW c \in Clients, Client(c) PROVE SocketInv' /\ \A d \in Clients : Matched(d)
  BY <1>2, ConnectStep, ClientSendStep, ClientReadStep DEF Client
<1>3. ASSUME NEW p \in Procs, handler(p) PROVE SocketInv' /\ \A d \in Clients : Matched(d)
  <2>1. data_send \in [Clients -> Messages]
    BY DEF SocketInv, TypeOK
  <2> QED BY <1>3, <2>1, ClientExit, ServerExit, Actors DEF handler
<1>4. CASE UNCHANGED vars
  <2>1. TypeOK' /\ LoopInv' /\ ServedInv' /\ (buffer[Server] \in Messages)'
    BY <1>4 DEF vars, SocketInv, TypeOK, LoopInv, ServedInv
  <2>2. ASSUME NEW d \in Clients PROVE ClientInv(d)' /\ Matched(d)
    BY <1>4, <2>2, Frame DEF vars, SocketInv
  <2> QED BY <2>1, <2>2 DEF SocketInv
<1> QED BY <1>1, <1>2, <1>3, <1>4 DEF Next

(* The invariant holds throughout.                                         *)
THEOREM Invariance == Spec => []SocketInv
BY InitSocket, SocketStep, PTL DEF Spec

(* Type correctness of the server, the clients and their connections.      *)
THEOREM TypeCorrect == Spec => []TypeOK
<1>1. SocketInv => TypeOK
  BY DEF SocketInv
<1> QED BY <1>1, Invariance, PTL

(* Whoever is interrupted, a client logs the answer to its own request, or *)
(* repeats its buffer when the server has gone.                            *)
THEOREM AnsweredOrRepeated == Spec => []AnswerOrRepeat
<1>1. SocketInv => AnswerOrRepeat
  BY DEF SocketInv, ClientInv, Logged, RightOrRepeat, AnswerOrRepeat
<1> QED BY <1>1, Invariance, PTL

(* The connection of the served client implements one question and its     *)
(* answer at a time until one side has ended early.                        *)
THEOREM Refinement == Spec => Implements
<1>1. Init => \A c \in Clients : RR(c)!Init
  BY Actors DEF Init, RR!Init
<1>2. SocketInv /\ [Next]_vars =>
        [\A c \in Clients : Broken(c)' \/ Unserved(c)' \/ [RR(c)!Next]_(RR(c)!vars)]_vars
  BY SocketStep DEF Matched
<1> QED BY <1>1, <1>2, Invariance, PTL DEF Spec, Implements
================================================================================
