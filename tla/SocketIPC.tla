------------------------------- MODULE SocketIPC -------------------------------
(***************************************************************************)
(* HW4, IPC_sockets_server and IPC_sockets_client: the server accepts one  *)
(* connection and answers Rounds requests on it; a client connects, sends  *)
(* Rounds requests and reads a reply to each.  Nobody looks at what read   *)
(* and send return: when the other end is gone, read leaves the old bytes  *)
(* in the buffer and they are taken for a new message.                     *)
(*                                                                         *)
(* A client that comes second is connected by the kernel, waits in the     *)
(* backlog and is never accepted.                                          *)
(*                                                                         *)
(* A request or reply of some 50 bytes is one segment on the loopback      *)
(* device, so read is given whole messages; it takes all that is there.    *)
(***************************************************************************)
EXTENDS Naturals, Sequences

CONSTANTS Clients,      \* the client processes that are started
          Requests,     \* the messages a client chooses from
          Rounds,       \* iterations of both loops; 10 in the code
          Interrupted   \* the processes that may get a SIGINT

Server == "server"

ASSUME ClientsAssumption == Server \notin Clients
ASSUME RoundsAssumption == Rounds \in Nat \ {0}
ASSUME InterruptedAssumption == Interrupted \subseteq Clients \cup {Server}

Procs == Clients \cup {Server}

VARIABLES pc, i,       \* where each process is, and its loop counter
          backlog,     \* the clients that are connected and not accepted
          served,      \* the clients the server has accepted, none or one
          to, back,    \* the bytes on their way to the server, and back
          reset,       \* the processes whose connection has been reset
          buffer,      \* each process's buffer
          data_send,   \* each client's request
          log          \* the exchanges each client has logged

vars == <<pc, i, backlog, served, to, back, reset, buffer, data_send, log>>

(* A message: the command flag and the pieces of its text.                 *)
Text(flag, t) == [is_command |-> flag, text |-> t]
Empty == Text(0, <<>>)   \* buffer[1024] = {0}

status_update(d) ==
  IF d.is_command = 1
  THEN Text(1, IF d.text = <<"LED ON">> THEN <<"LED is now ON">>
                                        ELSE <<"LED is now OFF">>)
  ELSE Text(0, <<"You sent the message - ">> \o d.text)

Messages == Requests \cup {Empty}
Replies == {status_update(m) : m \in Messages}

TypeOK ==
  /\ pc \in [Procs -> {"start", "accept", "send", "read", "down"}]
  /\ i \in [Procs -> 0..Rounds]
  /\ backlog \subseteq Clients
  /\ served \in {{}} \cup {{c} : c \in Clients}
  /\ to \in [Clients -> Seq(Requests)]
  /\ back \in [Clients -> Seq(Replies)]
  /\ reset \subseteq Procs
  /\ buffer \in [Procs -> Messages \cup Replies]
  /\ data_send \in [Clients -> Messages]
  /\ log \in [Clients -> Seq(Messages \X (Replies \cup {Empty}))]

Init ==
  /\ pc = [p \in Procs |-> "start"]
  /\ i = [p \in Procs |-> 0]
  /\ backlog = {} /\ served = {}
  /\ to = [c \in Clients |-> <<>>] /\ back = [c \in Clients |-> <<>>]
  /\ reset = {}
  /\ buffer = [p \in Procs |-> Empty]
  /\ data_send = [c \in Clients |-> Empty]
  /\ log = [c \in Clients |-> <<>>]

Goto(p, label) == pc' = [pc EXCEPT ![p] = label]

(* The end of a process closes its end of the connection.  What it has not *)
(* read makes that a reset for the other end, as does a connection that    *)
(* was never accepted.                                                     *)
Exit(p) ==
  /\ Goto(p, "down")
  /\ reset' = reset \cup
       IF p = Server THEN backlog \cup {c \in served : to[c] # <<>>}
       ELSE IF back[p] # <<>> THEN {Server} ELSE {}

NextRound(p, top) ==
  /\ i' = [i EXCEPT ![p] = @ + 1]
  /\ IF i[p] + 1 < Rounds THEN Goto(p, top) /\ UNCHANGED reset ELSE Exit(p)

-----------------------------------------------------------------------------
(* IPC_sockets_server                                                      *)

listen ==
  /\ pc[Server] = "start"
  /\ Goto(Server, "accept")
  /\ UNCHANGED <<i, backlog, served, to, back, reset, buffer, data_send, log>>

accept(c) ==
  /\ pc[Server] = "accept" /\ c \in backlog
  /\ backlog' = backlog \ {c}
  /\ served' = {c}
  /\ Goto(Server, "read")
  /\ UNCHANGED <<i, to, back, reset, buffer, data_send, log>>

(* Mutant: the read does not wait.                                         *)
ServerReadAtOnce(c) ==
  /\ pc[Server] = "read" /\ c \in served
  /\ buffer' = IF to[c] = <<>> THEN buffer ELSE [buffer EXCEPT ![Server] = Head(to[c])]
  /\ to' = [to EXCEPT ![c] = <<>>]
  /\ Goto(Server, "send")
  /\ UNCHANGED <<i, backlog, served, back, reset, data_send, log>>

(* Mutant: the read goes on waiting when the client has gone.              *)
ServerReadRetries(c) ==
  /\ pc[Server] = "read" /\ c \in served
  /\ to[c] # <<>>
  /\ buffer' = [buffer EXCEPT ![Server] = Head(to[c])]
  /\ to' = [to EXCEPT ![c] = <<>>]
  /\ Goto(Server, "send")
  /\ UNCHANGED <<i, backlog, served, back, reset, data_send, log>>

ServerRead(c) ==
  /\ pc[Server] = "read" /\ c \in served
  /\ to[c] # <<>> \/ pc[c] = "down"
  /\ buffer' = IF to[c] = <<>> THEN buffer ELSE [buffer EXCEPT ![Server] = Head(to[c])]
  /\ to' = [to EXCEPT ![c] = <<>>]
  /\ Goto(Server, "send")
  /\ UNCHANGED <<i, backlog, served, back, reset, data_send, log>>

(* A send after a reset fails: the first may only return an error, others  *)
(* raise SIGPIPE.  A send to a client that has gone provokes the reset.    *)
ServerSend(c) ==
  /\ pc[Server] = "send" /\ c \in served
  /\ \/ /\ pc[c] # "down"
        /\ back' = [back EXCEPT ![c] = Append(@, status_update(buffer[Server]))]
        /\ NextRound(Server, "read")
     \/ /\ pc[c] = "down"
        /\ i' = [i EXCEPT ![Server] = @ + 1]
        /\ \E got \in {{}, {Server}} :
             IF i[Server] + 1 < Rounds
             THEN Goto(Server, "read") /\ reset' = reset \cup got
             ELSE Exit(Server)
        /\ UNCHANGED back
     \/ /\ Server \in reset
        /\ Exit(Server)
        /\ UNCHANGED <<i, back>>
  /\ UNCHANGED <<backlog, served, to, buffer, data_send, log>>

-----------------------------------------------------------------------------
(* IPC_sockets_client                                                      *)

(* Refused, and the client ends, unless the server listens.                *)
connect(c) ==
  /\ pc[c] = "start"
  /\ IF pc[Server] \in {"accept", "read", "send"}
     THEN backlog' = backlog \cup {c} /\ Goto(c, "send")
     ELSE UNCHANGED backlog /\ Goto(c, "down")
  /\ UNCHANGED <<i, served, to, back, reset, buffer, data_send, log>>

ClientSend(c) ==
  /\ pc[c] = "send"
  /\ \E r \in Requests :
        /\ data_send' = [data_send EXCEPT ![c] = r]
        /\ \/ /\ pc[Server] # "down"
              /\ to' = [to EXCEPT ![c] = Append(@, r)]
              /\ Goto(c, "read") /\ UNCHANGED reset
           \/ /\ pc[Server] = "down"
              /\ \E got \in {{}, {c}} : reset' = reset \cup got
              /\ Goto(c, "read") /\ UNCHANGED to
           \/ /\ c \in reset
              /\ Exit(c) /\ UNCHANGED to
  /\ UNCHANGED <<i, backlog, served, back, buffer, log>>

ClientRead(c) ==
  /\ pc[c] = "read"
  /\ back[c] # <<>> \/ pc[Server] = "down"
  /\ buffer' = IF back[c] = <<>> THEN buffer ELSE [buffer EXCEPT ![c] = Head(back[c])]
  /\ back' = [back EXCEPT ![c] = <<>>]
  /\ log' = [log EXCEPT ![c] = Append(@, <<data_send[c], buffer'[c]>>)]
  /\ NextRound(c, "send")
  /\ UNCHANGED <<backlog, served, to, data_send>>

-----------------------------------------------------------------------------
(* SIGINT: both handlers close their socket and exit.                      *)
handler(p) ==
  /\ p \in Interrupted /\ pc[p] # "down"
  /\ Exit(p)
  /\ UNCHANGED <<i, backlog, served, to, back, buffer, data_send, log>>

ServerStep ==
  listen \/ \E c \in Clients : accept(c) \/ ServerRead(c) \/ ServerSend(c)

Client(c) == connect(c) \/ ClientSend(c) \/ ClientRead(c)

Next == ServerStep \/ (\E c \in Clients : Client(c)) \/ \E p \in Procs : handler(p)

Spec == Init /\ [][Next]_vars

(* Every process is scheduled; nobody need send a SIGINT.                  *)
FairSpec == Spec /\ WF_vars(ServerStep) /\ \A c \in Clients : WF_vars(Client(c))

-----------------------------------------------------------------------------
(* A client logs the answer to its request, or repeats what its buffer     *)
(* held before, and that only when the server has gone.                    *)
AnswerOrRepeat ==
  \A c \in Clients : \A n \in DOMAIN log[c] :
     \/ log[c][n][2] = status_update(log[c][n][1])
     \/ /\ pc[Server] = "down"
        /\ log[c][n][2] = IF n = 1 THEN Empty ELSE log[c][n - 1][2]

(* Every client that was started ends, also one that is never accepted,    *)
(* and so does the server once it has accepted somebody.                   *)
EverybodyEnds ==
  /\ \A c \in Clients : <>(pc[c] = "down")
  /\ (served # {}) ~> (pc[Server] = "down")

(* Between the server and the client it has accepted, every step is one of *)
(* RequestReply or leaves its state alone, until one of the two has ended  *)
(* before its last round.                                                  *)
RR(c) == INSTANCE RequestReply
           WITH Answer <- status_update,
                asked <- IF pc[c] = "read" THEN <<data_send[c]>> ELSE <<>>,
                answered <- back[c],
                log <- log[c]
EndedEarly(p) == pc[p] = "down" /\ i[p] < Rounds
Broken(c) == EndedEarly(c) \/ EndedEarly(Server)
Unserved(c) == c \notin served /\ pc[Server] = "down"
Implements ==
  /\ \A c \in Clients : RR(c)!Init
  /\ [][\A c \in Clients : Broken(c)' \/ Unserved(c)' \/ [RR(c)!Next]_(RR(c)!vars)]_vars
=============================================================================
