------------------------------ MODULE MsgQueueIPC ------------------------------
(***************************************************************************)
(* HW4, IPC_msg_p1 (the client) and IPC_msg_p2 (the server): requests and  *)
(* replies travel through one POSIX message queue, "/my_queue", in both    *)
(* directions.  A message carries no destination: it goes to the process   *)
(* that waits in mq_receive, and otherwise to the next one that calls it,  *)
(* which may well be the sender.                                           *)
(*                                                                         *)
(* Both programs create the queue if its name does not exist and unlink    *)
(* the name when they end; a process keeps its queue after that.           *)
(***************************************************************************)
EXTENDS Naturals, Sequences

CONSTANTS Requests,    \* the messages the client chooses from
          Rounds,      \* iterations of both loops; 10 in the code
          QueueSize,   \* queue_size, 8 in the code
          MaxStarts,   \* bound: how often each program is started
          MaxSignals   \* bound: how many SIGINTs are sent

ASSUME RoundsAssumption == Rounds \in Nat \ {0} /\ QueueSize \in Nat \ {0}
ASSUME BoundsAssumption == MaxStarts \in Nat /\ MaxSignals \in Nat

Procs == {"client", "server"}

VARIABLES name,       \* the queue behind the name, 0 if there is none
          queues,     \* the contents of every queue, in order of creation
          myqueue,    \* the queue each process has open
          buffer,     \* what each process received last
          pc, i,      \* where each process is, and its loop counter
          data_send,  \* the client's request
          log,        \* the exchanges the client has logged since its start
          crashed,    \* an answer has overrun the 30 characters of `response`
                      \* and the server is gone, without unlinking the name
          starts, signals

vars == <<name, queues, myqueue, buffer, pc, i, data_send, log, crashed,
          starts, signals>>

(* A message: the command flag and the pieces of its text.                 *)
Text(flag, t) == [is_command |-> flag, text |-> t]
Empty == Text(0, <<>>)

status_update(d) ==
  IF d.is_command = 1
  THEN Text(1, IF d.text = <<"LED ON">> THEN <<"LED is now ON">>
                                        ELSE <<"LED is now OFF">>)
  ELSE Text(0, <<"You sent message:">> \o d.text)

Messages == [is_command : {0, 1}, text : Seq(STRING)]
ASSUME RequestsAssumption == Requests \subseteq Messages

(* The prefix and the longest request just fit; a second prefix does not.  *)
Fits(d) == Len(d.text) <= 2

PC == {"down", "open", "send", "receive", "blocked", "got", "close", "int"}

TypeOK ==
  /\ \A q \in DOMAIN queues : Len(queues[q]) <= QueueSize
  /\ name \in 0..Len(queues)
  /\ myqueue \in [Procs -> 0..Len(queues)]
  /\ pc \in [Procs -> PC]
  /\ i \in [Procs -> 0..Rounds]
  /\ data_send \in Requests \cup {Empty}
  /\ crashed \in BOOLEAN
  /\ starts \in [Procs -> 0..MaxStarts]
  /\ signals \in 0..MaxSignals

Init ==
  /\ name = 0 /\ queues = <<>>
  /\ myqueue = [p \in Procs |-> 0]
  /\ buffer = [p \in Procs |-> Empty]
  /\ pc = [p \in Procs |-> "down"]
  /\ i = [p \in Procs |-> 0]
  /\ data_send = Empty
  /\ log = <<>>
  /\ crashed = FALSE
  /\ starts = [p \in Procs |-> 0]
  /\ signals = 0

Goto(p, label) == pc' = [pc EXCEPT ![p] = label]
Other(p) == IF p = "client" THEN "server" ELSE "client"

(* The user starts a program that is not running.                          *)
Start(p) ==
  /\ pc[p] = "down" /\ starts[p] < MaxStarts
  /\ starts' = [starts EXCEPT ![p] = @ + 1]
  /\ i' = [i EXCEPT ![p] = 0]
  /\ log' = IF p = "client" THEN <<>> ELSE log
  /\ Goto(p, "open")
  /\ UNCHANGED <<name, queues, myqueue, buffer, data_send, crashed, signals>>

mq_open(p, after) ==
  /\ pc[p] = "open"
  /\ IF name = 0
     THEN queues' = Append(queues, <<>>) /\ name' = Len(queues) + 1
     ELSE UNCHANGED <<queues, name>>
  /\ myqueue' = [myqueue EXCEPT ![p] = name']
  /\ Goto(p, after)
  /\ UNCHANGED <<buffer, i, data_send, log, crashed, starts, signals>>

(* The kernel hands a message to a waiting receiver without queueing it.   *)
mq_send(p, m, after) ==
  LET o == Other(p)
      q == myqueue[p] IN
  IF pc[o] = "blocked" /\ myqueue[o] = q
  THEN /\ buffer' = [buffer EXCEPT ![o] = m]
       /\ pc' = [pc EXCEPT ![p] = after, ![o] = "got"]
       /\ UNCHANGED queues
  ELSE /\ Len(queues[q]) < QueueSize
       /\ queues' = [queues EXCEPT ![q] = Append(@, m)]
       /\ Goto(p, after)
       /\ UNCHANGED buffer

mq_receive(p) ==
  LET q == myqueue[p] IN
  /\ pc[p] = "receive"
  /\ IF queues[q] = <<>>
     THEN Goto(p, "blocked") /\ UNCHANGED <<queues, buffer>>
     ELSE /\ buffer' = [buffer EXCEPT ![p] = Head(queues[q])]
          /\ queues' = [queues EXCEPT ![q] = Tail(@)]
          /\ Goto(p, "got")
  /\ UNCHANGED <<name, myqueue, i, data_send, log, crashed, starts, signals>>

More(p) == i[p] + 1 < Rounds

-----------------------------------------------------------------------------
(* IPC_msg_p1                                                              *)

(* Mutant: the client does not receive.                                    *)
ClientSendOnly ==
  /\ pc["client"] = "send"
  /\ \E r \in Requests :
        data_send' = r /\ mq_send("client", r, IF More("client") THEN "send" ELSE "close")
  /\ i' = [i EXCEPT !["client"] = @ + 1]
  /\ UNCHANGED <<name, myqueue, log, crashed, starts, signals>>

ClientSend ==
  /\ pc["client"] = "send"
  /\ \E r \in Requests : data_send' = r /\ mq_send("client", r, "receive")
  /\ UNCHANGED <<name, myqueue, i, log, crashed, starts, signals>>

ClientLog ==
  /\ pc["client"] = "got"
  /\ log' = Append(log, <<data_send, buffer["client"]>>)
  /\ i' = [i EXCEPT !["client"] = @ + 1]
  /\ Goto("client", IF More("client") THEN "send" ELSE "close")
  /\ UNCHANGED <<name, queues, myqueue, buffer, data_send, crashed, starts,
                 signals>>

-----------------------------------------------------------------------------
(* IPC_msg_p2                                                              *)

ServerReply(reply) ==
  /\ mq_send("server", reply, IF More("server") THEN "receive" ELSE "close")
  /\ i' = [i EXCEPT !["server"] = @ + 1]
  /\ UNCHANGED <<name, myqueue, data_send, log, crashed, starts, signals>>

(* Mutant: the server ends with the request it has just received.          *)
ServerAnswerNotLast ==
  /\ pc["server"] = "got" /\ Fits(status_update(buffer["server"]))
  /\ IF More("server")
     THEN ServerReply(status_update(buffer["server"]))
     ELSE /\ Goto("server", "close")
          /\ UNCHANGED <<name, queues, myqueue, buffer, i, data_send, log,
                         crashed, starts, signals>>

ServerAnswer ==
  /\ pc["server"] = "got" /\ Fits(status_update(buffer["server"]))
  /\ ServerReply(status_update(buffer["server"]))

(* strcat past the end of `response`: the server goes on or is killed.     *)
ServerOverrun ==
  LET reply == status_update(buffer["server"]) IN
  /\ pc["server"] = "got" /\ ~ Fits(reply)
  /\ \/ ServerReply(Text(0, SubSeq(reply.text, 1, 2)))
     \/ /\ crashed' = TRUE
        /\ Goto("server", "down")
        /\ UNCHANGED <<name, queues, myqueue, buffer, i, data_send, log,
                       starts, signals>>

-----------------------------------------------------------------------------
(* mq_close and mq_unlink, at the end of main and in the SIGINT handler.   *)
End(p) ==
  /\ pc[p] \in {"close", "int"}
  /\ name' = 0
  /\ Goto(p, "down")
  /\ UNCHANGED <<queues, myqueue, buffer, i, data_send, log, crashed, starts,
                 signals>>

(* SIGINT is masked while its handler runs.                                *)
SIGINT(p) ==
  /\ pc[p] \notin {"down", "int"} /\ signals < MaxSignals
  /\ signals' = signals + 1
  /\ Goto(p, "int")
  /\ UNCHANGED <<name, queues, myqueue, buffer, i, data_send, log, crashed,
                 starts>>

Client == mq_open("client", "send") \/ ClientSend \/ mq_receive("client")
          \/ ClientLog \/ End("client")

Server == mq_open("server", "receive") \/ mq_receive("server")
          \/ ServerAnswer \/ ServerOverrun \/ End("server")

Next == Client \/ Server \/ \E p \in Procs : Start(p) \/ SIGINT(p)

Spec == Init /\ [][Next]_vars

(* Both processes are scheduled.  Nothing obliges the user to start them.  *)
FairSpec == Spec /\ WF_vars(Client) /\ WF_vars(Server)

-----------------------------------------------------------------------------
(* No queue ever holds a second message, and none while the server works   *)
(* on one: each process sends at most one more than it received, whoever   *)
(* takes which message.  So mq_send never blocks.                          *)
OneInFlight ==
  /\ \A q \in DOMAIN queues : Len(queues[q]) <= 1
  /\ pc["server"] = "got" => queues[myqueue["server"]] = <<>>

(* A client that was started gets as many messages as it sends and ends,   *)
(* whenever the server is started and whoever takes which message, unless  *)
(* the server perished with one or a SIGINT came.                          *)
ClientFinishes ==
  (pc["client"] = "open") ~>
      (crashed \/ signals > 0 \/ (pc["client"] = "down" /\ Len(log) = Rounds))

(* The client logs, for each request, the server's answer to it.           *)
ReplyAnswersRequest ==
  \A n \in DOMAIN log : log[n][2] = status_update(log[n][1])
=============================================================================
