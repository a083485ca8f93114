------------------------------- MODULE ShmemIPC -------------------------------
(***************************************************************************)
(* HW4, IPC_shmem_p1 and IPC_shmem_p2: two processes exchange requests and *)
(* replies through one structure in shared memory.  Two named semaphores   *)
(* pass the turn: p1 posts semaphore 1 when a request is in the memory, p2 *)
(* posts semaphore 2 when the reply is.                                    *)
(*                                                                         *)
(* Each process opens both semaphores by name, creating them if needed,    *)
(* and unlinks both names when it ends, after its rounds or on SIGINT.  A  *)
(* name and the semaphore behind it are different things: a process keeps  *)
(* its semaphore when the name is unlinked, and the next sem_open of that  *)
(* name makes a new one.  The shared memory itself is never unlinked.      *)
(***************************************************************************)
EXTENDS Naturals, Sequences

CONSTANTS Requests,    \* the messages p1 chooses from
          Rounds,      \* iterations of both loops; 10 in the code
          MaxStarts,   \* bound: how often each program is started
          MaxSignals   \* bound: how many SIGINTs are sent

ASSUME RoundsAssumption == Rounds \in Nat \ {0}
ASSUME BoundsAssumption == MaxStarts \in Nat /\ MaxSignals \in Nat

Procs == {"p1", "p2"}

VARIABLES names,      \* names[k]: the semaphore behind name k, 0 if there is none
          value,      \* value[s]: the value of semaphore s, in order of creation
          sem,        \* sem[p][k]: what process p got from sem_open of name k
          shm,        \* the structure in shared memory
          pc, i,      \* where each process is, and its loop counter
          data_send,  \* p1's request
          data_rec,   \* p2's copy of what it found in the memory
          log,        \* the exchanges p1 has logged since it was started
          starts, signals

vars == <<names, value, sem, shm, pc, i, data_send, data_rec, log, starts,
          signals>>

(* A structure: the command flag and the pieces of its text.               *)
Text(flag, t) == [is_command |-> flag, text |-> t]

status_update(d) ==
  IF d.is_command = 1
  THEN Text(1, IF d.text = <<"LED ON">> THEN <<"LED is now ON">>
                                        ELSE <<"LED is now OFF">>)
  ELSE Text(0, <<"You sent message:">> \o d.text)

Empty == Text(0, <<>>)   \* what ftruncate leaves in a new object

PC == {"down", "open1", "open2", "wait", "read", "write", "post",
       "unlink1", "unlink2", "int1", "int2"}

TypeOK ==
  /\ value \in Seq(Nat)
  /\ names \in [1..2 -> 0..Len(value)]
  /\ sem \in [Procs -> [1..2 -> 0..Len(value)]]
  /\ pc \in [Procs -> PC]
  /\ i \in [Procs -> 0..Rounds]
  /\ data_send \in Requests \cup {Empty}
  /\ starts \in [Procs -> 0..MaxStarts]
  /\ signals \in 0..MaxSignals

Init ==
  /\ names = [k \in 1..2 |-> 0]
  /\ value = <<>>
  /\ sem = [p \in Procs |-> [k \in 1..2 |-> 0]]
  /\ shm = Empty
  /\ pc = [p \in Procs |-> "down"]
  /\ i = [p \in Procs |-> 0]
  /\ data_send = Empty
  /\ data_rec = Empty
  /\ log = <<>>
  /\ starts = [p \in Procs |-> 0]
  /\ signals = 0

Goto(p, label) == pc' = [pc EXCEPT ![p] = label]

(* The user starts a program that is not running.                          *)
Start(p) ==
  /\ pc[p] = "down" /\ starts[p] < MaxStarts
  /\ starts' = [starts EXCEPT ![p] = @ + 1]
  /\ i' = [i EXCEPT ![p] = 0]
  /\ sem' = [sem EXCEPT ![p] = [k \in 1..2 |-> 0]]
  /\ log' = IF p = "p1" THEN <<>> ELSE log
  /\ Goto(p, "open1")
  /\ UNCHANGED <<names, value, shm, data_send, data_rec, signals>>

(* sem_open(name, O_CREAT, 0660, 0) of the first and then the second name. *)
OpenLabel(k) == IF k = 1 THEN "open1" ELSE "open2"

sem_open(p, k, after) ==
  /\ pc[p] = OpenLabel(k)
  /\ IF names[k] = 0
     THEN /\ value' = Append(value, 0)
          /\ names' = [names EXCEPT ![k] = Len(value) + 1]
     ELSE UNCHANGED <<value, names>>
  /\ sem' = [sem EXCEPT ![p][k] = names'[k]]
  /\ Goto(p, after)
  /\ UNCHANGED <<shm, i, data_send, data_rec, log, starts, signals>>

sem_post(p, k) == value' = [value EXCEPT ![sem[p][k]] = @ + 1]

sem_wait(p, k) ==
  /\ value[sem[p][k]] > 0
  /\ value' = [value EXCEPT ![sem[p][k]] = @ - 1]

(* The loop of process p goes round, or ends and p removes the names.      *)
NextRound(p, top) ==
  /\ i' = [i EXCEPT ![p] = @ + 1]
  /\ Goto(p, IF i[p] + 1 < Rounds THEN top ELSE "unlink1")

-----------------------------------------------------------------------------
(* IPC_shmem_p1                                                            *)

(* Mutant: the structure is still the last one when the post is done.      *)
P1WriteAfterPost ==
  /\ pc["p1"] = "write"
  /\ \E r \in Requests : data_send' = r
  /\ shm' = data_send
  /\ Goto("p1", "post")
  /\ UNCHANGED <<names, value, sem, i, data_rec, log, starts, signals>>

P1Write ==
  /\ pc["p1"] = "write"
  /\ \E r \in Requests : data_send' = r /\ shm' = r
  /\ Goto("p1", "post")
  /\ UNCHANGED <<names, value, sem, i, data_rec, log, starts, signals>>

P1Post ==
  /\ pc["p1"] = "post"
  /\ sem_post("p1", 1)
  /\ Goto("p1", "wait")
  /\ UNCHANGED <<names, sem, shm, i, data_send, data_rec, log, starts, signals>>

P1Wait ==
  /\ pc["p1"] = "wait"
  /\ sem_wait("p1", 2)
  /\ Goto("p1", "read")
  /\ UNCHANGED <<names, sem, shm, i, data_send, data_rec, log, starts, signals>>

P1Read ==
  /\ pc["p1"] = "read"
  /\ log' = Append(log, <<data_send, shm>>)
  /\ NextRound("p1", "write")
  /\ UNCHANGED <<names, value, sem, shm, data_send, data_rec, starts, signals>>

-----------------------------------------------------------------------------
(* IPC_shmem_p2                                                            *)

(* Mutant: p2 waits for the semaphore it posts itself.                     *)
P2WaitOwn ==
  /\ pc["p2"] = "wait"
  /\ sem_wait("p2", 2)
  /\ Goto("p2", "read")
  /\ UNCHANGED <<names, sem, shm, i, data_send, data_rec, log, starts, signals>>

P2Wait ==
  /\ pc["p2"] = "wait"
  /\ sem_wait("p2", 1)
  /\ Goto("p2", "read")
  /\ UNCHANGED <<names, sem, shm, i, data_send, data_rec, log, starts, signals>>

P2Read ==
  /\ pc["p2"] = "read"
  /\ data_rec' = shm
  /\ Goto("p2", "write")
  /\ UNCHANGED <<names, value, sem, shm, i, data_send, log, starts, signals>>

P2Write ==
  /\ pc["p2"] = "write"
  /\ shm' = status_update(data_rec)
  /\ Goto("p2", "post")
  /\ UNCHANGED <<names, value, sem, i, data_send, data_rec, log, starts,
                 signals>>

P2Post ==
  /\ pc["p2"] = "post"
  /\ sem_post("p2", 2)
  /\ NextRound("p2", "wait")
  /\ UNCHANGED <<names, sem, shm, data_send, data_rec, log, starts, signals>>

-----------------------------------------------------------------------------
(* The end of both programs, and the SIGINT handler that can replace it.   *)

sem_unlink(p, k, label, after) ==
  /\ pc[p] = label
  /\ names' = [names EXCEPT ![k] = 0]
  /\ Goto(p, after)
  /\ UNCHANGED <<value, sem, shm, i, data_send, data_rec, log, starts, signals>>

EndNormally(p) ==
  sem_unlink(p, 1, "unlink1", "unlink2") \/ sem_unlink(p, 2, "unlink2", "down")

(* Mutant: the handler leaves the second name.                             *)
handlerForgetsOne(p) == sem_unlink(p, 1, "int1", "down")

handler(p) ==
  sem_unlink(p, 1, "int1", "int2") \/ sem_unlink(p, 2, "int2", "down")

(* SIGINT is masked while its handler runs.                                *)
SIGINT(p) ==
  /\ pc[p] \notin {"down", "int1", "int2"} /\ signals < MaxSignals
  /\ signals' = signals + 1
  /\ Goto(p, "int1")
  /\ UNCHANGED <<names, value, sem, shm, i, data_send, data_rec, log, starts>>

P1 ==
  \/ sem_open("p1", 1, "open2") \/ sem_open("p1", 2, "write")
  \/ P1Write \/ P1Post \/ P1Wait \/ P1Read
  \/ EndNormally("p1") \/ handler("p1")

P2 ==
  \/ sem_open("p2", 1, "open2") \/ sem_open("p2", 2, "wait")
  \/ P2Wait \/ P2Read \/ P2Write \/ P2Post
  \/ EndNormally("p2") \/ handler("p2")

Next == P1 \/ P2 \/ \E p \in Procs : Start(p) \/ SIGINT(p)

Spec == Init /\ [][Next]_vars

(* Both processes are scheduled, and the user starts both.                 *)
FairSpec == /\ Spec /\ WF_vars(P1) /\ WF_vars(P2)
            /\ \A p \in Procs : WF_vars(Start(p))

-----------------------------------------------------------------------------
(* The processes got the same two semaphores.  Interrupting or restarting  *)
(* only one of them breaks this.                                           *)
Paired == sem["p1"] = sem["p2"] /\ sem["p1"][1] # 0 /\ sem["p1"][2] # 0

(* Two processes with the same semaphores are never both about to copy     *)
(* from or to the shared memory, whatever happened in earlier sessions.    *)
MutualExclusion ==
  Paired => ~(pc["p1"] \in {"read", "write"} /\ pc["p2"] \in {"read", "write"})

(* When both programs are down, starting each of them once completes a     *)
(* session, however the earlier ones were interrupted, unless a SIGINT     *)
(* interrupts this one too.                                                *)
SessionCompletes ==
  \A n \in 0..(MaxStarts - 1), s \in 0..MaxSignals :
    (signals = s /\ \A p \in Procs : pc[p] = "down" /\ starts[p] = n)
      ~> (signals > s \/ (starts["p1"] = n + 1 /\ Len(log) = Rounds))

(* The open question is p1's from its post until it has read the reply,    *)
(* and the answer is there once p2 has posted.                             *)
Posted == pc["p1"] \in {"wait", "read"}
Replied == Posted /\ (pc["p1"] = "read" \/ value[sem["p1"][2]] > 0)
RR == INSTANCE RequestReply
        WITH Answer <- status_update,
             asked <- IF Posted THEN <<data_send>> ELSE <<>>,
             answered <- IF Replied THEN <<shm>> ELSE <<>>

(* Until a SIGINT or a restart, every step is one of RequestReply or       *)
(* leaves its state alone.                                                 *)
Disturbed == signals > 0 \/ \E p \in Procs : starts[p] > 1
Implements == RR!Init /\ [][Disturbed' \/ RR!Next]_(RR!vars)
=============================================================================
