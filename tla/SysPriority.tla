---------------------------- MODULE SysPriority ----------------------------
(***************************************************************************)
(* setpriority and getpriority of HW2's sys.c, over a process, a process   *)
(* group or all processes of a user.  The task list is locked for the      *)
(* whole call; the tasks are visited one by one, and each may be refused.  *)
(***************************************************************************)
EXTENDS Integers, FiniteSetsExt

CONSTANTS NiceTasks,    \* the tasks
          NicePgrp,     \* the process group of each
          NiceUsers,    \* real and effective uids that a task may have
          NiceInputs    \* values that are asked for

ASSUME PriorityAssumption ==
  NiceInputs \subseteq Int /\ DOMAIN NicePgrp = NiceTasks /\ NiceUsers \subseteq Nat \X Nat

MIN_NICE == -20
MAX_NICE == 19
EPERM == -1
ESRCH == -3
EACCES == -13
EINVAL == -22

VARIABLE prio   \* the nice value and the ids of each task, their RLIMIT_NICE

PriorityStarts ==
  [nice : [NiceTasks -> {0}], who : [NiceTasks -> NiceUsers], rlim : {0, 20}]

PriorityInit == prio \in PriorityStarts

Uid(p) == prio.who[p][1]
Euid(p) == prio.who[p][2]
CapSysNice(me) == Euid(me) = 0

nice_to_rlimit(nice) == MAX_NICE - nice + 1
can_nice(me, v) == nice_to_rlimit(v) <= prio.rlim \/ CapSysNice(me)

(* The capability module's hook: the caller must have the task's           *)
(* capabilities.                                                           *)
security_task_setnice(me, p) == 0 \in {Uid(p), Euid(p)} => CapSysNice(me)

Clamp(v) == IF v < MIN_NICE THEN MIN_NICE ELSE IF v > MAX_NICE THEN MAX_NICE ELSE v

set_one_prio_perm(me, p) == Euid(me) \in {Uid(p), Euid(p)} \/ CapSysNice(me)

(* What one task's turn adds to the error: 0 when its nice value was set.  *)
set_one_prio(me, p, v) ==
  CASE ~set_one_prio_perm(me, p) -> EPERM
    [] set_one_prio_perm(me, p) /\ v < prio.nice[p] /\ ~can_nice(me, v) -> EACCES
    [] OTHER -> IF security_task_setnice(me, p) THEN 0 ELSE EPERM

(* The tasks that which and who select; 0 stands for the caller.           *)
Selected(me, which, who) ==
  CASE which = "PRIO_PROCESS" -> IF who = 0 THEN {me} ELSE {who} \cap NiceTasks
    [] which = "PRIO_PGRP"    -> {p \in NiceTasks : NicePgrp[p] = IF who = 0 THEN NicePgrp[me] ELSE who}
    [] which = "PRIO_USER"    -> {p \in NiceTasks : Uid(p) = IF who = 0 THEN Uid(me) ELSE who}
    [] OTHER -> {}

(* Results of a call whose tasks had these errors.  ESRCH until a task was *)
(* set; an error stays until another replaces it, in whatever order the    *)
(* task list is in.                                                        *)
PrioResults(errors) ==
  CASE errors = {}  -> {ESRCH}
    [] errors = {0} -> {0}
    [] OTHER        -> errors \ {0}

setpriority(me, which, who, v) ==
  LET n == Clamp(v)
      error == [p \in Selected(me, which, who) |-> set_one_prio(me, p, n)]
      set == {p \in DOMAIN error : error[p] = 0}
  IN [nice : {[p \in NiceTasks |-> IF p \in set THEN n ELSE prio.nice[p]]},
      ret : IF which = "other" THEN {EINVAL} ELSE PrioResults({error[p] : p \in DOMAIN error})]

getpriority(me, which, who, nice) ==
  IF which = "other" THEN EINVAL
  ELSE Max({ESRCH} \cup {nice_to_rlimit(nice[p]) : p \in Selected(me, which, who)})

Whiches == {"PRIO_PROCESS", "PRIO_PGRP", "PRIO_USER", "other"}
Whos == {0, 1, 3, 5}

PriorityNext ==
  \E me \in NiceTasks, which \in Whiches, who \in Whos, v \in NiceInputs :
    \E out \in setpriority(me, which, who, v) : prio' = [prio EXCEPT !.nice = out.nice]

PrioritySpec == PriorityInit /\ [][PriorityNext]_prio

-----------------------------------------------------------------------------
(* setpriority returns 0 only if it set every task it was asked to set,    *)
(* and at least one: success of a later task does not hide that an earlier *)
(* one was refused.  Then getpriority reports that value; after any other  *)
(* result the tasks that were not selected have kept theirs.               *)
PrioAllOrError ==
  \A me \in NiceTasks, which \in Whiches, who \in Whos, v \in NiceInputs :
    \A out \in setpriority(me, which, who, v) :
      /\ out.ret = 0 => /\ \A p \in Selected(me, which, who) : out.nice[p] = Clamp(v)
                        /\ getpriority(me, which, who, out.nice) = nice_to_rlimit(Clamp(v))
      /\ \A p \in NiceTasks \ Selected(me, which, who) : out.nice[p] = prio.nice[p]
=============================================================================
