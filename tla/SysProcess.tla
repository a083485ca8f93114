----------------------------- MODULE SysProcess -----------------------------
(***************************************************************************)
(* Process groups, sessions and child subreapers: the calls of HW2's sys.c *)
(* that move a process between groups and sessions, and the ones that ask  *)
(* where it is.  Every call holds tasklist_lock, so a call is one step;    *)
(* only PR_SET_CHILD_SUBREAPER sets its flag before its walk takes the     *)
(* lock.  Processes have one thread, in one pid namespace.                 *)
(***************************************************************************)
EXTENDS Integers

CONSTANT Pids

Reaper == 1   \* init, the child reaper of the namespace

ASSUME ProcessAssumption == Reaper \in Pids /\ Pids \subseteq Nat \ {0}

VARIABLE task   \* the processes that exist, by pid

Alive == DOMAIN task

ProcessStart ==
  [p \in {Reaper} |->
     [parent |-> 0, pgrp |-> Reaper, sess |-> Reaper, leader |-> TRUE, forknoexec |-> FALSE,
      tty |-> TRUE, is_child_subreaper |-> FALSE, has_child_subreaper |-> FALSE]]

ProcessInit == task = ProcessStart

Group(pgid) == {p \in Alive : task[p].pgrp = pgid}
Children(p) == {c \in Alive : task[c].parent = p}
(* The processes above each one, up to init.                               *)
Above[p \in Alive] ==
  IF p = Reaper THEN {} ELSE {task[p].parent} \cup Above[task[p].parent]

Descendants(p) == {d \in Alive : p \in Above[d]}

(* fork: a pid that is free as a process, a group and a session id.        *)
fork(me) ==
  \E c \in Pids \ (Alive \cup {task[p].pgrp : p \in Alive} \cup {task[p].sess : p \in Alive}) :
    task' = [p \in Alive \cup {c} |->
      IF p # c THEN task[p]
      ELSE [task[me] EXCEPT !.parent = me, !.leader = FALSE, !.forknoexec = TRUE,
              !.is_child_subreaper = FALSE,
              !.has_child_subreaper = task[me].has_child_subreaper \/ task[me].is_child_subreaper]]

execve(me) ==
  /\ task[me].forknoexec
  /\ task' = [task EXCEPT ![me].forknoexec = FALSE]

(* The nearest subreaper above a process that exits, if its flag says      *)
(* there is one, and init otherwise.                                       *)
NewReaper(me) ==
  LET subreapers == {a \in Above[me] : task[a].is_child_subreaper}
      nearest == {a \in subreapers : subreapers \subseteq {a} \cup Above[a]}
  IN IF task[me].has_child_subreaper /\ subreapers # {}
     THEN CHOOSE a \in nearest : TRUE ELSE Reaper

(* The process is gone and waited for; its children have a new parent.     *)
exit(me) ==
  /\ me # Reaper
  /\ task' = [p \in Alive \ {me} |->
                IF task[p].parent = me THEN [task[p] EXCEPT !.parent = NewReaper(me)] ELSE task[p]]

-----------------------------------------------------------------------------
getpgid(me, pid) == task[IF pid = 0 THEN me ELSE pid].pgrp
getsid(me, pid) == task[IF pid = 0 THEN me ELSE pid].sess
getppid(me) == task[me].parent

(* The checks of setpgid that come before the group is looked up.          *)
MayMove(me, p) ==
  /\ p \in Alive
  /\ \/ task[p].parent = me /\ task[p].sess = task[me].sess /\ task[p].forknoexec
     \/ task[p].parent # me /\ p = me
  /\ ~task[p].leader

setpgid(me, pid, pgid) ==
  LET p == IF pid = 0 THEN me ELSE pid
      g == IF pgid = 0 THEN p ELSE pgid
  IN /\ g > 0
     /\ MayMove(me, p)
     /\ g # p => \E q \in Group(g) : task[q].sess = task[me].sess
     /\ task' = [task EXCEPT ![p].pgrp = g]

set_special_pids(me, sid) ==
  task' = [task EXCEPT ![me].leader = TRUE, ![me].sess = sid, ![me].pgrp = sid, ![me].tty = FALSE]

setsidGroupLeft(me) ==
  /\ ~task[me].leader
  /\ task[me].pgrp # me
  /\ set_special_pids(me, me)

setsid(me) ==
  /\ ~task[me].leader
  /\ Group(me) = {}
  /\ set_special_pids(me, me)

(* walk_process_tree goes down from the caller and does not enter the      *)
(* subtree of a process that has the flag already.                         *)
propagate_has_child_subreaper(me) ==
  LET has(p) == task[p].has_child_subreaper
      stops == {d \in Descendants(me) : has(d)}
  IN Descendants(me) \ UNION {{d} \cup Descendants(d) : d \in stops}

PrSetChildSubreaper(me, arg2) ==
  LET marked == IF arg2 THEN propagate_has_child_subreaper(me) ELSE {}
  IN task' = [p \in Alive |->
       [task[p] EXCEPT !.is_child_subreaper = IF p = me THEN arg2 ELSE @,
                       !.has_child_subreaper = @ \/ p \in marked]]

ProcessNext ==
  \E me \in Alive :
    \/ fork(me) \/ execve(me) \/ exit(me) \/ setsid(me)
    \/ \E pid \in Pids \cup {0}, pgid \in Pids \cup {0, -1} : setpgid(me, pid, pgid)
    \/ \E arg2 \in BOOLEAN : PrSetChildSubreaper(me, arg2)

ProcessSpec == ProcessInit /\ [][ProcessNext]_task

-----------------------------------------------------------------------------
(* A process group lies in one session, whatever order its members fork,   *)
(* move, start sessions and exit in, and no member of a session that was   *)
(* started with setsid keeps another session's terminal: both calls check  *)
(* only the caller and the group's first member.                           *)
PgrpInOneSession ==
  \A me, p, q \in Alive :
    /\ getpgid(me, p) = getpgid(me, q) => getsid(me, p) = getsid(me, q)
    /\ getsid(me, p) = getsid(me, q) => task[p].tty = task[q].tty

(* "All its decendants already have these flag too": a process below a     *)
(* subreaper has the flag that makes the subreaper adopt its orphans, for  *)
(* descendants born before the subreaper asked as well as after, and the   *)
(* flag never stops half way down a tree.                                  *)
SubreapersCovered ==
  \A p \in Alive \ {Reaper} :
    LET up == getppid(p)
    IN task[up].is_child_subreaper \/ task[up].has_child_subreaper => task[p].has_child_subreaper

(* Groups, sessions and subreapers stay consistent, whatever order the     *)
(* processes of a tree fork, move, start sessions, ask and exit in.        *)
ProcessTreeSound == PgrpInOneSession /\ SubreapersCovered
=============================================================================
