------------------------------ MODULE SysUsage ------------------------------
(***************************************************************************)
(* getrusage and times of HW2's sys.c: what a process and its children     *)
(* have used.  A thread counts for itself while it lives; when it exits    *)
(* its counts go to the process, and when a child is waited for the        *)
(* child's go to its parent, both under the siglock.  getrusage holds that *)
(* lock while it adds up, and the threads count on meanwhile; times does   *)
(* not take it and reads one number after the other.                       *)
(*                                                                         *)
(* One counter stands for user time and for the six counts that are summed *)
(* like it.  The children's system time is kept apart from it, as times    *)
(* reads that by itself; the process's own comes with its user time.       *)
(***************************************************************************)
EXTENDS Integers, FiniteSetsExt

CONSTANTS Threads,       \* of the process; 1 is its leader and lives on
          MaxUse,        \* bound on what the threads count
          MaxChildUse,   \* and on what is counted for children
          MaxRss         \* bound on memory, in pages

ASSUME UsageAssumption ==
  IsFiniteSet(Threads) /\ 1 \in Threads /\ MaxUse \in Nat /\ MaxChildUse \in Nat /\ MaxRss \in Nat

KbPerPage == 4           \* PAGE_SIZE / 1024

VARIABLES usage,   \* counter of each thread, of the exited threads, of the waited-for children; maxrss
          spent,   \* history: everything the threads, and the children, ever used
          sample   \* the call of getrusage or times that is being served

usageVars == <<usage, spent, sample>>

(* who: what is asked, or "times"; me: the thread that asks; left: the     *)
(* threads to be added yet; n, c, cstime, rss: the numbers so far, c the   *)
(* tms_cutime of times.  History: what had been used when the call began   *)
(* (from) and when it read the children's counter (at).                    *)
NoSample(used) ==
  [pc |-> "idle", who |-> "times", me |-> 1, left |-> {}, n |-> 0, c |-> 0, cstime |-> 0, rss |-> 0,
   from |-> used, at |-> used]

UsageInit ==
  /\ usage = [thread |-> [t \in Threads |-> 0], live |-> Threads, signal |-> 0, children |-> 0, cstime |-> 0,
              rss |-> 0, maxrss |-> 0, cmaxrss |-> 0]
  /\ spent = [self |-> 0, children |-> 0, cstime |-> 0, rss |-> 0]
  /\ sample = NoSample(spent)

TimesAdds == sample.pc = "sums" /\ sample.who = "times"
Locked == sample.pc = "sums" /\ sample.who \notin {"times", "RUSAGE_THREAD"}

(* A live thread runs, and the process may use more memory than before.    *)
Run(t) ==
  /\ t \in usage.live /\ spent.self < MaxUse
  /\ \E rss \in usage.rss..MaxRss :
       /\ usage' = [usage EXCEPT !.thread[t] = @ + 1, !.rss = rss]
       /\ spent' = [spent EXCEPT !.self = @ + 1, !.rss = Max({@, rss})]
  /\ UNCHANGED sample

(* thread_group_cputime, which times calls, begins again when a thread has *)
(* exited, and comes to one that has started.                              *)
ThreadExits(t) ==
  /\ ~Locked /\ t \in usage.live \ {1} /\ (sample.pc = "idle" \/ t # sample.me)
  /\ usage' = [usage EXCEPT !.live = @ \ {t}, !.signal = @ + usage.thread[t], !.thread[t] = 0]
  /\ sample' = IF TimesAdds THEN [sample EXCEPT !.n = usage'.signal, !.left = usage'.live] ELSE sample
  /\ UNCHANGED spent

ThreadStarts(t) ==
  /\ ~Locked /\ t \in Threads \ usage.live
  /\ usage' = [usage EXCEPT !.live = @ \cup {t}]
  /\ sample' = IF TimesAdds THEN [sample EXCEPT !.left = @ \cup {t}] ELSE sample
  /\ UNCHANGED spent

(* execve, by the only thread: the process keeps its counts and starts     *)
(* with an empty memory.                                                   *)
Exec ==
  /\ usage.live = {1} /\ sample.pc = "idle"
  /\ usage' = [usage EXCEPT !.maxrss = Max({@, usage.rss}), !.rss = 0]
  /\ UNCHANGED <<spent, sample>>

(* A child that used n, and s of system time, is waited for.               *)
ChildReaped(n, s, rss) ==
  /\ ~Locked /\ spent.children + n <= MaxChildUse /\ spent.cstime + s <= MaxChildUse
  /\ usage' = [usage EXCEPT !.children = @ + n, !.cstime = @ + s, !.cmaxrss = Max({@, rss})]
  /\ spent' = [spent EXCEPT !.children = @ + n, !.cstime = @ + s]
  /\ UNCHANGED sample

Asks(who, me, threads, children, exited, cstime, rss) ==
  /\ sample.pc = "idle" /\ me \in usage.live
  /\ sample' = [NoSample(spent) EXCEPT !.pc = "sums", !.who = who, !.me = me, !.left = threads,
                                       !.n = children + exited, !.cstime = cstime, !.rss = rss]
  /\ UNCHANGED <<usage, spent>>

(* A variant, which forgets what the exited threads have left.             *)
getrusageLiveOnly(who, me) ==
  CASE who = "RUSAGE_THREAD"   -> Asks(who, me, {me}, 0, 0, 0, usage.maxrss)
    [] who = "RUSAGE_SELF"     -> Asks(who, me, usage.live, 0, 0, 0, usage.maxrss)
    [] who = "RUSAGE_CHILDREN" -> Asks(who, me, {}, usage.children, 0, usage.cstime, usage.cmaxrss)
    [] who = "RUSAGE_BOTH"     -> Asks(who, me, usage.live, usage.children, 0, usage.cstime,
                                       Max({usage.cmaxrss, usage.maxrss}))

(* getrusage, up to the loop over the threads.                             *)
getrusage(who, me) ==
  CASE who = "RUSAGE_THREAD"   -> Asks(who, me, {me}, 0, 0, 0, usage.maxrss)
    [] who = "RUSAGE_SELF"     -> Asks(who, me, usage.live, 0, usage.signal, 0, usage.maxrss)
    [] who = "RUSAGE_CHILDREN" -> Asks(who, me, {}, usage.children, 0, usage.cstime, usage.cmaxrss)
    [] who = "RUSAGE_BOTH"     -> Asks(who, me, usage.live, usage.children, usage.signal, usage.cstime,
                                       Max({usage.cmaxrss, usage.maxrss}))

(* times begins with the threads as well.                                  *)
do_sys_times(me) == Asks("times", me, usage.live, 0, usage.signal, 0, 0)

accumulate_thread_rusage(t) ==
  /\ sample.pc = "sums" /\ t \in sample.left
  /\ sample' = [sample EXCEPT !.left = @ \ {t}, !.n = @ + usage.thread[t]]
  /\ UNCHANGED <<usage, spent>>

(* getrusage lets go of the lock, and then looks at the memory.            *)
unlock_task_sighand ==
  /\ sample.pc = "sums" /\ sample.left = {} /\ sample.who # "times"
  /\ sample' = [sample EXCEPT !.pc = "out"]
  /\ UNCHANGED <<usage, spent>>

ru_maxrss ==
  /\ sample.pc = "out"
  /\ sample' = [sample EXCEPT !.pc = "done",
                              !.rss = KbPerPage * IF sample.who = "RUSAGE_CHILDREN" THEN @ ELSE Max({@, usage.rss})]
  /\ UNCHANGED <<usage, spent>>

(* times goes on to the children's user time, and to their system time.    *)
tms_cutime ==
  /\ TimesAdds /\ sample.left = {}
  /\ sample' = [sample EXCEPT !.pc = "cstime", !.c = usage.children, !.at = spent]
  /\ UNCHANGED <<usage, spent>>

tms_cstime ==
  /\ sample.pc = "cstime"
  /\ sample' = [sample EXCEPT !.pc = "done", !.cstime = usage.cstime]
  /\ UNCHANGED <<usage, spent>>

Returns == sample.pc = "done" /\ sample' = NoSample(spent) /\ UNCHANGED <<usage, spent>>

RusageWhos == {"RUSAGE_THREAD", "RUSAGE_SELF", "RUSAGE_CHILDREN", "RUSAGE_BOTH"}

UsageNext ==
  \/ \E t \in Threads : Run(t) \/ ThreadExits(t) \/ ThreadStarts(t)
  \/ Exec
  \/ \E n, s \in 0..MaxChildUse, rss \in 0..MaxRss : ChildReaped(n, s, rss)
  \/ \E me \in Threads : do_sys_times(me) \/ \E who \in RusageWhos : getrusage(who, me)
  \/ \E t \in Threads : accumulate_thread_rusage(t)
  \/ unlock_task_sighand \/ ru_maxrss \/ tms_cutime \/ tms_cstime \/ Returns

UsageSpec == UsageInit /\ [][UsageNext]_usageVars

-----------------------------------------------------------------------------
(* Whatever its threads do meanwhile, a sum over them is no less than what *)
(* they had all used when the call began and no more than they have used   *)
(* by its end: a thread that starts or exits is not missed and not counted *)
(* twice.                                                                  *)
SumRight(children) ==
  sample.n \in sample.from.self + children .. spent.self + children

(* "A sample either gets all the additions of a given child after it's     *)
(* reaped, or none": getrusage's numbers of the children are those of the  *)
(* moment it took the lock.  Peak memory survives execve.                  *)
RusageRight ==
  LET from == sample.from
  IN CASE sample.who = "RUSAGE_THREAD"   -> sample.n <= usage.thread[sample.me]
       [] sample.who = "RUSAGE_SELF"     -> SumRight(0)
       [] sample.who = "RUSAGE_CHILDREN" -> sample.n = from.children /\ sample.cstime = from.cstime
       [] sample.who = "RUSAGE_BOTH"     -> SumRight(from.children) /\ sample.cstime = from.cstime

MaxrssRight ==
  /\ sample.who # "RUSAGE_CHILDREN" => sample.rss >= KbPerPage * sample.from.rss
  /\ sample.who \in {"RUSAGE_SELF", "RUSAGE_THREAD"} => sample.rss <= KbPerPage * spent.rss

(* times is right number by number only.  The children's user time is what *)
(* it was at one moment of the call, and their system time what it was     *)
(* then or later: a child that another thread waits for in between has its *)
(* system time counted and not its user time.                              *)
TimesRight ==
  /\ SumRight(0)
  /\ sample.c = sample.at.children /\ sample.at.children >= sample.from.children
  /\ sample.cstime \in sample.at.cstime..spent.cstime

(* What getrusage and times answer is what was used.                       *)
UsageConserved ==
  sample.pc = "done" => IF sample.who = "times" THEN TimesRight ELSE RusageRight /\ MaxrssRight
=============================================================================
