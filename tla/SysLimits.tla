----------------------------- MODULE SysLimits -----------------------------
(***************************************************************************)
(* Resource limits: do_prlimit of HW2's sys.c and the calls in front of    *)
(* it, which differ in how wide their limits are and in how they write     *)
(* "no limit": each width has its own largest number, which means that.    *)
(***************************************************************************)
EXTENDS Integers

CONSTANTS RLIM_INFINITY,           \* ULONG_MAX
          COMPAT_RLIM_INFINITY,    \* 32-bit callers of a 64-bit kernel
          OLD_MAX,                 \* 0x7FFFFFFF
          NR_OPEN                  \* sysctl_nr_open

ASSUME LimitAssumption ==
  /\ {RLIM_INFINITY, COMPAT_RLIM_INFINITY, OLD_MAX, NR_OPEN} \subseteq Nat
  /\ OLD_MAX < COMPAT_RLIM_INFINITY /\ COMPAT_RLIM_INFINITY < RLIM_INFINITY

Resources == {"RLIMIT_CPU", "RLIMIT_NOFILE", "RLIMIT_DATA", "beyond RLIM_NLIMITS"}

VARIABLE lim   \* one limit of a process, and who calls

(* bits: of the kernel's unsigned long.  cap: CAP_SYS_RESOURCE in the      *)
(* initial user namespace, only in the process's own, or not at all.       *)
(* timer: the CPU time at which the process is next checked.               *)
LimitStarts ==
  {l \in [bits : {32, 64}, res : Resources, cur : 0..RLIM_INFINITY, max : 0..RLIM_INFINITY,
          cap : {"none", "ns", "init"}, timer : 0..RLIM_INFINITY] :
     /\ l.cur <= l.max
     /\ l.res = "RLIMIT_NOFILE" => l.max <= NR_OPEN
     /\ l.timer = IF l.res = "RLIMIT_CPU" THEN l.cur ELSE RLIM_INFINITY
     /\ l.res = "RLIMIT_CPU" => l.cur > 0}

LimitInit == lim \in LimitStarts

RLIM64_INFINITY == IF lim.bits = 64 THEN RLIM_INFINITY ELSE RLIM_INFINITY + 2

Rlim(cur, max) == [cur |-> cur, max |-> max]
Both(f(_), r) == Rlim(f(r.cur), f(r.max))
Bounded(x, bound) == IF x > bound THEN bound ELSE x

rlim64_is_infinity(x) == IF lim.bits = 64 THEN x = RLIM64_INFINITY ELSE x >= RLIM_INFINITY

rlim_to_rlim64(r) == LET f(x) == IF x = RLIM_INFINITY THEN RLIM64_INFINITY ELSE x IN Both(f, r)

rlim64_to_rlimCast(r) == LET f(x) == x % (RLIM_INFINITY + 1) IN Both(f, r)

rlim64_to_rlim(r) ==
  LET f(x) == IF rlim64_is_infinity(x) THEN RLIM_INFINITY ELSE x % (RLIM_INFINITY + 1)
  IN Both(f, r)

(* update_rlimit_cpu brings the next check forward, never back.            *)
update_rlimit_cpu(cur) == Bounded(cur, lim.timer)

(* The limits after do_prlimit accepted a new one.  Zero seconds of CPU    *)
(* time becomes one.                                                       *)
do_prlimit(new) ==
  LET cpu == lim.res = "RLIMIT_CPU"
      cur == IF cpu /\ new.cur = 0 THEN 1 ELSE new.cur
  IN [lim EXCEPT !.cur = cur, !.max = new.max,
                 !.timer = IF cpu /\ cur # RLIM_INFINITY THEN update_rlimit_cpu(cur) ELSE @]

(* do_prlimit's checks.                                                    *)
Accepted(new) ==
  /\ lim.res # "beyond RLIM_NLIMITS"
  /\ new.cur <= new.max
  /\ lim.res = "RLIMIT_NOFILE" => new.max <= NR_OPEN
  /\ new.max > lim.max => lim.cap = "init"

Set(new) == Accepted(new) /\ lim' = do_prlimit(new)

setrlimit(new) == Set(new)

compat_rlim(r) ==
  LET f(x) == IF x = COMPAT_RLIM_INFINITY THEN RLIM_INFINITY ELSE x IN Both(f, r)

compat_setrlimit(new) == lim.bits = 64 /\ Set(compat_rlim(new))

(* id_match: the caller's real ids are all the ids of the process.         *)
check_prlimit_permission(self, id_match) == self \/ id_match \/ lim.cap # "none"

prlimit64(self, id_match, new) ==
  check_prlimit_permission(self, id_match) /\ Set(rlim64_to_rlim(new))

(* What the calls that read a limit report.                                *)
getrlimit == Rlim(lim.cur, lim.max)
prlimit64_old == rlim_to_rlim64(getrlimit)
compat_getrlimit == LET f(x) == Bounded(x, COMPAT_RLIM_INFINITY) IN Both(f, getrlimit)
old_getrlimit == LET f(x) == Bounded(x, OLD_MAX) IN Both(f, getrlimit)

(* The process used up the CPU time of its next check: it is checked again *)
(* at its limit as that is now.                                            *)
CpuTimerFires ==
  /\ lim.res = "RLIMIT_CPU" /\ lim.timer # RLIM_INFINITY
  /\ lim' = [lim EXCEPT !.timer = lim.cur]

LimitNext ==
  \/ \E cur, max \in 0..RLIM_INFINITY : setrlimit(Rlim(cur, max))
  \/ \E cur, max \in 0..COMPAT_RLIM_INFINITY : compat_setrlimit(Rlim(cur, max))
  \/ \E cur, max \in 0..RLIM64_INFINITY, self, match \in BOOLEAN :
       prlimit64(self, match, Rlim(cur, max))
  \/ CpuTimerFires

LimitSpec == LimitInit /\ [][LimitNext]_lim

-----------------------------------------------------------------------------
(* Reading a limit and writing back what was read succeeds and changes     *)
(* nothing, in the kernel's own width and through prlimit64, whichever     *)
(* calls set the limit before.  A 32-bit caller's pair does the same when  *)
(* the limit is one it can express.  The exception is a CPU time limit set *)
(* to zero: it reads back as 1 above a hard limit of 0.                    *)
LimitsReadBack ==
  lim.res \in {"RLIMIT_CPU", "RLIMIT_NOFILE", "RLIMIT_DATA"} =>
    \/ lim.res = "RLIMIT_CPU" /\ lim.max = 0 /\ lim.cur = 1
    \/ LET Kept(r) == Accepted(r) /\ Rlim(do_prlimit(r).cur, do_prlimit(r).max) = getrlimit
       IN /\ Kept(getrlimit)
          /\ Kept(rlim64_to_rlim(prlimit64_old))
          /\ (lim.bits = 64 /\ {lim.cur, lim.max} \subseteq 0..(COMPAT_RLIM_INFINITY - 1) \cup {RLIM_INFINITY})
               => Kept(compat_rlim(compat_getrlimit))
          /\ lim.max <= OLD_MAX => old_getrlimit = getrlimit

(* A process with a CPU time limit is checked no later than at that limit, *)
(* although do_prlimit does not touch the timer when the limit is lifted   *)
(* and the timer may have been set for an older limit.                     *)
CpuLimitArmed == lim.res = "RLIMIT_CPU" /\ lim.cur # RLIM_INFINITY => lim.timer <= lim.cur

(* What do_prlimit stores is what every way of reading it back gives, and  *)
(* what the CPU timer enforces.                                            *)
LimitsHold == LimitsReadBack /\ CpuLimitArmed
=============================================================================
