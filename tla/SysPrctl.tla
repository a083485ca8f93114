------------------------------ MODULE SysPrctl ------------------------------
(***************************************************************************)
(* The options of prctl in HW2's sys.c that keep a per-process setting.    *)
(* Each call ends with a result; result 0 or more means the call was       *)
(* accepted.  The options an architecture does not support answer EINVAL   *)
(* like an unknown option.                                                 *)
(***************************************************************************)
EXTENDS Integers

CONSTANTS NSIG,          \* the highest valid signal
          DefaultSlack,  \* default_timer_slack_ns
          Args           \* values of the arguments

ASSUME PrctlAssumption == NSIG \in Nat /\ DefaultSlack \in Nat /\ Args \subseteq Nat

OK == 0
BAD == -22             \* EINVAL
FAULT == -14           \* EFAULT
INTR == -4             \* EINTR
Spoiled == -1          \* a refused call may have changed the policy
McePolicy == [LATE |-> 0, EARLY |-> 1, DEFAULT |-> 2]

VARIABLES pr,       \* the settings of the process
          answer,   \* the result of its last call
          policy    \* history: the machine-check policy of the last accepted call, or Spoiled

prctlVars == <<pr, answer, policy>>

PrctlInit ==
  /\ pr = [pdeath_signal |-> 0, dumpable |-> 1, slack |-> DefaultSlack, mce_process |-> FALSE,
           mce_early |-> FALSE, no_new_privs |-> FALSE, thp_disable |-> FALSE, comm |-> "init"]
  /\ answer = OK /\ policy = McePolicy.DEFAULT

(* The call changed the settings to new, or was refused with an error.     *)
Done(new) == pr' = new /\ answer' = OK /\ UNCHANGED policy
Fails(ret) == answer' = ret /\ UNCHANGED <<pr, policy>>
Reports(value) == Fails(value)

PrSetPdeathsig(arg2) ==
  \/ arg2 > NSIG /\ Fails(BAD)
  \/ arg2 <= NSIG /\ Done([pr EXCEPT !.pdeath_signal = arg2])

(* SUID_DUMP_DISABLE is 0 and SUID_DUMP_USER 1; SUID_DUMP_ROOT, 2, cannot  *)
(* be asked for.                                                           *)
PrSetDumpable(arg2) ==
  \/ arg2 \notin {0, 1} /\ Fails(BAD)
  \/ arg2 \in {0, 1} /\ Done([pr EXCEPT !.dumpable = arg2])

PrSetName(name) ==
  \/ Fails(FAULT)
  \/ Done([pr EXCEPT !.comm = name])

PrSetTimerslack(arg2) ==
  Done([pr EXCEPT !.slack = IF arg2 = 0 THEN DefaultSlack ELSE arg2])

PrMceKillClear(arg3) ==
  \/ arg3 # 0 /\ Fails(BAD)
  \/ /\ arg3 = 0
     /\ pr' = [pr EXCEPT !.mce_process = FALSE]
     /\ answer' = OK /\ policy' = McePolicy.DEFAULT

(* The process flag is set before the policy is looked at, and stays set   *)
(* when the policy is refused.                                             *)
MceFlags(arg3) ==
  CASE arg3 = McePolicy.EARLY   -> [pr EXCEPT !.mce_process = TRUE, !.mce_early = TRUE]
    [] arg3 = McePolicy.LATE    -> [pr EXCEPT !.mce_process = TRUE, !.mce_early = FALSE]
    [] arg3 = McePolicy.DEFAULT -> [pr EXCEPT !.mce_process = FALSE, !.mce_early = FALSE]
    [] OTHER                    -> [pr EXCEPT !.mce_process = TRUE]

PrMceKillSet(arg3) ==
  LET good == \E p \in DOMAIN McePolicy : McePolicy[p] = arg3
  IN /\ pr' = MceFlags(arg3)
     /\ answer' = IF good THEN OK ELSE BAD
     /\ policy' = IF good THEN arg3 ELSE Spoiled

MceReported == IF ~pr.mce_process THEN McePolicy.DEFAULT
               ELSE IF pr.mce_early THEN McePolicy.EARLY ELSE McePolicy.LATE

PrMceKillGet == Reports(MceReported)

PrSetNoNewPrivs(arg2) ==
  \/ arg2 # 1 /\ Fails(BAD)
  \/ arg2 = 1 /\ Done([pr EXCEPT !.no_new_privs = TRUE])

(* A fatal signal may interrupt the wait for the memory map's lock.        *)
PrSetThpDisable(arg2) ==
  \/ Fails(INTR)
  \/ Done([pr EXCEPT !.thp_disable = (arg2 # 0)])

(* The settings other options only read, and the options that are unknown. *)
PrGet ==
  \/ Reports(pr.pdeath_signal)
  \/ Reports(pr.dumpable)
  \/ Reports(pr.slack)
  \/ Reports(IF pr.no_new_privs THEN 1 ELSE 0)
  \/ Reports(IF pr.thp_disable THEN 1 ELSE 0)
  \/ Fails(BAD)

PrctlNext ==
  \/ \E arg \in Args :
       \/ PrSetPdeathsig(arg) \/ PrSetDumpable(arg) \/ PrSetTimerslack(arg) \/ PrSetThpDisable(arg)
       \/ PrMceKillClear(arg) \/ PrMceKillSet(arg) \/ PrSetNoNewPrivs(arg)
  \/ \E name \in {"a", "b"} : PrSetName(name)
  \/ PrMceKillGet \/ PrGet

PrctlSpec == PrctlInit /\ [][PrctlNext]_prctlVars

-----------------------------------------------------------------------------
(* PR_MCE_KILL_GET reports the policy of the last accepted call, whatever  *)
(* sequence of SET and CLEAR came before; CLEAR leaves the early flag set. *)
(* The exception in the code is a SET refused with EINVAL: it has already  *)
(* set the process flag, so it can bring back a policy that was cleared.   *)
McePolicyReported == policy # Spoiled => MceReported = policy
=============================================================================
