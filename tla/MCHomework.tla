------------------------------ MODULE MCHomework ------------------------------
(***************************************************************************)
(* The kernel code of HW2 and HW3 and the threads of HW4 in one instance.  *)
(* The parts share no variable, so each behaviour follows one of them:     *)
(* active says which, and the others stay in a state they can start in.    *)
(***************************************************************************)
EXTENDS SysCred, SysProcess, SysPriority, SysLimits, SysMm, SysPrctl, SysUts, SysUsage, SysInfo,
        SysSort, KernelModules, PthreadSub

VARIABLE active

homeworkVars == <<credVars, task, prio, lim, mm, prctlVars, utsVars, usageVars, memory, qs, ls, tm, pthreadVars, active>>

Parts == {"cred", "process", "priority", "limits", "mm", "prctl", "uts", "usage", "info", "sort", "list", "timer", "pthread"}

(* A variable of the active part takes any of its starts, of another part  *)
(* one of them.                                                            *)
Starts(part, v, starts) == IF active = part THEN v \in starts ELSE v = CHOOSE s \in starts : TRUE

HomeworkInit ==
  /\ active \in Parts
  /\ Starts("cred", cred, CredStarts) /\ nproc = FALSE
  /\ ProcessInit
  /\ Starts("priority", prio, PriorityStarts)
  /\ Starts("limits", lim, LimitStarts)
  /\ Starts("mm", mm, MmStarts)
  /\ PrctlInit /\ UtsInit /\ UsageInit /\ InfoInit
  /\ IF active = "sort" THEN SortInit ELSE qs = SortStarts(0, <<>>)
  /\ Starts("list", ls, ListStarts)
  /\ TimerInit /\ PthreadInit

HomeworkNext ==
  /\ UNCHANGED active
  /\ \/ active = "cred" /\ CredNext
        /\ UNCHANGED <<task, prio, lim, mm, prctlVars, utsVars, usageVars, memory, qs, ls, tm, pthreadVars>>
     \/ /\ active = "process" /\ ProcessNext
        /\ UNCHANGED <<credVars, prio, lim, mm, prctlVars, utsVars, usageVars, memory, qs, ls, tm, pthreadVars>>
     \/ /\ active = "priority" /\ PriorityNext
        /\ UNCHANGED <<credVars, task, lim, mm, prctlVars, utsVars, usageVars, memory, qs, ls, tm, pthreadVars>>
     \/ /\ active = "limits" /\ LimitNext
        /\ UNCHANGED <<credVars, task, prio, mm, prctlVars, utsVars, usageVars, memory, qs, ls, tm, pthreadVars>>
     \/ /\ active = "mm" /\ MmNext
        /\ UNCHANGED <<credVars, task, prio, lim, prctlVars, utsVars, usageVars, memory, qs, ls, tm, pthreadVars>>
     \/ /\ active = "prctl" /\ PrctlNext
        /\ UNCHANGED <<credVars, task, prio, lim, mm, utsVars, usageVars, memory, qs, ls, tm, pthreadVars>>
     \/ /\ active = "uts" /\ UtsNext
        /\ UNCHANGED <<credVars, task, prio, lim, mm, prctlVars, usageVars, memory, qs, ls, tm, pthreadVars>>
     \/ /\ active = "usage" /\ UsageNext
        /\ UNCHANGED <<credVars, task, prio, lim, mm, prctlVars, utsVars, memory, qs, ls, tm, pthreadVars>>
     \/ /\ active = "info" /\ InfoNext
        /\ UNCHANGED <<credVars, task, prio, lim, mm, prctlVars, utsVars, usageVars, qs, ls, tm, pthreadVars>>
     \/ /\ active = "sort" /\ SortNext
        /\ UNCHANGED <<credVars, task, prio, lim, mm, prctlVars, utsVars, usageVars, memory, ls, tm, pthreadVars>>
     \/ /\ active = "list" /\ ListNext
        /\ UNCHANGED <<credVars, task, prio, lim, mm, prctlVars, utsVars, usageVars, memory, qs, tm, pthreadVars>>
     \/ /\ active = "timer" /\ TimerNext
        /\ UNCHANGED <<credVars, task, prio, lim, mm, prctlVars, utsVars, usageVars, memory, qs, ls, pthreadVars>>
     \/ /\ active = "pthread" /\ PthreadNext
        /\ UNCHANGED <<credVars, task, prio, lim, mm, prctlVars, utsVars, usageVars, memory, qs, ls, tm>>

(* PthreadFairness, when the threads run.                                  *)
InPthread(A) == active = "pthread" /\ A

HomeworkSpec ==
  /\ HomeworkInit /\ [][HomeworkNext]_homeworkVars
  /\ WF_pthreadVars(InPthread(Main)) /\ WF_pthreadVars(InPthread(Child1)) /\ WF_pthreadVars(InPthread(Child2))

(* What the kernel reports is what was set and used: names, usage, memory, *)
(* priorities and the policy for memory errors.                            *)
ReportsExact ==
  /\ active = "uts" => NamesReadBack
  /\ active = "usage" => UsageConserved
  /\ active = "info" => SysinfoExact
  /\ active = "priority" => PrioAllOrError
  /\ active = "prctl" => McePolicyReported

(* A map that passes the checks, and one that does not.                    *)
OneMap == [f \in MapFields |-> CASE f \in {"start_code", "start_data", "arg_start"} -> 1
                                 [] f \in {"end_data", "end_code", "arg_end", "env_start"} -> 2
                                 [] OTHER -> 3]
SomeMaps == {OneMap, [f \in MapFields |-> 2]}

ThreeUids == {0, 1, 2}
TwoGids == {1, 2}
ThreePids == 1..3
ThreeNumbers == 1..3
(* Texts of up to four characters, so that a letter can reach the limit of *)
(* the report.                                                             *)
Lengths == 0..4
PgrpOfThree == <<1, 1, 3>>
RootAndUsers == {<<0, 0>>, <<5, 5>>, <<6, 6>>, <<5, 0>>}
NicesAndBeyond == {MIN_NICE - 1, 0, MAX_NICE + 1}
TwoThreads == 1..2
TwoLetters == {1, 2}
FourArgs == 0..3
SomeSizes == {0, 1, 2, 3, 4, 8, 16, 17}
=============================================================================
