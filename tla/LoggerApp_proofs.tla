--------------------------- MODULE LoggerApp_proofs ---------------------------
(***************************************************************************)
(* Proofs about LoggerApp, for every queue length, every set of created    *)
(* senders and every bound on the toggle counts.                           *)
(***************************************************************************)
EXTENDS LoggerApp, FiniteSetTheorems, TLAPS

(* LEDTask passes the test of the bound before it can reach count++.       *)
CountBound ==
  pc["gpio"] \in {"clear", "send", "wait", "wake", "expired", "inc"}
    => count < MaxCount

(* A sender that was not created never runs.                               *)
OnlyCreatedRun == \A s \in Senders \ Created : pc[s] = "none"

TaskInv == TaskTypeOK /\ CountBound /\ OnlyCreatedRun

-----------------------------------------------------------------------------
(* What the kernel's operations do to the queue and the tasks.             *)

(* With room, xQueueSend appends the message and wakes a blocked           *)
(* LoggerTask.                                                             *)
LEMMA SendSucceeds ==
  ASSUME TaskTypeOK, NEW t \in Senders, NEW msg \in Message,
         NEW next \in {"inc", "poll"}, xQueueSend(t, msg, next),
         Len(loggerQueue) < QueueLength
  PROVE  /\ loggerQueue' = Append(loggerQueue, msg)
         /\ loggerQueue' \in Seq(Message)
         /\ Len(loggerQueue') = Len(loggerQueue) + 1
         /\ Len(loggerQueue') <= QueueLength
         /\ pc' = [pc EXCEPT ![t] = next, !["logger"] =
                    IF pc["logger"] = "wait" THEN "wake" ELSE pc["logger"]]
<1>1. /\ loggerQueue' = Append(loggerQueue, msg)
      /\ pc' = [pc EXCEPT ![t] = next, !["logger"] =
                  IF pc["logger"] = "wait" THEN "wake" ELSE pc["logger"]]
  BY QueueLengthAssumption DEF xQueueSend, TaskTypeOK
<1>2. /\ loggerQueue' \in Seq(Message)
      /\ Len(loggerQueue') = Len(loggerQueue) + 1
  BY <1>1 DEF TaskTypeOK
<1>3. Len(loggerQueue') <= QueueLength
  BY <1>2, QueueLengthAssumption DEF TaskTypeOK
<1>. QED  BY <1>1, <1>2, <1>3

(* On a full queue xQueueSend blocks the task, or returns after its        *)
(* timeout.                                                                *)
LEMMA SendBlocks ==
  ASSUME TaskTypeOK, NEW t \in Senders, NEW msg \in Message,
         NEW next \in {"inc", "poll"}, xQueueSend(t, msg, next),
         ~(Len(loggerQueue) < QueueLength)
  PROVE  /\ Len(loggerQueue) = QueueLength
         /\ loggerQueue' = loggerQueue
         /\ pc' = [pc EXCEPT ![t] = IF pc[t] = "expired" THEN next ELSE "wait"]
  BY QueueLengthAssumption DEF xQueueSend, Goto, TaskTypeOK

(* In both cases queue and program counters keep their types.              *)
LEMMA SendTypes ==
  ASSUME TaskTypeOK, NEW t \in Senders, NEW msg \in Message,
         NEW next \in {"inc", "poll"}, xQueueSend(t, msg, next)
  PROVE  /\ loggerQueue' \in Seq(Message)
         /\ Len(loggerQueue') <= QueueLength
         /\ pc' \in [Senders \cup {"logger"} -> SenderPC \cup LoggerPC]
         /\ \A s \in Senders : pc'[s] \in SenderPC
         /\ pc'["logger"] \in LoggerPC
         /\ \A s \in Senders \ {t} : pc'[s] = pc[s]
         /\ pc'[t] \in {next, "wait"}
<1>1. CASE Len(loggerQueue) < QueueLength
  <2>1. /\ loggerQueue' \in Seq(Message)
        /\ Len(loggerQueue') <= QueueLength
        /\ pc' = [pc EXCEPT ![t] = next, !["logger"] =
                    IF pc["logger"] = "wait" THEN "wake" ELSE pc["logger"]]
    BY <1>1, SendSucceeds
  <2>. QED  BY <2>1 DEF TaskTypeOK, Senders, SenderPC, LoggerPC
<1>2. CASE ~(Len(loggerQueue) < QueueLength)
  BY <1>2, SendBlocks DEF TaskTypeOK, Senders, SenderPC, LoggerPC
<1>. QED  BY <1>1, <1>2

(* A sender moves; nobody else does.                                       *)
LEMMA GotoTypes ==
  ASSUME TaskTypeOK, NEW t \in Senders, NEW label \in SenderPC, Goto(t, label)
  PROVE  /\ pc' \in [Senders \cup {"logger"} -> SenderPC \cup LoggerPC]
         /\ \A s \in Senders : pc'[s] \in SenderPC
         /\ pc'["logger"] = pc["logger"]
         /\ \A s \in Senders \ {t} : pc'[s] = pc[s]
         /\ pc'[t] = label
  BY DEF TaskTypeOK, Goto, Senders

(* LoggerTask moves; nobody else does.                                     *)
LEMMA GotoLoggerTypes ==
  ASSUME TaskTypeOK, NEW label \in LoggerPC, Goto("logger", label)
  PROVE  /\ pc' \in [Senders \cup {"logger"} -> SenderPC \cup LoggerPC]
         /\ \A s \in Senders : pc'[s] = pc[s]
         /\ pc'["logger"] = label
  BY DEF TaskTypeOK, Goto, Senders

(* What TemperatureTask and AlertTask send are messages.                   *)
LEMMA OtherMessage == \A s \in Senders :
    [source |-> s, toggleCount |-> 0] \in Message
  BY MaxCountAssumption DEF Message

-----------------------------------------------------------------------------
(* main starts the tasks in a state of the right types.                    *)
LEMMA InitTypes == Init => TypeOK /\ TaskInv
<1>. SUFFICES ASSUME Init PROVE TypeOK /\ TaskInv  OBVIOUS
<1>1. TaskTypeOK
  <2>1. loggerQueue \in Seq(Message) /\ Len(loggerQueue) <= QueueLength
    BY QueueLengthAssumption DEF Init
  <2>. QED  BY <2>1, MaxCountAssumption
            DEF Init, TaskTypeOK, Senders, Tasks, SenderPC, LoggerPC
<1>2. FlagTypeOK
  BY DEF Init, FlagTypeOK
<1>3. PortTypeOK
  BY DEF Init, PortTypeOK
<1>4. CountBound /\ OnlyCreatedRun
  BY CreatedAssumption DEF Init, CountBound, OnlyCreatedRun, Senders, Tasks
<1>. QED  BY <1>1, <1>2, <1>3, <1>4 DEF TaskInv, TypeOK

(* The polled flags stay Boolean: callbacks set them, tasks clear them.    *)
LEMMA FlagTypes == FlagTypeOK /\ [Next]_vars => FlagTypeOK'
  BY DEF FlagTypeOK, vars, appVars, flagVars, gpioVars, histVars, Next,
     LEDTask, LEDBoot, LEDPoll, LEDClear, LEDSend, LEDInc, Timeout,
     TemperatureTask, TemperatureBoot, TemperatureConfig, TemperaturePoll,
     TemperatureClear, TemperatureRead, TemperatureSend,
     AlertTask, AlertBoot, AlertStart, AlertPoll, AlertTest, AlertClear,
     AlertSend, LoggerTask, LoggerBoot, LoggerReceive, LoggerPrint,
     TimerService, Timer1Callback, Timer2Callback, Timer3Callback,
     PortEHandler, PortEEnter, PortEClear, PortERead, PinChange, IntEnabled

(* The handler stores only 1 or 2 into edge.                               *)
LEMMA PortTypes == PortTypeOK /\ [Next]_vars => PortTypeOK'
  BY DEF PortTypeOK, vars, appVars, flagVars, gpioVars, histVars, Next,
     LEDTask, LEDBoot, LEDPoll, LEDClear, LEDSend, LEDInc, Timeout,
     TemperatureTask, TemperatureBoot, TemperatureConfig, TemperaturePoll,
     TemperatureClear, TemperatureRead, TemperatureSend,
     AlertTask, AlertBoot, AlertStart, AlertPoll, AlertTest, AlertClear,
     AlertSend, LoggerTask, LoggerBoot, LoggerReceive, LoggerPrint,
     TimerService, Timer1Callback, Timer2Callback, Timer3Callback,
     PortEHandler, PortEEnter, PortEClear, PortERead, PinChange, IntEnabled

(* A step of a sender outside the kernel.                                  *)
LEMMA LocalStep ==
  ASSUME TaskInv, NEW t \in Senders, NEW label \in SenderPC,
         Goto(t, label), pc[t] # "none",
         label \notin {"wait", "wake", "expired"},
         UNCHANGED <<loggerQueue, count, received>>,
         t = "gpio" /\ label \in {"clear", "send", "inc"} => count < MaxCount
  PROVE  TaskInv'
<1>1. TaskTypeOK'
  BY GotoTypes DEF TaskInv, TaskTypeOK
<1>2. CountBound' /\ OnlyCreatedRun'
  BY GotoTypes DEF TaskInv, CountBound, OnlyCreatedRun, Senders
<1>. QED  BY <1>1, <1>2 DEF TaskInv

(* A call of xQueueSend.                                                   *)
LEMMA SendStep ==
  ASSUME TaskInv, NEW t \in Senders, NEW msg \in Message,
         NEW next \in {"inc", "poll"}, xQueueSend(t, msg, next),
         pc[t] \in {"send", "wake", "expired"},
         UNCHANGED <<count, received>>
  PROVE  TaskInv'
<1>1. TaskTypeOK'
  BY SendTypes DEF TaskInv, TaskTypeOK
<1>2. CountBound' /\ OnlyCreatedRun'
  BY SendTypes DEF TaskInv, CountBound, OnlyCreatedRun, Senders
<1>. QED  BY <1>1, <1>2 DEF TaskInv

(* xQueueReceive, whether or not it wakes a sender.                        *)
LEMMA ReceiveStep ==
  ASSUME TaskInv, Receive, UNCHANGED count
  PROVE  TaskInv'
<1>1. CASE loggerQueue # <<>>
  <2>1. /\ Head(loggerQueue) \in Message
        /\ loggerQueue' = Tail(loggerQueue)
        /\ received' = IF Head(loggerQueue).source = "gpio"
                       THEN Head(loggerQueue).toggleCount + 1 ELSE received
    BY <1>1 DEF Receive, TaskInv, TaskTypeOK
  <2>2. loggerQueue' \in Seq(Message) /\ Len(loggerQueue') <= QueueLength
    BY <1>1, <2>1, QueueLengthAssumption DEF TaskInv, TaskTypeOK
  <2>3. received' \in 0..(MaxCount + 1)
    BY <2>1, MaxCountAssumption DEF TaskInv, TaskTypeOK, Message
  <2>4. CASE Waiting = {} /\ Goto("logger", "print")
    <3>1. TaskTypeOK'
      BY <2>2, <2>3, <2>4, GotoLoggerTypes DEF TaskInv, TaskTypeOK, LoggerPC
    <3>. QED  BY <3>1, <2>4, GotoLoggerTypes
              DEF TaskInv, CountBound, OnlyCreatedRun, LoggerPC, Senders
  <2>5. ASSUME NEW s \in Waiting,
               pc' = [pc EXCEPT !["logger"] = "print", ![s] = "wake"]
        PROVE  TaskInv'
    <3>1. s \in Senders /\ pc[s] = "wait"
      BY DEF Waiting, Blocked
    <3>2. TaskTypeOK'
      BY <2>2, <2>3, <2>5, <3>1
      DEF TaskInv, TaskTypeOK, LoggerPC, SenderPC, Senders
    <3>. QED  BY <2>5, <3>1, <3>2
              DEF TaskInv, TaskTypeOK, CountBound, OnlyCreatedRun, Senders
  <2>. QED  BY <1>1, <2>4, <2>5 DEF Receive
<1>2. CASE loggerQueue = <<>>
  <2>1. /\ UNCHANGED <<loggerQueue, received>>
        /\ \E l \in {"recv", "wait"} : Goto("logger", l)
    BY <1>2 DEF Receive
  <2>. QED  BY <2>1, GotoLoggerTypes
            DEF TaskInv, TaskTypeOK, CountBound, OnlyCreatedRun, LoggerPC,
                Senders
<1>. QED  BY <1>1, <1>2

(* The end of a block time.                                                *)
LEMMA TimeoutStep ==
  ASSUME TaskInv, NEW t \in Tasks, Timeout(t)
  PROVE  TaskInv'
<1>1. /\ pc[t] \in {"wait", "wake"} /\ pc' = [pc EXCEPT ![t] = "expired"]
      /\ UNCHANGED <<loggerQueue, count, received>>
  BY DEF Timeout, At, Goto
<1>2. t \in Senders \cup {"logger"}
  BY CreatedAssumption DEF Tasks
<1>3. TaskTypeOK'
  BY <1>1, <1>2 DEF TaskInv, TaskTypeOK, Senders, SenderPC, LoggerPC
<1>. QED  BY <1>1, <1>2, <1>3
          DEF TaskInv, TaskTypeOK, CountBound, OnlyCreatedRun, Senders

(* Every step of every task, callback and handler preserves TaskInv.       *)
LEMMA TaskTypes == TaskInv /\ [Next]_vars => TaskInv'
<1>. SUFFICES ASSUME TaskInv, [Next]_vars PROVE TaskInv'  OBVIOUS
<1>. USE DEF At, Calling
<1>1. CASE LEDTask
  <2>1. CASE LEDBoot \/ LEDClear
    BY <2>1, LocalStep DEF LEDBoot, LEDClear, SenderPC, Senders, TaskInv,
                           CountBound
  <2>2. CASE LEDPoll
    BY <2>2, LocalStep DEF LEDPoll, SenderPC, Senders
  <2>3. CASE LEDSend
    <3>1. [source |-> "gpio", toggleCount |-> count] \in Message
      BY DEF TaskInv, TaskTypeOK, Message, Senders
    <3>. QED  BY <2>3, <3>1, SendStep DEF LEDSend, Senders
  <2>4. CASE LEDInc
    <3>1. count < MaxCount /\ count' = count + 1
      BY <2>4 DEF LEDInc, TaskInv, CountBound
    <3>2. count' \in 0..MaxCount
      BY <3>1, MaxCountAssumption DEF TaskInv, TaskTypeOK
    <3>3. TaskTypeOK' /\ pc'["gpio"] = "poll"
           /\ \A s \in Senders \ {"gpio"} : pc'[s] = pc[s]
      BY <2>4, <3>2, GotoTypes DEF LEDInc, TaskInv, TaskTypeOK, Senders, SenderPC
    <3>. QED  BY <2>4, <3>3
              DEF LEDInc, TaskInv, CountBound, OnlyCreatedRun, Senders
  <2>. QED  BY <1>1, <2>1, <2>2, <2>3, <2>4 DEF LEDTask
<1>2. CASE TemperatureTask
  <2>1. CASE TemperatureSend
    BY <2>1, SendStep, OtherMessage DEF TemperatureSend, Senders
  <2>2. CASE TemperatureBoot \/ TemperatureConfig \/ TemperaturePoll
               \/ TemperatureClear \/ TemperatureRead
    BY <2>2, LocalStep DEF TemperatureBoot, TemperatureConfig, SenderPC,
       TemperaturePoll, TemperatureClear, TemperatureRead, Senders
  <2>. QED  BY <1>2, <2>1, <2>2 DEF TemperatureTask
<1>3. CASE AlertTask
  <2>1. CASE AlertSend
    BY <2>1, SendStep, OtherMessage DEF AlertSend, Senders
  <2>2. CASE AlertBoot \/ AlertStart \/ AlertPoll \/ AlertTest \/ AlertClear
    BY <2>2, LocalStep DEF AlertBoot, AlertStart, AlertPoll, AlertTest,
       AlertClear, Senders, SenderPC
  <2>. QED  BY <1>3, <2>1, <2>2 DEF AlertTask
<1>4. CASE LoggerTask
  <2>1. CASE LoggerReceive
    BY <2>1, ReceiveStep DEF LoggerReceive
  <2>2. CASE LoggerBoot \/ LoggerPrint
    BY <2>2, GotoLoggerTypes DEF LoggerBoot, LoggerPrint, TaskInv, TaskTypeOK,
       CountBound, OnlyCreatedRun, LoggerPC, Senders
  <2>. QED  BY <1>4, <2>1, <2>2 DEF LoggerTask
<1>5. ASSUME UNCHANGED appVars PROVE TaskInv'
  BY <1>5 DEF appVars, TaskInv, TaskTypeOK, CountBound, OnlyCreatedRun
<1>6. CASE TimerService \/ PortEHandler \/ PinChange \/ UNCHANGED vars
  BY <1>5, <1>6 DEF TimerService, Timer1Callback, Timer2Callback,
     Timer3Callback, PortEHandler, PortEEnter, PortEClear, PortERead,
     PinChange, vars
<1>7. CASE \E t \in Tasks : Timeout(t)
  BY <1>7, TimeoutStep
<1>. QED  BY <1>1, <1>2, <1>3, <1>4, <1>6, <1>7 DEF Next

(* The types of the application's state, for every instance.               *)
THEOREM TypeCorrect == Spec => []TypeOK
<1>1. Init => TypeOK /\ TaskInv
  BY InitTypes
<1>2. (TypeOK /\ TaskInv) /\ [Next]_vars => (TypeOK /\ TaskInv)'
  BY FlagTypes, PortTypes, TaskTypes DEF TypeOK, TaskInv
<1>. QED  BY <1>1, <1>2, PTL DEF Spec

-----------------------------------------------------------------------------
(* No wake-up is lost.                                                     *)

(* There are finitely many senders, so the woken ones can be counted.      *)
LEMMA WokenFinite ==
  /\ IsFiniteSet(Woken) /\ Cardinality(Woken) \in Nat
  /\ IsFiniteSet(Woken') /\ Cardinality(Woken') \in Nat
<1>1. IsFiniteSet({}) /\ IsFiniteSet({"gpio"})
      /\ IsFiniteSet({"gpio"} \cup {"temperature"})
      /\ IsFiniteSet(({"gpio"} \cup {"temperature"}) \cup {"alert"})
  BY FS_EmptySet, FS_Singleton, FS_AddElement
<1>2. IsFiniteSet(Senders)
  <2>1. Senders = ({"gpio"} \cup {"temperature"}) \cup {"alert"}
    BY DEF Senders
  <2>. QED  BY <1>1, <2>1
<1>3. Woken \subseteq Senders /\ Woken' \subseteq Senders
  BY DEF Woken
<1>. QED  BY <1>2, <1>3, FS_Subset, FS_CardinalityType

(* A step that leaves the queue alone and takes nobody out of a call that  *)
(* was woken, or that blocks somebody on a full queue only.                *)
LEMMA QuietStep ==
  ASSUME NoLostWakeup, loggerQueue' = loggerQueue,
         Waiting' \subseteq Waiting, Woken \subseteq Woken',
         pc'["logger"] = "wait" => pc["logger"] = "wait" \/ loggerQueue = <<>>,
         Len(loggerQueue) \in Nat
  PROVE  NoLostWakeup'
<1>1. Cardinality(Woken) <= Cardinality(Woken')
  BY WokenFinite, FS_Subset
<1>2. Waiting' # {} =>
        QueueLength <= Len(loggerQueue') + Cardinality(Woken')
  BY <1>1, WokenFinite, QueueLengthAssumption DEF NoLostWakeup
<1>. QED  BY <1>2 DEF NoLostWakeup

(* A step of a sender outside the kernel.                                  *)
LEMMA LocalWakeup ==
  ASSUME NoLostWakeup, TaskInv, NEW t \in Senders, NEW label \in SenderPC,
         Goto(t, label), pc[t] \notin {"wait", "wake", "expired"},
         label \notin {"wait", "wake", "expired"}, loggerQueue' = loggerQueue
  PROVE  NoLostWakeup'
<1>1. Waiting' = Waiting /\ Woken' = Woken /\ pc'["logger"] = pc["logger"]
  BY GotoTypes DEF TaskInv, Waiting, Blocked, Woken, Senders
<1>. QED  BY <1>1, QuietStep DEF TaskInv, TaskTypeOK

(* A send fills a place that one woken sender, itself, stood for, or       *)
(* blocks on a full queue.                                                 *)
LEMMA SendWakeup ==
  ASSUME NoLostWakeup, TaskInv, NEW t \in Senders, NEW msg \in Message,
         NEW next \in {"inc", "poll"}, xQueueSend(t, msg, next),
         pc[t] \in {"send", "wake", "expired"}
  PROVE  NoLostWakeup'
<1>1. CASE Len(loggerQueue) < QueueLength
  <2>1. /\ Len(loggerQueue') = Len(loggerQueue) + 1
        /\ pc' = [pc EXCEPT ![t] = next, !["logger"] =
                    IF pc["logger"] = "wait" THEN "wake" ELSE pc["logger"]]
    BY <1>1, SendSucceeds DEF TaskInv
  <2>2. Waiting' = Waiting /\ Woken' = Woken \ {t} /\ pc'["logger"] # "wait"
    BY <2>1 DEF TaskInv, TaskTypeOK, Waiting, Blocked, Woken, Senders
  <2>3. Cardinality(Woken) <= Cardinality(Woken') + 1
    BY <2>2, WokenFinite, FS_RemoveElement
  <2>. QED
    BY <2>1, <2>2, <2>3, WokenFinite, QueueLengthAssumption
    DEF NoLostWakeup, TaskInv, TaskTypeOK
<1>2. CASE ~(Len(loggerQueue) < QueueLength)
  <2>1. Len(loggerQueue') = QueueLength /\ loggerQueue' # <<>>
    BY <1>2, SendBlocks, QueueLengthAssumption DEF TaskInv, TaskTypeOK
  <2>2. pc'["logger"] = pc["logger"] /\ loggerQueue' = loggerQueue
    BY <1>2, SendBlocks DEF TaskInv, TaskTypeOK, Senders
  <2>. QED
    BY <2>1, <2>2, WokenFinite, QueueLengthAssumption DEF NoLostWakeup
<1>. QED  BY <1>1, <1>2

(* A receive frees one place and wakes one sender for it, if any is        *)
(* blocked.                                                                *)
LEMMA ReceiveWakeup ==
  ASSUME NoLostWakeup, TaskInv, Receive
  PROVE  NoLostWakeup'
<1>1. CASE loggerQueue # <<>>
  <2>1. loggerQueue' = Tail(loggerQueue)
        /\ Len(loggerQueue') = Len(loggerQueue) - 1 /\ Len(loggerQueue) \in Nat
    BY <1>1 DEF Receive, TaskInv, TaskTypeOK
  <2>2. CASE Waiting = {} /\ Goto("logger", "print")
    <3>1. Waiting' = {} /\ pc'["logger"] # "wait"
      BY <2>2, GotoLoggerTypes
      DEF TaskInv, Waiting, Blocked, LoggerPC, Senders
    <3>. QED  BY <3>1 DEF NoLostWakeup
  <2>3. ASSUME NEW s \in Waiting,
               pc' = [pc EXCEPT !["logger"] = "print", ![s] = "wake"]
        PROVE  NoLostWakeup'
    <3>1. s \in Senders /\ s \notin Woken
      BY DEF Waiting, Blocked, Woken
    <3>2. Woken' = Woken \cup {s} /\ pc'["logger"] # "wait"
      BY <2>3, <3>1 DEF TaskInv, TaskTypeOK, Woken, Senders
    <3>3. Cardinality(Woken') = Cardinality(Woken) + 1
      BY <3>1, <3>2, WokenFinite, FS_AddElement
    <3>4. QueueLength <= Len(loggerQueue) + Cardinality(Woken)
      BY DEF NoLostWakeup
    <3>. QED  BY <2>1, <3>2, <3>3, <3>4, WokenFinite, QueueLengthAssumption
              DEF NoLostWakeup
  <2>. QED  BY <1>1, <2>2, <2>3 DEF Receive
<1>2. CASE loggerQueue = <<>>
  <2>1. /\ loggerQueue' = loggerQueue
        /\ \E l \in {"recv", "wait"} : Goto("logger", l)
    BY <1>2 DEF Receive
  <2>2. Waiting' = Waiting /\ Woken' = Woken
    BY <2>1, GotoLoggerTypes DEF TaskInv, Waiting, Blocked, Woken, LoggerPC,
                                 Senders
  <2>. QED  BY <1>2, <2>1, <2>2, QuietStep DEF TaskInv, TaskTypeOK
<1>. QED  BY <1>1, <1>2

(* A sender whose block time ends goes on trying, so it still counts as    *)
(* woken.                                                                  *)
LEMMA TimeoutWakeup ==
  ASSUME NoLostWakeup, TaskInv, NEW t \in Tasks, Timeout(t)
  PROVE  NoLostWakeup'
<1>1. /\ pc[t] \in {"wait", "wake"} /\ pc' = [pc EXCEPT ![t] = "expired"]
      /\ loggerQueue' = loggerQueue
  BY DEF Timeout, At, Goto
<1>2. t \in Senders \cup {"logger"}
  BY CreatedAssumption DEF Tasks
<1>3. /\ Waiting' \subseteq Waiting /\ Woken \subseteq Woken'
      /\ pc'["logger"] = "wait" => pc["logger"] = "wait"
  BY <1>1, <1>2 DEF TaskInv, TaskTypeOK, Waiting, Blocked, Woken, Senders
<1>. QED  BY <1>1, <1>3, QuietStep DEF TaskInv, TaskTypeOK

(* No step of the application loses a wake-up.                             *)
LEMMA WakeupStep == NoLostWakeup /\ TaskInv /\ [Next]_vars => NoLostWakeup'
<1>. SUFFICES ASSUME NoLostWakeup, TaskInv, [Next]_vars PROVE NoLostWakeup'
  OBVIOUS
<1>. USE DEF At, Calling
<1>1. CASE LEDTask
  <2>1. CASE LEDBoot \/ LEDPoll \/ LEDClear \/ LEDInc
    BY <2>1, LocalWakeup
    DEF LEDBoot, LEDPoll, LEDClear, LEDInc, SenderPC, Senders
  <2>2. CASE LEDSend
    <3>1. [source |-> "gpio", toggleCount |-> count] \in Message
      BY DEF TaskInv, TaskTypeOK, Message, Senders
    <3>. QED  BY <2>2, <3>1, SendWakeup DEF LEDSend, Senders
  <2>. QED  BY <1>1, <2>1, <2>2 DEF LEDTask
<1>2. CASE TemperatureTask
  <2>1. CASE TemperatureSend
    BY <2>1, SendWakeup, OtherMessage DEF TemperatureSend, Senders
  <2>2. CASE TemperatureBoot \/ TemperatureConfig \/ TemperaturePoll
               \/ TemperatureClear \/ TemperatureRead
    BY <2>2, LocalWakeup DEF TemperatureBoot, TemperatureConfig, SenderPC,
       TemperaturePoll, TemperatureClear, TemperatureRead, Senders
  <2>. QED  BY <1>2, <2>1, <2>2 DEF TemperatureTask
<1>3. CASE AlertTask
  <2>1. CASE AlertSend
    BY <2>1, SendWakeup, OtherMessage DEF AlertSend, Senders
  <2>2. CASE AlertBoot \/ AlertStart \/ AlertPoll \/ AlertTest \/ AlertClear
    BY <2>2, LocalWakeup DEF AlertBoot, AlertStart, AlertPoll, AlertTest,
       AlertClear, Senders, SenderPC
  <2>. QED  BY <1>3, <2>1, <2>2 DEF AlertTask
<1>4. CASE LoggerTask
  <2>1. CASE LoggerReceive
    BY <2>1, ReceiveWakeup DEF LoggerReceive
  <2>2. CASE LoggerBoot \/ LoggerPrint
    <3>1. Waiting' = Waiting /\ Woken' = Woken /\ pc'["logger"] # "wait"
      BY <2>2, GotoLoggerTypes DEF LoggerBoot, LoggerPrint, TaskInv, Waiting,
         Blocked, Woken, LoggerPC, Senders
    <3>. QED  BY <2>2, <3>1, QuietStep
              DEF LoggerBoot, LoggerPrint, TaskInv, TaskTypeOK
  <2>. QED  BY <1>4, <2>1, <2>2 DEF LoggerTask
<1>5. ASSUME UNCHANGED appVars PROVE NoLostWakeup'
  BY <1>5 DEF appVars, NoLostWakeup, Waiting, Blocked, Woken
<1>6. CASE TimerService \/ PortEHandler \/ PinChange \/ UNCHANGED vars
  BY <1>5, <1>6 DEF TimerService, Timer1Callback, Timer2Callback,
     Timer3Callback, PortEHandler, PortEEnter, PortEClear, PortERead,
     PinChange, vars
<1>7. CASE \E t \in Tasks : Timeout(t)
  BY <1>7, TimeoutWakeup
<1>. QED  BY <1>1, <1>2, <1>3, <1>4, <1>6, <1>7 DEF Next

(* While a sender is blocked every free slot has a ready sender inside     *)
(* xQueueSend, and a blocked LoggerTask has nothing to receive.            *)
THEOREM WakeupsAreNotLost == Spec => []NoLostWakeup
<1>1. Init => TaskInv /\ NoLostWakeup
  <2>1. ASSUME Init PROVE Waiting = {} /\ pc["logger"] # "wait"
    BY <2>1 DEF Init, Waiting, Blocked, Senders
  <2>. QED  BY <2>1, InitTypes DEF NoLostWakeup
<1>2. TaskInv /\ NoLostWakeup /\ [Next]_vars => (TaskInv /\ NoLostWakeup)'
  BY TaskTypes, WakeupStep
<1>. QED  BY <1>1, <1>2, PTL DEF Spec

(* Some created task is always ready: the idle hook never runs.            *)
THEOREM IdleHookNeverRuns == Spec => []NeverIdle
<1>1. Init => TaskInv
  BY InitTypes
<1>2. TaskInv /\ [Next]_vars => TaskInv'
  BY TaskTypes
<1>3. TaskInv /\ NoLostWakeup => NeverIdle
  <2>. SUFFICES ASSUME TaskInv, NoLostWakeup, Blocked = Tasks PROVE FALSE
    BY DEF NeverIdle
  <2>1. loggerQueue = <<>> /\ Len(loggerQueue) = 0
    BY DEF NoLostWakeup, Blocked, Tasks
  <2>2. Waiting # {}
    BY CreatedAssumption DEF Waiting, Tasks
  <2>3. Woken = {}
    BY CreatedAssumption DEF Woken, Blocked, Tasks, TaskInv, OnlyCreatedRun,
                             Senders
  <2>4. Cardinality(Woken) = 0
    BY <2>3, FS_EmptySet
  <2>. QED  BY <2>1, <2>2, <2>4, QueueLengthAssumption DEF NoLostWakeup
<1>. QED  BY <1>1, <1>2, <1>3, WakeupsAreNotLost, PTL DEF Spec

-----------------------------------------------------------------------------
(* The interrupt handler and AlertTask.                                    *)

InKernel == {"wait", "wake", "expired"}

(* What the other actors do to the program counter of a sender.            *)
LEMMA OtherTasks ==
  ASSUME TaskInv, NEW a \in {"temperature", "alert"},
         \/ LEDTask \/ LoggerTask
         \/ (a = "alert" /\ TemperatureTask)
         \/ (a = "temperature" /\ AlertTask)
         \/ TimerService \/ PortEHandler \/ PinChange \/ UNCHANGED vars
         \/ \E t \in Tasks : Timeout(t)
  PROVE  pc'[a] = pc[a] \/ (pc[a] \in InKernel /\ pc'[a] \in InKernel)
<1>. USE DEF InKernel
<1>1. CASE LEDTask
  <2>1. CASE LEDSend
    BY <2>1 DEF LEDSend, xQueueSend, Goto, TaskInv, TaskTypeOK, Senders
  <2>. QED  BY <1>1, <2>1 DEF LEDTask, LEDBoot, LEDPoll, LEDClear, LEDInc, Goto,
                         TaskInv, TaskTypeOK, Senders
<1>2. CASE a = "alert" /\ TemperatureTask
  BY <1>2 DEF TemperatureTask, TemperatureBoot, TemperatureConfig,
     TemperaturePoll, TemperatureClear, TemperatureRead, TemperatureSend,
     xQueueSend, Goto, TaskInv, TaskTypeOK, Senders
<1>3. CASE a = "temperature" /\ AlertTask
  BY <1>3 DEF AlertTask, AlertBoot, AlertStart, AlertPoll, AlertTest,
     AlertClear, AlertSend, xQueueSend, Goto, TaskInv, TaskTypeOK, Senders
<1>4. CASE LoggerTask
  BY <1>4 DEF LoggerTask, LoggerBoot, LoggerReceive, LoggerPrint, Receive,
     Waiting, Blocked, Goto, TaskInv, TaskTypeOK, Senders
<1>5. CASE TimerService \/ PortEHandler \/ PinChange \/ UNCHANGED vars
  BY <1>5 DEF TimerService, Timer1Callback, Timer2Callback,
     Timer3Callback, PortEHandler, PortEEnter, PortEClear, PortERead,
     PinChange, vars, appVars
<1>6. CASE \E t \in Tasks : Timeout(t)
  BY <1>6 DEF Timeout, At, Goto, TaskInv, TaskTypeOK, Senders
<1>. QED  BY <1>1, <1>2, <1>3, <1>4, <1>5, <1>6

(* Until AlertTask has enabled the interrupt there is no sign of one.      *)
NoEarlyInterrupt == edge # 0 \/ pending \/ isr # "idle" => IntEnabled

EdgeInv == NoEarlyInterrupt /\ EdgeFollowsPin

(* No step leaves edge out of date: a pin change raises pending, and       *)
(* PortEHandler clears before it reads.                                    *)
LEMMA EdgeStep == EdgeInv /\ TypeOK /\ TaskInv /\ [Next]_vars => EdgeInv'
<1>. SUFFICES ASSUME EdgeInv, TypeOK, TaskInv, [Next]_vars PROVE EdgeInv'
  OBVIOUS
<1>1. IntEnabled => IntEnabled'
  <2>1. CASE AlertTask
    BY <2>1 DEF AlertTask, AlertBoot, AlertStart, AlertPoll, AlertTest,
       AlertClear, AlertSend, xQueueSend, Goto, TaskInv, TaskTypeOK, Senders,
       IntEnabled
  <2>. QED  BY <2>1, OtherTasks DEF Next, IntEnabled, InKernel
<1>2. CASE PortEEnter \/ PortEClear
  BY <1>1, <1>2 DEF PortEEnter, PortEClear, EdgeInv, NoEarlyInterrupt,
                    EdgeFollowsPin
<1>3. CASE PortERead
  BY <1>1, <1>3 DEF PortERead, EdgeInv, NoEarlyInterrupt, EdgeFollowsPin,
                    TypeOK, PortTypeOK
<1>4. CASE PinChange
  <2>1. IntEnabled' <=> IntEnabled
    BY <1>4 DEF PinChange, appVars, IntEnabled
  <2>. QED
    BY <1>4, <2>1 DEF PinChange, EdgeInv, NoEarlyInterrupt, EdgeFollowsPin
<1>5. ASSUME UNCHANGED gpioVars PROVE EdgeInv'
  BY <1>1, <1>5 DEF gpioVars, EdgeInv, NoEarlyInterrupt, EdgeFollowsPin
<1>6. CASE LEDTask \/ LoggerTask \/ TimerService \/ UNCHANGED vars
            \/ \E t \in Tasks : Timeout(t)
  BY <1>5, <1>6 DEF LEDTask, LEDBoot, LEDPoll, LEDClear, LEDSend, LEDInc,
     LoggerTask, LoggerBoot, LoggerReceive, LoggerPrint, TimerService,
     Timer1Callback, Timer2Callback, Timer3Callback, Timeout, vars
<1>7. CASE TemperatureTask \/ AlertTask
  BY <1>5, <1>7 DEF TemperatureTask, TemperatureBoot, TemperatureConfig,
     TemperaturePoll, TemperatureClear, TemperatureRead, TemperatureSend,
     AlertTask, AlertBoot, AlertStart, AlertPoll, AlertTest, AlertClear,
     AlertSend
<1>. QED  BY <1>2, <1>3, <1>4, <1>6, <1>7 DEF Next, PortEHandler

(* With the handler idle and nothing pending, edge agrees with the pin.    *)
THEOREM EdgeIsCurrent == Spec => []EdgeFollowsPin
<1>1. Init => TypeOK /\ TaskInv /\ EdgeInv
  <2>1. Init => EdgeInv
    BY DEF Init, EdgeInv, NoEarlyInterrupt, EdgeFollowsPin
  <2>. QED  BY <2>1, InitTypes
<1>2. (TypeOK /\ TaskInv /\ EdgeInv) /\ [Next]_vars
        => (TypeOK /\ TaskInv /\ EdgeInv)'
  BY FlagTypes, PortTypes, TaskTypes, EdgeStep DEF TypeOK, TaskInv
<1>3. EdgeInv => EdgeFollowsPin
  BY DEF EdgeInv
<1>. QED  BY <1>1, <1>2, <1>3, PTL DEF Spec

(* AlertTask enters its send only on edge = 1, and seeing edge = 1 again   *)
(* forgets the stale alert.                                                *)
StaleInv ==
  /\ OneStaleAlert
  /\ edge = 1 => staleAlerts = 0
  /\ pc["alert"] \in {"test", "clear", "send"} \cup InKernel => staleAlerts = 0

(* AlertTask must test edge again before a second alert.                   *)
LEMMA StaleStep == StaleInv /\ TypeOK /\ TaskInv /\ [Next]_vars => StaleInv'
<1>. SUFFICES ASSUME StaleInv, TypeOK, TaskInv, [Next]_vars PROVE StaleInv'
  OBVIOUS
<1>1. CASE AlertTask
  <2>1. CASE AlertSend
    <3>1. staleAlerts = 0 /\ edge' = edge
      BY <2>1 DEF AlertSend, Calling, StaleInv, InKernel, gpioVars
    <3>2. CASE Len(loggerQueue) < QueueLength
      <4>1. pc'["alert"] = "poll"
        BY <2>1, <3>2, QueueLengthAssumption
        DEF AlertSend, xQueueSend, Goto, TaskInv, TaskTypeOK, Senders
      <4>. QED  BY <2>1, <3>1, <4>1
                DEF AlertSend, StaleInv, OneStaleAlert, InKernel
    <3>3. CASE ~(Len(loggerQueue) < QueueLength)
      <4>1. loggerQueue' = loggerQueue
        BY <2>1, <3>3 DEF AlertSend, xQueueSend
      <4>. QED  BY <2>1, <3>1, <4>1
                DEF AlertSend, StaleInv, OneStaleAlert, InKernel
    <3>. QED  BY <3>2, <3>3
  <2>2. CASE AlertBoot \/ AlertStart \/ AlertPoll \/ AlertTest \/ AlertClear
    BY <2>2 DEF AlertBoot, AlertStart, AlertPoll, AlertTest, AlertClear, At,
       Goto, gpioVars, histVars, StaleInv, OneStaleAlert, InKernel, TaskInv,
       TaskTypeOK, Senders
  <2>. QED  BY <1>1, <2>1, <2>2 DEF AlertTask
<1>2. CASE PortERead
  BY <1>2, OtherTasks
  DEF PortERead, PortEHandler, StaleInv, OneStaleAlert, InKernel
<1>3. ASSUME UNCHANGED <<edge, staleAlerts>>,
             \/ LEDTask \/ LoggerTask \/ TemperatureTask \/ TimerService
             \/ PortEHandler \/ PinChange \/ UNCHANGED vars
             \/ \E t \in Tasks : Timeout(t)
      PROVE  StaleInv'
  BY <1>3, OtherTasks DEF StaleInv, OneStaleAlert, InKernel
<1>4. CASE LEDTask \/ LoggerTask \/ TimerService \/ UNCHANGED vars
            \/ (\E t \in Tasks : Timeout(t)) \/ PinChange
            \/ PortEEnter \/ PortEClear
  <2>1. UNCHANGED <<edge, staleAlerts>>
    BY <1>4 DEF LEDTask, LEDBoot, LEDPoll, LEDClear, LEDSend, LEDInc,
       LoggerTask, LoggerBoot, LoggerReceive, LoggerPrint, TimerService,
       Timer1Callback, Timer2Callback, Timer3Callback, Timeout, vars,
       PinChange, PortEEnter, PortEClear, gpioVars, histVars
  <2>. QED  BY <1>3, <1>4, <2>1 DEF PortEHandler
<1>5. CASE TemperatureTask
  <2>1. UNCHANGED <<edge, staleAlerts>>
    BY <1>5 DEF TemperatureTask, TemperatureBoot, TemperatureConfig,
       TemperaturePoll, TemperatureClear, TemperatureRead, TemperatureSend,
       gpioVars, histVars
  <2>. QED  BY <1>3, <1>5, <2>1
<1>. QED  BY <1>1, <1>2, <1>4, <1>5 DEF Next, PortEHandler

(* At most one alert goes out after the handler has seen the pin high.     *)
THEOREM AtMostOneStaleAlert == Spec => []OneStaleAlert
<1>1. Init => TypeOK /\ TaskInv /\ StaleInv
  <2>1. Init => StaleInv
    BY DEF Init, StaleInv, OneStaleAlert
  <2>. QED  BY <2>1, InitTypes
<1>2. (TypeOK /\ TaskInv /\ StaleInv) /\ [Next]_vars
        => (TypeOK /\ TaskInv /\ StaleInv)'
  BY FlagTypes, PortTypes, TaskTypes, StaleStep DEF TypeOK, TaskInv
<1>3. StaleInv => OneStaleAlert
  BY DEF StaleInv
<1>. QED  BY <1>1, <1>2, <1>3, PTL DEF Spec

(* No expiry of timer2 is lost.                                            *)
THEOREM ExpiriesAreServed == Spec => []NoExpiryLost
<1>1. Init => TaskInv /\ NoExpiryLost
  <2>1. Init => NoExpiryLost
    BY DEF Init, NoExpiryLost
  <2>. QED  BY <2>1, InitTypes
<1>2. NoExpiryLost /\ TaskInv /\ [Next]_vars => NoExpiryLost'
  <2>. SUFFICES ASSUME NoExpiryLost, TaskInv, [Next]_vars PROVE NoExpiryLost'
    OBVIOUS
  <2>1. CASE TemperatureTask
    BY <2>1 DEF TemperatureTask, TemperatureBoot, TemperatureConfig,
       TemperaturePoll, TemperatureClear, TemperatureRead, TemperatureSend, At,
       Calling, xQueueSend, Goto, flagVars, histVars, NoExpiryLost, TaskInv,
       TaskTypeOK, Senders
  <2>2. CASE Timer2Callback
    BY <2>2 DEF Timer2Callback, NoExpiryLost
  <2>3. ASSUME UNCHANGED <<measureTemperature, unserved>>,
               \/ LEDTask \/ LoggerTask \/ AlertTask \/ TimerService
               \/ PortEHandler \/ PinChange \/ UNCHANGED vars
               \/ \E t \in Tasks : Timeout(t)
        PROVE  NoExpiryLost'
    BY <2>3, OtherTasks DEF NoExpiryLost, InKernel
  <2>4. CASE LEDTask \/ LoggerTask \/ UNCHANGED vars \/ PinChange
             \/ (\E t \in Tasks : Timeout(t)) \/ PortEHandler
             \/ Timer1Callback \/ Timer3Callback
    <3>1. UNCHANGED <<measureTemperature, unserved>>
      BY <2>4 DEF LEDTask, LEDBoot, LEDPoll, LEDClear, LEDSend, LEDInc,
         LoggerTask, LoggerBoot, LoggerReceive, LoggerPrint, Timer1Callback,
         Timer3Callback, Timeout, vars, PinChange, PortEHandler, PortEEnter,
         PortEClear, PortERead, flagVars, histVars
    <3>. QED  BY <2>3, <2>4, <3>1 DEF TimerService
  <2>5. CASE AlertTask
    <3>1. UNCHANGED <<measureTemperature, unserved>>
      BY <2>5 DEF AlertTask, AlertBoot, AlertStart, AlertPoll, AlertTest,
         AlertClear, AlertSend, flagVars, histVars
    <3>. QED  BY <2>3, <2>5, <3>1
  <2>. QED  BY <2>1, <2>2, <2>4, <2>5 DEF Next, TimerService
<1>. QED  BY <1>1, <1>2, TaskTypes, PTL DEF Spec

-----------------------------------------------------------------------------
(* Toggle counts come out in order.                                        *)

(* One more than the last count LEDTask has tried to send.                 *)
Top == count + (IF pc["gpio"] = "inc" THEN 1 ELSE 0)

FromGpio(m) == m.source = "gpio"

(* What was received lies below what is queued, and that below Top; the    *)
(* queued counts rise from the head to the back.                           *)
OrderInv ==
  /\ received <= Top
  /\ \A k \in 1..Len(loggerQueue) : FromGpio(loggerQueue[k]) =>
       received <= loggerQueue[k].toggleCount /\ loggerQueue[k].toggleCount < Top
  /\ \A k \in 1..Len(loggerQueue) : \A j \in 1..(k - 1) :
       FromGpio(loggerQueue[j]) /\ FromGpio(loggerQueue[k]) =>
         loggerQueue[j].toggleCount < loggerQueue[k].toggleCount

LEMMA OrderImplies == TaskInv /\ OrderInv => ToggleCountsInOrder
<1>. SUFFICES ASSUME TaskInv, OrderInv PROVE ToggleCountsInOrder  OBVIOUS
<1>1. DOMAIN GpioCounts = 1..Len(loggerQueue)
  BY DEF GpioCounts
<1>2. ASSUME NEW k \in 1..Len(loggerQueue), NEW c \in GpioCounts[k]
      PROVE  FromGpio(loggerQueue[k]) /\ c = loggerQueue[k].toggleCount
  BY <1>2 DEF GpioCounts, FromGpio
<1>. SUFFICES ASSUME NEW k \in 1..Len(loggerQueue), NEW c \in GpioCounts[k]
              PROVE  /\ received <= c /\ c < Top
                     /\ \A j \in 1..(k - 1) : \A d \in GpioCounts[j] : d < c
  BY <1>1 DEF ToggleCountsInOrder, Top
<1>3. received <= c /\ c < Top
  BY <1>2 DEF OrderInv
<1>4. ASSUME NEW j \in 1..(k - 1), NEW d \in GpioCounts[j] PROVE d < c
  <2>1. j \in 1..Len(loggerQueue)
    BY DEF TaskInv, TaskTypeOK
  <2>. QED  BY <1>2, <2>1 DEF OrderInv
<1>. QED  BY <1>3, <1>4

(* A step that neither sends nor receives, and does not take LEDTask past  *)
(* its count.                                                              *)
LEMMA OrderQuiet ==
  ASSUME OrderInv, UNCHANGED <<loggerQueue, received>>, Top' = Top
  PROVE  OrderInv'
  BY DEF OrderInv

(* A send by t: messages of others do not matter, LEDTask's has the        *)
(* greatest count so far.                                                  *)
LEMMA OrderSend ==
  ASSUME TaskInv, OrderInv, NEW t \in Senders, NEW msg \in Message,
         NEW next \in {"inc", "poll"}, xQueueSend(t, msg, next),
         msg.source = t, UNCHANGED <<count, received>>,
         pc[t] \in {"send", "wake", "expired"},
         t = "gpio" <=> next = "inc",
         t = "gpio" => msg.toggleCount = count
  PROVE  OrderInv'
<1>1. count \in Nat /\ received \in Nat
  BY MaxCountAssumption DEF TaskInv, TaskTypeOK
<1>2. /\ pc'[t] \in {next, "wait"}
      /\ \A s \in Senders \ {t} : pc'[s] = pc[s]
  BY SendTypes DEF TaskInv
<1>3. /\ Top' = count + (IF t = "gpio" /\ pc'[t] = "inc" THEN 1
                         ELSE IF pc["gpio"] = "inc" THEN 1 ELSE 0)
      /\ Top \in Nat /\ Top' \in Nat /\ Top <= Top'
  BY <1>1, <1>2 DEF Top, Senders
<1>4. CASE Len(loggerQueue) < QueueLength
  <2>1. /\ loggerQueue' = Append(loggerQueue, msg)
        /\ Len(loggerQueue') = Len(loggerQueue) + 1
        /\ pc' = [pc EXCEPT ![t] = next, !["logger"] =
                    IF pc["logger"] = "wait" THEN "wake" ELSE pc["logger"]]
    BY <1>4, SendSucceeds DEF TaskInv
  <2>2. pc'[t] = next
    BY <2>1 DEF TaskInv, TaskTypeOK, Senders
  <2>3. FromGpio(msg) => msg.toggleCount = count /\ Top = count /\ Top' = count + 1
    BY <1>1, <1>3, <2>2 DEF FromGpio, Top
  <2>4. /\ loggerQueue \in Seq(Message) /\ Len(loggerQueue) \in Nat
        /\ \A k \in 1..Len(loggerQueue) :
             loggerQueue'[k] = loggerQueue[k] /\ loggerQueue[k] \in Message
        /\ loggerQueue'[Len(loggerQueue) + 1] = msg
    BY <2>1 DEF TaskInv, TaskTypeOK
  <2>5. \A k \in 1..Len(loggerQueue) : loggerQueue[k].toggleCount \in Nat
    BY <2>4, MaxCountAssumption DEF Message
  <2>6. ASSUME NEW k \in 1..Len(loggerQueue'), FromGpio(loggerQueue'[k])
        PROVE  received <= loggerQueue'[k].toggleCount /\ loggerQueue'[k].toggleCount < Top'
    <3>1. CASE k \in 1..Len(loggerQueue)
      BY <1>1, <1>3, <2>4, <2>5, <2>6, <3>1 DEF OrderInv
    <3>2. CASE k = Len(loggerQueue) + 1
      BY <1>1, <2>3, <2>4, <2>6, <3>2 DEF OrderInv
    <3>. QED  BY <2>1, <2>4, <3>1, <3>2
  <2>7. ASSUME NEW k \in 1..Len(loggerQueue'), NEW j \in 1..(k - 1),
               FromGpio(loggerQueue'[j]), FromGpio(loggerQueue'[k])
        PROVE  loggerQueue'[j].toggleCount < loggerQueue'[k].toggleCount
    <3>1. j \in 1..Len(loggerQueue)
      BY <2>1, <2>4
    <3>2. CASE k \in 1..Len(loggerQueue)
      BY <2>4, <2>7, <3>1, <3>2 DEF OrderInv
    <3>3. CASE k = Len(loggerQueue) + 1
      BY <2>3, <2>4, <2>7, <3>1, <3>3 DEF OrderInv
    <3>. QED  BY <2>1, <2>4, <3>2, <3>3
  <2>8. received' <= Top'
    BY <1>1, <1>3 DEF OrderInv
  <2>. QED  BY <2>6, <2>7, <2>8 DEF OrderInv
<1>5. CASE ~(Len(loggerQueue) < QueueLength)
  <2>1. loggerQueue' = loggerQueue
    BY <1>5 DEF xQueueSend
  <2>2. \A k \in 1..Len(loggerQueue) : loggerQueue[k] \in Message
    BY DEF TaskInv, TaskTypeOK
  <2>3. \A k \in 1..Len(loggerQueue) : loggerQueue[k].toggleCount \in Nat
    BY <2>2, MaxCountAssumption DEF Message
  <2>. QED  BY <1>1, <1>3, <2>1, <2>3 DEF OrderInv
<1>. QED  BY <1>4, <1>5

(* A receive takes the least of the queued counts.                         *)
LEMMA OrderReceive ==
  ASSUME TaskInv, OrderInv, Receive, UNCHANGED count
  PROVE  OrderInv'
<1>1. CASE loggerQueue = <<>>
  <2>1. /\ UNCHANGED <<loggerQueue, received>>
        /\ \E l \in {"recv", "wait"} : Goto("logger", l)
    BY <1>1 DEF Receive
  <2>2. Top' = Top
    BY <2>1, GotoLoggerTypes DEF TaskInv, LoggerPC, Senders, Top
  <2>. QED  BY <2>1, <2>2, OrderQuiet
<1>2. CASE loggerQueue # <<>>
  <2>1. /\ loggerQueue' = Tail(loggerQueue)
        /\ received' = IF FromGpio(loggerQueue[1])
                       THEN loggerQueue[1].toggleCount + 1 ELSE received
        /\ \/ Goto("logger", "print")
           \/ \E s \in Waiting :
                pc' = [pc EXCEPT !["logger"] = "print", ![s] = "wake"]
    BY <1>2 DEF Receive, FromGpio, TaskInv, TaskTypeOK
  <2>2. Top' = Top
    <3>1. CASE Goto("logger", "print")
      BY <3>1, GotoLoggerTypes DEF TaskInv, LoggerPC, Senders, Top
    <3>2. ASSUME NEW s \in Waiting,
                 pc' = [pc EXCEPT !["logger"] = "print", ![s] = "wake"]
          PROVE  Top' = Top
      <4>1. s \in Senders /\ pc[s] = "wait"
        BY DEF Waiting, Blocked
      <4>2. (pc'["gpio"] = "inc") <=> (pc["gpio"] = "inc")
        BY <3>2, <4>1 DEF TaskInv, TaskTypeOK, Senders
      <4>. QED  BY <4>2 DEF Top
    <3>. QED  BY <2>1, <3>1, <3>2
  <2>3. /\ loggerQueue \in Seq(Message) /\ Len(loggerQueue) \in Nat \ {0}
        /\ Len(loggerQueue') = Len(loggerQueue) - 1
        /\ \A k \in 1..Len(loggerQueue') : loggerQueue'[k] = loggerQueue[k + 1]
        /\ \A k \in 1..Len(loggerQueue) : loggerQueue[k].toggleCount \in Nat
    <3>1. loggerQueue \in Seq(Message)
      BY DEF TaskInv, TaskTypeOK
    <3>2. \A k \in 1..Len(loggerQueue) : loggerQueue[k] \in Message
      BY <3>1
    <3>3. \A k \in 1..Len(loggerQueue) : loggerQueue[k].toggleCount \in Nat
      BY <3>2, MaxCountAssumption DEF Message
    <3>. QED  BY <1>2, <2>1, <3>1, <3>3
  <2>4. received \in Nat /\ Top \in Nat /\ received' \in Nat
    BY <2>1, <2>3, MaxCountAssumption DEF TaskInv, TaskTypeOK, Top
  <2>5. received' <= Top
    BY <2>1, <2>3, <2>4 DEF OrderInv
  <2>6. ASSUME NEW k \in 1..Len(loggerQueue'), FromGpio(loggerQueue'[k])
        PROVE  received' <= loggerQueue'[k].toggleCount /\ loggerQueue'[k].toggleCount < Top
    <3>1. k + 1 \in 1..Len(loggerQueue) /\ 1 \in 1..k /\ 1 \in 1..Len(loggerQueue)
      BY <2>3
    <3>2. FromGpio(loggerQueue[k + 1]) /\ loggerQueue'[k] = loggerQueue[k + 1]
      BY <2>3, <2>6
    <3>3. received <= loggerQueue[k + 1].toggleCount /\ loggerQueue[k + 1].toggleCount < Top
      BY <3>1, <3>2 DEF OrderInv
    <3>4. FromGpio(loggerQueue[1]) =>
            loggerQueue[1].toggleCount < loggerQueue[k + 1].toggleCount
      BY <3>1, <3>2 DEF OrderInv
    <3>. QED  BY <2>1, <2>3, <2>4, <3>1, <3>2, <3>3, <3>4
  <2>7. ASSUME NEW k \in 1..Len(loggerQueue'), NEW j \in 1..(k - 1),
               FromGpio(loggerQueue'[j]), FromGpio(loggerQueue'[k])
        PROVE  loggerQueue'[j].toggleCount < loggerQueue'[k].toggleCount
    <3>1. /\ k + 1 \in 1..Len(loggerQueue) /\ j + 1 \in 1..((k + 1) - 1)
          /\ j \in 1..Len(loggerQueue')
      BY <2>3
    <3>. QED  BY <2>3, <2>7, <3>1 DEF OrderInv
  <2>. QED  BY <2>2, <2>5, <2>6, <2>7 DEF OrderInv
<1>. QED  BY <1>1, <1>2

LEMMA OrderStep == OrderInv /\ TaskInv /\ [Next]_vars => OrderInv'
<1>. SUFFICES ASSUME OrderInv, TaskInv, [Next]_vars PROVE OrderInv'
  OBVIOUS
<1>. USE DEF At, Calling
<1>1. CASE LEDTask
  <2>1. CASE LEDBoot \/ LEDPoll \/ LEDClear \/ LEDInc
    <3>1. UNCHANGED <<loggerQueue, received>> /\ count \in Nat
      BY <2>1, MaxCountAssumption
      DEF LEDBoot, LEDPoll, LEDClear, LEDInc, TaskInv, TaskTypeOK
    <3>2. Top' = Top
      BY <2>1, <3>1, GotoTypes
      DEF LEDBoot, LEDPoll, LEDClear, LEDInc, Top, TaskInv, Senders, SenderPC
    <3>. QED  BY <3>1, <3>2, OrderQuiet
  <2>2. CASE LEDSend
    <3>1. [source |-> "gpio", toggleCount |-> count] \in Message
      BY DEF TaskInv, TaskTypeOK, Message, Senders
    <3>. QED  BY <2>2, <3>1, OrderSend DEF LEDSend, Senders
  <2>. QED  BY <1>1, <2>1, <2>2 DEF LEDTask
<1>2. CASE TemperatureTask
  <2>1. CASE TemperatureSend
    BY <2>1, OrderSend, OtherMessage DEF TemperatureSend, Senders
  <2>2. CASE TemperatureBoot \/ TemperatureConfig \/ TemperaturePoll
               \/ TemperatureClear \/ TemperatureRead
    BY <2>2, OrderQuiet, GotoTypes
    DEF TemperatureBoot, TemperatureConfig, SenderPC, TemperaturePoll,
        TemperatureClear, TemperatureRead, Senders, Top, TaskInv
  <2>. QED  BY <1>2, <2>1, <2>2 DEF TemperatureTask
<1>3. CASE AlertTask
  <2>1. CASE AlertSend
    BY <2>1, OrderSend, OtherMessage DEF AlertSend, Senders
  <2>2. CASE AlertBoot \/ AlertStart \/ AlertPoll \/ AlertTest \/ AlertClear
    BY <2>2, OrderQuiet, GotoTypes
    DEF AlertBoot, AlertStart, AlertPoll, AlertTest, AlertClear, Senders,
        SenderPC, Top, TaskInv
  <2>. QED  BY <1>3, <2>1, <2>2 DEF AlertTask
<1>4. CASE LoggerTask
  <2>1. CASE LoggerReceive
    BY <2>1, OrderReceive DEF LoggerReceive
  <2>2. CASE LoggerBoot \/ LoggerPrint
    BY <2>2, OrderQuiet, GotoLoggerTypes
    DEF LoggerBoot, LoggerPrint, TaskInv, LoggerPC, Senders, Top
  <2>. QED  BY <1>4, <2>1, <2>2 DEF LoggerTask
<1>5. ASSUME UNCHANGED appVars PROVE OrderInv'
  BY <1>5, OrderQuiet DEF appVars, Top
<1>6. CASE TimerService \/ PortEHandler \/ PinChange \/ UNCHANGED vars
  BY <1>5, <1>6 DEF TimerService, Timer1Callback, Timer2Callback,
     Timer3Callback, PortEHandler, PortEEnter, PortEClear, PortERead,
     PinChange, vars
<1>7. ASSUME NEW t \in Tasks, Timeout(t) PROVE OrderInv'
  <2>1. /\ pc[t] \in {"wait", "wake"} /\ pc' = [pc EXCEPT ![t] = "expired"]
        /\ UNCHANGED <<loggerQueue, count, received>>
    BY <1>7 DEF Timeout, Goto
  <2>2. (pc'["gpio"] = "inc") <=> (pc["gpio"] = "inc")
    BY <2>1 DEF TaskInv, TaskTypeOK, Senders
  <2>. QED  BY <2>1, <2>2, OrderQuiet DEF Top
<1>. QED  BY <1>1, <1>2, <1>3, <1>4, <1>6, <1>7 DEF Next

(* LoggerTask takes LEDTask's messages in the order of their counts, none  *)
(* twice, whoever else sends and whichever sends time out.                 *)
THEOREM TogglesInOrder == Spec => []ToggleCountsInOrder
<1>1. Init => TaskInv /\ OrderInv
  <2>1. Init => OrderInv
    BY DEF Init, OrderInv, Top, Senders
  <2>. QED  BY <2>1, InitTypes
<1>2. (TaskInv /\ OrderInv) /\ [Next]_vars => (TaskInv /\ OrderInv)'
  BY TaskTypes, OrderStep
<1>. QED  BY <1>1, <1>2, OrderImplies, PTL DEF Spec
=============================================================================
