------------------------------ MODULE LoggerApp ------------------------------
(***************************************************************************)
(* The FreeRTOS application of HW5: LEDTask, TemperatureTask and AlertTask *)
(* poll a flag that a software timer sets and send a logger_struct to      *)
(* loggerQueue; LoggerTask prints what it receives.  An interrupt handler  *)
(* on port E follows the ALERT pin of the temperature sensor.              *)
(*                                                                         *)
(* The four tasks have the same priority and the kernel is preemptive with *)
(* time slices, so their steps interleave at every access to shared state. *)
(* The timer service runs at priority 4 and the interrupt handler above    *)
(* it, so a timer callback is one step with respect to the tasks, and no   *)
(* task or callback runs while the handler is active.                      *)
(*                                                                         *)
(* Time is abstracted: a timer that was started may expire at any moment,  *)
(* and a blocked call may reach its timeout at any moment.  What holds     *)
(* here holds for every timer period and every timeout.  The time stamps   *)
(* are modelled in module Timestamp, the sensor registers in Tmp102.       *)
(***************************************************************************)
EXTENDS Naturals, Sequences, FiniteSets

(* The tasks that send are named by the logStruct.source they fill in.     *)
Senders == {"gpio", "temperature", "alert"}

CONSTANTS QueueLength,  \* xQueueCreate(10, ...)
          Created,      \* the senders whose xTaskCreate succeeded: main does
                        \* not look at its result
          MaxCount      \* bound on the toggle counts the model explores

ASSUME QueueLengthAssumption == QueueLength \in Nat \ {0}
ASSUME CreatedAssumption == Created \subseteq Senders /\ Created # {}
ASSUME MaxCountAssumption == MaxCount \in Nat

Tasks == Created \cup {"logger"}

Message == [source : Senders, toggleCount : 0..MaxCount]

VARIABLES
  loggerQueue,         \* the messages in the queue, oldest first
  pc,                  \* where each task is
  send_message, measureTemperature, sendAlert,  \* the polled flags
  count,               \* the local of LEDTask
  edge,                \* 0 until the first interrupt, 1 low, 2 high
  pin, pending,        \* the ALERT pin and the port's interrupt flag
  isr,                 \* progress of PortEHandler
  received,            \* history: 1 + the last toggle count LoggerTask took
  unserved,            \* history: an expiry of timer2 has not been answered by
                       \* a reading that started after it
  staleAlerts          \* history: alerts sent since the handler last stored
                       \* something else than 1 into edge

appVars == <<loggerQueue, pc, count, received>>
flagVars == <<send_message, measureTemperature, sendAlert>>
gpioVars == <<edge, pin, pending, isr>>
histVars == <<unserved, staleAlerts>>
vars == <<appVars, flagVars, gpioVars, histVars>>

(* Program counters.  "wait" is blocked in the kernel; "wake" is ready     *)
(* again after an event and "expired" after the end of the block time,     *)
(* both still inside the same xQueueSend or xQueueReceive.                 *)
SenderPC == {"none", "boot", "start", "poll", "test", "take", "clear",
             "send", "wait", "wake", "expired", "inc"}
LoggerPC == {"boot", "recv", "wait", "wake", "expired", "print"}

Blocked == {t \in Senders \cup {"logger"} : pc[t] = "wait"}
Waiting == Blocked \cap Senders
Woken == {t \in Senders : pc[t] \in {"wake", "expired"}}

TaskTypeOK ==
  /\ loggerQueue \in Seq(Message)
  /\ Len(loggerQueue) <= QueueLength
  /\ pc \in [Senders \cup {"logger"} -> SenderPC \cup LoggerPC]
  /\ \A s \in Senders : pc[s] \in SenderPC
  /\ pc["logger"] \in LoggerPC
  /\ count \in 0..MaxCount
  /\ received \in 0..(MaxCount + 1)

FlagTypeOK ==
  /\ send_message \in BOOLEAN
  /\ measureTemperature \in BOOLEAN
  /\ sendAlert \in BOOLEAN
  /\ pending \in BOOLEAN
  /\ unserved \in BOOLEAN

PortTypeOK ==
  /\ edge \in 0..2
  /\ pin \in 0..1
  /\ isr \in {"idle", "entered", "cleared"}
  /\ staleAlerts \in Nat

TypeOK == TaskTypeOK /\ FlagTypeOK /\ PortTypeOK

(* main: the queue and the four tasks exist, the scheduler has started.    *)
Init ==
  /\ loggerQueue = <<>>
  /\ pc = [t \in Senders \cup {"logger"} |->
           IF t \in Tasks THEN "boot" ELSE "none"]
  /\ send_message = FALSE
  /\ measureTemperature = FALSE
  /\ sendAlert = FALSE
  /\ count = 0
  /\ edge = 0
  /\ pin \in 0..1          \* the sensor is not reset with the board
  /\ pending = FALSE
  /\ isr = "idle"
  /\ received = 0
  /\ unserved = FALSE
  /\ staleAlerts = 0

Goto(t, label) == pc' = [pc EXCEPT ![t] = label]

(* A task or the timer service runs only while no interrupt is active.     *)
At(t, label) == isr = "idle" /\ pc[t] = label
Calling(t, label) == isr = "idle" /\ pc[t] \in {label, "wake", "expired"}

-----------------------------------------------------------------------------
(* The kernel's queue, from how the tasks use it.                          *)

(* xQueueSend by task t.  With room, msg is copied to the back and a       *)
(* blocked receiver becomes ready.  Without room the task blocks, or, once *)
(* its block time is over, gets errQUEUE_FULL.  The task goes on at label  *)
(* `next` in both cases where the call returns.                            *)
xQueueSend(t, msg, next) ==
  \/ /\ Len(loggerQueue) < QueueLength
     /\ loggerQueue' = Append(loggerQueue, msg)
     /\ pc' = [pc EXCEPT ![t] = next,
                         !["logger"] = IF @ = "wait" THEN "wake" ELSE @]
  \/ /\ Len(loggerQueue) = QueueLength
     /\ Goto(t, IF pc[t] = "expired" THEN next ELSE "wait")
     /\ UNCHANGED loggerQueue

(* xQueueReceive by LoggerTask.  Taking a message makes one blocked sender *)
(* ready; an empty queue blocks the task, or ends the call after 10000     *)
(* ticks, and the loop calls it again.                                     *)
Receive ==
  \/ /\ loggerQueue # <<>>
     /\ loggerQueue' = Tail(loggerQueue)
     /\ \/ Waiting = {} /\ Goto("logger", "print")
        \/ \E s \in Waiting :
             pc' = [pc EXCEPT !["logger"] = "print", ![s] = "wake"]
     /\ received' = IF Head(loggerQueue).source = "gpio"
                   THEN Head(loggerQueue).toggleCount + 1 ELSE received
  \/ /\ loggerQueue = <<>>
     /\ Goto("logger", IF pc["logger"] = "expired" THEN "recv" ELSE "wait")
     /\ UNCHANGED <<loggerQueue, received>>

(* The block time of the call task t is in is over.                        *)
Timeout(t) ==
  /\ At(t, "wait") \/ At(t, "wake")
  /\ Goto(t, "expired")
  /\ UNCHANGED <<loggerQueue, count, received, flagVars, gpioVars, histVars>>

-----------------------------------------------------------------------------
(* LEDTask                                                                 *)

LEDBoot ==
  /\ At("gpio", "boot")
  /\ Goto("gpio", "poll")
  /\ UNCHANGED <<loggerQueue, count, received, flagVars, gpioVars, histVars>>

(* The test of the flag, timestamp() and the copies into logStruct.        *)
LEDPoll ==
  /\ At("gpio", "poll")
  /\ count < MaxCount
  /\ send_message
  /\ Goto("gpio", "clear")
  /\ UNCHANGED <<loggerQueue, count, received, flagVars, gpioVars, histVars>>

LEDClear ==
  /\ At("gpio", "clear")
  /\ send_message' = FALSE
  /\ Goto("gpio", "send")
  /\ UNCHANGED <<loggerQueue, count, received, measureTemperature, sendAlert,
                 gpioVars, histVars>>

(* Variants of some actions, here and below, that a mistake could have led *)
(* to; they only serve to see that the properties notice the mistake.      *)
LEDSendToFront ==
  /\ Calling("gpio", "send") /\ Len(loggerQueue) < QueueLength
  /\ loggerQueue' = <<[source |-> "gpio", toggleCount |-> count]>> \o loggerQueue
  /\ Goto("gpio", "inc")
  /\ UNCHANGED <<count, received, flagVars, gpioVars, histVars>>

LEDSend ==
  /\ Calling("gpio", "send")
  /\ xQueueSend("gpio", [source |-> "gpio", toggleCount |-> count], "inc")
  /\ UNCHANGED <<count, received, flagVars, gpioVars, histVars>>

(* The result of xQueueSend is not looked at: count++ in every case.       *)
LEDInc ==
  /\ At("gpio", "inc")
  /\ count' = count + 1
  /\ Goto("gpio", "poll")
  /\ UNCHANGED <<loggerQueue, received, flagVars, gpioVars, histVars>>

(* Started by LEDBoot.  The LEDs it toggles are outputs only.             *)
Timer1Callback ==
  /\ isr = "idle" /\ pc["gpio"] \notin {"none", "boot"}
  /\ send_message' = TRUE
  /\ UNCHANGED <<appVars, measureTemperature, sendAlert, gpioVars, histVars>>

-----------------------------------------------------------------------------
(* TemperatureTask                                                         *)

(* i2c_init, configure_i2c_master, and timer2 is started.                  *)
TemperatureBoot ==
  /\ At("temperature", "boot")
  /\ Goto("temperature", "start")
  /\ UNCHANGED <<loggerQueue, count, received, flagVars, gpioVars, histVars>>

(* The two i2c_write of the thresholds: timer2 is already running.         *)
TemperatureConfig ==
  /\ At("temperature", "start")
  /\ Goto("temperature", "poll")
  /\ UNCHANGED <<loggerQueue, count, received, flagVars, gpioVars, histVars>>

TemperaturePoll ==
  /\ At("temperature", "poll")
  /\ measureTemperature
  /\ Goto("temperature", "clear")
  /\ UNCHANGED <<loggerQueue, count, received, flagVars, gpioVars, histVars>>

TemperatureClear ==
  /\ At("temperature", "clear")
  /\ measureTemperature' = FALSE
  /\ Goto("temperature", "take")
  /\ UNCHANGED <<loggerQueue, count, received, send_message, sendAlert,
                 gpioVars, histVars>>

(* The reading, in a critical section, and the two timestamp() calls.      *)
TemperatureRead ==
  /\ At("temperature", "take")
  /\ unserved' = FALSE
  /\ Goto("temperature", "send")
  /\ UNCHANGED <<loggerQueue, count, received, flagVars, gpioVars, staleAlerts>>

TemperatureSendClearsLate ==
  /\ Calling("temperature", "send")
  /\ xQueueSend("temperature",
                [source |-> "temperature", toggleCount |-> 0], "poll")
  /\ measureTemperature' = FALSE
  /\ UNCHANGED <<count, received, send_message, sendAlert, gpioVars, histVars>>

TemperatureSend ==
  /\ Calling("temperature", "send")
  /\ xQueueSend("temperature",
                [source |-> "temperature", toggleCount |-> 0], "poll")
  /\ UNCHANGED <<count, received, flagVars, gpioVars, histVars>>

Timer2Callback ==
  /\ isr = "idle" /\ pc["temperature"] \notin {"none", "boot"}
  /\ measureTemperature' = TRUE
  /\ unserved' = TRUE
  /\ UNCHANGED <<appVars, send_message, sendAlert, gpioVars, staleAlerts>>

-----------------------------------------------------------------------------
(* AlertTask, the handler of port E and the pin                            *)

(* Port E is configured and GPIOIntEnable called.                          *)
AlertBoot ==
  /\ At("alert", "boot")
  /\ Goto("alert", "start")
  /\ UNCHANGED <<loggerQueue, count, received, flagVars, gpioVars, histVars>>

AlertStart ==
  /\ At("alert", "start")
  /\ Goto("alert", "poll")
  /\ UNCHANGED <<loggerQueue, count, received, flagVars, gpioVars, histVars>>

AlertPollIgnoresEdge ==
  /\ At("alert", "poll")
  /\ Goto("alert", "test")
  /\ UNCHANGED <<loggerQueue, count, received, flagVars, gpioVars, histVars>>

(* edge == 0x01 && sendAlert == true: two loads, in this order.            *)
AlertPoll ==
  /\ At("alert", "poll")
  /\ edge = 1
  /\ Goto("alert", "test")
  /\ UNCHANGED <<loggerQueue, count, received, flagVars, gpioVars, histVars>>

AlertTest ==
  /\ At("alert", "test")
  /\ Goto("alert", IF sendAlert THEN "clear" ELSE "poll")
  /\ UNCHANGED <<loggerQueue, count, received, flagVars, gpioVars, histVars>>

(* The flag is cleared before the two timestamp() calls.                   *)
AlertClear ==
  /\ At("alert", "clear")
  /\ sendAlert' = FALSE
  /\ Goto("alert", "send")
  /\ UNCHANGED <<loggerQueue, count, received, send_message, measureTemperature,
                 gpioVars, histVars>>

AlertSend ==
  /\ Calling("alert", "send")
  /\ xQueueSend("alert", [source |-> "alert", toggleCount |-> 0], "poll")
  /\ staleAlerts' = IF edge # 1 /\ loggerQueue' # loggerQueue
                    THEN staleAlerts + 1 ELSE staleAlerts
  /\ UNCHANGED <<count, received, flagVars, gpioVars, unserved>>

Timer3Callback ==
  /\ isr = "idle" /\ pc["alert"] \notin {"none", "boot", "start"}
  /\ sendAlert' = TRUE
  /\ UNCHANGED <<appVars, send_message, measureTemperature, gpioVars, histVars>>

(* The sensor moves its ALERT pin; with GPIO_BOTH_EDGES each change raises *)
(* the port's interrupt flag.                                              *)
IntEnabled == pc["alert"] \notin {"none", "boot"}
PinChange ==
  /\ pin' = 1 - pin
  /\ pending' = IntEnabled
  /\ UNCHANGED <<appVars, flagVars, edge, isr, histVars>>

PortEEnter ==
  /\ isr = "idle" /\ pending
  /\ isr' = "entered"
  /\ UNCHANGED <<appVars, flagVars, edge, pin, pending, histVars>>

(* GPIOIntClear                                                            *)
PortEClear ==
  /\ isr = "entered"
  /\ pending' = FALSE
  /\ isr' = "cleared"
  /\ UNCHANGED <<appVars, flagVars, edge, pin, histVars>>

(* GPIOPinRead and the assignment to edge; then the handler returns.       *)
PortERead ==
  /\ isr = "cleared"
  /\ edge' = IF pin = 0 THEN 1 ELSE 2
  /\ staleAlerts' = IF edge' = 1 THEN 0 ELSE staleAlerts
  /\ isr' = "idle"
  /\ UNCHANGED <<appVars, flagVars, pin, pending, unserved>>

-----------------------------------------------------------------------------
(* LoggerTask                                                              *)

LoggerBoot ==
  /\ At("logger", "boot")
  /\ Goto("logger", "recv")
  /\ UNCHANGED <<loggerQueue, count, received, flagVars, gpioVars, histVars>>

LoggerReceiveUntilTimeout ==
  /\ Calling("logger", "recv")
  /\ IF loggerQueue = <<>> /\ pc["logger"] = "expired"
     THEN Goto("logger", "ended") /\ UNCHANGED <<loggerQueue, received>>
     ELSE Receive
  /\ UNCHANGED <<count, flagVars, gpioVars, histVars>>

LoggerReceive ==
  /\ Calling("logger", "recv")
  /\ Receive
  /\ UNCHANGED <<count, flagVars, gpioVars, histVars>>

LoggerPrintThenDelay ==
  /\ At("logger", "print")
  /\ Goto("logger", "wait")
  /\ UNCHANGED <<loggerQueue, count, received, flagVars, gpioVars, histVars>>

LoggerPrint ==
  /\ At("logger", "print")
  /\ Goto("logger", "recv")
  /\ UNCHANGED <<loggerQueue, count, received, flagVars, gpioVars, histVars>>

-----------------------------------------------------------------------------
LEDTask == LEDBoot \/ LEDPoll \/ LEDClear \/ LEDSend \/ LEDInc

TemperatureTask ==
  TemperatureBoot \/ TemperatureConfig \/ TemperaturePoll \/ TemperatureClear
    \/ TemperatureRead \/ TemperatureSend

AlertTask ==
  AlertBoot \/ AlertStart \/ AlertPoll \/ AlertTest \/ AlertClear
    \/ AlertSend

LoggerTask == LoggerBoot \/ LoggerReceive \/ LoggerPrint

TimerService == Timer1Callback \/ Timer2Callback \/ Timer3Callback

PortEReadFirst ==
  /\ isr = "entered"
  /\ edge' = IF pin = 0 THEN 1 ELSE 2
  /\ isr' = "cleared"
  /\ UNCHANGED <<appVars, flagVars, pin, pending, histVars>>

PortEClearLast ==
  /\ isr = "cleared"
  /\ pending' = FALSE
  /\ isr' = "idle"
  /\ UNCHANGED <<appVars, flagVars, edge, pin, histVars>>

PortEHandlerReadsFirst == PortEEnter \/ PortEReadFirst \/ PortEClearLast

PortEHandler == PortEEnter \/ PortEClear \/ PortERead

Next ==
  \/ LEDTask
  \/ TemperatureTask
  \/ AlertTask
  \/ LoggerTask
  \/ TimerService
  \/ PortEHandler
  \/ PinChange
  \/ \E t \in Tasks : Timeout(t)

Spec == Init /\ [][Next]_vars

(* The tasks share the processor by time slices, the timer service         *)
(* preempts them, and the tick ends every bounded wait.  LoggerTask is     *)
(* strongly fair because interrupts, however often they come, disable it   *)
(* for a few instructions only.  The block time runs through all the waits *)
(* of one call, so its end is strongly fair.  The others are needed only   *)
(* while the pin is quiet.                                                 *)
FairSpec ==
  /\ Spec
  /\ SF_vars(LoggerTask) /\ SF_vars(Timeout("logger"))
  /\ WF_vars(AlertTask) /\ SF_vars(Timeout("alert"))
  /\ WF_vars(Timer3Callback)
  /\ WF_vars(PortEHandler)

-----------------------------------------------------------------------------
(* Some application task is always ready to run, so the kernel never runs  *)
(* its idle task.  That matters because vApplicationIdleHook (idle_task.c) *)
(* draws on the display through g_pDisplayQueue, which this main never     *)
(* creates.                                                                *)
NeverIdle == Blocked # Tasks

(* No wake-up is lost: while a sender is blocked, there is a ready sender  *)
(* inside xQueueSend for every free slot of the queue, and a blocked       *)
(* LoggerTask has nothing to receive.                                      *)
NoLostWakeup ==
  /\ Waiting # {} => QueueLength <= Len(loggerQueue) + Cardinality(Woken)
  /\ pc["logger"] = "wait" => loggerQueue = <<>>

(* Messages of LEDTask are taken in the order of their toggle counts, none *)
(* twice: a gap in the printed counts is a message that timed out.         *)
GpioCounts == [i \in 1..Len(loggerQueue) |->
                 IF loggerQueue[i].source = "gpio"
                 THEN {loggerQueue[i].toggleCount} ELSE {}]
ToggleCountsInOrder ==
  \A i \in DOMAIN GpioCounts : \A c \in GpioCounts[i] :
    /\ received <= c
    /\ c < count + (IF pc["gpio"] = "inc" THEN 1 ELSE 0)
    /\ \A j \in 1..(i - 1) : \A d \in GpioCounts[j] : d < c

(* TemperatureTask clears its flag before it takes the reading, so an      *)
(* expiry of timer2 is never lost: until a reading that starts after it,   *)
(* it is still flagged or the task is about to take that reading.          *)
NoExpiryLost ==
  unserved => measureTemperature \/ pc["temperature"] = "take"

(* PortEHandler clears the interrupt before it reads the pin: whenever the *)
(* handler is done and nothing is pending, edge agrees with the pin (after *)
(* the first interrupt).                                                   *)
EdgeFollowsPin ==
  isr = "idle" /\ ~pending /\ edge # 0 => (edge = 1 <=> pin = 0)

(* AlertTask may send on a test of edge that is stale, but only once:      *)
(* after the handler has seen the pin high at most one more alert goes out *)
(* until it sees the pin low again.                                        *)
OneStaleAlert == staleAlerts <= 1

(* alert.h: AlertTask "is notified by the interrupt when the temperature   *)
(* is above threshold".                                                    *)
NotifiedWhenLow ==
  isr = "idle" /\ ~pending /\ IntEnabled /\ pin = 0 => edge = 1

(* A full queue is eventually relieved by LoggerTask, whoever is blocked.  *)
QueueDrains ==
  (Len(loggerQueue) = QueueLength) ~> (Len(loggerQueue) < QueueLength)

(* While the pin stays low, and once an interrupt was taken, AlertTask     *)
(* keeps sending alerts.                                                   *)
AlertsKeepComing ==
  <>[](pin = 0) /\ <>(edge # 0) => []<>(pc["alert"] = "send")
=============================================================================
