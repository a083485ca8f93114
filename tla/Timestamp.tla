------------------------------ MODULE Timestamp ------------------------------
(***************************************************************************)
(* How the HW5 tasks stamp their messages.  LEDTask calls timestamp() once *)
(* and copies both fields; TemperatureTask and AlertTask call it once for  *)
(* the seconds and once for the milliseconds, and the tick may advance in  *)
(* between, while the task is preempted.                                   *)
(*                                                                         *)
(* TickType_t is 32 bits wide and both factors of TicksToMS are 1000; the  *)
(* constants scale these numbers down for TLC.                             *)
(***************************************************************************)
EXTENDS Naturals

CONSTANTS TickWord,  \* 2^32, one more than the largest TickType_t
          MsPerSec,  \* the literal 1000 of TicksToMS and timestamp
          TickRate,  \* configTICK_RATE_HZ
          OneCall,   \* the tasks that call timestamp() once: gpio
          TwoCalls,  \* those that call it twice: temperature, alert
          MaxTick    \* bound on the ticks the model explores

ASSUME ClockAssumption ==
  /\ TickWord \in Nat \ {0} /\ MsPerSec \in Nat \ {0} /\ TickRate \in Nat \ {0}
  /\ MaxTick \in Nat /\ MaxTick < TickWord
  /\ OneCall \cap TwoCalls = {}

Senders == OneCall \cup TwoCalls

VARIABLES now,      \* xTaskGetTickCount()
          stamping, \* where each task is in filling in its logStruct
          stamp,    \* logStruct.timeStampsec and .timeStampmsec of each task
          began,    \* history: the tick at which the stamp was begun
          ended,    \* history: the tick at which it was complete
          sent      \* history: the stamp of the message sent before

stampVars == <<now, stamping, stamp, began, ended, sent>>

(* In 32-bit arithmetic.                                                   *)
TicksToMS(ticks) == ((ticks * MsPerSec) % TickWord) \div TickRate

(* A variant with a mistake, to see that the properties notice it.         *)
timestampRoundsUp(ticks) ==
  [sec  |-> (TicksToMS(ticks) + MsPerSec - 1) \div MsPerSec,
   msec |-> TicksToMS(ticks) % MsPerSec]

timestamp(ticks) ==
  LET time_in_ms == TicksToMS(ticks)
  IN  [sec  |-> time_in_ms \div MsPerSec,
       msec |-> time_in_ms - (time_in_ms \div MsPerSec) * MsPerSec]

(* The time a stamp shows, in milliseconds.                                *)
Shows(s) == s.sec * MsPerSec + s.msec

(* Ticks up to here are converted without overflow.                        *)
Fits(ticks) == ticks * MsPerSec < TickWord

Stamp == [sec : Nat, msec : 0..(MsPerSec - 1)]

StampTypeOK ==
  /\ now \in 0..MaxTick
  /\ stamping \in [Senders -> {"poll", "msec", "send"}]
  /\ stamp \in [Senders -> Stamp]
  /\ began \in [Senders -> 0..MaxTick]
  /\ ended \in [Senders -> 0..MaxTick]
  /\ sent \in [Senders -> Stamp]

StampInit ==
  /\ now = 0
  /\ stamping = [s \in Senders |-> "poll"]
  /\ stamp = [s \in Senders |-> [sec |-> 0, msec |-> 0]]
  /\ began = [s \in Senders |-> 0]
  /\ ended = [s \in Senders |-> 0]
  /\ sent = [s \in Senders |-> [sec |-> 0, msec |-> 0]]

Tick ==
  /\ now < MaxTick
  /\ now' = now + 1
  /\ UNCHANGED <<stamping, stamp, began, ended, sent>>

(* time = timestamp(); both fields are copied from time.                   *)
StampOnce(s) ==
  /\ s \in OneCall /\ stamping[s] = "poll"
  /\ stamp' = [stamp EXCEPT ![s] = timestamp(now)]
  /\ began' = [began EXCEPT ![s] = now]
  /\ ended' = [ended EXCEPT ![s] = now]
  /\ stamping' = [stamping EXCEPT ![s] = "send"]
  /\ UNCHANGED <<now, sent>>

(* logStruct.timeStampsec = timestamp().sec                                *)
StampSec(s) ==
  /\ s \in TwoCalls /\ stamping[s] = "poll"
  /\ stamp' = [stamp EXCEPT ![s].sec = timestamp(now).sec]
  /\ began' = [began EXCEPT ![s] = now]
  /\ stamping' = [stamping EXCEPT ![s] = "msec"]
  /\ UNCHANGED <<now, ended, sent>>

(* logStruct.timeStampmsec = timestamp().msec                              *)
StampMsec(s) ==
  /\ s \in TwoCalls /\ stamping[s] = "msec"
  /\ stamp' = [stamp EXCEPT ![s].msec = timestamp(now).msec]
  /\ ended' = [ended EXCEPT ![s] = now]
  /\ stamping' = [stamping EXCEPT ![s] = "send"]
  /\ UNCHANGED <<now, began, sent>>

(* xQueueSend copies the structure.                                        *)
Send(s) ==
  /\ stamping[s] = "send"
  /\ sent' = [sent EXCEPT ![s] = stamp[s]]
  /\ stamping' = [stamping EXCEPT ![s] = "poll"]
  /\ UNCHANGED <<now, stamp, began, ended>>

StampNext ==
  \/ Tick
  \/ \E s \in Senders :
       StampOnce(s) \/ StampSec(s) \/ StampMsec(s) \/ Send(s)

StampSpec == StampInit /\ [][StampNext]_stampVars

-----------------------------------------------------------------------------
(* A stamp taken with two calls is never ahead of the clock, and while the *)
(* conversion does not overflow it is less than one second behind the      *)
(* tick at which the task began it.                                        *)
StampWithinASecond ==
  \A s \in Senders : stamping[s] = "send" /\ Fits(ended[s]) =>
    /\ Shows(stamp[s]) <= TicksToMS(ended[s])
    /\ TicksToMS(began[s]) < Shows(stamp[s]) + MsPerSec

(* timestamp() is to "return the time in seconds and milliseconds"         *)
(* (LEDTask.h): then no task's stamps go back while nothing overflows.     *)
StampsInOrder ==
  \A s \in Senders : stamping[s] = "send" /\ Fits(ended[s]) =>
    Shows(sent[s]) <= Shows(stamp[s])
=============================================================================
