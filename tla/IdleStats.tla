------------------------------ MODULE IdleStats ------------------------------
(***************************************************************************)
(* The idle hook of TI's demo: it draws the boxes of the statistics once,  *)
(* then each statistic that has changed since it was drawn.  It runs in    *)
(* the idle task, which must never block, and asks the display for more    *)
(* than its queue holds.                                                   *)
(***************************************************************************)
EXTENDS Display

CONSTANTS TaskCounts,     \* values of uxTaskGetNumberOfTasks() - 1
          AddressLengths, \* characters in an IP address, 0 when there is none
          PacketCounts,   \* values of the counters of lwip_stats
          MaxChanges      \* bound on the changes of the statistics

ASSUME StatsAssumption ==
  /\ TaskCounts \subseteq 1..99 /\ AddressLengths \subseteq {0} \cup 7..15
  /\ PacketCounts \subseteq Nat /\ MaxChanges \in Nat
  /\ TaskCounts # {} /\ AddressLengths # {} /\ PacketCounts # {}

VARIABLES hook,      \* where vApplicationIdleHook is
          stat,      \* the statistics as they are
          drawn,     \* as the hook last drew them: g_ui32Seconds, g_ui32PreviousTasks, ...
          changes

statsVars == <<displayVars, hook, stat, drawn, changes>>

Unset == -1
AtFirst == <<"first", 0>>
Stats == <<"time", "tasks", "ip", "tx", "rx">>

Values == [time |-> {0, 1}, tasks |-> TaskCounts, ip |-> AddressLengths, tx |-> PacketCounts, rx |-> {0}]

StatsInit ==
  /\ DisplayInit /\ hook = AtFirst /\ changes = 0
  /\ stat = [s \in DOMAIN Values |-> CHOOSE v \in Values[s] : \A w \in Values[s] : v <= w]
  /\ drawn = [s \in DOMAIN Values |-> IF s = "tasks" THEN 0 ELSE Unset]

-----------------------------------------------------------------------------
(* The strings and where they are put.                                     *)

(* DisplayValue: 6 digits at most, three columns further left for each.    *)
Digits(v) == IF v < 10 THEN 1 ELSE IF v < 100 THEN 2 ELSE IF v < 1000 THEN 3
             ELSE IF v < 10000 THEN 4 ELSE IF v < 100000 THEN 5 ELSE 6
DisplayValue(v, x) == [text |-> Text(0, Digits(v), 0), x |-> x + 3 * (6 - Digits(v))]

(* DisplayIP: ui32Idx counts the 4 spaces before the address, its n        *)
(* characters and the last dot, which becomes a space.                     *)
DisplayIPUncentred(n) ==
  IF n = 0 THEN [text |-> Text(2, 12, 2), x |-> 114]
  ELSE [text |-> Text(0, n, 0), x |-> 117]
DisplayIP(n) ==
  IF n = 0 THEN [text |-> Text(2, 12, 2), x |-> 114]
  ELSE LET idx == n + 5
           begin == (idx - 12) \div 2
           end == idx + 3 - begin
       IN [text |-> Text(4 - begin, n, end - (4 + n)), x |-> 117 - (idx % 2) * 3]

TaskString(n) ==
  IF n < 10 THEN [text |-> Text(1, 1, 1), x |-> 81] ELSE [text |-> Text(0, 2, 0), x |-> 83]

StatString(s, v) ==
  CASE s = "time" -> [text |-> Text(0, 8, 0), x |-> 16]
    [] s = "tasks" -> TaskString(v)
    [] s = "ip" -> DisplayIP(v)
    [] s = "tx" -> DisplayValue(v, 219)
    [] s = "rx" -> DisplayValue(v, 268)

(* What the first call of the hook asks for: the frame, the lines between  *)
(* the boxes, the titles.                                                  *)
Move(x, y) == <<"move", <<x, y>>>>
Draw(x, y) == <<"draw", <<x, y>>>>
FirstRequests ==
  <<Move(8, 211), Draw(311, 211), Draw(311, 230), Draw(8, 230), Draw(8, 211),
    Move(69, 211), Draw(69, 230), Move(111, 211), Draw(111, 230),
    Move(213, 211), Draw(213, 230), Move(262, 211), Draw(262, 230),
    <<"title", 21>>, <<"title", 75>>, <<"title", 133>>, <<"title", 232>>, <<"title", 280>> >>

-----------------------------------------------------------------------------
(* The hook.  Where it is: AtFirst, <<"ask", k>> before the k-th of the      *)
(* first requests, <<"look", k>> and <<"send", k>> at the k-th statistic.  *)

IdleRuns == DisplayLets(tskIDLE_PRIORITY)

HookStarts ==
  /\ IdleRuns /\ hook = AtFirst
  /\ hook' = IF drawn["time"] = Unset THEN <<"ask", 1>> ELSE <<"look", 1>>
  /\ UNCHANGED <<displayVars, stat, drawn, changes>>

HookAsks ==
  /\ IdleRuns /\ hook[1] = "ask"
  /\ LET r == FirstRequests[hook[2]]
     IN \/ r[1] = "move" /\ DisplayMove(r[2])
        \/ r[1] = "draw" /\ DisplayDraw(r[2])
        \/ r[1] = "title" /\ DisplayString(r[2], "titles")
  /\ hook' = IF hook[2] = Len(FirstRequests) THEN <<"look", 1>> ELSE <<"ask", hook[2] + 1>>
  /\ UNCHANGED <<pen, canvas, strings, stat, drawn, changes>>

AfterStat(k) == IF k = Len(Stats) THEN AtFirst ELSE <<"look", k + 1>>

HookLooks ==
  /\ IdleRuns /\ hook[1] = "look"
  /\ LET s == Stats[hook[2]]
     IN IF stat[s] = drawn[s]
        THEN hook' = AfterStat(hook[2]) /\ UNCHANGED <<drawn, strings>>
        ELSE /\ drawn' = [drawn EXCEPT ![s] = stat[s]]
             /\ strings' = [strings EXCEPT ![s] = StatString(s, stat[s]).text]
             /\ hook' = <<"send", hook[2]>>
  /\ UNCHANGED <<displayQueue, pen, canvas, stat, changes>>

HookSends ==
  /\ IdleRuns /\ hook[1] = "send"
  /\ LET s == Stats[hook[2]] IN DisplayString(StatString(s, drawn[s]).x, s)
  /\ hook' = AfterStat(hook[2])
  /\ UNCHANGED <<pen, canvas, strings, stat, drawn, changes>>

(* The other tasks, of any priority: counters only grow.                   *)
StatChanges ==
  /\ changes < MaxChanges /\ changes' = changes + 1
  /\ \E s \in DOMAIN Values : \E v \in Values[s] :
       /\ s \in {"time", "tx", "rx"} => v > stat[s]
       /\ stat' = [stat EXCEPT ![s] = v]
  /\ UNCHANGED <<displayVars, hook, drawn>>

StatsDraw == DisplayTask /\ UNCHANGED <<hook, stat, drawn, changes>>

StatsNext == HookStarts \/ HookAsks \/ HookLooks \/ HookSends \/ StatChanges \/ StatsDraw

StatsSpec == StatsInit /\ [][StatsNext]_statsVars

-----------------------------------------------------------------------------
(* The idle hook never waits for the display, though it asks for more than *)
(* the queue holds: FreeRTOS forbids the idle task to block.               *)
IdleNeverBlocks == hook[1] \in {"ask", "send"} => Len(displayQueue) < DISPLAY_QUEUE_SIZE

(* What the boxes show: no column of an earlier value is left, whichever   *)
(* value follows which, and the value is in the middle of its box (but for *)
(* a column); after the first call the frame's lines are all there.        *)
Middle == [time |-> 40, tasks |-> 90, ip |-> 162, tx |-> 237, rx |-> 286]
Frame == {{<<x, 211>>, <<x, 230>>} : x \in {8, 69, 111, 213, 262, 311}} \cup {{<<8, y>>, <<311, y>>} : y \in {211, 230}}
NothingLeftOver ==
  /\ \A s \in DOMAIN Values :
       /\ Cardinality(canvas.texts[s]) <= 1
       /\ \A r \in canvas.texts[s] : r[1] + r[2] - 2 * Middle[s] \in -2..2
  /\ (hook[1] \in {"look", "send"} /\ displayQueue = <<>>) => canvas.lines = Frame

(* The hook gets what it asks for on the display and never waits for it.   *)
StatsShown == IdleNeverBlocks /\ NothingLeftOver
=============================================================================
