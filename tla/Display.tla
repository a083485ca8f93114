------------------------------- MODULE Display -------------------------------
(***************************************************************************)
(* The display task of TI's demo: other tasks put requests in its queue    *)
(* and it draws them one by one.  A string is sent by reference, so it is  *)
(* read when it is drawn.  The canvas keeps what can be seen: the centres  *)
(* of the spiders, the lines, and in each box the columns the characters   *)
(* that are not spaces take.                                               *)
(***************************************************************************)
EXTENDS Integers, Sequences, FiniteSets

CONSTANT DISPLAY_QUEUE_SIZE

ASSUME DisplayAssumption == DISPLAY_QUEUE_SIZE \in Nat \ {0}

VARIABLES displayQueue,   \* g_pDisplayQueue
          pen,            \* g_ui32DisplayX, g_ui32DisplayY
          canvas,         \* what the display shows
          strings         \* the buffers the strings are in

displayVars == <<displayQueue, pen, canvas, strings>>

(* A string's characters: spaces before, others, spaces after.             *)
Text(before, shown, after) == [before |-> before, shown |-> shown, after |-> after]
TheBoxes == {"titles", "time", "tasks", "ip", "tx", "rx"}

DisplayInit ==
  /\ displayQueue = <<>> /\ pen = <<0, 0>>
  /\ canvas = [spiders |-> {}, lines |-> {}, texts |-> [b \in TheBoxes |-> {}]]
  /\ strings = [b \in TheBoxes |-> Text(0, 5, 0)]

(* The priorities of the tasks: the display's is the highest of the demo.  *)
PRIORITY_DISPLAY_TASK == 2
PRIORITY_CONTROL_TASK == 1
PRIORITY_SPIDER_TASK == 0
tskIDLE_PRIORITY == 0

(* A task of priority p runs when the display task has nothing to do or    *)
(* no higher priority: tasks of one priority share the time.               *)
DisplayLets(p) == displayQueue = <<>> \/ PRIORITY_DISPLAY_TASK <= p

(* xQueueSend with portMAX_DELAY: the sender waits while the queue is full.*)
Request(m) ==
  /\ Len(displayQueue) < DISPLAY_QUEUE_SIZE
  /\ displayQueue' = Append(displayQueue, m)

DisplayImage(at, spider) == Request([type |-> "image", at |-> at, spider |-> spider])
DisplayString(x, box) == Request([type |-> "string", at |-> x, box |-> box])
DisplayMove(at) == Request([type |-> "move", at |-> at])
DisplayDraw(at) == Request([type |-> "draw", at |-> at])

(* An image has a border of one pixel, so it hides an image one step away. *)
Hides(p, q) == p[1] - q[1] \in -1..1 /\ p[2] - q[2] \in -1..1

(* GrImageDraw, GrStringDraw (a character is CharWidth columns wide) and   *)
(* GrLineDraw.                                                             *)
CharWidth == 6

WithImage(c, at, spider) ==
  [c EXCEPT !.spiders = {q \in @ : ~Hides(at, q)} \cup (IF spider THEN {at} ELSE {})]

WithString(c, x, box) ==
  LET t == strings[box]
      from == x + CharWidth * t.before
      upto == from + CharWidth * t.shown
      Covered(r) == x <= r[1] /\ r[2] <= upto + CharWidth * t.after
  IN [c EXCEPT !.texts[box] = {r \in @ : ~Covered(r)} \cup {<<from, upto>>}]

DisplayTask ==
  /\ displayQueue # <<>> /\ displayQueue' = Tail(displayQueue)
  /\ LET m == Head(displayQueue)
     IN CASE m.type = "image" -> canvas' = WithImage(canvas, m.at, m.spider) /\ UNCHANGED pen
          [] m.type = "string" -> canvas' = WithString(canvas, m.at, m.box) /\ UNCHANGED pen
          [] m.type = "move" -> pen' = m.at /\ UNCHANGED canvas
          [] m.type = "draw" -> canvas' = [canvas EXCEPT !.lines = @ \cup {{pen, m.at}}] /\ pen' = m.at
  /\ UNCHANGED strings
=============================================================================
