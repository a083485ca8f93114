----------------------------- MODULE SpiderDemo -----------------------------
(***************************************************************************)
(* The spiders of TI's demo.  A task for each spider moves it about and    *)
(* asks the display task to draw it; the control task creates a spider     *)
(* where the screen is touched, or kills the one that is touched.  They    *)
(* share two bitmaps and the positions; only a move is in a critical       *)
(* section.  Random numbers are any number.                                *)
(***************************************************************************)
EXTENDS Display

CONSTANTS MAX_SPIDERS, SPIDER_SIZE, TOUCH_MARGIN,   \* 32, 24, 4
          AREA_WIDTH, AREA_HEIGHT,                  \* 303, 187
          InitialSpiders,                           \* 8
          CONTROL_QUEUE_SIZE,
          Touches,                                  \* points that are touched
          MaxTouches,                               \* bound on touches
          MaxTasks                                  \* spider tasks the heap has room for

ASSUME SpiderAssumption ==
  /\ {MAX_SPIDERS, SPIDER_SIZE, AREA_WIDTH, AREA_HEIGHT, CONTROL_QUEUE_SIZE} \subseteq Nat \ {0}
  /\ {TOUCH_MARGIN, MaxTouches} \subseteq Nat /\ Touches \subseteq Nat \X Nat
  /\ InitialSpiders \in 1..MAX_SPIDERS /\ MaxTasks \in Nat /\ MaxTasks >= InitialSpiders
  /\ SPIDER_SIZE <= AREA_WIDTH /\ SPIDER_SIZE <= AREA_HEIGHT

VARIABLES alive,         \* g_ui32SpiderAlive
          dead,          \* g_ui32SpiderDead
          position,      \* g_pi32SpiderX, g_pi32SpiderY
          spider,        \* the tasks: where they are, their spider, their i32X and i32Y
          controlQueue,  \* g_pControlQueue
          touched,       \* touches so far
          shared         \* history: spiders that got a task while they had one

spiderVars == <<displayVars, alive, dead, position, spider, controlQueue, touched, shared>>

Slot == 0..MAX_SPIDERS - 1
Task == 1..MaxTasks
NoTask == [pc |-> "none", of |-> 0, at |-> <<0, 0>>]

(* The area starts at 0; the centre of a spider stays half its size away   *)
(* from the edges.                                                         *)
Half == SPIDER_SIZE \div 2
Inside(p) == p[1] \in Half..AREA_WIDTH - Half /\ p[2] \in Half..AREA_HEIGHT - Half
InArea(p) == p[1] \in 0..AREA_WIDTH - 1 /\ p[2] \in 0..AREA_HEIGHT - 1

Within(v, least, most) == IF v < least THEN least ELSE IF v > most THEN most ELSE v
Adjusted(p) == <<Within(p[1], Half, AREA_WIDTH - Half), Within(p[2], Half, AREA_HEIGHT - Half)>>

Apart(v, w) == IF v > w THEN v - w ELSE w - v
Near(p, q, size) == Apart(p[1], q[1]) < size /\ Apart(p[2], q[2]) < size
Distance(p, q) == Apart(p[1], q[1]) * Apart(p[1], q[1]) + Apart(p[2], q[2]) * Apart(p[2], q[2])

(* SpiderTaskInit: the first spiders are said to be alive before their     *)
(* tasks run.                                                              *)
SpiderInit ==
  /\ DisplayInit /\ controlQueue = <<>> /\ touched = 0 /\ shared = {}
  /\ alive = 0..InitialSpiders - 1 /\ dead = {}
  /\ position = [s \in Slot |->
       IF s < InitialSpiders
       THEN Adjusted(<<s * (AREA_WIDTH \div InitialSpiders) + AREA_WIDTH \div (2 * InitialSpiders), AREA_HEIGHT \div 2>>)
       ELSE <<0, 0>>]
  /\ spider = [t \in Task |-> IF t <= InitialSpiders THEN [pc |-> "start", of |-> t - 1, at |-> <<0, 0>>]
                              ELSE NoTask]

-----------------------------------------------------------------------------
(* A spider's task.                                                        *)

(* Whether a spider other than s that is alive, dead or not, is in the way *)
(* at p.                                                                   *)
SpiderCollideNotDead(s, p) == \E t \in alive \ (dead \cup {s}) : Near(position[t], p, SPIDER_SIZE)
SpiderCollide(s, p) == \E t \in alive \ {s} : Near(position[t], p, SPIDER_SIZE)

Step(t, from, to) == spider[t].pc = from /\ spider' = [spider EXCEPT ![t].pc = to]

SpiderTaskStarts(t) ==
  /\ Step(t, "start", "started") /\ alive' = alive \cup {spider[t].of}
  /\ UNCHANGED <<displayVars, dead, position>>

SpiderTaskReady(t) ==
  /\ spider[t].pc = "started" /\ dead' = dead \ {spider[t].of}
  /\ spider' = [spider EXCEPT ![t].pc = "loop", ![t].at = position[spider[t].of]]
  /\ UNCHANGED <<displayVars, alive, position>>

SpiderTaskLooks(t) ==
  /\ Step(t, "loop", IF spider[t].of \in dead THEN "dying" ELSE "move")
  /\ UNCHANGED <<displayVars, alive, dead, position>>

(* The critical section: one step in any of the eight directions, or none, *)
(* when something is in the way or by chance.                              *)
SpiderTaskMoves(t) ==
  /\ spider[t].pc = "move"
  /\ \E dx, dy \in -1..1 :
       LET p == <<spider[t].at[1] + dx, spider[t].at[2] + dy>>
       IN /\ p = spider[t].at \/ (Inside(p) /\ ~SpiderCollide(spider[t].of, p))
          /\ position' = [position EXCEPT ![spider[t].of] = p]
          /\ spider' = [spider EXCEPT ![t].pc = "moved", ![t].at = p]
  /\ UNCHANGED <<displayVars, alive, dead>>

SpiderTaskDraws(t) ==
  /\ Step(t, "moved", "wait") /\ DisplayImage(spider[t].at, TRUE)
  /\ UNCHANGED <<pen, canvas, strings, alive, dead, position>>

(* vTaskDelay of at least a tick.                                          *)
SpiderTaskWakes(t) ==
  /\ Step(t, "wait", "loop")
  /\ UNCHANGED <<displayVars, alive, dead, position>>

(* After two seconds the spider is cleared and its task ends.              *)
SpiderTaskClearsNothing(t) ==
  /\ Step(t, "dying", "cleared")
  /\ UNCHANGED <<displayVars, alive, dead, position>>
SpiderTaskClears(t) ==
  /\ Step(t, "dying", "cleared") /\ DisplayImage(spider[t].at, FALSE)
  /\ UNCHANGED <<pen, canvas, strings, alive, dead, position>>

SpiderTaskEnds(t) ==
  /\ spider[t].pc = "cleared" /\ spider' = [spider EXCEPT ![t] = NoTask]
  /\ alive' = alive \ {spider[t].of}
  /\ UNCHANGED <<displayVars, dead, position>>

SpiderTask(t) ==
  \/ SpiderTaskStarts(t) \/ SpiderTaskReady(t) \/ SpiderTaskLooks(t) \/ SpiderTaskMoves(t)
  \/ SpiderTaskDraws(t) \/ SpiderTaskWakes(t) \/ SpiderTaskClears(t) \/ SpiderTaskEnds(t)

(* A task with a spider's priority runs when control and display wait.     *)
SpiderRuns(t) ==
  /\ DisplayLets(PRIORITY_SPIDER_TASK) /\ controlQueue = <<>>
  /\ SpiderTask(t)
  /\ UNCHANGED <<controlQueue, touched, shared>>

-----------------------------------------------------------------------------
(* The control task.                                                       *)

(* The nearest spider a touch at p hits, of those that live or, when there *)
(* is none, of the dead that are not cleared.                              *)
Nearest(p, slots) ==
  {s \in slots : \A t \in slots : Distance(position[s], p) < Distance(position[t], p)
                                  \/ (Distance(position[s], p) = Distance(position[t], p) /\ s <= t)}
SpiderTouchCollide(p) ==
  LET Hit(slots) == {s \in slots : Near(position[s], p, SPIDER_SIZE + TOUCH_MARGIN)}
  IN IF Hit(alive \ dead) # {} THEN Nearest(p, Hit(alive \ dead)) ELSE Nearest(p, Hit(alive))

(* The first spider that is not alive gets the position, then, when the    *)
(* heap has room, a task.                                                  *)
CreateSpider(p) ==
  LET free == Slot \ alive
      s == CHOOSE x \in free : \A y \in free : x <= y
  IN IF free = {} THEN UNCHANGED <<position, spider, shared>>
     ELSE /\ position' = [position EXCEPT ![s] = Adjusted(p)]
          /\ \/ /\ \A t \in Task : spider[t].pc # "none"
                /\ UNCHANGED <<spider, shared>>
             \/ LET t == CHOOSE t \in Task : spider[t].pc = "none" /\ \A u \in 1..t - 1 : spider[u].pc # "none"
                IN /\ \E u \in Task : spider[u].pc = "none"
                   /\ spider' = [spider EXCEPT ![t] = [pc |-> "start", of |-> s, at |-> <<0, 0>>]]
                   /\ shared' = IF \E u \in Task : spider[u].pc # "none" /\ spider[u].of = s
                                THEN shared \cup {s} ELSE shared \ {s}

KillToggles(s) == dead' = IF s \in dead THEN dead \ {s} ELSE dead \cup {s}
Kill(s) == dead' = dead \cup {s}

ControlTask ==
  /\ DisplayLets(PRIORITY_CONTROL_TASK) /\ controlQueue # <<>>
  /\ controlQueue' = Tail(controlQueue)
  /\ LET p == Head(controlQueue)
     IN \/ ~InArea(p) /\ UNCHANGED <<dead, position, spider, shared>>
        \/ InArea(p) /\ SpiderTouchCollide(p) = {} /\ CreateSpider(p) /\ UNCHANGED dead
        \/ /\ InArea(p) /\ \E s \in SpiderTouchCollide(p) : Kill(s)
           /\ UNCHANGED <<position, spider, shared>>
  /\ UNCHANGED <<displayVars, alive, touched>>

(* The touch screen's interrupt: the touch is lost when the queue is full. *)
ControlTouchCallback ==
  /\ touched < MaxTouches /\ touched' = touched + 1
  /\ \E p \in Touches :
       controlQueue' = IF Len(controlQueue) < CONTROL_QUEUE_SIZE THEN Append(controlQueue, p) ELSE controlQueue
  /\ UNCHANGED <<displayVars, alive, dead, position, spider, shared>>

SpiderDraw == DisplayTask /\ UNCHANGED <<alive, dead, position, spider, controlQueue, touched, shared>>

SpiderNext == (\E t \in Task : SpiderRuns(t)) \/ ControlTask \/ ControlTouchCallback \/ SpiderDraw

(* The scheduler runs the display and control tasks when they are ready,   *)
(* and the tasks of the spiders in turn whenever those two wait: a task    *)
(* that may run again and again does, though it is preempted in between.   *)
SpiderFairness ==
  /\ \A t \in Task : SF_spiderVars(SpiderRuns(t))
  /\ WF_spiderVars(ControlTask) /\ WF_spiderVars(SpiderDraw)

SpiderSpec == SpiderInit /\ [][SpiderNext]_spiderVars /\ SpiderFairness

-----------------------------------------------------------------------------
(* No spider leaves its area, and what the display shows is no trace: once *)
(* everything is drawn, each image is within a step of a task that will    *)
(* draw or clear it, also when touches in a row gave a spider two tasks.   *)
SpidersLeaveNoTrace ==
  /\ \A t \in Task : spider[t].pc \notin {"none", "start", "started"} => Inside(spider[t].at)
  /\ displayQueue = <<>> =>
       \A q \in canvas.spiders : \E t \in Task : spider[t].pc \notin {"none", "cleared"} /\ Hides(spider[t].at, q)

(* A move never takes a spider onto another that is on the display, dead   *)
(* or not: two that are apart stay apart as long as each has one task.     *)
Overlap(s, t) == Near(position[s], position[t], SPIDER_SIZE)
MovesKeepApart ==
  [][\A s, t \in (alive \cap alive') \ (shared \cup shared') :
       (s # t /\ ~Overlap(s, t)) => ~Overlap(s, t)']_spiderVars

(* A spider with one task, which runs, is cleared once it is killed: no    *)
(* touch revives it, and none waits for another.                           *)
RunsAlone(s) == s \notin shared /\ \E t \in Task : spider[t].of = s /\ spider[t].pc \notin {"none", "start", "started"}
KilledIsCleared == \A s \in Slot : (s \in dead /\ s \in alive /\ RunsAlone(s)) ~> (s \notin alive \/ s \in shared)
=============================================================================
