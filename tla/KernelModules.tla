--------------------------- MODULE KernelModules ---------------------------
(***************************************************************************)
(* HW3's two kernel modules.  list_sort builds two lists when it is        *)
(* loaded, the animals with their counts and the ones that pass the        *)
(* filter, and frees them when it is unloaded.  first_kernel_module keeps  *)
(* a timer that arms itself again each time it fires.                      *)
(***************************************************************************)
EXTENDS Integers, SequencesExt, FiniteSetsExt

CONSTANTS Animals,        \* names, as numbers in strcmp's order
          NoOfElements    \* 10

ASSUME ModulesAssumption ==
  NoOfElements \in Nat \ {0, 1} /\ Animals \subseteq Nat /\ Animals # {}

None == -1                \* animal_type_filter = "none"
CountMod == 4             \* 2^16: no_of_times_fired is a uint16_t

VARIABLES ls,     \* list_sort
          tm      \* first_kernel_module

moduleVars == <<ls, tm>>

(* pc; the array, of which the command line gives the first names and      *)
(* leaves the others NULL; the parameters; the loop's index and counter;   *)
(* the lists, as the nodes they are made of.  freed: the nodes list_exit   *)
(* has freed; twice: one of them again.                                    *)
ListStarts ==
  [pc : {"sort"}, given : 0..NoOfElements, animals : [1..NoOfElements -> Animals],
   type : {None} \cup Animals, count : 0..1, i : {1}, an_ct : {1}, list : {<<>>}, filtered : {<<>>},
   freed : {{}}, twice : {FALSE}]

ListInit == ls \in ListStarts

(* NULL is followed: insmod dies and the module is never loaded.           *)
Oops == ls' = [ls EXCEPT !.pc = "oops"]

compare(a, b) == a < b

(* sort, with compare: the same names, by name.  Every slot is compared    *)
(* with another one, also those that are NULL.                             *)
ListSorts ==
  /\ ls.pc = "sort"
  /\ \/ ls.given < NoOfElements /\ Oops
     \/ /\ ls.given = NoOfElements
        /\ \E place \in Bijection(1..NoOfElements, 1..NoOfElements) :
             LET sorted == [i \in 1..NoOfElements |-> ls.animals[place[i]]]
             IN /\ \A i \in 1..NoOfElements - 1 : ~compare(sorted[i + 1], sorted[i])
                /\ ls' = [ls EXCEPT !.pc = "count", !.animals = sorted]

Node(type, n) == [type |-> type, n |-> n]

(* A run of equal names is over: a node with its count.                    *)
RunEnds == [ls EXCEPT !.list = Append(@, Node(ls.animals[ls.i], ls.an_ct)), !.an_ct = 1, !.i = @ + 1]

(* One turn of list_init's first loop, or what follows the loop.           *)
ListCounts ==
  /\ ls.pc = "count"
  /\ \/ /\ ls.i < NoOfElements /\ ls.animals[ls.i] = ls.animals[ls.i + 1]
        /\ ls' = [ls EXCEPT !.an_ct = @ + 1, !.i = @ + 1]
     \/ /\ ls.i < NoOfElements /\ ls.animals[ls.i] # ls.animals[ls.i + 1]
        /\ ls' = RunEnds
     \/ /\ ls.i = NoOfElements
        /\ ls' = [ls EXCEPT !.list = Append(@, Node(ls.animals[ls.i], ls.an_ct)),
                            !.pc = "filter", !.i = 1]

Passes(node) == ls.type \in {None, node.type} /\ node.n > ls.count

(* One turn of its second loop.                                            *)
ListFilters ==
  /\ ls.pc = "filter"
  /\ \/ /\ ls.i <= Len(ls.list)
        /\ LET node == ls.list[ls.i]
           IN ls' = [ls EXCEPT !.i = @ + 1, !.filtered = IF Passes(node) THEN Append(@, node) ELSE @]
     \/ ls.i > Len(ls.list) /\ ls' = [ls EXCEPT !.pc = "loaded"]

(* kmalloc returns NULL, for which neither loop looks.                     *)
KmallocFails ==
  /\ \/ ls.pc = "count" /\ ls.i = NoOfElements
     \/ ls.pc = "count" /\ ls.i < NoOfElements /\ ls.animals[ls.i] # ls.animals[ls.i + 1]
     \/ ls.pc = "filter" /\ ls.i <= Len(ls.list) /\ Passes(ls.list[ls.i])
  /\ Oops

(* list_exit walks the first list and then the second.                     *)
ListExits ==
  LET Walks(pc) == ls' = [ls EXCEPT !.pc = pc, !.i = 1]
  IN \/ ls.pc = "loaded" /\ Walks("free")
     \/ ls.pc = "free" /\ ls.i > Len(ls.list) /\ Walks("free filtered")
     \/ ls.pc = "free filtered" /\ ls.i > Len(ls.filtered) /\ Walks("gone")

(* It frees a node and then reads its link, in memory the allocator may    *)
(* have put its own link in.  Where the walk goes from there is not known. *)
ListFrees ==
  /\ \/ ls.pc = "free" /\ ls.i <= Len(ls.list)
     \/ ls.pc = "free filtered" /\ ls.i <= Len(ls.filtered)
  /\ \E pc \in {ls.pc, "torn"} :
       LET node == <<ls.pc, ls.i>>
       IN ls' = [ls EXCEPT !.pc = pc, !.i = @ + 1, !.freed = @ \cup {node},
                           !.twice = @ \/ node \in ls.freed]

ListNext == ListSorts \/ ListCounts \/ ListFilters \/ KmallocFails \/ ListExits \/ ListFrees

-----------------------------------------------------------------------------
(* state: of the module, "leaving" from hello_exit until its memory is     *)
(* released.  pending: the timer is queued.  callback: where               *)
(* print_name_timer_fired is.  overtaken: it was running when del_timer,   *)
(* which waits for nothing, was called on another processor.               *)
TimerInit ==
  tm = [state |-> "out", pending |-> FALSE, callback |-> "idle", fired |-> 0, overtaken |-> FALSE]

hello_init == tm.state = "out" /\ tm' = [tm EXCEPT !.state = "in", !.pending = TRUE]

(* The timer fires: it is taken off the queue and its function begins.     *)
TimerFires ==
  /\ tm.pending /\ tm.callback = "idle"
  /\ tm' = [tm EXCEPT !.pending = FALSE, !.callback = "prints", !.fired = (@ + 1) % CountMod]

(* mod_timer, the last thing the function does, if it still exists.        *)
print_name_timer_fired ==
  /\ tm.callback = "prints" /\ tm.state # "gone"
  /\ tm' = [tm EXCEPT !.callback = "idle", !.pending = TRUE]

hello_exitForgets ==
  /\ tm.state = "in"
  /\ tm' = [tm EXCEPT !.state = "leaving", !.overtaken = (tm.callback # "idle")]

hello_exit ==
  /\ tm.state = "in"
  /\ tm' = [tm EXCEPT !.state = "leaving", !.pending = FALSE, !.overtaken = (tm.callback # "idle")]

(* The kernel releases the memory of the module, its timer's included.     *)
FreeModule == tm.state = "leaving" /\ tm' = [tm EXCEPT !.state = "gone"]

TimerNext == hello_init \/ TimerFires \/ print_name_timer_fired \/ hello_exit \/ FreeModule

-----------------------------------------------------------------------------
InOrder(list) == \A k, l \in DOMAIN list : k < l => list[k].type < list[l].type

ListsBuilt == {"loaded", "free", "free filtered", "torn", "gone"}

(* Once loaded, the first list has every animal of the array once, in      *)
(* order, with the number of times it occurs, the last run included; the   *)
(* second has exactly those that pass both filters, in the same order.     *)
ListsComplete ==
  ls.pc \in ListsBuilt =>
    LET Times(a) == Cardinality({i \in 1..NoOfElements : ls.animals[i] = a})
    IN /\ {node.type : node \in ToSet(ls.list)} = ToSet(ls.animals)
       /\ \A node \in ToSet(ls.list) : node.n = Times(node.type)
       /\ ToSet(ls.filtered) = {node \in ToSet(ls.list) : Passes(node)}
       /\ InOrder(ls.list) /\ InOrder(ls.filtered)

(* list_exit frees no node twice, and has freed all of both lists when the *)
(* module is gone, unless a link had changed when it was read.             *)
NodesFreed ==
  /\ ~ls.twice
  /\ ls.pc = "gone" =>
       ls.freed = ({"free"} \X DOMAIN ls.list) \cup ({"free filtered"} \X DOMAIN ls.filtered)

(* The timer never runs, and is never queued to run, once the module is    *)
(* being unloaded, though its function queues it again each time; but if   *)
(* it ran on another processor when del_timer was called, both happen.     *)
NoTimerAfterUnload ==
  tm.state \in {"leaving", "gone"} /\ ~tm.overtaken => ~tm.pending /\ tm.callback = "idle"

(* Loading builds the right lists, and unloading frees them and leaves     *)
(* nothing that runs.                                                      *)
ModulesSound == ListsComplete /\ NodesFreed /\ NoTimerAfterUnload
=============================================================================
