----------------------------- MODULE PthreadSub -----------------------------
(***************************************************************************)
(* HW4's pthread_sub: main and two threads that write one log.  Child 1    *)
(* counts the letters of gdb.txt and ends; child 2 copies /proc/stat to    *)
(* the log at every timer signal and ends only by a signal.  The three     *)
(* share the stream pointer logging, and print_stat and kill_msg with the  *)
(* signal handler, without a lock.  A fault (a use of NULL, a free of a    *)
(* pointer never set) may end the process: crashed.                        *)
(***************************************************************************)
EXTENDS Integers, SequencesExt, FiniteSetsExt

CONSTANTS TextLengths,   \* lengths of gdb.txt
          Capitals,      \* 'A' to 'Z'
          SmallLetters,  \* 'a' to 'z'
          Case,          \* 'a' - 'A'
          CountLimit,    \* 100: counts from here on are not reported
          MaxStreams,    \* streams a process may have open
          MaxTicks,      \* bound on timer signals
          MaxKills       \* bound on SIGUSR1 and SIGUSR2 signals

ASSUME PthreadAssumption ==
  /\ MaxStreams \in Nat \ {0} /\ MaxTicks \in Nat /\ MaxKills \in Nat
  /\ TextLengths \subseteq Nat /\ CountLimit \in Nat \ {0}

(* Characters in ASCII's order: a space comes before the letters.          *)
Space == 1
End == 0                 \* '\0'

ASSUME AlphabetAssumption ==
  /\ Case \in Nat /\ IsFiniteSet(SmallLetters) /\ Capitals \cup SmallLetters \subseteq Nat \ 0..Space
  /\ Capitals \cap SmallLetters = {} /\ \A c \in Capitals : c + Case \in SmallLetters

NULL == 0
Streams == 1..MaxStreams

VARIABLES pc,          \* of each thread
          list,        \* the report child 1 has built
          wanted,      \* history: the right report of the text it has read
          unread,      \* it could not open gdb.txt
          printed,     \* the entries it has printed
          logging,     \* a stream, or NULL
          open,        \* the streams that are open
          closed1,     \* child 1 has closed the log
          misused,     \* the threads that used a closed stream
          print_stat, kill_msg,
          ticks, kills

threadVars == <<pc, list, wanted, unread, printed, logging, open, closed1, misused>>
pthreadVars == <<threadVars, print_stat, kill_msg, ticks, kills>>

Thread == {"main", "child1", "child2"}
Ended == pc["main"] \in {"returned", "crashed"} \/ \A t \in Thread : pc[t] \in {"gone", "none"}

PthreadInit ==
  /\ pc = [t \in Thread |-> IF t = "main" THEN "open" ELSE "none"]
  /\ list = <<>> /\ wanted = <<>> /\ unread = FALSE /\ printed = <<>>
  /\ logging = NULL /\ open = {} /\ closed1 = FALSE /\ misused = {}
  /\ print_stat = 0 /\ kill_msg = 0 /\ ticks = 0 /\ kills = 0

-----------------------------------------------------------------------------
(* What child 1 does with the text, in its own memory.                     *)

Texts == UNION {[1..n -> {Space} \cup Capitals \cup SmallLetters] : n \in TextLengths}

At(s, i) == IF i > Len(s) THEN End ELSE s[i]
LowerCase(c) == IF c \in Capitals THEN c + Case ELSE c

(* strcmp of the rest of the text from i and from j on.                    *)
RestIsGreater(s, i, j) ==
  LET differ == {d \in 0..Len(s) : At(s, i + d) # At(s, j + d)}
  IN differ # {} /\ At(s, i + Min(differ)) > At(s, j + Min(differ))

(* The inner loop's body: two characters, i < j.                           *)
Exchanged(s, i, j) ==
  LET t == [s EXCEPT ![i] = LowerCase(@), ![j] = LowerCase(@)]
  IN IF RestIsGreater(t, i, j) THEN [t EXCEPT ![i] = t[j], ![j] = t[i]] ELSE t

(* The text after the inner loop has seen j, and after the outer has seen  *)
(* i.                                                                      *)
InnerLoop(s, i) ==
  LET after[j \in i..Len(s)] == IF j = i THEN s ELSE Exchanged(after[j - 1], i, j)
  IN after

OuterLoop(s) ==
  LET after[i \in 0..Len(s)] == IF i = 0 THEN s ELSE InnerLoop(after[i - 1], i)[Len(s)]
  IN after

SortedText(s) == OuterLoop(s)[Len(s)]

add_new_member(members, letter, count) == Append(members, [alphabet |-> letter, count |-> count])

(* The counting loop's body, for the character at i.                       *)
CharSeenNoReset(before, s, i) ==
  IF s[i] \notin SmallLetters THEN before
  ELSE IF s[i] = At(s, i + 1) THEN [before EXCEPT !.count = @ + 1]
  ELSE IF before.count >= CountLimit THEN before
  ELSE [members |-> add_new_member(before.members, s[i], before.count), count |-> 1]

CharSeen(before, s, i) ==
  IF s[i] \notin SmallLetters THEN before
  ELSE IF s[i] = At(s, i + 1) THEN [before EXCEPT !.count = @ + 1]
  ELSE [members |-> IF before.count < CountLimit THEN add_new_member(before.members, s[i], before.count)
                    ELSE before.members,
        count |-> 1]

CountingLoop(s) ==
  LET after[i \in 0..Len(s)] == IF i = 0 THEN [members |-> <<>>, count |-> 1] ELSE CharSeen(after[i - 1], s, i)
  IN after

Counted(s) == CountingLoop(s)[Len(s)].members

(* The right report: every letter that occurs fewer than CountLimit times, *)
(* in order, capitals counted as small letters.  A text of one character   *)
(* is never compared, so a single capital stays one.                       *)
RightReport(s) ==
  LET lower == IF Len(s) > 1 THEN [i \in DOMAIN s |-> LowerCase(s[i])] ELSE s
      Times(l) == Cardinality({i \in DOMAIN s : lower[i] = l})
      few == {l \in SmallLetters : Times(l) \in 1..CountLimit - 1}
      Nth(k) == CHOOSE l \in few : Cardinality({m \in few : m < l}) = k - 1
  IN [k \in 1..Cardinality(few) |-> [alphabet |-> Nth(k), count |-> Times(Nth(k))]]

BuiltReports == {[list |-> Counted(SortedText(s)), wanted |-> RightReport(s)] : s \in Texts}

-----------------------------------------------------------------------------
Goes(t, from, to) == pc[t] = from /\ pc' = [pc EXCEPT ![t] = to]
Crash == pc' = [pc EXCEPT !["main"] = "crashed"]

(* fopen of the log: a stream that is not open, or NULL at the limit (or   *)
(* when the file cannot be opened, which happens to main first).           *)
FopenLog ==
  IF open = Streams THEN logging' = NULL /\ UNCHANGED open
  ELSE \E s \in Streams \ open : logging' = s /\ open' = open \cup {s}

(* fprintf(logging, ...) by t, which then is at pc to.  A closed stream    *)
(* loses the line or ends the process; NULL ends it.                       *)
FprintfLog(t, from, to) ==
  /\ pc[t] = from
  /\ misused' = IF logging \in open \cup {NULL} THEN misused ELSE misused \cup {t}
  /\ IF logging = NULL THEN Crash
     ELSE \/ pc' = [pc EXCEPT ![t] = to]
          \/ logging \notin open /\ Crash

(* The first line of a child, left out when the test before it finds NULL. *)
Greet(t) ==
  \/ FprintfLog(t, "greet", "greeted")
  \/ logging = NULL /\ Goes(t, "greet", "greeted") /\ UNCHANGED misused

(* The main thread.  pthread_create may fail; main then does not join.     *)
main ==
  \/ /\ Goes("main", "open", "create1") /\ \E s \in Streams : logging' = s
     /\ UNCHANGED <<list, wanted, unread, printed, open, closed1, misused>>
  \/ /\ Goes("main", "open", "returned")
     /\ UNCHANGED <<list, wanted, unread, printed, logging, open, closed1, misused>>
  \/ /\ pc["main"] = "create1"
     /\ \/ pc' = [pc EXCEPT !["main"] = "create2", !["child1"] = "open"]
        \/ pc' = [pc EXCEPT !["main"] = "create2", !["child1"] = "gone"]
     /\ UNCHANGED <<list, wanted, unread, printed, logging, open, closed1, misused>>
  \/ /\ pc["main"] = "create2"
     /\ \/ pc' = [pc EXCEPT !["main"] = "join1", !["child2"] = "open"]
        \/ pc' = [pc EXCEPT !["main"] = "join1", !["child2"] = "gone"]
     /\ UNCHANGED <<list, wanted, unread, printed, logging, open, closed1, misused>>
  \/ /\ pc["child1"] = "gone"
     /\ \/ kill_msg = 0 /\ Goes("main", "join1", "join2") /\ UNCHANGED misused
        \/ kill_msg # 0 /\ FprintfLog("main", "join1", "join2")
     /\ UNCHANGED <<list, wanted, unread, printed, logging, open, closed1>>
  \/ /\ pc["child2"] = "gone"
     /\ \/ kill_msg = 0 /\ Goes("main", "join2", "returned") /\ UNCHANGED <<misused, open>>
        \/ kill_msg # 0 /\ FprintfLog("main", "join2", "returned") /\ open' = open \ {logging}
     /\ UNCHANGED <<list, wanted, unread, printed, logging, closed1>>

(* Child 1.  When gdb.txt cannot be opened, be it that no stream is left,  *)
(* it goes on with a length and a text that were never set: it sorts and   *)
(* reports what it finds there, frees that in the end, and each may end    *)
(* the process.  Without a letter in the list, print_list follows NULL.    *)
child1_funct ==
  \/ /\ Goes("child1", "open", "greet") /\ FopenLog
     /\ UNCHANGED <<list, wanted, unread, printed, closed1, misused>>
  \/ /\ Greet("child1")
     /\ UNCHANGED <<list, wanted, unread, printed, logging, open, closed1>>
  \/ /\ open # Streams /\ Goes("child1", "greeted", "print")
     /\ \E r \in BuiltReports : list' = r.list /\ wanted' = r.wanted
     /\ UNCHANGED <<unread, printed, logging, open, closed1, misused>>
  \/ /\ Goes("child1", "greeted", "print") /\ unread' = TRUE
     /\ \E r \in BuiltReports : list' = r.list
     /\ UNCHANGED <<wanted, printed, logging, open, closed1, misused>>
  \/ /\ \/ pc["child1"] = "greeted"
        \/ pc["child1"] = "print" /\ list = <<>>
        \/ pc["child1"] = "close" /\ unread
     /\ Crash
     /\ UNCHANGED <<list, wanted, unread, printed, logging, open, closed1, misused>>
  \/ /\ Len(printed) < Len(list) /\ FprintfLog("child1", "print", "print")
     /\ printed' = Append(printed, list[Len(printed) + 1])
     /\ UNCHANGED <<list, wanted, unread, logging, open, closed1>>
  \/ /\ list # <<>> /\ printed = list /\ FprintfLog("child1", "print", "close")
     /\ UNCHANGED <<list, wanted, unread, printed, logging, open, closed1>>
  \/ /\ pc["child1"] = "close" /\ open' = open \ {logging} /\ closed1' = (logging # NULL)
     /\ IF logging = NULL THEN Crash ELSE Goes("child1", "close", "gone")
     /\ UNCHANGED <<list, wanted, unread, printed, logging, misused>>

(* Child 2 opens the log again for every report and never closes it.  The  *)
(* free of an unset pointer may end the process.                           *)
ReportDoneCloses == print_stat' = 0 /\ open' = open \ {logging}
ReportDone == print_stat' = 0 /\ UNCHANGED open

child2_funct ==
  \/ /\ Goes("child2", "open", "greet") /\ FopenLog
     /\ UNCHANGED <<list, wanted, unread, printed, closed1, misused, print_stat>>
  \/ /\ Greet("child2")
     /\ UNCHANGED <<list, wanted, unread, printed, logging, open, closed1, print_stat>>
  \/ /\ Goes("child2", "greeted", "loop") \/ (pc["child2"] = "greeted" /\ Crash)
     /\ UNCHANGED <<list, wanted, unread, printed, logging, open, closed1, misused, print_stat>>
  \/ /\ print_stat = 1 /\ Goes("child2", "loop", "report") /\ FopenLog
     /\ UNCHANGED <<list, wanted, unread, printed, closed1, misused, print_stat>>
  \/ /\ FprintfLog("child2", "report", "reported")
     /\ UNCHANGED <<list, wanted, unread, printed, logging, open, closed1, print_stat>>
  \/ /\ Goes("child2", "reported", "loop") /\ ReportDone
     /\ UNCHANGED <<list, wanted, unread, printed, logging, closed1, misused>>

(* The handler runs in any thread that lives.  A timer signal sets         *)
(* print_stat; the others end the thread they are delivered to.            *)
Living == {t \in Thread : pc[t] \notin {"none", "gone"}}

TimerSignal ==
  /\ ticks < MaxTicks /\ pc["child2"] \notin {"none", "open", "greet"} /\ Living # {}
  /\ ticks' = ticks + 1 /\ print_stat' = 1
  /\ UNCHANGED <<threadVars, kill_msg, kills>>

HandlerReturns(sig, t) ==
  /\ kill_msg' = sig /\ UNCHANGED pc

handler(sig, t) ==
  /\ kill_msg' = sig /\ pc' = [pc EXCEPT ![t] = "gone"]

KillSignal ==
  /\ kills < MaxKills /\ kills' = kills + 1
  /\ \E sig \in {1, 2}, t \in Living : handler(sig, t)
  /\ UNCHANGED <<list, wanted, unread, printed, logging, open, closed1, misused, print_stat, ticks>>

Main == ~Ended /\ main /\ UNCHANGED <<print_stat, kill_msg, ticks, kills>>
Child1 == ~Ended /\ child1_funct /\ UNCHANGED <<print_stat, kill_msg, ticks, kills>>
Child2 == ~Ended /\ child2_funct /\ UNCHANGED <<kill_msg, ticks, kills>>
Signals == ~Ended /\ (TimerSignal \/ KillSignal)

PthreadNext == Main \/ Child1 \/ Child2 \/ Signals

(* Every thread that can run does; signals come or do not.                 *)
PthreadFairness == WF_pthreadVars(Main) /\ WF_pthreadVars(Child1) /\ WF_pthreadVars(Child2)

PthreadSpec == PthreadInit /\ [][PthreadNext]_pthreadVars /\ PthreadFairness

-----------------------------------------------------------------------------
(* The report child 1 has printed is a beginning of the right one, and all *)
(* of it when it closes the log, though the sort compares rests of the     *)
(* text, not letters, lowers a letter only when it compares it, and the    *)
(* loop looks one past the last character.  A report without gdb.txt is    *)
(* of whatever was in memory.                                              *)
ReportCounts == unread \/ (IsPrefix(printed, wanted) /\ (closed1 => printed = wanted))

(* Until child 1 has closed the log, neither child uses a closed stream,   *)
(* whoever assigned logging last: that child 2 never closes what it opens  *)
(* is what keeps child 1's stream open.                                    *)
StreamsOpenForChildren == misused \cap {"child1", "child2"} # {} => closed1

(* Signals end the process whichever threads they are delivered to, main   *)
(* included: when child 2 is gone the process ends by itself, and as many  *)
(* signals as there are threads end it in any case.                        *)
KillsEndProcess == (pc["child2"] = "gone" \/ kills >= Cardinality(Thread)) ~> Ended
=============================================================================
