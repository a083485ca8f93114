------------------------------ MODULE UartStdio ------------------------------
(***************************************************************************)
(* The serial console of the HW5 board (utils/uartstdio.c), in both builds *)
(* of the file.  With UART_BUFFERED two ring buffers stand between the     *)
(* program (the foreground) and UARTStdioIntHandler.  Each of the loads of *)
(* an index the handler writes, and each store, is a step of its own, and  *)
(* the handler may run between any two.  (The read index of the receive    *)
(* ring is stored by the program alone: when the program loads it makes no *)
(* difference.)  Without UART_BUFFERED the calls wait on the FIFOs of the  *)
(* UART.  The program stands still until the handler is done.              *)
(***************************************************************************)
EXTENDS Integers, Sequences, SequencesExt

CONSTANTS UART_TX_BUFFER_SIZE, UART_RX_BUFFER_SIZE,
          FifoDepth,   \* of the UART's transmit FIFO (16)
          FifoLevel,   \* UART_FIFO_TX1_8: the level whose passing interrupts
          Texts,       \* what the program writes
          Inputs(_),   \* what may be typed at the terminal, for either build
          LineLen,     \* ui32Len of UARTgets
          MaxCalls     \* bound on the calls of the program

ASSUME UartAssumption ==
  /\ UART_TX_BUFFER_SIZE \in Nat \ {0, 1} /\ UART_RX_BUFFER_SIZE \in Nat \ {0, 1}
  /\ FifoDepth \in Nat \ {0} /\ FifoLevel \in 0..(FifoDepth - 1)
  /\ LineLen \in Nat \ {0} /\ MaxCalls \in Nat
  /\ \A b \in BOOLEAN : \A s \in Inputs(b) : s \in Seq(ToSet(s))

VARIABLES buffered,   \* the build: is UART_BUFFERED defined?
          pc,         \* where the program is in a call
          text,       \* characters UARTwrite has still to write
          tmp,        \* the write index last loaded: tx.w, or rx.w in UARTPeek
          at,         \* ui32ReadIndex of UARTPeek
          line,       \* pcBuf of UARTgets
          peeked,     \* UARTPeek found a CR before UARTgets, none rubbed out meanwhile
          tx, rx,     \* the ring buffers
          noEcho,     \* g_bDisableEcho
          lastWasCR,  \* the static bLastWasCR, of the handler or of UARTgets
          fifo, keys, \* the transmit and the receive FIFO
          txRaw,      \* the transmit FIFO has passed its level
          isr,        \* "out" of the handler, in its loop to "receive", to "store"
          txMask,     \* UART_INT_TX is enabled
          intOn,      \* the UART interrupt is enabled in the NVIC
          calls,      \* made so far
          untyped,    \* what is still to be typed
          due,        \* history: accepted characters that are not yet sent
          kept,       \* history: received characters that are not yet read
          screen,     \* history: the line the terminal shows, up to its cursor
          raced,      \* history: the handler wrote inside UARTwrite's test and update
          underrun    \* history: the character being read was rubbed out

prog == <<pc, text, tmp, at, line, peeked, calls>>
uart == <<fifo, keys, txRaw, txMask, intOn, untyped>>
ghosts == <<due, kept, screen, raced, underrun>>
vars == <<buffered, isr, prog, tx, rx, noEcho, lastWasCR, uart, ghosts>>

EndOfLine == {"CR", "LF", "ESC"}

IsBufferFull(b, size) == (b.w + 1) % size = b.r
IsBufferEmpty(b) == b.w = b.r
GetBufferCount(b, size) == IF b.w >= b.r THEN b.w - b.r ELSE size - (b.r - b.w)

TxEmpty == IsBufferEmpty(tx)
RxEmpty == IsBufferEmpty(rx)
UARTTxBytesFree == UART_TX_BUFFER_SIZE - GetBufferCount(tx, UART_TX_BUFFER_SIZE)

(* Characters cs, which fit, are stored and the index advances past them.  *)
Put(b, size, cs) ==
  [b EXCEPT !.buf = [i \in 0..(size - 1) |->
                       LET k == (i - b.w) % size IN IF k < Len(cs) THEN cs[k + 1] ELSE @[i]],
            !.w = (@ + Len(cs)) % size]

(* What a ring holds, oldest first.                                        *)
Contents(b, size) ==
  [k \in 1..GetBufferCount(b, size) |-> b.buf[(b.r + k - 1) % size]]

Take(s, n) == SubSeq(s, 1, IF n < Len(s) THEN n ELSE Len(s))

(* What UARTwrite writes for a character, and for a text: a line feed is   *)
(* preceded by a carriage return.                                          *)
Written(c) == IF c = "LF" THEN <<"CR", "LF">> ELSE <<c>>
Translated(s) == FoldLeft(LAMBDA out, c : out \o Written(c), <<>>, s)

(* The terminal: a carriage return or a line feed begins a new line, a     *)
(* backspace moves the cursor back over a character.                       *)
Shown(s, c) ==
  CASE c \in {"CR", "LF"} -> <<>>
    [] c = "BS" -> IF s = <<>> THEN s ELSE Front(s)
    [] OTHER -> Append(s, c)

Ring(size) == [buf |-> [i \in 0..(size - 1) |-> "NUL"], w |-> 0, r |-> 0]

Init ==
  /\ buffered \in BOOLEAN
  /\ pc = "off" /\ text = <<>> /\ tmp = 0 /\ at = 0 /\ line = <<>> /\ peeked = FALSE
  /\ tx = Ring(UART_TX_BUFFER_SIZE) /\ rx = Ring(UART_RX_BUFFER_SIZE)
  /\ noEcho = FALSE /\ lastWasCR = FALSE
  /\ fifo = <<>> /\ keys = <<>> /\ txRaw = FALSE /\ txMask = FALSE /\ intOn = FALSE
  /\ isr = "out" /\ calls = 0 /\ untyped \in Inputs(buffered)
  /\ due = <<>> /\ kept = <<>> /\ screen = <<>>
  /\ raced = FALSE /\ underrun = FALSE

(* The buffers are flushed (they are empty), the receive interrupts and    *)
(* the NVIC's are enabled, the transmit interrupt is not.                  *)
UARTStdioConfig ==
  /\ pc = "off"
  /\ pc' = "idle"
  /\ tx' = [tx EXCEPT !.w = 0, !.r = 0]
  /\ rx' = [rx EXCEPT !.w = 0, !.r = 0]
  /\ intOn' = buffered
  /\ txMask' = FALSE
  /\ UNCHANGED <<buffered, text, tmp, at, line, peeked, calls, noEcho, lastWasCR,
                 fifo, keys, txRaw, untyped, ghosts>>

(* The program calls a function of the console.                            *)
Call(to) ==
  /\ pc = "idle" /\ calls < MaxCalls
  /\ calls' = calls + 1
  /\ pc' = to

-----------------------------------------------------------------------------
(* UARTwrite                                                               *)

(* The program loads the write index of the transmit ring: the first load  *)
(* of IsBufferFull and of IsBufferEmpty, and those of the store and of     *)
(* ADVANCE_TX_BUFFER_INDEX.                                                *)
Loaded == [test |-> "testread", store |-> "storing", load |-> "advance",
           check |-> "checkread", prime |-> "primeread", flush |-> "flushread"]

TxLoad ==
  /\ buffered /\ pc \in DOMAIN Loaded
  /\ tmp' = tx.w
  /\ pc' = Loaded[pc]
  /\ UNCHANGED <<buffered, text, at, line, peeked, calls, tx, rx, noEcho, lastWasCR, uart, ghosts>>

(* The second load of IsBufferFull and IsBufferEmpty: what they return.    *)
SeenFull == IsBufferFull([tx EXCEPT !.w = tmp], UART_TX_BUFFER_SIZE)
SeenEmpty == IsBufferEmpty([tx EXCEPT !.w = tmp])

UARTwrite ==
  /\ \E s \in Texts : /\ Call(IF buffered /\ s = <<>> THEN "check" ELSE "test")
                       /\ text' = Translated(s)
  /\ UNCHANGED <<buffered, tmp, at, line, peeked, tx, rx, noEcho, lastWasCR, uart, ghosts>>

(* !TX_BUFFER_FULL, or the rest of the text is discarded.                  *)
WriteTest ==
  /\ pc = "testread"
  /\ IF SeenFull THEN text' = <<>> /\ pc' = "check" ELSE text' = text /\ pc' = "store"
  /\ tmp' = 0
  /\ UNCHANGED <<buffered, at, line, peeked, calls, tx, rx, noEcho, lastWasCR, uart, ghosts>>

WriteStore ==
  /\ pc = "storing"
  /\ tx' = [tx EXCEPT !.buf[tmp] = Head(text)]
  /\ tmp' = 0
  /\ pc' = "load"
  /\ UNCHANGED <<buffered, text, at, line, peeked, calls, rx, noEcho, lastWasCR, uart, ghosts>>

WriteAdvance ==
  /\ pc = "advance"
  /\ tx' = [tx EXCEPT !.w = (tmp + 1) % UART_TX_BUFFER_SIZE]
  /\ due' = Append(due, Head(text))
  /\ text' = Tail(text) /\ tmp' = 0
  /\ pc' = IF Tail(text) = <<>> THEN "check" ELSE "test"
  /\ UNCHANGED <<buffered, at, line, peeked, calls, rx, noEcho, lastWasCR, uart,
                 kept, screen, raced, underrun>>

WriteCheck ==
  /\ pc = "checkread"
  /\ pc' = IF SeenEmpty THEN "idle" ELSE "prime"
  /\ tmp' = 0
  /\ UNCHANGED <<buffered, text, at, line, peeked, calls, tx, rx, noEcho, lastWasCR, uart, ghosts>>

(* UARTPrimeTransmit: the interrupt stays disabled while characters move   *)
(* to the FIFO, and the ring is tested again for each of them.             *)
PrimeTest ==
  /\ pc = "primeread"
  /\ pc' = IF SeenEmpty THEN "enable" ELSE "disable"
  /\ tmp' = 0
  /\ UNCHANGED <<buffered, text, at, line, peeked, calls, tx, rx, noEcho, lastWasCR, uart, ghosts>>

PrimeBeginUnmasked ==
  /\ pc = "disable"
  /\ pc' = "move"
  /\ UNCHANGED <<buffered, text, tmp, at, line, peeked, calls, tx, rx, noEcho, lastWasCR, uart, ghosts>>

PrimeBegin ==
  /\ pc = "disable"
  /\ intOn' = FALSE
  /\ pc' = "move"
  /\ UNCHANGED <<buffered, text, tmp, at, line, peeked, calls, tx, rx, noEcho, lastWasCR,
                 fifo, keys, txRaw, txMask, untyped, ghosts>>

PrimeMove ==
  /\ pc = "move" /\ Len(fifo) < FifoDepth /\ ~TxEmpty
  /\ fifo' = Append(fifo, tx.buf[tx.r])
  /\ pc' = "moved"
  /\ UNCHANGED <<buffered, text, tmp, at, line, peeked, calls, tx, rx, noEcho, lastWasCR,
                 keys, txRaw, txMask, intOn, untyped, ghosts>>

PrimeAdvance ==
  /\ pc = "moved"
  /\ tx' = [tx EXCEPT !.r = (@ + 1) % UART_TX_BUFFER_SIZE]
  /\ pc' = "move"
  /\ UNCHANGED <<buffered, text, tmp, at, line, peeked, calls, rx, noEcho, lastWasCR, uart, ghosts>>

PrimeEnd ==
  /\ pc = "move" /\ (Len(fifo) = FifoDepth \/ TxEmpty)
  /\ intOn' = TRUE
  /\ pc' = "enable"
  /\ UNCHANGED <<buffered, text, tmp, at, line, peeked, calls, tx, rx, noEcho, lastWasCR,
                 fifo, keys, txRaw, txMask, untyped, ghosts>>

WriteEnableForgotten ==
  /\ pc = "enable"
  /\ pc' = "idle"
  /\ UNCHANGED <<buffered, text, tmp, at, line, peeked, calls, tx, rx, noEcho, lastWasCR, uart, ghosts>>

(* MAP_UARTIntEnable(UART_INT_TX)                                          *)
WriteEnable ==
  /\ pc = "enable"
  /\ txMask' = TRUE
  /\ pc' = "idle"
  /\ UNCHANGED <<buffered, text, tmp, at, line, peeked, calls, tx, rx, noEcho, lastWasCR,
                 fifo, keys, txRaw, intOn, untyped, ghosts>>

(* Without buffers UARTCharPut waits for room in the FIFO.                 *)
CharPut ==
  /\ ~buffered /\ pc = "test"
  /\ \/ /\ text # <<>> /\ Len(fifo) < FifoDepth
        /\ fifo' = Append(fifo, Head(text)) /\ due' = Append(due, Head(text))
        /\ screen' = Shown(screen, Head(text))
        /\ text' = Tail(text) /\ pc' = pc
     \/ /\ text = <<>>
        /\ pc' = "idle"
        /\ UNCHANGED <<fifo, due, screen, text>>
  /\ UNCHANGED <<buffered, tmp, at, line, peeked, calls, tx, rx, noEcho, lastWasCR,
                 keys, txRaw, txMask, intOn, untyped, kept, raced, underrun>>

-----------------------------------------------------------------------------
(* The other calls of the buffered build                                   *)

(* The program looks for the end of a line before it reads one.            *)
UARTgets ==
  /\ Call(IF buffered THEN "peek" ELSE "line")
  /\ line' = <<>> /\ screen' = <<>>
  /\ UNCHANGED <<buffered, text, tmp, at, peeked, tx, rx, noEcho, lastWasCR, uart,
                 due, kept, raced, underrun>>

(* UARTPeek("CR"): the characters up to the write index loaded at first    *)
(* are looked at one by one; meanwhile the handler may rub out the last of *)
(* them, which are found all the same, or put another in the place.        *)
PeekBegin ==
  /\ pc = "peek"
  /\ tmp' = rx.w /\ at' = rx.r
  /\ pc' = "peeking"
  /\ UNCHANGED <<buffered, text, line, peeked, calls, tx, rx, noEcho, lastWasCR, uart, ghosts>>

PeekNext ==
  /\ pc = "peeking" /\ at # tmp /\ rx.buf[at] # "CR"
  /\ at' = (at + 1) % UART_RX_BUFFER_SIZE
  /\ UNCHANGED <<buffered, pc, text, tmp, line, peeked, calls, tx, rx, noEcho, lastWasCR, uart, ghosts>>

PeekEnd ==
  /\ pc = "peeking" /\ (at = tmp \/ rx.buf[at] = "CR")
  /\ peeked' = (at # tmp /\ (at - rx.r) % UART_RX_BUFFER_SIZE < GetBufferCount(rx, UART_RX_BUFFER_SIZE))
  /\ tmp' = 0 /\ at' = 0
  /\ pc' = "gets"
  /\ UNCHANGED <<buffered, text, line, calls, tx, rx, noEcho, lastWasCR, uart, ghosts>>

(* Both UARTgets and UARTgetc test for a character and then take it.       *)
UARTgetc ==
  /\ buffered /\ Call("getc")
  /\ UNCHANGED <<buffered, text, tmp, at, line, peeked, tx, rx, noEcho, lastWasCR, uart, ghosts>>

RxTest ==
  /\ pc \in {"gets", "getc"} /\ ~RxEmpty
  /\ pc' = IF pc = "gets" THEN "takeline" ELSE "takechar"
  /\ UNCHANGED <<buffered, text, tmp, at, line, peeked, calls, tx, rx, noEcho, lastWasCR, uart, ghosts>>

RxTake ==
  LET c == rx.buf[rx.r]
  IN /\ pc \in {"takeline", "takechar"}
     /\ underrun' = (underrun \/ RxEmpty)
     /\ IF pc = "takechar" \/ c \in EndOfLine
        THEN pc' = "took" /\ line' = line
        ELSE /\ pc' = "tookmore"
             /\ line' = IF Len(line) < LineLen - 1 THEN Append(line, c) ELSE line
     /\ UNCHANGED <<buffered, text, tmp, at, peeked, calls, tx, rx, noEcho, lastWasCR, uart,
                    due, kept, screen, raced>>

(* ADVANCE_RX_BUFFER_INDEX of a character, which may be the last of a call. *)
Advancing == pc \in {"took", "tookmore"}

RxAdvance ==
  /\ Advancing
  /\ rx' = [rx EXCEPT !.r = (@ + 1) % UART_RX_BUFFER_SIZE]
  /\ kept' = IF kept = <<>> THEN kept ELSE Tail(kept)
  /\ IF pc = "took" THEN pc' = "idle" /\ line' = <<>> /\ peeked' = FALSE
     ELSE pc' = "gets" /\ UNCHANGED <<line, peeked>>
  /\ UNCHANGED <<buffered, text, tmp, at, calls, tx, noEcho, lastWasCR, uart, due, screen, raced, underrun>>

UARTFlushRx ==
  /\ buffered /\ Call("idle")
  /\ rx' = [rx EXCEPT !.w = 0, !.r = 0]
  /\ kept' = <<>>
  /\ UNCHANGED <<buffered, text, tmp, at, line, peeked, tx, noEcho, lastWasCR, uart,
                 due, screen, raced, underrun>>

(* bDiscard                                                                *)
UARTFlushTxDiscard ==
  /\ buffered /\ Call("idle")
  /\ tx' = [tx EXCEPT !.w = 0, !.r = 0]
  /\ due' = fifo
  /\ UNCHANGED <<buffered, text, tmp, at, line, peeked, rx, noEcho, lastWasCR, uart,
                 kept, screen, raced, underrun>>

UARTFlushTxWait ==
  /\ buffered /\ Call("flush")
  /\ UNCHANGED <<buffered, text, tmp, at, line, peeked, tx, rx, noEcho, lastWasCR, uart, ghosts>>

FlushTest ==
  /\ pc = "flushread"
  /\ pc' = IF SeenEmpty THEN "idle" ELSE "flush"
  /\ tmp' = 0
  /\ UNCHANGED <<buffered, text, at, line, peeked, calls, tx, rx, noEcho, lastWasCR, uart, ghosts>>

UARTEchoSet ==
  /\ buffered /\ Call("idle")
  /\ noEcho' = ~noEcho
  /\ UNCHANGED <<buffered, text, tmp, at, line, peeked, tx, rx, lastWasCR, uart, ghosts>>

-----------------------------------------------------------------------------
(* UARTStdioIntHandler: one step for its entry and its transmit half, one  *)
(* for each character it receives, one for its exit.                       *)

(* The characters UARTPrimeTransmit moves from ring b to FIFO f.           *)
Primed(b, f) ==
  Take(Contents(b, UART_TX_BUFFER_SIZE), FifoDepth - Len(f))

(* UARTPrimeTransmit called by the handler, after it has written chars.    *)
WriteAndPrime(chars) ==
  LET b == Put(tx, UART_TX_BUFFER_SIZE, chars)
      out == Primed(b, fifo)
  IN /\ tx' = [b EXCEPT !.r = (@ + Len(out)) % UART_TX_BUFFER_SIZE]
     /\ fifo' = fifo \o out

(* UARTwrite called by the handler: what does not fit is discarded.        *)
Echo(chars) ==
  LET room == UART_TX_BUFFER_SIZE - 1 - GetBufferCount(tx, UART_TX_BUFFER_SIZE)
      accepted == Take(chars, room)
      full == Len(accepted) = room
  IN /\ WriteAndPrime(accepted)
     /\ due' = due \o accepted
     /\ raced' = \/ raced
                 \/ accepted # <<>> /\ pc \in {"storing", "load", "advance"}
                 \/ accepted # <<>> /\ pc \in {"testread", "store"} /\ full

NoEcho == UNCHANGED <<tx, fifo, due, raced>>

(* Get and clear the interrupts; refill the FIFO if that is one of them.   *)
IntEnter ==
  /\ intOn /\ isr = "out" /\ ((txRaw /\ txMask) \/ keys # <<>>)
  /\ isr' = IF keys # <<>> THEN "receive" ELSE "out"
  /\ IF txRaw /\ txMask
     THEN /\ WriteAndPrime(<<>>)
          /\ txRaw' = FALSE
          /\ txMask' = ~IsBufferEmpty(tx')
     ELSE UNCHANGED <<tx, fifo, txRaw, txMask>>
  /\ UNCHANGED <<buffered, prog, rx, noEcho, lastWasCR, keys, intOn, untyped, ghosts>>

(* Store c if there is room, and echo it.                                  *)
StoreAndEcho(c, echo) ==
  IF IsBufferFull(rx, UART_RX_BUFFER_SIZE) THEN NoEcho /\ UNCHANGED <<rx, kept>>
  ELSE /\ rx' = Put(rx, UART_RX_BUFFER_SIZE, <<c>>)
       /\ kept' = Append(kept, c)
       /\ IF noEcho THEN NoEcho ELSE Echo(<<echo>>)

(* The cases of a received character c, in the order of the code.          *)
IntErases(c) ==
  /\ ~noEcho /\ c = "BS"
  /\ IF RxEmpty THEN NoEcho /\ UNCHANGED <<rx, kept, peeked, underrun>>
     ELSE /\ Echo(<<"BS", " ", "BS">>)
          /\ rx' = [rx EXCEPT !.w = IF @ = 0 THEN UART_RX_BUFFER_SIZE - 1 ELSE @ - 1]
          /\ kept' = IF kept = <<>> THEN kept ELSE Front(kept)
          /\ peeked' = FALSE
          /\ underrun' = (underrun \/ (Advancing /\ GetBufferCount(rx, UART_RX_BUFFER_SIZE) = 1))
  /\ UNCHANGED lastWasCR

IntGobbles(c) ==
  /\ ~noEcho /\ c = "LF" /\ lastWasCR
  /\ lastWasCR' = FALSE
  /\ NoEcho /\ UNCHANGED <<rx, kept, peeked, underrun>>

(* The end of a line sends a line feed before the character is stored: the *)
(* ring gets what was typed (i32Char), the echo the CR put in cChar.       *)
IntEndsLine(c) ==
  /\ ~noEcho /\ c \in EndOfLine /\ ~(c = "LF" /\ lastWasCR)
  /\ lastWasCR' = (lastWasCR \/ c = "CR")
  /\ Echo(Written("LF"))
  /\ UNCHANGED <<rx, kept, peeked, underrun>>

IntStores(c) ==
  /\ noEcho \/ c \notin EndOfLine \cup {"BS"} \/ isr = "store"
  /\ StoreAndEcho(c, IF c \in EndOfLine THEN "CR" ELSE c)
  /\ UNCHANGED <<lastWasCR, peeked, underrun>>

IntReceive ==
  /\ keys # <<>>
  /\ LET c == Head(keys)
     IN \/ /\ isr = "receive" /\ IntEndsLine(c)
           /\ isr' = "store" /\ keys' = keys
        \/ /\ \/ isr = "receive" /\ (IntErases(c) \/ IntGobbles(c))
              \/ isr \in {"receive", "store"} /\ IntStores(c)
           /\ isr' = "receive" /\ keys' = Tail(keys)
  /\ UNCHANGED <<buffered, pc, text, tmp, at, line, calls, noEcho, txRaw, txMask, intOn, untyped,
                 screen>>

IntExit ==
  /\ isr = "receive" /\ keys = <<>>
  /\ WriteAndPrime(<<>>)
  /\ txMask' = TRUE
  /\ isr' = "out"
  /\ UNCHANGED <<buffered, prog, rx, noEcho, lastWasCR, keys, txRaw, intOn, untyped, ghosts>>

UARTStdioIntHandler == IntEnter \/ IntReceive \/ IntExit

-----------------------------------------------------------------------------
(* UARTgets without buffers                                                *)

(* The cases of a character, in the order of the code; what is echoed goes *)
(* through "test" so that the call waits for room in the FIFO.             *)
GetsErases ==
  /\ Head(keys) = "BS"
  /\ lastWasCR' = lastWasCR
  /\ IF line = <<>> THEN line' = line /\ text' = <<>>
     ELSE line' = Front(line) /\ text' = <<"BS", " ", "BS">>
  /\ pc' = "echo"

GetsGobbles ==
  /\ Head(keys) = "LF" /\ lastWasCR
  /\ lastWasCR' = FALSE
  /\ line' = line /\ text' = <<>> /\ pc' = "echo"

GetsEnds ==
  /\ Head(keys) \in EndOfLine /\ ~(Head(keys) = "LF" /\ lastWasCR)
  /\ lastWasCR' = (lastWasCR \/ Head(keys) = "CR")
  /\ line' = line /\ text' = <<>> /\ pc' = "ended"

GetsStoresEchoesAll ==
  /\ Head(keys) \notin EndOfLine \cup {"BS"}
  /\ lastWasCR' = lastWasCR
  /\ line' = IF Len(line) < LineLen - 1 THEN Append(line, Head(keys)) ELSE line
  /\ text' = <<Head(keys)>>
  /\ pc' = "echo"

GetsStores ==
  /\ Head(keys) \notin EndOfLine \cup {"BS"}
  /\ lastWasCR' = lastWasCR
  /\ IF Len(line) < LineLen - 1
     THEN line' = Append(line, Head(keys)) /\ text' = <<Head(keys)>>
     ELSE line' = line /\ text' = <<>>
  /\ pc' = "echo"

GetsChar ==
  /\ pc = "line" /\ keys # <<>>
  /\ GetsErases \/ GetsGobbles \/ GetsEnds \/ GetsStores
  /\ keys' = Tail(keys)
  /\ UNCHANGED <<buffered, tmp, at, peeked, calls, tx, rx, noEcho, fifo, txRaw, txMask,
                 intOn, untyped, ghosts>>

GetsEcho ==
  /\ pc = "echo"
  /\ \/ /\ text # <<>> /\ Len(fifo) < FifoDepth
        /\ fifo' = Append(fifo, Head(text)) /\ due' = Append(due, Head(text))
        /\ screen' = Shown(screen, Head(text))
        /\ text' = Tail(text) /\ pc' = pc
     \/ /\ text = <<>> /\ pc' = "line"
        /\ UNCHANGED <<fifo, due, screen, text>>
  /\ UNCHANGED <<buffered, tmp, at, line, peeked, calls, tx, rx, noEcho, lastWasCR,
                 keys, txRaw, txMask, intOn, untyped, kept, raced, underrun>>

(* UARTwrite("\r\n", 2) and the return of the line.                        *)
GetsReturn ==
  /\ pc = "ended"
  /\ line' = <<>> /\ text' = Translated(<<"CR", "LF">>)
  /\ pc' = "test"
  /\ UNCHANGED <<buffered, tmp, at, peeked, calls, tx, rx, noEcho, lastWasCR, uart, ghosts>>

-----------------------------------------------------------------------------
(* The hardware                                                            *)

HwSend ==
  /\ fifo # <<>>
  /\ fifo' = Tail(fifo)
  /\ due' = IF due = <<>> THEN due ELSE Tail(due)
  /\ txRaw' = (txRaw \/ Len(fifo) = FifoLevel + 1)
  /\ UNCHANGED <<buffered, isr, prog, tx, rx, noEcho, lastWasCR, keys, txMask, intOn, untyped,
                 kept, screen, raced, underrun>>

Type ==
  /\ pc # "off" /\ untyped # <<>>
  /\ keys' = Append(keys, Head(untyped))
  /\ untyped' = Tail(untyped)
  /\ UNCHANGED <<buffered, isr, prog, tx, rx, noEcho, lastWasCR, fifo, txRaw, txMask, intOn, ghosts>>

-----------------------------------------------------------------------------
Calls ==
  \/ UARTwrite \/ UARTgets \/ UARTgetc \/ UARTFlushRx \/ UARTFlushTxDiscard
  \/ UARTFlushTxWait \/ UARTEchoSet

Program ==
  \/ UARTStdioConfig
  \/ TxLoad \/ WriteTest \/ WriteStore \/ WriteAdvance \/ WriteCheck
  \/ PrimeTest \/ PrimeBegin \/ PrimeMove \/ PrimeAdvance \/ PrimeEnd \/ WriteEnable
  \/ FlushTest \/ PeekBegin \/ PeekNext \/ PeekEnd \/ RxTest \/ RxTake \/ RxAdvance
  \/ CharPut \/ GetsChar \/ GetsEcho \/ GetsReturn

(* The program stands still while the handler runs.                        *)
Foreground(A) == isr = "out" /\ A /\ isr' = isr

Next ==
  \/ Foreground(Calls \/ Program)
  \/ UARTStdioIntHandler
  \/ HwSend
  \/ Type

(* The processor runs the program whenever no interrupt is served, and     *)
(* serves an enabled interrupt; the UART sends what is in its FIFO.        *)
Spec ==
  /\ Init /\ [][Next]_vars
  /\ WF_vars(Foreground(Program)) /\ WF_vars(UARTStdioIntHandler) /\ WF_vars(HwSend)

-----------------------------------------------------------------------------
(* Everything accepted for transmission is in the FIFO or the ring, in     *)
(* order, unless the handler put an echo in the ring inside UARTwrite's    *)
(* store and advance, or filled the ring between the first load of the     *)
(* test that found room and the store that used it.  Every other stale     *)
(* answer, "full" or "empty" when it no longer is or the reverse, does no  *)
(* harm.                                                                   *)
OutputInOrder ==
  ~raced /\ pc # "moved" => fifo \o Contents(tx, UART_TX_BUFFER_SIZE) = due

(* The receive ring holds what was typed and not rubbed out (a line feed   *)
(* or an escape as itself, where the comments say a CR), and a line        *)
(* UARTPeek has seen the CR of can be read without waiting until a         *)
(* backspace is typed, unless the handler rubbed out the very character    *)
(* UARTgets or UARTgetc was taking.                                        *)
InputInOrder ==
  ~underrun => /\ Contents(rx, UART_RX_BUFFER_SIZE) = kept
               /\ peeked => "CR" \in ToSet(kept)

(* In the unbuffered build, when UARTgets ends a line the terminal shows   *)
(* exactly the characters it returns, however often they were rubbed out,  *)
(* swallowed or dropped for want of room.                                  *)
ScreenShowsLine ==
  ~buffered /\ pc \in {"line", "ended"} => screen = line /\ Len(line) < LineLen

(* A character in the transmit ring does not stay there for ever: either   *)
(* the FIFO passes its level and the handler moves more, or the ring is    *)
(* discarded.                                                              *)
RingDrains == []<>TxEmpty

(* No byte is lost, repeated or reordered in either ring.                  *)
BytesInOrder == OutputInOrder /\ InputInOrder
=============================================================================
