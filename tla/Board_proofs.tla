---------------------------- MODULE Board_proofs ----------------------------
(***************************************************************************)
(* Proofs about parts of HW5: the sensor (module Tmp102), for every set of *)
(* temperatures it can measure and every whole threshold from -128 to 127  *)
(* degrees; the time stamps (module Timestamp), for every clock; the       *)
(* spiders (module SpiderDemo), for every area, size and number of them;   *)
(* and the statistics (module IdleStats), whatever they become.            *)
(***************************************************************************)
EXTENDS Tmp102, Timestamp, SpiderDemo, IdleStats, FiniteSetTheorems, WellFoundedInduction, TLAPS

(* A number is its quotient by 256 and the rest.                            *)
LEMMA DivMod == ASSUME NEW v \in Int PROVE v = 256 * (v \div 256) + (v % 256)
BY Z3

(* A word has two bytes, and they put it together again.                    *)
LEMMA TwoBytes ==
  ASSUME NEW v \in Word
  PROVE  /\ v \div 256 \in Byte /\ v % 256 \in Byte
         /\ 256 * (v \div 256) + (v % 256) = v
<1>1. v \in Int /\ 0 <= v /\ v < 65536
  BY DEF Word
<1>2. v \div 256 \in Int /\ v % 256 \in Int /\ 0 <= v % 256 /\ v % 256 < 256
  BY <1>1
<1>3. v = 256 * (v \div 256) + (v % 256)
  BY <1>1, DivMod
<1>4. 0 <= v \div 256 /\ v \div 256 < 256
  BY <1>1, <1>2, <1>3
<1> QED BY <1>2, <1>3, <1>4 DEF Byte

(* What the sensor encodes, read_temperature decodes: i2c_read puts the two *)
(* bytes together and the arithmetic shift restores sign and fraction.      *)
LEMMA DecodeEncode ==
  ASSUME NEW t \in Sixteenths
  PROVE  /\ Encode(t) \in Word
         /\ Encode(t) \div 256 \in Byte /\ Encode(t) % 256 \in Byte
         /\ Converted(256 * (Encode(t) \div 256) + (Encode(t) % 256)) = t
<1>1. t \in Int /\ -2048 <= t /\ t <= 2047
  BY DEF Sixteenths
<1>2. Encode(t) = IF t >= 0 THEN 16 * t ELSE 16 * t + 65536
  BY <1>1 DEF Encode
<1>3. Encode(t) \in Word
  BY <1>1, <1>2 DEF Word
<1>4. int16(Encode(t)) = 16 * t
  BY <1>1, <1>2 DEF int16
<1>5. (16 * t) \div 16 = t
  BY <1>1
<1>6. Converted(Encode(t)) = t
  BY <1>4, <1>5 DEF Converted
<1> QED BY <1>3, <1>6, TwoBytes

(* The bytes i2c_write sends to a threshold register decode to its degrees. *)
LEMMA BufferDecodes ==
  ASSUME NEW reg \in {TLOW_REG, THIGH_REG}
  PROVE  LET b == Buffer(reg, Threshold) IN
         /\ b[1] = reg /\ b[2] \in Byte /\ b[3] \in Byte
         /\ 256 * b[2] + b[3] \in Word
         /\ Converted(256 * b[2] + b[3]) = 16 * Threshold
<1>1. Buffer(reg, Threshold) = <<reg, Threshold % 256, 0>>
  BY ThresholdAssumption DEF Degrees, Buffer, TLOW_REG, THIGH_REG, CONFIG_REG
<1>2. Threshold % 256 = IF Threshold >= 0 THEN Threshold ELSE Threshold + 256
  BY ThresholdAssumption DEF Degrees
<1> QED BY <1>1, <1>2, ThresholdAssumption DEF Degrees, Converted, int16, Word, Byte

(* The parts of the inductive invariant: what a read under way has fetched, *)
(* and what of the thresholds has arrived in the sensor.                    *)
ReadInv ==
  /\ regs[TEMP_REG] = Encode(heat)
  /\ pc \in {"high", "low"} => window \subseteq Temps
  /\ pc = "high" => pointer = TEMP_REG /\ heat \in window
  /\ pc = "low" => \E t \in window : /\ first = Encode(t) \div 256
                                     /\ second = Encode(t) % 256
  /\ ReadingIsCurrent

WriteInv ==
  /\ \A reg \in {TLOW_REG, THIGH_REG} :
       pc = (IF reg = TLOW_REG THEN "tlow" ELSE "thigh") =>
          /\ n > 1 => pointer = reg
          /\ n = 3 => first = Buffer(reg, Threshold)[2]
  /\ pc # "tlow" => Converted(regs[TLOW_REG]) = 16 * Threshold
  /\ pc \notin {"tlow", "thigh"} =>
        n = 1 /\ Converted(regs[THIGH_REG]) = 16 * Threshold
  /\ settled => pc \notin {"tlow", "thigh"}
  /\ AlertIsAtThreshold

Inv == TypeOK /\ ReadInv /\ WriteInv

(* Switched on, the sensor holds its own thresholds and nothing was read.   *)
LEMMA InitInv == Init => Inv
<1> SUFFICES ASSUME Init PROVE Inv
  OBVIOUS
<1>1. heat \in Sixteenths /\ 16 * 75 \in Sixteenths /\ 16 * 80 \in Sixteenths
  BY TempsAssumption DEF Init, Sixteenths
<1>2. /\ 24736 \in Word /\ Encode(heat) \in Word
      /\ Encode(16 * 75) \in Word /\ Encode(16 * 80) \in Word
  BY <1>1, DecodeEncode DEF Word
<1>3. PowerUp(heat) \in [Registers -> Word]
  BY <1>2 DEF PowerUp
<1>4. TypeOK
  <2>1. TEMP_REG \in Registers /\ 0 \in Byte /\ 1 \in 1..3
    BY DEF Registers, Byte
  <2> QED BY <1>3, <2>1 DEF Init, TypeOK
<1>5. PowerUp(heat)[TEMP_REG] = Encode(heat)
  BY DEF PowerUp, Registers
<1>6. ReadInv
  BY <1>5 DEF Init, ReadInv, ReadingIsCurrent
<1>7. WriteInv
  BY DEF Init, WriteInv, AlertIsAtThreshold, TLOW_REG, THIGH_REG
<1> QED BY <1>4, <1>6, <1>7 DEF Inv

(* Every byte of a transfer, and a conversion between any two, keeps it.    *)
LEMMA NextInv == Inv /\ [Next]_vars => Inv'
<1> SUFFICES ASSUME Inv, [Next]_vars PROVE Inv'
  OBVIOUS
<1> USE DEF Inv
<1>1. ASSUME NEW reg, NEW here, NEW after, i2c_write(reg, here, after),
             \/ reg = TLOW_REG /\ here = "tlow" /\ after = "thigh"
             \/ reg = THIGH_REG /\ here = "thigh" /\ after = "idle"
      PROVE  Inv'
  <2> DEFINE b == Buffer(reg, Threshold)
  <2>0. /\ b[1] = reg /\ b[2] \in Byte /\ b[3] \in Byte
        /\ 256 * b[2] + b[3] \in Word
        /\ Converted(256 * b[2] + b[3]) = 16 * Threshold
    BY <1>1, BufferDecodes
  <2> HIDE DEF b
  <2>1. /\ pc = here /\ n \in 1..3
        /\ pointer' = IF n = 1 THEN b[n] ELSE pointer
        /\ first' = IF n = 2 THEN b[n] ELSE first
        /\ regs' = IF n = 3 THEN [regs EXCEPT ![pointer] = 256 * first + b[n]] ELSE regs
        /\ n' = IF n = 3 THEN 1 ELSE n + 1
        /\ pc' = IF n = 3 THEN after ELSE here
        /\ settled' = FALSE
        /\ UNCHANGED <<heat, second, temperature, window, alert>>
    BY <1>1 DEF i2c_write, TypeOK, b
  <2>2. /\ n > 1 => pointer = reg
        /\ n = 3 => first = b[2]
    BY <1>1, <2>1 DEF WriteInv, TLOW_REG, THIGH_REG, b
  <2>3. n = 3 => regs' = [regs EXCEPT ![reg] = 256 * b[2] + b[3]]
    <3> SUFFICES ASSUME n = 3
                 PROVE  regs' = [regs EXCEPT ![reg] = 256 * b[2] + b[3]]
      OBVIOUS
    <3>1. pointer = reg /\ first = b[2] /\ b[n] = b[3]
      BY <2>2
    <3>2. regs' = [regs EXCEPT ![pointer] = 256 * first + b[n]]
      BY <2>1
    <3> QED BY <3>1, <3>2, Zenon
  <2>4. TypeOK'
    <3>1. reg \in Registers
      BY <1>1 DEF Registers
    <3>2. regs' \in [Registers -> Word]
      <4>1. CASE n = 3
        BY <2>0, <2>3, <3>1, <4>1 DEF TypeOK
      <4>2. CASE n # 3
        BY <2>1, <4>2 DEF TypeOK
      <4> QED BY <4>1, <4>2
    <3>3. pointer' \in Registers /\ first' \in Byte
      BY <2>0, <2>1, <3>1 DEF TypeOK
    <3>4. n' \in 1..3 /\ pc' \in {"tlow", "thigh", "idle", "high", "low"}
      BY <1>1, <2>1
    <3> QED BY <2>1, <3>2, <3>3, <3>4 DEF TypeOK
  <2>5. ReadInv'
    <3>1. pc \notin {"high", "low"} /\ pc' \notin {"high", "low"}
      BY <1>1, <2>1
    <3>2. regs'[TEMP_REG] = regs[TEMP_REG]
      BY <1>1, <2>1, <2>3 DEF TypeOK, Registers, TEMP_REG, TLOW_REG, THIGH_REG
    <3> QED BY <2>1, <3>1, <3>2 DEF ReadInv, ReadingIsCurrent
  <2>6. WriteInv'
    BY <1>1, <2>0, <2>1, <2>2, <2>3 DEF WriteInv, AlertIsAtThreshold, TypeOK, Registers, TLOW_REG, THIGH_REG, b
  <2> QED BY <2>4, <2>5, <2>6
<1>2. CASE ReadPointer
  <2>1. TypeOK'
    BY <1>2 DEF ReadPointer, TypeOK, Registers
  <2>2. ReadInv' /\ WriteInv'
    BY <1>2 DEF ReadPointer, ReadInv, WriteInv, ReadingIsCurrent, AlertIsAtThreshold, TypeOK
  <2> QED BY <2>1, <2>2
<1>3. CASE ReadHigh
  <2>1. regs[pointer] = Encode(heat) /\ heat \in Sixteenths
    BY <1>3, TempsAssumption DEF ReadHigh, ReadInv, TypeOK
  <2>2. TypeOK'
    BY <1>3, <2>1, DecodeEncode DEF ReadHigh, TypeOK
  <2>3. ReadInv' /\ WriteInv'
    BY <1>3, <2>1 DEF ReadHigh, ReadInv, WriteInv, ReadingIsCurrent, AlertIsAtThreshold
  <2> QED BY <2>2, <2>3
<1>4. CASE ReadLow
  <2>1. PICK t \in window : t \in Temps /\ first = Encode(t) \div 256 /\ second = Encode(t) % 256
    BY <1>4 DEF ReadLow, ReadInv
  <2>2. temperature' = t
    BY <1>4, <2>1, DecodeEncode, TempsAssumption DEF ReadLow
  <2>3. TypeOK'
    BY <1>4, <2>1, <2>2 DEF ReadLow, TypeOK
  <2>4. ReadInv' /\ WriteInv'
    BY <1>4, <2>1, <2>2 DEF ReadLow, ReadInv, WriteInv, ReadingIsCurrent, AlertIsAtThreshold
  <2> QED BY <2>3, <2>4
<1>5. ASSUME NEW t \in Temps, Convert(t) PROVE Inv'
  <2>1. Encode(t) \in Word
    BY TempsAssumption, DecodeEncode
  <2>2. TypeOK'
    BY <1>5, <2>1 DEF Convert, TypeOK, Registers, TEMP_REG
  <2>3. ReadInv'
    BY <1>5 DEF Convert, ReadInv, ReadingIsCurrent, TypeOK, Registers, TEMP_REG
  <2>4. WriteInv'
    BY <1>5 DEF Convert, WriteInv, AlertIsAtThreshold, TypeOK, Registers, TEMP_REG, TLOW_REG, THIGH_REG
  <2> QED BY <2>2, <2>3, <2>4
<1>6. CASE UNCHANGED vars
  BY <1>6 DEF vars, TypeOK, ReadInv, WriteInv, ReadingIsCurrent, AlertIsAtThreshold
<1> QED BY <1>1, <1>2, <1>3, <1>4, <1>5, <1>6 DEF Next, SetUp

(* The bytes of i2c_read and i2c_write under way always belong to one       *)
(* temperature of the reading's window, and to the threshold.               *)
THEOREM Invariance == Spec => []Inv
BY InitInv, NextInv, PTL DEF Spec

(* The state of the I2C conversation has its types: every byte fits a byte. *)
THEOREM TypeCorrect == Spec => []TypeOK
BY Invariance, PTL DEF Inv

(* Every reading TemperatureTask takes is a temperature the sensor measured *)
(* while i2c_read was under way, below zero as well as above.               *)
THEOREM ReadingsAreCurrent == Spec => []ReadingIsCurrent
BY Invariance, PTL DEF Inv, ReadInv

(* After i2c_write has set both registers, the ALERT pin is low exactly at  *)
(* or above the threshold, for every whole threshold that fits 8 bits.      *)
THEOREM AlertsAtThreshold == Spec => []AlertIsAtThreshold
BY Invariance, PTL DEF Inv, WriteInv

-----------------------------------------------------------------------------
(* The time stamps.                                                        *)

(* Quotient and rest.                                                      *)
LEMMA Quotient ==
  ASSUME NEW a \in Nat, NEW d \in Nat \ {0}
  PROVE  /\ a \div d \in Nat
         /\ (a \div d) * d \in Nat
         /\ (a \div d) * d <= a
         /\ a < (a \div d) * d + d
BY Z3

(* Division is monotone.                                                   *)
LEMMA QuotientMonotone ==
  ASSUME NEW a \in Nat, NEW b \in Nat, NEW d \in Nat \ {0}, a <= b
  PROVE  a \div d <= b \div d /\ (a \div d) * d <= (b \div d) * d
<1> DEFINE p == a \div d
           q == b \div d
<1>1. /\ p \in Nat /\ p * d \in Nat /\ p * d <= a
      /\ q \in Nat /\ q * d \in Nat /\ b < q * d + d
  BY Quotient
<1> HIDE DEF p, q
<1>2. p <= q
  <2>1. SUFFICES ASSUME q + 1 <= p PROVE FALSE
    BY <1>1
  <2>2. (q + 1) * d <= p * d
    BY <1>1, <2>1, Z3
  <2>3. (q + 1) * d = q * d + d
    BY <1>1, Z3
  <2> QED BY <1>1, <2>2, <2>3
<1>3. p * d <= q * d
  BY <1>1, <1>2, Z3
<1> QED BY <1>2, <1>3 DEF p, q

(* While the conversion fits its word it loses nothing, and it is monotone. *)
LEMMA TicksMonotone ==
  ASSUME NEW a \in Nat, NEW b \in Nat, a <= b, Fits(b)
  PROVE  /\ TicksToMS(a) \in Nat /\ TicksToMS(b) \in Nat
         /\ TicksToMS(a) <= TicksToMS(b)
<1>1. /\ a * MsPerSec \in Nat /\ b * MsPerSec \in Nat
      /\ a * MsPerSec <= b * MsPerSec /\ b * MsPerSec < TickWord
  BY ClockAssumption, Z3 DEF Fits
<1>2. /\ (a * MsPerSec) % TickWord = a * MsPerSec
      /\ (b * MsPerSec) % TickWord = b * MsPerSec
  BY <1>1, ClockAssumption
<1> QED BY <1>1, <1>2, Quotient, QuotientMonotone, ClockAssumption DEF TicksToMS

(* The two fields timestamp() returns, for any tick.                       *)
LEMMA StampFields ==
  ASSUME NEW a \in Nat
  PROVE  /\ TicksToMS(a) \in Nat
         /\ timestamp(a) \in Stamp
         /\ timestamp(a).sec = TicksToMS(a) \div MsPerSec
         /\ timestamp(a).msec = TicksToMS(a) - (TicksToMS(a) \div MsPerSec) * MsPerSec
<1>1. (a * MsPerSec) % TickWord \in Nat
  BY ClockAssumption
<1>2. TicksToMS(a) \in Nat
  BY <1>1, Quotient, ClockAssumption DEF TicksToMS
<1> DEFINE q == TicksToMS(a) \div MsPerSec
<1>3. /\ q \in Nat /\ q * MsPerSec \in Nat /\ q * MsPerSec <= TicksToMS(a)
      /\ TicksToMS(a) < q * MsPerSec + MsPerSec
  BY <1>2, Quotient, ClockAssumption
<1>4. timestamp(a) = [sec |-> q, msec |-> TicksToMS(a) - q * MsPerSec]
  BY DEF timestamp
<1> HIDE DEF q
<1>5. TicksToMS(a) - q * MsPerSec \in 0..(MsPerSec - 1)
  BY <1>2, <1>3, ClockAssumption
<1>6. timestamp(a) \in Stamp
  BY <1>3, <1>4, <1>5 DEF Stamp
<1> QED BY <1>2, <1>4, <1>6 DEF q

(* A stamp under way: when it was begun, and what its first call left.     *)
StampInv ==
  /\ StampTypeOK
  /\ \A s \in Senders :
       /\ began[s] <= now /\ ended[s] <= now
       /\ stamping[s] = "msec" => stamp[s].sec = TicksToMS(began[s]) \div MsPerSec
  /\ StampWithinASecond

(* The two fields of ticks b and e, put together.                          *)
LEMMA TwoFields ==
  ASSUME NEW b \in Nat, NEW e \in Nat, b <= e, Fits(e),
         NEW x \in Stamp, x.sec = timestamp(b).sec, x.msec = timestamp(e).msec
  PROVE  Shows(x) <= TicksToMS(e) /\ TicksToMS(b) < Shows(x) + MsPerSec
<1> DEFINE p == TicksToMS(b) \div MsPerSec
           q == TicksToMS(e) \div MsPerSec
<1>1. /\ TicksToMS(b) \in Nat /\ TicksToMS(e) \in Nat
      /\ TicksToMS(b) <= TicksToMS(e)
  BY TicksMonotone
<1>2. /\ q \in Nat /\ q * MsPerSec \in Nat /\ q * MsPerSec <= TicksToMS(e)
      /\ p \in Nat /\ p * MsPerSec \in Nat
      /\ TicksToMS(b) < p * MsPerSec + MsPerSec
      /\ p * MsPerSec <= q * MsPerSec
  BY <1>1, Quotient, QuotientMonotone, ClockAssumption
<1>3. Shows(x) = p * MsPerSec + (TicksToMS(e) - q * MsPerSec)
  BY StampFields DEF Shows
<1> HIDE DEF p, q
<1> QED BY <1>1, <1>2, <1>3, ClockAssumption

LEMMA StampStep == StampInv /\ [StampNext]_stampVars => StampInv'
<1> SUFFICES ASSUME StampInv, [StampNext]_stampVars PROVE StampInv'
  OBVIOUS
<1> USE ClockAssumption
<1>0. now \in Nat /\ \A s \in Senders : began[s] \in Nat /\ ended[s] \in Nat /\ stamp[s] \in Stamp
  BY DEF StampInv, StampTypeOK
<1>1. CASE Tick
  BY <1>0, <1>1 DEF Tick, StampInv, StampTypeOK, StampWithinASecond
<1>2. ASSUME NEW s \in Senders, StampOnce(s) PROVE StampInv'
  <2>1. timestamp(now) \in Stamp
    BY <1>0, StampFields
  <2>2. StampTypeOK'
    BY <1>2, <2>1 DEF StampOnce, StampInv, StampTypeOK
  <2>3. Fits(now) => /\ Shows(timestamp(now)) <= TicksToMS(now)
                     /\ TicksToMS(now) < Shows(timestamp(now)) + MsPerSec
    BY <1>0, <2>1, TwoFields
  <2> QED BY <1>2, <2>2, <2>3 DEF StampOnce, StampInv, StampTypeOK, StampWithinASecond
<1>3. ASSUME NEW s \in Senders, StampSec(s) PROVE StampInv'
  <2>1. timestamp(now) \in Stamp /\ timestamp(now).sec = TicksToMS(now) \div MsPerSec
    BY <1>0, StampFields
  <2>2. stamp'[s] = [stamp[s] EXCEPT !.sec = timestamp(now).sec]
    BY <1>3 DEF StampSec, StampInv, StampTypeOK
  <2>3. stamp'[s] \in Stamp /\ stamp'[s].sec = TicksToMS(now) \div MsPerSec
    BY <1>0, <2>1, <2>2 DEF Stamp
  <2>4. StampTypeOK'
    BY <1>3, <2>3 DEF StampSec, StampInv, StampTypeOK
  <2> QED BY <1>3, <2>3, <2>4 DEF StampSec, StampInv, StampTypeOK, StampWithinASecond
<1>4. ASSUME NEW s \in Senders, StampMsec(s) PROVE StampInv'
  <2>1. /\ timestamp(now) \in Stamp
        /\ timestamp(began[s]).sec = TicksToMS(began[s]) \div MsPerSec
    BY <1>0, StampFields
  <2>2. stamp'[s] = [stamp[s] EXCEPT !.msec = timestamp(now).msec]
    BY <1>4 DEF StampMsec, StampInv, StampTypeOK
  <2>3. /\ stamp'[s] \in Stamp /\ stamp'[s].msec = timestamp(now).msec
        /\ stamp'[s].sec = timestamp(began[s]).sec
    BY <1>0, <1>4, <2>1, <2>2 DEF Stamp, StampMsec, StampInv
  <2>4. StampTypeOK'
    BY <1>4, <2>3 DEF StampMsec, StampInv, StampTypeOK
  <2>5. Fits(now) => /\ Shows(stamp'[s]) <= TicksToMS(now)
                     /\ TicksToMS(began[s]) < Shows(stamp'[s]) + MsPerSec
    BY <1>0, <2>3, TwoFields DEF StampInv
  <2> QED BY <1>4, <2>4, <2>5 DEF StampMsec, StampInv, StampTypeOK, StampWithinASecond
<1>5. ASSUME NEW s \in Senders, Send(s) PROVE StampInv'
  BY <1>0, <1>5 DEF Send, StampInv, StampTypeOK, StampWithinASecond
<1>6. CASE UNCHANGED stampVars
  BY <1>6 DEF stampVars, StampInv, StampTypeOK, StampWithinASecond
<1> QED BY <1>1, <1>2, <1>3, <1>4, <1>5, <1>6 DEF StampNext

(* Whatever the clock's rate and width, and wherever the tick falls between *)
(* the two calls of timestamp(), a stamp is not ahead of the clock and less *)
(* than a second behind, until ticks * 1000 overflows.                      *)
THEOREM StampsAreRecent == StampSpec => []StampWithinASecond
<1>1. StampInit => StampInv
  BY ClockAssumption DEF StampInit, StampInv, StampTypeOK, StampWithinASecond, Stamp
<1> QED BY <1>1, StampStep, PTL DEF StampInv, StampSpec

-----------------------------------------------------------------------------
(* The spiders.                                                            *)

(* A set of naturals has a least element: the search for the first slot or *)
(* task that is free finds one when there is one.                          *)
LEMMA Least ==
  ASSUME NEW S \in SUBSET Nat, S # {}
  PROVE  \E x \in S : \A y \in S : x <= y
<1> DEFINE R == OpToRel(<, Nat)
<1>1. IsWellFoundedOn(R, Nat)
  BY NatLessThanWellFounded
<1>2. \A x, y \in Nat : <<y, x>> \in R <=> y < x
  BY DEF OpToRel
<1> HIDE DEF R
<1>3. PICK x \in S : \A y \in S : ~(<<y, x>> \in R)
  BY <1>1, WFMin
<1>4. ASSUME NEW y \in S PROVE x <= y
  <2>1. x \in Nat /\ y \in Nat /\ ~(y < x)
    BY <1>2, <1>3
  <2> QED BY <2>1
<1> QED BY <1>4

Point == Int \X Int
TaskPC == {"none", "start", "started", "loop", "move", "moved", "wait", "dying", "cleared"}

(* Before a task has copied its spider's position.                         *)
Fresh == {"none", "start", "started"}

SpiderTypeOK ==
  /\ alive \subseteq Slot /\ dead \subseteq Slot
  /\ position \in [Slot -> Point]
  /\ spider \in [Task -> [pc : TaskPC, of : Slot, at : Point]]
  /\ controlQueue \in Seq(Nat \X Nat)

(* A spider that is not shared has one task, which is where the spider is. *)
OwnInv ==
  /\ \A t, u \in Task :
       /\ spider[t].pc # "none" /\ spider[u].pc # "none"
       /\ spider[t].of = spider[u].of /\ spider[t].of \notin shared
       => t = u
  /\ \A t \in Task : spider[t].of \notin shared =>
       /\ spider[t].pc \notin {"none", "start"} => spider[t].of \in alive
       /\ spider[t].pc \notin Fresh => spider[t].at = position[spider[t].of]

AreaInv ==
  \A t \in Task :
    /\ spider[t].pc # "none" => Inside(position[spider[t].of])
    /\ spider[t].pc \notin Fresh => Inside(spider[t].at)

(* Task t is at the image at q, or one step from it and about to draw.     *)
Minds(t, q) ==
  \/ spider[t].pc \in {"loop", "move", "wait", "dying"} /\ spider[t].at = q
  \/ spider[t].pc = "moved" /\ Hides(spider[t].at, q)
Minded(q) == \E t \in Task : Minds(t, q)

(* At most one request is in the queue; with it, every image is minded.    *)
Pictures(S) == [spiders |-> S, lines |-> {}, texts |-> [x \in TheBoxes |-> {}]]
Image(p, b) == [type |-> "image", at |-> p, spider |-> b]
DrawnInv ==
  /\ canvas = Pictures(canvas.spiders) /\ canvas.spiders \subseteq Point
  /\ \/ displayQueue = <<>> /\ \A q \in canvas.spiders : Minded(q)
     \/ \E p \in Point, b \in BOOLEAN :
          /\ displayQueue = <<Image(p, b)>>
          /\ \A q \in canvas.spiders : Hides(p, q) \/ Minded(q)
          /\ b => Minded(p)

SpiderInv == SpiderTypeOK /\ OwnInv /\ AreaInv /\ DrawnInv

(* A spider that is put somewhere fits its area.                           *)
LEMMA AdjustedInside ==
  ASSUME NEW x \in Int, NEW y \in Int
  PROVE  Adjusted(<<x, y>>) \in Point /\ Inside(Adjusted(<<x, y>>))
<1>1. Half \in Nat /\ 2 * Half <= SPIDER_SIZE
  BY SpiderAssumption DEF Half
<1> DEFINE v == Within(x, Half, AREA_WIDTH - Half)
           w == Within(y, Half, AREA_HEIGHT - Half)
<1>2. v \in Half..AREA_WIDTH - Half /\ w \in Half..AREA_HEIGHT - Half
  BY <1>1, SpiderAssumption DEF Within
<1>3. Adjusted(<<x, y>>) = <<v, w>>
  BY DEF Adjusted
<1> HIDE DEF v, w
<1>4. v \in Int /\ w \in Int
  BY <1>1, <1>2, SpiderAssumption
<1> QED BY <1>2, <1>3, <1>4 DEF Inside, Point

LEMMA SpiderStart == SpiderInit => SpiderInv
<1> SUFFICES ASSUME SpiderInit PROVE SpiderInv
  OBVIOUS
<1>0. InitialSpiders \in Nat \ {0} /\ \A t \in Task : t \in Nat
  BY SpiderAssumption DEF Task
<1> DEFINE home(s) == <<s * (AREA_WIDTH \div InitialSpiders) + AREA_WIDTH \div (2 * InitialSpiders), AREA_HEIGHT \div 2>>
<1>1. ASSUME NEW s \in Slot PROVE Adjusted(home(s)) \in Point /\ Inside(Adjusted(home(s)))
  <2>1. s \in Int /\ InitialSpiders \in Nat \ {0} /\ AREA_WIDTH \in Nat /\ AREA_HEIGHT \in Nat
    BY SpiderAssumption DEF Slot
  <2>2. AREA_WIDTH \div InitialSpiders \in Int /\ AREA_WIDTH \div (2 * InitialSpiders) \in Int
        /\ AREA_HEIGHT \div 2 \in Int
    BY <2>1
  <2>3. s * (AREA_WIDTH \div InitialSpiders) + AREA_WIDTH \div (2 * InitialSpiders) \in Int
    BY <2>1, <2>2
  <2> QED BY <2>2, <2>3, AdjustedInside
<1> HIDE DEF home
<1>2. /\ \A s \in Slot : position[s] = IF s < InitialSpiders THEN Adjusted(home(s)) ELSE <<0, 0>>
      /\ DOMAIN position = Slot /\ position = [s \in Slot |-> position[s]]
  BY DEF SpiderInit, home
<1>3. <<0, 0>> \in Point
  BY DEF Point
<1>4. position \in [Slot -> Point]
  BY <1>1, <1>2, <1>3
<1>5. 0 \in Slot /\ \A t \in Task : t <= InitialSpiders => t - 1 \in Slot /\ t - 1 < InitialSpiders
  BY SpiderAssumption DEF Slot, Task
<1>6. ASSUME NEW t \in Task
      PROVE  /\ spider[t].pc = (IF t <= InitialSpiders THEN "start" ELSE "none")
             /\ spider[t].of = (IF t <= InitialSpiders THEN t - 1 ELSE 0)
             /\ spider[t] \in [pc : TaskPC, of : Slot, at : Point]
  <2>1. CASE t <= InitialSpiders
    <3>1. spider[t] = [pc |-> "start", of |-> t - 1, at |-> <<0, 0>>]
      BY <2>1 DEF SpiderInit
    <3> QED BY <1>3, <1>5, <2>1, <3>1 DEF TaskPC
  <2>2. CASE ~(t <= InitialSpiders)
    <3>1. spider[t] = [pc |-> "none", of |-> 0, at |-> <<0, 0>>]
      BY <2>2 DEF SpiderInit, NoTask
    <3> QED BY <1>3, <1>5, <2>2, <3>1 DEF TaskPC
  <2> QED BY <2>1, <2>2
<1>7. SpiderTypeOK
  <2>1. alive \subseteq Slot
    BY SpiderAssumption DEF SpiderInit, Slot
  <2>3. spider \in [Task -> [pc : TaskPC, of : Slot, at : Point]]
    BY <1>6 DEF SpiderInit
  <2> QED BY <1>4, <2>1, <2>3 DEF SpiderInit, SpiderTypeOK
<1>8. OwnInv
  BY <1>0, <1>6 DEF OwnInv, Fresh
<1>9. AreaInv
  BY <1>0, <1>1, <1>2, <1>5, <1>6 DEF AreaInv, Fresh
<1>10. DrawnInv
  BY DEF SpiderInit, DisplayInit, DrawnInv, Pictures
<1> QED BY <1>7, <1>8, <1>9, <1>10 DEF SpiderInv

(* A task goes on, at p: all other tasks are as before.                    *)
LEMMA GoesOn ==
  ASSUME SpiderTypeOK, NEW t \in Task, NEW to \in TaskPC, NEW p \in Point,
         spider' = [spider EXCEPT ![t].pc = to, ![t].at = p]
  PROVE  /\ spider' \in [Task -> [pc : TaskPC, of : Slot, at : Point]]
         /\ spider'[t].pc = to /\ spider'[t].of = spider[t].of /\ spider'[t].at = p
         /\ \A u \in Task \ {t} : spider'[u] = spider[u]
BY DEF SpiderTypeOK

LEMMA StepsOn ==
  ASSUME SpiderTypeOK, NEW t \in Task, NEW from, NEW to \in TaskPC, Step(t, from, to)
  PROVE  /\ spider[t].pc = from
         /\ spider' \in [Task -> [pc : TaskPC, of : Slot, at : Point]]
         /\ spider'[t].pc = to /\ spider'[t].of = spider[t].of /\ spider'[t].at = spider[t].at
         /\ \A u \in Task \ {t} : spider'[u] = spider[u]
BY DEF SpiderTypeOK, Step

(* As long as the queue is empty, the images must stay minded.             *)
LEMMA NothingToDraw ==
  ASSUME DrawnInv, displayQueue = <<>>, UNCHANGED <<displayQueue, canvas>>,
         \A q \in Point : Minded(q) => Minded(q)'
  PROVE  DrawnInv'
BY DEF DrawnInv

(* Every step of a spider's task keeps the invariant.                      *)
LEMMA SpiderTaskStep ==
  ASSUME SpiderInv, NEW t \in Task, SpiderRuns(t)
  PROVE  SpiderInv'
<1> USE DEF SpiderInv
<1>0. /\ displayQueue = <<>> /\ UNCHANGED <<controlQueue, shared>>
      /\ spider[t].of \in Slot /\ spider[t].at \in Point
      /\ position[spider[t].of] \in Point
  BY DEF SpiderRuns, DisplayLets, PRIORITY_DISPLAY_TASK, PRIORITY_SPIDER_TASK, SpiderTypeOK
<1>1. CASE SpiderTaskStarts(t)
  <2>1. /\ spider[t].pc = "start" /\ spider'[t].pc = "started"
        /\ spider' \in [Task -> [pc : TaskPC, of : Slot, at : Point]]
        /\ spider'[t].of = spider[t].of /\ spider'[t].at = spider[t].at
        /\ \A u \in Task \ {t} : spider'[u] = spider[u]
        /\ alive' = alive \cup {spider[t].of}
        /\ UNCHANGED <<displayVars, dead, position>>
    BY <1>1, StepsOn DEF SpiderTaskStarts, TaskPC
  <2>2. SpiderTypeOK'
    BY <1>0, <2>1 DEF SpiderTypeOK
  <2>3. OwnInv' /\ AreaInv'
    BY <1>0, <2>1 DEF OwnInv, AreaInv, Fresh
  <2>4. \A q \in Point : Minded(q) => Minded(q)'
    BY <2>1 DEF Minded, Minds
  <2> QED BY <1>0, <2>1, <2>2, <2>3, <2>4, NothingToDraw DEF displayVars
<1>2. CASE SpiderTaskReady(t)
  <2>1. /\ spider[t].pc = "started" /\ spider'[t].pc = "loop"
        /\ spider' \in [Task -> [pc : TaskPC, of : Slot, at : Point]]
        /\ spider'[t].of = spider[t].of /\ spider'[t].at = position[spider[t].of]
        /\ \A u \in Task \ {t} : spider'[u] = spider[u]
        /\ dead' = dead \ {spider[t].of}
        /\ UNCHANGED <<displayVars, alive, position>>
    <3>1. /\ spider[t].pc = "started"
          /\ spider' = [spider EXCEPT ![t].pc = "loop", ![t].at = position[spider[t].of]]
          /\ dead' = dead \ {spider[t].of}
          /\ UNCHANGED <<displayVars, alive, position>>
      BY <1>2 DEF SpiderTaskReady
    <3>2. "loop" \in TaskPC
      BY DEF TaskPC
    <3>3. position[spider[t].of] \in Point /\ SpiderTypeOK
      BY <1>0
    <3>4. /\ spider' \in [Task -> [pc : TaskPC, of : Slot, at : Point]]
          /\ spider'[t].pc = "loop" /\ spider'[t].of = spider[t].of
          /\ spider'[t].at = position[spider[t].of]
          /\ \A u \in Task \ {t} : spider'[u] = spider[u]
      <4> DEFINE q == position[spider[t].of]
      <4>1. spider' = [spider EXCEPT ![t].pc = "loop", ![t].at = q] /\ q \in Point /\ SpiderTypeOK
        BY <3>1, <3>3
      <4> HIDE DEF q
      <4>2. /\ spider' \in [Task -> [pc : TaskPC, of : Slot, at : Point]]
            /\ spider'[t].pc = "loop" /\ spider'[t].of = spider[t].of
            /\ spider'[t].at = q
            /\ \A u \in Task \ {t} : spider'[u] = spider[u]
        BY <3>2, <4>1 DEF SpiderTypeOK
      <4> QED BY <4>2 DEF q
    <3> QED BY <3>1, <3>4
  <2>2. SpiderTypeOK'
    BY <1>0, <2>1 DEF SpiderTypeOK
  <2>a. ASSUME NEW u \in Task
        PROVE  /\ spider'[u].of = spider[u].of
               /\ (spider'[u].pc = "none") <=> (spider[u].pc = "none")
               /\ (spider'[u].pc \in {"none", "start"}) <=> (spider[u].pc \in {"none", "start"})
               /\ u = t \/ spider'[u] = spider[u]
    <3>1. CASE u = t
      BY <2>1, <3>1
    <3>2. CASE u # t
      BY <2>1, <3>2
    <3> QED BY <3>1, <3>2
  <2>3. OwnInv'
    <3>1. ASSUME NEW u \in Task, NEW v \in Task,
                 spider'[u].pc # "none", spider'[v].pc # "none",
                 spider'[u].of = spider'[v].of, spider'[u].of \notin shared'
          PROVE  u = v
      BY <1>0, <2>a, <3>1 DEF OwnInv
    <3>2. ASSUME NEW u \in Task, spider'[u].of \notin shared'
          PROVE  /\ spider'[u].pc \notin {"none", "start"} => spider'[u].of \in alive'
                 /\ spider'[u].pc \notin Fresh => spider'[u].at = position'[spider'[u].of]
      BY <1>0, <2>1, <2>a, <3>2 DEF OwnInv
    <3> QED BY <3>1, <3>2 DEF OwnInv, Fresh
  <2>5. AreaInv'
    <3>1. ASSUME NEW u \in Task
          PROVE  /\ spider'[u].pc # "none" => Inside(position'[spider'[u].of])
                 /\ spider'[u].pc \notin Fresh => Inside(spider'[u].at)
      BY <2>1, <2>a, <3>1 DEF AreaInv
    <3> QED BY <3>1 DEF AreaInv, Fresh, Inside
  <2>4. \A q \in Point : Minded(q) => Minded(q)'
    BY <2>1 DEF Minded, Minds
  <2> QED BY <1>0, <2>1, <2>2, <2>3, <2>4, <2>5, NothingToDraw DEF displayVars
<1>3. CASE SpiderTaskLooks(t) \/ SpiderTaskWakes(t)
  <2>1. /\ spider[t].pc \in {"loop", "wait"} /\ spider'[t].pc \in {"dying", "move", "loop"}
        /\ spider' \in [Task -> [pc : TaskPC, of : Slot, at : Point]]
        /\ spider'[t].of = spider[t].of /\ spider'[t].at = spider[t].at
        /\ \A u \in Task \ {t} : spider'[u] = spider[u]
        /\ UNCHANGED <<displayVars, alive, dead, position>>
    BY <1>3, StepsOn DEF SpiderTaskLooks, SpiderTaskWakes, TaskPC
  <2>2. SpiderTypeOK'
    BY <1>0, <2>1 DEF SpiderTypeOK
  <2>3. OwnInv' /\ AreaInv'
    BY <1>0, <2>1 DEF OwnInv, AreaInv, Fresh
  <2>4. \A q \in Point : Minded(q) => Minded(q)'
    BY <2>1 DEF Minded, Minds
  <2> QED BY <1>0, <2>1, <2>2, <2>3, <2>4, NothingToDraw DEF displayVars
<1>4. CASE SpiderTaskMoves(t)
  <2>1. PICK dx \in -1..1, dy \in -1..1 :
          LET p == <<spider[t].at[1] + dx, spider[t].at[2] + dy>>
          IN /\ p = spider[t].at \/ (Inside(p) /\ ~SpiderCollide(spider[t].of, p))
             /\ position' = [position EXCEPT ![spider[t].of] = p]
             /\ spider' = [spider EXCEPT ![t].pc = "moved", ![t].at = p]
    BY <1>4 DEF SpiderTaskMoves
  <2> DEFINE p == <<spider[t].at[1] + dx, spider[t].at[2] + dy>>
  <2>2. /\ p \in Point /\ Hides(p, spider[t].at)
        /\ p = spider[t].at \/ Inside(p)
    <3>1. spider[t].at \in Point
      BY <1>0
    <3>2. spider[t].at[1] \in Int /\ spider[t].at[2] \in Int
      BY <3>1 DEF Point
    <3>3. p[1] = spider[t].at[1] + dx /\ p[2] = spider[t].at[2] + dy /\ dx \in Int /\ dy \in Int
      OBVIOUS
    <3>4. p \in Point
      BY <3>2, <3>3 DEF Point
    <3>5. p = spider[t].at \/ Inside(p)
      BY <2>1
    <3> HIDE DEF p
    <3>6. p[1] - spider[t].at[1] = dx /\ p[2] - spider[t].at[2] = dy
      BY <3>2, <3>3
    <3> QED BY <3>4, <3>5, <3>6 DEF Hides
  <2>3. /\ position' = [position EXCEPT ![spider[t].of] = p]
        /\ spider' = [spider EXCEPT ![t].pc = "moved", ![t].at = p]
    BY <2>1
  <2> HIDE DEF p
  <2>4. /\ spider[t].pc = "move" /\ spider'[t].pc = "moved"
        /\ spider' \in [Task -> [pc : TaskPC, of : Slot, at : Point]]
        /\ spider'[t].of = spider[t].of /\ spider'[t].at = p
        /\ \A u \in Task \ {t} : spider'[u] = spider[u]
        /\ UNCHANGED <<displayVars, alive, dead>>
    BY <1>4, <2>2, <2>3, GoesOn DEF SpiderTaskMoves, TaskPC
  <2>5. /\ position' \in [Slot -> Point] /\ position'[spider[t].of] = p
        /\ \A s \in Slot \ {spider[t].of} : position'[s] = position[s]
    BY <1>0, <2>2, <2>3 DEF SpiderTypeOK
  <2>6. SpiderTypeOK'
    BY <1>0, <2>4, <2>5 DEF SpiderTypeOK
  <2>7. Inside(p)
    BY <2>2, <2>4 DEF AreaInv, Fresh
  <2>8. OwnInv'
    BY <1>0, <2>4, <2>5, <2>6 DEF OwnInv, Fresh, SpiderTypeOK
  <2>9. AreaInv'
    <3>1. ASSUME NEW u \in Task
          PROVE  /\ spider'[u].pc # "none" => Inside(position'[spider'[u].of])
                 /\ spider'[u].pc \notin Fresh => Inside(spider'[u].at)
      <4>1. CASE u = t
        BY <2>4, <2>5, <2>7, <4>1
      <4>2. CASE u # t
        <5>1. spider'[u] = spider[u] /\ spider[u].of \in Slot
          BY <2>4, <4>2 DEF SpiderTypeOK
        <5> QED BY <2>5, <2>7, <5>1 DEF AreaInv
      <4> QED BY <4>1, <4>2
    <3> QED BY <3>1 DEF AreaInv, Fresh, Inside
  <2>10. ASSUME NEW q \in Point, NEW u \in Task, Minds(u, q) PROVE Minds(u, q)'
    <3>1. CASE u = t
      <4>1. spider[t].at = q
        BY <2>4, <2>10, <3>1 DEF Minds
      <4> QED BY <2>2, <2>4, <3>1, <4>1 DEF Minds
    <3>2. CASE u # t
      BY <2>4, <2>10, <3>2 DEF Minds
    <3> QED BY <3>1, <3>2
  <2> QED BY <1>0, <2>4, <2>6, <2>8, <2>9, <2>10, NothingToDraw DEF displayVars, Minded
<1>5. CASE SpiderTaskDraws(t) \/ SpiderTaskClears(t)
  <2>1. PICK b \in BOOLEAN :
          /\ spider[t].pc = (IF b THEN "moved" ELSE "dying")
          /\ spider'[t].pc = (IF b THEN "wait" ELSE "cleared")
          /\ spider' \in [Task -> [pc : TaskPC, of : Slot, at : Point]]
          /\ spider'[t].of = spider[t].of /\ spider'[t].at = spider[t].at
          /\ \A u \in Task \ {t} : spider'[u] = spider[u]
          /\ displayQueue' = Append(displayQueue, Image(spider[t].at, b))
          /\ UNCHANGED <<canvas, alive, dead, position>>
    <3>1. CASE SpiderTaskDraws(t)
      BY <3>1, StepsOn DEF SpiderTaskDraws, DisplayImage, Request, Image, TaskPC
    <3>2. CASE SpiderTaskClears(t)
      BY <3>2, StepsOn DEF SpiderTaskClears, DisplayImage, Request, Image, TaskPC
    <3> QED BY <1>5, <3>1, <3>2
  <2>2. SpiderTypeOK'
    BY <1>0, <2>1 DEF SpiderTypeOK
  <2>3. OwnInv' /\ AreaInv'
    BY <1>0, <2>1 DEF OwnInv, AreaInv, Fresh
  <2>4. displayQueue' = <<Image(spider[t].at, b)>>
    BY <1>0, <2>1
  <2>5. ASSUME NEW q \in canvas.spiders PROVE Hides(spider[t].at, q) \/ Minded(q)'
    <3>1. PICK u \in Task : Minds(u, q)
      BY <1>0 DEF DrawnInv, Minded
    <3>2. CASE u = t
      BY <1>0, <2>1, <3>1, <3>2 DEF Minds, Hides, Point
    <3>3. CASE u # t
      BY <2>1, <3>1, <3>3 DEF Minds, Minded
    <3> QED BY <3>2, <3>3
  <2>6. b => Minded(spider[t].at)'
    BY <2>1 DEF Minded, Minds
  <2>7. DrawnInv'
    BY <1>0, <2>1, <2>4, <2>5, <2>6 DEF DrawnInv
  <2> QED BY <2>2, <2>3, <2>7
<1>6. CASE SpiderTaskEnds(t)
  <2>1. /\ spider[t].pc = "cleared" /\ spider' = [spider EXCEPT ![t] = NoTask]
        /\ alive' = alive \ {spider[t].of}
        /\ UNCHANGED <<displayVars, dead, position>>
    BY <1>6 DEF SpiderTaskEnds
  <2>2. 0 \in Slot /\ <<0, 0>> \in Point
    BY SpiderAssumption DEF Slot, Point
  <2>3. NoTask \in [pc : TaskPC, of : Slot, at : Point] /\ NoTask.pc = "none"
    BY <2>2 DEF NoTask, TaskPC
  <2>4. /\ spider' \in [Task -> [pc : TaskPC, of : Slot, at : Point]]
        /\ spider'[t].pc = "none"
        /\ \A u \in Task \ {t} : spider'[u] = spider[u]
    BY <2>1, <2>3 DEF SpiderTypeOK
  <2>5. SpiderTypeOK'
    BY <1>0, <2>1, <2>4 DEF SpiderTypeOK
  <2>6. OwnInv' /\ AreaInv'
    BY <1>0, <2>1, <2>4 DEF OwnInv, AreaInv, Fresh
  <2>7. \A q \in Point : Minded(q) => Minded(q)'
    BY <2>1, <2>4 DEF Minded, Minds
  <2> QED BY <1>0, <2>1, <2>5, <2>6, <2>7, NothingToDraw DEF displayVars
<1> QED BY <1>1, <1>2, <1>3, <1>4, <1>5, <1>6 DEF SpiderRuns, SpiderTask

(* A touch: a spider is killed, or a free one gets a position and, where   *)
(* the heap has room, a task.                                              *)
LEMMA ControlStep ==
  ASSUME SpiderInv, ControlTask
  PROVE  SpiderInv'
<1> USE DEF SpiderInv
<1>0. /\ displayQueue = <<>> /\ controlQueue # <<>> /\ controlQueue' = Tail(controlQueue)
      /\ UNCHANGED <<displayVars, alive, touched>>
  BY DEF ControlTask, DisplayLets, PRIORITY_DISPLAY_TASK, PRIORITY_CONTROL_TASK
<1>1. /\ Head(controlQueue) \in Nat \X Nat
      /\ controlQueue' \in Seq(Nat \X Nat)
  BY <1>0 DEF SpiderTypeOK
<1>2. CASE UNCHANGED <<position, spider, shared>> /\ dead' \subseteq Slot
  <2>1. SpiderTypeOK' /\ OwnInv' /\ AreaInv'
    BY <1>0, <1>1, <1>2 DEF SpiderTypeOK, OwnInv, AreaInv, Fresh, Inside
  <2>2. \A q \in Point : Minded(q) => Minded(q)'
    BY <1>2 DEF Minded, Minds
  <2> QED BY <1>0, <2>1, <2>2, NothingToDraw DEF displayVars
<1>3. ASSUME NEW p \in Nat \X Nat, CreateSpider(p), UNCHANGED dead PROVE SpiderInv'
  <2> DEFINE free == Slot \ alive
             s == CHOOSE x \in free : \A y \in free : x <= y
             idle == {u \in Task : spider[u].pc = "none"}
             t == CHOOSE v \in Task : spider[v].pc = "none" /\ \A u \in 1..v - 1 : spider[u].pc # "none"
  <2>1. CASE free = {}
    <3>1. UNCHANGED <<position, spider, shared>> /\ dead' \subseteq Slot
      BY <1>3, <2>1 DEF CreateSpider, SpiderTypeOK
    <3> QED BY <1>2, <3>1
  <2>2. CASE free # {}
    <3>1. s \in Slot /\ s \notin alive
      <4>1. free \subseteq Nat
        BY SpiderAssumption DEF Slot
      <4>2. \E x \in free : \A y \in free : x <= y
        BY <2>2, <4>1, Least
      <4> QED BY <4>2
    <3>2. Adjusted(p) \in Point /\ Inside(Adjusted(p))
      <4>1. PICK x \in Nat, y \in Nat : p = <<x, y>>
        OBVIOUS
      <4> QED BY <4>1, AdjustedInside
    <3>3. /\ position' = [position EXCEPT ![s] = Adjusted(p)]
          /\ \/ UNCHANGED <<spider, shared>>
             \/ /\ idle # {}
                /\ spider' = [spider EXCEPT ![t] = [pc |-> "start", of |-> s, at |-> <<0, 0>>]]
                /\ shared' = IF \E u \in Task : spider[u].pc # "none" /\ spider[u].of = s
                             THEN shared \cup {s} ELSE shared \ {s}
      BY <1>3, <2>2 DEF CreateSpider
    <3>4. idle # {} => t \in Task /\ spider[t].pc = "none"
      <4>1. SUFFICES ASSUME idle # {} PROVE t \in Task /\ spider[t].pc = "none"
        OBVIOUS
      <4>2. idle \subseteq Nat
        BY SpiderAssumption DEF Task
      <4>3. PICK v \in idle : \A u \in idle : v <= u
        BY <4>1, <4>2, Least
      <4>4. \A u \in 1..v - 1 : u \in Task /\ ~(v <= u)
        BY <4>2, <4>3, SpiderAssumption DEF Task
      <4>5. v \in Task /\ spider[v].pc = "none" /\ \A u \in 1..v - 1 : spider[u].pc # "none"
        BY <4>3, <4>4
      <4> QED BY <4>5
    <3> HIDE DEF s, t, idle, free
    <3>5. /\ position' \in [Slot -> Point] /\ Inside(position'[s])
          /\ \A x \in Slot \ {s} : position'[x] = position[x]
      BY <3>1, <3>2, <3>3 DEF SpiderTypeOK
    <3>6. CASE UNCHANGED <<spider, shared>>
      <4>1. SpiderTypeOK'
        BY <1>0, <1>1, <1>3, <3>5, <3>6 DEF SpiderTypeOK
      <4>2. OwnInv'
        BY <1>0, <3>1, <3>5, <3>6 DEF OwnInv, SpiderTypeOK, Fresh
      <4>3. AreaInv'
        BY <3>5, <3>6 DEF AreaInv, SpiderTypeOK, Fresh, Inside
      <4>4. \A q \in Point : Minded(q) => Minded(q)'
        BY <3>6 DEF Minded, Minds
      <4> QED BY <1>0, <4>1, <4>2, <4>3, <4>4, NothingToDraw DEF displayVars
    <3>7. CASE idle # {} /\ ~UNCHANGED <<spider, shared>>
      <4>1. /\ t \in Task /\ spider[t].pc = "none"
            /\ spider' \in [Task -> [pc : TaskPC, of : Slot, at : Point]]
            /\ spider'[t].pc = "start" /\ spider'[t].of = s
            /\ \A u \in Task \ {t} : spider'[u] = spider[u]
        <5>1. [pc |-> "start", of |-> s, at |-> <<0, 0>>] \in [pc : TaskPC, of : Slot, at : Point]
          BY <3>1 DEF TaskPC, Point
        <5>2. spider' = [spider EXCEPT ![t] = [pc |-> "start", of |-> s, at |-> <<0, 0>>]]
          BY <3>3, <3>7
        <5>3. t \in Task /\ spider[t].pc = "none"
          BY <3>4, <3>7
        <5> QED BY <5>1, <5>2, <5>3 DEF SpiderTypeOK
      <4>2. /\ s \notin shared' => \A u \in Task : ~(spider[u].pc # "none" /\ spider[u].of = s)
            /\ \A x \in Slot \ {s} : x \in shared' <=> x \in shared
        BY <3>3, <3>7
      <4>3. SpiderTypeOK'
        BY <1>0, <1>1, <1>3, <3>5, <4>1 DEF SpiderTypeOK
      <4>4. \A u \in Task : spider[u].of \in Slot
        BY DEF SpiderTypeOK
      <4>5. OwnInv'
        <5>1. ASSUME NEW u \in Task, NEW v \in Task,
                     spider'[u].pc # "none", spider'[v].pc # "none",
                     spider'[u].of = spider'[v].of, spider'[u].of \notin shared'
              PROVE  u = v
          BY <4>1, <4>2, <4>4, <5>1 DEF OwnInv
        <5>2. ASSUME NEW u \in Task, spider'[u].of \notin shared'
              PROVE  /\ spider'[u].pc \notin {"none", "start"} => spider'[u].of \in alive'
                     /\ spider'[u].pc \notin Fresh => spider'[u].at = position'[spider'[u].of]
          BY <1>0, <3>5, <4>1, <4>2, <4>4, <5>2 DEF OwnInv, Fresh
        <5> QED BY <5>1, <5>2 DEF OwnInv, Fresh
      <4>6. AreaInv'
        <5>1. ASSUME NEW u \in Task
              PROVE  /\ spider'[u].pc # "none" => Inside(position'[spider'[u].of])
                     /\ spider'[u].pc \notin Fresh => Inside(spider'[u].at)
          BY <3>5, <4>1, <4>4 DEF AreaInv, Fresh
        <5> QED BY <5>1 DEF AreaInv, Fresh, Inside
      <4>7. \A q \in Point : Minded(q) => Minded(q)'
        BY <4>1 DEF Minded, Minds
      <4> QED BY <1>0, <4>3, <4>5, <4>6, <4>7, NothingToDraw DEF displayVars
    <3> QED BY <3>3, <3>6, <3>7
  <2> QED BY <2>1, <2>2
<1>4. ASSUME NEW p \in Nat \X Nat, NEW d \in SpiderTouchCollide(p), Kill(d),
             UNCHANGED <<position, spider, shared>>
      PROVE  SpiderInv'
  <2>1. d \in Slot
    BY DEF SpiderTouchCollide, Nearest, SpiderTypeOK
  <2>2. dead' \subseteq Slot
    BY <1>4, <2>1 DEF Kill, SpiderTypeOK
  <2> QED BY <1>2, <1>4, <2>2
<1>5. CASE UNCHANGED <<dead, position, spider, shared>>
  BY <1>2, <1>5 DEF SpiderTypeOK
<1> QED BY <1>1, <1>3, <1>4, <1>5 DEF ControlTask

(* The display task draws the one request: what it hides is gone, and what *)
(* it shows is minded.                                                     *)
LEMMA DrawStep ==
  ASSUME SpiderInv, SpiderDraw
  PROVE  SpiderInv'
<1> USE DEF SpiderInv
<1>1. /\ displayQueue # <<>> /\ displayQueue' = Tail(displayQueue)
      /\ UNCHANGED <<alive, dead, position, spider, controlQueue, shared>>
  BY DEF SpiderDraw, DisplayTask
<1>2. PICK p \in Point, b \in BOOLEAN :
        /\ displayQueue = <<Image(p, b)>>
        /\ \A q \in canvas.spiders : Hides(p, q) \/ Minded(q)
        /\ b => Minded(p)
  BY <1>1 DEF DrawnInv
<1> DEFINE S == {q \in canvas.spiders : ~Hides(p, q)} \cup (IF b THEN {p} ELSE {})
<1>3. canvas' = Pictures(S)
  <2>1. Head(displayQueue) = Image(p, b)
    BY <1>2
  <2>2. canvas' = WithImage(canvas, p, b)
    <3>1. Image(p, b).type = "image" /\ Image(p, b).at = p /\ Image(p, b).spider = b
      BY Zenon DEF Image
    <3> DEFINE m == Head(displayQueue)
    <3>2. m.type = "image" => canvas' = WithImage(canvas, m.at, m.spider)
      BY Zenon DEF SpiderDraw, DisplayTask
    <3> QED BY <2>1, <3>1, <3>2, Zenon
  <2>3. WithImage(canvas, p, b) = [canvas EXCEPT !.spiders = S]
    BY Zenon DEF WithImage
  <2>4. canvas = Pictures(canvas.spiders)
    BY DEF DrawnInv
  <2> HIDE DEF S
  <2>5. [Pictures(canvas.spiders) EXCEPT !.spiders = S] = Pictures(S)
    BY DEF Pictures
  <2> QED BY <2>2, <2>3, <2>4, <2>5
<1>4. displayQueue' = <<>>
  BY <1>1, <1>2
<1>5. S \subseteq Point /\ canvas'.spiders = S /\ canvas' = Pictures(canvas'.spiders)
  BY <1>3 DEF Pictures, DrawnInv
<1>6. ASSUME NEW q \in S PROVE Minded(q)'
  BY <1>1, <1>2 DEF Minded, Minds
<1>7. DrawnInv'
  BY <1>4, <1>5, <1>6 DEF DrawnInv
<1> QED BY <1>1, <1>7 DEF SpiderTypeOK, OwnInv, AreaInv, Fresh, Inside

LEMMA SpiderStep == SpiderInv /\ [SpiderNext]_spiderVars => SpiderInv'
<1> SUFFICES ASSUME SpiderInv, [SpiderNext]_spiderVars PROVE SpiderInv'
  OBVIOUS
<1> USE DEF SpiderInv
<1>1. ASSUME NEW c \in Seq(Nat \X Nat), controlQueue' = c,
             UNCHANGED <<displayVars, alive, dead, position, spider, shared>>
      PROVE  SpiderInv'
  <2>1. SpiderTypeOK' /\ OwnInv' /\ AreaInv'
    BY <1>1 DEF SpiderTypeOK, OwnInv, AreaInv, Fresh, Inside
  <2>2. DrawnInv'
    BY <1>1 DEF DrawnInv, displayVars, Minded, Minds
  <2> QED BY <2>1, <2>2
<1>2. CASE ControlTouchCallback
  <2>1. PICK p \in Touches : controlQueue' = IF Len(controlQueue) < CONTROL_QUEUE_SIZE
                                            THEN Append(controlQueue, p) ELSE controlQueue
    BY <1>2 DEF ControlTouchCallback
  <2>2. p \in Nat \X Nat /\ controlQueue \in Seq(Nat \X Nat)
    BY SpiderAssumption DEF SpiderTypeOK
  <2>3. controlQueue' \in Seq(Nat \X Nat)
    BY <2>1, <2>2
  <2> QED BY <1>1, <1>2, <2>3 DEF ControlTouchCallback
<1>3. CASE UNCHANGED spiderVars
  <2>1. controlQueue' = controlQueue /\ controlQueue \in Seq(Nat \X Nat)
        /\ UNCHANGED <<displayVars, alive, dead, position, spider, shared>>
    BY <1>3 DEF spiderVars, SpiderTypeOK
  <2> QED BY <1>1, <2>1
<1> QED BY <1>2, <1>3, SpiderTaskStep, ControlStep, DrawStep DEF SpiderNext

LEMMA SpiderInvariance == SpiderSpec => []SpiderInv
BY SpiderStart, SpiderStep, PTL DEF SpiderSpec

LEMMA NoTrace == SpiderInv => SpidersLeaveNoTrace
<1> SUFFICES ASSUME SpiderInv PROVE SpidersLeaveNoTrace
  OBVIOUS
<1>1. ASSUME NEW t \in Task, spider[t].pc \notin {"none", "start", "started"}
      PROVE  Inside(spider[t].at)
  BY <1>1 DEF SpiderInv, AreaInv, Fresh
<1>2. ASSUME displayQueue = <<>>, NEW q \in canvas.spiders
      PROVE  \E t \in Task : spider[t].pc \notin {"none", "cleared"} /\ Hides(spider[t].at, q)
  <2>1. q \in Point /\ Hides(q, q)
    BY DEF SpiderInv, DrawnInv, Point, Hides
  <2>2. PICK t \in Task : Minds(t, q)
    BY <1>2 DEF SpiderInv, DrawnInv, Minded
  <2> QED BY <2>1, <2>2 DEF Minds
<1> QED BY <1>1, <1>2 DEF SpidersLeaveNoTrace

(* No spider leaves its area, and every image on the display has a task    *)
(* that will draw over it or clear it, for any number of spiders, touches  *)
(* and tasks the heap has room for.                                        *)
THEOREM SpidersAreCleared == SpiderSpec => []SpidersLeaveNoTrace
BY SpiderInvariance, NoTrace, PTL

(* What one step does to two spiders that have one task each.              *)
StaysApart ==
  \A s, t \in (alive \cap alive') \ (shared \cup shared') :
    (s # t /\ ~Overlap(s, t)) => ~Overlap(s, t)'

(* Only the two positions matter.                                          *)
LEMMA NotMoved ==
  ASSUME NEW s, NEW t, position'[s] = position[s], position'[t] = position[t], ~Overlap(s, t)
  PROVE  ~Overlap(s, t)'
BY DEF Overlap, Near

LEMMA NearSymmetric ==
  ASSUME NEW p \in Point, NEW q \in Point, Near(p, q, SPIDER_SIZE)
  PROVE  Near(q, p, SPIDER_SIZE)
BY DEF Near, Apart, Point

(* The critical section looks at every other spider before it moves one.   *)
LEMMA MoveStaysApart ==
  ASSUME SpiderInv, NEW u \in Task, SpiderRuns(u), SpiderTaskMoves(u)
  PROVE  StaysApart
<1> SUFFICES ASSUME NEW s \in alive \cap alive', NEW t \in alive \cap alive',
                    s \notin shared, t \notin shared, s # t, ~Overlap(s, t)
             PROVE  ~Overlap(s, t)'
  BY DEF StaysApart
<1> DEFINE o == spider[u].of
<1>1. PICK p \in Point : /\ p = spider[u].at \/ ~SpiderCollide(o, p)
                         /\ position' = [position EXCEPT ![o] = p]
  <2>1. spider[u].at \in Point
    BY DEF SpiderInv, SpiderTypeOK
  <2>2. PICK dx \in -1..1, dy \in -1..1 :
          LET p == <<spider[u].at[1] + dx, spider[u].at[2] + dy>>
          IN /\ p = spider[u].at \/ (Inside(p) /\ ~SpiderCollide(spider[u].of, p))
             /\ position' = [position EXCEPT ![spider[u].of] = p]
    BY DEF SpiderTaskMoves
  <2>3. <<spider[u].at[1] + dx, spider[u].at[2] + dy>> \in Point
    BY <2>1 DEF Point
  <2> QED BY <2>2, <2>3
<1>2. /\ o \in Slot /\ s \in Slot /\ t \in Slot
      /\ position \in [Slot -> Point]
      /\ o \notin shared => spider[u].at = position[o]
  BY DEF SpiderInv, SpiderTypeOK, OwnInv, SpiderTaskMoves, Fresh
<1> HIDE DEF o
<1>3. position'[o] = p /\ \A x \in Slot \ {o} : position'[x] = position[x]
  BY <1>1, <1>2
<1>4. CASE s # o /\ t # o
  BY <1>2, <1>3, <1>4, NotMoved
<1>5. CASE s = o \/ t = o
  <2>1. CASE p = spider[u].at
    <3>1. position'[s] = position[s] /\ position'[t] = position[t]
      BY <1>2, <1>3, <1>5, <2>1
    <3> QED BY <3>1, NotMoved
  <2>2. CASE ~SpiderCollide(o, p)
    <3>1. \A x \in alive \ {o} : ~Near(position[x], p, SPIDER_SIZE)
      BY <2>2 DEF SpiderCollide
    <3>2. CASE s = o
      <4>1. ~Near(position[t], p, SPIDER_SIZE) /\ position'[s] = p /\ position'[t] = position[t]
        BY <1>2, <1>3, <3>1, <3>2
      <4>2. ~Near(p, position[t], SPIDER_SIZE)
        BY <1>2, <4>1, NearSymmetric
      <4> QED BY <4>1, <4>2 DEF Overlap, Near
    <3>3. CASE t = o
      <4>1. ~Near(position[s], p, SPIDER_SIZE) /\ position'[t] = p /\ position'[s] = position[s]
        BY <1>2, <1>3, <3>1, <3>3
      <4> QED BY <4>1 DEF Overlap, Near
    <3> QED BY <1>5, <3>2, <3>3
  <2> QED BY <1>1, <2>1, <2>2
<1> QED BY <1>4, <1>5

LEMMA StepStaysApart == SpiderInv /\ [SpiderNext]_spiderVars => StaysApart
<1> SUFFICES ASSUME SpiderInv, [SpiderNext]_spiderVars PROVE StaysApart
  OBVIOUS
<1>1. ASSUME UNCHANGED position PROVE StaysApart
  BY <1>1, NotMoved DEF StaysApart
<1>2. ASSUME NEW u \in Task, SpiderRuns(u) PROVE StaysApart
  <2>1. CASE SpiderTaskMoves(u)
    BY <1>2, <2>1, MoveStaysApart
  <2>2. CASE ~SpiderTaskMoves(u)
    <3>1. UNCHANGED position
      BY <1>2, <2>2 DEF SpiderRuns, SpiderTask, SpiderTaskStarts, SpiderTaskReady, SpiderTaskLooks,
         SpiderTaskDraws, SpiderTaskWakes, SpiderTaskClears, SpiderTaskEnds
    <3> QED BY <1>1, <3>1
  <2> QED BY <2>1, <2>2
<1>3. ASSUME NEW p \in Nat \X Nat, CreateSpider(p), UNCHANGED alive PROVE StaysApart
  <2> DEFINE free == Slot \ alive
             o == CHOOSE x \in free : \A y \in free : x <= y
  <2>1. CASE free = {}
    BY <1>1, <1>3, <2>1 DEF CreateSpider
  <2>2. CASE free # {}
    <3>1. o \notin alive
      <4>1. free \subseteq Nat
        BY SpiderAssumption DEF Slot
      <4>2. \E x \in free : \A y \in free : x <= y
        BY <2>2, <4>1, Least
      <4> QED BY <4>2
    <3>2. position' = [position EXCEPT ![o] = Adjusted(p)]
      BY <1>3, <2>2 DEF CreateSpider
    <3> HIDE DEF o, free
    <3>3. \A x \in alive : position'[x] = position[x]
      BY <3>1, <3>2 DEF SpiderInv, SpiderTypeOK
    <3> QED BY <3>3, NotMoved DEF StaysApart
  <2> QED BY <2>1, <2>2
<1>4. CASE ControlTask
  <2>1. Head(controlQueue) \in Nat \X Nat
    BY <1>4 DEF ControlTask, SpiderInv, SpiderTypeOK
  <2> QED BY <1>1, <1>3, <1>4, <2>1 DEF ControlTask
<1>5. CASE ControlTouchCallback \/ SpiderDraw \/ UNCHANGED spiderVars
  BY <1>1, <1>5 DEF ControlTouchCallback, SpiderDraw, spiderVars
<1> QED BY <1>2, <1>4, <1>5 DEF SpiderNext

(* A move never takes a spider onto another: whatever a touch does between *)
(* the look and the move of another spider, because the look and the move  *)
(* are one critical section.                                               *)
THEOREM SpidersStayApart == SpiderSpec => MovesKeepApart
BY SpiderInvariance, StepStaysApart, PTL DEF SpiderSpec, MovesKeepApart, StaysApart

-----------------------------------------------------------------------------
(* The statistics (module IdleStats).                                      *)

Asks == Len(FirstRequests)
StatNames == {"time", "tasks", "ip", "tx", "rx"}

(* The columns the text of statistic s takes when its value is v.          *)
Left(s, v) == StatString(s, v).x + CharWidth * StatString(s, v).text.before
Right(s, v) == Left(s, v) + CharWidth * StatString(s, v).text.shown

(* How many of the first requests have been made.                          *)
Asked == IF hook[1] = "ask" THEN hook[2] - 1
         ELSE IF hook = AtFirst /\ drawn["time"] = Unset THEN 0 ELSE Asks

(* The lines the first k requests draw, and where they leave the pen.      *)
Draws(k) == {j \in 1..k : FirstRequests[j][1] = "draw"}
Line(j) == {FirstRequests[j - 1][2], FirstRequests[j][2]}
LinesOf(k) == {Line(j) : j \in Draws(k)}
DrawnTo(k) == /\ canvas.lines = LinesOf(k)
              /\ k >= 1 /\ FirstRequests[k][1] # "title" => pen = FirstRequests[k][2]

Message(r) == IF r[1] = "title" THEN [type |-> "string", at |-> r[2], box |-> "titles"]
              ELSE [type |-> r[1], at |-> r[2]]
StatMessage(s) == [type |-> "string", at |-> StatString(s, drawn[s]).x, box |-> s]

(* The string of statistic s is that of the value the hook has seen last.  *)
Formatted(s) == strings[s] = StatString(s, drawn[s]).text /\ drawn[s] \in Values[s]

HookTypes ==
  \/ hook = AtFirst
  \/ \E k \in 1..Asks : hook = <<"ask", k>>
  \/ \E k \in 1..5 : hook = <<"look", k>> \/ hook = <<"send", k>>

StatsTypes ==
  /\ stat \in [StatNames -> Int] /\ drawn \in [StatNames -> Int]
  /\ \A s \in StatNames : stat[s] \in Values[s]
  /\ HookTypes
  /\ DOMAIN strings = TheBoxes
  /\ canvas = [spiders |-> canvas.spiders, lines |-> canvas.lines, texts |-> canvas.texts]
  /\ DOMAIN canvas.texts = TheBoxes
  /\ canvas.texts = [b \in TheBoxes |-> canvas.texts[b]]

(* The counter drawn is not ahead of the counter; the hook knows whether   *)
(* its first round is over by the time it has drawn.                       *)
HookInv ==
  /\ drawn["tx"] <= stat["tx"]
  /\ hook[1] = "send" \/ (hook[1] = "look" /\ hook[2] > 1) => drawn["time"] # Unset
  /\ hook[1] = "send" => Formatted(Stats[hook[2]])

(* The display has drawn all requests, or all but the last, which is one   *)
(* of the first or a statistic whose string has not changed since.         *)
QueueInv ==
  \/ displayQueue = <<>> /\ DrawnTo(Asked)
  \/ Asked >= 1 /\ displayQueue = <<Message(FirstRequests[Asked])>> /\ DrawnTo(Asked - 1)
  \/ /\ Asked = Asks /\ DrawnTo(Asks)
     /\ \E s \in StatNames : displayQueue = <<StatMessage(s)>> /\ Formatted(s)

(* A box shows nothing or one value; the counter it shows is not ahead of  *)
(* the one drawn next, whose string is at least as wide.                   *)
TextInv ==
  \A s \in StatNames :
    \/ canvas.texts[s] = {}
    \/ \E v \in Values[s] : /\ canvas.texts[s] = {<<Left(s, v), Right(s, v)>>}
                            /\ s = "tx" => v <= drawn[s]

StatsInv == StatsTypes /\ HookInv /\ QueueInv /\ TextInv

(* The first requests: what kinds they are.                                *)
LEMMA AskKinds ==
  /\ Asks = 18
  /\ \A k \in 1..18 : /\ FirstRequests[k][1] \in {"move", "draw", "title"}
                      /\ FirstRequests[k][1] = "draw" => k > 1 /\ FirstRequests[k - 1][1] # "title"
<1>1. Asks = 18
  BY DEF Asks, FirstRequests
<1>2. ASSUME NEW k \in 1..18
      PROVE  /\ FirstRequests[k][1] \in {"move", "draw", "title"}
             /\ FirstRequests[k][1] = "draw" => k > 1 /\ FirstRequests[k - 1][1] # "title"
  <2>1. CASE k \in {1, 6, 8, 10, 12}
    BY <2>1 DEF FirstRequests, Move
  <2>2. CASE k \in {2, 3, 4, 5, 7, 9, 11, 13}
    BY <2>2 DEF FirstRequests, Move, Draw
  <2>3. CASE k \in 14..18
    BY <2>3 DEF FirstRequests
  <2> QED BY <2>1, <2>2, <2>3
<1> QED BY <1>1, <1>2

(* Each draws at most one line more.                                       *)
LEMMA LinesGrow ==
  ASSUME NEW k \in 1..Asks
  PROVE  /\ FirstRequests[k][1] = "draw" => LinesOf(k) = LinesOf(k - 1) \cup {Line(k)}
         /\ FirstRequests[k][1] # "draw" => LinesOf(k) = LinesOf(k - 1)
<1>1. k \in Int /\ k >= 1
  BY AskKinds
<1>2. FirstRequests[k][1] = "draw" => Draws(k) = Draws(k - 1) \cup {k}
  BY <1>1 DEF Draws
<1>3. FirstRequests[k][1] # "draw" => Draws(k) = Draws(k - 1)
  BY <1>1 DEF Draws
<1> QED BY <1>2, <1>3 DEF LinesOf

(* Together they draw the frame.                                           *)
LEMMA FrameDrawn == LinesOf(Asks) = Frame
<1>1. Draws(18) = {2, 3, 4, 5, 7, 9, 11, 13}
  <2>1. ASSUME NEW k \in 1..18 PROVE k \in Draws(18) <=> k \in {2, 3, 4, 5, 7, 9, 11, 13}
    <3>1. CASE k \in {1, 6, 8, 10, 12}
      BY <3>1 DEF FirstRequests, Move, Draws
    <3>2. CASE k \in {2, 3, 4, 5, 7, 9, 11, 13}
      BY <3>2 DEF FirstRequests, Draw, Draws
    <3>3. CASE k \in 14..18
      BY <3>3 DEF FirstRequests, Draws
    <3> QED BY <3>1, <3>2, <3>3
  <2>2. Draws(18) \subseteq 1..18 /\ {2, 3, 4, 5, 7, 9, 11, 13} \subseteq 1..18
    BY DEF Draws
  <2> QED BY <2>1, <2>2
<1>2. LinesOf(18) = {Line(2), Line(3), Line(4), Line(5), Line(7), Line(9), Line(11), Line(13)}
  BY <1>1 DEF LinesOf
<1>3. /\ Line(2) = {<<8, 211>>, <<311, 211>>} /\ Line(3) = {<<311, 211>>, <<311, 230>>}
      /\ Line(4) = {<<8, 230>>, <<311, 230>>} /\ Line(5) = {<<8, 211>>, <<8, 230>>}
      /\ Line(7) = {<<69, 211>>, <<69, 230>>} /\ Line(9) = {<<111, 211>>, <<111, 230>>}
      /\ Line(11) = {<<213, 211>>, <<213, 230>>} /\ Line(13) = {<<262, 211>>, <<262, 230>>}
  BY DEF Line, FirstRequests, Move, Draw
<1>4. {{<<8, y>>, <<311, y>>} : y \in {211, 230}} = {Line(2), Line(4)}
  BY <1>3
<1>5. {{<<x, 211>>, <<x, 230>>} : x \in {8, 69, 111, 213, 262, 311}}
        = {Line(3), Line(5), Line(7), Line(9), Line(11), Line(13)}
  <2> DEFINE Up(x) == {<<x, 211>>, <<x, 230>>}
  <2>1. /\ Line(3) = Up(311) /\ Line(5) = Up(8) /\ Line(7) = Up(69)
        /\ Line(9) = Up(111) /\ Line(11) = Up(213) /\ Line(13) = Up(262)
    BY <1>3
  <2> HIDE DEF Up
  <2>2. {Up(x) : x \in {8, 69, 111, 213, 262, 311}}
          = {Line(3), Line(5), Line(7), Line(9), Line(11), Line(13)}
    BY <2>1
  <2> QED BY <2>2 DEF Up
<1>6. Frame = {Line(3), Line(5), Line(7), Line(9), Line(11), Line(13)} \cup {Line(2), Line(4)}
  BY <1>4, <1>5 DEF Frame
<1> QED BY <1>2, <1>6, AskKinds

(* A value's string is put in the middle of its box, and a new string      *)
(* covers the text of whatever value was there before.                     *)
LEMMA TextsFit ==
  ASSUME NEW s \in StatNames, NEW v \in Values[s], NEW w \in Values[s], s = "tx" => w <= v
  PROVE  /\ Left(s, v) \in Int /\ Right(s, v) \in Int
         /\ Left(s, v) + Right(s, v) - 2 * Middle[s] \in -2..2
         /\ StatString(s, v).x <= Left(s, w)
         /\ Right(s, w) <= Right(s, v) + CharWidth * StatString(s, v).text.after
<1>1. CASE s = "time"
  <2>1. \A c : StatString(s, c) = [text |-> Text(0, 8, 0), x |-> 16]
    BY <1>1 DEF StatString
  <2>2. \A c : /\ StatString(s, c).x = 16 /\ Left(s, c) = 16 /\ Right(s, c) = 64
               /\ StatString(s, c).text.after = 0
    BY <2>1 DEF Left, Right, Text, CharWidth
  <2> QED BY <1>1, <2>2 DEF Middle, CharWidth
<1>2. CASE s = "tasks"
  <2>1. v \in 1..99 /\ w \in 1..99
    BY <1>2, StatsAssumption DEF Values
  <2>2. CASE v < 10
    <3>1. CASE w < 10
      BY <1>2, <2>1, <2>2, <3>1 DEF Left, Right, StatString, TaskString, Text, CharWidth, Middle
    <3>2. CASE ~ (w < 10)
      BY <1>2, <2>1, <2>2, <3>2 DEF Left, Right, StatString, TaskString, Text, CharWidth, Middle
    <3> QED BY <3>1, <3>2
  <2>3. CASE ~ (v < 10)
    <3>1. CASE w < 10
      BY <1>2, <2>1, <2>3, <3>1 DEF Left, Right, StatString, TaskString, Text, CharWidth, Middle
    <3>2. CASE ~ (w < 10)
      BY <1>2, <2>1, <2>3, <3>2 DEF Left, Right, StatString, TaskString, Text, CharWidth, Middle
    <3> QED BY <3>1, <3>2
  <2> QED BY <2>2, <2>3
<1>3. CASE s = "ip"
  <2>1. v \in {0} \cup 7..15 /\ w \in {0} \cup 7..15
    BY <1>3, StatsAssumption DEF Values
  <2>2. ASSUME NEW c \in {0} \cup 7..15
        PROVE  /\ Left(s, c) \in 117..141 /\ Right(s, c) = 324 - Left(s, c)
               /\ StatString(s, c).x \in 114..117
               /\ Right(s, c) + CharWidth * StatString(s, c).text.after \in 207..210
    <3>1. CASE c = 0
      BY <1>3, <3>1 DEF Left, Right, StatString, DisplayIP, Text, CharWidth
    <3>2. CASE c \in 7..15
      <4> DEFINE begin == (c - 7) \div 2
                 p == (c - 7) % 2
      <4>1. /\ begin \in Int /\ p \in {0, 1} /\ c - 7 = 2 * begin + p
            /\ (c + 5) % 2 = p /\ begin \in 0..4
        BY <3>2
      <4>2. (c + 5 - 12) \div 2 = begin /\ c # 0
        <5>1. c + 5 - 12 = c - 7
          BY <3>2
        <5> QED BY <3>2, <5>1
      <4> HIDE DEF begin, p
      <4>3. DisplayIP(c) = [text |-> Text(4 - begin, c, c + 5 + 3 - begin - (4 + c)), x |-> 117 - p * 3]
        BY <4>1, <4>2 DEF DisplayIP
      <4>4. /\ StatString(s, c).x = 117 - p * 3
            /\ Left(s, c) = 117 - p * 3 + 6 * (4 - begin)
            /\ Right(s, c) = Left(s, c) + 6 * c
            /\ StatString(s, c).text.after = c + 5 + 3 - begin - (4 + c)
        BY <1>3, <4>3 DEF Left, Right, StatString, Text, CharWidth
      <4> QED BY <3>2, <4>1, <4>4 DEF CharWidth
    <3> QED BY <3>1, <3>2
  <2>3. \A c \in {0} \cup 7..15 :
          /\ Left(s, c) \in 117..141 /\ Right(s, c) = 324 - Left(s, c)
          /\ StatString(s, c).x \in 114..117
          /\ Right(s, c) + CharWidth * StatString(s, c).text.after \in 207..210
    BY <2>2
  <2>4. Middle[s] = 162
    BY <1>3 DEF Middle
  <2>5. /\ Left(s, v) \in 117..141 /\ Right(s, v) = 324 - Left(s, v)
        /\ StatString(s, v).x \in 114..117
        /\ Right(s, v) + CharWidth * StatString(s, v).text.after \in 207..210
    BY <2>1, <2>3
  <2>6. Left(s, w) \in 117..141 /\ Right(s, w) = 324 - Left(s, w)
    BY <2>1, <2>3
  <2>7. /\ StatString(s, v).x <= Left(s, w)
        /\ Right(s, w) <= Right(s, v) + CharWidth * StatString(s, v).text.after
    BY <2>5, <2>6
  <2> QED BY <2>4, <2>5, <2>7
<1>4. CASE s = "tx"
  <2>1. v \in Nat /\ w \in Nat /\ w <= v
    BY <1>4, StatsAssumption DEF Values
  <2>2. Digits(v) \in 1..6 /\ Digits(w) \in 1..6 /\ Digits(w) <= Digits(v)
    BY <2>1 DEF Digits
  <2>3. \A c : Digits(c) \in 1..6 =>
               /\ StatString(s, c).x = 219 + 3 * (6 - Digits(c))
               /\ Left(s, c) = 219 + 3 * (6 - Digits(c))
               /\ Right(s, c) = Left(s, c) + 6 * Digits(c)
               /\ StatString(s, c).text.after = 0
    <3>1. \A c : StatString(s, c) = DisplayValue(c, 219)
      BY <1>4 DEF StatString
    <3>2. ASSUME NEW c, Digits(c) \in 1..6
          PROVE  /\ StatString(s, c).x = 219 + 3 * (6 - Digits(c))
                 /\ Left(s, c) = 219 + 3 * (6 - Digits(c))
                 /\ Right(s, c) = Left(s, c) + 6 * Digits(c)
                 /\ StatString(s, c).text.after = 0
      BY <3>1, <3>2 DEF Left, Right, DisplayValue, Text, CharWidth
    <3> QED BY <3>2
  <2> QED BY <1>4, <2>2, <2>3 DEF Middle, CharWidth
<1>5. CASE s = "rx"
  <2>1. v = 0 /\ w = 0
    BY <1>5 DEF Values
  <2>2. Digits(0) = 1
    BY DEF Digits
  <2> QED BY <1>5, <2>1, <2>2 DEF Left, Right, StatString, DisplayValue, Text, CharWidth, Middle
<1> QED BY <1>1, <1>2, <1>3, <1>4, <1>5 DEF StatNames

(* Every statistic is a number.                                            *)
LEMMA ValuesAre ==
  ASSUME NEW s \in StatNames
  PROVE  Values[s] \subseteq Nat /\ Values[s] # {}
<1>1. CASE s \in {"time", "rx"}
  BY <1>1 DEF Values
<1>2. CASE s = "tasks"
  BY <1>2, StatsAssumption DEF Values
<1>3. CASE s = "ip"
  BY <1>3, StatsAssumption DEF Values
<1>4. CASE s = "tx"
  BY <1>4, StatsAssumption DEF Values
<1> QED BY <1>1, <1>2, <1>3, <1>4 DEF StatNames

LEMMA StatsInitInv == StatsInit => StatsInv
<1> SUFFICES ASSUME StatsInit PROVE StatsInv
  OBVIOUS
<1>1. DOMAIN Values = StatNames
  BY DEF Values, StatNames
<1>2. ASSUME NEW s \in StatNames PROVE Values[s] \subseteq Nat /\ Values[s] # {}
  BY ValuesAre
<1>3. ASSUME NEW s \in StatNames PROVE stat[s] \in Values[s] /\ stat[s] \in Nat
  <2>1. \E v \in Values[s] : \A w \in Values[s] : v <= w
    BY <1>2, Least
  <2>2. stat[s] = CHOOSE v \in Values[s] : \A w \in Values[s] : v <= w
    BY <1>1 DEF StatsInit
  <2> QED BY <1>2, <2>1, <2>2
<1>4. stat \in [StatNames -> Int] /\ drawn \in [StatNames -> Int]
  <2>1. DOMAIN stat = StatNames /\ stat = [s \in StatNames |-> stat[s]]
    BY <1>1 DEF StatsInit
  <2>2. drawn \in [StatNames -> Int]
    BY <1>1 DEF StatsInit, Unset
  <2> QED BY <1>3, <2>1, <2>2
<1>5. StatsTypes
  BY <1>3, <1>4 DEF StatsTypes, HookTypes, StatsInit, DisplayInit
<1>6. drawn["time"] = Unset /\ drawn["tx"] = Unset
  BY <1>1 DEF StatsInit, StatNames
<1>7. HookInv
  BY <1>3, <1>6 DEF HookInv, StatsInit, AtFirst, Unset, StatNames
<1>8. QueueInv
  <2>1. Asked = 0
    BY <1>6 DEF Asked, StatsInit, AtFirst
  <2>2. LinesOf(0) = {}
    BY DEF LinesOf, Draws
  <2> QED BY <2>1, <2>2 DEF QueueInv, DrawnTo, StatsInit, DisplayInit
<1>9. TextInv
  BY DEF TextInv, StatsInit, DisplayInit, StatNames, TheBoxes
<1> QED BY <1>5, <1>7, <1>8, <1>9 DEF StatsInv

(* The idle hook runs only when the display has drawn everything.          *)
LEMMA IdleMeansEmpty == IdleRuns => displayQueue = <<>>
BY DEF IdleRuns, DisplayLets, PRIORITY_DISPLAY_TASK, tskIDLE_PRIORITY

(* The steps of the hook.                                                  *)
LEMMA StartsStep ==
  ASSUME StatsInv, HookStarts
  PROVE  StatsInv'
<1>1. /\ displayQueue = <<>> /\ hook = AtFirst
      /\ hook' = (IF drawn["time"] = Unset THEN <<"ask", 1>> ELSE <<"look", 1>>)
      /\ UNCHANGED <<displayQueue, pen, canvas, strings, stat, drawn>>
  BY IdleMeansEmpty DEF HookStarts, displayVars
<1>2. HookTypes'
  BY <1>1, AskKinds DEF HookTypes
<1>3. StatsTypes'
  BY <1>1, <1>2 DEF StatsInv, StatsTypes
<1>4. HookInv'
  BY <1>1 DEF StatsInv, HookInv
<1>5. QueueInv'
  <2>1. Asked' = Asked
    <3>1. CASE drawn["time"] = Unset
      BY <1>1, <3>1 DEF Asked, AtFirst
    <3>2. CASE drawn["time"] # Unset
      BY <1>1, <3>2 DEF Asked, AtFirst
    <3> QED BY <3>1, <3>2
  <2>2. DrawnTo(Asked)
    BY <1>1 DEF StatsInv, QueueInv
  <2> QED BY <1>1, <2>1, <2>2 DEF QueueInv, DrawnTo
<1>6. TextInv'
  BY <1>1 DEF StatsInv, TextInv
<1> QED BY <1>3, <1>4, <1>5, <1>6 DEF StatsInv

LEMMA AsksStep ==
  ASSUME StatsInv, HookAsks
  PROVE  StatsInv'
<1>1. /\ displayQueue = <<>> /\ hook[1] = "ask"
      /\ hook' = (IF hook[2] = Asks THEN <<"look", 1>> ELSE <<"ask", hook[2] + 1>>)
      /\ UNCHANGED <<pen, canvas, strings, stat, drawn>>
  BY IdleMeansEmpty DEF HookAsks, Asks
<1>2. PICK k \in 1..Asks : hook = <<"ask", k>>
  BY <1>1 DEF StatsInv, StatsTypes, HookTypes, AtFirst
<1>3. displayQueue' = <<Message(FirstRequests[k])>>
  <2>1. hook[2] = k /\ k \in 1..18
    BY <1>2, AskKinds
  <2> DEFINE r == FirstRequests[k]
  <2>2. r[1] \in {"move", "draw", "title"}
    BY <2>1, AskKinds
  <2>3. \/ r[1] = "move" /\ DisplayMove(r[2])
        \/ r[1] = "draw" /\ DisplayDraw(r[2])
        \/ r[1] = "title" /\ DisplayString(r[2], "titles")
    BY <2>1 DEF HookAsks
  <2> HIDE DEF r
  <2>4. displayQueue' = Append(displayQueue, Message(r))
    BY <2>3 DEF DisplayMove, DisplayDraw, DisplayString, Request, Message
  <2> QED BY <1>1, <2>4 DEF r
<1>4. Asked = k - 1 /\ Asked' = k
  <2>1. Asks = 18
    BY AskKinds
  <2> QED BY <1>1, <1>2, <2>1 DEF Asked, AtFirst
<1>5. HookTypes'
  BY <1>1, <1>2, AskKinds DEF HookTypes
<1>6. StatsTypes'
  BY <1>1, <1>5 DEF StatsInv, StatsTypes
<1>7. HookInv'
  BY <1>1, <1>2 DEF StatsInv, HookInv
<1>8. QueueInv'
  <2>1. DrawnTo(k - 1)
    BY <1>1, <1>4 DEF StatsInv, QueueInv
  <2>2. DrawnTo(k - 1)'
    BY <1>1, <2>1 DEF DrawnTo
  <2> QED BY <1>3, <1>4, <2>2, AskKinds DEF QueueInv
<1>9. TextInv'
  BY <1>1 DEF StatsInv, TextInv
<1> QED BY <1>6, <1>7, <1>8, <1>9 DEF StatsInv

(* The statistics in their turn.                                           *)
LEMMA StatsAre == \A k \in 1..5 : Stats[k] \in StatNames /\ (Stats[k] = "time" <=> k = 1)
<1>1. ASSUME NEW k \in 1..5 PROVE Stats[k] \in StatNames /\ (Stats[k] = "time" <=> k = 1)
  BY DEF Stats, StatNames
<1> QED BY <1>1

LEMMA LooksStep ==
  ASSUME StatsInv, HookLooks
  PROVE  StatsInv'
<1>1. /\ displayQueue = <<>> /\ hook[1] = "look"
      /\ UNCHANGED <<displayQueue, pen, canvas, stat>>
  BY IdleMeansEmpty DEF HookLooks
<1>2. PICK k \in 1..5 : hook = <<"look", k>>
  BY <1>1 DEF StatsInv, StatsTypes, HookTypes, AtFirst
<1>3. PICK s \in StatNames : s = Stats[k] /\ (s = "time" <=> k = 1)
  BY StatsAre
<1>4. \/ stat[s] = drawn[s] /\ hook' = AfterStat(k) /\ UNCHANGED <<drawn, strings>>
      \/ /\ drawn' = [drawn EXCEPT ![s] = stat[s]]
         /\ strings' = [strings EXCEPT ![s] = StatString(s, stat[s]).text]
         /\ hook' = <<"send", k>>
  BY <1>2, <1>3 DEF HookLooks
<1>5. stat["time"] # Unset /\ stat[s] \in Values[s] /\ "time" \in StatNames /\ "tx" \in StatNames
  <2>1. stat["time"] \in {0, 1}
    BY DEF StatsInv, StatsTypes, StatNames, Values
  <2> QED BY <2>1 DEF StatsInv, StatsTypes, StatNames, Unset
<1>6. drawn'["time"] # Unset
  BY <1>2, <1>3, <1>4, <1>5 DEF StatsInv, StatsTypes, HookInv
<1>7. hook' = AtFirst \/ (\E l \in 1..5 : hook' = <<"look", l>>) \/ hook' = <<"send", k>>
  <2>1. Len(Stats) = 5
    BY DEF Stats
  <2> QED BY <1>4, <2>1 DEF AfterStat
<1>8. StatsTypes'
  <2>1. HookTypes'
    BY <1>7 DEF HookTypes
  <2>2. s \in TheBoxes
    BY DEF StatNames, TheBoxes
  <2>3. DOMAIN strings' = TheBoxes /\ drawn' \in [StatNames -> Int]
    BY <1>4, <2>2 DEF StatsInv, StatsTypes
  <2> QED BY <1>1, <2>1, <2>3 DEF StatsInv, StatsTypes
<1>9. HookInv'
  <2>1. drawn'["tx"] <= stat'["tx"]
    <3>1. drawn["tx"] <= stat["tx"] /\ stat["tx"] \in Int
      BY <1>5 DEF StatsInv, StatsTypes, HookInv
    <3>2. drawn'["tx"] \in {drawn["tx"], stat["tx"]}
      BY <1>4, <1>5 DEF StatsInv, StatsTypes
    <3> QED BY <1>1, <3>1, <3>2
  <2>2. (hook[1] = "send" => Formatted(Stats[hook[2]]))'
    <3> SUFFICES ASSUME hook'[1] = "send" PROVE Formatted(Stats[hook[2]])'
      OBVIOUS
    <3>2. hook' = <<"send", k>>
      BY <1>7 DEF AtFirst
    <3>3. /\ drawn' = [drawn EXCEPT ![s] = stat[s]]
          /\ strings' = [strings EXCEPT ![s] = StatString(s, stat[s]).text]
      BY <1>4, <3>2 DEF AfterStat, AtFirst
    <3>4. drawn'[s] = stat[s] /\ strings'[s] = StatString(s, stat[s]).text
      BY <3>3 DEF StatsInv, StatsTypes, StatNames, TheBoxes
    <3> QED BY <1>3, <1>5, <3>2, <3>4 DEF Formatted
  <2> QED BY <1>6, <2>1, <2>2 DEF HookInv
<1>10. QueueInv'
  <2>1. Asked = Asks /\ Asked' = Asks
    BY <1>2, <1>6, <1>7 DEF Asked, AtFirst
  <2>2. DrawnTo(Asks)
    BY <1>1, <2>1 DEF StatsInv, QueueInv
  <2> QED BY <1>1, <2>1, <2>2 DEF QueueInv, DrawnTo
<1>11. TextInv'
  <2>1. drawn["tx"] <= drawn'["tx"]
    BY <1>4, <1>5 DEF StatsInv, StatsTypes, HookInv
  <2>2. /\ drawn["tx"] \in Int /\ drawn'["tx"] \in Int
        /\ \A v \in Values["tx"] : v \in Int
    BY <1>5, <1>8, StatsAssumption DEF StatsInv, StatsTypes, Values
  <2> QED BY <1>1, <2>1, <2>2 DEF StatsInv, TextInv
<1> QED BY <1>8, <1>9, <1>10, <1>11 DEF StatsInv

LEMMA SendsStep ==
  ASSUME StatsInv, HookSends
  PROVE  StatsInv'
<1>1. /\ displayQueue = <<>> /\ hook[1] = "send"
      /\ UNCHANGED <<pen, canvas, strings, stat, drawn>>
  BY IdleMeansEmpty DEF HookSends
<1>2. PICK k \in 1..5 : hook = <<"send", k>>
  BY <1>1 DEF StatsInv, StatsTypes, HookTypes, AtFirst
<1>3. PICK s \in StatNames : s = Stats[k]
  BY StatsAre
<1>4. drawn["time"] # Unset /\ Formatted(s)
  BY <1>2, <1>3 DEF StatsInv, HookInv
<1>5. displayQueue' = <<StatMessage(s)>>
  <2>1. displayQueue' = Append(displayQueue, StatMessage(s))
    BY <1>2, <1>3 DEF HookSends, DisplayString, Request, StatMessage
  <2> QED BY <1>1, <2>1
<1>6. hook' = AtFirst \/ \E l \in 2..5 : hook' = <<"look", l>>
  <2>1. Len(Stats) = 5
    BY DEF Stats
  <2>2. hook' = AfterStat(k)
    BY <1>2 DEF HookSends
  <2> QED BY <2>1, <2>2 DEF AfterStat
<1>7. StatsTypes'
  <2>1. HookTypes'
    BY <1>6 DEF HookTypes
  <2> QED BY <1>1, <2>1 DEF StatsInv, StatsTypes
<1>8. HookInv'
  BY <1>1, <1>4, <1>6 DEF StatsInv, HookInv, AtFirst
<1>9. QueueInv'
  <2>1. Asked = Asks
    BY <1>2 DEF Asked, AtFirst
  <2>2. Asked' = Asks
    BY <1>1, <1>4, <1>6 DEF Asked, AtFirst
  <2>3. DrawnTo(Asks)
    BY <1>1, <2>1 DEF StatsInv, QueueInv
  <2>4. DrawnTo(Asks)'
    BY <1>1, <2>3 DEF DrawnTo
  <2>5. displayQueue' = <<StatMessage(s)'>> /\ Formatted(s)'
    BY <1>1, <1>4, <1>5 DEF StatMessage, Formatted
  <2> QED BY <2>2, <2>4, <2>5 DEF QueueInv
<1>10. TextInv'
  BY <1>1 DEF StatsInv, TextInv
<1> QED BY <1>7, <1>8, <1>9, <1>10 DEF StatsInv

(* A counter that grows stays ahead of the one drawn.                      *)
LEMMA ChangesStep ==
  ASSUME StatsInv, StatChanges
  PROVE  StatsInv'
<1>1. UNCHANGED <<displayQueue, pen, canvas, strings, hook, drawn>>
  BY DEF StatChanges, displayVars
<1>2. PICK s \in StatNames : \E v \in Values[s] :
        /\ s \in {"time", "tx", "rx"} => v > stat[s]
        /\ stat' = [stat EXCEPT ![s] = v]
  BY DEF StatChanges, Values, StatNames
<1>3. PICK v \in Values[s] :
        /\ s \in {"time", "tx", "rx"} => v > stat[s]
        /\ stat' = [stat EXCEPT ![s] = v]
  BY <1>2
<1>4. v \in Int
  BY ValuesAre
<1>5. StatsTypes'
  <2>1. stat' \in [StatNames -> Int] /\ \A t \in StatNames : stat'[t] \in Values[t]
    BY <1>3, <1>4 DEF StatsInv, StatsTypes
  <2> QED BY <1>1, <2>1 DEF StatsInv, StatsTypes, HookTypes
<1>6. HookInv'
  <2>1. drawn'["tx"] <= stat'["tx"]
    <3>1. /\ drawn["tx"] <= stat["tx"] /\ "tx" \in StatNames
          /\ stat \in [StatNames -> Int] /\ drawn["tx"] \in Int /\ stat["tx"] \in Int
      BY DEF StatsInv, StatsTypes, HookInv, StatNames
    <3>2. CASE s = "tx"
      BY <1>1, <1>3, <1>4, <3>1, <3>2
    <3>3. CASE s # "tx"
      BY <1>1, <1>3, <3>1, <3>3
    <3> QED BY <3>2, <3>3
  <2> QED BY <1>1, <2>1 DEF StatsInv, HookInv, Formatted
<1>7. QueueInv'
  BY <1>1 DEF StatsInv, QueueInv, DrawnTo, Asked, StatMessage, Formatted
<1>8. TextInv'
  BY <1>1 DEF StatsInv, TextInv
<1> QED BY <1>5, <1>6, <1>7, <1>8 DEF StatsInv

(* What the display task does with each kind of request.                   *)
LEMMA Drawer ==
  ASSUME StatsDraw, NEW m, m = Head(displayQueue)
  PROVE  /\ m.type = "string" => canvas' = WithString(canvas, m.at, m.box)
         /\ m.type = "move" => pen' = m.at /\ canvas' = canvas
         /\ m.type = "draw" => pen' = m.at /\ canvas' = [canvas EXCEPT !.lines = @ \cup {{pen, m.at}}]
<1>1. CASE m.type = "string"
  BY <1>1 DEF StatsDraw, DisplayTask
<1>2. CASE m.type = "move"
  BY <1>2 DEF StatsDraw, DisplayTask
<1>3. CASE m.type = "draw"
  BY <1>3 DEF StatsDraw, DisplayTask
<1> QED BY <1>1, <1>2, <1>3

(* Drawing a string changes the columns of its box only.                   *)
LEMMA StringDrawn ==
  ASSUME StatsTypes, NEW x, NEW box \in TheBoxes, canvas' = WithString(canvas, x, box)
  PROVE  /\ canvas' = [spiders |-> canvas'.spiders, lines |-> canvas'.lines, texts |-> canvas'.texts]
         /\ canvas'.lines = canvas.lines
         /\ canvas'.texts = [b \in TheBoxes |-> canvas'.texts[b]]
         /\ \A b \in TheBoxes \ {box} : canvas'.texts[b] = canvas.texts[b]
         /\ LET from == x + CharWidth * strings[box].before
                upto == from + CharWidth * strings[box].shown
                end == upto + CharWidth * strings[box].after
            IN canvas'.texts[box] = {r \in canvas.texts[box] : ~(x <= r[1] /\ r[2] <= end)} \cup {<<from, upto>>}
<1> DEFINE new == [canvas.texts EXCEPT ![box] =
                     LET from == x + CharWidth * strings[box].before
                         upto == from + CharWidth * strings[box].shown
                         end == upto + CharWidth * strings[box].after
                     IN {r \in @ : ~(x <= r[1] /\ r[2] <= end)} \cup {<<from, upto>>}]
<1>1. canvas' = [canvas EXCEPT !.texts = new]
  BY DEF WithString
<1> HIDE DEF new
<1>2. canvas' = [spiders |-> canvas.spiders, lines |-> canvas.lines, texts |-> new]
  BY <1>1 DEF StatsTypes
<1>3. canvas'.texts = new /\ canvas'.lines = canvas.lines /\ canvas'.spiders = canvas.spiders
  BY <1>2
<1>4. new = [b \in TheBoxes |-> new[b]]
  BY DEF new, StatsTypes
<1>5. \A b \in TheBoxes \ {box} : new[b] = canvas.texts[b]
  BY DEF new, StatsTypes
<1>6. LET from == x + CharWidth * strings[box].before
          upto == from + CharWidth * strings[box].shown
          end == upto + CharWidth * strings[box].after
      IN new[box] = {r \in canvas.texts[box] : ~(x <= r[1] /\ r[2] <= end)} \cup {<<from, upto>>}
  BY DEF new, StatsTypes
<1> QED BY <1>2, <1>3, <1>4, <1>5, <1>6

(* The display draws one of the first requests.                            *)
LEMMA FirstDrawn ==
  ASSUME StatsInv, StatsDraw, Asked >= 1, DrawnTo(Asked - 1),
         displayQueue = <<Message(FirstRequests[Asked])>>
  PROVE  /\ StatsTypes' /\ DrawnTo(Asked)'
         /\ \A s \in StatNames : canvas'.texts[s] = canvas.texts[s]
<1>0. PICK k : k = Asked
  OBVIOUS
<1> DEFINE r == FirstRequests[k]
           m == Message(r)
<1>1. k \in 1..18
  <2>1. Asks = 18
    BY AskKinds
  <2> QED BY <1>0, <2>1 DEF StatsInv, StatsTypes, HookTypes, Asked, AtFirst
<1>2. /\ r[1] \in {"move", "draw", "title"}
      /\ r[1] = "draw" => k - 1 >= 1 /\ FirstRequests[k - 1][1] # "title"
  BY <1>1, AskKinds
<1>3. /\ r[1] = "draw" => LinesOf(k) = LinesOf(k - 1) \cup {Line(k)}
      /\ r[1] # "draw" => LinesOf(k) = LinesOf(k - 1)
  BY <1>1, LinesGrow, AskKinds
<1>4. Head(displayQueue) = m
  BY <1>0
<1>5. canvas.lines = LinesOf(k - 1) /\ (r[1] = "draw" => pen = FirstRequests[k - 1][2])
  BY <1>0, <1>1, <1>2 DEF DrawnTo
<1> HIDE DEF r, m
<1>6. UNCHANGED <<strings, stat, drawn, hook>>
  BY DEF StatsDraw, DisplayTask
<1>7. Asked' = Asked
  BY <1>6 DEF Asked
<1>8. StatsTypes
  BY DEF StatsInv
<1>9. CASE r[1] = "title"
  <2>1. m = [type |-> "string", at |-> r[2], box |-> "titles"]
    BY <1>9 DEF Message, m
  <2>2. canvas' = WithString(canvas, r[2], "titles")
    BY <1>4, <2>1, Drawer
  <2>3. "titles" \in TheBoxes /\ \A s \in StatNames : s \in TheBoxes \ {"titles"}
    BY DEF TheBoxes, StatNames
  <2>4. /\ canvas' = [spiders |-> canvas'.spiders, lines |-> canvas'.lines, texts |-> canvas'.texts]
        /\ canvas'.lines = canvas.lines
        /\ canvas'.texts = [b \in TheBoxes |-> canvas'.texts[b]]
        /\ \A s \in StatNames : canvas'.texts[s] = canvas.texts[s]
    BY <1>8, <2>2, <2>3, StringDrawn
  <2>5. StatsTypes'
    BY <1>6, <1>8, <2>4 DEF StatsTypes, HookTypes
  <2>6. DrawnTo(k)'
    BY <1>3, <1>5, <1>9, <2>4 DEF DrawnTo, r
  <2> QED BY <1>0, <1>7, <2>4, <2>5, <2>6
<1>10. CASE r[1] = "move"
  <2>1. m = [type |-> "move", at |-> r[2]]
    BY <1>10 DEF Message, m
  <2>2. pen' = r[2] /\ canvas' = canvas
    BY <1>4, <2>1, Drawer
  <2>3. StatsTypes'
    BY <1>6, <1>8, <2>2 DEF StatsTypes, HookTypes
  <2>4. DrawnTo(k)'
    BY <1>3, <1>5, <1>10, <2>2 DEF DrawnTo, r
  <2> QED BY <1>0, <1>7, <2>2, <2>3, <2>4
<1>11. CASE r[1] = "draw"
  <2>1. m = [type |-> "draw", at |-> r[2]]
    BY <1>11 DEF Message, m
  <2>2. pen' = r[2] /\ canvas' = [canvas EXCEPT !.lines = @ \cup {{pen, r[2]}}]
    BY <1>4, <2>1, Drawer
  <2>3. canvas' = [spiders |-> canvas.spiders, lines |-> canvas.lines \cup {{pen, r[2]}}, texts |-> canvas.texts]
    BY <1>8, <2>2 DEF StatsTypes
  <2>4. canvas'.texts = canvas.texts /\ canvas'.lines = canvas.lines \cup {{pen, r[2]}} /\ canvas'.spiders = canvas.spiders
    BY <2>3
  <2>5. StatsTypes'
    BY <1>6, <1>8, <2>3, <2>4 DEF StatsTypes, HookTypes
  <2>6. {pen, r[2]} = Line(k)
    BY <1>5, <1>11 DEF Line, r
  <2>7. DrawnTo(k)'
    BY <1>3, <1>5, <1>11, <2>2, <2>4, <2>6 DEF DrawnTo, r
  <2> QED BY <1>0, <1>7, <2>4, <2>5, <2>7
<1> QED BY <1>2, <1>9, <1>10, <1>11

(* The display draws a statistic: nothing of the last one is left.         *)
LEMMA StatDrawn ==
  ASSUME StatsInv, StatsDraw, NEW s \in StatNames, displayQueue = <<StatMessage(s)>>, Formatted(s)
  PROVE  /\ StatsTypes' /\ canvas'.lines = canvas.lines
         /\ canvas'.texts[s] = {<<Left(s, drawn[s]), Right(s, drawn[s])>>}
         /\ \A t \in StatNames \ {s} : canvas'.texts[t] = canvas.texts[t]
<1> DEFINE v == drawn[s]
           x == StatString(s, v).x
           end == Right(s, v) + CharWidth * StatString(s, v).text.after
<1>1. canvas' = WithString(canvas, x, s) /\ UNCHANGED <<strings, stat, drawn, hook>>
  <2>1. Head(displayQueue) = StatMessage(s)
    OBVIOUS
  <2>2. canvas' = WithString(canvas, x, s)
    BY <2>1, Drawer DEF StatMessage
  <2> QED BY <2>2 DEF StatsDraw, DisplayTask
<1>2. s \in TheBoxes /\ StatNames \subseteq TheBoxes /\ StatsTypes
  BY DEF TheBoxes, StatNames, StatsInv
<1>3. strings[s] = StatString(s, v).text /\ v \in Values[s]
  BY DEF Formatted
<1>4. /\ canvas' = [spiders |-> canvas'.spiders, lines |-> canvas'.lines, texts |-> canvas'.texts]
      /\ canvas'.lines = canvas.lines
      /\ canvas'.texts = [b \in TheBoxes |-> canvas'.texts[b]]
      /\ \A b \in TheBoxes \ {s} : canvas'.texts[b] = canvas.texts[b]
  <2> HIDE DEF x
  <2> QED BY <1>1, <1>2, StringDrawn
<1>5. canvas'.texts[s] = {r \in canvas.texts[s] : ~(x <= r[1] /\ r[2] <= end)} \cup {<<Left(s, v), Right(s, v)>>}
  <2>1. LET from == x + CharWidth * strings[s].before
            upto == from + CharWidth * strings[s].shown
            last == upto + CharWidth * strings[s].after
        IN canvas'.texts[s] = {r \in canvas.texts[s] : ~(x <= r[1] /\ r[2] <= last)} \cup {<<from, upto>>}
    <3> HIDE DEF x
    <3> QED BY <1>1, <1>2, StringDrawn
  <2> QED BY <1>3, <2>1 DEF Left, Right
<1>6. \A r \in canvas.texts[s] : x <= r[1] /\ r[2] <= end
  <2>1. CASE canvas.texts[s] = {}
    BY <2>1
  <2>2. ASSUME NEW w \in Values[s], canvas.texts[s] = {<<Left(s, w), Right(s, w)>>}, s = "tx" => w <= v
        PROVE  \A r \in canvas.texts[s] : x <= r[1] /\ r[2] <= end
    <3>1. x <= Left(s, w) /\ Right(s, w) <= end
      BY <1>3, <2>2, TextsFit
    <3> QED BY <2>2, <3>1
  <2> QED BY <2>1, <2>2 DEF StatsInv, TextInv
<1> HIDE DEF x, end
<1>7. canvas'.texts[s] = {<<Left(s, v), Right(s, v)>>}
  BY <1>5, <1>6
<1>8. StatsTypes'
  BY <1>1, <1>2, <1>4 DEF StatsTypes, HookTypes
<1> QED BY <1>2, <1>4, <1>7, <1>8

LEMMA StatDrawStep ==
  ASSUME StatsInv, StatsDraw
  PROVE  StatsInv'
<1>1. displayQueue # <<>> /\ displayQueue' = Tail(displayQueue) /\ UNCHANGED <<strings, stat, drawn, hook>>
  BY DEF StatsDraw, DisplayTask
<1>2. HookInv'
  BY <1>1 DEF StatsInv, HookInv, Formatted
<1>3. Asked' = Asked
  BY <1>1 DEF Asked
<1>4. CASE Asked >= 1 /\ displayQueue = <<Message(FirstRequests[Asked])>> /\ DrawnTo(Asked - 1)
  <2>1. /\ StatsTypes' /\ DrawnTo(Asked)'
        /\ \A s \in StatNames : canvas'.texts[s] = canvas.texts[s]
    BY <1>4, FirstDrawn
  <2>2. displayQueue' = <<>>
    BY <1>1, <1>4
  <2>3. QueueInv'
    BY <1>3, <2>1, <2>2 DEF QueueInv
  <2>4. TextInv'
    BY <1>1, <2>1 DEF StatsInv, TextInv
  <2> QED BY <1>2, <2>1, <2>3, <2>4 DEF StatsInv
<1>5. ASSUME Asked = Asks, DrawnTo(Asks),
             NEW s \in StatNames, displayQueue = <<StatMessage(s)>>, Formatted(s)
      PROVE  StatsInv'
  <2>1. /\ StatsTypes' /\ canvas'.lines = canvas.lines
        /\ canvas'.texts[s] = {<<Left(s, drawn[s]), Right(s, drawn[s])>>}
        /\ \A t \in StatNames \ {s} : canvas'.texts[t] = canvas.texts[t]
    BY <1>5, StatDrawn
  <2>2. displayQueue' = <<>>
    BY <1>1, <1>5
  <2>3. QueueInv'
    <3>1. FirstRequests[Asks][1] = "title"
      BY AskKinds DEF FirstRequests
    <3> QED BY <1>3, <1>5, <2>1, <2>2, <3>1 DEF QueueInv, DrawnTo
  <2>4. TextInv'
    <3> SUFFICES ASSUME NEW t \in StatNames
                 PROVE  \/ canvas'.texts[t] = {}
                        \/ \E v \in Values[t] : /\ canvas'.texts[t] = {<<Left(t, v), Right(t, v)>>}
                                                /\ t = "tx" => v <= drawn[t]
      BY <1>1 DEF TextInv
    <3>1. CASE t = s
      <4>1. drawn[s] \in Values[s] /\ drawn[s] <= drawn[s]
        BY <1>5 DEF Formatted, StatsInv, StatsTypes
      <4> QED BY <2>1, <3>1, <4>1
    <3>2. CASE t # s
      BY <2>1, <3>2 DEF StatsInv, TextInv
    <3> QED BY <3>1, <3>2
  <2> QED BY <1>2, <2>1, <2>3, <2>4 DEF StatsInv
<1> QED BY <1>1, <1>4, <1>5 DEF StatsInv, QueueInv

LEMMA StatsNextInv == StatsInv /\ [StatsNext]_statsVars => StatsInv'
<1> SUFFICES ASSUME StatsInv, [StatsNext]_statsVars PROVE StatsInv'
  OBVIOUS
<1>1. CASE StatsNext
  BY <1>1, StartsStep, AsksStep, LooksStep, SendsStep, ChangesStep, StatDrawStep DEF StatsNext
<1>2. CASE UNCHANGED statsVars
  BY <1>2 DEF statsVars, displayVars, StatsInv, StatsTypes, HookTypes, HookInv, QueueInv, TextInv,
              DrawnTo, Asked, StatMessage, Formatted
<1> QED BY <1>1, <1>2

(* Whatever the statistics become and when, the idle hook never waits for  *)
(* the display (its queue has room for more than one request), each box    *)
(* shows one value, in its middle, without anything of an earlier one, and *)
(* the frame is complete after the first round.                            *)
THEOREM StatsAreShown ==
  ASSUME DISPLAY_QUEUE_SIZE > 1
  PROVE  StatsSpec => []StatsShown
<1>1. StatsInv => IdleNeverBlocks
  <2> SUFFICES ASSUME StatsInv PROVE Len(displayQueue) < DISPLAY_QUEUE_SIZE
    BY DEF IdleNeverBlocks
  <2>1. Len(displayQueue) \in {0, 1}
    <3>1. CASE displayQueue = <<>>
      BY <3>1
    <3>2. ASSUME NEW m, displayQueue = <<m>> PROVE Len(displayQueue) = 1
      BY <3>2
    <3> QED BY <3>1, <3>2 DEF StatsInv, QueueInv
  <2> QED BY <2>1, DisplayAssumption
<1>2. StatsInv => NothingLeftOver
  <2> SUFFICES ASSUME StatsInv PROVE NothingLeftOver
    OBVIOUS
  <2>1. DOMAIN Values = StatNames
    BY DEF Values, StatNames
  <2>2. ASSUME NEW s \in StatNames
        PROVE  /\ Cardinality(canvas.texts[s]) <= 1
               /\ \A r \in canvas.texts[s] : r[1] + r[2] - 2 * Middle[s] \in -2..2
    <3>1. CASE canvas.texts[s] = {}
      BY <3>1, FS_EmptySet
    <3>2. ASSUME NEW v \in Values[s], canvas.texts[s] = {<<Left(s, v), Right(s, v)>>}
          PROVE  /\ Cardinality(canvas.texts[s]) <= 1
                 /\ \A r \in canvas.texts[s] : r[1] + r[2] - 2 * Middle[s] \in -2..2
      <4>1. Cardinality({<<Left(s, v), Right(s, v)>>}) = 1
        BY FS_Singleton
      <4>2. v <= v
        BY ValuesAre
      <4>3. Left(s, v) + Right(s, v) - 2 * Middle[s] \in -2..2
        BY <4>2, TextsFit
      <4> QED BY <3>2, <4>1, <4>3
    <3> QED BY <3>1, <3>2 DEF StatsInv, TextInv
  <2>3. ASSUME hook[1] \in {"look", "send"}, displayQueue = <<>> PROVE canvas.lines = Frame
    <3>1. Asked = Asks
      BY <2>3 DEF Asked, AtFirst
    <3>2. DrawnTo(Asked)
      BY <2>3 DEF StatsInv, QueueInv
    <3> QED BY <3>1, <3>2, FrameDrawn DEF DrawnTo
  <2> QED BY <2>1, <2>2, <2>3 DEF NothingLeftOver
<1> QED BY <1>1, <1>2, StatsInitInv, StatsNextInv, PTL DEF StatsSpec, StatsShown
=============================================================================
