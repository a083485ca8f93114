-------------------------------- MODULE Tmp102 --------------------------------
(***************************************************************************)
(* HW5, the I2C conversation of TemperatureTask with its TMP102 sensor: it *)
(* writes the two threshold registers once and then reads the temperature  *)
(* register again and again, byte by byte.  The sensor converts a new      *)
(* temperature at any moment and drives the ALERT pin of module LoggerApp  *)
(* from the thresholds.                                                    *)
(*                                                                         *)
(* Temperatures are counted in sixteenths of a degree, the resolution of   *)
(* the sensor, so the code's factor 0.0625 is exact.                       *)
(***************************************************************************)
EXTENDS Integers, Sequences

CONSTANTS Temps,     \* what the sensor may measure, in sixteenths
          Threshold  \* in degrees; 27 in the code, for both registers

(* 12 bits of two's complement in the sensor, and whole degrees in the     *)
(* code: the values that fit both.                                         *)
Sixteenths == {t \in Int : -2048 <= t /\ t <= 2047}
Degrees == {d \in Int : -128 <= d /\ d <= 127}
ASSUME TempsAssumption == Temps \subseteq Sixteenths /\ Temps # {}
ASSUME ThresholdAssumption == Threshold \in Degrees

TEMP_REG == 0
CONFIG_REG == 1
TLOW_REG == 2
THIGH_REG == 3
Registers == {TEMP_REG, CONFIG_REG, TLOW_REG, THIGH_REG}

Byte == {v \in Nat : v < 256}
Word == {v \in Nat : v < 65536}

VARIABLES heat,         \* the temperature the sensor converted last
          regs,         \* the sensor's registers, 16 bits each
          pointer,      \* the register the next bytes are about
          first, second,\* the bytes that wait in the sensor or in the task
          pc, n,        \* where TemperatureTask is, and the byte it sends
          temperature,  \* its latest reading
          window,       \* history: the temperatures while it took the reading
          alert,        \* the ALERT pin is low
          settled       \* history: a conversion has followed the set-up

vars == <<heat, regs, pointer, first, second, pc, n, temperature, window,
          alert, settled>>

(* The bits of t as the sensor keeps them: the upper 12 of the register.   *)
Encode(t) == (16 * t) % 65536

int16(v) == IF v >= 32768 THEN v - 65536 ELSE v

(* Mutant: the value is shifted by the wrong amount.                       *)
BufferUnshifted(reg, data) ==
  LET d == IF reg = CONFIG_REG THEN data ELSE 16 * data IN
  <<reg, (d \div 256) % 256, d % 256>>

(* The three bytes of i2c_write; the cases of the switch that fill them.   *)
Buffer(reg, data) ==
  IF reg = CONFIG_REG
  THEN <<reg, (data \div 256) % 256, data % 256>>
  ELSE <<reg, ((16 * data) \div 16) % 256, (16 * (16 * data)) % 256>>

(* read_temperature: what the 16 bits of i2c_read stand for.               *)
Converted(v) == int16(v) \div 16

NoReading == -16000   \* read_temperature's -1000

TypeOK ==
  /\ heat \in Temps
  /\ regs \in [Registers -> Word]
  /\ pointer \in Registers
  /\ first \in Byte /\ second \in Byte
  /\ pc \in {"tlow", "thigh", "idle", "high", "low"}
  /\ n \in 1..3
  /\ temperature \in Temps \cup {NoReading}
  /\ window \subseteq Temps \cup {NoReading}
  /\ alert \in BOOLEAN /\ settled \in BOOLEAN

(* The sensor's registers when it is switched on: 75 and 80 degrees.       *)
PowerUp(t) == [r \in Registers |->
  IF r = TEMP_REG THEN Encode(t) ELSE
  IF r = CONFIG_REG THEN 24736 ELSE Encode(IF r = TLOW_REG THEN 16 * 75 ELSE 16 * 80)]

Init ==
  /\ heat \in Temps
  /\ regs = PowerUp(heat)
  /\ pointer = TEMP_REG /\ first = 0 /\ second = 0
  /\ pc = "tlow" /\ n = 1
  /\ temperature = NoReading /\ window = {NoReading}
  /\ alert = FALSE /\ settled = FALSE

(* One byte of i2c_write(TEMP_SENS_ADDR, reg, Threshold) and what the      *)
(* sensor makes of it.                                                     *)
i2c_write(reg, here, after) ==
  LET byte == Buffer(reg, Threshold)[n] IN
  /\ pc = here
  /\ pointer' = IF n = 1 THEN byte ELSE pointer
  /\ first' = IF n = 2 THEN byte ELSE first
  /\ regs' = IF n = 3 THEN [regs EXCEPT ![pointer] = 256 * first + byte] ELSE regs
  /\ n' = IF n = 3 THEN 1 ELSE n + 1
  /\ pc' = IF n = 3 THEN after ELSE here
  /\ settled' = FALSE
  /\ UNCHANGED <<heat, second, temperature, window, alert>>

(* i2c_read(TEMP_SENS_ADDR, TEMP_REG): the pointer, then two bytes.  The   *)
(* sensor keeps the second byte of the value it gave the first byte of.    *)
ReadPointer ==
  /\ pc = "idle"
  /\ pointer' = TEMP_REG
  /\ window' = {heat}
  /\ pc' = "high"
  /\ UNCHANGED <<heat, regs, first, second, n, temperature, alert, settled>>

ReadHigh ==
  /\ pc = "high"
  /\ first' = regs[pointer] \div 256
  /\ second' = regs[pointer] % 256
  /\ pc' = "low"
  /\ UNCHANGED <<heat, regs, pointer, n, temperature, window, alert, settled>>

(* Mutant: the two bytes are put together the wrong way round.             *)
ReadLowSwapped ==
  /\ pc = "low"
  /\ temperature' = Converted(256 * second + first)
  /\ pc' = "idle"
  /\ UNCHANGED <<heat, regs, pointer, first, second, n, window, alert, settled>>

ReadLow ==
  /\ pc = "low"
  /\ temperature' = Converted(256 * first + second)
  /\ pc' = "idle"
  /\ UNCHANGED <<heat, regs, pointer, first, second, n, window, alert, settled>>

(* The sensor measures t.  In its comparator mode ALERT goes low at THIGH  *)
(* and high again below TLOW.                                              *)
Convert(t) ==
  /\ heat' = t
  /\ regs' = [regs EXCEPT ![TEMP_REG] = Encode(t)]
  /\ alert' = \/ t >= Converted(regs[THIGH_REG])
              \/ alert /\ t >= Converted(regs[TLOW_REG])
  /\ window' = IF pc \in {"high", "low"} THEN window \cup {t} ELSE window
  /\ settled' = (pc \in {"idle", "high", "low"})
  /\ UNCHANGED <<pointer, first, second, pc, n, temperature>>

SetUp == i2c_write(TLOW_REG, "tlow", "thigh") \/ i2c_write(THIGH_REG, "thigh", "idle")

Next == SetUp \/ ReadPointer \/ ReadHigh \/ ReadLow \/ \E t \in Temps : Convert(t)

Spec == Init /\ [][Next]_vars

-----------------------------------------------------------------------------
(* A reading is a temperature the sensor measured while it was read, sign  *)
(* and fraction included, although it is put together from two bytes that  *)
(* are fetched at different times.                                         *)
ReadingIsCurrent == pc \notin {"high", "low"} => temperature \in window

(* Once both registers are written and the sensor has converted again, the *)
(* ALERT pin is low exactly when it is at least as hot as the threshold.   *)
AlertIsAtThreshold == settled => (alert <=> heat >= 16 * Threshold)
=============================================================================
