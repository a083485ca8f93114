------------------------------ MODULE SysInfo ------------------------------
(***************************************************************************)
(* sysinfo of HW2's sys.c: memory sizes in words of the kernel's width and *)
(* of a 32-bit caller's, with a unit that is chosen so that they fit.  The *)
(* widths are scaled down; sizes are counted in pages.                     *)
(***************************************************************************)
EXTENDS Integers

CONSTANTS WORD,          \* 2^BITS_PER_LONG
          WORD32,        \* 2^32
          MaxPages,      \* bound on RAM and on swap, in pages
          Step           \* pages that are added at a time

ASSUME InfoAssumption ==
  {WORD, WORD32, MaxPages, Step} \subseteq Nat \ {0} /\ MaxPages + Step <= WORD

PAGE_SIZE == 4

VARIABLE memory   \* pages of RAM, of free RAM, of swap

InfoInit == memory = [totalram |-> 1, freeram |-> 1, totalswap |-> 0]

(* Memory is used, or released; swap space and memory are added.           *)
Uses(free) == memory' = [memory EXCEPT !.freeram = free]
Swapon == memory.totalswap < MaxPages /\ memory' = [memory EXCEPT !.totalswap = @ + Step]
AddMemory == memory.totalram < MaxPages /\ memory' = [memory EXCEPT !.totalram = @ + Step]

(* The sum of RAM and swap, doubled once for each bit of the unit, never   *)
(* got smaller: it fits a word in bytes.                                   *)
FitsInBytes ==
  LET total == (memory.totalram + memory.totalswap) % WORD
      twice == (2 * total) % WORD
  IN /\ total >= memory.totalram /\ total >= memory.totalswap
     /\ twice >= total
     /\ (2 * twice) % WORD >= twice

InfoFields == DOMAIN memory \cup {"mem_unit"}

do_sysinfo ==
  LET unit == IF FitsInBytes THEN 1 ELSE PAGE_SIZE
      shifted(pages) == ((PAGE_SIZE \div unit) * pages) % WORD
  IN [f \in InfoFields |-> IF f = "mem_unit" THEN unit ELSE shifted(memory[f])]

(* Scaled down to pages when RAM or swap needs more than 32 bits; each     *)
(* value is then stored in 32 bits.                                        *)
compat_sysinfo ==
  LET s == do_sysinfo
      large == s.totalram >= WORD32 \/ s.totalswap >= WORD32
      unit == IF large THEN PAGE_SIZE ELSE s.mem_unit
  IN [f \in InfoFields |-> IF f = "mem_unit" THEN unit ELSE (s[f] \div (unit \div s.mem_unit)) % WORD32]

InfoNext ==
  \/ \E free \in 0..memory.totalram : Uses(free)
  \/ Swapon
  \/ AddMemory

InfoSpec == InfoInit /\ [][InfoNext]_memory

-----------------------------------------------------------------------------
(* Both calls report every size exactly, as a value times the unit they    *)
(* report with it: the 64-bit call always, the 32-bit call as long as the  *)
(* size is less than 2^32 pages.  And when RAM and swap together fit in a  *)
(* word, the unit is one byte, as 2.2 kernels had it.                      *)
SysinfoExact ==
  /\ \A f \in DOMAIN memory :
       /\ do_sysinfo[f] * do_sysinfo.mem_unit = memory[f] * PAGE_SIZE
       /\ memory[f] < WORD32 => compat_sysinfo[f] * compat_sysinfo.mem_unit = memory[f] * PAGE_SIZE
  /\ (memory.totalram + memory.totalswap) * PAGE_SIZE < WORD => do_sysinfo.mem_unit = 1
=============================================================================
