------------------------------- MODULE SysMm -------------------------------
(***************************************************************************)
(* prctl(PR_SET_MM): a process rewrites the record of its own memory map,  *)
(* its auxiliary vector and its executable file (HW2's sys.c).  A call     *)
(* that fails at any of its checks changes nothing.  The process has one   *)
(* thread, so nobody maps a file between a call's check and its effect.    *)
(***************************************************************************)
EXTENDS Integers

CONSTANTS VmaTop,          \* no mapping ends above this address
          RLIMIT_DATA,
          AT_VECTOR_SIZE,
          Maps             \* the whole maps a process is started with or asks for

Addr == 1..VmaTop        \* mmap_min_addr up to TASK_SIZE
AT_NULL == 0
Files == {"a", "b"}      \* regular, executable files

MapFields == {"start_code", "end_code", "start_data", "end_data", "start_brk", "brk",
              "start_stack", "arg_start", "arg_end", "env_start", "env_end"}

OnStack == {"start_stack", "arg_start", "arg_end", "env_start", "env_end"}

ASSUME MmAssumption ==
  /\ VmaTop \in Nat /\ RLIMIT_DATA \in Nat /\ AT_VECTOR_SIZE \in Nat /\ AT_VECTOR_SIZE > 2
  /\ Maps \subseteq [MapFields -> Nat]

VARIABLE mm   \* map: the addresses; auxv; exe: exe_file; mapped: the files that are mapped;
              \* caps: of the process

(* check_data_rlimit.                                                      *)
DataFits(m) == (m.brk - m.start_brk) + (m.end_data - m.start_data) <= RLIMIT_DATA

(* The part of validate_prctl_map about the addresses.                     *)
validate_prctl_map(m) ==
  /\ \A f \in MapFields : m[f] \in Addr
  /\ m.start_code < m.end_code /\ m.start_data < m.end_data
  /\ m.start_brk <= m.brk /\ m.arg_start <= m.arg_end /\ m.env_start <= m.env_end
  /\ m.start_brk > m.end_data /\ m.brk > m.end_data
  /\ DataFits(m)

Auxv == [1..AT_VECTOR_SIZE -> {AT_NULL, 1}]
NoFd == "none"

(* execve leaves a map that passes the checks.                             *)
MmStarts ==
  {m \in [map : Maps, auxv : {[i \in 1..AT_VECTOR_SIZE |-> IF i = 1 THEN 1 ELSE AT_NULL]},
          exe : {"a"}, mapped : {{"a"}}, caps : {{}, {"CAP_SYS_RESOURCE", "CAP_SYS_ADMIN"}}] :
     validate_prctl_map(m.map)}

MmInit == mm \in MmStarts

(* The process maps and unmaps files.                                      *)
mmap(f) == f \notin mm.mapped /\ mm' = [mm EXCEPT !.mapped = @ \cup {f}]
munmap(f) == f \in mm.mapped /\ mm' = [mm EXCEPT !.mapped = @ \ {f}]

(* The old executable file must not be mapped any more.                    *)
prctl_set_mm_exe_file(fd) == fd \in Files /\ mm.exe \notin mm.mapped

(* The vector after a write of its first len entries, the last two of the  *)
(* buffer cleared first.                                                   *)
AuxvWithOne(old, user, len) ==
  [i \in 1..AT_VECTOR_SIZE |-> IF i > len THEN old[i]
                               ELSE IF i = AT_VECTOR_SIZE THEN AT_NULL ELSE user[i]]

AuxvWith(old, user, len) ==
  [i \in 1..AT_VECTOR_SIZE |-> IF i > len THEN old[i]
                               ELSE IF i > AT_VECTOR_SIZE - 2 THEN AT_NULL ELSE user[i]]

prctl_set_auxv(user, len) ==
  /\ "CAP_SYS_RESOURCE" \in mm.caps
  /\ len <= AT_VECTOR_SIZE
  /\ mm' = [mm EXCEPT !.auxv = AuxvWith(@, user, len)]

(* PR_SET_MM_MAP: everything at once.  A vector shorter than the full one  *)
(* is padded with zeros.                                                   *)
prctl_set_mm_map(m, user, size, fd) ==
  /\ validate_prctl_map(m)
  /\ size <= AT_VECTOR_SIZE
  /\ fd # NoFd => "CAP_SYS_ADMIN" \in mm.caps /\ prctl_set_mm_exe_file(fd)
  /\ LET zeros == [i \in 1..AT_VECTOR_SIZE |-> AT_NULL]
         padded == [i \in 1..AT_VECTOR_SIZE |-> IF i <= size THEN user[i] ELSE AT_NULL]
     IN mm' = [mm EXCEPT !.map = m, !.exe = IF fd = NoFd THEN @ ELSE fd,
                         !.auxv = IF size = 0 THEN @ ELSE AuxvWith(zeros, padded, AT_VECTOR_SIZE)]

PrSetMmExeFile(fd) ==
  /\ "CAP_SYS_RESOURCE" \in mm.caps
  /\ prctl_set_mm_exe_file(fd)
  /\ mm' = [mm EXCEPT !.exe = fd]

(* The other options: one address.  Those on the stack need a mapping that *)
(* ends above it.                                                          *)
prctl_set_mm(f, addr) ==
  /\ "CAP_SYS_RESOURCE" \in mm.caps
  /\ addr \in Addr
  /\ validate_prctl_map([mm.map EXCEPT ![f] = addr])
  /\ f \in OnStack => addr < VmaTop
  /\ mm' = [mm EXCEPT !.map[f] = addr]

MmNext ==
  \/ \E f \in Files : mmap(f) \/ munmap(f) \/ PrSetMmExeFile(f)
  \/ \E user \in Auxv, len \in 0..AT_VECTOR_SIZE + 1 : prctl_set_auxv(user, len)
  \/ \E m \in Maps, user \in Auxv, size \in 0..AT_VECTOR_SIZE, fd \in Files \cup {NoFd} :
       prctl_set_mm_map(m, user, size, fd)
  \/ \E f \in MapFields, addr \in 0..VmaTop + 1 : prctl_set_mm(f, addr)

MmSpec == MmInit /\ [][MmNext]_mm

-----------------------------------------------------------------------------
(* However a process rewrites its map, address by address or all at once:  *)
(* the text, data and heap stay ordered, the heap lies above the data and  *)
(* within the data limit, and the auxiliary vector ends in AT_NULL, so a   *)
(* reader of /proc stops inside it.                                        *)
MapStaysSane ==
  /\ mm.map.start_code < mm.map.end_code
  /\ mm.map.start_data < mm.map.end_data /\ mm.map.end_data < mm.map.start_brk
  /\ mm.map.start_brk <= mm.map.brk /\ DataFits(mm.map)
  /\ \A i \in {AT_VECTOR_SIZE - 1, AT_VECTOR_SIZE} : mm.auxv[i] = AT_NULL
=============================================================================
