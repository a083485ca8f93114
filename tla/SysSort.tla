------------------------------ MODULE SysSort ------------------------------
(***************************************************************************)
(* HW2's own system call, sorting, and the test program that calls it      *)
(* three times.  quick_sort is recursive: its calls are frames on a stack, *)
(* and each step is what the newest frame does next.                       *)
(***************************************************************************)
EXTENDS Integers, Sequences, FiniteSets

CONSTANTS SortSizes,    \* sizes of the program's array
          SortValues,   \* values of the elements
          INT_MOD,      \* 2^32: integers wrap
          Looked        \* elements of a longer array that are looked at

SIZE_OF_INT == 4
SEFAULT == -14

(* Only an array whose size in bytes does not fit an int is not looked at  *)
(* to its end: it is never sorted.                                         *)
ASSUME SortAssumption ==
  /\ SortSizes \subseteq Nat /\ SortValues \subseteq Int /\ Looked \in Nat
  /\ INT_MOD \in Nat \ {0} /\ INT_MOD % 8 = 0
  /\ \A size \in SortSizes : size > Looked => size * SIZE_OF_INT >= INT_MOD \div 2

(* An int holding x.                                                       *)
Wrapped(x) == LET w == x % INT_MOD IN IF w >= INT_MOD \div 2 THEN w - INT_MOD ELSE w

VARIABLE qs

(* pc: where the call is.  unsorted, sorted: the program's arrays; kernel: *)
(* to_return, of room elements.  buffers: what kmalloc gave and kfree has  *)
(* not taken back.  call: which of its three calls the program is in.      *)
SortStarts(size, array) ==
  [pc |-> "call", call |-> 1, size |-> size, unsorted |-> array, sorted |-> <<>>, kernel |-> <<>>,
   room |-> 0, frames |-> <<>>, buffers |-> 0, faults |-> 0, ret |-> 1]

SortInit ==
  \E size \in SortSizes : \E array \in [1..(IF size > Looked THEN Looked ELSE size) -> SortValues] :
    qs = SortStarts(size, array)

(* The second call passes NULL, the third a negative size.                 *)
BadArguments == qs.call \in {2, 3} \/ qs.size <= 0

Return(ret) == [qs EXCEPT !.pc = "returned", !.ret = ret]

SortCall ==
  /\ qs.pc = "call"
  /\ \/ BadArguments /\ qs' = Return(SEFAULT)
     \/ ~BadArguments /\ qs' = [qs EXCEPT !.pc = "kmalloc"]

(* size_of_var is an int32_t; kmalloc refuses a negative one, which it     *)
(* takes for a huge one, and may refuse any.                               *)
SortKmalloc ==
  LET size_of_var == Wrapped(qs.size * SIZE_OF_INT)
  IN /\ qs.pc = "kmalloc"
     /\ \/ qs' = Return(SEFAULT)
        \/ /\ size_of_var >= 0
           /\ qs' = [qs EXCEPT !.pc = "copy_from_user", !.buffers = @ + 1,
                               !.room = size_of_var \div SIZE_OF_INT]

(* A fault returns at once, and the buffer stays allocated.                *)
CopyFault(pc) ==
  /\ qs.pc = pc
  /\ qs' = [Return(SEFAULT) EXCEPT !.faults = @ + 1]

CopyFromUser ==
  /\ qs.pc = "copy_from_user"
  /\ qs' = [qs EXCEPT !.pc = "quick_sort", !.kernel = SubSeq(qs.unsorted, 1, qs.room),
                      !.frames = <<[low |-> 0, high |-> qs.size - 1, step |-> "enter"]>>]

(* The printing loops and the sort index the buffer up to size - 1.        *)
OutOfBounds ==
  /\ qs.pc = "quick_sort" /\ qs.frames # <<>>
  /\ Head(qs.frames).high >= qs.room
  /\ qs' = [qs EXCEPT !.pc = "wild"]

Swap(a, i, j) == [a EXCEPT ![i + 1] = a[j + 1], ![j + 1] = a[i + 1]]

(* The body of the loop, for the element at j - 1.                         *)
Compared(before, j, pivot) ==
  IF before.a[j] >= pivot THEN [a |-> Swap(before.a, j - 1, before.i), i |-> before.i + 1] ELSE before

(* The array and the index after the loop has seen the elements below j.   *)
PartitionLoop(a, low, high) ==
  LET loop[j \in low..high] ==
        IF j = low THEN [a |-> a, i |-> low] ELSE Compared(loop[j - 1], j, a[high + 1])
  IN loop

get_partition_index(a, low, high) ==
  LET end == PartitionLoop(a, low, high)[high]
  IN [a |-> Swap(end.a, end.i, high), i |-> end.i]

Frame(low, high, step) == [low |-> low, high |-> high, step |-> step]

(* The call on the left part, above the one that goes on to the right.     *)
SplitSkipsOne(f, i) == <<Frame(f.low, i - 1, "enter"), Frame(i + 2, f.high, "right")>>
Split(f, i) == <<Frame(f.low, i - 1, "enter"), Frame(i + 1, f.high, "right")>>

(* One step of the newest call.  Frames are kept newest first.             *)
quick_sort ==
  /\ qs.pc = "quick_sort" /\ qs.frames # <<>>
  /\ LET f == Head(qs.frames)
         part == get_partition_index(qs.kernel, f.low, f.high)
         becomes(fs) == [qs EXCEPT !.frames = fs \o Tail(@)]
     IN /\ f.high < qs.room
        /\ \/ f.step = "enter" /\ f.low >= f.high /\ qs' = becomes(<<>>)
           \/ /\ f.step = "enter" /\ f.low < f.high
              /\ qs' = [becomes(Split(f, part.i)) EXCEPT !.kernel = part.a]
           \/ f.step = "right" /\ qs' = becomes(<<[f EXCEPT !.step = "enter"], [f EXCEPT !.step = "leave"]>>)
           \/ f.step = "leave" /\ qs' = becomes(<<>>)

CopyToUser ==
  /\ qs.pc = "quick_sort" /\ qs.frames = <<>>
  /\ qs' = [Return(0) EXCEPT !.sorted = qs.kernel, !.buffers = @ - 1]

(* The program goes on to its next call whatever the result was.           *)
NextCall ==
  /\ qs.pc = "returned" /\ qs.call < 3
  /\ qs' = [qs EXCEPT !.pc = "call", !.call = @ + 1]

SortNext ==
  \/ SortCall \/ SortKmalloc \/ CopyFromUser \/ OutOfBounds \/ quick_sort \/ CopyToUser \/ NextCall
  \/ CopyFault("copy_from_user")
  \/ qs.frames = <<>> /\ CopyFault("quick_sort")

SortSpec == SortInit /\ [][SortNext]_qs

-----------------------------------------------------------------------------
(* A call that returns 0 has given the program its own elements in         *)
(* descending order, and the two later calls, which fail, leave them as    *)
(* they are.  No index leaves the buffer unless the size in bytes does not *)
(* fit an int.  A buffer is lost for each fault and in no other case.      *)
SortCorrect ==
  /\ qs.ret = 0 \/ qs.sorted # <<>> =>
       /\ \A i, j \in 1..qs.size : i < j => qs.sorted[i] >= qs.sorted[j]
       /\ \A v \in SortValues : Cardinality({i \in 1..qs.size : qs.sorted[i] = v})
                              = Cardinality({i \in 1..qs.size : qs.unsorted[i] = v})
  /\ qs.pc = "wild" => qs.size * SIZE_OF_INT >= INT_MOD \div 2
  /\ qs.pc = "returned" => qs.buffers = qs.faults

(* quick_sort recurses to a depth of at most the number of elements: that  *)
(* is what an array already in order needs, on a kernel stack.             *)
DepthBounded == Len(qs.frames) <= qs.size

(* The sorting call does its work on a stack no deeper than its array.     *)
SortingWorks == SortCorrect /\ DepthBounded
=============================================================================
