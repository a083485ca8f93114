--------------------------- MODULE UartStdio_proofs ---------------------------
(***************************************************************************)
(* Proofs about the console: the rings keep the order of their bytes       *)
(* whatever their sizes and wherever the interrupt falls.                  *)
(***************************************************************************)
EXTENDS UartStdio, SequenceTheorems, TLAPS

-----------------------------------------------------------------------------
(* Arithmetic of the indices of a ring.                                    *)

Sizes == Nat \ {0, 1}
Cnt(w, r, size) == IF w >= r THEN w - r ELSE size - (r - w)
Idx(r, size, k) == IF r + k - 1 < size THEN r + k - 1 ELSE r + k - 1 - size
Off(j, w, size) == IF j >= w THEN j - w ELSE j - w + size

(* An index moved on past the end comes round once.                        *)
LEMMA Wrap == ASSUME NEW size \in Sizes, NEW x \in 0..(size - 1), NEW y \in 0..size
              PROVE  /\ (x + y) % size = IF x + y < size THEN x + y ELSE x + y - size
                     /\ (x + y) % size \in 0..(size - 1)
<1>1. CASE x + y < size
  BY <1>1 DEF Sizes
<1>2. CASE ~ (x + y < size)
  BY <1>2 DEF Sizes
<1> QED BY <1>1, <1>2

(* How far one index is ahead of another.                                  *)
LEMMA WrapBack ==
  ASSUME NEW size \in Sizes, NEW x \in 0..(size - 1), NEW y \in 0..(size - 1)
  PROVE  (x - y) % size = Off(x, y, size)
<1>1. CASE x >= y
  BY <1>1 DEF Sizes, Off
<1>2. CASE ~ (x >= y)
  BY <1>2 DEF Sizes, Off
<1> QED BY <1>1, <1>2

(* A ring is empty when the indices meet, full when the next write would   *)
(* make them.                                                              *)
LEMMA CntRange ==
  ASSUME NEW size \in Sizes, NEW w \in 0..(size - 1), NEW r \in 0..(size - 1)
  PROVE  /\ Cnt(w, r, size) \in 0..(size - 1) /\ Cnt(w, r, size) \in Nat
         /\ w = r <=> Cnt(w, r, size) = 0
         /\ (w + 1) % size = r <=> Cnt(w, r, size) = size - 1
<1>1. 1 \in 0..size
  BY DEF Sizes
<1>2. (w + 1) % size = IF w + 1 < size THEN w + 1 ELSE w + 1 - size
  BY <1>1, Wrap
<1> QED BY <1>2 DEF Cnt, Sizes

(* l characters written are counted,                                       *)
LEMMA CntWrite ==
  ASSUME NEW size \in Sizes, NEW w \in 0..(size - 1), NEW r \in 0..(size - 1),
         NEW l \in 0..(size - 1 - Cnt(w, r, size))
  PROVE  /\ l \in 0..size
         /\ Cnt((w + l) % size, r, size) = Cnt(w, r, size) + l
<1>1. l \in 0..size
  BY CntRange DEF Sizes
<1>2. CASE w + l < size
  <2>1. (w + l) % size = w + l
    BY <1>1, <1>2, Wrap
  <2> QED BY <1>1, <1>2, <2>1 DEF Cnt, Sizes
<1>3. CASE ~ (w + l < size)
  <2>1. (w + l) % size = w + l - size
    BY <1>1, <1>3, Wrap
  <2> QED BY <1>1, <1>3, <2>1 DEF Cnt, Sizes
<1> QED BY <1>1, <1>2, <1>3

(* one taken back is no longer counted,                                    *)
LEMMA CntBack ==
  ASSUME NEW size \in Sizes, NEW w \in 0..(size - 1), NEW r \in 0..(size - 1),
         Cnt(w, r, size) # 0
  PROVE  Cnt(IF w = 0 THEN size - 1 ELSE w - 1, r, size) = Cnt(w, r, size) - 1
BY DEF Cnt, Sizes

(* and m characters read are not either.                                   *)
LEMMA CntRead ==
  ASSUME NEW size \in Sizes, NEW w \in 0..(size - 1), NEW r \in 0..(size - 1),
         NEW m \in 0..Cnt(w, r, size)
  PROVE  /\ m \in 0..size
         /\ Cnt(w, (r + m) % size, size) = Cnt(w, r, size) - m
<1>1. m \in 0..size
  BY CntRange DEF Sizes
<1>2. CASE r + m < size
  <2>1. (r + m) % size = r + m
    BY <1>1, <1>2, Wrap
  <2> QED BY <1>1, <1>2, <2>1 DEF Cnt, Sizes
<1>3. CASE ~ (r + m < size)
  <2>1. (r + m) % size = r + m - size
    BY <1>1, <1>3, Wrap
  <2> QED BY <1>1, <1>3, <2>1 DEF Cnt, Sizes
<1> QED BY <1>1, <1>2, <1>3

(* The place of the k-th character is in the ring, and past the others.    *)
LEMMA IdxRange ==
  ASSUME NEW size \in Sizes, NEW r \in 0..(size - 1), NEW k \in 1..size
  PROVE  Idx(r, size, k) \in 0..(size - 1) /\ (r + k - 1) % size = Idx(r, size, k)
<1>1. k - 1 \in 0..size /\ r + k - 1 = r + (k - 1)
  BY DEF Sizes
<1>2. (r + (k - 1)) % size = IF r + (k - 1) < size THEN r + (k - 1) ELSE r + (k - 1) - size
  BY <1>1, Wrap
<1>3. (r + k - 1) % size = Idx(r, size, k)
  BY <1>1, <1>2 DEF Idx
<1> QED BY <1>3 DEF Idx, Sizes

(* After m characters are read, the k-th place is the (m + k)-th of        *)
(* before.                                                                 *)
LEMMA IdxRead ==
  ASSUME NEW size \in Sizes, NEW r \in 0..(size - 1), NEW m \in 0..size, NEW k \in 1..(size - m)
  PROVE  Idx((r + m) % size, size, k) = Idx(r, size, m + k)
<1>2. CASE r + m < size
  <2>1. (r + m) % size = r + m
    BY <1>2, Wrap
  <2> QED BY <1>2, <2>1 DEF Idx, Sizes
<1>3. CASE ~ (r + m < size)
  <2>1. (r + m) % size = r + m - size
    BY <1>3, Wrap
  <2> QED BY <1>3, <2>1 DEF Idx, Sizes
<1> QED BY <1>2, <1>3

(* The places of the characters held lie behind the write index, the free  *)
(* ones ahead.                                                             *)
LEMMA IdxOff ==
  ASSUME NEW size \in Sizes, NEW w \in 0..(size - 1), NEW r \in 0..(size - 1), NEW k \in 1..size
  PROVE  /\ Off(Idx(r, size, k), w, size) \in Nat
         /\ k <= Cnt(w, r, size) => /\ Off(Idx(r, size, k), w, size) >= size - Cnt(w, r, size)
                                    /\ Idx(r, size, k) # w
         /\ k > Cnt(w, r, size) => Off(Idx(r, size, k), w, size) + 1 = k - Cnt(w, r, size)
<1>1. CASE r + k - 1 < size
  BY <1>1 DEF Off, Idx, Cnt, Sizes
<1>2. CASE ~ (r + k - 1 < size)
  BY <1>2 DEF Off, Idx, Cnt, Sizes
<1> QED BY <1>1, <1>2

-----------------------------------------------------------------------------
(* A ring of characters S.                                                 *)
Rings(S, size) == [buf : [0..(size - 1) -> S], w : 0..(size - 1), r : 0..(size - 1)]

(* IsBufferEmpty, IsBufferFull and GetBufferCount agree on what is in the  *)
(* ring.                                                                   *)
LEMMA RingTypes ==
  ASSUME NEW S, NEW size \in Sizes, NEW b \in Rings(S, size)
  PROVE  /\ b.w \in 0..(size - 1) /\ b.r \in 0..(size - 1) /\ b.buf \in [0..(size - 1) -> S]
         /\ GetBufferCount(b, size) = Cnt(b.w, b.r, size)
         /\ GetBufferCount(b, size) \in 0..(size - 1) /\ GetBufferCount(b, size) \in Nat
         /\ IsBufferEmpty(b) <=> GetBufferCount(b, size) = 0
         /\ IsBufferFull(b, size) <=> GetBufferCount(b, size) = size - 1
<1>1. b.w \in 0..(size - 1) /\ b.r \in 0..(size - 1) /\ b.buf \in [0..(size - 1) -> S]
  BY DEF Rings
<1>2. GetBufferCount(b, size) = Cnt(b.w, b.r, size)
  BY DEF GetBufferCount, Cnt
<1> QED BY <1>1, <1>2, CntRange DEF IsBufferEmpty, IsBufferFull

(* The k-th of the contents is at the k-th place from the read index.      *)
LEMMA ContentsAt ==
  ASSUME NEW S, NEW size \in Sizes, NEW b \in Rings(S, size)
  PROVE  /\ Contents(b, size) \in Seq(S) /\ Len(Contents(b, size)) = GetBufferCount(b, size)
         /\ \A k \in 1..GetBufferCount(b, size) :
              Contents(b, size)[k] = b.buf[Idx(b.r, size, k)]
<1> DEFINE n == GetBufferCount(b, size)
           c == Contents(b, size)
<1>1. n \in 0..(size - 1) /\ n \in Nat /\ b.r \in 0..(size - 1) /\ b.buf \in [0..(size - 1) -> S]
  BY RingTypes
<1>2. c = [k \in 1..n |-> b.buf[(b.r + k - 1) % size]]
  BY DEF Contents
<1> HIDE DEF n, c
<1>3. ASSUME NEW k \in 1..n
      PROVE  b.buf[(b.r + k - 1) % size] = b.buf[Idx(b.r, size, k)] /\ b.buf[Idx(b.r, size, k)] \in S
  <2>1. k \in 1..size
    BY <1>1 DEF Sizes
  <2> QED BY <1>1, <2>1, IdxRange
<1>4. c \in [1..n -> S]
  BY <1>2, <1>3
<1>5. c \in Seq(S) /\ Len(c) = n
  BY <1>1, <1>4
<1>6. \A k \in 1..n : c[k] = b.buf[Idx(b.r, size, k)]
  BY <1>2, <1>3
<1> QED BY <1>5, <1>6 DEF n, c

(* The contents are what is at those places.                               *)
LEMMA RingHolds ==
  ASSUME NEW S, NEW size \in Sizes, NEW b \in Rings(S, size), NEW t \in Seq(S),
         Len(t) = GetBufferCount(b, size), \A k \in 1..Len(t) : t[k] = b.buf[Idx(b.r, size, k)]
  PROVE  Contents(b, size) = t
BY ContentsAt, SeqEqual

(* What is left of a sequence without its last element.                    *)
LEMMA FrontIs ==
  ASSUME NEW S, NEW s \in Seq(S), Len(s) # 0
  PROVE  /\ Front(s) \in Seq(S) /\ Len(Front(s)) = Len(s) - 1
         /\ \A k \in 1..(Len(s) - 1) : Front(s)[k] = s[k]
<1> DEFINE n == Len(s)
           t == SubSeq(s, 1, n - 1)
<1>1. n \in Nat /\ n # 0
  BY LenProperties
<1>2. Front(s) = t
  BY DEF Front
<1>3. n - 1 \in Int /\ \A k \in 1..(n - 1) : s[k] \in S
  <2>1. ASSUME NEW k \in 1..(n - 1) PROVE s[k] \in S
    <3>1. k \in 1..Len(s)
      BY <1>1
    <3> QED BY <3>1, ElementOfSeq
  <2> QED BY <1>1, <2>1
<1> HIDE DEF n
<1>4. /\ t \in Seq(S) /\ Len(t) = (IF 1 <= n - 1 THEN n - 1 - 1 + 1 ELSE 0)
      /\ \A k \in 1..(n - 1 - 1 + 1) : t[k] = s[1 + k - 1]
  BY <1>3, SubSeqProperties
<1> HIDE DEF t
<1>5. Len(t) = n - 1 /\ n - 1 - 1 + 1 = n - 1
  BY <1>1, <1>4
<1>6. ASSUME NEW k \in 1..(n - 1) PROVE t[k] = s[k]
  <2>1. 1 + k - 1 = k
    BY <1>1
  <2> QED BY <1>4, <1>5, <2>1
<1> QED BY <1>2, <1>4, <1>5, <1>6 DEF n

(* Ring b with e stored under its write index, which has not moved.        *)
WithStored(b, e) == [b EXCEPT !.buf[b.w] = e]

(* A character stored at the write index is not yet in the ring.           *)
LEMMA Stored ==
  ASSUME NEW S, NEW size \in Sizes, NEW b \in Rings(S, size), NEW e \in S
  PROVE  /\ WithStored(b, e) \in Rings(S, size)
         /\ WithStored(b, e).w = b.w /\ WithStored(b, e).r = b.r /\ WithStored(b, e).buf[b.w] = e
         /\ Contents(WithStored(b, e), size) = Contents(b, size)
<1> SUFFICES ASSUME NEW d, d = [b EXCEPT !.buf[b.w] = e]
             PROVE  /\ d \in Rings(S, size) /\ d.w = b.w /\ d.r = b.r /\ d.buf[b.w] = e
                    /\ Contents(d, size) = Contents(b, size)
  BY DEF WithStored
<1>1. /\ b.w \in 0..(size - 1) /\ b.r \in 0..(size - 1) /\ b.buf \in [0..(size - 1) -> S]
      /\ GetBufferCount(b, size) = Cnt(b.w, b.r, size) /\ GetBufferCount(b, size) \in 0..(size - 1)
  BY RingTypes
<1>2. d.w = b.w /\ d.r = b.r /\ d.buf = [b.buf EXCEPT ![b.w] = e]
  BY DEF Rings
<1>3. d \in Rings(S, size)
  BY DEF Rings
<1>4. GetBufferCount(d, size) = GetBufferCount(b, size)
  BY <1>2 DEF GetBufferCount
<1>5. ASSUME NEW k \in 1..GetBufferCount(b, size)
      PROVE  d.buf[Idx(d.r, size, k)] = b.buf[Idx(b.r, size, k)]
  <2>1. k \in 1..size /\ k <= Cnt(b.w, b.r, size)
    BY <1>1 DEF Sizes
  <2>2. Idx(b.r, size, k) # b.w /\ Idx(b.r, size, k) \in 0..(size - 1)
    BY <1>1, <2>1, IdxOff, IdxRange
  <2> QED BY <1>1, <1>2, <2>2
<1>6. /\ Contents(b, size) \in Seq(S) /\ Len(Contents(b, size)) = GetBufferCount(b, size)
      /\ \A k \in 1..GetBufferCount(b, size) : Contents(b, size)[k] = b.buf[Idx(b.r, size, k)]
  BY ContentsAt
<1>7. Contents(d, size) = Contents(b, size)
  BY <1>3, <1>4, <1>5, <1>6, RingHolds
<1> QED BY <1>1, <1>2, <1>3, <1>7

(* Characters that fit come after those in the ring.                       *)
LEMMA PutBuf ==
  ASSUME NEW S, NEW size \in Sizes, NEW b \in Rings(S, size), NEW cs \in Seq(S),
         Len(cs) \in 0..(size - 1 - GetBufferCount(b, size)),
         NEW d, d = Put(b, size, cs)
  PROVE  /\ d \in Rings(S, size) /\ d.r = b.r /\ d.w = (b.w + Len(cs)) % size
         /\ GetBufferCount(d, size) = GetBufferCount(b, size) + Len(cs)
         /\ \A j \in 0..(size - 1) :
              d.buf[j] = IF Off(j, b.w, size) < Len(cs) THEN cs[Off(j, b.w, size) + 1] ELSE b.buf[j]
<1> DEFINE l == Len(cs)
           g(j) == IF (j - b.w) % size < l THEN cs[((j - b.w) % size) + 1] ELSE b.buf[j]
<1>1. /\ b.w \in 0..(size - 1) /\ b.r \in 0..(size - 1) /\ b.buf \in [0..(size - 1) -> S]
      /\ GetBufferCount(b, size) = Cnt(b.w, b.r, size) /\ GetBufferCount(b, size) \in 0..(size - 1)
  BY RingTypes
<1>2. d = [buf |-> [j \in 0..(size - 1) |-> g(j)], w |-> (b.w + l) % size, r |-> b.r]
  BY DEF Put, Rings
<1>3. l \in 0..size /\ Cnt((b.w + l) % size, b.r, size) = Cnt(b.w, b.r, size) + l
  BY <1>1, CntWrite
<1>4. (b.w + l) % size \in 0..(size - 1)
  BY <1>1, <1>3, Wrap
<1>5. ASSUME NEW j \in 0..(size - 1)
      PROVE  /\ (j - b.w) % size = Off(j, b.w, size)
             /\ g(j) = IF Off(j, b.w, size) < l THEN cs[Off(j, b.w, size) + 1] ELSE b.buf[j]
             /\ g(j) \in S
  <2>1. (j - b.w) % size = Off(j, b.w, size)
    BY <1>1, WrapBack
  <2>2. Off(j, b.w, size) \in Nat
    BY <1>1 DEF Off, Sizes
  <2>3. ASSUME NEW k \in Nat, k < l PROVE cs[k + 1] \in S
    <3>1. k + 1 \in 1..Len(cs)
      BY <2>3, <1>3 DEF Sizes
    <3> QED BY <3>1, ElementOfSeq
  <2>4. b.buf[j] \in S
    BY <1>1
  <2> HIDE DEF l
  <2> QED BY <2>1, <2>2, <2>3, <2>4
<1> HIDE DEF g, l
<1>6. /\ d.buf = [j \in 0..(size - 1) |-> g(j)] /\ d.w = (b.w + l) % size /\ d.r = b.r
      /\ d = [buf |-> d.buf, w |-> d.w, r |-> d.r]
  BY <1>2
<1>7. d.buf \in [0..(size - 1) -> S]
  BY <1>5, <1>6
<1>8. d \in Rings(S, size)
  BY <1>1, <1>4, <1>6, <1>7 DEF Rings
<1>9. GetBufferCount(d, size) = GetBufferCount(b, size) + l
  BY <1>1, <1>3, <1>6, <1>8, RingTypes
<1> QED BY <1>5, <1>6, <1>8, <1>9 DEF l

(* Put adds the characters to the contents.                                *)
LEMMA PutAll ==
  ASSUME NEW S, NEW size \in Sizes, NEW b \in Rings(S, size), NEW cs \in Seq(S),
         Len(cs) \in 0..(size - 1 - GetBufferCount(b, size))
  PROVE  /\ Put(b, size, cs) \in Rings(S, size)
         /\ Contents(Put(b, size, cs), size) = Contents(b, size) \o cs
<1> SUFFICES ASSUME NEW d, d = Put(b, size, cs)
             PROVE  d \in Rings(S, size) /\ Contents(d, size) = Contents(b, size) \o cs
  OBVIOUS
<1> DEFINE n == GetBufferCount(b, size)
           l == Len(cs)
           c == Contents(b, size)
           t == c \o cs
<1>1. /\ b.w \in 0..(size - 1) /\ b.r \in 0..(size - 1)
      /\ n = Cnt(b.w, b.r, size) /\ n \in 0..(size - 1) /\ l \in 0..(size - 1 - n)
  BY RingTypes
<1>2. /\ d \in Rings(S, size) /\ d.r = b.r /\ d.w = (b.w + l) % size
      /\ GetBufferCount(d, size) = n + l
      /\ \A j \in 0..(size - 1) :
           d.buf[j] = IF Off(j, b.w, size) < l THEN cs[Off(j, b.w, size) + 1] ELSE b.buf[j]
  BY PutBuf
<1>3. c \in Seq(S) /\ Len(c) = n /\ \A k \in 1..n : c[k] = b.buf[Idx(b.r, size, k)]
  BY ContentsAt
<1> HIDE DEF n, c
<1>4. /\ t \in Seq(S) /\ Len(t) = n + l
      /\ \A k \in 1..(n + l) : t[k] = IF k <= n THEN c[k] ELSE cs[k - n]
  BY <1>3, ConcatProperties
<1> HIDE DEF l, t
<1>5. ASSUME NEW k \in 1..(n + l) PROVE t[k] = d.buf[Idx(d.r, size, k)]
  <2> DEFINE i == Idx(b.r, size, k)
             o == Off(i, b.w, size)
  <2>1. k \in 1..size
    BY <1>1 DEF Sizes
  <2>2. i \in 0..(size - 1)
    BY <1>1, <2>1, IdxRange
  <2>3. /\ o \in Nat /\ (k <= n => o >= size - n)
        /\ (k > n => o + 1 = k - n)
    BY <1>1, <2>1, IdxOff
  <2> HIDE DEF i, o
  <2>4. d.buf[i] = IF o < l THEN cs[o + 1] ELSE b.buf[i]
    BY <1>2, <2>2 DEF o
  <2>5. CASE k <= n
    <3>1. ~ (o < l)
      BY <1>1, <2>3, <2>5 DEF Sizes
    <3>2. k \in 1..n
      BY <1>1, <2>5
    <3>3. t[k] = b.buf[i]
      BY <1>3, <1>4, <2>5, <3>2 DEF i
    <3> QED BY <1>2, <2>4, <3>1, <3>3 DEF i
  <2>6. CASE ~ (k <= n)
    <3>1. k > n
      BY <1>1, <2>6
    <3>2. o < l /\ o + 1 = k - n
      BY <1>1, <2>3, <3>1
    <3>3. t[k] = cs[k - n]
      BY <1>4, <2>6
    <3> QED BY <1>2, <2>4, <3>2, <3>3 DEF i
  <2> QED BY <2>5, <2>6
<1>6. Len(t) = GetBufferCount(d, size) /\ \A k \in 1..Len(t) : t[k] = d.buf[Idx(d.r, size, k)]
  BY <1>2, <1>4, <1>5
<1>7. Contents(d, size) = t
  BY <1>2, <1>4, <1>6, RingHolds
<1> QED BY <1>2, <1>7 DEF t, l, c

(* Advancing the write index adds the character stored under it.           *)
LEMMA Advanced ==
  ASSUME NEW S, NEW size \in Sizes, NEW b \in Rings(S, size), ~ IsBufferFull(b, size),
         NEW d, d = [b EXCEPT !.w = (b.w + 1) % size]
  PROVE  /\ d \in Rings(S, size)
         /\ Contents(d, size) = Append(Contents(b, size), b.buf[b.w])
<1> DEFINE n == GetBufferCount(b, size)
           c == Contents(b, size)
           t == Append(c, b.buf[b.w])
<1>1. /\ b.w \in 0..(size - 1) /\ b.r \in 0..(size - 1) /\ b.buf \in [0..(size - 1) -> S]
      /\ n = Cnt(b.w, b.r, size) /\ n \in 0..(size - 1) /\ n # size - 1
  BY RingTypes
<1>2. 1 \in 0..(size - 1 - Cnt(b.w, b.r, size)) /\ 1 \in 0..size
  <2> HIDE DEF n
  <2> QED BY <1>1 DEF Sizes
<1>3. (b.w + 1) % size \in 0..(size - 1) /\ Cnt((b.w + 1) % size, b.r, size) = n + 1
  <2>1. (b.w + 1) % size \in 0..(size - 1)
    BY <1>1, <1>2, Wrap
  <2>2. Cnt((b.w + 1) % size, b.r, size) = Cnt(b.w, b.r, size) + 1
    BY <1>1, <1>2, CntWrite
  <2> QED BY <1>1, <2>1, <2>2
<1>4. d.w = (b.w + 1) % size /\ d.r = b.r /\ d.buf = b.buf
  BY DEF Rings
<1>5. d \in Rings(S, size)
  BY <1>3 DEF Rings
<1>6. GetBufferCount(d, size) = n + 1
  BY <1>3, <1>4, <1>5, RingTypes
<1>7. c \in Seq(S) /\ Len(c) = n /\ \A k \in 1..n : c[k] = b.buf[Idx(b.r, size, k)]
  BY ContentsAt
<1>8. b.buf[b.w] \in S
  BY <1>1
<1> HIDE DEF n, c
<1>9. /\ t \in Seq(S) /\ Len(t) = n + 1
      /\ \A k \in 1..n : t[k] = c[k]
      /\ t[n + 1] = b.buf[b.w]
  BY <1>7, <1>8, AppendProperties
<1> HIDE DEF t
<1>10. ASSUME NEW k \in 1..(n + 1) PROVE t[k] = d.buf[Idx(d.r, size, k)]
  <2>1. CASE k \in 1..n
    BY <1>4, <1>7, <1>9, <2>1
  <2>2. CASE ~ (k \in 1..n)
    <3>1. k = n + 1 /\ k \in 1..size /\ k > n
      BY <1>1, <2>2 DEF Sizes
    <3>2. Off(Idx(b.r, size, k), b.w, size) + 1 = k - n /\ Off(Idx(b.r, size, k), b.w, size) \in Nat
      BY <1>1, <3>1, IdxOff
    <3>3. Idx(b.r, size, k) \in 0..(size - 1)
      BY <1>1, <3>1, IdxRange
    <3> DEFINE i == Idx(b.r, size, k)
    <3> HIDE DEF i
    <3>4. Off(i, b.w, size) = 0 /\ i \in 0..(size - 1)
      BY <1>1, <3>1, <3>2, <3>3 DEF i
    <3>5. i = b.w
      BY <1>1, <3>4 DEF Off, Sizes
    <3> QED BY <1>4, <1>9, <3>1, <3>5 DEF i
  <2> QED BY <2>1, <2>2
<1>11. Len(t) = GetBufferCount(d, size) /\ \A k \in 1..Len(t) : t[k] = d.buf[Idx(d.r, size, k)]
  BY <1>6, <1>9, <1>10
<1>12. Contents(d, size) = t
  BY <1>5, <1>9, <1>11, RingHolds
<1> QED BY <1>5, <1>12 DEF t, c

(* Advancing the read index takes the oldest m characters.                 *)
LEMMA Consumed ==
  ASSUME NEW S, NEW size \in Sizes, NEW b \in Rings(S, size),
         NEW m \in 0..GetBufferCount(b, size),
         NEW d, d = [b EXCEPT !.r = (b.r + m) % size]
  PROVE  /\ d \in Rings(S, size)
         /\ GetBufferCount(d, size) = GetBufferCount(b, size) - m
         /\ Contents(d, size) = SubSeq(Contents(b, size), m + 1, GetBufferCount(b, size))
<1> DEFINE n == GetBufferCount(b, size)
           c == Contents(b, size)
           t == SubSeq(c, m + 1, n)
<1>1. /\ b.w \in 0..(size - 1) /\ b.r \in 0..(size - 1) /\ b.buf \in [0..(size - 1) -> S]
      /\ n = Cnt(b.w, b.r, size) /\ n \in 0..(size - 1) /\ n \in Nat
  BY RingTypes
<1>2. m \in 0..size /\ Cnt(b.w, (b.r + m) % size, size) = n - m
  BY <1>1, CntRead
<1>3. (b.r + m) % size \in 0..(size - 1)
  BY <1>1, <1>2, Wrap
<1>4. d.w = b.w /\ d.r = (b.r + m) % size /\ d.buf = b.buf
  BY DEF Rings
<1>5. d \in Rings(S, size)
  BY <1>3 DEF Rings
<1>6. GetBufferCount(d, size) = n - m
  <2>1. GetBufferCount(d, size) = Cnt(d.w, d.r, size)
    BY <1>5, RingTypes
  <2> QED BY <1>2, <1>4, <2>1
<1>7. c \in Seq(S) /\ Len(c) = n /\ \A k \in 1..n : c[k] = b.buf[Idx(b.r, size, k)]
  BY ContentsAt
<1>8. m \in 0..n /\ n \in 0..(size - 1) /\ n \in Nat
  BY <1>1
<1> HIDE DEF n, c
<1>9. m + 1 \in Int /\ n \in Int /\ \A k \in (m + 1)..n : c[k] \in S
  <2>1. ASSUME NEW k \in (m + 1)..n PROVE c[k] \in S
    <3>1. k \in 1..n
      BY <1>1, <1>8
    <3> QED BY <1>7, <3>1, ElementOfSeq
  <2> QED BY <1>1, <1>8, <2>1
<1>10. /\ t \in Seq(S) /\ Len(t) = (IF m + 1 <= n THEN n - (m + 1) + 1 ELSE 0)
       /\ \A k \in 1..(n - (m + 1) + 1) : t[k] = c[m + 1 + k - 1]
  BY <1>9, SubSeqProperties
<1> HIDE DEF t
<1>11. Len(t) = n - m /\ n - (m + 1) + 1 = n - m
  BY <1>1, <1>8, <1>10
<1>12. ASSUME NEW k \in 1..(n - m) PROVE t[k] = d.buf[Idx(d.r, size, k)]
  <2>1. m + k \in 1..n /\ m + 1 + k - 1 = m + k /\ k \in 1..(size - m)
    BY <1>8 DEF Sizes
  <2>2. t[k] = c[m + k]
    BY <1>10, <1>11, <2>1
  <2>3. Idx(d.r, size, k) = Idx(b.r, size, m + k)
    BY <1>1, <1>2, <1>4, <2>1, IdxRead
  <2> QED BY <1>4, <1>7, <2>1, <2>2, <2>3
<1>13. Len(t) = GetBufferCount(d, size) /\ \A k \in 1..Len(t) : t[k] = d.buf[Idx(d.r, size, k)]
  BY <1>6, <1>11, <1>12
<1>14. Contents(d, size) = t
  BY <1>5, <1>10, <1>13, RingHolds
<1> QED BY <1>5, <1>6, <1>14 DEF t, c, n

(* The write index goes back over a character.                             *)
LEMMA Retreated ==
  ASSUME NEW S, NEW size \in Sizes, NEW b \in Rings(S, size), ~ IsBufferEmpty(b),
         NEW d, d = [b EXCEPT !.w = IF b.w = 0 THEN size - 1 ELSE b.w - 1]
  PROVE  /\ d \in Rings(S, size)
         /\ Contents(d, size) = Front(Contents(b, size))
<1> DEFINE n == GetBufferCount(b, size)
           c == Contents(b, size)
           t == Front(c)
           v == IF b.w = 0 THEN size - 1 ELSE b.w - 1
<1>1. /\ b.w \in 0..(size - 1) /\ b.r \in 0..(size - 1) /\ b.buf \in [0..(size - 1) -> S]
      /\ n = Cnt(b.w, b.r, size) /\ n \in 0..(size - 1) /\ n # 0
  BY RingTypes
<1>2. v \in 0..(size - 1)
  BY <1>1 DEF Sizes
<1>3. Cnt(v, b.r, size) = n - 1
  BY <1>1, CntBack
<1>4. d.w = v /\ d.r = b.r /\ d.buf = b.buf
  BY DEF Rings
<1>5. d \in Rings(S, size)
  BY <1>2 DEF Rings
<1> HIDE DEF v
<1>6. GetBufferCount(d, size) = n - 1
  <2>1. GetBufferCount(d, size) = Cnt(d.w, d.r, size)
    BY <1>5, RingTypes
  <2> QED BY <1>3, <1>4, <2>1
<1>7. c \in Seq(S) /\ Len(c) = n /\ \A k \in 1..n : c[k] = b.buf[Idx(b.r, size, k)]
  BY ContentsAt
<1> HIDE DEF n, c
<1>8. t \in Seq(S) /\ Len(t) = n - 1 /\ \A k \in 1..(n - 1) : t[k] = c[k]
  BY <1>1, <1>7, FrontIs
<1> HIDE DEF t
<1>9. ASSUME NEW k \in 1..(n - 1) PROVE t[k] = d.buf[Idx(d.r, size, k)]
  <2>1. k \in 1..n
    BY <1>1
  <2> QED BY <1>4, <1>7, <1>8, <2>1
<1>10. Len(t) = GetBufferCount(d, size) /\ \A k \in 1..Len(t) : t[k] = d.buf[Idx(d.r, size, k)]
  BY <1>6, <1>8, <1>9
<1>11. Contents(d, size) = t
  BY <1>5, <1>8, <1>10, RingHolds
<1> QED BY <1>5, <1>11 DEF t, c

(* Nothing put changes nothing.                                            *)
LEMMA PutNothing ==
  ASSUME NEW S, NEW size \in Sizes, NEW b \in Rings(S, size), NEW cs, cs = <<>>,
         NEW d, d = Put(b, size, cs)
  PROVE  d.buf = b.buf /\ d.w = b.w
<1> DEFINE l == Len(cs)
           g(j) == IF (j - b.w) % size < l THEN cs[((j - b.w) % size) + 1] ELSE b.buf[j]
           f == [j \in 0..(size - 1) |-> g(j)]
           v == (b.w + l) % size
<1>1. b.w \in 0..(size - 1) /\ b.buf \in [0..(size - 1) -> S]
  BY RingTypes
<1>2. d = [buf |-> f, w |-> v, r |-> b.r]
  BY DEF Put, Rings
<1>3. l = 0 /\ 0 \in 0..size
  BY EmptySeq DEF Sizes
<1>4. ASSUME NEW j \in 0..(size - 1) PROVE g(j) = b.buf[j]
  <2>1. (j - b.w) % size = Off(j, b.w, size)
    BY <1>1, WrapBack
  <2>2. ~ (Off(j, b.w, size) < 0)
    BY <1>1 DEF Off, Sizes
  <2> HIDE DEF l
  <2> QED BY <1>3, <2>1, <2>2
<1>5. ASSUME NEW x \in 0..(size - 1) PROVE (x + 0) % size = x
  <2>1. (x + 0) % size = IF x + 0 < size THEN x + 0 ELSE x + 0 - size
    BY <1>3, Wrap
  <2> QED BY <2>1 DEF Sizes
<1> HIDE DEF g, l, f, v
<1>6. d.buf = f /\ d.w = v
  BY <1>2
<1>7. f = b.buf
  BY <1>1, <1>4 DEF f
<1>8. v = b.w
  BY <1>1, <1>3, <1>5 DEF v
<1> QED BY <1>6, <1>7, <1>8

(* A ring that is flushed, or not yet used.                                *)
LEMMA Flushed ==
  ASSUME NEW S, NEW size \in Sizes, NEW b \in Rings(S, size)
  PROVE  /\ IsBufferEmpty(b) <=> Contents(b, size) = <<>>
         /\ [b EXCEPT !.w = 0, !.r = 0] \in Rings(S, size)
         /\ IsBufferEmpty([b EXCEPT !.w = 0, !.r = 0])
<1>1. Contents(b, size) \in Seq(S) /\ Len(Contents(b, size)) = GetBufferCount(b, size)
  BY ContentsAt
<1>2. IsBufferEmpty(b) <=> GetBufferCount(b, size) = 0
  BY RingTypes
<1>3. Contents(b, size) = <<>> <=> Len(Contents(b, size)) = 0
  BY <1>1, EmptySeq
<1>4. [b EXCEPT !.w = 0, !.r = 0] \in Rings(S, size)
  <2>1. 0 \in 0..(size - 1)
    BY DEF Sizes
  <2> QED BY <2>1 DEF Rings
<1>5. IsBufferEmpty([b EXCEPT !.w = 0, !.r = 0])
  BY DEF Rings, IsBufferEmpty
<1> QED BY <1>1, <1>2, <1>3, <1>4, <1>5

(* The oldest character is under the read index.                           *)
LEMMA Oldest ==
  ASSUME NEW S, NEW size \in Sizes, NEW b \in Rings(S, size), ~ IsBufferEmpty(b),
         NEW d, d = [b EXCEPT !.r = (b.r + 1) % size]
  PROVE  /\ Contents(b, size) # <<>> /\ b.buf[b.r] = Head(Contents(b, size)) /\ b.buf[b.r] \in S
         /\ d \in Rings(S, size) /\ Contents(d, size) = Tail(Contents(b, size))
<1> DEFINE n == GetBufferCount(b, size)
           c == Contents(b, size)
<1>1. b.r \in 0..(size - 1) /\ b.buf \in [0..(size - 1) -> S] /\ n \in 0..(size - 1) /\ n # 0
  BY RingTypes
<1>2. c \in Seq(S) /\ Len(c) = n /\ \A k \in 1..n : c[k] = b.buf[Idx(b.r, size, k)]
  BY ContentsAt
<1>3. c # <<>>
  BY <1>1, <1>2, EmptySeq
<1>4. 1 \in 1..n /\ 1 \in 0..n /\ Idx(b.r, size, 1) = b.r
  <2> HIDE DEF n, c
  <2> QED BY <1>1 DEF Idx, Sizes
<1>5. b.buf[b.r] = Head(c) /\ b.buf[b.r] \in S
  BY <1>1, <1>2, <1>3, <1>4
<1>6. d \in Rings(S, size) /\ Contents(d, size) = SubSeq(c, 2, n)
  BY <1>4, Consumed
<1>7. Tail(c) = SubSeq(c, 2, Len(c))
  BY <1>2, <1>3, TailIsSubSeq
<1> QED BY <1>2, <1>3, <1>5, <1>6, <1>7

-----------------------------------------------------------------------------
(* The transmit half of the console.                                       *)
TS == UART_TX_BUFFER_SIZE
RS == UART_RX_BUFFER_SIZE

(* What UartAssumption says of the sizes.                                  *)
LEMMA Bounds ==
  /\ TS \in Sizes /\ RS \in Sizes
  /\ FifoDepth \in Nat \ {0}
BY UartAssumption DEF TS, RS, Sizes

(* Facts about sequences the steps on the FIFO and the rings share.        *)
LEMMA Regrouped ==
  ASSUME NEW S, NEW f \in Seq(S), NEW out \in Seq(S), NEW rest \in Seq(S)
  PROVE  /\ f \o out \in Seq(S) /\ Len(f \o out) = Len(f) + Len(out)
         /\ (f \o out) \o rest = f \o (out \o rest)
<1>1. f \o out \in Seq(S) /\ Len(f \o out) = Len(f) + Len(out)
  BY ConcatProperties
<1>2. (f \o out) \o rest = f \o (out \o rest)
  OBVIOUS
<1> QED BY <1>1, <1>2

LEMMA AppendBehind ==
  ASSUME NEW S, NEW s \in Seq(S), NEW t \in Seq(S), NEW e \in S
  PROVE  s \o Append(t, e) = Append(s \o t, e)
OBVIOUS

LEMMA HeadMoves ==
  ASSUME NEW S, NEW s \in Seq(S), NEW t \in Seq(S), t # <<>>
  PROVE  Append(s, Head(t)) \o Tail(t) = s \o t
OBVIOUS

LEMMA TailOfBoth ==
  ASSUME NEW S, NEW s \in Seq(S), NEW t \in Seq(S), s # <<>>
  PROVE  s \o t # <<>> /\ Tail(s \o t) = Tail(s) \o t
OBVIOUS

LEMMA ShortSeqs ==
  ASSUME NEW S, NEW a \in S, NEW b \in S, NEW c \in S, NEW s,
         s = <<a>> \/ s = <<a, b>> \/ s = <<a, b, c>>
  PROVE  s \in Seq(S) /\ (s = <<a>> => Len(s) = 1)
<1>1. CASE s = <<a>>
  <2>1. <<a>> \in Seq(S) /\ Len(<<a>>) = 1
    OBVIOUS
  <2> QED BY <1>1, <2>1
<1>2. CASE s = <<a, b>>
  <2>1. <<a, b>> \in Seq(S) /\ <<a, b>> # <<a>>
    OBVIOUS
  <2> QED BY <1>2, <2>1
<1>3. CASE s = <<a, b, c>>
  <2>1. <<a, b, c>> \in Seq(S) /\ <<a, b, c>> # <<a>>
    OBVIOUS
  <2> QED BY <1>3, <2>1
<1> QED BY <1>1, <1>2, <1>3

(* What is in a sequence and is not its head is in its tail.               *)
LEMMA LaterStays ==
  ASSUME NEW S, NEW s \in Seq(S), s # <<>>, NEW e, e \in ToSet(s), Head(s) # e
  PROVE  e \in ToSet(Tail(s))
<1>1. PICK k \in 1..Len(s) : s[k] = e
  BY DEF ToSet
<1>2. /\ Tail(s) \in Seq(S) /\ Len(Tail(s)) = Len(s) - 1
      /\ \A i \in 1..Len(Tail(s)) : Tail(s)[i] = s[i + 1]
  BY HeadTailProperties
<1>3. k # 1 /\ Len(s) \in Nat
  BY <1>1, LenProperties
<1>4. k - 1 \in 1..Len(Tail(s)) /\ (k - 1) + 1 = k
  BY <1>2, <1>3
<1>5. Tail(s)[k - 1] = e
  BY <1>1, <1>2, <1>4
<1> DEFINE t == Tail(s)
           j == k - 1
<1> HIDE DEF t, j
<1>6. t \in Seq(S) /\ j \in 1..Len(t) /\ t[j] = e
  BY <1>2, <1>4, <1>5 DEF t, j
<1>7. e \in ToSet(t)
  BY <1>6 DEF ToSet
<1> QED BY <1>7 DEF t

(* What is in a sequence stays there before a new element.                 *)
LEMMA AppendStays ==
  ASSUME NEW S, NEW s \in Seq(S), NEW a \in S, NEW e, e \in ToSet(s)
  PROVE  e \in ToSet(Append(s, a))
<1>1. PICK k \in 1..Len(s) : s[k] = e
  BY DEF ToSet
<1>2. Append(s, a) \in Seq(S) /\ Len(Append(s, a)) = Len(s) + 1 /\ Append(s, a)[k] = s[k]
  BY <1>1, AppendProperties
<1>3. k \in 1..Len(Append(s, a))
  BY <1>2, LenProperties
<1> QED BY <1>1, <1>2, <1>3 DEF ToSet

(* What UARTPrimeTransmit leaves of ring b and makes of FIFO f.            *)
RingLeft(b, f) == [b EXCEPT !.r = (b.r + Len(Primed(b, f))) % TS]
FifoMade(b, f) == f \o Primed(b, f)

(* All that waits to be sent, and that with cs behind it.                  *)
Waiting(f, b) == f \o Contents(b, TS)
WaitingWith(f, b, cs) == f \o (Contents(b, TS) \o cs)

(* Priming moves the oldest characters to the FIFO and loses none.         *)
LEMMA PrimedRing ==
  ASSUME NEW S, NEW b \in Rings(S, TS), NEW f \in Seq(S), Len(f) \in 0..FifoDepth
  PROVE  /\ RingLeft(b, f) \in Rings(S, TS)
         /\ GetBufferCount(RingLeft(b, f), TS) \in 0..GetBufferCount(b, TS)
         /\ FifoMade(b, f) \in Seq(S) /\ Len(FifoMade(b, f)) \in 0..FifoDepth
         /\ Waiting(FifoMade(b, f), RingLeft(b, f)) = Waiting(f, b)
<1> SUFFICES ASSUME NEW out, out = Primed(b, f), NEW g, g = f \o out,
                    NEW d, d = [b EXCEPT !.r = (b.r + Len(out)) % TS]
             PROVE  /\ d \in Rings(S, TS) /\ GetBufferCount(d, TS) \in 0..GetBufferCount(b, TS)
                    /\ g \in Seq(S) /\ Len(g) \in 0..FifoDepth
                    /\ g \o Contents(d, TS) = f \o Contents(b, TS)
  BY DEF RingLeft, FifoMade, Waiting
<1> DEFINE n == GetBufferCount(b, TS)
           c == Contents(b, TS)
           room == FifoDepth - Len(f)
           m == IF room < n THEN room ELSE n
           rest == SubSeq(c, m + 1, n)
<1> TS \in Sizes
  BY Bounds
<1>1. n \in Nat /\ c \in Seq(S) /\ Len(c) = n
  BY RingTypes, ContentsAt
<1>2. room \in Nat
  <2>1. Len(f) \in Nat /\ FifoDepth \in Nat /\ Len(f) <= FifoDepth
    BY Bounds
  <2> QED BY <2>1
<1> HIDE DEF n, c, room
<1>3. m \in 0..n /\ m \in Nat /\ m <= room
  BY <1>1, <1>2
<1> HIDE DEF m
<1>4. out = SubSeq(c, 1, m)
  <2>1. out = SubSeq(c, 1, IF room < Len(c) THEN room ELSE Len(c))
    BY DEF Primed, Take, TS, c, room
  <2> QED BY <1>1, <2>1 DEF m
<1>5. out \o rest = c /\ out \in Seq(S) /\ rest \in Seq(S) /\ Len(out) = m
  <2>1. 1 \in 1..(Len(c) + 1) /\ m \in (1 - 1)..Len(c) /\ n \in m..Len(c)
    BY <1>1, <1>3
  <2>2. out \o rest = SubSeq(c, 1, n)
    BY <1>1, <1>4, <2>1, ConcatAdjacentSubSeq
  <2>3. SubSeq(c, 1, n) = c
    BY <1>1, SubSeqFull
  <2>4. ASSUME NEW i \in Nat \ {0}, NEW j \in 0..n
        PROVE  SubSeq(c, i, j) \in Seq(S) /\ Len(SubSeq(c, i, j)) = IF i <= j THEN j - i + 1 ELSE 0
    <3>1. \A k \in i..j : c[k] \in S
      <4>1. ASSUME NEW k \in i..j PROVE c[k] \in S
        <5>1. k \in 1..Len(c)
          BY <1>1
        <5> QED BY <1>1, <5>1, ElementOfSeq
      <4> QED BY <4>1
    <3> QED BY <1>1, <3>1, SubSeqProperties
  <2>5. out \in Seq(S) /\ Len(out) = IF 1 <= m THEN m - 1 + 1 ELSE 0
    <3>1. SubSeq(c, 1, m) \in Seq(S) /\ Len(SubSeq(c, 1, m)) = IF 1 <= m THEN m - 1 + 1 ELSE 0
      <4>1. 1 \in Nat \ {0}
        OBVIOUS
      <4> QED BY <1>3, <2>4, <4>1
    <3> QED BY <1>4, <3>1
  <2>6. m + 1 \in Nat \ {0} /\ n \in 0..n
    BY <1>1, <1>3
  <2>7. rest \in Seq(S)
    BY <2>4, <2>6
  <2> HIDE DEF rest
  <2> QED BY <1>3, <2>2, <2>3, <2>5, <2>7
<1>6. /\ d \in Rings(S, TS) /\ GetBufferCount(d, TS) = n - m
      /\ Contents(d, TS) = rest
  <2>1. d = [b EXCEPT !.r = (b.r + m) % TS] /\ m \in 0..GetBufferCount(b, TS)
    BY <1>3, <1>5 DEF n
  <2>2. /\ d \in Rings(S, TS) /\ GetBufferCount(d, TS) = GetBufferCount(b, TS) - m
        /\ Contents(d, TS) = SubSeq(Contents(b, TS), m + 1, GetBufferCount(b, TS))
    BY <2>1, Consumed
  <2> QED BY <2>2 DEF n, c
<1> HIDE DEF rest
<1>7. f \o out \in Seq(S) /\ Len(f \o out) = Len(f) + m /\ (f \o out) \o rest = f \o c
  <2>1. out \in Seq(S) /\ rest \in Seq(S)
    BY <1>5
  <2>2. /\ f \o out \in Seq(S) /\ Len(f \o out) = Len(f) + Len(out)
        /\ (f \o out) \o rest = f \o (out \o rest)
    BY <2>1, Regrouped
  <2> QED BY <1>5, <2>2
<1>8. Len(f) + m \in 0..FifoDepth
  <2>1. Len(f) \in Nat /\ FifoDepth \in Nat
    BY Bounds
  <2>2. m <= FifoDepth - Len(f)
    BY <1>3 DEF room
  <2> QED BY <1>3, <2>1, <2>2
<1>9. n - m \in 0..n
  BY <1>1, <1>3
<1> QED BY <1>6, <1>7, <1>8, <1>9 DEF c, n

-----------------------------------------------------------------------------
(* The inductive invariant, over a set S of characters that holds what has *)
(* come into the console so far.                                           *)
Named == {"CR", "LF", "ESC", "BS", " ", "NUL"}

TypeIn(S) ==
  /\ Named \subseteq S
  /\ tx \in Rings(S, TS) /\ rx \in Rings(S, RS)
  /\ fifo \in Seq(S) /\ Len(fifo) \in 0..FifoDepth
  /\ due \in Seq(S) /\ kept \in Seq(S) /\ keys \in Seq(S) /\ untyped \in Seq(S)
  /\ IF pc = "peeking" THEN tmp \in 0..(RS - 1) /\ at \in 0..(RS - 1) ELSE tmp \in 0..(TS - 1)
  /\ buffered \in BOOLEAN /\ intOn \in BOOLEAN /\ peeked \in BOOLEAN
  /\ raced \in BOOLEAN /\ underrun \in BOOLEAN

(* Where the interrupt cannot come: without buffers, before the console is *)
(* configured, and while UARTPrimeTransmit has it disabled.                *)
CtlInv ==
  /\ ~buffered => /\ ~intOn /\ isr = "out" /\ TxEmpty
                  /\ pc \in {"off", "idle", "test", "line", "echo", "ended"}
  /\ buffered => pc \notin {"line", "echo", "ended"}
  /\ pc = "off" => ~intOn /\ isr = "out" /\ TxEmpty /\ RxEmpty
  /\ pc \in {"move", "moved"} => ~intOn /\ isr = "out"

(* Inside UARTwrite's test and update the index loaded is still the index  *)
(* or there is room, the tested room is still there, and the character     *)
(* stored still stored.                                                    *)
UpdInv ==
  ~raced => /\ pc = "testread" => tmp = tx.w \/ ~IsBufferFull(tx, TS)
            /\ pc \in {"store", "storing", "load", "advance"} => ~IsBufferFull(tx, TS)
            /\ pc \in {"load", "advance"} => tx.buf[tx.w] = Head(text)
            /\ pc \in {"storing", "advance"} => tmp = tx.w

(* OutputInOrder, with what holds between the two steps of a move.         *)
OutInv ==
  ~raced => IF pc = "moved" THEN ~TxEmpty /\ fifo \o Tail(Contents(tx, TS)) = due
            ELSE fifo \o Contents(tx, TS) = due

(* InputInOrder; the character taken is still there when the index         *)
(* advances, and it is not the end of a line unless the call ends.         *)
InInv ==
  /\ peeked => pc \in {"gets", "takeline", "took", "tookmore"}
  /\ ~underrun => /\ Contents(rx, RS) = kept
                  /\ peeked => "CR" \in ToSet(kept)
                  /\ Advancing => kept # <<>>
                  /\ pc = "tookmore" => Head(kept) \notin EndOfLine

Inv(S) == TypeIn(S) /\ CtlInv /\ UpdInv /\ OutInv /\ InInv

IInv == \E S : Inv(S)

(* Take yields n characters at most.                                       *)
LEMMA Taken ==
  ASSUME NEW S, NEW s \in Seq(S), NEW n \in Nat
  PROVE  Take(s, n) \in Seq(S) /\ Len(Take(s, n)) \in 0..n
<1> DEFINE m == IF n < Len(s) THEN n ELSE Len(s)
<1>1. Len(s) \in Nat
  BY LenProperties
<1>2. m \in 0..n /\ m \in 0..Len(s)
  BY <1>1
<1> HIDE DEF m
<1>3. \A k \in 1..m : s[k] \in S
  <2>1. ASSUME NEW k \in 1..m PROVE s[k] \in S
    <3>1. k \in 1..Len(s)
      BY <1>1, <1>2
    <3> QED BY <3>1, ElementOfSeq
  <2> QED BY <2>1
<1>4. SubSeq(s, 1, m) \in Seq(S) /\ Len(SubSeq(s, 1, m)) = IF 1 <= m THEN m - 1 + 1 ELSE 0
  BY <1>2, <1>3, SubSeqProperties
<1>5. Len(SubSeq(s, 1, m)) \in 0..n
  BY <1>2, <1>4
<1> QED BY <1>4, <1>5 DEF Take, m

(* Characters put and then primed go behind all that waits.                *)
LEMMA PutAndPrimed ==
  ASSUME NEW S, NEW a \in Rings(S, TS), NEW f \in Seq(S), Len(f) \in 0..FifoDepth,
         NEW cs \in Seq(S), Len(cs) \in 0..(TS - 1 - GetBufferCount(a, TS)),
         NEW b, b = Put(a, TS, cs)
  PROVE  /\ RingLeft(b, f) \in Rings(S, TS)
         /\ FifoMade(b, f) \in Seq(S) /\ Len(FifoMade(b, f)) \in 0..FifoDepth
         /\ GetBufferCount(RingLeft(b, f), TS) \in 0..(GetBufferCount(a, TS) + Len(cs))
         /\ Waiting(FifoMade(b, f), RingLeft(b, f)) = WaitingWith(f, a, cs)
         /\ Len(cs) = 0 => RingLeft(b, f).buf = a.buf /\ RingLeft(b, f).w = a.w
<1> TS \in Sizes
  BY Bounds
<1>1. /\ b \in Rings(S, TS) /\ GetBufferCount(b, TS) = GetBufferCount(a, TS) + Len(cs)
      /\ Contents(b, TS) = Contents(a, TS) \o cs
  BY PutBuf, PutAll
<1>2. Len(cs) = 0 => b.buf = a.buf /\ b.w = a.w
  <2>1. Len(cs) = 0 => cs = <<>>
    BY EmptySeq
  <2> QED BY <2>1, PutNothing
<1>3. RingLeft(b, f).buf = b.buf /\ RingLeft(b, f).w = b.w
  BY <1>1 DEF Rings, RingLeft
<1>4. /\ RingLeft(b, f) \in Rings(S, TS)
      /\ GetBufferCount(RingLeft(b, f), TS) \in 0..GetBufferCount(b, TS)
      /\ FifoMade(b, f) \in Seq(S) /\ Len(FifoMade(b, f)) \in 0..FifoDepth
      /\ Waiting(FifoMade(b, f), RingLeft(b, f)) = Waiting(f, b)
  BY <1>1, PrimedRing
<1>5. Waiting(f, b) = WaitingWith(f, a, cs)
  BY <1>1 DEF Waiting, WaitingWith
<1> QED BY <1>1, <1>2, <1>3, <1>4, <1>5

(* What the handler writes goes behind the rest, in the FIFO or the ring.  *)
LEMMA WritesAndPrimes ==
  ASSUME NEW S, TypeIn(S), NEW cs \in Seq(S), Len(cs) \in 0..(TS - 1 - GetBufferCount(tx, TS)),
         WriteAndPrime(cs)
  PROVE  /\ tx' \in Rings(S, TS) /\ fifo' \in Seq(S) /\ Len(fifo') \in 0..FifoDepth
         /\ GetBufferCount(tx', TS) \in 0..(GetBufferCount(tx, TS) + Len(cs))
         /\ Waiting(fifo', tx') = WaitingWith(fifo, tx, cs)
         /\ Len(cs) = 0 => tx'.buf = tx.buf /\ tx'.w = tx.w
<1>1. tx \in Rings(S, TS) /\ fifo \in Seq(S) /\ Len(fifo) \in 0..FifoDepth
  BY DEF TypeIn
<1>2. PICK b : b = Put(tx, TS, cs)
  OBVIOUS
<1>3. tx' = RingLeft(b, fifo) /\ fifo' = FifoMade(b, fifo)
  <2>1. Put(tx, TS, cs).r = tx.r
    BY <1>1 DEF Put, Rings
  <2> QED BY <1>2, <2>1 DEF WriteAndPrime, TS, RingLeft, FifoMade
<1>4. /\ RingLeft(b, fifo) \in Rings(S, TS)
      /\ FifoMade(b, fifo) \in Seq(S) /\ Len(FifoMade(b, fifo)) \in 0..FifoDepth
      /\ GetBufferCount(RingLeft(b, fifo), TS) \in 0..(GetBufferCount(tx, TS) + Len(cs))
      /\ Waiting(FifoMade(b, fifo), RingLeft(b, fifo)) = WaitingWith(fifo, tx, cs)
      /\ Len(cs) = 0 => RingLeft(b, fifo).buf = tx.buf /\ RingLeft(b, fifo).w = tx.w
  BY <1>1, <1>2, PutAndPrimed
<1> QED BY <1>3, <1>4

(* The interrupt keeps the order of the output, and the place UARTwrite    *)
(* has tested, unless it writes there.                                     *)
LEMMA EchoStep ==
  ASSUME NEW S, Inv(S), NEW cs \in Seq(S), Echo(cs), pc \notin {"move", "moved"},
         UNCHANGED <<pc, text, tmp, at>>
  PROVE  /\ tx' \in Rings(S, TS) /\ fifo' \in Seq(S) /\ Len(fifo') \in 0..FifoDepth
         /\ due' \in Seq(S) /\ raced' \in BOOLEAN
         /\ UpdInv' /\ OutInv'
<1> DEFINE n == GetBufferCount(tx, TS)
           room == TS - 1 - n
           acc == Take(cs, room)
           c == Contents(tx, TS)
<1> TS \in Sizes
  BY Bounds
<1>1. TypeIn(S) /\ tx \in Rings(S, TS) /\ fifo \in Seq(S) /\ due \in Seq(S)
  BY DEF Inv, TypeIn
<1>2. n \in 0..(TS - 1) /\ (IsBufferFull(tx, TS) <=> n = TS - 1) /\ c \in Seq(S)
  BY <1>1, RingTypes, ContentsAt
<1>3. /\ WriteAndPrime(acc) /\ due' = due \o acc
      /\ raced' = \/ raced
                  \/ acc # <<>> /\ pc \in {"storing", "load", "advance"}
                  \/ acc # <<>> /\ pc \in {"testread", "store"} /\ Len(acc) = room
  BY DEF Echo, TS
<1>4. room \in Nat
  <2> HIDE DEF n
  <2> QED BY <1>2 DEF Sizes
<1> HIDE DEF n, c, room
<1>5. acc \in Seq(S) /\ Len(acc) \in 0..room
  BY <1>4, Taken
<1> HIDE DEF acc
<1>6. /\ tx' \in Rings(S, TS) /\ fifo' \in Seq(S) /\ Len(fifo') \in 0..FifoDepth
      /\ GetBufferCount(tx', TS) \in 0..(n + Len(acc))
      /\ Waiting(fifo', tx') = WaitingWith(fifo, tx, acc)
      /\ Len(acc) = 0 => tx'.buf = tx.buf /\ tx'.w = tx.w
  BY <1>1, <1>3, <1>5, WritesAndPrimes DEF n, c, room
<1>7. due' \in Seq(S) /\ raced' \in BOOLEAN
  <2>1. due' \in Seq(S)
    BY <1>1, <1>3, <1>5, ConcatProperties
  <2>2. raced \in BOOLEAN
    BY DEF Inv, TypeIn
  <2> QED BY <1>3, <2>1, <2>2
<1>8. IsBufferFull(tx', TS) <=> GetBufferCount(tx', TS) = TS - 1
  BY <1>6, RingTypes
<1>9. ASSUME n # TS - 1, acc = <<>> \/ Len(acc) # room PROVE ~ IsBufferFull(tx', TS)
  <2>1. acc = <<>> => Len(acc) = 0
    BY EmptySeq
  <2>2. n + Len(acc) < TS - 1
    BY <1>2, <1>5, <1>9, <2>1 DEF room, Sizes
  <2> DEFINE k == GetBufferCount(tx', TS)
             l == n + Len(acc)
  <2>3. k \in 0..l /\ l \in Nat /\ l < TS - 1
    BY <1>2, <1>5, <1>6, <2>2
  <2> HIDE DEF k, l
  <2>4. k # TS - 1
    BY <2>3 DEF Sizes
  <2> QED BY <1>8, <2>4 DEF k
<1>10. UpdInv'
  <2> SUFFICES ASSUME ~ raced' PROVE UpdInv'
    BY DEF UpdInv
  <2>1. ~ raced /\ pc' = pc /\ text' = text /\ tmp' = tmp
    BY <1>3
  <2>2. pc \in {"store", "storing", "load", "advance"} => n # TS - 1
    BY <1>2, <2>1 DEF Inv, UpdInv
  <2>3. pc \in {"storing", "load", "advance"} => acc = <<>> /\ Len(acc) = 0
    BY <1>3, EmptySeq
  <2>4. pc \in {"testread", "store"} => acc = <<>> \/ Len(acc) # room
    BY <1>3
  <2>5. pc' \in {"store", "storing", "load", "advance"} => ~ IsBufferFull(tx', TS)
    BY <1>9, <2>1, <2>2, <2>3, <2>4
  <2>6. /\ pc = "testread" => tmp = tx.w \/ n # TS - 1
        /\ pc \in {"load", "advance"} => tx.buf[tx.w] = Head(text)
        /\ pc \in {"storing", "advance"} => tmp = tx.w
    BY <1>2, <2>1 DEF Inv, UpdInv
  <2>7. /\ pc' \in {"load", "advance"} => tx'.buf[tx'.w] = Head(text')
        /\ pc' \in {"storing", "advance"} => tmp' = tx'.w
    BY <1>6, <2>1, <2>3, <2>6
  <2>8. ASSUME pc = "testread" PROVE tmp = tx'.w \/ ~ IsBufferFull(tx', TS)
    <3>1. CASE acc = <<>>
      <4>1. tx'.w = tx.w
        BY <1>6, <3>1, EmptySeq
      <4> QED BY <1>9, <2>6, <2>8, <3>1, <4>1
    <3>2. CASE acc # <<>>
      <4>1. Len(acc) # room /\ Len(acc) # 0
        BY <2>4, <2>8, <3>2, <1>5, EmptySeq
      <4>2. n # TS - 1
        BY <1>2, <1>5, <4>1 DEF room, Sizes
      <4> QED BY <1>9, <4>1, <4>2
    <3> QED BY <3>1, <3>2
  <2> QED BY <2>1, <2>5, <2>7, <2>8 DEF UpdInv
<1>11. OutInv'
  <2> SUFFICES ASSUME ~ raced' PROVE fifo' \o Contents(tx', TS) = due' /\ pc' # "moved"
    BY DEF OutInv
  <2>1. fifo \o c = due
    BY <1>3 DEF Inv, OutInv, c
  <2>2. (fifo \o c) \o acc = fifo \o (c \o acc)
    <3>1. c \in Seq(S) /\ fifo \in Seq(S) /\ acc \in Seq(S)
      BY <1>1, <1>2, <1>5
    <3> QED BY <3>1, Regrouped
  <2>3. fifo' \o Contents(tx', TS) = fifo \o (c \o acc)
    BY <1>6 DEF Waiting, WaitingWith, c
  <2> QED BY <1>3, <2>1, <2>2, <2>3
<1> QED BY <1>6, <1>7, <1>10, <1>11

(* So does the priming without a character of its own.                     *)
LEMMA PrimeStep ==
  ASSUME NEW S, Inv(S), WriteAndPrime(<<>>), pc \notin {"move", "moved"},
         UNCHANGED <<pc, text, tmp, at, due, raced>>
  PROVE  /\ tx' \in Rings(S, TS) /\ fifo' \in Seq(S) /\ Len(fifo') \in 0..FifoDepth
         /\ UpdInv' /\ OutInv'
<1> DEFINE n == GetBufferCount(tx, TS)
           c == Contents(tx, TS)
<1> TS \in Sizes
  BY Bounds
<1>1. TypeIn(S) /\ tx \in Rings(S, TS) /\ fifo \in Seq(S)
  BY DEF Inv, TypeIn
<1>2. n \in 0..(TS - 1) /\ (IsBufferFull(tx, TS) <=> n = TS - 1) /\ c \in Seq(S)
  BY <1>1, RingTypes, ContentsAt
<1> HIDE DEF n, c
<1>3. PICK none : none = <<>>
  OBVIOUS
<1>4. none \in Seq(S) /\ Len(none) = 0
  BY <1>3, EmptySeq
<1>5. Len(none) \in 0..(TS - 1 - n)
  BY <1>2, <1>4 DEF Sizes
<1>6. /\ tx' \in Rings(S, TS) /\ fifo' \in Seq(S) /\ Len(fifo') \in 0..FifoDepth
      /\ GetBufferCount(tx', TS) \in 0..(n + Len(none))
      /\ Waiting(fifo', tx') = WaitingWith(fifo, tx, none)
      /\ tx'.buf = tx.buf /\ tx'.w = tx.w
  BY <1>1, <1>3, <1>4, <1>5, WritesAndPrimes DEF n
<1>7. IsBufferFull(tx', TS) => n = TS - 1
  <2>1. IsBufferFull(tx', TS) <=> GetBufferCount(tx', TS) = TS - 1
    BY <1>6, RingTypes
  <2> DEFINE k == GetBufferCount(tx', TS)
  <2>2. k \in 0..n
    BY <1>2, <1>4, <1>6
  <2> HIDE DEF k
  <2>3. k = TS - 1 => n = TS - 1
    BY <1>2, <2>2 DEF Sizes
  <2> QED BY <2>1, <2>3 DEF k
<1>8. UpdInv'
  <2> SUFFICES ASSUME ~ raced' PROVE UpdInv'
    BY DEF UpdInv
  <2>1. /\ pc = "testread" => tmp = tx.w \/ ~IsBufferFull(tx, TS)
        /\ pc \in {"store", "storing", "load", "advance"} => ~ IsBufferFull(tx, TS)
        /\ pc \in {"load", "advance"} => tx.buf[tx.w] = Head(text)
        /\ pc \in {"storing", "advance"} => tmp = tx.w
    BY DEF Inv, UpdInv
  <2> QED BY <1>2, <1>6, <1>7, <2>1 DEF UpdInv
<1>9. OutInv'
  <2> SUFFICES ASSUME ~ raced' PROVE fifo' \o Contents(tx', TS) = due' /\ pc' # "moved"
    BY DEF OutInv
  <2>1. fifo \o c = due
    BY DEF Inv, OutInv, c
  <2>2. c \o none = c
    BY <1>2, <1>3, ConcatEmptySeq
  <2>3. fifo' \o Contents(tx', TS) = fifo \o (c \o none)
    BY <1>6 DEF Waiting, WaitingWith, c
  <2> QED BY <2>1, <2>2, <2>3
<1> QED BY <1>6, <1>8, <1>9

-----------------------------------------------------------------------------
(* Steps that leave the rings, the FIFOs and what is due as they are.      *)
LEMMA QuietStep ==
  ASSUME NEW S, Inv(S),
         \/ /\ isr = "out" /\ isr' = "out"
            /\ \/ UARTwrite \/ TxLoad \/ WriteTest \/ WriteCheck
               \/ PrimeTest \/ PrimeBegin \/ PrimeEnd \/ WriteEnable \/ FlushTest \/ PeekBegin \/ PeekNext
               \/ UARTgets \/ UARTgetc \/ RxTest \/ UARTFlushTxWait \/ UARTEchoSet \/ GetsReturn
  PROVE  Inv(S)'
<1> USE DEF Inv
<1>0. 0 \in 0..(TS - 1) /\ tx.w \in 0..(TS - 1)
  BY RingTypes, Bounds DEF TypeIn, Sizes
<1>1. CASE UARTwrite /\ isr = "out" /\ isr' = "out"
  BY <1>1 DEF UARTwrite, Call, uart, ghosts, TypeIn, CtlInv, UpdInv, OutInv, InInv, TxEmpty, RxEmpty, Advancing
<1>2. CASE TxLoad /\ isr = "out" /\ isr' = "out"
  BY <1>2, <1>0 DEF TxLoad, Loaded, uart, ghosts, TypeIn, CtlInv, UpdInv, OutInv, InInv, TxEmpty, RxEmpty, Advancing
<1>3. CASE WriteTest /\ isr = "out" /\ isr' = "out"
  <2>1. [tx EXCEPT !.w = tmp].r = tx.r /\ [tx EXCEPT !.w = tmp].w = tmp
    BY DEF TypeIn, Rings
  <2>2. ~ raced /\ ~ SeenFull => ~ IsBufferFull(tx, TS)
    BY <1>3, <2>1 DEF WriteTest, UpdInv, SeenFull, IsBufferFull, TS
  <2>3. /\ pc = "testread" /\ pc' \in {"check", "store"} /\ (pc' = "store" => ~ SeenFull) /\ tmp' = 0
        /\ UNCHANGED <<buffered, at, line, peeked, calls, tx, rx, noEcho, lastWasCR, uart, ghosts>>
    BY <1>3 DEF WriteTest
  <2> QED BY <1>0, <1>3, <2>2, <2>3 DEF uart, ghosts, TypeIn, CtlInv, UpdInv, OutInv, InInv, TxEmpty, RxEmpty, Advancing
<1>4. CASE WriteCheck /\ isr = "out" /\ isr' = "out"
  BY <1>4, <1>0 DEF WriteCheck, uart, ghosts, TypeIn, CtlInv, UpdInv, OutInv, InInv, TxEmpty, RxEmpty, Advancing
<1>5. CASE PrimeTest /\ isr = "out" /\ isr' = "out"
  BY <1>5, <1>0 DEF PrimeTest, uart, ghosts, TypeIn, CtlInv, UpdInv, OutInv, InInv, TxEmpty, RxEmpty, Advancing
<1>6. CASE PrimeBegin /\ isr = "out" /\ isr' = "out"
  BY <1>6 DEF PrimeBegin, ghosts, TypeIn, CtlInv, UpdInv, OutInv, InInv, TxEmpty, RxEmpty, Advancing
<1>7. CASE PrimeEnd /\ isr = "out" /\ isr' = "out"
  BY <1>7 DEF PrimeEnd, ghosts, TypeIn, CtlInv, UpdInv, OutInv, InInv, TxEmpty, RxEmpty, Advancing
<1>8. CASE WriteEnable /\ isr = "out" /\ isr' = "out"
  BY <1>8 DEF WriteEnable, ghosts, TypeIn, CtlInv, UpdInv, OutInv, InInv, TxEmpty, RxEmpty, Advancing
<1>9. CASE FlushTest /\ isr = "out" /\ isr' = "out"
  BY <1>9, <1>0 DEF FlushTest, uart, ghosts, TypeIn, CtlInv, UpdInv, OutInv, InInv, TxEmpty, RxEmpty, Advancing
<1>10. CASE PeekBegin /\ isr = "out" /\ isr' = "out"
  <2>1. rx.w \in 0..(RS - 1) /\ rx.r \in 0..(RS - 1)
    BY RingTypes, Bounds DEF TypeIn
  <2> QED BY <1>10, <2>1 DEF PeekBegin, uart, ghosts, TypeIn, CtlInv, UpdInv, OutInv, InInv, TxEmpty, RxEmpty, Advancing
<1>11. CASE PeekNext /\ isr = "out" /\ isr' = "out"
  <2>1. at' \in 0..(RS - 1)
    <3>1. 1 \in 0..RS /\ RS \in Sizes
      BY Bounds DEF Sizes
    <3> QED BY <1>11, <3>1, Wrap DEF PeekNext, TypeIn, RS
  <2> QED BY <1>11, <2>1 DEF PeekNext, uart, ghosts, TypeIn, CtlInv, UpdInv, OutInv, InInv, TxEmpty, RxEmpty, Advancing
<1>12. CASE UARTgets /\ isr = "out" /\ isr' = "out"
  BY <1>12 DEF UARTgets, Call, uart, TypeIn, CtlInv, UpdInv, OutInv, InInv, TxEmpty, RxEmpty, Advancing
<1>13. CASE UARTgetc /\ isr = "out" /\ isr' = "out"
  BY <1>13 DEF UARTgetc, Call, uart, ghosts, TypeIn, CtlInv, UpdInv, OutInv, InInv, TxEmpty, RxEmpty, Advancing
<1>14. CASE RxTest /\ isr = "out" /\ isr' = "out"
  BY <1>14 DEF RxTest, uart, ghosts, TypeIn, CtlInv, UpdInv, OutInv, InInv, TxEmpty, RxEmpty, Advancing
<1>15. CASE UARTFlushTxWait /\ isr = "out" /\ isr' = "out"
  BY <1>15 DEF UARTFlushTxWait, Call, uart, ghosts, TypeIn, CtlInv, UpdInv, OutInv, InInv, TxEmpty, RxEmpty, Advancing
<1>16. CASE UARTEchoSet /\ isr = "out" /\ isr' = "out"
  BY <1>16 DEF UARTEchoSet, Call, uart, ghosts, TypeIn, CtlInv, UpdInv, OutInv, InInv, TxEmpty, RxEmpty, Advancing
<1>17. CASE GetsReturn /\ isr = "out" /\ isr' = "out"
  BY <1>17 DEF GetsReturn, uart, ghosts, TypeIn, CtlInv, UpdInv, OutInv, InInv, TxEmpty, RxEmpty, Advancing
<1> QED
  BY <1>1, <1>2, <1>3, <1>4, <1>5, <1>6, <1>7, <1>8, <1>9, <1>10, <1>11, <1>12, <1>13, <1>14, <1>15, <1>16, <1>17

-----------------------------------------------------------------------------
(* The program's own steps on the rings and the FIFO.                      *)
LEMMA StoreStep ==
  ASSUME NEW S, Inv(S), Head(text) \in S, WriteStore, isr = "out", isr' = "out"
  PROVE  Inv(S)'
<1> TS \in Sizes
  BY Bounds
<1>1. /\ tx \in Rings(S, TS) /\ tmp \in 0..(TS - 1) /\ pc = "storing" /\ pc' = "load" /\ text' = text
      /\ tmp' = 0 /\ raced' = raced
  BY DEF Inv, TypeIn, WriteStore, ghosts
<1>2. tx' = [tx EXCEPT !.buf[tmp] = Head(text)]
  BY DEF WriteStore
<1>3. tx' \in Rings(S, TS) /\ tx'.w = tx.w /\ tx'.r = tx.r
  BY <1>1, <1>2 DEF Rings
<1>4. ~ raced => /\ ~ IsBufferFull(tx, TS) /\ tx'.buf[tx.w] = Head(text)
                 /\ Contents(tx', TS) = Contents(tx, TS)
  <2> SUFFICES ASSUME ~ raced
               PROVE  /\ ~ IsBufferFull(tx, TS) /\ tx'.buf[tx.w] = Head(text)
                      /\ Contents(tx', TS) = Contents(tx, TS)
    OBVIOUS
  <2>1. tmp = tx.w /\ ~ IsBufferFull(tx, TS)
    BY <1>1 DEF Inv, UpdInv
  <2>2. tx' = WithStored(tx, Head(text))
    BY <1>2, <2>1 DEF WithStored
  <2> QED BY <1>1, <2>1, <2>2, Stored
<1>5. TypeIn(S)'
  <2>1. 0 \in 0..(TS - 1)
    BY DEF Sizes
  <2> QED BY <1>1, <1>3, <2>1 DEF Inv, TypeIn, WriteStore, uart, ghosts
<1>6. CtlInv' /\ InInv'
  BY <1>1 DEF Inv, CtlInv, InInv, WriteStore, uart, ghosts, RxEmpty, Advancing
<1>7. UpdInv'
  <2>1. IsBufferFull(tx', TS) <=> IsBufferFull(tx, TS)
    BY <1>3 DEF IsBufferFull
  <2> QED BY <1>1, <1>3, <1>4, <2>1 DEF UpdInv
<1>8. OutInv'
  <2>1. fifo' = fifo /\ due' = due
    BY DEF WriteStore, uart, ghosts
  <2>2. ~ raced => fifo \o Contents(tx, TS) = due
    BY <1>1 DEF Inv, OutInv
  <2>3. ~ raced => fifo' \o Contents(tx', TS) = due'
    BY <1>4, <2>1, <2>2
  <2> QED BY <1>1, <2>3 DEF OutInv
<1> QED BY <1>5, <1>6, <1>7, <1>8 DEF Inv

(* UARTwrite stores the index: the character is in the ring, and due.      *)
LEMMA AdvanceStep ==
  ASSUME NEW S, Inv(S), Head(text) \in S, WriteAdvance, isr = "out", isr' = "out"
  PROVE  Inv(S)'
<1> DEFINE c == Contents(tx, TS)
<1> TS \in Sizes
  BY Bounds
<1>1. /\ tx \in Rings(S, TS) /\ tmp \in 0..(TS - 1) /\ fifo \in Seq(S) /\ due \in Seq(S)
      /\ pc = "advance" /\ pc' \in {"check", "test"} /\ raced' = raced /\ fifo' = fifo
  BY DEF Inv, TypeIn, WriteAdvance, uart
<1>2. tx' = [tx EXCEPT !.w = (tmp + 1) % TS] /\ due' = Append(due, Head(text)) /\ tmp' = 0
  BY DEF WriteAdvance, TS
<1>3. tx' \in Rings(S, TS)
  <2>1. 1 \in 0..TS
    BY DEF Sizes
  <2>2. (tmp + 1) % TS \in 0..(TS - 1)
    BY <1>1, <2>1, Wrap
  <2> QED BY <1>1, <1>2, <2>2 DEF Rings
<1>4. TypeIn(S)'
  <2>1. due' \in Seq(S)
    BY <1>1, <1>2, AppendProperties
  <2>2. 0 \in 0..(TS - 1)
    BY DEF Sizes
  <2> QED BY <1>2, <1>3, <2>1, <2>2 DEF Inv, TypeIn, WriteAdvance, uart
<1>5. CtlInv' /\ UpdInv' /\ InInv'
  BY <1>1 DEF Inv, CtlInv, UpdInv, InInv, Advancing, WriteAdvance, uart, RxEmpty
<1>6. OutInv'
  <2> SUFFICES ASSUME ~ raced PROVE fifo \o Contents(tx', TS) = due'
    BY <1>1 DEF OutInv
  <2>1. ~ IsBufferFull(tx, TS) /\ tx.buf[tx.w] = Head(text) /\ tmp = tx.w /\ fifo \o c = due
    BY <1>1 DEF Inv, UpdInv, OutInv
  <2>2. tx' = [tx EXCEPT !.w = (tx.w + 1) % TS]
    BY <1>2, <2>1
  <2>3. Contents(tx', TS) = Append(c, Head(text)) /\ c \in Seq(S)
    BY <1>1, <2>1, <2>2, Advanced, ContentsAt
  <2> HIDE DEF c
  <2>4. fifo \o Append(c, Head(text)) = Append(fifo \o c, Head(text))
    BY <1>1, <2>3, AppendBehind
  <2> QED BY <1>2, <2>1, <2>3, <2>4
<1> QED BY <1>4, <1>5, <1>6 DEF Inv

(* UARTPrimeTransmit puts the oldest character into the FIFO,              *)
LEMMA MoveStep ==
  ASSUME NEW S, Inv(S), PrimeMove, isr = "out", isr' = "out"
  PROVE  Inv(S)'
<1> DEFINE c == Contents(tx, TS)
           e == tx.buf[tx.r]
<1> TS \in Sizes
  BY Bounds
<1>1. /\ tx \in Rings(S, TS) /\ fifo \in Seq(S) /\ Len(fifo) \in 0..FifoDepth
      /\ pc = "move" /\ pc' = "moved" /\ tx' = tx /\ due' = due /\ raced' = raced
      /\ Len(fifo) < FifoDepth /\ ~ IsBufferEmpty(tx) /\ fifo' = Append(fifo, e)
  BY DEF Inv, TypeIn, PrimeMove, TxEmpty, ghosts
<1>2. c # <<>> /\ e = Head(c) /\ e \in S /\ c \in Seq(S)
  <2>1. PICK d : d = [tx EXCEPT !.r = (tx.r + 1) % TS]
    OBVIOUS
  <2>2. c # <<>> /\ e = Head(c) /\ e \in S
    BY <1>1, <2>1, Oldest
  <2>3. c \in Seq(S)
    BY <1>1, ContentsAt
  <2> QED BY <2>2, <2>3
<1> HIDE DEF c, e
<1>3. fifo' \in Seq(S) /\ Len(fifo') \in 0..FifoDepth
  <2>1. fifo' \in Seq(S) /\ Len(fifo') = Len(fifo) + 1
    BY <1>1, <1>2, AppendProperties
  <2>2. FifoDepth \in Nat
    BY Bounds
  <2> QED BY <1>1, <2>1, <2>2
<1>4. TypeIn(S)'
  BY <1>3 DEF Inv, TypeIn, PrimeMove, ghosts
<1>5. CtlInv' /\ UpdInv' /\ InInv'
  BY <1>1 DEF Inv, CtlInv, UpdInv, InInv, Advancing, PrimeMove, ghosts, RxEmpty, TxEmpty
<1>6. OutInv'
  <2> SUFFICES ASSUME ~ raced PROVE fifo' \o Tail(c) = due
    BY <1>1 DEF OutInv, TxEmpty, c
  <2>1. fifo \o c = due
    BY <1>1 DEF Inv, OutInv, c
  <2>2. Append(fifo, Head(c)) \o Tail(c) = fifo \o c
    BY <1>1, <1>2, HeadMoves
  <2> QED BY <1>1, <1>2, <2>1, <2>2
<1> QED BY <1>4, <1>5, <1>6 DEF Inv

(* and only then takes it out of the ring.                                 *)
LEMMA MovedStep ==
  ASSUME NEW S, Inv(S), PrimeAdvance, isr = "out", isr' = "out"
  PROVE  Inv(S)'
<1> DEFINE c == Contents(tx, TS)
<1> TS \in Sizes
  BY Bounds
<1>1. /\ tx \in Rings(S, TS) /\ pc = "moved" /\ pc' = "move" /\ fifo' = fifo /\ due' = due
      /\ raced' = raced /\ tx' = [tx EXCEPT !.r = (tx.r + 1) % TS]
  BY DEF Inv, TypeIn, PrimeAdvance, uart, ghosts, TS
<1>2. tx' \in Rings(S, TS)
  <2>1. 1 \in 0..TS /\ tx.r \in 0..(TS - 1)
    BY <1>1, RingTypes DEF Sizes
  <2>2. (tx.r + 1) % TS \in 0..(TS - 1)
    BY <2>1, Wrap
  <2> QED BY <1>1, <2>2 DEF Rings
<1>3. TypeIn(S)'
  BY <1>2 DEF Inv, TypeIn, PrimeAdvance, uart, ghosts
<1>4. CtlInv' /\ UpdInv' /\ InInv'
  BY <1>1 DEF Inv, CtlInv, UpdInv, InInv, Advancing, PrimeAdvance, uart, ghosts, RxEmpty
<1>5. OutInv'
  <2> SUFFICES ASSUME ~ raced PROVE fifo \o Contents(tx', TS) = due
    BY <1>1 DEF OutInv
  <2>1. ~ IsBufferEmpty(tx) /\ fifo \o Tail(c) = due
    BY <1>1 DEF Inv, OutInv, TxEmpty
  <2>2. Contents(tx', TS) = Tail(c)
    BY <1>1, <2>1, Oldest
  <2> QED BY <2>1, <2>2
<1> QED BY <1>3, <1>4, <1>5 DEF Inv

(* UARTStdioConfig lets the interrupt come.                                *)
LEMMA ConfigStep ==
  ASSUME NEW S, Inv(S), UARTStdioConfig, isr = "out", isr' = "out"
  PROVE  Inv(S)'
<1> TS \in Sizes /\ RS \in Sizes
  BY Bounds
<1>1. /\ tx \in Rings(S, TS) /\ rx \in Rings(S, RS) /\ IsBufferEmpty(tx) /\ IsBufferEmpty(rx)
      /\ pc = "off" /\ pc' = "idle"
      /\ tx' = [tx EXCEPT !.w = 0, !.r = 0] /\ rx' = [rx EXCEPT !.w = 0, !.r = 0]
  BY DEF Inv, TypeIn, CtlInv, TxEmpty, RxEmpty, UARTStdioConfig
<1>2. /\ tx' \in Rings(S, TS) /\ IsBufferEmpty(tx') /\ Contents(tx', TS) = Contents(tx, TS)
      /\ rx' \in Rings(S, RS) /\ Contents(rx', RS) = Contents(rx, RS)
  BY <1>1, Flushed
<1>3. TypeIn(S)'
  BY <1>2 DEF Inv, TypeIn, UARTStdioConfig, ghosts
<1>4. CtlInv' /\ UpdInv' /\ OutInv'
  BY <1>1, <1>2 DEF Inv, TypeIn, CtlInv, UpdInv, OutInv, UARTStdioConfig, ghosts, TxEmpty
<1>5. InInv'
  BY <1>1, <1>2 DEF Inv, InInv, Advancing, UARTStdioConfig, ghosts
<1> QED BY <1>3, <1>4, <1>5 DEF Inv

(* UARTFlushTx with bDiscard empties the transmit ring and what is due.    *)
LEMMA DiscardStep ==
  ASSUME NEW S, Inv(S), UARTFlushTxDiscard, isr = "out", isr' = "out"
  PROVE  Inv(S)'
<1> TS \in Sizes
  BY Bounds
<1>1. /\ tx \in Rings(S, TS) /\ fifo \in Seq(S) /\ pc' = "idle" /\ pc = "idle" /\ fifo' = fifo
      /\ tx' = [tx EXCEPT !.w = 0, !.r = 0] /\ due' = fifo
  BY DEF Inv, TypeIn, UARTFlushTxDiscard, Call, uart
<1>2. tx' \in Rings(S, TS) /\ IsBufferEmpty(tx') /\ Contents(tx', TS) = <<>>
  <2>1. tx' \in Rings(S, TS) /\ IsBufferEmpty(tx')
    BY <1>1, Flushed
  <2> QED BY <2>1, Flushed
<1>3. TypeIn(S)'
  BY <1>1, <1>2 DEF Inv, TypeIn, UARTFlushTxDiscard, uart
<1>4. CtlInv' /\ UpdInv' /\ InInv'
  BY <1>1, <1>2 DEF Inv, CtlInv, UpdInv, InInv, Advancing, UARTFlushTxDiscard, uart, TxEmpty, RxEmpty
<1>5. OutInv'
  <2>1. fifo \o <<>> = fifo
    BY <1>1, ConcatEmptySeq
  <2> QED BY <1>1, <1>2, <2>1 DEF OutInv
<1> QED BY <1>3, <1>4, <1>5 DEF Inv

(* Without buffers a character goes straight to the FIFO.                  *)
LEMMA DirectStep ==
  ASSUME NEW S, Inv(S), Head(text) \in S, CharPut \/ GetsEcho, isr = "out", isr' = "out"
  PROVE  Inv(S)'
<1> TS \in Sizes
  BY Bounds
<1>1. /\ tx \in Rings(S, TS) /\ fifo \in Seq(S) /\ due \in Seq(S) /\ Len(fifo) \in 0..FifoDepth
      /\ ~ buffered /\ IsBufferEmpty(tx) /\ pc \in {"test", "echo"} /\ pc' \in {"test", "echo", "idle", "line"}
      /\ tx' = tx /\ rx' = rx /\ raced' = raced /\ peeked' = peeked
  BY DEF Inv, TypeIn, CtlInv, CharPut, GetsEcho, TxEmpty
<1>2. \/ fifo' = fifo /\ due' = due
      \/ /\ Len(fifo) < FifoDepth
         /\ fifo' = Append(fifo, Head(text)) /\ due' = Append(due, Head(text))
  BY DEF CharPut, GetsEcho
<1>3. fifo' \in Seq(S) /\ Len(fifo') \in 0..FifoDepth /\ due' \in Seq(S)
  <2>1. CASE fifo' = fifo /\ due' = due
    BY <1>1, <2>1
  <2>2. CASE /\ Len(fifo) < FifoDepth
             /\ fifo' = Append(fifo, Head(text)) /\ due' = Append(due, Head(text))
    <3>1. fifo' \in Seq(S) /\ Len(fifo') = Len(fifo) + 1 /\ due' \in Seq(S)
      BY <1>1, <2>2, AppendProperties
    <3>2. FifoDepth \in Nat
      BY Bounds
    <3> QED BY <1>1, <2>2, <3>1, <3>2
  <2> QED BY <1>2, <2>1, <2>2
<1>4. TypeIn(S)'
  BY <1>3 DEF Inv, TypeIn, CharPut, GetsEcho
<1>5. CtlInv' /\ UpdInv' /\ InInv'
  BY <1>1 DEF Inv, CtlInv, UpdInv, InInv, Advancing, CharPut, GetsEcho, TxEmpty, RxEmpty
<1>6. OutInv'
  <2>1. Contents(tx, TS) = <<>>
    BY <1>1, Flushed
  <2>2. fifo \o <<>> = fifo /\ fifo' \o <<>> = fifo'
    BY <1>1, <1>3, ConcatEmptySeq
  <2>3. ~ raced => fifo = due
    BY <1>1, <2>1, <2>2 DEF Inv, OutInv
  <2>4. ~ raced => fifo' = due'
    BY <1>2, <2>3
  <2> QED BY <1>1, <2>1, <2>2, <2>4 DEF OutInv
<1> QED BY <1>4, <1>5, <1>6 DEF Inv

(* UARTgets without buffers leaves the rings and the FIFO alone.           *)
LEMMA GetsCharStep ==
  ASSUME NEW S, Inv(S), GetsChar, isr = "out", isr' = "out"
  PROVE  Inv(S)'
<1>1. keys' \in Seq(S) /\ pc = "line" /\ pc' \in {"echo", "ended"}
  <2>1. keys' = Tail(keys) /\ keys # <<>> /\ keys \in Seq(S)
    BY DEF Inv, TypeIn, GetsChar
  <2>2. keys' \in Seq(S)
    BY <2>1, HeadTailProperties
  <2> QED BY <2>2 DEF GetsChar, GetsErases, GetsGobbles, GetsEnds, GetsStores
<1>2. TypeIn(S)'
  BY <1>1 DEF Inv, TypeIn, GetsChar, ghosts
<1>3. CtlInv' /\ UpdInv' /\ OutInv' /\ InInv'
  BY <1>1 DEF Inv, TypeIn, CtlInv, UpdInv, OutInv, InInv, Advancing, GetsChar, ghosts, TxEmpty, RxEmpty
<1> QED BY <1>2, <1>3 DEF Inv

-----------------------------------------------------------------------------
(* The steps of the hardware.                                              *)
LEMMA SendStep ==
  ASSUME NEW S, Inv(S), HwSend
  PROVE  Inv(S)'
<1> DEFINE c == Contents(tx, TS)
<1>1. /\ fifo # <<>> /\ fifo \in Seq(S) /\ due \in Seq(S) /\ Len(fifo) \in 0..FifoDepth
      /\ tx \in Rings(S, TS) /\ fifo' = Tail(fifo) /\ tx' = tx /\ pc' = pc /\ raced' = raced
      /\ due' = IF due = <<>> THEN due ELSE Tail(due)
  BY DEF Inv, TypeIn, HwSend, prog
<1>2. fifo' \in Seq(S) /\ Len(fifo') \in 0..FifoDepth
  <2>1. fifo' \in Seq(S) /\ Len(fifo') = Len(fifo) - 1
    BY <1>1, HeadTailProperties
  <2>2. Len(fifo') \in Nat
    BY <2>1, LenProperties
  <2> QED BY <1>1, <2>1, <2>2, Bounds
<1>3. due' \in Seq(S)
  BY <1>1, HeadTailProperties
<1>4. TypeIn(S)'
  BY <1>2, <1>3 DEF Inv, TypeIn, HwSend, prog
<1>5. CtlInv' /\ UpdInv' /\ InInv'
  BY DEF Inv, CtlInv, UpdInv, InInv, Advancing, HwSend, prog, TxEmpty, RxEmpty
<1>6. OutInv'
  <2> SUFFICES ASSUME ~ raced
               PROVE  IF pc = "moved" THEN ~ TxEmpty /\ fifo' \o Tail(c) = due' ELSE fifo' \o c = due'
    BY <1>1 DEF OutInv, TxEmpty
  <2>1. c \in Seq(S)
    BY <1>1, Bounds, ContentsAt
  <2>2. IF pc = "moved" THEN ~ TxEmpty /\ fifo \o Tail(c) = due ELSE fifo \o c = due
    BY DEF Inv, OutInv
  <2> HIDE DEF c
  <2>3. ASSUME NEW t \in Seq(S), fifo \o t = due PROVE fifo' \o t = due'
    <3>1. fifo \o t # <<>> /\ Tail(fifo \o t) = Tail(fifo) \o t
      BY <1>1, TailOfBoth
    <3> QED BY <1>1, <2>3, <3>1
  <2>4. pc = "moved" => Tail(c) \in Seq(S)
    <3>1. ~ TxEmpty => c # <<>>
      BY <1>1, Bounds, Flushed DEF TxEmpty, c
    <3> QED BY <2>1, <2>2, <3>1, HeadTailProperties
  <2> QED BY <2>1, <2>2, <2>3, <2>4
<1> QED BY <1>4, <1>5, <1>6 DEF Inv

(* A key reaches the UART.                                                 *)
LEMMA TypeStep ==
  ASSUME NEW S, Inv(S), Type
  PROVE  Inv(S)'
<1>1. keys' \in Seq(S) /\ untyped' \in Seq(S)
  <2>1. /\ keys \in Seq(S) /\ untyped \in Seq(S) /\ untyped # <<>>
        /\ keys' = Append(keys, Head(untyped)) /\ untyped' = Tail(untyped)
    BY DEF Inv, TypeIn, Type
  <2> QED BY <2>1, HeadTailProperties, AppendProperties
<1>2. TypeIn(S)'
  BY <1>1 DEF Inv, TypeIn, Type, prog, ghosts
<1>3. CtlInv' /\ UpdInv' /\ OutInv' /\ InInv'
  BY DEF Inv, CtlInv, UpdInv, OutInv, InInv, Advancing, Type, prog, ghosts, TxEmpty, RxEmpty
<1> QED BY <1>2, <1>3 DEF Inv

-----------------------------------------------------------------------------
(* The receive half.                                                       *)

(* What is between the indices of a ring is in its contents.               *)
LEMMA InRing ==
  ASSUME NEW S, NEW size \in Sizes, NEW b \in Rings(S, size), NEW j \in 0..(size - 1),
         (j - b.r) % size < GetBufferCount(b, size)
  PROVE  b.buf[j] \in ToSet(Contents(b, size))
<1> DEFINE n == GetBufferCount(b, size)
           c == Contents(b, size)
           k == Off(j, b.r, size) + 1
<1>1. b.r \in 0..(size - 1) /\ n \in 0..(size - 1)
  BY RingTypes
<1>2. c \in Seq(S) /\ Len(c) = n /\ \A i \in 1..n : c[i] = b.buf[Idx(b.r, size, i)]
  BY ContentsAt
<1>3. Off(j, b.r, size) < n /\ Off(j, b.r, size) \in Nat
  <2>1. (j - b.r) % size = Off(j, b.r, size)
    BY <1>1, WrapBack
  <2>2. Off(j, b.r, size) \in Nat
    BY <1>1 DEF Off, Sizes
  <2> QED BY <2>1, <2>2
<1> HIDE DEF n, c
<1>4. k \in 1..n
  BY <1>1, <1>3
<1>5. Idx(b.r, size, k) = j
  <2>1. CASE j >= b.r
    <3>1. k = j - b.r + 1
      BY <2>1 DEF Off
    <3> QED BY <1>1, <2>1, <3>1 DEF Idx, Sizes
  <2>2. CASE ~ (j >= b.r)
    <3>1. k = j - b.r + size + 1
      BY <2>2 DEF Off
    <3> QED BY <1>1, <2>2, <3>1 DEF Idx, Sizes
  <2> QED BY <2>1, <2>2
<1> HIDE DEF k
<1>6. c[k] = b.buf[j] /\ k \in 1..Len(c)
  BY <1>2, <1>4, <1>5
<1>7. c[k] \in ToSet(c)
  BY <1>6 DEF ToSet
<1> QED BY <1>6, <1>7 DEF c

(* UARTPeek has found a CR in the ring, or none.                           *)
LEMMA PeekStep ==
  ASSUME NEW S, Inv(S), PeekEnd, isr = "out", isr' = "out"
  PROVE  Inv(S)'
<1> RS \in Sizes /\ TS \in Sizes
  BY Bounds
<1>1. /\ pc = "peeking" /\ pc' = "gets" /\ tmp' = 0 /\ rx \in Rings(S, RS) /\ at \in 0..(RS - 1)
      /\ UNCHANGED <<rx, kept, underrun>>
      /\ peeked' \in BOOLEAN
      /\ peeked' => rx.buf[at] = "CR" /\ (at - rx.r) % RS < GetBufferCount(rx, RS)
  BY DEF Inv, TypeIn, PeekEnd, ghosts, RS
<1>2. TypeIn(S)'
  <2>1. 0 \in 0..(TS - 1)
    BY DEF Sizes
  <2> QED BY <1>1, <2>1 DEF Inv, TypeIn, PeekEnd, uart, ghosts
<1>3. CtlInv' /\ UpdInv' /\ OutInv'
  BY <1>1 DEF Inv, CtlInv, UpdInv, OutInv, PeekEnd, uart, ghosts, TxEmpty, RxEmpty
<1>4. InInv'
  <2>1. peeked' => "CR" \in ToSet(Contents(rx, RS))
    BY <1>1, InRing
  <2>2. ~ underrun => Contents(rx, RS) = kept
    BY DEF Inv, InInv
  <2> QED BY <1>1, <2>1, <2>2 DEF InInv, Advancing
<1> QED BY <1>2, <1>3, <1>4 DEF Inv

(* The program takes the oldest character received,                        *)
LEMMA TakeStep ==
  ASSUME NEW S, Inv(S), RxTake, isr = "out", isr' = "out"
  PROVE  Inv(S)'
<1> DEFINE e == rx.buf[rx.r]
<1> RS \in Sizes
  BY Bounds
<1>1. /\ rx \in Rings(S, RS) /\ pc \in {"takeline", "takechar"} /\ pc' \in {"took", "tookmore"}
      /\ pc' = "tookmore" => e \notin EndOfLine
      /\ UNCHANGED <<rx, kept, peeked, tmp, at>> /\ (peeked => pc = "takeline")
      /\ underrun' = (underrun \/ IsBufferEmpty(rx))
  BY DEF Inv, TypeIn, InInv, RxTake, RxEmpty
<1>2. TypeIn(S)'
  <2>1. underrun' \in BOOLEAN
    BY <1>1 DEF Inv, TypeIn, IsBufferEmpty
  <2> QED BY <1>1, <2>1 DEF Inv, TypeIn, RxTake, uart
<1>3. CtlInv' /\ UpdInv' /\ OutInv'
  BY <1>1 DEF Inv, TypeIn, CtlInv, UpdInv, OutInv, RxTake, uart, TxEmpty, RxEmpty
<1>4. InInv'
  <2> SUFFICES ASSUME ~ underrun'
               PROVE  /\ Contents(rx, RS) = kept /\ (peeked => "CR" \in ToSet(kept))
                      /\ kept # <<>> /\ (pc' = "tookmore" => Head(kept) \notin EndOfLine)
    BY <1>1 DEF InInv, Advancing
  <2>1. ~ IsBufferEmpty(rx) /\ Contents(rx, RS) = kept /\ (peeked => "CR" \in ToSet(kept))
    BY <1>1 DEF Inv, InInv
  <2>2. PICK d : d = [rx EXCEPT !.r = (rx.r + 1) % RS]
    OBVIOUS
  <2>3. Contents(rx, RS) # <<>> /\ e = Head(Contents(rx, RS))
    BY <1>1, <2>1, <2>2, Oldest
  <2> QED BY <1>1, <2>1, <2>3
<1> QED BY <1>2, <1>3, <1>4 DEF Inv

(* and moves the read index past it.                                       *)
LEMMA TookStep ==
  ASSUME NEW S, Inv(S), RxAdvance, isr = "out", isr' = "out"
  PROVE  Inv(S)'
<1> DEFINE c == Contents(rx, RS)
<1> RS \in Sizes
  BY Bounds
<1>1. /\ rx \in Rings(S, RS) /\ kept \in Seq(S) /\ pc \in {"took", "tookmore"}
      /\ rx' = [rx EXCEPT !.r = (rx.r + 1) % RS]
      /\ kept' = (IF kept = <<>> THEN kept ELSE Tail(kept))
      /\ underrun' = underrun /\ UNCHANGED <<tmp, at>>
      /\ peeked' \in BOOLEAN /\ (peeked' => peeked /\ pc' = "gets" /\ pc = "tookmore")
      /\ pc' \in {"idle", "gets"}
  BY DEF Inv, TypeIn, RxAdvance, Advancing, RS
<1>2. rx' \in Rings(S, RS)
  <2>1. 1 \in 0..RS /\ rx.r \in 0..(RS - 1)
    BY <1>1, RingTypes DEF Sizes
  <2>2. (rx.r + 1) % RS \in 0..(RS - 1)
    BY <2>1, Wrap
  <2> QED BY <1>1, <2>2 DEF Rings
<1>3. TypeIn(S)'
  <2>1. kept' \in Seq(S)
    BY <1>1, HeadTailProperties
  <2> QED BY <1>1, <1>2, <2>1 DEF Inv, TypeIn, RxAdvance, uart
<1>4. CtlInv' /\ UpdInv' /\ OutInv'
  BY <1>1 DEF Inv, TypeIn, CtlInv, UpdInv, OutInv, RxAdvance, uart, TxEmpty
<1>5. InInv'
  <2> SUFFICES ASSUME ~ underrun
               PROVE  Contents(rx', RS) = kept' /\ (peeked' => "CR" \in ToSet(kept'))
    BY <1>1 DEF InInv, Advancing
  <2>1. /\ c = kept /\ (peeked => "CR" \in ToSet(kept)) /\ kept # <<>>
        /\ pc = "tookmore" => Head(kept) \notin EndOfLine
    BY <1>1 DEF Inv, InInv, Advancing
  <2>2. Contents(rx', RS) = Tail(c)
    <3>1. ~ IsBufferEmpty(rx)
      BY <1>1, <2>1, Flushed
    <3> QED BY <1>1, <3>1, Oldest
  <2>3. ASSUME peeked' PROVE "CR" \in ToSet(Tail(kept))
    <3>1. "CR" \in ToSet(kept) /\ Head(kept) # "CR"
      BY <1>1, <2>1, <2>3 DEF EndOfLine
    <3> QED BY <1>1, <2>1, <3>1, LaterStays
  <2> QED BY <1>1, <2>1, <2>2, <2>3
<1> QED BY <1>3, <1>4, <1>5 DEF Inv

(* UARTFlushRx empties the receive ring.                                   *)
LEMMA FlushRxStep ==
  ASSUME NEW S, Inv(S), UARTFlushRx, isr = "out", isr' = "out"
  PROVE  Inv(S)'
<1> RS \in Sizes
  BY Bounds
<1>1. /\ rx \in Rings(S, RS) /\ pc = "idle" /\ pc' = "idle" /\ kept' = <<>> /\ peeked' = peeked
      /\ rx' = [rx EXCEPT !.w = 0, !.r = 0]
  BY DEF Inv, TypeIn, UARTFlushRx, Call
<1>2. rx' \in Rings(S, RS) /\ Contents(rx', RS) = <<>>
  <2>1. rx' \in Rings(S, RS) /\ IsBufferEmpty(rx')
    BY <1>1, Flushed
  <2> QED BY <2>1, Flushed
<1>3. TypeIn(S)'
  <2>1. kept' \in Seq(S)
    BY <1>1, EmptySeq
  <2> QED BY <1>1, <1>2, <2>1 DEF Inv, TypeIn, UARTFlushRx, uart
<1>4. CtlInv' /\ UpdInv' /\ OutInv'
  BY <1>1 DEF Inv, CtlInv, UpdInv, OutInv, UARTFlushRx, uart, TxEmpty
<1>5. InInv'
  BY <1>1, <1>2 DEF Inv, InInv, Advancing
<1> QED BY <1>3, <1>4, <1>5 DEF Inv

-----------------------------------------------------------------------------
(* The handler.                                                            *)
LEMMA InterruptedAt ==
  ASSUME NEW S, Inv(S), intOn \/ isr # "out"
  PROVE  pc \notin {"off", "move", "moved"} /\ buffered
BY DEF Inv, TypeIn, CtlInv

(* It begins,                                                              *)
LEMMA EnterStep ==
  ASSUME NEW S, Inv(S), IntEnter
  PROVE  Inv(S)'
<1>1. /\ pc \notin {"off", "move", "moved"} /\ buffered /\ intOn
      /\ UNCHANGED <<pc, text, tmp, at, due, raced>>
  BY InterruptedAt DEF IntEnter, prog, ghosts
<1>2. /\ tx' \in Rings(S, TS) /\ fifo' \in Seq(S) /\ Len(fifo') \in 0..FifoDepth
      /\ UpdInv' /\ OutInv'
  <2>1. CASE WriteAndPrime(<<>>)
    BY <1>1, <2>1, PrimeStep
  <2>2. CASE UNCHANGED <<tx, fifo>>
    BY <1>1, <2>2 DEF Inv, TypeIn, UpdInv, OutInv, TxEmpty
  <2> QED BY <2>1, <2>2 DEF IntEnter
<1>3. TypeIn(S)'
  BY <1>2 DEF Inv, TypeIn, IntEnter, prog, ghosts
<1>4. CtlInv' /\ InInv'
  BY <1>1 DEF Inv, CtlInv, InInv, Advancing, IntEnter, prog, ghosts
<1> QED BY <1>2, <1>3, <1>4 DEF Inv

(* and ends.                                                               *)
LEMMA ExitStep ==
  ASSUME NEW S, Inv(S), IntExit
  PROVE  Inv(S)'
<1>1. /\ pc \notin {"off", "move", "moved"} /\ buffered
      /\ UNCHANGED <<pc, text, tmp, at, due, raced>> /\ WriteAndPrime(<<>>)
  BY InterruptedAt DEF IntExit, prog, ghosts
<1>2. /\ tx' \in Rings(S, TS) /\ fifo' \in Seq(S) /\ Len(fifo') \in 0..FifoDepth
      /\ UpdInv' /\ OutInv'
  BY <1>1, PrimeStep
<1>3. TypeIn(S)'
  BY <1>2 DEF Inv, TypeIn, IntExit, prog, ghosts
<1>4. CtlInv' /\ InInv'
  BY <1>1 DEF Inv, CtlInv, InInv, Advancing, IntExit, prog, ghosts
<1> QED BY <1>2, <1>3, <1>4 DEF Inv

(* What the handler does to the receive ring with a character, and what it *)
(* echoes.                                                                 *)
LEMMA ReceiveStep ==
  ASSUME NEW S, Inv(S), IntReceive
  PROVE  Inv(S)'
<1> RS \in Sizes
  BY Bounds
<1>1. /\ pc \notin {"off", "move", "moved"} /\ buffered /\ keys # <<>> /\ isr # "out" /\ isr' # "out"
      /\ UNCHANGED <<pc, text, tmp, at, buffered, intOn, untyped>>
      /\ rx \in Rings(S, RS) /\ kept \in Seq(S) /\ keys \in Seq(S) /\ Named \subseteq S
  BY InterruptedAt DEF IntReceive, Inv, TypeIn
<1>2. PICK c \in S : c = Head(keys)
  BY <1>1, HeadTailProperties
<1>3. IntEndsLine(c) \/ IntErases(c) \/ IntGobbles(c) \/ IntStores(c)
  BY <1>2 DEF IntReceive
<1>4. NoEcho \/ \E cs \in Seq(S) : Echo(cs)
  <2>1. CASE IntEndsLine(c)
    <3>1. Written("LF") \in Seq(S)
      BY <1>1, ShortSeqs DEF Named, Written
    <3> QED BY <2>1, <3>1 DEF IntEndsLine
  <2>2. CASE IntErases(c)
    <3>1. <<"BS", " ", "BS">> \in Seq(S)
      BY <1>1, ShortSeqs DEF Named
    <3> QED BY <2>2, <3>1 DEF IntErases
  <2>3. CASE IntGobbles(c)
    BY <2>3 DEF IntGobbles
  <2>4. CASE IntStores(c)
    <3>1. <<"CR">> \in Seq(S) /\ <<c>> \in Seq(S)
      BY <1>1, ShortSeqs DEF Named
    <3> QED BY <2>4, <3>1 DEF IntStores, StoreAndEcho
  <2> QED BY <1>3, <2>1, <2>2, <2>3, <2>4
<1>5. /\ tx' \in Rings(S, TS) /\ fifo' \in Seq(S) /\ Len(fifo') \in 0..FifoDepth
      /\ due' \in Seq(S) /\ raced' \in BOOLEAN
      /\ UpdInv' /\ OutInv'
  <2>1. CASE NoEcho
    BY <1>1, <2>1 DEF NoEcho, Inv, TypeIn, UpdInv, OutInv, TxEmpty
  <2>2. CASE \E cs \in Seq(S) : Echo(cs)
    <3>1. PICK cs \in Seq(S) : Echo(cs)
      BY <2>2
    <3> QED BY <1>1, <3>1, EchoStep
  <2> QED BY <1>4, <2>1, <2>2
<1>6. \/ rx' = rx /\ kept' = kept /\ peeked' = peeked /\ underrun' = underrun
      \/ /\ ~ IsBufferEmpty(rx) /\ peeked' = FALSE
         /\ rx' = [rx EXCEPT !.w = IF rx.w = 0 THEN RS - 1 ELSE rx.w - 1]
         /\ kept' = IF kept = <<>> THEN kept ELSE Front(kept)
         /\ underrun' = (underrun \/ (Advancing /\ GetBufferCount(rx, RS) = 1))
      \/ /\ ~ IsBufferFull(rx, RS) /\ peeked' = peeked /\ underrun' = underrun
         /\ rx' = Put(rx, RS, <<c>>) /\ kept' = Append(kept, c)
  <2>1. CASE IntEndsLine(c)
    BY <2>1 DEF IntEndsLine
  <2>2. CASE IntErases(c)
    BY <2>2 DEF IntErases, RxEmpty, RS
  <2>3. CASE IntGobbles(c)
    BY <2>3 DEF IntGobbles
  <2>4. CASE IntStores(c)
    BY <2>4 DEF IntStores, StoreAndEcho, RS
  <2> QED BY <1>3, <2>1, <2>2, <2>3, <2>4
<1>7. /\ rx' \in Rings(S, RS) /\ kept' \in Seq(S) /\ peeked' \in BOOLEAN /\ underrun' \in BOOLEAN
      /\ (peeked' => peeked)
      /\ ~ underrun' => /\ Contents(rx', RS) = kept' /\ (peeked' => "CR" \in ToSet(kept'))
                        /\ Advancing => kept' # <<>>
                        /\ pc = "tookmore" => Head(kept') \notin EndOfLine
  <2>0. /\ peeked \in BOOLEAN /\ underrun \in BOOLEAN
        /\ ~ underrun => /\ Contents(rx, RS) = kept /\ (peeked => "CR" \in ToSet(kept))
                         /\ Advancing => kept # <<>>
                         /\ pc = "tookmore" => Head(kept) \notin EndOfLine
    BY DEF Inv, TypeIn, InInv
  <2>1. CASE rx' = rx /\ kept' = kept /\ peeked' = peeked /\ underrun' = underrun
    BY <1>1, <2>0, <2>1
  <2>2. CASE /\ ~ IsBufferEmpty(rx) /\ peeked' = FALSE
             /\ rx' = [rx EXCEPT !.w = IF rx.w = 0 THEN RS - 1 ELSE rx.w - 1]
             /\ kept' = IF kept = <<>> THEN kept ELSE Front(kept)
             /\ underrun' = (underrun \/ (Advancing /\ GetBufferCount(rx, RS) = 1))
    <3>1. rx' \in Rings(S, RS) /\ Contents(rx', RS) = Front(Contents(rx, RS))
      BY <1>1, <2>2, Retreated
    <3>2. Contents(rx, RS) # <<>> /\ Len(Contents(rx, RS)) = GetBufferCount(rx, RS)
      BY <1>1, <2>2, Flushed, ContentsAt
    <3>3. kept # <<>> => /\ Front(kept) \in Seq(S) /\ Len(Front(kept)) = Len(kept) - 1
                         /\ Len(kept) \in Nat /\ Len(kept) # 0
                         /\ \A k \in 1..(Len(kept) - 1) : Front(kept)[k] = kept[k]
      <4>1. kept # <<>> => Len(kept) # 0 /\ Len(kept) \in Nat
        BY <1>1, EmptySeq, LenProperties
      <4> QED BY <1>1, <4>1, FrontIs
    <3>4. ASSUME ~ underrun', Advancing PROVE kept' # <<>> /\ Head(kept') = Head(kept)
      <4>1. kept # <<>> /\ Len(kept) # 1
        BY <2>0, <2>2, <3>2, <3>4
      <4>2. kept' = Front(kept) /\ kept' \in Seq(S) /\ Len(kept') # 0 /\ kept'[1] = kept[1]
        BY <2>2, <3>3, <4>1
      <4>3. kept' # <<>>
        BY <4>2, EmptySeq
      <4>4. Head(kept') = kept'[1] /\ Head(kept) = kept[1]
        BY <1>1, <4>1, <4>2, <4>3, HeadTailProperties
      <4> QED BY <4>2, <4>3, <4>4
    <3>5. pc = "tookmore" => Advancing
      BY DEF Advancing
    <3>6. kept' \in Seq(S) /\ underrun' \in BOOLEAN
      BY <1>1, <2>0, <2>2, <3>3
    <3>7. ~ underrun' => ~ underrun
      BY <2>2
    <3> QED BY <2>0, <2>2, <3>1, <3>2, <3>4, <3>5, <3>6, <3>7
  <2>3. CASE /\ ~ IsBufferFull(rx, RS) /\ peeked' = peeked /\ underrun' = underrun
             /\ rx' = Put(rx, RS, <<c>>) /\ kept' = Append(kept, c)
    <3>1. PICK cs : cs = <<c>>
      OBVIOUS
    <3>2. cs \in Seq(S) /\ Len(cs) = 1
      BY <3>1, ShortSeqs
    <3>3. Len(cs) \in 0..(RS - 1 - GetBufferCount(rx, RS))
      <4>1. GetBufferCount(rx, RS) \in 0..(RS - 1) /\ GetBufferCount(rx, RS) # RS - 1
        BY <1>1, <2>3, RingTypes
      <4> QED BY <3>2, <4>1 DEF Sizes
    <3>4. rx' \in Rings(S, RS) /\ Contents(rx', RS) = Contents(rx, RS) \o cs
      <4>1. /\ Put(rx, RS, cs) \in Rings(S, RS)
            /\ Contents(Put(rx, RS, cs), RS) = Contents(rx, RS) \o cs
        BY <1>1, <3>2, <3>3, PutAll
      <4>2. rx' = Put(rx, RS, cs)
        BY <2>3, <3>1
      <4> QED BY <4>1, <4>2
    <3>5. /\ kept' = kept \o cs /\ kept' \in Seq(S)
          /\ ("CR" \in ToSet(kept) => "CR" \in ToSet(kept'))
      <4>1. kept' \in Seq(S) /\ kept' = kept \o <<c>>
        BY <1>1, <2>3, AppendProperties, AppendIsConcat
      <4>2. "CR" \in ToSet(kept) => "CR" \in ToSet(kept')
        BY <1>1, <2>3, AppendStays
      <4> QED BY <3>1, <4>1, <4>2
    <3>6. kept # <<>> => kept' # <<>> /\ Head(kept') = Head(kept)
      BY <1>1, <2>3
    <3>7. pc = "tookmore" => Advancing
      BY DEF Advancing
    <3> QED BY <2>0, <2>3, <3>4, <3>5, <3>6, <3>7
  <2> QED BY <1>6, <2>1, <2>2, <2>3
<1>8. keys' \in Seq(S)
  <2>1. keys' = keys \/ keys' = Tail(keys)
    BY DEF IntReceive
  <2> QED BY <1>1, <2>1, HeadTailProperties
<1>9. TypeIn(S)'
  BY <1>1, <1>5, <1>7, <1>8 DEF Inv, TypeIn
<1>10. CtlInv' /\ InInv'
  BY <1>1, <1>7 DEF Inv, CtlInv, InInv, Advancing
<1> QED BY <1>5, <1>9, <1>10 DEF Inv

-----------------------------------------------------------------------------
(* The set of characters may grow.                                         *)
LEMMA Grows ==
  ASSUME NEW S0, NEW S, S0 \subseteq S, Inv(S0)
  PROVE  Inv(S)
<1>1. ASSUME NEW s \in Seq(S0) PROVE s \in Seq(S)
  <2>1. Len(s) \in Nat /\ s \in [1..Len(s) -> S0]
    BY LenProperties
  <2>2. s \in [1..Len(s) -> S]
    BY <2>1
  <2> QED BY <2>1, <2>2
<1>2. ASSUME NEW size, NEW b \in Rings(S0, size) PROVE b \in Rings(S, size)
  BY DEF Rings
<1>3. TypeIn(S)
  <2>1. tx \in Rings(S, TS) /\ rx \in Rings(S, RS)
    BY <1>2 DEF Inv, TypeIn
  <2>2. /\ fifo \in Seq(S) /\ due \in Seq(S) /\ kept \in Seq(S) /\ keys \in Seq(S)
        /\ untyped \in Seq(S)
    BY <1>1 DEF Inv, TypeIn
  <2>3. Named \subseteq S
    BY DEF Inv, TypeIn
  <2> QED BY <2>1, <2>2, <2>3 DEF Inv, TypeIn
<1> QED BY <1>3 DEF Inv

(* The rings hold nothing at first.                                        *)
LEMMA NewRing ==
  ASSUME NEW S, NEW size \in Sizes, "NUL" \in S
  PROVE  /\ Ring(size) \in Rings(S, size) /\ IsBufferEmpty(Ring(size))
         /\ Contents(Ring(size), size) = <<>>
<1>1. 0 \in 0..(size - 1)
  BY DEF Sizes
<1>2. Ring(size) \in Rings(S, size)
  BY <1>1 DEF Ring, Rings
<1>3. IsBufferEmpty(Ring(size))
  BY DEF Ring, IsBufferEmpty
<1> QED BY <1>2, <1>3, Flushed

(* The invariant holds at first,                                           *)
LEMMA InitIInv == Init => IInv
<1> SUFFICES ASSUME Init PROVE IInv
  OBVIOUS
<1>1. PICK S : S = Named \cup ToSet(untyped)
  OBVIOUS
<1>2. Named \subseteq S /\ "NUL" \in S
  BY <1>1 DEF Named
<1>3. untyped \in Seq(S)
  <2>1. untyped \in Seq(ToSet(untyped))
    BY UartAssumption DEF Init
  <2> DEFINE T == ToSet(untyped)
  <2> HIDE DEF T
  <2>2. untyped \in Seq(T) /\ T \subseteq S
    BY <1>1, <2>1 DEF T
  <2>3. Len(untyped) \in Nat /\ untyped \in [1..Len(untyped) -> T]
    BY <2>2, LenProperties
  <2>4. untyped \in [1..Len(untyped) -> S]
    BY <2>2, <2>3
  <2> QED BY <2>3, <2>4
<1>4. /\ tx = Ring(TS) /\ rx = Ring(RS)
      /\ tx \in Rings(S, TS) /\ IsBufferEmpty(tx) /\ Contents(tx, TS) = <<>>
      /\ rx \in Rings(S, RS) /\ IsBufferEmpty(rx) /\ Contents(rx, RS) = <<>>
  BY <1>2, Bounds, NewRing DEF Init, TS, RS
<1>5. <<>> \in Seq(S) /\ Len(<<>>) = 0 /\ 0 \in 0..FifoDepth /\ 0 \in 0..(TS - 1)
  BY EmptySeq, Bounds DEF Sizes
<1>6. TypeIn(S)
  BY <1>2, <1>3, <1>4, <1>5 DEF Init, TypeIn
<1>7. CtlInv /\ UpdInv /\ InInv
  BY <1>4 DEF Init, CtlInv, UpdInv, InInv, Advancing, TxEmpty, RxEmpty
<1>8. OutInv
  <2>1. <<>> \o <<>> = <<>>
    BY <1>5, ConcatEmptySeq
  <2> QED BY <1>4, <2>1 DEF Init, OutInv
<1> QED BY <1>6, <1>7, <1>8 DEF IInv, Inv

(* the program's steps keep it,                                            *)
LEMMA ForegroundStep ==
  ASSUME NEW S, Inv(S), Head(text) \in S, Foreground(Calls \/ Program)
  PROVE  Inv(S)'
<1>1. isr = "out" /\ isr' = "out" /\ (Calls \/ Program)
  BY DEF Foreground
<1>2. CASE \/ UARTwrite \/ TxLoad \/ WriteTest \/ WriteCheck \/ PrimeTest \/ PrimeBegin \/ PrimeEnd
           \/ WriteEnable \/ FlushTest \/ PeekBegin \/ PeekNext \/ UARTgets \/ UARTgetc \/ RxTest
           \/ UARTFlushTxWait \/ UARTEchoSet \/ GetsReturn
  BY <1>1, <1>2, QuietStep
<1>3. CASE UARTStdioConfig
  BY <1>1, <1>3, ConfigStep
<1>4. CASE WriteStore \/ WriteAdvance
  BY <1>1, <1>4, StoreStep, AdvanceStep
<1>5. CASE PrimeMove \/ PrimeAdvance
  BY <1>1, <1>5, MoveStep, MovedStep
<1>6. CASE CharPut \/ GetsEcho
  BY <1>1, <1>6, DirectStep
<1>7. CASE PeekEnd \/ RxTake \/ RxAdvance
  BY <1>1, <1>7, PeekStep, TakeStep, TookStep
<1>8. CASE UARTFlushRx \/ UARTFlushTxDiscard
  BY <1>1, <1>8, FlushRxStep, DiscardStep
<1>9. CASE GetsChar
  BY <1>1, <1>9, GetsCharStep
<1> QED BY <1>1, <1>2, <1>3, <1>4, <1>5, <1>6, <1>7, <1>8, <1>9 DEF Calls, Program

(* and so does every step.                                                 *)
LEMMA NextIInv == IInv /\ [Next]_vars => IInv'
<1> SUFFICES ASSUME IInv, [Next]_vars PROVE IInv'
  OBVIOUS
<1>1. PICK S0 : Inv(S0)
  BY DEF IInv
<1>2. PICK S : S = S0 \cup {Head(text)}
  OBVIOUS
<1>3. Inv(S) /\ Head(text) \in S
  BY <1>1, <1>2, Grows
<1> SUFFICES Inv(S)'
  BY DEF IInv
<1>4. CASE Foreground(Calls \/ Program)
  BY <1>3, <1>4, ForegroundStep
<1>5. CASE UARTStdioIntHandler
  BY <1>3, <1>5, EnterStep, ReceiveStep, ExitStep DEF UARTStdioIntHandler
<1>6. CASE HwSend \/ Type
  BY <1>3, <1>6, SendStep, TypeStep
<1>7. CASE UNCHANGED vars
  BY <1>3, <1>7 DEF vars, prog, uart, ghosts, Inv, TypeIn, CtlInv, UpdInv, OutInv, InInv, Advancing, TxEmpty, RxEmpty
<1> QED BY <1>4, <1>5, <1>6, <1>7 DEF Next

(* No byte is lost, repeated or reordered in either ring, for every size   *)
(* of the rings and depth of the FIFO, every text and every input: what    *)
(* was accepted is in the FIFO and the ring, in order, and what was typed  *)
(* and not rubbed out is in the receive ring, except for the two races     *)
(* BytesInOrder names.                                                     *)
THEOREM BytesStayInOrder == Spec => []BytesInOrder
<1>1. IInv => BytesInOrder
  BY DEF IInv, Inv, OutInv, InInv, Advancing, BytesInOrder, OutputInOrder, InputInOrder, TS, RS
<1> QED BY <1>1, InitIInv, NextIInv, PTL DEF Spec

-----------------------------------------------------------------------------
(* UARTgets without buffers.                                               *)

InGets == {"line", "echo", "ended"}

(* What is still to be echoed makes the screen show the line.              *)
Shows(T) ==
  \/ text = <<>> /\ screen = line
  \/ \E c \in T \ {"CR", "LF", "BS"} : text = <<c>> /\ line = Append(screen, c)
  \/ text = <<"BS", " ", "BS">> /\ \E c \in T : screen = Append(line, c)
  \/ text = <<" ", "BS">> /\ screen = line
  \/ text = <<"BS">> /\ screen = Append(line, " ")

LineInv(T) ==
  ~buffered /\ pc \in InGets =>
    /\ line \in Seq(T) /\ screen \in Seq(T) /\ Len(line) < LineLen
    /\ IF pc = "echo" THEN Shows(T) ELSE screen = line

(* The line is over a set T of characters that may grow as well.           *)
ScreenInv == \E T : " " \in T /\ LineInv(T)

(* A sequence over a set is one over any larger set.                       *)
LEMMA Larger ==
  ASSUME NEW T0, NEW T, T0 \subseteq T, NEW s \in Seq(T0)
  PROVE  s \in Seq(T)
<1>1. Len(s) \in Nat /\ s \in [1..Len(s) -> T0]
  BY LenProperties
<1>2. s \in [1..Len(s) -> T]
  BY <1>1
<1> QED BY <1>1, <1>2

(* What is appended can be taken off again.                                *)
LEMMA FrontOfAppend ==
  ASSUME NEW T, NEW s \in Seq(T), NEW c \in T
  PROVE  Append(s, c) \in Seq(T) /\ Append(s, c) # <<>> /\ Front(Append(s, c)) = s
<1> DEFINE t == Append(s, c)
<1>1. /\ t \in Seq(T) /\ Len(t) = Len(s) + 1 /\ Len(s) \in Nat /\ Len(t) # 0
      /\ \A k \in 1..Len(s) : t[k] = s[k]
  BY AppendProperties, LenProperties
<1>2. t # <<>>
  BY <1>1
<1> HIDE DEF t
<1>3. /\ Front(t) \in Seq(T) /\ Len(Front(t)) = Len(t) - 1
      /\ \A k \in 1..(Len(t) - 1) : Front(t)[k] = t[k]
  BY <1>1, FrontIs
<1>4. Len(Front(t)) = Len(s) /\ \A k \in 1..Len(s) : Front(t)[k] = s[k]
  BY <1>1, <1>3
<1>5. Front(t) = s
  BY <1>3, <1>4, SeqEqual
<1> QED BY <1>1, <1>2, <1>5 DEF t

(* A line that is not empty is its front and a last character.             *)
LEMMA FrontAndLast ==
  ASSUME NEW T, NEW s \in Seq(T), s # <<>>
  PROVE  /\ Front(s) \in Seq(T) /\ Len(Front(s)) = Len(s) - 1
         /\ \E c \in T : s = Append(Front(s), c)
<1>1. Len(s) \in Nat /\ Len(s) # 0
  BY LenProperties, EmptySeq
<1>2. /\ Front(s) \in Seq(T) /\ Len(Front(s)) = Len(s) - 1
      /\ \A k \in 1..(Len(s) - 1) : Front(s)[k] = s[k]
  BY <1>1, FrontIs
<1>3. PICK c \in T : c = s[Len(s)]
  <2>1. Len(s) \in 1..Len(s)
    BY <1>1
  <2> QED BY <2>1, ElementOfSeq
<1> DEFINE f == Front(s)
           t == Append(f, c)
<1> HIDE DEF f
<1>4. /\ t \in Seq(T) /\ Len(t) = Len(f) + 1 /\ t[Len(f) + 1] = c
      /\ \A k \in 1..Len(f) : t[k] = f[k]
  BY <1>2, AppendProperties DEF f
<1>5. Len(t) = Len(s)
  BY <1>1, <1>2, <1>4 DEF f
<1>6. ASSUME NEW k \in 1..Len(s) PROVE t[k] = s[k]
  <2>1. CASE k = Len(s)
    BY <1>1, <1>2, <1>3, <1>4, <2>1 DEF f
  <2>2. CASE k # Len(s)
    <3>1. k \in 1..(Len(s) - 1) /\ k \in 1..Len(f)
      BY <1>1, <1>2, <2>2 DEF f
    <3> QED BY <1>2, <1>4, <3>1 DEF f
  <2> QED BY <2>1, <2>2
<1> HIDE DEF t
<1>7. t = s
  BY <1>4, <1>5, <1>6, SeqEqual
<1> QED BY <1>2, <1>3, <1>7 DEF t, f

(* The echoes of UARTgets, character by character.                         *)
LEMMA Echoes ==
  ASSUME NEW a, NEW b, NEW d
  PROVE  /\ Head(<<a>>) = a /\ Tail(<<a>>) = <<>>
         /\ Head(<<a, b>>) = a /\ Tail(<<a, b>>) = <<b>>
         /\ Head(<<a, b, d>>) = a /\ Tail(<<a, b, d>>) = <<b, d>>
OBVIOUS

LEMMA OneMore ==
  ASSUME NEW n \in Nat, NEW m \in Nat
  PROVE  (n < m => n - 1 < m) /\ (n < m - 1 => n + 1 < m)
OBVIOUS

(* Outside UARTgets nothing is claimed, and a step that leaves the screen, *)
(* the line and what is to be echoed alone keeps what is.                  *)
LEMMA AsideStep ==
  ASSUME NEW T, LineInv(T), UNCHANGED <<buffered, pc, text, line, screen>> \/ buffered' \/ pc' \notin InGets
  PROVE  LineInv(T)'
BY DEF LineInv, Shows

(* One more character of the echo reaches the screen.                      *)
LEMMA GetsEchoStep ==
  ASSUME NEW T, " " \in T, LineInv(T), ~buffered, GetsEcho
  PROVE  LineInv(T)'
<1>1. /\ pc = "echo" /\ UNCHANGED <<buffered, line>>
      /\ line \in Seq(T) /\ screen \in Seq(T) /\ Len(line) < LineLen /\ Shows(T)
  BY DEF GetsEcho, LineInv, InGets
<1>2. CASE text = <<>>
  <2>1. pc' = "line" /\ UNCHANGED <<screen, text>> /\ screen = line
    BY <1>1, <1>2 DEF GetsEcho, Shows
  <2> QED BY <1>1, <2>1 DEF LineInv, InGets
<1>3. CASE text # <<>>
  <2>1. screen' = Shown(screen, Head(text)) /\ text' = Tail(text) /\ pc' = "echo"
    BY <1>1, <1>3 DEF GetsEcho
  <2> SUFFICES screen' \in Seq(T) /\ Shows(T)'
    BY <1>1, <2>1 DEF LineInv
  <2>2. ASSUME NEW c \in T \ {"CR", "LF", "BS"}, text = <<c>>, line = Append(screen, c)
        PROVE  screen' \in Seq(T) /\ Shows(T)'
    <3>1. Head(text) = c /\ Tail(text) = <<>>
      BY <2>2, Echoes
    <3>2. screen' = line
      BY <2>1, <2>2, <3>1 DEF Shown
    <3> QED BY <1>1, <2>1, <3>1, <3>2 DEF Shows
  <2>3. ASSUME text = <<"BS", " ", "BS">>, NEW c \in T, screen = Append(line, c)
        PROVE  screen' \in Seq(T) /\ Shows(T)'
    <3>1. Head(text) = "BS" /\ Tail(text) = <<" ", "BS">>
      <4>1. ASSUME NEW a, NEW b, NEW d, text = <<a, b, d>>
            PROVE  Head(text) = a /\ Tail(text) = <<b, d>>
        BY <4>1, Echoes
      <4> QED BY <2>3, <4>1
    <3>2. screen' = line
      BY <1>1, <2>1, <2>3, <3>1, FrontOfAppend DEF Shown
    <3> QED BY <1>1, <2>1, <3>1, <3>2 DEF Shows
  <2>4. CASE text = <<" ", "BS">> /\ screen = line
    <3>1. Head(text) = " " /\ Tail(text) = <<"BS">>
      BY <2>4, Echoes
    <3>2. screen' = Append(line, " ")
      BY <2>1, <2>4, <3>1 DEF Shown
    <3>3. screen' \in Seq(T)
      BY <1>1, <3>2, AppendProperties
    <3> QED BY <1>1, <2>1, <3>1, <3>2, <3>3 DEF Shows
  <2>5. CASE text = <<"BS">> /\ screen = Append(line, " ")
    <3>1. Head(text) = "BS" /\ Tail(text) = <<>>
      BY <2>5, Echoes
    <3>2. screen' = line
      BY <1>1, <2>1, <2>5, <3>1, FrontOfAppend DEF Shown
    <3> QED BY <1>1, <2>1, <3>1, <3>2 DEF Shows
  <2> QED BY <1>1, <1>3, <2>2, <2>3, <2>4, <2>5 DEF Shows
<1> QED BY <1>2, <1>3

(* A character is stored, rubs one out, or is neither stored nor echoed.   *)
LEMMA GetsLineStep ==
  ASSUME NEW T, " " \in T, LineInv(T), ~buffered, GetsChar, Head(keys) \in T
  PROVE  LineInv(T)'
<1> DEFINE c == Head(keys)
<1>1. /\ pc = "line" /\ UNCHANGED <<buffered, screen>>
      /\ line \in Seq(T) /\ screen = line /\ Len(line) < LineLen /\ Len(line) \in Nat
  BY LenProperties DEF GetsChar, LineInv, InGets, ghosts
<1>2. CASE line' = line /\ text' = <<>> /\ pc' \in {"echo", "ended"}
  BY <1>1, <1>2 DEF LineInv, Shows, InGets
<1>3. CASE line # <<>> /\ line' = Front(line) /\ text' = <<"BS", " ", "BS">> /\ pc' = "echo"
  <2>1. line' \in Seq(T) /\ Len(line') < LineLen /\ \E d \in T : line = Append(line', d)
    <3>1. /\ Front(line) \in Seq(T) /\ Len(Front(line)) = Len(line) - 1
          /\ \E d \in T : line = Append(Front(line), d)
      BY <1>1, <1>3, FrontAndLast
    <3>2. LineLen \in Nat
      BY UartAssumption
    <3>3. Len(line') < LineLen
      BY <1>1, <1>3, <3>1, <3>2, OneMore
    <3> QED BY <1>3, <3>1, <3>3
  <2>2. Shows(T)'
    BY <1>1, <1>3, <2>1 DEF Shows
  <2> QED BY <1>1, <1>3, <2>1, <2>2 DEF LineInv
<1>4. CASE /\ c \notin EndOfLine \cup {"BS"} /\ Len(line) < LineLen - 1
           /\ line' = Append(line, c) /\ text' = <<c>> /\ pc' = "echo"
  <2>1. line' \in Seq(T) /\ Len(line') < LineLen
    <3>1. Append(line, c) \in Seq(T) /\ Len(Append(line, c)) = Len(line) + 1
      BY <1>1, AppendProperties
    <3>2. LineLen \in Nat
      BY UartAssumption
    <3>3. Len(line') < LineLen
      BY <1>1, <1>4, <3>1, <3>2, OneMore
    <3> QED BY <1>4, <3>1, <3>3
  <2>2. c \in T \ {"CR", "LF", "BS"}
    BY <1>4 DEF EndOfLine
  <2>3. Shows(T)'
    BY <1>1, <1>4, <2>2 DEF Shows
  <2> QED BY <1>1, <1>4, <2>1, <2>3 DEF LineInv
<1>5. GetsErases \/ GetsGobbles \/ GetsEnds \/ GetsStores
  BY DEF GetsChar
<1> QED BY <1>2, <1>3, <1>4, <1>5 DEF GetsErases, GetsGobbles, GetsEnds, GetsStores

LEMMA NextScreen == IInv /\ ScreenInv /\ [Next]_vars => ScreenInv'
<1> SUFFICES ASSUME IInv, ScreenInv, [Next]_vars PROVE ScreenInv'
  OBVIOUS
<1>1. PICK S : Inv(S)
  BY DEF IInv
<1>2. PICK T0 : " " \in T0 /\ LineInv(T0)
  BY DEF ScreenInv
<1>3. PICK T : T = T0 \cup {Head(keys)}
  OBVIOUS
<1>4. " " \in T /\ Head(keys) \in T /\ LineInv(T)
  <2>1. T0 \subseteq T
    BY <1>3
  <2>2. line \in Seq(T0) => line \in Seq(T)
    BY <2>1, Larger
  <2>3. screen \in Seq(T0) => screen \in Seq(T)
    BY <2>1, Larger
  <2>4. Shows(T0) => Shows(T)
    BY <2>1 DEF Shows
  <2> QED BY <1>2, <1>3, <2>2, <2>3, <2>4 DEF LineInv
<1> SUFFICES LineInv(T)'
  BY <1>4 DEF ScreenInv
<1>5. CASE buffered
  <2>1. buffered' = buffered
    BY DEF Next, vars, prog, uart, ghosts, Foreground, Calls, Program, UARTwrite, UARTgets, UARTgetc, UARTFlushRx,
           UARTFlushTxDiscard, UARTFlushTxWait, UARTEchoSet, UARTStdioConfig, TxLoad, WriteTest, WriteStore,
           WriteAdvance, WriteCheck, PrimeTest, PrimeBegin, PrimeMove, PrimeAdvance, PrimeEnd,
           WriteEnable, FlushTest, PeekBegin, PeekNext, PeekEnd, CharPut, RxTest, RxTake, RxAdvance, GetsChar, GetsEcho, GetsReturn,
           UARTStdioIntHandler, IntEnter, IntReceive, IntExit, HwSend, Type
  <2> QED BY <1>4, <1>5, <2>1, AsideStep
<1>6. ASSUME ~buffered, Calls \/ Program PROVE LineInv(T)'
  <2>1. CASE UARTgets
    <3>1. line' = <<>> /\ screen' = <<>> /\ pc' = "line" /\ Len(<<>>) = 0 /\ <<>> \in Seq(T)
      BY <1>6, <2>1, EmptySeq DEF UARTgets, Call
    <3> QED BY <3>1, UartAssumption DEF LineInv
  <2>2. CASE GetsEcho
    BY <1>4, <1>6, <2>2, GetsEchoStep
  <2>3. CASE GetsChar
    BY <1>4, <1>6, <2>3, GetsLineStep
  <2>4. CASE \/ UARTwrite \/ UARTgetc \/ UARTFlushRx \/ UARTFlushTxDiscard \/ UARTEchoSet
             \/ UARTFlushTxWait \/ UARTStdioConfig \/ CharPut \/ GetsReturn
    <3>1. pc' \notin InGets
      BY <1>6, <2>4 DEF InGets, UARTwrite, UARTgetc, UARTFlushRx, UARTFlushTxDiscard, UARTFlushTxWait,
                        UARTEchoSet, UARTStdioConfig, CharPut, GetsReturn, Call
    <3> QED BY <1>4, <3>1, AsideStep
  <2>5. CASE \/ TxLoad \/ WriteTest \/ WriteStore \/ WriteAdvance \/ WriteCheck \/ PrimeTest
             \/ PrimeBegin \/ PrimeMove \/ PrimeAdvance \/ PrimeEnd \/ WriteEnable \/ FlushTest
             \/ PeekBegin \/ PeekNext \/ PeekEnd \/ RxTest \/ RxTake \/ RxAdvance
    <3>1. pc' \notin InGets
      BY <1>6, <2>5 DEF InGets, TxLoad, Loaded, WriteTest, WriteStore, WriteAdvance, WriteCheck,
                        PrimeTest, PrimeBegin, PrimeMove, PrimeAdvance, PrimeEnd, WriteEnable, FlushTest,
                        PeekBegin, PeekNext, PeekEnd, RxTest, RxTake, RxAdvance, Advancing
    <3> QED BY <1>4, <3>1, AsideStep
  <2> QED BY <1>6, <2>1, <2>2, <2>3, <2>4, <2>5 DEF Calls, Program
<1>7. ASSUME ~buffered, UARTStdioIntHandler PROVE FALSE
  BY <1>1, <1>7, InterruptedAt DEF UARTStdioIntHandler, IntEnter, IntReceive, IntExit
<1>8. CASE HwSend \/ Type \/ UNCHANGED vars
  <2>1. UNCHANGED <<buffered, pc, text, line, screen>>
    BY <1>8 DEF HwSend, Type, vars, prog, ghosts
  <2> QED BY <1>4, <2>1, AsideStep
<1> QED BY <1>5, <1>6, <1>7, <1>8 DEF Next, Foreground

(* Without buffers, for every length of pcBuf and whatever is typed: when  *)
(* UARTgets waits for a character or has ended, the terminal shows exactly *)
(* the line, however often characters were rubbed out, swallowed or did    *)
(* not fit.                                                                *)
THEOREM LineIsShown == Spec => []ScreenShowsLine
<1>1. Init => IInv /\ ScreenInv
  BY InitIInv DEF Init, ScreenInv, LineInv, InGets
<1>2. IInv /\ ScreenInv /\ [Next]_vars => (IInv /\ ScreenInv)'
  BY NextIInv, NextScreen
<1>3. ScreenInv => ScreenShowsLine
  BY DEF ScreenInv, LineInv, InGets, ScreenShowsLine
<1> QED BY <1>1, <1>2, <1>3, PTL DEF Spec

================================================================================
