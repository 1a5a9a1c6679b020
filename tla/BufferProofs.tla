---------------------------- MODULE BufferProofs ----------------------------
(***************************************************************************)
(* Proofs about DynamicBuffer and BufferCodec.                             *)
(*                                                                         *)
(* DynamicBuffer, for every size of the buffer and of the operations: each *)
(* function of the class keeps to the allocation and does to the content   *)
(* what its caller expects, and so the buffer is a byte queue unless bytes *)
(* that were received in place are overwritten.                            *)
(*                                                                         *)
(* BufferCodec, for every width of bytes and integers and all fields: what *)
(* is read is what was written.  The bytes lie in the stream where their   *)
(* field was written, in the buffer or on the wire, and each kind of read  *)
(* takes exactly the bytes its kind of write has made.                     *)
(*                                                                         *)
(* The codec computes with powers, digits and sums, which are defined by   *)
(* recursion.  Induction is by the smallest number that lacks a property   *)
(* (NatByStep), recursive functions exist (Recursion), and a power of two  *)
(* is the number of subsets of a set (TwoToNext).                          *)
(***************************************************************************)
EXTENDS DynamicBuffer, BufferCodec, SequenceTheorems, FiniteSetTheorems,
        WellFoundedInduction, TLAPS

\* A buffer whose positions lie in its allocation.
Buffers == {b \in [mem : Seq(Cells), len : Nat, rp : Nat, wp : Nat] :
              b.rp <= b.wp /\ b.wp <= Capacity(b) /\ b.len <= Capacity(b)}

\* No buffer gets larger than what it began with, what reserve() was asked for or
\* twice what was put into it.
MaxRoom == Initial + MaxCapacity + 2 * MaxBytes

\* The content is of the length the positions say, and what is in the buffer was
\* put there.
SizeInv ==
  /\ Len(content) = Size(buf) /\ Size(buf) <= puts /\ Capacity(buf) <= MaxRoom
  /\ buf \in Buffers

IInv == TypeOK /\ SizeInv /\ ByteQueue

-----------------------------------------------------------------------------
(* Arithmetic of size_t, and sequences *)

\* A sum that does not reach the modulus is the sum.
LEMMA ModSmall ==
  ASSUME NEW x \in Nat, NEW m \in Nat, x < m
  PROVE  x % m = x
BY SMTT(20)

\* A difference below zero wraps around once.
LEMMA ModNegative ==
  ASSUME NEW x \in Int, NEW m \in Nat, x < 0, 0 <= x + m
  PROVE  x % m = x + m
BY SMTT(20)

\* A function on 1..n is a sequence of length n.
LEMMA FromTo ==
  ASSUME NEW S, NEW n \in Nat, NEW f, f = [i \in 1..n |-> f[i]],
         \A i \in 1..n : f[i] \in S
  PROVE  f \in Seq(S) /\ Len(f) = n
BY SMTT(20)

\* What Bytes() returns.
LEMMA BytesAre ==
  ASSUME NEW b \in Buffers
  PROVE  /\ Size(b) \in Nat /\ Bytes(b) \in Seq(Cells) /\ Len(Bytes(b)) = Size(b)
         /\ \A i \in 1..Size(b) : Bytes(b)[i] = b.mem[b.rp + i]
<1>1. Size(b) \in Nat
  BY DEF Buffers, Size
<1>2. \A i \in 1..Size(b) : b.mem[b.rp + i] \in Cells
  BY DEF Buffers, Size, Capacity
<1> QED
  BY <1>1, <1>2, FromTo DEF Bytes

\* What clear() does to a buffer.
LEMMA ClearedIs ==
  ASSUME NEW b \in [mem : Seq(Cells), len : Nat, rp : Nat, wp : Nat]
  PROVE  LET c == [b EXCEPT !.len = 0, !.rp = 0, !.wp = 0] IN
           /\ c \in [mem : Seq(Cells), len : Nat, rp : Nat, wp : Nat]
           /\ c.len = 0 /\ c.rp = 0 /\ c.wp = 0 /\ c.mem = b.mem
<1>1. 0 \in Nat
  OBVIOUS
<1> QED
  BY <1>1, Zenon

\* Two buffers that agree from their first position on hold the same.
LEMMA SameBytes ==
  ASSUME NEW b \in Buffers, NEW c \in Buffers, Size(b) = Size(c),
         \A i \in 1..Size(b) : b.mem[b.rp + i] = c.mem[c.rp + i]
  PROVE  Bytes(b) = Bytes(c)
BY DEF Bytes

\* What it means to change two fields of a buffer.
LEMMA MovedIs ==
  ASSUME NEW b \in [mem : Seq(Cells), len : Nat, rp : Nat, wp : Nat],
         NEW x \in Nat, NEW y \in Nat, NEW m \in Seq(Cells)
  PROVE  /\ LET c == [b EXCEPT !.rp = x, !.wp = y] IN
              /\ c \in [mem : Seq(Cells), len : Nat, rp : Nat, wp : Nat]
              /\ c.rp = x /\ c.wp = y /\ c.mem = b.mem /\ c.len = b.len
         /\ LET c == [b EXCEPT !.len = x, !.mem = m] IN
              /\ c \in [mem : Seq(Cells), len : Nat, rp : Nat, wp : Nat]
              /\ c.len = x /\ c.mem = m /\ c.rp = b.rp /\ c.wp = b.wp
BY Zenon

-----------------------------------------------------------------------------
(* The vector and the functions of the class *)

\* memcpy within the allocation.
LEMMA StoreIs ==
  ASSUME NEW b \in Buffers, NEW p \in Nat, NEW s \in Seq(Cells),
         p + Len(s) <= Capacity(b)
  PROVE  /\ Store(b, p, s) \in Buffers
         /\ Capacity(Store(b, p, s)) = Capacity(b)
         /\ Store(b, p, s).rp = b.rp /\ Store(b, p, s).wp = b.wp
         /\ Store(b, p, s).len = b.len
         /\ \A i \in 1..Capacity(b) :
              Store(b, p, s).mem[i] = IF p < i /\ i <= p + Len(s) THEN s[i - p]
                                      ELSE b.mem[i]
<1>1. \A i \in 1..Capacity(b) :
        (IF p < i /\ i <= p + Len(s) THEN s[i - p] ELSE b.mem[i]) \in Cells
  BY DEF Buffers, Capacity
<1> DEFINE m == [i \in 1..Capacity(b) |->
                   IF p < i /\ i <= p + Len(s) THEN s[i - p] ELSE b.mem[i]]
<1>2. m \in Seq(Cells) /\ Len(m) = Capacity(b)
  BY <1>1, FromTo DEF Buffers, Capacity
<1>3. Store(b, p, s) = [b EXCEPT !.mem = m]
  BY DEF Store
<1> QED
  BY <1>2, <1>3 DEF Buffers, Capacity

\* A new allocation keeps the elements.
LEMMA VectorReserveIs ==
  ASSUME NEW b \in Buffers, NEW n \in Nat
  PROVE  LET c == VectorReserve(b, n) IN
           /\ c \in Buffers
           /\ Capacity(c) = Most(n, Capacity(b))
           /\ c.rp = b.rp /\ c.wp = b.wp /\ c.len = b.len
           /\ \A i \in 1..b.len : c.mem[i] = b.mem[i]
<1>1. CASE n <= Capacity(b)
  BY <1>1 DEF VectorReserve, Most, Buffers, Capacity
<1>2. CASE n > Capacity(b)
  <2> DEFINE m == [i \in 1..n |-> IF i <= b.len THEN b.mem[i] ELSE Junk]
  <2>1. \A i \in 1..n : (IF i <= b.len THEN b.mem[i] ELSE Junk) \in Cells
    BY DEF Buffers, Capacity, Cells
  <2>2. m \in Seq(Cells) /\ Len(m) = n
    BY <2>1, FromTo
  <2>3. VectorReserve(b, n) = [b EXCEPT !.mem = m]
    BY <1>2 DEF VectorReserve, Buffers, Capacity
  <2> HIDE DEF m
  <2>4. LET c == [b EXCEPT !.mem = m] IN
          c \in Buffers /\ c.mem = m /\ c.rp = b.rp /\ c.wp = b.wp /\ c.len = b.len
    BY <1>2, <2>2 DEF Buffers, Capacity
  <2>5. \A i \in 1..b.len : m[i] = b.mem[i]
    BY <1>2 DEF m, Buffers, Capacity
  <2>6. Len(m) = Most(n, Capacity(b))
    BY <1>2, <2>2 DEF Most, Buffers, Capacity
  <2> QED
    BY <2>3, <2>4, <2>5, <2>6 DEF Capacity
<1> QED
  BY <1>1, <1>2 DEF Buffers, Capacity

\* vector::resize changes what it adds and nothing else.
LEMMA VectorResizeIs ==
  ASSUME NEW b \in Buffers, NEW n \in Nat, n <= Capacity(b)
  PROVE  LET c == VectorResize(b, n) IN
           /\ c \in Buffers
           /\ Capacity(c) = Capacity(b)
           /\ c.rp = b.rp /\ c.wp = b.wp /\ c.len = n
           /\ \A i \in 1..Capacity(b) : i <= b.len => c.mem[i] = b.mem[i]
<1> DEFINE m == [i \in 1..Capacity(b) |-> IF b.len < i /\ i <= n THEN Zero
                                          ELSE b.mem[i]]
<1>1. \A i \in 1..Capacity(b) :
        (IF b.len < i /\ i <= n THEN Zero ELSE b.mem[i]) \in Cells
  BY DEF Buffers, Capacity, Cells
<1>2. m \in Seq(Cells) /\ Len(m) = Capacity(b)
  BY <1>1, FromTo DEF Buffers, Capacity
<1>3. VectorResize(b, n) = [b EXCEPT !.len = n, !.mem = m]
  BY DEF VectorResize
<1>4. \A i \in 1..Capacity(b) : i <= b.len => m[i] = b.mem[i]
  BY DEF Buffers, Capacity
<1> HIDE DEF m
<1> DEFINE c == [b EXCEPT !.len = n, !.mem = m]
<1>5. /\ c \in [mem : Seq(Cells), len : Nat, rp : Nat, wp : Nat]
      /\ c.len = n /\ c.mem = m /\ c.rp = b.rp /\ c.wp = b.wp
  BY <1>2, MovedIs DEF Buffers
<1> HIDE DEF c
<1>6. c \in Buffers /\ Capacity(c) = Capacity(b)
  BY <1>2, <1>5 DEF Buffers, Capacity
<1> QED
  BY <1>3, <1>4, <1>5, <1>6 DEF c

\* compact() moves the content to the front.
LEMMA CompactIs ==
  ASSUME NEW b \in Buffers
  PROVE  LET c == Compact(b) IN
           /\ c \in Buffers /\ Capacity(c) = Capacity(b) /\ c.len = b.len
           /\ c.rp = 0 /\ c.wp = Size(b) /\ Size(c) = Size(b)
           /\ Bytes(c) = Bytes(b)
<1>1. CASE b.rp = 0
  BY <1>1 DEF Compact, Buffers, Size, Capacity
<1>2. CASE b.rp # 0
  <2> DEFINE d == Store(b, 0, Bytes(b))
             c == [d EXCEPT !.rp = 0, !.wp = Size(b)]
  <2>1. Size(b) \in Nat /\ Size(b) <= Capacity(b) /\ Capacity(b) \in Nat
    BY DEF Buffers, Size, Capacity
  <2>2. /\ d \in Buffers /\ Capacity(d) = Capacity(b) /\ d.len = b.len
        /\ \A i \in 1..Capacity(b) :
             d.mem[i] = IF 0 < i /\ i <= 0 + Len(Bytes(b)) THEN Bytes(b)[i - 0]
                        ELSE b.mem[i]
    BY <2>1, BytesAre, StoreIs
  <2>4. Compact(b) = c
    BY <1>2 DEF Compact
  <2> HIDE DEF d
  <2>3. \A i \in 1..Size(b) : d.mem[i] = Bytes(b)[i]
    BY <2>1, <2>2, BytesAre
  <2>5. /\ c \in [mem : Seq(Cells), len : Nat, rp : Nat, wp : Nat]
        /\ c.rp = 0 /\ c.wp = Size(b) /\ c.mem = d.mem /\ c.len = d.len
    BY <2>1, <2>2, MovedIs DEF Buffers
  <2> HIDE DEF c
  <2>6. c \in Buffers /\ Capacity(c) = Capacity(b) /\ c.len = b.len
        /\ Size(c) = Size(b)
    BY <2>1, <2>2, <2>5 DEF Buffers, Capacity, Size
  <2>7. Bytes(c) = Bytes(b)
    <3>1. \A i \in 1..Size(c) : c.mem[c.rp + i] = b.mem[b.rp + i]
      BY <2>1, <2>3, <2>5, <2>6, BytesAre
    <3> QED
      BY <2>6, <3>1, SameBytes
  <2> QED
    BY <2>4, <2>5, <2>6, <2>7
<1> QED
  BY <1>1, <1>2

\* A sum that reaches the modulus once.
LEMMA ModOnce ==
  ASSUME NEW x \in Nat, NEW m \in Nat, x < m
  PROVE  (x + m) % m = x
BY SMTT(20)

\* ensureCapacity(n) makes room for n bytes behind the content, which it keeps when
\* it lies in the elements of the vector or no new memory is needed.
LEMMA EnsureCapacityIs ==
  ASSUME NEW b \in Buffers, NEW n \in Nat, b.wp + n < SizeMod
  PROVE  LET c == EnsureCapacity(b, n) IN
           /\ c \in Buffers /\ Size(c) = Size(b) /\ c.len = b.len /\ c.wp <= b.wp
           /\ c.wp + n <= Capacity(c)
           /\ Capacity(c) <= Most(Capacity(b), 2 * (Size(b) + n))
           /\ b.wp <= b.len \/ Size(b) = 0 \/ Capacity(c) = Capacity(b) =>
                Bytes(c) = Bytes(b)
<1> DEFINE a == Compact(b)
<1>1. /\ a \in Buffers /\ Capacity(a) = Capacity(b) /\ a.len = b.len
      /\ a.rp = 0 /\ a.wp = Size(b) /\ Size(a) = Size(b) /\ Bytes(a) = Bytes(b)
  BY CompactIs
<1>2. Size(b) \in Nat /\ Size(b) <= b.wp /\ Capacity(b) \in Nat /\ b.wp \in Nat
  BY DEF Buffers, Size, Capacity
<1>3. SizeMod \in Nat
  BY SizesAssumption
<1> HIDE DEF a
<1>4. (b.wp + n) % SizeMod = b.wp + n /\ (a.wp + n) % SizeMod = a.wp + n
  <2>1. b.wp + n \in Nat /\ a.wp + n \in Nat /\ a.wp + n < SizeMod
    BY <1>1, <1>2, <1>3
  <2> QED
    BY <1>3, <2>1, ModSmall
<1> DEFINE r == Most(2 * Capacity(a), a.wp + n)
           d == VectorReserve(a, r)
<1>5. EnsureCapacity(b, n) = IF b.wp + n <= Capacity(b) THEN b
                             ELSE IF a.wp + n <= Capacity(a) THEN a ELSE d
  BY <1>4 DEF EnsureCapacity, a
<1>6. r \in Nat /\ r >= a.wp + n /\ r >= Capacity(a)
      /\ (a.wp + n > Capacity(a) => r <= 2 * (Size(b) + n))
  BY <1>1, <1>2 DEF Most
<1> HIDE DEF r
<1>7. /\ d \in Buffers /\ Capacity(d) = r /\ d.rp = 0 /\ d.wp = Size(b)
      /\ d.len = b.len /\ \A i \in 1..b.len : d.mem[i] = a.mem[i]
  <2>1. Most(r, Capacity(a)) = r
    BY <1>1, <1>2, <1>6 DEF Most
  <2>2. /\ d \in Buffers /\ Capacity(d) = Most(r, Capacity(a))
        /\ d.rp = a.rp /\ d.wp = a.wp
        /\ d.len = a.len /\ \A i \in 1..a.len : d.mem[i] = a.mem[i]
    BY <1>1, <1>6, VectorReserveIs
  <2> HIDE DEF d
  <2> QED
    BY <1>1, <2>1, <2>2
<1> HIDE DEF d
<1>8. Size(d) = Size(b)
  BY <1>2, <1>7 DEF Size
<1>9. b.wp <= b.len \/ Size(b) = 0 => Bytes(d) = Bytes(b)
  <2> SUFFICES ASSUME b.wp <= b.len \/ Size(b) = 0 PROVE Bytes(d) = Bytes(a)
    BY <1>1
  <2>1. \A i \in 1..Size(d) : d.mem[d.rp + i] = a.mem[a.rp + i]
    BY <1>1, <1>2, <1>7, <1>8 DEF Buffers
  <2> QED
    BY <1>1, <1>7, <1>8, <2>1, SameBytes
<1>10. CASE b.wp + n <= Capacity(b)
  BY <1>2, <1>5, <1>10 DEF Most
<1>11. CASE ~(b.wp + n <= Capacity(b)) /\ a.wp + n <= Capacity(a)
  BY <1>1, <1>2, <1>5, <1>11 DEF Most
<1>12. CASE ~(b.wp + n <= Capacity(b)) /\ ~(a.wp + n <= Capacity(a))
  <2>1. Capacity(d) # Capacity(b) /\ d.wp + n <= Capacity(d)
        /\ Capacity(d) <= Most(Capacity(b), 2 * (Size(b) + n))
    BY <1>1, <1>2, <1>6, <1>7, <1>12 DEF Most
  <2> QED
    BY <1>2, <1>5, <1>7, <1>8, <1>9, <1>12, <2>1
<1> QED
  BY <1>10, <1>11, <1>12

\* What it means to move writePos_.
MoveWrite(b, n) == [b EXCEPT !.wp = n]

\* Moving the write position within the memory.
LEMMA WriteMoved ==
  ASSUME NEW b \in Buffers, NEW n \in Nat, b.rp <= n, n <= Capacity(b)
  PROVE  LET c == MoveWrite(b, n) IN
           /\ c \in Buffers /\ c.mem = b.mem /\ c.len = b.len /\ c.rp = b.rp
           /\ c.wp = n /\ Size(c) = n - b.rp /\ Capacity(c) = Capacity(b)
BY DEF MoveWrite, Buffers, Size, Capacity

\* reserve() keeps what lies in the elements, and all when there is room.
LEMMA ReserveIs ==
  ASSUME NEW b \in Buffers, NEW n \in Nat
  PROVE  LET c == ReserveBuffer(b, n) IN
           /\ c \in Buffers /\ Size(c) = Size(b) /\ c.wp <= b.wp /\ c.len = b.len
           /\ Capacity(c) = Most(n, Capacity(b))
           /\ b.wp <= b.len \/ Size(b) = 0 \/ n <= Capacity(b) => Bytes(c) = Bytes(b)
<1> DEFINE a == Compact(b)
<1>1. /\ a \in Buffers /\ Capacity(a) = Capacity(b) /\ a.len = b.len
      /\ a.rp = 0 /\ a.wp = Size(b) /\ Size(a) = Size(b) /\ Bytes(a) = Bytes(b)
  BY CompactIs
<1>2. Size(b) \in Nat /\ Size(b) <= b.wp /\ Capacity(b) \in Nat /\ b.wp \in Nat
  BY DEF Buffers, Size, Capacity
<1> HIDE DEF a
<1> DEFINE d == VectorReserve(a, n)
<1>3. /\ d \in Buffers /\ Capacity(d) = Most(n, Capacity(b)) /\ d.rp = 0
      /\ d.wp = Size(b) /\ d.len = b.len /\ \A i \in 1..b.len : d.mem[i] = a.mem[i]
  BY SMTT(40), <1>1, VectorReserveIs
<1>4. ReserveBuffer(b, n) = IF n > Capacity(b) THEN d ELSE b
  BY DEF ReserveBuffer, a
<1> HIDE DEF d
<1>5. Size(d) = Size(b)
  BY <1>2, <1>3 DEF Size
<1>6. b.wp <= b.len \/ Size(b) = 0 => Bytes(d) = Bytes(b)
  <2> SUFFICES ASSUME b.wp <= b.len \/ Size(b) = 0 PROVE Bytes(d) = Bytes(a)
    BY <1>1
  <2>1. \A i \in 1..Size(d) : d.mem[d.rp + i] = a.mem[a.rp + i]
    BY <1>1, <1>2, <1>3, <1>5 DEF Buffers
  <2> QED
    BY <1>1, <1>3, <1>5, <2>1, SameBytes
<1>7. CASE n > Capacity(b)
  BY <1>2, <1>3, <1>4, <1>5, <1>6, <1>7
<1>8. CASE ~(n > Capacity(b))
  BY <1>2, <1>4, <1>8 DEF Most
<1> QED
  BY <1>7, <1>8

\* resize() to less than size(): the difference wraps around in size_t, comes back
\* when writePos_ is added to it, and no memory is asked for.
LEMMA TruncateIs ==
  ASSUME NEW b \in Buffers, NEW n \in Nat, n < Size(b), b.wp < SizeMod
  PROVE  LET c == ResizeBuffer(b, n) IN
           /\ c \in Buffers /\ Size(c) = n /\ c.wp <= b.wp /\ c.len = b.len
           /\ Capacity(c) = Capacity(b)
           /\ \A i \in 1..n : Bytes(c)[i] = Bytes(b)[i]
<1>1. Size(b) \in Nat /\ Size(b) <= b.wp /\ b.wp \in Nat /\ b.rp \in Nat
      /\ b.wp = b.rp + Size(b) /\ b.wp <= Capacity(b) /\ Capacity(b) \in Nat
  BY DEF Buffers, Size, Capacity
<1>2. SizeMod \in Nat
  BY SizesAssumption
<1> DEFINE k == (n - Size(b)) % SizeMod
<1>3. k = n - Size(b) + SizeMod
  BY <1>1, <1>2, ModNegative
<1> HIDE DEF k
<1>4. (b.wp + k) % SizeMod = b.rp + n
  <2>1. b.wp + k = (b.rp + n) + SizeMod /\ b.rp + n \in Nat /\ b.rp + n < SizeMod
    BY <1>1, <1>2, <1>3
  <2> QED
    BY <1>2, <2>1, ModOnce
<1>5. EnsureCapacity(b, k) = b
  BY <1>1, <1>4 DEF EnsureCapacity
<1> DEFINE c == MoveWrite(b, b.rp + n)
<1>6. ResizeBuffer(b, n) = c
  BY <1>5, Zenon DEF ResizeBuffer, MoveWrite, k
<1>7. /\ c \in Buffers /\ c.mem = b.mem /\ c.len = b.len /\ c.rp = b.rp
      /\ c.wp = b.rp + n /\ Size(c) = n /\ Capacity(c) = Capacity(b)
  BY <1>1, WriteMoved
<1> HIDE DEF c
<1>8. \A i \in 1..n : Bytes(c)[i] = Bytes(b)[i]
  BY <1>1, <1>7, BytesAre
<1> QED
  BY <1>1, <1>6, <1>7, <1>8

\* resize() to more keeps the content under the conditions of ensureCapacity.
LEMMA GrowIs ==
  ASSUME NEW b \in Buffers, NEW n \in Nat, n >= Size(b), b.wp + n - Size(b) < SizeMod
  PROVE  LET c == ResizeBuffer(b, n) IN
           /\ c \in Buffers /\ Size(c) = n /\ c.len = b.len
           /\ Capacity(c) <= Most(Capacity(b), 2 * n)
           /\ b.wp <= b.len \/ Size(b) = 0 \/ Capacity(c) = Capacity(b) =>
                \A i \in 1..Size(b) : Bytes(c)[i] = Bytes(b)[i]
<1>1. Size(b) \in Nat /\ b.wp \in Nat /\ Size(b) <= b.wp
  BY DEF Buffers, Size
<1>2. (n - Size(b)) % SizeMod = n - Size(b)
  <2>1. SizeMod \in Nat
    BY SizesAssumption
  <2>2. n - Size(b) \in Nat /\ n - Size(b) < SizeMod
    BY <1>1, <2>1
  <2> QED
    BY <2>1, <2>2, ModSmall
<1> DEFINE a == EnsureCapacity(b, n - Size(b))
<1>3. /\ a \in Buffers /\ Size(a) = Size(b) /\ a.len = b.len
      /\ a.wp + (n - Size(b)) <= Capacity(a)
      /\ Capacity(a) <= Most(Capacity(b), 2 * (Size(b) + (n - Size(b))))
      /\ b.wp <= b.len \/ Size(b) = 0 \/ Capacity(a) = Capacity(b) =>
                Bytes(a) = Bytes(b)
  BY <1>1, EnsureCapacityIs
<1> DEFINE c == MoveWrite(a, a.rp + n)
<1>4. ResizeBuffer(b, n) = c
  BY <1>2, Zenon DEF ResizeBuffer, MoveWrite
<1> HIDE DEF a
<1>5. a.rp \in Nat /\ a.rp + n <= Capacity(a) /\ a.wp = a.rp + Size(b)
  <2>1. a.rp \in Nat /\ a.wp \in Nat /\ Size(a) = a.wp - a.rp /\ Capacity(a) \in Nat
    BY <1>3 DEF Buffers, Size, Capacity
  <2> QED
    BY <1>1, <1>3, <2>1
<1>6. /\ c \in Buffers /\ c.mem = a.mem /\ c.len = a.len /\ c.rp = a.rp
      /\ Size(c) = n /\ Capacity(c) = Capacity(a)
  BY <1>3, <1>5, WriteMoved
<1> HIDE DEF c
<1>7. \A i \in 1..Size(b) : Bytes(c)[i] = Bytes(a)[i]
  <2>1. \A i \in 1..Size(b) : i \in 1..Size(c) /\ i \in 1..Size(a)
    BY <1>1, <1>3, <1>6
  <2>2. \A i \in 1..Size(c) : Bytes(c)[i] = a.mem[a.rp + i]
    BY <1>6, BytesAre
  <2>3. \A i \in 1..Size(a) : Bytes(a)[i] = a.mem[a.rp + i]
    BY <1>3, BytesAre
  <2> QED
    BY <2>1, <2>2, <2>3
<1>8. 2 * (Size(b) + (n - Size(b))) = 2 * n
  BY <1>1
<1> QED
  BY <1>3, <1>4, <1>6, <1>7, <1>8

\* append() puts s behind the content, within the elements of the vector.
LEMMA AppendIs ==
  ASSUME NEW b \in Buffers, NEW s \in Seq(Cells), b.wp + Len(s) < SizeMod
  PROVE  LET c == AppendBytes(b, s) IN
           /\ c \in Buffers /\ Size(c) = Size(b) + Len(s) /\ c.wp <= c.len
           /\ Capacity(c) <= Most(Capacity(b), 2 * (Size(b) + Len(s)))
           /\ b.wp <= b.len \/ Size(b) = 0 => Bytes(c) = Bytes(b) \o s
<1> DEFINE n == Len(s)
           a == EnsureCapacity(b, n)
<1>1. n \in Nat /\ Size(b) \in Nat
  BY DEF Buffers, Size
<1>2. /\ a \in Buffers /\ Size(a) = Size(b) /\ a.len = b.len /\ a.wp <= b.wp
      /\ a.wp + n <= Capacity(a)
      /\ Capacity(a) <= Most(Capacity(b), 2 * (Size(b) + n))
      /\ b.wp <= b.len \/ Size(b) = 0 => Bytes(a) = Bytes(b)
  BY <1>1, EnsureCapacityIs
<1> DEFINE d == IF a.wp + n > a.len THEN VectorResize(a, a.wp + n) ELSE a
           e == Store(d, d.wp, s)
           c == MoveWrite(e, d.wp + n)
<1>3. AppendBytes(b, s) = c
  BY Zenon DEF AppendBytes, MoveWrite
<1> HIDE DEF a, n
<1>4. a.wp \in Nat /\ a.rp \in Nat /\ a.len \in Nat /\ a.wp = a.rp + Size(b)
      /\ Capacity(a) \in Nat
  BY <1>2 DEF Buffers, Size, Capacity
<1>5. /\ d \in Buffers /\ Capacity(d) = Capacity(a) /\ d.rp = a.rp /\ d.wp = a.wp
      /\ d.len = Most(a.wp + n, a.len)
      /\ \A i \in 1..Capacity(a) : i <= a.len => d.mem[i] = a.mem[i]
  <2>1. CASE a.wp + n > a.len
    <3>1. a.wp + n \in Nat /\ a.wp + n = Most(a.wp + n, a.len)
      BY <1>1, <1>4, <2>1 DEF Most
    <3> HIDE DEF d
    <3>2. d = VectorResize(a, a.wp + n)
      BY <2>1 DEF d
    <3> QED
      BY SMTT(30), <1>2, <1>4, <3>1, <3>2, VectorResizeIs
  <2>2. CASE ~(a.wp + n > a.len)
    BY <1>1, <1>2, <1>4, <2>2 DEF Most
  <2> QED
    BY <2>1, <2>2
<1> HIDE DEF d
<1>6. /\ e \in Buffers /\ Capacity(e) = Capacity(a)
      /\ e.rp = a.rp /\ e.wp = a.wp /\ e.len = d.len
      /\ \A i \in 1..Capacity(a) :
           e.mem[i] = IF a.wp < i /\ i <= a.wp + n THEN s[i - a.wp] ELSE d.mem[i]
  BY SMTT(40), <1>1, <1>2, <1>4, <1>5, StoreIs DEF n
<1> HIDE DEF e
<1>7. /\ c \in Buffers /\ c.mem = e.mem /\ c.len = d.len /\ c.rp = a.rp
      /\ c.wp = a.wp + n /\ Size(c) = Size(b) + n /\ Capacity(c) = Capacity(a)
  <2>1. a.wp + n \in Nat /\ e.rp <= a.wp + n /\ a.wp + n <= Capacity(e)
        /\ (a.wp + n) - e.rp = Size(b) + n
    <3>1. e.rp = a.rp /\ Capacity(e) = Capacity(a)
      BY <1>6
    <3> QED
      BY SMTT(40), <1>1, <1>2, <1>4, <3>1
  <2>2. c = MoveWrite(e, a.wp + n)
    BY <1>5
  <2> HIDE DEF c
  <2> QED
    BY <1>5, <1>6, <2>1, <2>2, WriteMoved
<1> HIDE DEF c
<1>8. c.wp <= c.len
  BY <1>1, <1>4, <1>5, <1>7 DEF Most
<1>9. ASSUME b.wp <= b.len \/ Size(b) = 0 PROVE Bytes(c) = Bytes(b) \o s
  <2>1. Bytes(b) \in Seq(Cells) /\ Len(Bytes(b)) = Size(b) /\ Bytes(a) = Bytes(b)
    BY <1>2, <1>9, BytesAre
  <2>2. /\ Bytes(b) \o s \in Seq(Cells) /\ Len(Bytes(b) \o s) = Size(b) + n
        /\ \A i \in 1..(Size(b) + n) :
             (Bytes(b) \o s)[i] = IF i <= Size(b) THEN Bytes(b)[i] ELSE s[i - Size(b)]
    BY <2>1, ConcatProperties DEF n
  <2>3. /\ Bytes(c) \in Seq(Cells) /\ Len(Bytes(c)) = Size(b) + n
        /\ \A i \in 1..(Size(b) + n) : Bytes(c)[i] = e.mem[a.rp + i]
    BY <1>7, BytesAre
  <2>4. \A i \in 1..Size(b) : Bytes(b)[i] = a.mem[a.rp + i]
    BY <1>2, <2>1, BytesAre
  <2>5. ASSUME NEW i \in 1..(Size(b) + n) PROVE Bytes(c)[i] = (Bytes(b) \o s)[i]
    <3>1. a.rp + i \in 1..Capacity(a)
      BY SMTT(40), <1>1, <1>2, <1>4
    <3>2. CASE i <= Size(b)
      <4>1. a.rp + i <= a.len
        <5>1. /\ Size(b) # 0 /\ a.wp <= b.wp /\ a.len = b.len
              /\ b.wp \in Nat /\ b.len \in Nat
          BY <1>1, <1>2, <3>2 DEF Buffers
        <5> QED
          BY <1>1, <1>4, <1>9, <3>2, <5>1
      <4>2. e.mem[a.rp + i] = a.mem[a.rp + i]
        BY <1>1, <1>4, <1>5, <1>6, <3>1, <3>2, <4>1
      <4> QED
        BY <1>1, <2>2, <2>3, <2>4, <3>2, <4>2
    <3>3. CASE ~(i <= Size(b))
      <4>1. e.mem[a.rp + i] = s[i - Size(b)]
        <5>1. a.wp < a.rp + i /\ a.rp + i <= a.wp + n /\ (a.rp + i) - a.wp = i - Size(b)
          BY <1>1, <1>4, <3>3
        <5> QED
          BY <1>6, <3>1, <5>1
      <4> QED
        BY <1>1, <2>2, <2>3, <3>3, <4>1
    <3> QED
      BY <3>2, <3>3, Zenon
  <2> QED
    BY <2>2, <2>3, <2>5, SeqEqual
<1> QED
  BY <1>2, <1>3, <1>7, <1>8, <1>9 DEF n

\* consume(n) drops the first n bytes, and everything when there are no more.
LEMMA ConsumeIs ==
  ASSUME NEW b \in Buffers, NEW n \in Nat
  PROVE  LET c == ConsumeBytes(b, n) IN
           /\ c \in Buffers /\ c.wp <= b.wp /\ c.len = b.len
           /\ Capacity(c) = Capacity(b)
           /\ Size(c) = IF n >= Size(b) THEN 0 ELSE Size(b) - n
           /\ \A i \in 1..Size(c) : Bytes(c)[i] = Bytes(b)[n + i]
<1>1. /\ Size(b) \in Nat /\ b.wp \in Nat /\ b.rp \in Nat /\ b.wp = b.rp + Size(b)
      /\ Capacity(b) \in Nat /\ b.wp <= Capacity(b)
  BY DEF Buffers, Size, Capacity
<1>2. CASE n >= Size(b)
  <2> DEFINE c == [b EXCEPT !.rp = 0, !.wp = 0]
  <2>1. /\ c \in [mem : Seq(Cells), len : Nat, rp : Nat, wp : Nat]
        /\ c.rp = 0 /\ c.wp = 0 /\ c.mem = b.mem /\ c.len = b.len
    BY MovedIs DEF Buffers
  <2>2. ConsumeBytes(b, n) = c
    BY <1>2 DEF ConsumeBytes
  <2> HIDE DEF c
  <2>3. c \in Buffers /\ Size(c) = 0 /\ Capacity(c) = Capacity(b)
    BY <1>1, <2>1 DEF Buffers, Size, Capacity
  <2> QED
    BY <1>1, <1>2, <2>1, <2>2, <2>3
<1>3. CASE n < Size(b)
  <2> DEFINE a == [b EXCEPT !.rp = b.rp + n]
  <2>1. /\ a \in Buffers /\ a.mem = b.mem /\ a.len = b.len /\ a.rp = b.rp + n
        /\ a.wp = b.wp /\ Size(a) = Size(b) - n /\ Capacity(a) = Capacity(b)
    BY SMTT(40), <1>1, <1>3 DEF Buffers, Size, Capacity
  <2>2. ConsumeBytes(b, n) = IF a.rp > a.len \div 2 THEN Compact(a) ELSE a
    BY <1>1, <1>3 DEF ConsumeBytes
  <2> HIDE DEF a
  <2>3. \A i \in 1..Size(a) : Bytes(a)[i] = Bytes(b)[n + i]
    <3>1. \A i \in 1..Size(a) : Bytes(a)[i] = b.mem[b.rp + n + i]
      BY <2>1, BytesAre
    <3>2. \A i \in 1..Size(a) : n + i \in 1..Size(b) /\ b.rp + n + i = b.rp + (n + i)
      BY <1>1, <1>3, <2>1
    <3>3. \A i \in 1..Size(b) : Bytes(b)[i] = b.mem[b.rp + i]
      BY BytesAre
    <3> QED
      BY <3>1, <3>2, <3>3
  <2> DEFINE c == ConsumeBytes(b, n)
  <2>4. /\ c \in Buffers /\ c.wp <= a.wp /\ c.len = a.len
        /\ Capacity(c) = Capacity(a) /\ Size(c) = Size(a) /\ Bytes(c) = Bytes(a)
    <3>1. CASE a.rp > a.len \div 2
      <4>1. Size(a) <= a.wp
        BY <1>1, <1>3, <2>1
      <4> QED
        BY <2>1, <2>2, <3>1, <4>1, CompactIs
    <3>2. CASE ~(a.rp > a.len \div 2)
      BY <1>1, <2>1, <2>2, <3>2
    <3> QED
      BY <3>1, <3>2
  <2> HIDE DEF c
  <2> QED
    BY <1>1, <1>3, <2>1, <2>3, <2>4 DEF c
<1> QED
  BY <1>1, <1>2, <1>3

-----------------------------------------------------------------------------
(* The steps *)

\* The numbers of a state never reach the modulus of size_t.
LEMMA Facts ==
  ASSUME IInv
  PROVE  /\ buf \in Buffers /\ Size(buf) \in Nat /\ puts \in Nat
         /\ Size(buf) <= puts /\ puts <= MaxBytes /\ Len(content) = Size(buf)
         /\ buf.wp \in Nat /\ buf.len \in Nat /\ buf.rp \in Nat
         /\ buf.wp = buf.rp + Size(buf)
         /\ Capacity(buf) \in Nat /\ buf.wp <= Capacity(buf) /\ Capacity(buf) <= MaxRoom
         /\ content \in Seq(Cells) /\ MaxRoom \in Nat /\ SizeMod \in Nat
         /\ MaxRoom + MaxBytes < SizeMod
         /\ MaxBytes \in Nat /\ MaxCapacity \in Nat /\ MaxLength \in Nat
         /\ MaxCapacity <= MaxRoom /\ 2 * MaxBytes <= MaxRoom
         /\ ~inPlace => buf.wp <= buf.len
         /\ ~spoilt => Bytes(buf) = content
         /\ inPlace \in BOOLEAN /\ spoilt \in BOOLEAN
<1>1. /\ MaxBytes \in Nat /\ MaxCapacity \in Nat /\ MaxLength \in Nat /\ Initial \in Nat
      /\ SizeMod \in Nat
      /\ SizeMod > 4 * (Initial + MaxLength + MaxBytes + MaxCapacity + 1)
  BY SizesAssumption
<1>2. buf \in Buffers /\ Size(buf) <= puts /\ Capacity(buf) <= MaxRoom
      /\ Len(content) = Size(buf)
  BY DEF IInv, SizeInv
<1>3. /\ Size(buf) \in Nat /\ buf.wp \in Nat /\ buf.len \in Nat /\ buf.rp \in Nat
      /\ buf.wp = buf.rp + Size(buf) /\ Capacity(buf) \in Nat /\ buf.wp <= Capacity(buf)
  BY <1>2 DEF Buffers, Size, Capacity
<1>4. puts \in 0..MaxBytes /\ content \in Seq(Cells) /\ (~inPlace => buf.wp <= buf.len)
  BY DEF IInv, TypeOK
<1>5. MaxRoom \in Nat /\ MaxRoom + MaxBytes < SizeMod /\ MaxCapacity <= MaxRoom
      /\ 2 * MaxBytes <= MaxRoom
  BY <1>1 DEF MaxRoom
<1>6. inPlace \in BOOLEAN /\ spoilt \in BOOLEAN
  BY Zenon DEF IInv, TypeOK
<1>7. ~spoilt => Bytes(buf) = content
  BY DEF IInv, ByteQueue
<1> QED
  BY <1>1, <1>2, <1>3, <1>4, <1>5, <1>6, <1>7

\* The numbers alone.
LEMMA Numbers ==
  ASSUME IInv
  PROVE  /\ Size(buf) \in Nat /\ puts \in Nat /\ buf.wp \in Nat /\ buf.rp \in Nat
         /\ Capacity(buf) \in Nat /\ Size(buf) <= puts /\ puts <= MaxBytes
         /\ Len(content) = Size(buf) /\ buf.wp = buf.rp + Size(buf)
         /\ buf.wp <= Capacity(buf) /\ Capacity(buf) <= MaxRoom
         /\ MaxRoom \in Nat /\ SizeMod \in Nat /\ MaxRoom + MaxBytes < SizeMod
         /\ MaxBytes \in Nat /\ MaxCapacity \in Nat /\ MaxLength \in Nat
         /\ MaxCapacity <= MaxRoom /\ 2 * MaxBytes <= MaxRoom
BY Facts

\* What a step has to establish.
Good(b, p, s, in, sp) ==
  /\ b \in Buffers /\ (~in => b.wp <= b.len) /\ Capacity(b) <= MaxRoom
  /\ p \in 0..MaxBytes /\ s \in Seq(Cells)
  /\ Len(s) = Size(b) /\ Size(b) <= p
  /\ in \in BOOLEAN /\ sp \in BOOLEAN
  /\ ~sp => \A i \in 1..Size(b) : Bytes(b)[i] = s[i]

\* What the step lemmas establish is the invariant.
LEMMA GoodIs == Good(buf, puts, content, inPlace, spoilt) => IInv
<1> SUFFICES ASSUME Good(buf, puts, content, inPlace, spoilt) PROVE IInv
  OBVIOUS
<1>1. TypeOK
  <2>1. inPlace \in BOOLEAN /\ spoilt \in BOOLEAN
    BY Zenon DEF Good
  <2> QED
    BY <2>1 DEF Good, TypeOK, Buffers
<1>2. SizeInv
  BY DEF Good, SizeInv
<1>3. ByteQueue
  <2>1. Bytes(buf) \in Seq(Cells) /\ Len(Bytes(buf)) = Size(buf)
    BY BytesAre DEF Good
  <2> SUFFICES ASSUME ~spoilt PROVE Bytes(buf) = content
    BY DEF ByteQueue
  <2> QED
    BY <2>1, SeqEqual DEF Good
<1> QED
  BY <1>1, <1>2, <1>3 DEF IInv

\* resize() within the allocation moves writePos_ and nothing else.
LEMMA ResizeInPlace ==
  ASSUME NEW b \in Buffers, NEW n \in Nat, n >= Size(b),
         b.wp + (n - Size(b)) <= Capacity(b), Capacity(b) < SizeMod
  PROVE  ResizeBuffer(b, n) = MoveWrite(b, b.rp + n)
<1>1. Size(b) \in Nat /\ b.wp \in Nat /\ Capacity(b) \in Nat /\ SizeMod \in Nat
  BY SMTT(40), SizesAssumption DEF Buffers, Size, Capacity
<1>2. (n - Size(b)) % SizeMod = n - Size(b)
  <2>1. n - Size(b) \in Nat /\ n - Size(b) < SizeMod
    BY <1>1
  <2> QED
    BY <1>1, <2>1, ModSmall
<1>3. (b.wp + (n - Size(b))) % SizeMod = b.wp + (n - Size(b))
  <2>1. b.wp + (n - Size(b)) \in Nat /\ b.wp + (n - Size(b)) < SizeMod
    BY <1>1
  <2> QED
    BY <1>1, <2>1, ModSmall
<1>4. EnsureCapacity(b, n - Size(b)) = b
  BY <1>3 DEF EnsureCapacity
<1> QED
  BY <1>2, <1>4, Zenon DEF ResizeBuffer, MoveWrite

\* Fresh bytes are a sequence.
LEMMA NewBytesAre ==
  ASSUME puts \in Nat, NEW n \in Nat
  PROVE  NewBytes(n) \in Seq(Cells) /\ Len(NewBytes(n)) = n
<1>1. \A i \in 1..n : puts + i \in Cells
  BY DEF Cells
<1> QED
  BY <1>1, FromTo DEF NewBytes

\* Appending to the history of the content.
LEMMA ContentGrows ==
  ASSUME NEW s \in Seq(Cells), NEW t \in Seq(Cells)
  PROVE  /\ s \o t \in Seq(Cells) /\ Len(s \o t) = Len(s) + Len(t)
         /\ \A i \in 1..Len(s) + Len(t) :
              (s \o t)[i] = IF i <= Len(s) THEN s[i] ELSE t[i - Len(s)]
BY ConcatProperties

\* append() keeps the memory, the positions and the content.
LEMMA AppendStep ==
  ASSUME IInv, NEW n \in 0..MaxLength, Append_(n)
  PROVE  Good(buf, puts, content, inPlace, spoilt)'
<1> DEFINE s == NewBytes(n)
<1>1. /\ puts + n <= MaxBytes /\ buf' = AppendBytes(buf, s) /\ puts' = puts + n
      /\ content' = content \o s /\ inPlace' = inPlace
  BY DEF Append_
<1>2. spoilt' \in BOOLEAN /\ (~spoilt' => ~spoilt /\ ~AtRisk(buf))
  BY Zenon DEF Append_
<1>3. s \in Seq(Cells) /\ Len(s) = n /\ n \in Nat
  BY Facts, NewBytesAre
<1> HIDE DEF s
<1>4. /\ buf' \in Buffers /\ Size(buf)' = Size(buf) + n /\ buf'.wp <= buf'.len
      /\ Capacity(buf)' <= Most(Capacity(buf), 2 * (Size(buf) + n))
      /\ buf.wp <= buf.len \/ Size(buf) = 0 => Bytes(buf)' = Bytes(buf) \o s
  <2>1. buf.wp + Len(s) < SizeMod
    BY SMTT(40), <1>1, <1>3, Facts
  <2> QED
    BY <1>1, <1>3, <2>1, Facts, AppendIs
<1>5. content' \in Seq(Cells) /\ Len(content') = Size(buf)'
  BY <1>1, <1>3, <1>4, Facts, ContentGrows
<1>6. ~spoilt' => Bytes(buf)' = content'
  <2> SUFFICES ASSUME ~spoilt' PROVE Bytes(buf)' = content'
    OBVIOUS
  <2>1. buf.wp <= buf.len \/ Size(buf) = 0
    BY <1>2, Facts, SMTT(60) DEF AtRisk
  <2>2. Bytes(buf) = content
    BY <1>2, Facts
  <2> QED
    BY <1>1, <1>4, <2>1, <2>2
<1>7. puts' \in 0..MaxBytes /\ Size(buf)' <= puts' /\ Capacity(buf)' <= MaxRoom
  <2>1. Capacity(buf)' \in Nat
    BY <1>4 DEF Buffers, Capacity
  <2>2. puts + n <= MaxBytes /\ puts' = puts + n /\ Size(buf)' = Size(buf) + n
        /\ Capacity(buf)' <= Most(Capacity(buf), 2 * (Size(buf) + n))
    BY <1>1, <1>4
  <2> QED
    BY <1>3, <2>1, <2>2, Numbers, SMTT(60) DEF Most
<1>8. inPlace' \in BOOLEAN
  BY <1>1, Facts
<1> QED
  BY <1>2, <1>4, <1>5, <1>6, <1>7, <1>8 DEF Good

\* consume() takes a prefix of the content, or resets an empty buffer.
LEMMA ConsumeStep ==
  ASSUME IInv, NEW n \in 0..MaxLength, Consume(n)
  PROVE  Good(buf, puts, content, inPlace, spoilt)'
<1>1. /\ buf' = ConsumeBytes(buf, n) /\ content' = SubSeq(content, n + 1, Len(content))
      /\ puts' = puts
  BY DEF Consume
<1>2. /\ inPlace' \in BOOLEAN /\ spoilt' \in BOOLEAN
      /\ n < Size(buf) => inPlace' = inPlace /\ spoilt' = spoilt
  BY Facts, Zenon DEF Consume
<1>3. n \in Nat
  BY Facts
<1>4. /\ buf' \in Buffers /\ buf'.wp <= buf.wp /\ buf'.len = buf.len
      /\ Capacity(buf)' = Capacity(buf)
      /\ Size(buf)' = IF n >= Size(buf) THEN 0 ELSE Size(buf) - n
      /\ \A i \in 1..Size(buf)' : Bytes(buf)'[i] = Bytes(buf)[n + i]
  BY ZenonT(40), <1>1, <1>3, Facts, ConsumeIs
<1>5. /\ content' \in Seq(Cells) /\ Len(content') = Size(buf)'
      /\ \A i \in 1..Size(buf)' : content'[i] = content[n + i]
  <2>1. \A i \in n + 1 .. Len(content) : content[i] \in Cells
    BY <1>3, Facts
  <2>2. n + 1 \in Int /\ Len(content) \in Int
    BY <1>3, Facts
  <2>3. /\ content' \in Seq(Cells)
        /\ Len(content') =
             IF n + 1 <= Len(content) THEN Len(content) - (n + 1) + 1 ELSE 0
        /\ \A i \in 1..Len(content) - (n + 1) + 1 : content'[i] = content[n + 1 + i - 1]
    BY <1>1, <2>1, <2>2, SubSeqProperties
  <2>4. Len(content') = Size(buf)'
    <3>1. Size(buf)' = IF n >= Size(buf) THEN 0 ELSE Size(buf) - n
      BY <1>4
    <3>2. Len(content') =
             IF n + 1 <= Len(content) THEN Len(content) - (n + 1) + 1 ELSE 0
      BY <2>3
    <3> QED
      BY SMTT(40), <1>3, <3>1, <3>2, Numbers
  <2>5. ASSUME NEW i \in 1..Size(buf)' PROVE content'[i] = content[n + i]
    <3>1. i \in 1..Len(content) - (n + 1) + 1 /\ n + 1 + i - 1 = n + i
      BY <1>3, <1>4, Facts
    <3> QED
      BY <2>3, <3>1
  <2> QED
    BY <2>3, <2>4, <2>5
<1>6. buf'.wp \in Nat /\ (~inPlace' => buf'.wp <= buf'.len)
  <2>1. buf'.wp \in Nat /\ buf'.rp \in Nat /\ Size(buf)' = buf'.wp - buf'.rp
    BY <1>4 DEF Buffers, Size
  <2>2. CASE n < Size(buf)
    BY <1>2, <1>4, <2>1, <2>2, Facts, SMTT(30)
  <2>3. CASE ~(n < Size(buf))
    <3>1. buf' = [buf EXCEPT !.rp = 0, !.wp = 0]
      BY <1>1, <1>3, <2>3, Facts DEF ConsumeBytes
    <3>2. [buf EXCEPT !.rp = 0, !.wp = 0].wp = 0
      BY Facts, MovedIs DEF Buffers
    <3> QED
      BY <1>4, <3>1, <3>2, Facts
  <2> QED
    BY <2>1, <2>2, <2>3
<1>7. ~spoilt' => \A i \in 1..Size(buf)' : Bytes(buf)'[i] = content'[i]
  <2>1. CASE n < Size(buf)
    BY <1>2, <1>4, <1>5, <2>1, Facts
  <2>2. CASE ~(n < Size(buf))
    BY <1>3, <1>4, <2>2, Facts
  <2> QED
    BY <2>1, <2>2
<1>8. puts' \in 0..MaxBytes /\ Size(buf)' <= puts' /\ Capacity(buf)' <= MaxRoom
  BY <1>1, <1>3, <1>4, Facts
<1> QED
  BY <1>2, <1>4, <1>5, <1>6, <1>7, <1>8 DEF Good

\* reserve() moves the content and changes nothing in it.
LEMMA ReserveStep ==
  ASSUME IInv, NEW n \in 0..MaxCapacity, Reserve(n)
  PROVE  Good(buf, puts, content, inPlace, spoilt)'
<1>1. buf' = ReserveBuffer(buf, n) /\ UNCHANGED <<puts, content, inPlace>>
  BY DEF Reserve
<1>2. /\ spoilt' \in BOOLEAN
      /\ ~spoilt' => ~spoilt /\ ~(AtRisk(buf) /\ n > Capacity(buf))
  BY Zenon DEF Reserve
<1>3. n \in Nat /\ n <= MaxCapacity
  BY Facts
<1>4. /\ buf' \in Buffers /\ Size(buf)' = Size(buf) /\ buf'.wp <= buf.wp
      /\ buf'.len = buf.len /\ Capacity(buf)' = Most(n, Capacity(buf))
      /\ buf.wp <= buf.len \/ Size(buf) = 0 \/ n <= Capacity(buf) =>
           Bytes(buf)' = Bytes(buf)
  BY <1>1, <1>3, Facts, ReserveIs
<1>5. ~spoilt' => Bytes(buf)' = content'
  <2> SUFFICES ASSUME ~spoilt' PROVE Bytes(buf)' = content'
    OBVIOUS
  <2>1. buf.wp <= buf.len \/ Size(buf) = 0 \/ n <= Capacity(buf)
    BY <1>2, <1>3, Facts, SMTT(30) DEF AtRisk
  <2>2. Bytes(buf) = content
    BY <1>2, Facts
  <2> QED
    BY <1>1, <1>4, <2>1, <2>2
<1>6. Capacity(buf)' <= MaxRoom
  BY <1>3, <1>4, Facts DEF Most
<1>7. ~inPlace' => buf'.wp <= buf'.len
  <2>1. buf'.wp \in Nat /\ buf'.wp <= buf.wp /\ buf'.len = buf.len
    BY <1>4 DEF Buffers
  <2>2. (~inPlace => buf.wp <= buf.len) /\ buf.len \in Nat /\ buf.wp \in Nat
    BY Facts
  <2>3. inPlace' = inPlace
    BY <1>1
  <2> QED
    BY <2>1, <2>2, <2>3
<1>8. puts' \in 0..MaxBytes /\ inPlace' \in BOOLEAN
  BY <1>1, Facts
<1> QED
  BY <1>1, <1>2, <1>4, <1>5, <1>6, <1>7, <1>8, Facts DEF Good

\* resize() to less cuts the content.
LEMMA TruncateStep ==
  ASSUME IInv, NEW n \in 0..MaxCapacity, Truncate(n)
  PROVE  Good(buf, puts, content, inPlace, spoilt)'
<1>1. /\ n < Size(buf) /\ buf' = ResizeBuffer(buf, n)
      /\ content' = SubSeq(content, 1, n)
      /\ UNCHANGED <<puts, inPlace, spoilt>>
  BY DEF Truncate
<1>2. n \in Nat
  BY Facts
<1>3. /\ buf' \in Buffers /\ Size(buf)' = n /\ buf'.wp <= buf.wp /\ buf'.len = buf.len
      /\ Capacity(buf)' = Capacity(buf)
      /\ \A i \in 1..n : Bytes(buf)'[i] = Bytes(buf)[i]
  <2>1. buf.wp < SizeMod
    BY Facts
  <2> QED
    BY <1>1, <1>2, <2>1, Facts, TruncateIs
<1>4. /\ content' \in Seq(Cells) /\ Len(content') = n
      /\ \A i \in 1..n : content'[i] = content[i]
  <2>1. \A i \in 1..n : content[i] \in Cells
    BY <1>1, <1>2, Facts
  <2>2. /\ content' \in Seq(Cells) /\ Len(content') = IF 1 <= n THEN n - 1 + 1 ELSE 0
        /\ \A i \in 1..n - 1 + 1 : content'[i] = content[1 + i - 1]
    BY <1>1, <1>2, <2>1, SubSeqProperties
  <2> QED
    BY <1>2, <2>2
<1>5. \A i \in 1..Size(buf)' : ~spoilt' => Bytes(buf)'[i] = content'[i]
  BY <1>1, <1>2, <1>3, <1>4, Facts
<1>6. ~inPlace' => buf'.wp <= buf'.len
  <2>1. buf'.wp \in Nat /\ buf'.wp <= buf.wp /\ buf'.len = buf.len
    BY <1>3 DEF Buffers
  <2>2. (~inPlace => buf.wp <= buf.len) /\ buf.len \in Nat /\ buf.wp \in Nat
    BY Facts
  <2>3. inPlace' = inPlace
    BY <1>1
  <2> QED
    BY <2>1, <2>2, <2>3
<1>7. puts' \in 0..MaxBytes /\ n <= puts' /\ Capacity(buf)' <= MaxRoom
  BY <1>1, <1>2, <1>3, Facts
<1>8. inPlace' \in BOOLEAN /\ spoilt' \in BOOLEAN
  BY <1>1, Facts
<1> QED
  BY <1>3, <1>4, <1>5, <1>6, <1>7, <1>8 DEF Good

\* resize() to more keeps the content as a prefix.
LEMMA GrowStep ==
  ASSUME IInv, NEW n \in 0..MaxCapacity, Grow(n)
  PROVE  Good(buf, puts, content, inPlace, spoilt)'
<1> DEFINE s == SubSeq(Bytes(buf'), Size(buf) + 1, n)
<1>1. /\ n > Size(buf) /\ puts + n - Size(buf) <= MaxBytes
      /\ buf' = ResizeBuffer(buf, n) /\ content' = content \o s
      /\ puts' = puts + n - Size(buf)
  BY DEF Grow
<1>0. n \in Nat /\ n > Size(buf) /\ puts + n - Size(buf) <= MaxBytes
  BY <1>1, Numbers
<1> HIDE DEF s
<1>2. /\ inPlace' \in BOOLEAN /\ spoilt' \in BOOLEAN
      /\ ~inPlace' => ~(buf'.wp > buf'.len)
      /\ ~spoilt' => ~spoilt /\ ~(AtRisk(buf) /\ Capacity(buf') # Capacity(buf))
  BY Zenon DEF Grow
<1>3. n \in Nat /\ n <= MaxCapacity
  BY Facts
<1>4. /\ buf' \in Buffers /\ Size(buf)' = n /\ buf'.len = buf.len
      /\ Capacity(buf)' <= Most(Capacity(buf), 2 * n)
      /\ buf.wp <= buf.len \/ Size(buf) = 0 \/ Capacity(buf)' = Capacity(buf) =>
           \A i \in 1..Size(buf) : Bytes(buf)'[i] = Bytes(buf)[i]
  <2>1. n >= Size(buf) /\ buf.wp + n - Size(buf) < SizeMod
    BY <1>0, Numbers, SMTT(60)
  <2> QED
    BY <1>1, <1>3, <2>1, Facts, GrowIs
<1>5. /\ s \in Seq(Cells) /\ Len(s) = n - Size(buf)
      /\ \A i \in 1..n - Size(buf) : s[i] = Bytes(buf)'[Size(buf) + i]
  <2>1. Bytes(buf)' \in Seq(Cells) /\ Len(Bytes(buf)') = n
    BY <1>4, BytesAre
  <2>2. \A i \in Size(buf) + 1 .. n : Bytes(buf)'[i] \in Cells
    BY <1>3, <2>1, Facts
  <2>3. Size(buf) + 1 \in Int /\ n \in Int /\ Size(buf) + 1 <= n
        /\ n - (Size(buf) + 1) + 1 = n - Size(buf)
    BY <1>0, Numbers, SMTT(60)
  <2>4. /\ s \in Seq(Cells)
        /\ Len(s) = IF Size(buf) + 1 <= n THEN n - (Size(buf) + 1) + 1 ELSE 0
        /\ \A i \in 1..n - (Size(buf) + 1) + 1 :
             s[i] = Bytes(buf)'[Size(buf) + 1 + i - 1]
    BY <2>2, <2>3, SubSeqProperties DEF s
  <2>5. \A i \in 1..n - Size(buf) : Size(buf) + 1 + i - 1 = Size(buf) + i
    BY Numbers
  <2> QED
    BY <2>3, <2>4, <2>5
<1>6. /\ content' \in Seq(Cells) /\ Len(content') = n
      /\ \A i \in 1..n : content'[i] = IF i <= Size(buf) THEN content[i]
                                       ELSE s[i - Size(buf)]
  <2>1. Size(buf) + (n - Size(buf)) = n /\ Len(content) = Size(buf)
    BY <1>0, Numbers, SMTT(60)
  <2>2. content \in Seq(Cells)
    BY Facts
  <2>3. /\ content \o s \in Seq(Cells) /\ Len(content \o s) = Len(content) + Len(s)
        /\ \A i \in 1..Len(content) + Len(s) :
             (content \o s)[i] = IF i <= Len(content) THEN content[i]
                                 ELSE s[i - Len(content)]
    BY <1>5, <2>2, ContentGrows
  <2> QED
    BY <1>1, <1>5, <2>1, <2>3
<1>7. ASSUME ~spoilt', NEW i \in 1..n PROVE Bytes(buf)'[i] = content'[i]
  <2>1. CASE i <= Size(buf)
    <3>1. i \in 1..Size(buf) /\ Bytes(buf) = content
      BY <1>2, <1>3, <1>7, <2>1, Facts
    <3>2. buf.wp <= buf.len \/ Size(buf) = 0 \/ Capacity(buf)' = Capacity(buf)
      BY <1>2, <1>7, Facts, SMTT(60) DEF AtRisk
    <3>3. Bytes(buf)'[i] = Bytes(buf)[i]
      BY <1>4, <3>1, <3>2
    <3> QED
      BY <1>6, <2>1, <3>1, <3>3
  <2>2. CASE ~(i <= Size(buf))
    <3>1. i - Size(buf) \in 1..n - Size(buf) /\ Size(buf) + (i - Size(buf)) = i
      BY <1>0, <2>2, Numbers, SMTT(60)
    <3>2. s[i - Size(buf)] = Bytes(buf)'[i]
      BY <1>5, <3>1
    <3> QED
      BY <1>6, <2>2, <3>2
  <2> QED
    BY <2>1, <2>2
<1>8. puts' \in 0..MaxBytes /\ n <= puts' /\ Capacity(buf)' <= MaxRoom
  <2>1. Capacity(buf)' \in Nat
    BY <1>4 DEF Buffers, Capacity
  <2>2. puts' = puts + n - Size(buf)
        /\ Capacity(buf)' <= Most(Capacity(buf), 2 * n)
    BY <1>1, <1>4
  <2>3. puts' \in 0..MaxBytes /\ n <= puts' /\ n <= MaxBytes
    BY <1>0, <2>2, Numbers, SMTT(60)
  <2> QED
    BY <1>0, <2>1, <2>2, <2>3, Numbers, SMTT(60) DEF Most
<1>9. ~inPlace' => buf'.wp <= buf'.len
  <2>1. buf'.wp \in Nat /\ buf'.len \in Nat
    BY <1>4 DEF Buffers
  <2> QED
    BY <1>2, <2>1
<1> QED
  BY <1>2, <1>4, <1>6, <1>7, <1>8, <1>9 DEF Good

\* Bytes received in place become content, or spoil the buffer.
LEMMA ReceiveStep ==
  ASSUME IInv, NEW n \in 0..MaxLength, Receive(n)
  PROVE  Good(buf, puts, content, inPlace, spoilt)'
<1> DEFINE s == NewBytes(n)
           a == Store(buf, buf.wp, s)
<1>1. /\ puts + n <= MaxBytes /\ buf.rp = 0 /\ n <= Capacity(buf) - Size(buf)
      /\ buf' = ResizeBuffer(a, Size(buf) + n) /\ puts' = puts + n
      /\ content' = content \o s /\ inPlace' = TRUE /\ spoilt' = spoilt
  BY DEF Receive
<1>0. n \in Nat /\ puts + n <= MaxBytes /\ buf.rp = 0 /\ n <= Capacity(buf) - Size(buf)
  BY Numbers DEF Receive
<1>2. s \in Seq(Cells) /\ Len(s) = n
  BY <1>0, Facts, NewBytesAre
<1> HIDE DEF s
<1>3. /\ a \in Buffers /\ Capacity(a) = Capacity(buf)
      /\ a.rp = 0 /\ a.wp = buf.wp /\ a.len = buf.len
      /\ \A i \in 1..Capacity(buf) :
           a.mem[i] = IF buf.wp < i /\ i <= buf.wp + n THEN s[i - buf.wp]
                      ELSE buf.mem[i]
  <2>1. buf.wp + Len(s) <= Capacity(buf)
    BY <1>0, <1>2, Numbers
  <2>2. buf \in Buffers /\ buf.wp \in Nat
    BY Facts
  <2> QED
    BY ZenonT(40), <1>0, <1>2, <2>1, <2>2, StoreIs
<1> HIDE DEF a
<1>4. Size(a) = Size(buf) /\ buf.wp = Size(buf)
  BY <1>1, <1>3, Facts DEF Size
<1>7. /\ buf' \in Buffers /\ buf'.mem = a.mem /\ buf'.rp = 0
      /\ Size(buf)' = Size(buf) + n /\ Capacity(buf)' = Capacity(buf)
  <2>1. buf' = MoveWrite(a, a.rp + (Size(buf) + n))
    <3>1. /\ Size(buf) + n \in Nat /\ Size(buf) + n >= Size(a)
          /\ a.wp + ((Size(buf) + n) - Size(a)) <= Capacity(a) /\ Capacity(a) < SizeMod
      <4>1. a.wp = buf.wp /\ Size(a) = Size(buf) /\ Capacity(a) = Capacity(buf)
        BY <1>3, <1>4
      <4> QED
        BY <1>0, <4>1, Numbers, SMTT(60)
    <3>2. ResizeBuffer(a, Size(buf) + n) = MoveWrite(a, a.rp + (Size(buf) + n))
      BY <1>3, <3>1, ResizeInPlace
    <3> QED
      BY <1>1, <3>2
  <2>2. /\ a.rp + (Size(buf) + n) = Size(buf) + n /\ Size(buf) + n \in Nat
        /\ a.rp <= Size(buf) + n /\ Size(buf) + n <= Capacity(a)
        /\ (Size(buf) + n) - a.rp = Size(buf) + n
    <3>1. a.rp = 0 /\ Capacity(a) = Capacity(buf)
      BY <1>3
    <3> QED
      BY <1>0, <3>1, Numbers
  <2> QED
    BY <1>3, <2>1, <2>2, WriteMoved
<1>8. /\ content' \in Seq(Cells) /\ Len(content') = Size(buf) + n
      /\ \A i \in 1..Size(buf) + n : content'[i] = IF i <= Size(buf) THEN content[i]
                                                   ELSE s[i - Size(buf)]
  <2>1. content \in Seq(Cells) /\ Len(content) = Size(buf)
    BY Facts
  <2>2. content' = content \o s
    BY <1>1
  <2>3. /\ content \o s \in Seq(Cells) /\ Len(content \o s) = Len(content) + Len(s)
        /\ \A i \in 1..Len(content) + Len(s) :
             (content \o s)[i] = IF i <= Len(content) THEN content[i]
                                 ELSE s[i - Len(content)]
    BY <1>2, <2>1, ContentGrows
  <2> QED
    BY <1>2, <2>1, <2>2, <2>3
<1>9. ASSUME ~spoilt', NEW i \in 1..Size(buf) + n PROVE Bytes(buf)'[i] = content'[i]
  <2>1. Bytes(buf)'[i] = a.mem[i]
    <3>1. Bytes(buf)'[i] = a.mem[0 + i]
      BY <1>7, BytesAre
    <3> QED
      BY <1>0, <3>1, Numbers
  <2>2. i \in 1..Capacity(buf) /\ i <= buf.wp + n
    BY <1>0, <1>4, Numbers
  <2>3. CASE i <= Size(buf)
    <3>0. ~(buf.wp < i) /\ i \in 1..Size(buf) /\ 0 + i = i
      BY <1>0, <1>4, <2>3, Numbers
    <3>1. a.mem[i] = buf.mem[i]
      BY <1>3, <2>2, <3>0
    <3>2. Bytes(buf)[i] = buf.mem[buf.rp + i]
      BY <3>0, Facts, BytesAre
    <3>3. Bytes(buf) = content
      BY <1>1, <1>9, Facts
    <3> QED
      BY <1>0, <1>8, <2>1, <2>3, <3>0, <3>1, <3>2, <3>3
  <2>4. CASE ~(i <= Size(buf))
    <3>0. buf.wp < i
      BY <1>0, <1>4, <2>4, Numbers
    <3>1. a.mem[i] = s[i - Size(buf)]
      BY <1>3, <1>4, <2>2, <3>0
    <3> QED
      BY <1>8, <2>1, <2>4, <3>1
  <2> QED
    BY <2>3, <2>4
<1>10. puts' \in 0..MaxBytes /\ Size(buf) + n <= puts'
  <2>1. puts' = puts + n
    BY <1>1
  <2> QED
    BY <1>0, <2>1, Numbers
<1>11. spoilt' \in BOOLEAN /\ inPlace' \in BOOLEAN
  BY <1>1, Facts
<1> QED
  BY <1>1, <1>7, <1>8, <1>9, <1>10, <1>11, Facts DEF Good

\* clear() empties the buffer.
LEMMA ClearStep ==
  ASSUME IInv, Clear
  PROVE  Good(buf, puts, content, inPlace, spoilt)'
<1>1. /\ buf' = [buf EXCEPT !.len = 0, !.rp = 0, !.wp = 0] /\ content' = <<>>
      /\ inPlace' = FALSE /\ spoilt' = FALSE /\ puts' = puts
  BY DEF Clear
<1>2. /\ buf' \in [mem : Seq(Cells), len : Nat, rp : Nat, wp : Nat]
      /\ buf'.len = 0 /\ buf'.rp = 0 /\ buf'.wp = 0 /\ buf'.mem = buf.mem
  BY <1>1, Facts, ClearedIs DEF Buffers
<1>3. buf' \in Buffers /\ Capacity(buf)' = Capacity(buf) /\ Size(buf)' = 0
  BY <1>2, Facts DEF Buffers, Capacity, Size
<1>4. content' \in Seq(Cells) /\ Len(content') = 0
  BY <1>1, EmptySeq
<1>5. puts' \in 0..MaxBytes /\ Capacity(buf)' <= MaxRoom
  BY <1>1, <1>3, Numbers
<1>6. \A i \in 1..Size(buf)' : Bytes(buf)'[i] = content'[i]
  BY <1>3
<1>7. buf'.wp <= buf'.len /\ inPlace' \in BOOLEAN /\ spoilt' \in BOOLEAN
      /\ Size(buf)' <= puts'
  <2>1. 0 <= 0 /\ 0 <= puts'
    BY <1>5
  <2> QED
    BY <1>1, <1>2, <1>3, <2>1
<1> QED
  BY <1>3, <1>4, <1>5, <1>6, <1>7 DEF Good

-----------------------------------------------------------------------------
\* A new buffer is empty.
LEMMA InitInductive == Init => IInv
<1> SUFFICES ASSUME Init PROVE Good(buf, puts, content, inPlace, spoilt)
  BY GoodIs
<1> DEFINE m == [i \in 1..Initial |-> Junk]
<1>1. /\ Initial \in Nat /\ MaxRoom \in Nat /\ Initial <= MaxRoom /\ MaxBytes \in Nat
  BY SizesAssumption DEF MaxRoom
<1>2. m \in Seq(Cells) /\ Len(m) = Initial
  BY <1>1, FromTo DEF Cells
<1> HIDE DEF m
<1>3. buf = [mem |-> m, len |-> 0, rp |-> 0, wp |-> 0]
  BY DEF Init, m
<1>4. /\ buf \in Buffers /\ Capacity(buf) = Initial /\ Size(buf) = 0
      /\ buf.wp = 0 /\ buf.len = 0
  BY <1>1, <1>2, <1>3 DEF Buffers, Capacity, Size
<1>5. content \in Seq(Cells) /\ Len(content) = 0
  BY EmptySeq DEF Init
<1>6. puts = 0 /\ inPlace = FALSE /\ spoilt = FALSE
  BY DEF Init
<1>7. \A i \in 1..Size(buf) : Bytes(buf)[i] = content[i]
  BY <1>4
<1>8. buf.wp <= buf.len /\ puts \in 0..MaxBytes /\ Size(buf) <= puts
      /\ Capacity(buf) <= MaxRoom
  BY <1>1, <1>4, <1>6
<1>9. inPlace \in BOOLEAN /\ spoilt \in BOOLEAN
  BY <1>6
<1> QED
  BY <1>4, <1>5, <1>7, <1>8, <1>9 DEF Good

\* Every operation keeps the invariant.
LEMMA NextInductive == IInv /\ [Next]_vars => IInv'
<1> SUFFICES ASSUME IInv, [Next]_vars PROVE IInv'
  OBVIOUS
<1>1. CASE Next
  <2>1. Good(buf, puts, content, inPlace, spoilt)'
    BY <1>1, AppendStep, ConsumeStep, ReceiveStep, ReserveStep, TruncateStep,
       GrowStep, ClearStep DEF Next
  <2> QED
    BY <2>1, GoodIs, PTL
<1>2. CASE UNCHANGED vars
  BY <1>2 DEF vars, IInv, TypeOK, SizeInv, ByteQueue
<1> QED
  BY <1>1, <1>2

\* The invariant holds in every behaviour.
LEMMA Invariant == Spec => []IInv
BY InitInductive, NextInductive, PTL DEF Spec

\* Every access of DynamicBuffer is inside the allocation, and inside the elements
\* of the vector unless bytes were received in place, whatever the sequence of calls
\* and although the difference in resize() wraps around in size_t.
THEOREM TypeCorrect == Spec => []TypeOK
<1>1. IInv => TypeOK
  BY DEF IInv
<1> QED
  BY <1>1, Invariant, PTL

\* The buffer returns what was put into it, in order and without loss, as long as no
\* bytes that were received in place were overwritten or left behind.
THEOREM QueueCorrect == Spec => []ByteQueue
<1>1. IInv => ByteQueue
  BY DEF IInv
<1> QED
  BY <1>1, Invariant, PTL

-----------------------------------------------------------------------------
(* Induction and recursive functions *)

\* Induction over the natural numbers, for the set of those that have a property.
LEMMA NatByStep ==
  ASSUME NEW S \in SUBSET Nat, 0 \in S, \A n \in S : n + 1 \in S
  PROVE  S = Nat
<1> DEFINE R == {ss \in Nat \X Nat : ss[1] < ss[2]}
<1>1. IsWellFoundedOn(R, Nat)
  BY NatLessThanWellFounded DEF OpToRel
<1>2. \A p, q \in Nat : p < q => <<p, q>> \in R
  OBVIOUS
<1> HIDE DEF R
<1>3. SUFFICES ASSUME Nat \ S # {} PROVE FALSE
  OBVIOUS
<1>4. PICK n \in Nat \ S : \A m \in Nat \ S : ~(<<m, n>> \in R)
  BY <1>1, <1>3, WFMin
<1>5. n # 0 /\ n - 1 \in Nat /\ n - 1 < n
  BY <1>4
<1>6. n - 1 \in S
  BY <1>2, <1>4, <1>5
<1> QED
  BY <1>4, <1>5, <1>6

\* Functions that are defined by recursion exist.
LEMMA Recursion ==
  ASSUME NEW N \in Nat, NEW D \in [Nat \X (1..N) -> Nat]
  PROVE  \E f \in [0..N -> Nat] :
           f[0] = 0 /\ \A n \in 1..N : f[n] = D[<<f[n - 1], n>>]
<1> DEFINE Upto(m, f) == f[0] = 0 /\ \A n \in 1..m : f[n] = D[<<f[n - 1], n>>]
           T == {m \in Nat : m <= N => \E f \in [0..m -> Nat] : Upto(m, f)}
<1>1. 0 \in T
  <2>1. [i \in 0..0 |-> 0] \in [0..0 -> Nat] /\ Upto(0, [i \in 0..0 |-> 0])
    OBVIOUS
  <2> QED
    BY <2>1
<1>2. ASSUME NEW m \in T PROVE m + 1 \in T
  <2>1. SUFFICES ASSUME m + 1 <= N
                 PROVE  \E f \in [0..(m + 1) -> Nat] : Upto(m + 1, f)
    <3>1. m + 1 \in Nat
      OBVIOUS
    <3> HIDE DEF Upto
    <3> QED
      BY <3>1
  <2>2. m \in Nat /\ m <= N
    BY <2>1
  <2>3. PICK f \in [0..m -> Nat] : Upto(m, f)
    BY <2>2
  <2> DEFINE g == [i \in 0..(m + 1) |-> IF i <= m THEN f[i] ELSE D[<<f[m], m + 1>>]]
  <2>4. f[m] \in Nat /\ m + 1 \in 1..N
    BY <2>1, <2>2
  <2>5. D[<<f[m], m + 1>>] \in Nat
    BY <2>4
  <2>6. g \in [0..(m + 1) -> Nat]
    BY <2>2, <2>5
  <2>7. (\A i \in 0..m : g[i] = f[i]) /\ g[m + 1] = D[<<f[m], m + 1>>]
    BY <2>2
  <2> HIDE DEF g
  <2>8. g[0] = 0
    BY <2>2, <2>3, <2>7
  <2>9. ASSUME NEW n \in 1..(m + 1) PROVE g[n] = D[<<g[n - 1], n>>]
    <3>1. CASE n = m + 1
      <4>1. n - 1 = m /\ m \in 0..m
        BY <2>2, <3>1
      <4> QED
        BY <2>7, <3>1, <4>1
    <3>2. CASE n \in 1..m
      <4>1. n \in 0..m /\ n - 1 \in 0..m
        BY <2>2, <3>2
      <4> QED
        BY <2>3, <2>7, <3>2, <4>1
    <3> QED
      BY <2>2, <3>1, <3>2
  <2> QED
    BY <2>6, <2>8, <2>9
<1>3. T = Nat
  <2> HIDE DEF T
  <2> QED
    BY <1>1, <1>2, NatByStep DEF T
<1>4. N \in T
  BY <1>3
<1> QED
  BY <1>4

-----------------------------------------------------------------------------
(* Powers of two, quotients and remainders *)

\* The subsets of 1..n+1 are those of 1..n, with and without n + 1.
LEMMA TwoToNext ==
  ASSUME NEW n \in Nat
  PROVE  2 ^ n \in Nat \ {0} /\ 2 ^ (n + 1) = 2 * 2 ^ n
<1> DEFINE A == SUBSET (1..n)
           B == {X \cup {n + 1} : X \in A}
           C == SUBSET (1..(n + 1))
<1>1. /\ IsFiniteSet(1..n) /\ Cardinality(1..n) = n
      /\ IsFiniteSet(1..(n + 1)) /\ Cardinality(1..(n + 1)) = n + 1
  BY FS_Interval
<1>2. /\ IsFiniteSet(A) /\ Cardinality(A) = 2 ^ n
      /\ IsFiniteSet(C) /\ Cardinality(C) = 2 ^ (n + 1)
  BY <1>1, FS_SUBSET
<1>3. n + 1 \notin 1..n /\ 1..(n + 1) = (1..n) \cup {n + 1}
  OBVIOUS
<1>4. C = A \cup B
  <2>1. ASSUME NEW X \in C PROVE X \in A \cup B
    <3>1. X \ {n + 1} \in A
      BY <1>3
    <3>2. CASE n + 1 \in X
      <4>1. X = (X \ {n + 1}) \cup {n + 1}
        BY <3>2
      <4> QED
        BY <3>1, <4>1
    <3>3. CASE n + 1 \notin X
      BY <3>1, <3>3
    <3> QED
      BY <3>2, <3>3
  <2>2. ASSUME NEW X \in A \cup B PROVE X \in C
    BY <1>3
  <2> QED
    BY <2>1, <2>2
<1>5. A \cap B = {}
  BY <1>3
<1>6. IsFiniteSet(B) /\ Cardinality(B) = Cardinality(A)
  <2> DEFINE f == [X \in A |-> X \cup {n + 1}]
  <2>1. f \in [A -> B]
    OBVIOUS
  <2>2. ASSUME NEW X \in A, NEW Y \in A, f[X] = f[Y] PROVE X = Y
    <3>1. X = (X \cup {n + 1}) \ {n + 1} /\ Y = (Y \cup {n + 1}) \ {n + 1}
      BY <1>3
    <3> QED
      BY <2>2, <3>1
  <2>3. \A Z \in B : \E X \in A : f[X] = Z
    OBVIOUS
  <2>4. f \in Bijection(A, B)
    BY <2>1, <2>2, <2>3 DEF Bijection, Injection, Surjection, IsInjective
  <2> QED
    BY <1>2, <2>4, FS_Bijection DEF ExistsBijection
<1>7. Cardinality(C) = Cardinality(A) + Cardinality(B) - Cardinality(A \cap B)
  BY <1>2, <1>4, <1>6, FS_Union
<1>8. Cardinality(A \cap B) = 0 /\ Cardinality(A) \in Nat
  BY <1>2, <1>5, FS_EmptySet, FS_CardinalityType
<1>9. Cardinality(A) # 0
  BY <1>2, FS_EmptySet
<1> QED
  BY <1>2, <1>6, <1>7, <1>8, <1>9

\* The empty set has one subset.
LEMMA TwoToZero == 2 ^ 0 = 1
<1>1. Cardinality({}) = 0 /\ IsFiniteSet({})
  BY FS_EmptySet
<1>2. Cardinality(SUBSET {}) = 2 ^ 0
  BY <1>1, FS_SUBSET
<1>3. SUBSET {} = {{}}
  OBVIOUS
<1> QED
  BY <1>2, <1>3, FS_Singleton

\* The power of a sum.
LEMMA TwoToSum ==
  ASSUME NEW a \in Nat, NEW b \in Nat
  PROVE  2 ^ (a + b) = 2 ^ a * 2 ^ b
<1> DEFINE S == {i \in Nat : 2 ^ (a + i) = 2 ^ a * 2 ^ i}
<1>1. 2 ^ a \in Nat
  BY TwoToNext
<1>2. 0 \in S
  BY <1>1, TwoToZero
<1>3. ASSUME NEW i \in S PROVE i + 1 \in S
  <2>1. i \in Nat /\ a + i \in Nat /\ 2 ^ (a + i) = 2 ^ a * 2 ^ i /\ 2 ^ i \in Nat
    BY TwoToNext
  <2>2. 2 ^ ((a + i) + 1) = 2 * 2 ^ (a + i) /\ 2 ^ (i + 1) = 2 * 2 ^ i
    BY <2>1, TwoToNext
  <2>3. a + (i + 1) = (a + i) + 1
    BY <2>1
  <2>4. 2 * (2 ^ a * 2 ^ i) = 2 ^ a * (2 * 2 ^ i)
    BY <1>1, <2>1
  <2> QED
    BY <2>1, <2>2, <2>3, <2>4
<1>4. S = Nat
  BY <1>2, <1>3, NatByStep
<1> QED
  BY <1>4

\* Powers grow.
LEMMA TwoToGrows ==
  ASSUME NEW a \in Nat, NEW b \in Nat, a <= b
  PROVE  2 ^ a <= 2 ^ b
<1>1. b - a \in Nat /\ b = a + (b - a)
  OBVIOUS
<1>2. 2 ^ b = 2 ^ a * 2 ^ (b - a)
  BY <1>1, TwoToSum
<1>3. 2 ^ a \in Nat \ {0} /\ 2 ^ (b - a) \in Nat \ {0}
  BY <1>1, TwoToNext
<1>4. \A x, y \in Nat \ {0} : x <= x * y
  OBVIOUS
<1> QED
  BY <1>2, <1>3, <1>4

\* Where quotients and remainders are.
LEMMA Quotient ==
  ASSUME NEW v \in Nat, NEW a \in Nat \ {0}
  PROVE  v \div a \in Nat /\ v % a \in Nat /\ v % a \in 0..(a - 1) /\ v % a < a
BY SMTT(20)

\* A number is its quotient and its remainder.
LEMMA Division ==
  ASSUME NEW v \in Nat, NEW a \in Nat \ {0}
  PROVE  v = (v \div a) * a + (v % a)
BY SMTT(20)

\* A quotient of a quotient is the quotient of the product.
LEMMA DivideTwice ==
  ASSUME NEW v \in Nat, NEW a \in Nat \ {0}, NEW b \in Nat \ {0}
  PROVE  (v \div a) \div b = v \div (a * b)
BY SMTT(20)

\* The remainder of a product is made of two digits.
LEMMA RemainderTwice ==
  ASSUME NEW v \in Nat, NEW a \in Nat \ {0}, NEW b \in Nat \ {0}
  PROVE  v % (a * b) = (v % a) + ((v \div a) % b) * a
<1> DEFINE q == v \div a
           r == v % a
           s == q \div b
           t == q % b
<1>1. q \in Nat /\ r \in 0..(a - 1) /\ v = q * a + r
  BY Division, Quotient
<1>2. s \in Nat /\ t \in 0..(b - 1) /\ q = s * b + t
  BY <1>1, Division, Quotient
<1> HIDE DEF q, r, s, t
<1>3. v = (a * b) * s + (t * a + r)
  BY <1>1, <1>2
<1>4. t * a + r \in Nat /\ t * a + r < a * b
  <2>1. (t + 1) * a <= b * a
    BY <1>2
  <2> QED
    BY <1>1, <1>2, <2>1
<1>5. \A m \in Nat \ {0}, i, j \in Nat : j < m => (m * i + j) % m = j
  OBVIOUS
<1>6. a * b \in Nat \ {0}
  OBVIOUS
<1>7. v % (a * b) = t * a + r
  BY <1>2, <1>3, <1>4, <1>5, <1>6
<1> QED
  BY <1>1, <1>2, <1>7 DEF q, r, s, t

\* A remainder by more than the number is the number, and the quotient is 0.
LEMMA SmallNumber ==
  ASSUME NEW v \in Nat, NEW m \in Nat, v < m
  PROVE  v % m = v /\ v \div m = 0
BY SMTT(20)

-----------------------------------------------------------------------------
(* Sequences joined and taken apart *)

\* Where the elements of two sequences are when they are joined.
LEMMA JoinedIs ==
  ASSUME NEW S, NEW s \in Seq(S), NEW t \in Seq(S)
  PROVE  /\ s \o t \in Seq(S) /\ Len(s \o t) = Len(s) + Len(t)
         /\ \A i \in 1..Len(s) : (s \o t)[i] = s[i]
         /\ \A i \in 1..Len(t) : (s \o t)[Len(s) + i] = t[i]
BY SMTT(20)

\* Three sequences may be joined in either order.
LEMMA JoinedThrice ==
  ASSUME NEW r \in Seq(ByteValues), NEW s \in Seq(ByteValues), NEW t \in Seq(ByteValues)
  PROVE  r \o (s \o t) = (r \o s) \o t
BY SMTT(30)

\* The two parts of a sequence make the sequence.
LEMMA Joined ==
  ASSUME NEW S, NEW s \in Seq(S), NEW n \in 0..Len(s)
  PROVE  SubSeq(s, 1, n) \o SubSeq(s, n + 1, Len(s)) = s
<1> DEFINE p == SubSeq(s, 1, n)
           q == SubSeq(s, n + 1, Len(s))
<1>1. n \in Nat /\ Len(s) \in Nat /\ n <= Len(s)
  OBVIOUS
<1>2. /\ p \in Seq(S) /\ Len(p) = n /\ q \in Seq(S) /\ Len(q) = Len(s) - n
      /\ \A i \in 1..n : p[i] = s[i]
      /\ \A i \in 1..(Len(s) - n) : q[i] = s[n + i]
  BY <1>1
<1>3. p \in Seq(S) /\ q \in Seq(S)
  BY <1>2
<1> HIDE DEF p, q
<1> DEFINE z == p \o q
<1>4. /\ z \in Seq(S) /\ Len(z) = Len(p) + Len(q)
      /\ \A i \in 1..Len(p) : z[i] = p[i]
      /\ \A i \in 1..Len(q) : z[Len(p) + i] = q[i]
  BY <1>3, JoinedIs
<1> HIDE DEF z
<1>5. ASSUME NEW i \in 1..Len(s) PROVE z[i] = s[i]
  <2>1. CASE i \in 1..n
    BY <1>2, <1>4, <2>1
  <2>2. CASE i - n \in 1..(Len(s) - n)
    <3>1. z[n + (i - n)] = s[n + (i - n)]
      BY <1>2, <1>4, <2>2
    <3>2. n + (i - n) = i
      BY <1>1
    <3> QED
      BY <3>1, <3>2
  <2>3. i \in 1..n \/ i - n \in 1..(Len(s) - n)
    BY <1>1
  <2> QED
    BY <2>1, <2>2, <2>3
<1>6. Len(z) = Len(s)
  BY <1>1, <1>2, <1>4
<1>7. z = s
  BY <1>4, <1>5, <1>6
<1> QED
  BY <1>7 DEF p, q, z

-----------------------------------------------------------------------------
(* Writing integers and reading them *)

\* Bytes are natural numbers below a power of two, and a group is half of it.
LEMMA Widths ==
  /\ Group \in Nat \ {0} /\ ByteMod = 2 * Group /\ ByteMod \in Nat \ {0}
  /\ ByteValues \subseteq Nat /\ 0 \in ByteValues
<1>1. GroupBits \in Nat
  BY WidthsAssumption
<1>2. 2 ^ GroupBits \in Nat \ {0} /\ 2 ^ (GroupBits + 1) = 2 * 2 ^ GroupBits
  BY <1>1, TwoToNext
<1> QED
  BY <1>2 DEF Group, ByteMod, ByteBits, ByteValues

\* The integer of some bytes is the last of the integers of their beginnings.
LEMMA ValueIs ==
  ASSUME NEW bs \in Seq(ByteValues)
  PROVE  \E f \in [0..Len(bs) -> Nat] :
           /\ f[0] = 0
           /\ \A n \in 1..Len(bs) : f[n] = f[n - 1] * ByteMod + bs[n]
           /\ Value(bs) = f[Len(bs)]
<1> DEFINE N == Len(bs)
           D == [p \in Nat \X (1..N) |-> p[1] * ByteMod + bs[p[2]]]
           Eq(g) == g = [n \in 0..N |-> IF n = 0 THEN 0 ELSE g[n - 1] * ByteMod + bs[n]]
<1>1. N \in Nat /\ \A n \in 1..N : bs[n] \in Nat
  <2>1. N \in Nat /\ \A n \in 1..N : bs[n] \in ByteValues
    OBVIOUS
  <2> QED
    BY <2>1, Widths
<1>2. D \in [Nat \X (1..N) -> Nat]
  <2>1. ASSUME NEW p \in Nat \X (1..N) PROVE p[1] * ByteMod + bs[p[2]] \in Nat
    <3>1. p[1] \in Nat /\ bs[p[2]] \in Nat /\ ByteMod \in Nat
      BY <1>1, Widths
    <3>2. \A x, y, z \in Nat : x * y + z \in Nat
      OBVIOUS
    <3> QED
      BY <3>1, <3>2
  <2> QED
    BY <2>1
<1>3. PICK f \in [0..N -> Nat] : f[0] = 0 /\ \A n \in 1..N : f[n] = D[<<f[n - 1], n>>]
  <2> HIDE DEF D, N
  <2> QED
    BY <1>1, <1>2, Recursion
<1>4. ASSUME NEW n \in 1..N PROVE f[n] = f[n - 1] * ByteMod + bs[n]
  <2>1. f[n - 1] \in Nat
    BY <1>1
  <2> QED
    BY <1>3, <2>1
<1>5. Eq(f)
  <2>1. ASSUME NEW n \in 0..N
        PROVE  f[n] = IF n = 0 THEN 0 ELSE f[n - 1] * ByteMod + bs[n]
    BY <1>1, <1>3, <1>4
  <2> QED
    BY <2>1
<1> DEFINE h == CHOOSE g : Eq(g)
<1>6. Eq(h)
  BY <1>5
<1>7. Value(bs) = h[N]
  BY DEF Value
<1>8. ASSUME NEW n \in 0..N
      PROVE  h[n] = IF n = 0 THEN 0 ELSE h[n - 1] * ByteMod + bs[n]
  <2> HIDE DEF h
  <2> QED
    BY <1>6
<1> HIDE DEF h
<1>9. \A n \in 0..N : h[n] = f[n]
  <2> DEFINE T == {n \in Nat : n <= N => h[n] = f[n]}
  <2>1. 0 \in T
    BY <1>1, <1>3, <1>8
  <2>2. ASSUME NEW n \in T PROVE n + 1 \in T
    <3>1. SUFFICES ASSUME n + 1 <= N PROVE h[n + 1] = f[n + 1]
      OBVIOUS
    <3>2. n + 1 \in 1..N /\ n + 1 \in 0..N /\ n + 1 # 0 /\ (n + 1) - 1 = n /\ h[n] = f[n]
      BY <1>1, <3>1
    <3> QED
      BY <1>4, <1>8, <3>2
  <2>3. T = Nat
    <3> HIDE DEF T
    <3> QED
      BY <2>1, <2>2, NatByStep DEF T
  <2> QED
    BY <1>1, <2>3
<1>10. Value(bs) = f[N]
  BY <1>1, <1>7, <1>9
<1> QED
  BY <1>3, <1>4, <1>10

\* The integer of the first n bytes from an offset, likewise.
LEMMA CollectIs ==
  ASSUME NEW b \in Seq(ByteValues), NEW at \in Nat, NEW N \in Nat, at + N <= Len(b)
  PROVE  \E f \in [0..N -> Nat] :
           /\ f[0] = 0
           /\ \A n \in 1..N :
                f[n] = f[n - 1] + (b[at + n] % Group) * 2 ^ (GroupBits * (n - 1))
           /\ Collect(b, at, N) = f[N] % 2 ^ Width
<1> DEFINE Digit(n) == (b[at + n] % Group) * 2 ^ (GroupBits * (n - 1))
           D == [p \in Nat \X (1..N) |-> p[1] + Digit(p[2])]
           Eq(g) == g = [n \in 0..N |-> IF n = 0 THEN 0 ELSE g[n - 1] + Digit(n)]
<1>1. \A n \in 1..N : Digit(n) \in Nat
  <2>1. TAKE n \in 1..N
  <2>2. at + n \in 1..Len(b) /\ b[at + n] \in ByteValues
    OBVIOUS
  <2>3. GroupBits * (n - 1) \in Nat
    <3>1. GroupBits \in Nat /\ n - 1 \in Nat
      BY WidthsAssumption
    <3> QED
      BY <3>1
  <2>4. 2 ^ (GroupBits * (n - 1)) \in Nat
    BY <2>3, TwoToNext
  <2>5. b[at + n] % Group \in Nat
    <3>1. b[at + n] \in Nat
      BY <2>2, Widths
    <3> QED
      BY <3>1, Widths, Quotient
  <2> DEFINE x == b[at + n] % Group
             y == 2 ^ (GroupBits * (n - 1))
  <2>6. x \in Nat /\ y \in Nat
    BY <2>4, <2>5
  <2> HIDE DEF x, y
  <2>7. x * y \in Nat
    BY <2>6
  <2> QED
    BY <2>7 DEF x, y
<1> HIDE DEF Digit
<1>2. D \in [Nat \X (1..N) -> Nat]
  <2>1. ASSUME NEW p \in Nat \X (1..N) PROVE p[1] + Digit(p[2]) \in Nat
    BY <1>1
  <2> QED
    BY <2>1
<1>3. PICK f \in [0..N -> Nat] : f[0] = 0 /\ \A n \in 1..N : f[n] = D[<<f[n - 1], n>>]
  <2> HIDE DEF D
  <2> QED
    BY <1>2, Recursion
<1>4. ASSUME NEW n \in 1..N PROVE f[n] = f[n - 1] + Digit(n)
  <2>1. f[n - 1] \in Nat
    OBVIOUS
  <2> QED
    BY <1>3, <2>1
<1>5. Eq(f)
  <2>1. ASSUME NEW n \in 0..N PROVE f[n] = IF n = 0 THEN 0 ELSE f[n - 1] + Digit(n)
    BY <1>3, <1>4
  <2> QED
    BY <2>1
<1> DEFINE h == CHOOSE g : Eq(g)
<1>6. Eq(h)
  BY <1>5
<1>7. Collect(b, at, N) = h[N] % 2 ^ Width
  BY DEF Collect, Digit
<1>8. ASSUME NEW n \in 0..N PROVE h[n] = IF n = 0 THEN 0 ELSE h[n - 1] + Digit(n)
  <2> HIDE DEF h
  <2> QED
    BY <1>6
<1> HIDE DEF h
<1>9. \A n \in 0..N : h[n] = f[n]
  <2> DEFINE T == {n \in Nat : n <= N => h[n] = f[n]}
  <2>1. 0 \in T
    BY <1>3, <1>8
  <2>2. ASSUME NEW n \in T PROVE n + 1 \in T
    <3>1. SUFFICES ASSUME n + 1 <= N PROVE h[n + 1] = f[n + 1]
      OBVIOUS
    <3>2. n + 1 \in 1..N /\ n + 1 \in 0..N /\ n + 1 # 0 /\ (n + 1) - 1 = n /\ h[n] = f[n]
      BY <3>1
    <3> QED
      BY <1>4, <1>8, <3>2
  <2>3. T = Nat
    <3> HIDE DEF T
    <3> QED
      BY <2>1, <2>2, NatByStep DEF T
  <2> QED
    BY <2>3
<1>10. Collect(b, at, N) = f[N] % 2 ^ Width
  BY <1>7, <1>9
<1> QED
  BY <1>3, <1>4, <1>10 DEF Digit

\* A multiple of the bits of a byte, or of a group, is an exponent.
LEMMA Exponents ==
  ASSUME NEW n \in Nat
  PROVE  /\ ByteBits * n \in Nat /\ 2 ^ (ByteBits * n) \in Nat \ {0}
         /\ 2 ^ (ByteBits * (n + 1)) = 2 ^ (ByteBits * n) * ByteMod
         /\ GroupBits * n \in Nat /\ 2 ^ (GroupBits * n) \in Nat \ {0}
         /\ 2 ^ (GroupBits * (n + 1)) = 2 ^ (GroupBits * n) * Group
         /\ 2 ^ (ByteBits * 0) = 1 /\ 2 ^ (GroupBits * 0) = 1
<1>1. GroupBits \in Nat /\ ByteBits \in Nat
  BY WidthsAssumption DEF ByteBits
<1>2. \A m \in Nat : m * n \in Nat /\ m * (n + 1) = m * n + m /\ m * 0 = 0
  OBVIOUS
<1>3. /\ ByteBits * n \in Nat /\ ByteBits * (n + 1) = ByteBits * n + ByteBits
      /\ GroupBits * n \in Nat /\ GroupBits * (n + 1) = GroupBits * n + GroupBits
      /\ ByteBits * 0 = 0 /\ GroupBits * 0 = 0
  BY <1>1, <1>2
<1>4. 2 ^ (ByteBits * n) \in Nat \ {0} /\ 2 ^ (GroupBits * n) \in Nat \ {0}
  BY <1>3, TwoToNext
<1>5. /\ 2 ^ (ByteBits * n + ByteBits) = 2 ^ (ByteBits * n) * ByteMod
      /\ 2 ^ (GroupBits * n + GroupBits) = 2 ^ (GroupBits * n) * Group
  BY <1>1, <1>3, TwoToSum DEF ByteMod, Group
<1> QED
  BY <1>3, <1>4, <1>5, TwoToZero

\* What an integer is written as.
LEMMA BigEndianIs ==
  ASSUME NEW v \in Nat, NEW n \in Nat
  PROVE  BigEndian(v, n) \in Seq(ByteValues) /\ Len(BigEndian(v, n)) = n
<1>1. ASSUME NEW i \in 1..n
      PROVE  (v \div 2 ^ (ByteBits * (n - i))) % ByteMod \in ByteValues
  <2>1. n - i \in Nat
    OBVIOUS
  <2>2. v \div 2 ^ (ByteBits * (n - i)) \in Nat
    BY <2>1, Exponents, Quotient
  <2> QED
    BY <2>2, Widths, Quotient DEF ByteValues
<1> QED
  BY <1>1, FromTo DEF BigEndian

\* Reading what was written gives the integer.
LEMMA BigEndianValue ==
  ASSUME NEW n \in Nat, NEW v \in Nat, v < 2 ^ (ByteBits * n)
  PROVE  Value(BigEndian(v, n)) = v
<1> DEFINE bs == BigEndian(v, n)
           Part(k) == v \div 2 ^ (ByteBits * (n - k))
<1>1. bs \in Seq(ByteValues) /\ Len(bs) = n
  BY BigEndianIs
<1>2. \A i \in 1..n : bs[i] = Part(i) % ByteMod
  BY DEF BigEndian
<1> HIDE DEF bs
<1>3. PICK f \in [0..n -> Nat] :
        /\ f[0] = 0
        /\ \A i \in 1..n : f[i] = f[i - 1] * ByteMod + bs[i]
        /\ Value(bs) = f[n]
  BY <1>1, ValueIs
<1> DEFINE T == {k \in Nat : k <= n => f[k] = Part(k)}
<1>4. 0 \in T
  <2>1. n - 0 = n
    OBVIOUS
  <2>2. v \div 2 ^ (ByteBits * n) = 0
    BY Exponents, SmallNumber
  <2> QED
    BY <1>3, <2>1, <2>2
<1>5. ASSUME NEW k \in T PROVE k + 1 \in T
  <2>1. SUFFICES ASSUME k + 1 <= n PROVE f[k + 1] = Part(k + 1)
    OBVIOUS
  <2>2. /\ k \in Nat /\ k + 1 \in 1..n /\ (k + 1) - 1 = k
        /\ n - (k + 1) \in Nat /\ (n - (k + 1)) + 1 = n - k
    BY <2>1
  <2>3. f[k] = Part(k)
    BY <2>1, <2>2
  <2> DEFINE A == 2 ^ (ByteBits * (n - (k + 1)))
  <2>4. A \in Nat \ {0} /\ 2 ^ (ByteBits * (n - k)) = A * ByteMod
    BY <2>2, Exponents
  <2>5. Part(k) = Part(k + 1) \div ByteMod
    <3> HIDE DEF A
    <3>1. (v \div A) \div ByteMod = v \div (A * ByteMod)
      BY <2>4, Widths, DivideTwice
    <3> QED
      BY <2>4, <3>1, Zenon DEF A
  <2>6. Part(k + 1) \in Nat
    BY <2>4, Quotient
  <2>7. f[k + 1] = Part(k) * ByteMod + (Part(k + 1) % ByteMod)
    BY <1>2, <1>3, <2>2, <2>3
  <2> HIDE DEF Part
  <2> DEFINE p == Part(k + 1)
  <2>8. p \in Nat
    BY <2>6
  <2> HIDE DEF p
  <2>9. p = (p \div ByteMod) * ByteMod + (p % ByteMod)
    BY <2>8, Widths, Division
  <2> QED
    BY <2>5, <2>7, <2>9 DEF p
<1>6. T = Nat
  <2> HIDE DEF T
  <2> QED
    BY <1>4, <1>5, NatByStep DEF T
<1>7. f[n] = Part(n)
  BY <1>6
<1>8. Part(n) = v
  <2>1. n - n = 0 /\ v \div 1 = v
    OBVIOUS
  <2> QED
    BY <2>1, Exponents
<1> QED
  BY <1>3, <1>7, <1>8 DEF bs

\* Reversing bytes twice.
LEMMA ReverseIs ==
  ASSUME NEW S, NEW s \in Seq(S)
  PROVE  Reverse(s) \in Seq(S) /\ Len(Reverse(s)) = Len(s) /\ Reverse(Reverse(s)) = s
<1>1. /\ Reverse(s) \in Seq(S) /\ Len(Reverse(s)) = Len(s)
      /\ \A i \in 1..Len(s) : Reverse(s)[i] = s[(Len(s) - i) + 1]
  <2>1. ASSUME NEW i \in 1..Len(s)
        PROVE  (Len(s) - i) + 1 \in 1..Len(s) /\ s[(Len(s) - i) + 1] \in S
    OBVIOUS
  <2>2. Reverse(s) = [i \in 1..Len(s) |-> s[(Len(s) - i) + 1]]
    BY DEF Reverse
  <2> QED
    BY <2>1, <2>2, FromTo
<1>2. /\ Reverse(Reverse(s)) \in Seq(S) /\ Len(Reverse(Reverse(s))) = Len(s)
      /\ \A i \in 1..Len(s) : Reverse(Reverse(s))[i] = Reverse(s)[(Len(s) - i) + 1]
  <2> DEFINE r == Reverse(s)
  <2>1. Reverse(r) = [i \in 1..Len(r) |-> r[(Len(r) - i) + 1]]
    BY DEF Reverse
  <2> HIDE DEF r
  <2>2. r \in Seq(S) /\ Len(r) = Len(s)
    BY <1>1 DEF r
  <2>3. \A i \in 1..Len(s) : r[(Len(s) - i) + 1] \in S
    BY <2>2
  <2>4. Reverse(r) \in Seq(S) /\ Len(Reverse(r)) = Len(s)
    BY <2>1, <2>2, <2>3, FromTo
  <2> QED
    BY <2>1, <2>2, <2>4 DEF r
<1>3. \A i \in 1..Len(s) : Reverse(Reverse(s))[i] = s[i]
  BY <1>1, <1>2
<1> QED
  BY <1>1, <1>2, <1>3

\* The bytes of an integer, in either order, are read as the integer.
LEMMA WrittenUIntIs ==
  ASSUME NEW n \in Nat, NEW v \in 0..(2 ^ (ByteBits * n) - 1), NEW network \in BOOLEAN
  PROVE  /\ WriteUInt(v, n, network) \in Seq(ByteValues)
         /\ Len(WriteUInt(v, n, network)) = n
         /\ ValueOf(WriteUInt(v, n, network), network) = v
<1>1. v \in Nat /\ v < 2 ^ (ByteBits * n)
  BY Exponents
<1>2. BigEndian(v, n) \in Seq(ByteValues) /\ Len(BigEndian(v, n)) = n
  BY <1>1, BigEndianIs
<1>3. Value(BigEndian(v, n)) = v
  BY <1>1, BigEndianValue
<1> QED
  BY <1>2, <1>3, ReverseIs DEF WriteUInt, ValueOf

\* The smallest number of a set.
LEMMA LeastIs ==
  ASSUME NEW S \in SUBSET Nat, S # {}
  PROVE  Min(S) \in S /\ \A n \in S : Min(S) <= n
<1> DEFINE R == {ss \in Nat \X Nat : ss[1] < ss[2]}
<1>1. IsWellFoundedOn(R, Nat)
  BY NatLessThanWellFounded DEF OpToRel
<1>2. \A p, q \in Nat : p < q => <<p, q>> \in R
  OBVIOUS
<1> HIDE DEF R
<1>3. PICK n \in S : \A m \in S : ~(<<m, n>> \in R)
  BY <1>1, WFMin
<1>4. \A m \in S : n <= m
  <2>1. TAKE m \in S
  <2>2. m \in Nat /\ n \in Nat
    BY <1>3
  <2>3. ~(m < n)
    BY <1>2, <1>3, <2>2
  <2> QED
    BY <2>2, <2>3
<1> QED
  BY <1>3, <1>4, Zenon DEF Min

\* The last group of the widest integers has one bit.
LEMMA LastGroup ==
  \E q \in 1..Width : Width - 1 = GroupBits * q
<1> DEFINE q == Width \div GroupBits
<1>1. Width \in Nat /\ GroupBits \in Nat \ {0} /\ Width > GroupBits
  BY WidthsAssumption
<1>2. Width = q * GroupBits + 1 /\ q \in Nat
  BY <1>1, WidthsAssumption, Division, Quotient
<1> HIDE DEF q
<1>3. q # 0
  BY <1>1, <1>2
<1>4. q <= q * GroupBits
  BY <1>1, <1>2
<1>5. q * GroupBits = GroupBits * q
  BY <1>1, <1>2
<1> QED
  BY <1>1, <1>2, <1>3, <1>4, <1>5

\* How many groups an integer has.
LEMMA GroupsAre ==
  ASSUME NEW v \in 0..(2 ^ Width - 1)
  PROVE  /\ Groups(v) \in 1..Width /\ v < 2 ^ (GroupBits * Groups(v))
         /\ \A n \in 1..Width : v < 2 ^ (GroupBits * n) => Groups(v) <= n
<1> DEFINE S == {n \in 1..Width : v < 2 ^ (GroupBits * n)}
<1>1. Width \in Nat /\ GroupBits \in Nat \ {0} /\ Width > GroupBits
  BY WidthsAssumption
<1>2. Width <= GroupBits * Width /\ GroupBits * Width \in Nat
  BY <1>1
<1>3. 2 ^ Width \in Nat /\ 2 ^ (GroupBits * Width) \in Nat
  BY <1>1, <1>2, TwoToNext
<1>4. 2 ^ Width <= 2 ^ (GroupBits * Width)
  BY <1>1, <1>2, TwoToGrows
<1>5. Width \in S
  <2>1. Width \in 1..Width
    BY <1>1
  <2>2. v < 2 ^ (GroupBits * Width)
    BY <1>3, <1>4
  <2> QED
    BY <2>1, <2>2
<1>6. S \in SUBSET Nat /\ S # {}
  <2>1. S # {}
    BY <1>5
  <2>2. \A n \in S : n \in 1..Width
    OBVIOUS
  <2>3. \A n \in 1..Width : n \in Nat
    BY <1>1
  <2> QED
    BY <2>1, <2>2, <2>3
<1>7. Groups(v) = Min(S)
  BY DEF Groups
<1> HIDE DEF S
<1>8. Groups(v) \in S /\ \A n \in S : Groups(v) <= n
  BY <1>6, <1>7, LeastIs
<1> QED
  BY <1>8 DEF S

\* The groups of an integer without the top bit are not too many for readVarInt(),
\* and neither are fewer.
LEMMA ShortEnough ==
  ASSUME NEW v \in Nat, v < 2 ^ (Width - 1), NEW n \in 1..Groups(v)
  PROVE  ~TooLong(n)
<1>1. Width \in Nat /\ Width - 1 \in Nat /\ GroupBits \in Nat
  BY WidthsAssumption
<1>2. 2 ^ (Width - 1) <= 2 ^ Width /\ 2 ^ (Width - 1) \in Nat /\ 2 ^ Width \in Nat
  BY <1>1, TwoToGrows, TwoToNext
<1>3. v \in 0..(2 ^ Width - 1)
  BY <1>2
<1>4. PICK q \in 1..Width : Width - 1 = GroupBits * q
  BY LastGroup
<1>5. Groups(v) <= q /\ Groups(v) \in Nat
  BY <1>3, <1>4, GroupsAre
<1>6. n \in Nat /\ q \in Nat /\ n <= q
  BY <1>5
<1>7. n * GroupBits <= GroupBits * q
  BY <1>1, <1>6
<1>8. n * GroupBits \in Nat
  BY <1>1, <1>6
<1> QED
  BY <1>1, <1>4, <1>7, <1>8 DEF TooLong

\* The bytes of an integer: its groups, and a bit in all but the last.
LEMMA WrittenVarIntIs ==
  ASSUME NEW v \in 0..(2 ^ Width - 1)
  PROVE  /\ WriteVarInt(v) \in Seq(ByteValues) /\ Len(WriteVarInt(v)) = Groups(v)
         /\ \A i \in 1..Groups(v) :
              /\ WriteVarInt(v)[i] % Group = (v \div 2 ^ (GroupBits * (i - 1))) % Group
              /\ WriteVarInt(v)[i] < Group <=> i = Groups(v)
<1> DEFINE Digit(i) == (v \div 2 ^ (GroupBits * (i - 1))) % Group
           Byte(i)  == Digit(i) + IF i < Groups(v) THEN Group ELSE 0
<1>1. Groups(v) \in Nat /\ v \in Nat
  <2>1. 2 ^ Width \in Nat
    BY WidthsAssumption, TwoToNext
  <2> QED
    BY <2>1, GroupsAre
<1>2. ASSUME NEW i \in 1..Groups(v) PROVE Digit(i) \in Nat /\ Digit(i) < Group
  <2>1. i - 1 \in Nat
    BY <1>1
  <2>2. v \div 2 ^ (GroupBits * (i - 1)) \in Nat
    BY <1>1, <2>1, Exponents, Quotient
  <2> QED
    BY <2>2, Widths, Quotient
<1>3. WriteVarInt(v) = [i \in 1..Groups(v) |-> Byte(i)]
  BY DEF WriteVarInt
<1> HIDE DEF Digit
<1>4. ASSUME NEW i \in 1..Groups(v)
      PROVE  /\ Byte(i) \in ByteValues /\ Byte(i) % Group = Digit(i)
             /\ Byte(i) < Group <=> i = Groups(v)
  <2>1. CASE i < Groups(v)
    <3>1. Byte(i) = Digit(i) + Group
      BY <2>1
    <3>2. \A d \in Nat : d < Group => (d + Group) % Group = d
      <4>1. Group \in Nat \ {0}
        BY Widths
      <4> QED
        BY <4>1, SMTT(20)
    <3> QED
      BY <1>1, <1>2, <2>1, <3>1, <3>2, Widths DEF ByteValues
  <2>2. CASE ~(i < Groups(v))
    <3>1. Byte(i) = Digit(i)
      BY <1>2, <2>2
    <3>2. Digit(i) % Group = Digit(i)
      BY <1>2, Widths, SmallNumber
    <3> QED
      BY <1>1, <1>2, <2>2, <3>1, <3>2, Widths DEF ByteValues
  <2> QED
    BY <2>1, <2>2
<1> HIDE DEF Byte
<1>5. WriteVarInt(v) \in Seq(ByteValues) /\ Len(WriteVarInt(v)) = Groups(v)
  BY <1>1, <1>3, <1>4, FromTo
<1> QED
  BY <1>3, <1>4, <1>5 DEF Digit

\* The groups of an integer, put together, are the integer.
LEMMA CollectedIs ==
  ASSUME NEW v \in 0..(2 ^ Width - 1), NEW b \in Seq(ByteValues), NEW at \in Nat,
         at + Groups(v) <= Len(b),
         \A i \in 1..Groups(v) : b[at + i] = WriteVarInt(v)[i]
  PROVE  Collect(b, at, Groups(v)) = v
<1> DEFINE N == Groups(v)
           Low(k) == v % 2 ^ (GroupBits * k)
<1>1. v \in Nat /\ 2 ^ Width \in Nat /\ v < 2 ^ Width
  <2>1. 2 ^ Width \in Nat
    BY WidthsAssumption, TwoToNext
  <2> QED
    BY <2>1
<1>2. N \in Nat /\ v < 2 ^ (GroupBits * N)
  BY GroupsAre
<1>3. \A i \in 1..N : b[at + i] % Group = (v \div 2 ^ (GroupBits * (i - 1))) % Group
  BY WrittenVarIntIs
<1>4. PICK f \in [0..N -> Nat] :
        /\ f[0] = 0
        /\ \A n \in 1..N :
             f[n] = f[n - 1] + (b[at + n] % Group) * 2 ^ (GroupBits * (n - 1))
        /\ Collect(b, at, N) = f[N] % 2 ^ Width
  BY <1>2, CollectIs
<1> HIDE DEF N
<1> DEFINE T == {k \in Nat : k <= N => f[k] = Low(k)}
<1>5. 0 \in T
  <2>1. v % 1 = 0
    BY <1>1
  <2> QED
    BY <1>4, <2>1, Exponents
<1>6. ASSUME NEW k \in T PROVE k + 1 \in T
  <2>1. SUFFICES ASSUME k + 1 <= N PROVE f[k + 1] = Low(k + 1)
    OBVIOUS
  <2>2. k \in Nat /\ k + 1 \in 1..N /\ (k + 1) - 1 = k
    BY <1>2, <2>1
  <2>3. f[k] = Low(k)
    <3> HIDE DEF Low
    <3>1. k <= N
      BY <1>2, <2>2
    <3> QED
      BY <3>1
  <2> DEFINE A == 2 ^ (GroupBits * k)
  <2>4. A \in Nat \ {0} /\ 2 ^ (GroupBits * (k + 1)) = A * Group
    BY <2>2, Exponents
  <2>5. f[k + 1] = f[k] + (b[at + (k + 1)] % Group) * A
    BY <1>4, <2>2
  <2>6. b[at + (k + 1)] % Group = (v \div A) % Group
    BY <1>3, <2>2
  <2>7. Low(k) = v % A /\ Low(k + 1) = v % (A * Group)
    BY <2>4
  <2> HIDE DEF A, Low
  <2>8. v % (A * Group) = (v % A) + ((v \div A) % Group) * A
    <3>1. Group \in Nat \ {0}
      BY Widths
    <3> QED
      BY <1>1, <2>4, <3>1, RemainderTwice
  <2> QED
    BY <2>3, <2>5, <2>6, <2>7, <2>8, Zenon
<1>7. T = Nat
  <2> HIDE DEF T
  <2> QED
    BY <1>5, <1>6, NatByStep DEF T
<1>8. f[N] = Low(N)
  <2>1. N \in T /\ N <= N
    BY <1>2, <1>7
  <2> HIDE DEF Low
  <2> QED
    BY <2>1
<1>9. Low(N) = v
  <2>1. 2 ^ (GroupBits * N) \in Nat
    BY <1>2, Exponents
  <2> QED
    BY <1>1, <1>2, <2>1, SmallNumber
<1>10. v % 2 ^ Width = v
  BY <1>1, SmallNumber
<1> QED
  BY <1>4, <1>8, <1>9, <1>10 DEF N

-----------------------------------------------------------------------------
(* What a read returns *)

\* What a read may return.
Values == Nat \cup Seq(ByteValues)

\* The bytes that have arrived at an offset are those of e, as far as they go.
Begins(b, at, e) == \A i \in 1..Len(e) : at + i <= Len(b) => b[at + i] = e[i]

\* What Slice() returns.
LEMMA SliceIs ==
  ASSUME NEW b \in Seq(ByteValues), NEW at \in Nat, NEW n \in Nat, at + n <= Len(b)
  PROVE  /\ Slice(b, at, n) \in Seq(ByteValues) /\ Len(Slice(b, at, n)) = n
         /\ \A i \in 1..n : Slice(b, at, n)[i] = b[at + i]
BY SMTT(20) DEF Slice

\* It is e if the bytes of e have arrived.
LEMMA SliceOf ==
  ASSUME NEW b \in Seq(ByteValues), NEW at \in Nat, NEW e \in Seq(ByteValues),
         at + Len(e) <= Len(b), Begins(b, at, e)
  PROVE  Slice(b, at, Len(e)) = e
<1>1. /\ Slice(b, at, Len(e)) \in Seq(ByteValues) /\ Len(Slice(b, at, Len(e))) = Len(e)
      /\ \A i \in 1..Len(e) : Slice(b, at, Len(e))[i] = b[at + i]
  BY SliceIs
<1>2. \A i \in 1..Len(e) : b[at + i] = e[i]
  BY DEF Begins
<1> QED
  BY <1>1, <1>2

\* The integer of some bytes is a number, in either order.
LEMMA ValueOfIs ==
  ASSUME NEW bs \in Seq(ByteValues), NEW network
  PROVE  ValueOf(bs, network) \in Nat
<1>1. \A s \in Seq(ByteValues) : Value(s) \in Nat
  <2>1. TAKE s \in Seq(ByteValues)
  <2>2. PICK f \in [0..Len(s) -> Nat] : Value(s) = f[Len(s)]
    BY ValueIs
  <2> QED
    BY <2>2
<1>2. Reverse(bs) \in Seq(ByteValues)
  BY ReverseIs
<1> QED
  BY <1>1, <1>2 DEF ValueOf

\* What readUInt16() and the like return.
LEMMA ReadUIntIs ==
  ASSUME NEW b \in Seq(ByteValues), NEW at \in Nat, NEW n \in Nat, NEW network
  PROVE  LET r == ReadUInt(b, at, n, network)
         IN  /\ r.ok \in BOOLEAN /\ r.value \in Nat
             /\ r.ok <=> at + n <= Len(b)
             /\ r.at = IF r.ok THEN at + n ELSE at
             /\ r.ok => r.value = ValueOf(Slice(b, at, n), network)
<1>1. CASE at + n <= Len(b)
  <2>1. Slice(b, at, n) \in Seq(ByteValues)
    BY <1>1, SliceIs
  <2>2. ValueOf(Slice(b, at, n), network) \in Nat
    BY <2>1, ValueOfIs
  <2> QED
    BY <1>1, <2>2 DEF ReadUInt, CanRead, Success
<1>2. CASE ~(at + n <= Len(b))
  BY <1>2 DEF ReadUInt, CanRead, Failure
<1> QED
  BY <1>1, <1>2

\* What readBytes() returns.
LEMMA ReadBytesIs ==
  ASSUME NEW b \in Seq(ByteValues), NEW at \in 0..Len(b), NEW n \in Nat
  PROVE  LET r == ReadBytes(b, at, n)
         IN  /\ r.ok \in BOOLEAN /\ r.value \in Values
             /\ r.ok <=> at + n <= Len(b)
             /\ r.at = IF r.ok THEN at + n ELSE at
             /\ r.ok => r.value = Slice(b, at, n)
<1>1. CASE at + n <= Len(b)
  <2>1. Slice(b, at, n) \in Seq(ByteValues)
    BY <1>1, SliceIs
  <2> QED
    BY <1>1, <2>1 DEF ReadBytes, CanRead, Success, Values
<1>2. CASE ~(at + n <= Len(b))
  <2>1. n # 0
    BY <1>2
  <2> QED
    BY <1>2, <2>1 DEF ReadBytes, CanRead, Failure, Values
<1> QED
  BY <1>1, <1>2

\* What readString() returns: its length is read first.
LEMMA ReadStringIs ==
  ASSUME NEW b \in Seq(ByteValues), NEW at \in 0..Len(b)
  PROVE  LET r == ReadString(b, at)
             n == ValueOf(Slice(b, at, LengthBytes), TRUE)
         IN  /\ r.ok \in BOOLEAN /\ r.value \in Values /\ r.at \in at..Len(b)
             /\ at + LengthBytes <= Len(b) => n \in Nat
             /\ r.ok <=> at + LengthBytes <= Len(b) /\ at + LengthBytes + n <= Len(b)
             /\ r.ok => /\ r.value = Slice(b, at + LengthBytes, n)
                        /\ r.at = at + LengthBytes + n
<1> DEFINE length == ReadUInt(b, at, LengthBytes, TRUE)
           n == ValueOf(Slice(b, at, LengthBytes), TRUE)
           r == ReadString(b, at)
           rb == ReadBytes(b, length.at, length.value)
<1>1. LengthBytes \in Nat /\ at \in Nat /\ at <= Len(b) /\ Len(b) \in Nat
  BY WidthsAssumption
<1>2. /\ length.ok \in BOOLEAN /\ length.value \in Nat
      /\ length.ok <=> at + LengthBytes <= Len(b)
      /\ length.at = IF length.ok THEN at + LengthBytes ELSE at
      /\ length.ok => length.value = n
  BY <1>1, ReadUIntIs
<1>3. r = IF length.ok THEN rb ELSE length
  BY DEF ReadString
<1> HIDE DEF length, n, r
<1>4. ASSUME length.ok
      PROVE  /\ rb.ok \in BOOLEAN /\ rb.value \in Values
             /\ rb.ok <=> length.at + length.value <= Len(b)
             /\ rb.at = IF rb.ok THEN length.at + length.value ELSE length.at
             /\ rb.ok => rb.value = Slice(b, length.at, length.value)
  <2>1. length.at \in 0..Len(b)
    BY <1>1, <1>2, <1>4
  <2> QED
    BY <1>2, <2>1, ReadBytesIs
<1> HIDE DEF rb
<1>5. /\ r.ok \in BOOLEAN /\ r.value \in Values /\ r.at \in at..Len(b)
      /\ at + LengthBytes <= Len(b) => n \in Nat
      /\ r.ok <=> at + LengthBytes <= Len(b) /\ at + LengthBytes + n <= Len(b)
      /\ r.ok => /\ r.value = Slice(b, at + LengthBytes, n)
                 /\ r.at = at + LengthBytes + n
  <2>1. CASE length.ok
    <3>1. length.at = at + LengthBytes /\ length.value = n /\ n \in Nat /\ r = rb
      BY <1>2, <1>3, <2>1
    <3> QED
      BY <1>1, <1>2, <1>4, <2>1, <3>1
  <2>2. CASE ~length.ok
    <3>1. length.at = at /\ r = length /\ length.value \in Values
      BY <1>2, <1>3, <2>2 DEF Values
    <3> QED
      BY <1>1, <1>2, <2>2, <3>1
  <2> QED
    BY <1>2, <2>1, <2>2
<1> QED
  BY <1>5 DEF r, n

\* What readVarInt() and readCompactUint() return: the last byte that is read is the
\* first that ends the integer, or makes it too long.
LEMMA ReadGroupsIs ==
  ASSUME NEW b \in Seq(ByteValues), NEW at \in 0..Len(b), NEW limited \in BOOLEAN
  PROVE  LET r == ReadGroups(b, at, limited)
             last == {n \in 1..(Len(b) - at) :
                        b[at + n] < Group \/ (limited /\ TooLong(n))}
         IN  /\ r.ok \in BOOLEAN /\ r.value \in Values /\ r.at \in at..Len(b)
             /\ r.ok <=> last # {} /\ ~(limited /\ TooLong(Min(last)))
             /\ r.ok => r.value = Collect(b, at, Min(last)) /\ r.at = at + Min(last)
<1> DEFINE r == ReadGroups(b, at, limited)
           last == {n \in 1..(Len(b) - at) : b[at + n] < Group \/ (limited /\ TooLong(n))}
           m == Min(last)
<1>1. Len(b) \in Nat /\ at \in Nat /\ at <= Len(b)
  OBVIOUS
<1>2. /\ last = {} => r = Failure(Len(b))
      /\ last # {} /\ limited /\ TooLong(m) => r = Failure(at + m)
      /\ last # {} /\ ~(limited /\ TooLong(m)) => r = Success(Collect(b, at, m), at + m)
  BY DEF ReadGroups
<1>3. ASSUME last # {} PROVE m \in 1..(Len(b) - at)
  <2>1. last \in SUBSET Nat
    <3>1. \A n \in last : n \in 1..(Len(b) - at)
      OBVIOUS
    <3> QED
      BY <1>1, <3>1
  <2> HIDE DEF last
  <2>2. m \in last
    BY <1>3, <2>1, LeastIs
  <2> QED
    BY <2>2 DEF last
<1> HIDE DEF last, r
<1>4. ASSUME last # {} PROVE Collect(b, at, m) \in Nat
  <2>1. m \in Nat /\ at + m <= Len(b)
    BY <1>1, <1>3, <1>4
  <2> HIDE DEF m
  <2>2. PICK f \in [0..m -> Nat] : Collect(b, at, m) = f[m] % 2 ^ Width
    BY <1>1, <2>1, CollectIs
  <2>3. f[m] \in Nat /\ 2 ^ Width \in Nat \ {0}
    BY <2>1, WidthsAssumption, TwoToNext
  <2> QED
    BY <2>2, <2>3, Quotient
<1> HIDE DEF m
<1>5. /\ r.ok \in BOOLEAN /\ r.value \in Values /\ r.at \in at..Len(b)
      /\ r.ok <=> last # {} /\ ~(limited /\ TooLong(m))
      /\ r.ok => r.value = Collect(b, at, m) /\ r.at = at + m
  <2>1. CASE last = {}
    <3>1. r = Failure(Len(b))
      BY <1>2, <2>1
    <3> QED
      BY <1>1, <2>1, <3>1 DEF Failure, Values
  <2>2. CASE last # {} /\ limited /\ TooLong(m)
    <3>1. r = Failure(at + m)
      BY <1>2, <2>2
    <3>2. at + m \in at..Len(b)
      BY <1>1, <1>3, <2>2
    <3> QED
      BY <2>2, <3>1, <3>2 DEF Failure, Values
  <2>3. CASE last # {} /\ ~(limited /\ TooLong(m))
    <3>1. r = Success(Collect(b, at, m), at + m)
      BY <1>2, <2>3
    <3>2. at + m \in at..Len(b)
      BY <1>1, <1>3, <2>3
    <3>3. Collect(b, at, m) \in Values
      BY <1>4, <2>3 DEF Values
    <3> QED
      BY <2>3, <3>1, <3>2, <3>3 DEF Success
  <2> QED
    BY <2>1, <2>2, <2>3
<1> QED
  BY <1>5 DEF r, last, m

\* What a string is written as: its length, and then its bytes.
LEMMA WrittenStringIs ==
  ASSUME NEW s \in Seq(ByteValues), Len(s) < 2 ^ (ByteBits * LengthBytes)
  PROVE  LET w == WriteUInt(Len(s), LengthBytes, TRUE)
         IN  /\ WriteString(s) \in Seq(ByteValues)
             /\ Len(WriteString(s)) = LengthBytes + Len(s)
             /\ w \in Seq(ByteValues) /\ Len(w) = LengthBytes /\ ValueOf(w, TRUE) = Len(s)
             /\ \A i \in 1..LengthBytes : WriteString(s)[i] = w[i]
             /\ \A i \in 1..Len(s) : WriteString(s)[LengthBytes + i] = s[i]
<1> DEFINE w == WriteUInt(Len(s), LengthBytes, TRUE)
<1>1. LengthBytes \in Nat
  BY WidthsAssumption
<1>2. Len(s) \in 0..(2 ^ (ByteBits * LengthBytes) - 1)
  <2>1. 2 ^ (ByteBits * LengthBytes) \in Nat
    BY <1>1, Exponents
  <2> QED
    BY <2>1
<1>3. w \in Seq(ByteValues) /\ Len(w) = LengthBytes /\ ValueOf(w, TRUE) = Len(s)
  BY <1>1, <1>2, WrittenUIntIs
<1>4. WriteString(s) = w \o s
  BY DEF WriteString
<1> HIDE DEF w
<1>5. /\ w \o s \in Seq(ByteValues) /\ Len(w \o s) = Len(w) + Len(s)
      /\ \A i \in 1..Len(w) : (w \o s)[i] = w[i]
      /\ \A i \in 1..Len(s) : (w \o s)[Len(w) + i] = s[i]
  <2>1. w \in Seq(ByteValues)
    BY <1>3
  <2> QED
    BY <2>1, JoinedIs
<1> QED
  BY <1>3, <1>4, <1>5, Zenon DEF w

\* What a field is written as depends on its kind.
LEMMA KindsAre ==
  ASSUME NEW f \in Fields
  PROVE  /\ f.kind = "uint" => Encode(f) = WriteUInt(f.value, f.size, TRUE)
         /\ f.kind = "native" => Encode(f) = WriteUInt(f.value, f.size, FALSE)
         /\ f.kind = "string" => Encode(f) = WriteString(f.value)
         /\ f.kind = "bytes" => Encode(f) = f.value
         /\ f.kind \in {"varint", "compact"} => Encode(f) = WriteVarInt(f.value)
         /\ f.kind \in Kinds
<1>1. f.kind \in Kinds
  BY FieldsAssumption
<1> QED
  BY <1>1 DEF Encode, Kinds

\* Fields are written as bytes.
LEMMA EncodeIs ==
  ASSUME NEW f \in Fields
  PROVE  Encode(f) \in Seq(ByteValues)
<1>1. CASE f.kind = "uint"
  BY <1>1, KindsAre, FieldsAssumption, WrittenUIntIs
<1>2. CASE f.kind = "native"
  BY <1>2, KindsAre, FieldsAssumption, WrittenUIntIs
<1>3. CASE f.kind = "string"
  BY <1>3, KindsAre, FieldsAssumption, WrittenStringIs
<1>4. CASE f.kind = "bytes"
  BY <1>4, KindsAre, FieldsAssumption
<1>5. CASE f.kind \in {"varint", "compact"}
  BY <1>5, KindsAre, FieldsAssumption, WrittenVarIntIs
<1> QED
  BY <1>1, <1>2, <1>3, <1>4, <1>5, KindsAre DEF Kinds

\* What a read finds depends on the kind of the field.
LEMMA DecodeOf ==
  ASSUME NEW f \in Fields, NEW b, NEW at
  PROVE  /\ f.kind = "uint" => Decode(f, b, at) = ReadUInt(b, at, f.size, TRUE)
         /\ f.kind = "native" => Decode(f, b, at) = ReadUInt(b, at, f.size, FALSE)
         /\ f.kind = "string" => Decode(f, b, at) = ReadString(b, at)
         /\ f.kind = "bytes" => Decode(f, b, at) = ReadBytes(b, at, f.size)
         /\ f.kind = "varint" => Decode(f, b, at) = ReadGroups(b, at, TRUE)
         /\ f.kind = "compact" => Decode(f, b, at) = ReadGroups(b, at, FALSE)
BY DEF Decode

\* A read returns a value, and ends within what has arrived, not before it began.
LEMMA DecodeIs ==
  ASSUME NEW f \in Fields, NEW b \in Seq(ByteValues), NEW at \in 0..Len(b)
  PROVE  LET r == Decode(f, b, at)
         IN  r.ok \in BOOLEAN /\ r.value \in Values /\ r.at \in at..Len(b)
<1> DEFINE r == Decode(f, b, at)
<1>1. at \in Nat /\ Len(b) \in Nat /\ at <= Len(b)
  OBVIOUS
<1>2. CASE f.kind \in {"uint", "native"}
  <2>1. f.size \in Nat
    BY <1>2, FieldsAssumption
  <2>2. PICK network \in BOOLEAN : r = ReadUInt(b, at, f.size, network)
    BY <1>2, DecodeOf
  <2>3. /\ r.ok \in BOOLEAN /\ r.value \in Nat
        /\ r.ok <=> at + f.size <= Len(b)
        /\ r.at = IF r.ok THEN at + f.size ELSE at
    <3> DEFINE u == ReadUInt(b, at, f.size, network)
    <3>1. /\ u.ok \in BOOLEAN /\ u.value \in Nat
          /\ u.ok <=> at + f.size <= Len(b)
          /\ u.at = IF u.ok THEN at + f.size ELSE at
      BY <1>1, <2>1, ReadUIntIs
    <3> HIDE DEF u, r
    <3> QED
      BY <2>2, <3>1 DEF u
  <2> HIDE DEF r
  <2>4. r.at \in at..Len(b)
    BY <1>1, <2>1, <2>3
  <2> QED
    BY <2>3, <2>4 DEF r, Values
<1>3. CASE f.kind = "string"
  BY <1>3, DecodeOf, ReadStringIs
<1>4. CASE f.kind = "bytes"
  <2>1. f.size \in Nat
    BY <1>4, FieldsAssumption
  <2>2. r = ReadBytes(b, at, f.size)
    BY <1>4, DecodeOf
  <2> HIDE DEF r
  <2>3. /\ r.ok \in BOOLEAN /\ r.value \in Values
        /\ r.ok <=> at + f.size <= Len(b)
        /\ r.at = IF r.ok THEN at + f.size ELSE at
    BY <1>1, <2>1, <2>2, ReadBytesIs
  <2>4. r.at \in at..Len(b)
    BY <1>1, <2>1, <2>3
  <2> QED
    BY <2>3, <2>4 DEF r
<1>5. CASE f.kind \in {"varint", "compact"}
  <2>1. PICK limited \in BOOLEAN : r = ReadGroups(b, at, limited)
    BY <1>5, DecodeOf
  <2> QED
    BY <2>1, ReadGroupsIs
<1> QED
  BY <1>2, <1>3, <1>4, <1>5, KindsAre DEF Kinds

\* A variable-length integer whose bytes are next is read as itself, and its bytes are
\* what is passed.
LEMMA ReadVarIntExact ==
  ASSUME NEW v \in 0..(2 ^ Width - 1), NEW b \in Seq(ByteValues), NEW at \in 0..Len(b),
         NEW limited \in BOOLEAN, Begins(b, at, WriteVarInt(v)),
         ReadGroups(b, at, limited).ok
  PROVE  /\ ReadGroups(b, at, limited).value = v
         /\ ReadGroups(b, at, limited).at = at + Len(WriteVarInt(v))
<1> DEFINE r == ReadGroups(b, at, limited)
           last == {n \in 1..(Len(b) - at) : b[at + n] < Group \/ (limited /\ TooLong(n))}
           m == Min(last)
           e == WriteVarInt(v)
           N == Groups(v)
<1>1. /\ last # {} /\ ~(limited /\ TooLong(m))
      /\ r.value = Collect(b, at, m) /\ r.at = at + m
  BY ReadGroupsIs
<1>2. /\ N \in 1..Width /\ e \in Seq(ByteValues) /\ Len(e) = N
      /\ \A i \in 1..N : e[i] < Group <=> i = N
  BY GroupsAre, WrittenVarIntIs
<1>3. /\ m \in 1..(Len(b) - at) /\ (b[at + m] < Group \/ (limited /\ TooLong(m)))
      /\ \A n \in last : m <= n
  <2>1. last \in SUBSET Nat
    <3>1. \A n \in last : n \in 1..(Len(b) - at)
      OBVIOUS
    <3> QED
      BY <3>1
  <2> HIDE DEF last
  <2>2. m \in last /\ \A n \in last : m <= n
    BY <1>1, <2>1, LeastIs
  <2> QED
    BY <2>2 DEF last
<1>4. /\ N \in Nat /\ Width \in Nat /\ at \in Nat /\ Len(b) \in Nat
      /\ m \in Nat /\ at + m <= Len(b)
  BY <1>2, <1>3, WidthsAssumption
<1>5. \A i \in 1..N : at + i <= Len(b) => b[at + i] = e[i]
  BY <1>2 DEF Begins
<1>6. \A n \in 1..(Len(b) - at) : b[at + n] < Group => m <= n
  BY <1>3
<1> HIDE DEF r, last, m, e, N
<1>7. m = N
  <2>1. ~(m < N)
    <3>1. SUFFICES ASSUME m < N PROVE FALSE
      OBVIOUS
    <3>2. m \in 1..N /\ m # N
      BY <1>3, <1>4, <3>1
    <3>3. b[at + m] = e[m]
      BY <1>4, <1>5, <3>2
    <3> QED
      BY <1>1, <1>2, <1>3, <3>2, <3>3
  <2>2. ~(N < m)
    <3>1. SUFFICES ASSUME N < m PROVE FALSE
      OBVIOUS
    <3>2. N \in 1..N /\ N \in 1..(Len(b) - at) /\ at + N <= Len(b)
      BY <1>2, <1>4, <3>1
    <3>3. b[at + N] < Group
      BY <1>2, <1>5, <3>2
    <3>4. m <= N
      BY <1>6, <3>2, <3>3
    <3> QED
      BY <1>4, <3>1, <3>4
  <2> QED
    BY <1>4, <2>1, <2>2
<1>8. Collect(b, at, N) = v
  <2>1. \A i \in 1..N : b[at + i] = e[i]
    BY <1>4, <1>5, <1>7
  <2> QED
    BY <1>4, <1>7, <2>1, CollectedIs DEF e, N
<1> QED
  BY <1>1, <1>2, <1>7, <1>8 DEF r, e

\* If it has arrived it can be read, unless it is too long for a limited reader.
LEMMA ReadVarIntComplete ==
  ASSUME NEW v \in 0..(2 ^ Width - 1), NEW b \in Seq(ByteValues), NEW at \in 0..Len(b),
         NEW limited \in BOOLEAN, Begins(b, at, WriteVarInt(v)),
         at + Len(WriteVarInt(v)) <= Len(b), limited => v < 2 ^ (Width - 1)
  PROVE  ReadGroups(b, at, limited).ok
<1> DEFINE r == ReadGroups(b, at, limited)
           last == {n \in 1..(Len(b) - at) : b[at + n] < Group \/ (limited /\ TooLong(n))}
           m == Min(last)
           e == WriteVarInt(v)
           N == Groups(v)
<1>1. r.ok <=> last # {} /\ ~(limited /\ TooLong(m))
  BY ReadGroupsIs
<1>2. /\ N \in 1..Width /\ e \in Seq(ByteValues) /\ Len(e) = N
      /\ \A i \in 1..N : e[i] < Group <=> i = N
  BY GroupsAre, WrittenVarIntIs
<1>3. /\ N \in Nat /\ N \in 1..N /\ N \in 1..(Len(b) - at)
      /\ at + N <= Len(b) /\ Width \in Nat
  BY <1>2, WidthsAssumption
<1>4. b[at + N] < Group
  BY <1>2, <1>3 DEF Begins
<1>5. N \in last
  BY <1>3, <1>4
<1>6. last \in SUBSET Nat
  <2>1. \A n \in last : n \in 1..(Len(b) - at)
    OBVIOUS
  <2> QED
    BY <2>1
<1>7. \A n \in last : n >= 1
  OBVIOUS
<1> HIDE DEF last, N
<1>8. m \in last /\ m <= N
  BY <1>5, <1>6, LeastIs
<1>9. m \in 1..N
  <2>1. m \in Nat /\ m >= 1
    BY <1>6, <1>7, <1>8
  <2> HIDE DEF m
  <2> QED
    BY <1>3, <1>8, <2>1
<1>10. limited => ~TooLong(m)
  <2>1. v \in Nat
    BY WidthsAssumption, TwoToNext
  <2> HIDE DEF m
  <2> QED
    BY <1>9, <2>1, ShortEnough DEF N
<1> QED
  BY <1>1, <1>5, <1>10

\* The bytes of a string begin with those of its length, and go on with its own.
LEMMA BeginsString ==
  ASSUME NEW s \in Seq(ByteValues), Len(s) < 2 ^ (ByteBits * LengthBytes),
         NEW b \in Seq(ByteValues), NEW at \in 0..Len(b), Begins(b, at, WriteString(s)),
         at + LengthBytes <= Len(b)
  PROVE  /\ ValueOf(Slice(b, at, LengthBytes), TRUE) = Len(s)
         /\ Begins(b, at + LengthBytes, s)
<1> DEFINE w == WriteUInt(Len(s), LengthBytes, TRUE)
           e == WriteString(s)
<1>1. LengthBytes \in Nat /\ at \in Nat
  BY WidthsAssumption
<1>2. /\ e \in Seq(ByteValues) /\ Len(e) = LengthBytes + Len(s)
      /\ w \in Seq(ByteValues) /\ Len(w) = LengthBytes /\ ValueOf(w, TRUE) = Len(s)
      /\ \A i \in 1..LengthBytes : e[i] = w[i]
      /\ \A i \in 1..Len(s) : e[LengthBytes + i] = s[i]
  BY WrittenStringIs
<1>3. \A i \in 1..Len(e) : at + i <= Len(b) => b[at + i] = e[i]
  BY DEF Begins
<1> HIDE DEF w, e
<1>4. Begins(b, at, w)
  <2>1. \A i \in 1..Len(w) : i \in 1..Len(e) /\ w[i] = e[i]
    BY <1>1, <1>2
  <2> QED
    BY <1>3, <2>1 DEF Begins
<1>5. Begins(b, at + LengthBytes, s)
  <2>1. SUFFICES ASSUME NEW i \in 1..Len(s), (at + LengthBytes) + i <= Len(b)
                 PROVE  b[(at + LengthBytes) + i] = s[i]
    BY DEF Begins
  <2>2. /\ LengthBytes + i \in 1..Len(e)
        /\ (at + LengthBytes) + i = at + (LengthBytes + i)
    BY <1>1, <1>2
  <2> QED
    BY <1>2, <1>3, <2>1, <2>2
<1>6. Slice(b, at, LengthBytes) = w
  BY <1>1, <1>2, <1>4, SliceOf
<1> QED
  BY <1>2, <1>5, <1>6

\* A field whose bytes are next is read as what was written, and the offset passes its
\* bytes and no others.
LEMMA DecodeExact ==
  ASSUME NEW f \in Fields, NEW b \in Seq(ByteValues), NEW at \in 0..Len(b),
         Begins(b, at, Encode(f)), Decode(f, b, at).ok
  PROVE  Decode(f, b, at).value = f.value /\ Decode(f, b, at).at = at + Len(Encode(f))
<1>1. at \in Nat /\ Len(b) \in Nat
  OBVIOUS
<1>2. CASE f.kind \in {"uint", "native"}
  <2>1. f.size \in Nat /\ f.value \in 0..(2 ^ (ByteBits * f.size) - 1)
    BY <1>2, FieldsAssumption
  <2>2. PICK network \in BOOLEAN : /\ Decode(f, b, at) = ReadUInt(b, at, f.size, network)
                                   /\ Encode(f) = WriteUInt(f.value, f.size, network)
    BY <1>2, DecodeOf, KindsAre
  <2> DEFINE e == WriteUInt(f.value, f.size, network)
             r == ReadUInt(b, at, f.size, network)
  <2>3. e \in Seq(ByteValues) /\ Len(e) = f.size /\ ValueOf(e, network) = f.value
    BY <2>1, WrittenUIntIs
  <2>4. /\ r.ok <=> at + f.size <= Len(b)
        /\ r.at = IF r.ok THEN at + f.size ELSE at
        /\ r.ok => r.value = ValueOf(Slice(b, at, f.size), network)
    BY <1>1, <2>1, ReadUIntIs
  <2>5. r.ok /\ Begins(b, at, e)
    BY <2>2
  <2> HIDE DEF e, r
  <2>6. Slice(b, at, f.size) = e
    BY <1>1, <2>3, <2>4, <2>5, SliceOf
  <2> QED
    BY <2>2, <2>3, <2>4, <2>5, <2>6 DEF e, r
<1>3. CASE f.kind = "string"
  <2> DEFINE s == f.value
             n == ValueOf(Slice(b, at, LengthBytes), TRUE)
             r == ReadString(b, at)
  <2>1. s \in Seq(ByteValues) /\ Len(s) < 2 ^ (ByteBits * LengthBytes)
    BY <1>3, FieldsAssumption
  <2>2. Decode(f, b, at) = r /\ Encode(f) = WriteString(s)
    BY <1>3, DecodeOf, KindsAre
  <2>3. /\ r.ok <=> at + LengthBytes <= Len(b) /\ at + LengthBytes + n <= Len(b)
        /\ r.ok => r.value = Slice(b, at + LengthBytes, n) /\ r.at = at + LengthBytes + n
    BY ReadStringIs
  <2>4. r.ok
    BY <2>2
  <2> HIDE DEF s, n, r
  <2>5. n = Len(s) /\ Begins(b, at + LengthBytes, s)
    BY <2>1, <2>2, <2>3, <2>4, BeginsString DEF n
  <2>6. at + LengthBytes \in Nat
    BY <1>1, WidthsAssumption
  <2>7. Slice(b, at + LengthBytes, n) = s
    BY <2>1, <2>3, <2>4, <2>5, <2>6, SliceOf
  <2>8. Len(Encode(f)) = LengthBytes + Len(s)
    BY <2>1, <2>2, WrittenStringIs
  <2>9. (at + LengthBytes) + Len(s) = at + (LengthBytes + Len(s))
    BY <1>1, <2>1, WidthsAssumption
  <2> QED
    BY <2>2, <2>3, <2>4, <2>5, <2>7, <2>8, <2>9 DEF s
<1>4. CASE f.kind = "bytes"
  <2> DEFINE r == ReadBytes(b, at, f.size)
  <2>1. f.value \in Seq(ByteValues) /\ f.size = Len(f.value) /\ f.size \in Nat
    BY <1>4, FieldsAssumption
  <2>2. Decode(f, b, at) = r /\ Encode(f) = f.value
    BY <1>4, DecodeOf, KindsAre
  <2>3. /\ r.ok <=> at + f.size <= Len(b)
        /\ r.at = IF r.ok THEN at + f.size ELSE at
        /\ r.ok => r.value = Slice(b, at, f.size)
    BY <2>1, ReadBytesIs
  <2> HIDE DEF r
  <2>4. Slice(b, at, f.size) = f.value
    BY <1>1, <2>1, <2>2, <2>3, SliceOf
  <2> QED
    BY <2>1, <2>2, <2>3, <2>4
<1>5. CASE f.kind \in {"varint", "compact"}
  <2>1. PICK limited \in BOOLEAN : Decode(f, b, at) = ReadGroups(b, at, limited)
    BY <1>5, DecodeOf
  <2>2. f.value \in 0..(2 ^ Width - 1) /\ Encode(f) = WriteVarInt(f.value)
    BY <1>5, FieldsAssumption, KindsAre
  <2>3. Begins(b, at, WriteVarInt(f.value)) /\ ReadGroups(b, at, limited).ok
    BY <2>1, <2>2
  <2>4. /\ ReadGroups(b, at, limited).value = f.value
        /\ ReadGroups(b, at, limited).at = at + Len(WriteVarInt(f.value))
    BY <2>2, <2>3, ReadVarIntExact
  <2> QED
    BY <2>1, <2>2, <2>4
<1> QED
  BY <1>2, <1>3, <1>4, <1>5, KindsAre DEF Kinds

\* A field that has arrived completely is read, unless its kind and its value are those
\* of an integer that readVarInt() refuses.
LEMMA DecodeComplete ==
  ASSUME NEW f \in Fields, NEW b \in Seq(ByteValues), NEW at \in 0..Len(b),
         Begins(b, at, Encode(f)), at + Len(Encode(f)) <= Len(b),
         ~(f.kind = "varint" /\ f.value >= 2 ^ (Width - 1))
  PROVE  Decode(f, b, at).ok
<1>1. at \in Nat /\ Len(b) \in Nat
  OBVIOUS
<1>2. CASE f.kind \in {"uint", "native"}
  <2>1. f.size \in Nat /\ f.value \in 0..(2 ^ (ByteBits * f.size) - 1)
    BY <1>2, FieldsAssumption
  <2>2. PICK network \in BOOLEAN : /\ Decode(f, b, at) = ReadUInt(b, at, f.size, network)
                                   /\ Encode(f) = WriteUInt(f.value, f.size, network)
    BY <1>2, DecodeOf, KindsAre
  <2>3. Len(Encode(f)) = f.size
    BY <2>1, <2>2, WrittenUIntIs
  <2> QED
    BY <1>1, <2>1, <2>2, <2>3, ReadUIntIs
<1>3. CASE f.kind = "string"
  <2> DEFINE s == f.value
             n == ValueOf(Slice(b, at, LengthBytes), TRUE)
             r == ReadString(b, at)
  <2>1. s \in Seq(ByteValues) /\ Len(s) < 2 ^ (ByteBits * LengthBytes)
    BY <1>3, FieldsAssumption
  <2>2. Decode(f, b, at) = r /\ Encode(f) = WriteString(s)
    BY <1>3, DecodeOf, KindsAre
  <2>3. r.ok <=> at + LengthBytes <= Len(b) /\ at + LengthBytes + n <= Len(b)
    BY ReadStringIs
  <2> HIDE DEF s, n, r
  <2>4. Len(Encode(f)) = LengthBytes + Len(s)
    BY <2>1, <2>2, WrittenStringIs
  <2>5. at + LengthBytes <= Len(b) /\ (at + LengthBytes) + Len(s) <= Len(b)
    BY <1>1, <2>1, <2>4, WidthsAssumption
  <2>6. n = Len(s)
    BY <2>1, <2>2, <2>5, BeginsString DEF n
  <2> QED
    BY <2>2, <2>3, <2>5, <2>6
<1>4. CASE f.kind = "bytes"
  <2>1. f.size \in Nat /\ Len(Encode(f)) = f.size
    <3>1. f.value \in Seq(ByteValues) /\ f.size = Len(f.value)
      BY <1>4, FieldsAssumption
    <3>2. Encode(f) = f.value
      BY <1>4, KindsAre
    <3> QED
      BY <3>1, <3>2
  <2>2. Decode(f, b, at) = ReadBytes(b, at, f.size)
    BY <1>4, DecodeOf
  <2> QED
    BY <2>1, <2>2, ReadBytesIs
<1>5. CASE f.kind = "varint"
  <2>1. /\ Decode(f, b, at) = ReadGroups(b, at, TRUE)
        /\ f.value \in 0..(2 ^ Width - 1) /\ Encode(f) = WriteVarInt(f.value)
    BY <1>5, FieldsAssumption, DecodeOf, KindsAre
  <2>2. f.value < 2 ^ (Width - 1)
    <3>1. 2 ^ (Width - 1) \in Nat /\ 2 ^ Width \in Nat
      BY WidthsAssumption, TwoToNext
    <3> QED
      BY <1>5, <2>1, <3>1
  <2> QED
    BY <2>1, <2>2, ReadVarIntComplete
<1>6. CASE f.kind = "compact"
  <2>1. /\ Decode(f, b, at) = ReadGroups(b, at, FALSE)
        /\ f.value \in 0..(2 ^ Width - 1) /\ Encode(f) = WriteVarInt(f.value)
    BY <1>6, FieldsAssumption, DecodeOf, KindsAre
  <2> QED
    BY <2>1, ReadVarIntComplete
<1> QED
  BY <1>2, <1>3, <1>4, <1>5, <1>6, KindsAre DEF Kinds

-----------------------------------------------------------------------------
(* The stream *)

\* What is written, on its way, and read.
CodecTypes ==
  /\ written \in Seq(Fields) /\ wire \in Seq(ByteValues) /\ buffer \in Seq(ByteValues)
  /\ offset \in 0..Len(buffer) /\ got \in Seq(Values) /\ Len(got) <= Len(written)
  /\ torn \in BOOLEAN

\* Field k ends at pos[k] of the stream, the buffer begins at base of it, and what is
\* not read lies there as it was written.
Placed(pos, base) ==
  /\ pos[Len(got)] = base + offset
  /\ pos[Len(written)] = base + Len(buffer) + Len(wire)
  /\ \A k \in 1..Len(written) : pos[k] = pos[k - 1] + Len(Encode(written[k]))
  /\ \A j, k \in 0..Len(written) : j <= k => pos[j] <= pos[k]
  /\ \A k \in (Len(got) + 1)..Len(written) : \A i \in 1..Len(Encode(written[k])) :
       (buffer \o wire)[(pos[k - 1] - base) + i] = Encode(written[k])[i]

\* A reader that puts its offset back is always at the beginning of a field.
StreamInv ==
  ~torn => \E pos \in [0..Len(written) -> Nat], base \in Nat : Placed(pos, base)

CodecInv == CodecTypes /\ StreamInv /\ ReadBack

\* Where a position in the stream is in what is left of it.
LEMMA Within ==
  ASSUME NEW p \in Nat, NEW i \in Nat, NEW base \in Nat, NEW n \in Nat,
         1 <= i, base <= p, p + i <= base + n
  PROVE  (p - base) + i \in 1..n
OBVIOUS

\* Where the reader is, the bytes of the field it expects are next; all have arrived when
\* nothing is on its way.
LEMMA NextField ==
  ASSUME CodecTypes, StreamInv, ~torn, Len(got) < Len(written)
  PROVE  /\ Begins(buffer, offset, Encode(Expected))
         /\ wire = <<>> => offset + Len(Encode(Expected)) <= Len(buffer)
<1> DEFINE n == Len(written)
           g == Len(got)
           e == Encode(Expected)
<1>1. PICK pos \in [0..n -> Nat], base \in Nat : Placed(pos, base)
  BY DEF StreamInv
<1>2. /\ n \in Nat /\ g \in Nat /\ g < n /\ g + 1 \in 1..n /\ (g + 1) - 1 = g
      /\ Len(buffer) \in Nat /\ offset \in 0..Len(buffer) /\ Len(wire) \in Nat
  BY DEF CodecTypes
<1>3. e \in Seq(ByteValues) /\ e = Encode(written[g + 1])
  <2>1. written[g + 1] \in Fields
    BY <1>2 DEF CodecTypes
  <2> QED
    BY <2>1, EncodeIs DEF Expected
<1> HIDE DEF e
<1>4. \A i \in 1..Len(e) : (buffer \o wire)[(pos[g] - base) + i] = e[i]
  <2>1. g + 1 \in (g + 1)..n
    BY <1>2
  <2> QED
    BY <1>1, <1>2, <1>3, <2>1 DEF Placed
<1>5. pos[g] - base = offset
  <2>1. pos[g] = base + offset
    BY <1>1 DEF Placed
  <2> QED
    BY <1>2, <2>1
<1>6. Begins(buffer, offset, e)
  <2>1. SUFFICES ASSUME NEW i \in 1..Len(e), offset + i <= Len(buffer)
                 PROVE  buffer[offset + i] = e[i]
    BY DEF Begins
  <2>2. offset + i \in 1..Len(buffer)
    BY <1>2, <1>3, <2>1
  <2>3. (buffer \o wire)[offset + i] = buffer[offset + i]
    BY <2>2, JoinedIs DEF CodecTypes
  <2> QED
    BY <1>4, <1>5, <2>3
<1>7. ASSUME wire = <<>> PROVE offset + Len(e) <= Len(buffer)
  <2>1. pos[g + 1] = pos[g] + Len(e)
    BY <1>1, <1>2, <1>3 DEF Placed
  <2>2. pos[g + 1] <= pos[n] /\ pos[n] = base + Len(buffer) + Len(wire)
    BY <1>1, <1>2 DEF Placed
  <2>3. Len(wire) = 0 /\ Len(e) \in Nat /\ pos[g] \in Nat
    BY <1>2, <1>3, <1>7
  <2> QED
    BY <1>2, <1>5, <2>1, <2>2, <2>3
<1> QED
  BY <1>6, <1>7 DEF e

\* The next field is one that may be written, and reading it keeps to what has arrived.
LEMMA OutcomeIs ==
  ASSUME CodecTypes, Len(got) < Len(written)
  PROVE  /\ Expected \in Fields /\ Expected = written[Len(got) + 1]
         /\ Outcome.ok \in BOOLEAN /\ Outcome.value \in Values
         /\ Outcome.at \in offset..Len(buffer)
<1>1. Len(got) + 1 \in 1..Len(written)
  BY DEF CodecTypes
<1>2. Expected \in Fields
  BY <1>1 DEF CodecTypes, Expected
<1> QED
  BY <1>2, DecodeIs DEF CodecTypes, Outcome, Expected

\* Writing adds the bytes of the field at the end of the stream.
LEMMA WriteStep ==
  ASSUME CodecInv, Write
  PROVE  CodecInv'
<1> USE DEF CodecInv
<1>1. PICK f \in Fields :
        /\ written' = Append(written, f)
        /\ wire' = wire \o Encode(f)
        /\ UNCHANGED <<buffer, offset, got, torn>>
  BY DEF Write
<1> DEFINE n == Len(written)
           g == Len(got)
           e == Encode(f)
<1>2. e \in Seq(ByteValues) /\ Len(e) \in Nat
  BY EncodeIs
<1>3. /\ written \in Seq(Fields) /\ n \in Nat /\ g \in Nat /\ g <= n
      /\ wire \in Seq(ByteValues) /\ buffer \in Seq(ByteValues)
      /\ offset \in 0..Len(buffer)
      /\ Len(buffer) \in Nat /\ Len(wire) \in Nat
  BY DEF CodecTypes
<1> HIDE DEF e
<1>4. /\ written' \in Seq(Fields) /\ Len(written') = n + 1 /\ written'[n + 1] = f
      /\ \A k \in 1..n : written'[k] = written[k]
  BY <1>1, <1>3
<1>5. wire' \in Seq(ByteValues) /\ Len(wire') = Len(wire) + Len(e)
  BY <1>1, <1>2, <1>3 DEF e
<1>6. CodecTypes'
  BY <1>1, <1>3, <1>4, <1>5 DEF CodecTypes
<1>7. ReadBack'
  <2>1. SUFFICES ASSUME ~torn, NEW i \in DOMAIN got PROVE got[i] = written'[i].value
    BY <1>1 DEF ReadBack
  <2>2. i \in 1..n
    BY <1>3 DEF CodecTypes
  <2> QED
    BY <1>4, <2>1, <2>2 DEF ReadBack
<1>8. StreamInv'
  <2>1. SUFFICES ASSUME ~torn
                 PROVE  \E pos \in [0..(n + 1) -> Nat], base \in Nat :
                          Placed(pos, base)'
    BY <1>1, <1>4 DEF StreamInv
  <2>2. PICK pos \in [0..n -> Nat], base \in Nat : Placed(pos, base)
    BY <2>1 DEF StreamInv
  <2>3. PICK new \in [0..(n + 1) -> Nat] :
          /\ pos[n] \in Nat /\ new[n + 1] = pos[n] + Len(e)
          /\ \A k \in 0..n : new[k] = pos[k]
    <3> DEFINE h == [k \in 0..(n + 1) |-> IF k <= n THEN pos[k] ELSE pos[n] + Len(e)]
    <3>1. /\ pos[n] \in Nat /\ h \in [0..(n + 1) -> Nat] /\ h[n + 1] = pos[n] + Len(e)
          /\ \A k \in 0..n : h[k] = pos[k]
      BY <1>2, <1>3
    <3> HIDE DEF h
    <3> QED
      BY <3>1
  <2> DEFINE s == buffer \o wire
             t == buffer' \o wire'
  <2>4. /\ t = s \o e /\ s \in Seq(ByteValues) /\ Len(s) = Len(buffer) + Len(wire)
        /\ \A i \in 1..Len(s) : t[i] = s[i]
        /\ \A i \in 1..Len(e) : t[Len(s) + i] = e[i]
    <3>1. t = s \o e
      <4>1. buffer' = buffer /\ wire' = wire \o e
        BY <1>1 DEF e
      <4>2. buffer \in Seq(ByteValues) /\ wire \in Seq(ByteValues) /\ e \in Seq(ByteValues)
        BY <1>2, <1>3
      <4>3. buffer \o (wire \o e) = (buffer \o wire) \o e
        BY SMTT(30), <4>2, JoinedThrice
      <4> QED
        BY <4>1, <4>3
    <3>2. s \in Seq(ByteValues) /\ Len(s) = Len(buffer) + Len(wire)
      BY <1>3
    <3> HIDE DEF s, t
    <3> QED
      BY <1>2, <3>1, <3>2, JoinedIs
  <2> HIDE DEF s, t
  <2>5. /\ pos[g] = base + offset /\ pos[n] = base + Len(s)
        /\ \A k \in 1..n : pos[k] = pos[k - 1] + Len(Encode(written[k]))
        /\ \A j, k \in 0..n : j <= k => pos[j] <= pos[k]
        /\ \A k \in (g + 1)..n : \A i \in 1..Len(Encode(written[k])) :
             s[(pos[k - 1] - base) + i] = Encode(written[k])[i]
    <3>1. pos[g] = base + offset /\ pos[n] = base + Len(buffer) + Len(wire)
      BY <2>2 DEF Placed
    <3>2. pos[n] = base + Len(s)
      BY <1>3, <2>4, <3>1
    <3> QED
      BY <2>2, <3>1, <3>2, Zenon DEF Placed, s
  <2>6. new[g] = base + offset
    BY <1>3, <2>3, <2>5
  <2>7. new[n + 1] = base + Len(buffer) + Len(wire')
    BY <1>2, <1>3, <1>5, <2>3, <2>4, <2>5
  <2>8. ASSUME NEW k \in 1..(n + 1)
        PROVE  new[k] = new[k - 1] + Len(Encode(written'[k]))
    <3>1. CASE k = n + 1
      BY <1>3, <1>4, <2>3, <3>1 DEF e
    <3>2. CASE k \in 1..n
      <4>1. k \in 0..n /\ k - 1 \in 0..n
        BY <1>3, <3>2
      <4> QED
        BY <1>4, <2>3, <2>5, <3>2, <4>1
    <3>3. k = n + 1 \/ k \in 1..n
      BY <1>3
    <3> QED
      BY <3>1, <3>2, <3>3
  <2>9. ASSUME NEW j \in 0..(n + 1), NEW k \in 0..(n + 1), j <= k PROVE new[j] <= new[k]
    <3>1. CASE k = n + 1 /\ j = n + 1
      BY <1>2, <2>3, <3>1
    <3>2. CASE k = n + 1 /\ j \in 0..n
      <4>1. j <= n /\ n \in 0..n
        BY <1>3, <3>2
      <4>3. pos[j] \in Nat
        BY <3>2
      <4>2. pos[j] <= pos[n]
        BY <2>5, <3>2, <4>1
      <4> QED
        BY <1>2, <2>3, <3>2, <4>2, <4>3
    <3>3. CASE k \in 0..n /\ j \in 0..n
      BY <2>3, <2>5, <2>9, <3>3
    <3> QED
      BY <1>3, <2>9, <3>1, <3>2, <3>3
  <2>10. ASSUME NEW k \in (g + 1)..(n + 1), NEW i \in 1..Len(Encode(written'[k]))
         PROVE  t[(new[k - 1] - base) + i] = Encode(written'[k])[i]
    <3>1. CASE k = n + 1
      <4>1. Encode(written'[k]) = e /\ new[k - 1] = base + Len(s)
        BY <1>3, <1>4, <2>3, <2>5, <3>1 DEF e
      <4>2. (new[k - 1] - base) + i = Len(s) + i
        BY <1>3, <2>4, <4>1
      <4> QED
        BY <2>4, <4>1, <4>2
    <3>2. CASE k \in (g + 1)..n
      <4>1. /\ k \in 1..n /\ k - 1 \in 0..n /\ k \in 0..n /\ g \in 0..n /\ g <= k - 1
            /\ n \in 0..n /\ k <= n
        BY <1>3, <3>2
      <4>2. written'[k] = written[k] /\ new[k - 1] = pos[k - 1]
        BY <1>4, <2>3, <4>1
      <4>3. /\ pos[g] <= pos[k - 1] /\ pos[k] <= pos[n] /\ pos[k - 1] \in Nat
            /\ pos[k] = pos[k - 1] + Len(Encode(written[k]))
        BY <2>5, <4>1
      <4>4. Len(Encode(written[k])) \in Nat
        BY <1>3, <4>1, EncodeIs
      <4>5. i \in Nat /\ 1 <= i /\ i <= Len(Encode(written[k]))
        BY <4>2, <4>4
      <4>6. base + offset <= pos[k - 1] /\ pos[k - 1] + i <= base + Len(s)
        BY <2>5, <4>3, <4>4, <4>5
      <4>7. Len(s) \in Nat /\ offset \in Nat
        BY <1>3, <2>4
      <4>8. base <= pos[k - 1]
        BY <4>3, <4>6, <4>7
      <4>9. (pos[k - 1] - base) + i \in 1..Len(s)
        BY <4>3, <4>5, <4>6, <4>7, <4>8, Within
      <4>10. t[(pos[k - 1] - base) + i] = s[(pos[k - 1] - base) + i]
        BY <2>4, <4>9
      <4>11. s[(pos[k - 1] - base) + i] = Encode(written[k])[i]
        BY <2>5, <3>2, <4>2
      <4> QED
        BY <4>2, <4>10, <4>11
    <3> QED
      BY <1>3, <3>1, <3>2
  <2>11. Placed(new, base)'
    <3>1. new[Len(got')] = base + offset' /\ Len(written') = n + 1
      BY <1>1, <1>4, <2>6
    <3>2. new[Len(written')] = base + Len(buffer') + Len(wire')
      BY <1>1, <2>7, <3>1
    <3> QED
      BY <1>1, <2>8, <2>9, <2>10, <3>1, <3>2, Zenon DEF Placed, t
  <2> QED
    BY <2>3, <2>11
<1> QED
  BY <1>6, <1>7, <1>8

\* What arrives moves from the end of the wire to the end of the buffer.
LEMMA ArriveStep ==
  ASSUME CodecInv, Arrive
  PROVE  CodecInv'
<1> USE DEF CodecInv
<1>1. PICK n \in 1..Len(wire) :
        /\ buffer' = buffer \o SubSeq(wire, 1, n)
        /\ wire' = SubSeq(wire, n + 1, Len(wire))
        /\ UNCHANGED <<written, offset, got, torn>>
  BY DEF Arrive
<1>2. /\ wire \in Seq(ByteValues) /\ buffer \in Seq(ByteValues)
      /\ offset \in 0..Len(buffer)
      /\ Len(buffer) \in Nat /\ Len(wire) \in Nat /\ n \in Nat /\ n <= Len(wire)
  BY <1>1 DEF CodecTypes
<1> DEFINE a == SubSeq(wire, 1, n)
           c == SubSeq(wire, n + 1, Len(wire))
<1>3. /\ a \in Seq(ByteValues) /\ Len(a) = n
      /\ c \in Seq(ByteValues) /\ Len(c) = Len(wire) - n
      /\ \A i \in 1..n : a[i] = wire[i]
      /\ \A i \in 1..(Len(wire) - n) : c[i] = wire[n + i]
  BY <1>1, <1>2
<1> HIDE DEF a, c
<1>4. a \o c = wire
  BY <1>1, <1>2, Joined DEF a, c
<1>5. buffer' \o wire' = buffer \o wire
  <2>1. buffer' = buffer \o a /\ wire' = c
    BY <1>1 DEF a, c
  <2>2. buffer \in Seq(ByteValues) /\ a \in Seq(ByteValues) /\ c \in Seq(ByteValues)
    BY <1>2, <1>3
  <2>3. buffer \o (a \o c) = (buffer \o a) \o c
    BY SMTT(30), <2>2, JoinedThrice
  <2> QED
    BY <1>4, <2>1, <2>3
<1>6. /\ buffer' \in Seq(ByteValues) /\ Len(buffer') = Len(buffer) + n
      /\ wire' \in Seq(ByteValues) /\ Len(wire') = Len(wire) - n
  <2>1. buffer' = buffer \o a /\ wire' = c
    BY <1>1 DEF a, c
  <2>2. buffer \in Seq(ByteValues) /\ a \in Seq(ByteValues)
    BY <1>2, <1>3
  <2>3. buffer \o a \in Seq(ByteValues) /\ Len(buffer \o a) = Len(buffer) + Len(a)
    BY <2>2, JoinedIs
  <2> QED
    BY <1>3, <2>1, <2>3
<1>7. CodecTypes'
  BY <1>1, <1>2, <1>6 DEF CodecTypes
<1>8. ReadBack'
  BY <1>1 DEF ReadBack
<1>9. StreamInv'
  <2>1. SUFFICES ASSUME ~torn
                 PROVE  \E pos \in [0..Len(written) -> Nat], base \in Nat :
                          Placed(pos, base)'
    BY <1>1 DEF StreamInv
  <2>2. PICK pos \in [0..Len(written) -> Nat], base \in Nat : Placed(pos, base)
    BY <2>1 DEF StreamInv
  <2>3. base + Len(buffer') + Len(wire') = base + Len(buffer) + Len(wire)
    BY <1>2, <1>6
  <2>4. Placed(pos, base)'
    <3>1. pos[Len(written)] = base + Len(buffer') + Len(wire')
      BY <2>2, <2>3, Zenon DEF Placed
    <3> QED
      BY <1>1, <1>5, <2>2, <3>1, Zenon DEF Placed
  <2> QED
    BY <2>4
<1> QED
  BY <1>7, <1>8, <1>9

\* What is read is the field that was written, and the next one follows it.
LEMMA ReadStep ==
  ASSUME CodecInv, Read
  PROVE  CodecInv'
<1> USE DEF CodecInv
<1>1. /\ Len(got) < Len(written) /\ Outcome.ok /\ got' = Append(got, Outcome.value)
      /\ offset' = Outcome.at /\ UNCHANGED <<written, wire, buffer, torn>>
  BY DEF Read
<1>2. /\ Expected \in Fields /\ Expected = written[Len(got) + 1]
      /\ Outcome.value \in Values /\ Outcome.at \in offset..Len(buffer)
  BY <1>1, OutcomeIs
<1>3. /\ written \in Seq(Fields) /\ buffer \in Seq(ByteValues)
      /\ offset \in 0..Len(buffer)
      /\ Len(written) \in Nat /\ Len(got) \in Nat /\ Len(buffer) \in Nat
      /\ got \in Seq(Values) /\ Len(got) + 1 <= Len(written)
  BY <1>1 DEF CodecTypes
<1>4. /\ got' \in Seq(Values) /\ Len(got') = Len(got) + 1
      /\ got'[Len(got) + 1] = Outcome.value
      /\ \A i \in 1..Len(got) : got'[i] = got[i]
  BY <1>1, <1>2, <1>3
<1>5. CodecTypes'
  BY <1>1, <1>2, <1>3, <1>4 DEF CodecTypes
<1>6. ASSUME ~torn
      PROVE  /\ Outcome.value = written[Len(got) + 1].value
             /\ Outcome.at = offset + Len(Encode(written[Len(got) + 1]))
  <2>1. Begins(buffer, offset, Encode(Expected))
    BY <1>1, <1>6, NextField
  <2>2. Outcome = Decode(Expected, buffer, offset)
    BY DEF Outcome
  <2> QED
    BY <1>1, <1>2, <1>3, <2>1, <2>2, DecodeExact
<1>7. ReadBack'
  <2>1. SUFFICES ASSUME ~torn, NEW i \in DOMAIN got' PROVE got'[i] = written[i].value
    BY <1>1 DEF ReadBack
  <2>2. i \in 1..(Len(got) + 1)
    BY <1>4
  <2>3. CASE i = Len(got) + 1
    BY <1>4, <1>6, <2>1, <2>3
  <2>4. CASE i \in 1..Len(got)
    <3>1. i \in DOMAIN got
      BY <1>3, <2>4
    <3> QED
      BY <1>4, <2>1, <2>4, <3>1 DEF ReadBack
  <2> QED
    BY <1>3, <2>2, <2>3, <2>4
<1>8. StreamInv'
  <2>1. SUFFICES ASSUME ~torn
                 PROVE  \E pos \in [0..Len(written) -> Nat], base \in Nat :
                          Placed(pos, base)'
    BY <1>1 DEF StreamInv
  <2>2. PICK pos \in [0..Len(written) -> Nat], base \in Nat : Placed(pos, base)
    BY <2>1 DEF StreamInv
  <2>3. pos[Len(got')] = base + offset'
    <3>1. Len(got) + 1 \in 1..Len(written) /\ (Len(got) + 1) - 1 = Len(got)
      BY <1>3
    <3>2. /\ pos[Len(got)] = base + offset
          /\ pos[Len(got) + 1] = pos[Len(got)] + Len(Encode(written[Len(got) + 1]))
      BY <2>2, <3>1 DEF Placed
    <3>3. Len(Encode(written[Len(got) + 1])) \in Nat
      BY <1>2, EncodeIs
    <3> QED
      BY <1>1, <1>3, <1>4, <1>6, <2>1, <3>2, <3>3
  <2>4. ASSUME NEW k \in (Len(got') + 1)..Len(written),
               NEW i \in 1..Len(Encode(written[k]))
        PROVE  (buffer \o wire)[(pos[k - 1] - base) + i] = Encode(written[k])[i]
    <3>1. k \in (Len(got) + 1)..Len(written)
      BY <1>3, <1>4
    <3> QED
      BY <2>2, <3>1 DEF Placed
  <2>5. Placed(pos, base)'
    BY <1>1, <2>2, <2>3, <2>4, Zenon DEF Placed
  <2> QED
    BY <2>5
<1> QED
  BY <1>5, <1>7, <1>8

\* A failed read moves the offset within the buffer, and is torn.
LEMMA ReadThrowsStep ==
  ASSUME CodecInv, ReadThrows
  PROVE  CodecInv'
<1> USE DEF CodecInv
<1>1. /\ Len(got) < Len(written) /\ offset' = Outcome.at /\ torn' = TRUE
      /\ UNCHANGED <<written, wire, buffer, got>>
  BY DEF ReadThrows
<1>2. Outcome.at \in offset..Len(buffer)
  BY <1>1, OutcomeIs
<1>3. CodecTypes'
  BY <1>1, <1>2 DEF CodecTypes
<1> QED
  BY <1>1, <1>3 DEF StreamInv, ReadBack

\* What has been read is taken out of the buffer, and the rest keeps its order.
LEMMA ConsumeReadStep ==
  ASSUME CodecInv, ConsumeRead
  PROVE  CodecInv'
<1> USE DEF CodecInv
<1>1. /\ buffer' = SubSeq(buffer, offset + 1, Len(buffer)) /\ offset' = 0
      /\ UNCHANGED <<written, wire, got, torn>>
  BY DEF ConsumeRead
<1>2. /\ wire \in Seq(ByteValues) /\ buffer \in Seq(ByteValues) /\ offset \in Nat
      /\ offset <= Len(buffer) /\ Len(buffer) \in Nat /\ Len(wire) \in Nat
      /\ Len(written) \in Nat /\ Len(got) \in Nat /\ Len(got) <= Len(written)
      /\ written \in Seq(Fields)
  BY DEF CodecTypes
<1>3. /\ buffer' \in Seq(ByteValues) /\ Len(buffer') = Len(buffer) - offset
      /\ \A i \in 1..(Len(buffer) - offset) : buffer'[i] = buffer[offset + i]
  BY <1>1, <1>2
<1>4. CodecTypes'
  BY <1>1, <1>3 DEF CodecTypes
<1>5. ReadBack'
  BY <1>1 DEF ReadBack
<1>6. ASSUME NEW i \in 1..(Len(buffer') + Len(wire))
      PROVE  (buffer' \o wire)[i] = (buffer \o wire)[offset + i]
  <2>1. CASE i <= Len(buffer')
    <3>1. i \in 1..Len(buffer') /\ offset + i \in 1..Len(buffer)
      BY <1>2, <1>3, <2>1
    <3> QED
      BY <1>2, <1>3, <3>1, JoinedIs
  <2>2. CASE i > Len(buffer')
    <3> DEFINE j == i - Len(buffer')
    <3>1. /\ j \in 1..Len(wire) /\ i = Len(buffer') + j /\ offset + i = Len(buffer) + j
      BY <1>2, <1>3, <2>2
    <3>2. (buffer' \o wire)[Len(buffer') + j] = wire[j]
      BY <1>2, <1>3, <3>1, JoinedIs
    <3>3. (buffer \o wire)[Len(buffer) + j] = wire[j]
      BY <1>2, <3>1, JoinedIs
    <3> QED
      BY <3>1, <3>2, <3>3
  <2> QED
    BY <1>2, <1>3, <2>1, <2>2
<1>7. StreamInv'
  <2>1. SUFFICES ASSUME ~torn
                 PROVE  \E pos \in [0..Len(written) -> Nat], base \in Nat :
                          Placed(pos, base)'
    BY <1>1 DEF StreamInv
  <2>2. PICK pos \in [0..Len(written) -> Nat], base \in Nat : Placed(pos, base)
    BY <2>1 DEF StreamInv
  <2>3. PICK new \in Nat : new = base + offset
    BY <1>2
  <2>4. /\ pos[Len(got)] = base + offset
        /\ pos[Len(written)] = base + Len(buffer) + Len(wire)
        /\ \A k \in 1..Len(written) : pos[k] = pos[k - 1] + Len(Encode(written[k]))
        /\ \A j, k \in 0..Len(written) : j <= k => pos[j] <= pos[k]
    BY <2>2 DEF Placed
  <2>5. /\ pos[Len(got)] = new + 0
        /\ pos[Len(written)] = new + Len(buffer') + Len(wire)
    BY <1>2, <1>3, <2>3, <2>4
  <2>6. ASSUME NEW k \in (Len(got) + 1)..Len(written),
               NEW i \in 1..Len(Encode(written[k]))
        PROVE  (buffer' \o wire)[(pos[k - 1] - new) + i] = Encode(written[k])[i]
    <3>1. /\ k \in 1..Len(written) /\ k - 1 \in 0..Len(written) /\ k \in 0..Len(written)
          /\ Len(written) \in 0..Len(written) /\ Len(got) \in 0..Len(written)
          /\ Len(got) <= k - 1 /\ k <= Len(written)
      BY <1>2
    <3>2. /\ pos[Len(got)] <= pos[k - 1] /\ pos[k] <= pos[Len(written)]
          /\ pos[k] = pos[k - 1] + Len(Encode(written[k]))
      BY <2>4, <3>1
    <3>3. pos[k - 1] \in Nat /\ Len(Encode(written[k])) \in Nat /\ i \in Nat
      <4>1. pos[k - 1] \in Nat
        BY <3>1
      <4>2. written[k] \in Fields
        BY <1>2, <3>1
      <4>3. Encode(written[k]) \in Seq(ByteValues)
        BY <4>2, EncodeIs
      <4> QED
        BY <4>1, <4>3
    <3>4. (pos[k - 1] - new) + i \in 1..(Len(buffer') + Len(wire))
      <4>1. Len(buffer') \in Nat /\ 1 <= i /\ i <= Len(Encode(written[k]))
        BY <1>2, <1>3, <3>3
      <4>2. new <= pos[k - 1] /\ pos[k - 1] + i <= new + Len(buffer') + Len(wire)
        <5>1. pos[k - 1] + i <= pos[k] /\ pos[k] \in Nat
          BY <3>2, <3>3, <4>1
        <5>2. new + Len(buffer') + Len(wire) \in Nat /\ new + 0 = new
          BY <1>2, <4>1
        <5> QED
          BY <2>5, <3>2, <3>3, <5>1, <5>2
      <4>3. Len(buffer') + Len(wire) \in Nat
        BY <1>2, <4>1
      <4>4. pos[k - 1] + i <= new + (Len(buffer') + Len(wire))
        BY <1>2, <3>3, <4>1, <4>2
      <4> QED
        BY <3>3, <4>1, <4>2, <4>3, <4>4, Within
    <3>5. offset + ((pos[k - 1] - new) + i) = (pos[k - 1] - base) + i
      BY <1>2, <2>3, <3>3
    <3>6. (buffer \o wire)[(pos[k - 1] - base) + i] = Encode(written[k])[i]
      BY <2>2 DEF Placed
    <3> QED
      BY <1>6, <3>4, <3>5, <3>6
  <2>7. Placed(pos, new)'
    BY <1>1, <2>4, <2>5, <2>6, Zenon DEF Placed
  <2> QED
    BY <2>7
<1> QED
  BY <1>4, <1>5, <1>7

-----------------------------------------------------------------------------
\* Nothing has been written.
LEMMA CodecInitInductive ==
  ASSUME CodecInit
  PROVE  CodecInv
<1> DEFINE pos == [k \in 0..0 |-> 0]
<1>1. CodecTypes
  <2>1. /\ <<>> \in Seq(Fields) /\ <<>> \in Seq(ByteValues) /\ <<>> \in Seq(Values)
        /\ Len(<<>>) = 0 /\ 0 \in 0..0 /\ 0 <= 0
    OBVIOUS
  <2> QED
    BY <2>1, Zenon DEF CodecInit, CodecTypes
<1>2. ReadBack
  BY DEF CodecInit, ReadBack
<1>3. StreamInv
  <2>1. Len(written) = 0 /\ Len(got) = 0 /\ Len(buffer) = 0 /\ Len(wire) = 0 /\ offset = 0
    BY DEF CodecInit
  <2>2. pos \in [0..Len(written) -> Nat] /\ pos[0] = 0
    BY <2>1
  <2> HIDE DEF pos
  <2>3. Placed(pos, 0)
    BY <2>1, <2>2 DEF Placed
  <2> QED
    BY <2>2, <2>3 DEF StreamInv
<1> QED
  BY <1>1, <1>2, <1>3 DEF CodecInv

\* Every step of the writer, the network and the reader keeps the stream in place.
LEMMA CodecNextInductive ==
  ASSUME CodecInv, [CodecNext]_codecVars
  PROVE  CodecInv'
<1>1. CASE Write
  BY <1>1, WriteStep
<1>2. CASE Arrive
  BY <1>2, ArriveStep
<1>3. CASE Read
  BY <1>3, ReadStep
<1>4. CASE ReadThrows
  BY <1>4, ReadThrowsStep
<1>5. CASE ConsumeRead
  BY <1>5, ConsumeReadStep
<1>6. CASE UNCHANGED codecVars
  <2>1. CodecTypes' /\ ReadBack'
    BY <1>6 DEF codecVars, CodecInv, CodecTypes, ReadBack
  <2>2. StreamInv'
    <3>1. UNCHANGED <<written, wire, buffer, offset, got, torn>>
      BY <1>6 DEF codecVars
    <3>2. SUFFICES ASSUME ~torn
                   PROVE  \E pos \in [0..Len(written) -> Nat], base \in Nat :
                            Placed(pos, base)'
      BY <3>1 DEF StreamInv
    <3>3. PICK pos \in [0..Len(written) -> Nat], base \in Nat : Placed(pos, base)
      BY <3>2 DEF CodecInv, StreamInv
    <3>4. Placed(pos, base)'
      BY <3>1, <3>3, Zenon DEF Placed
    <3> QED
      BY <3>4
  <2> QED
    BY <2>1, <2>2 DEF CodecInv
<1> QED
  BY <1>1, <1>2, <1>3, <1>4, <1>5, <1>6 DEF CodecNext

\* The codec's inductive invariant holds in every state.
LEMMA CodecInvariant == CodecSpec => []CodecInv
<1>1. CodecInit => CodecInv
  BY CodecInitInductive
<1>2. CodecInv /\ [CodecNext]_codecVars => CodecInv'
  BY CodecNextInductive
<1> QED
  BY <1>1, <1>2, PTL DEF CodecSpec

\* NetworkBufferUtils: what is written, on the wire and in the buffer is made of fields
\* and bytes, the offset is in the buffer, and no more is read than was written.
THEOREM CodecTypeCorrect == CodecSpec => []CodecTypes
<1>1. CodecInv => CodecTypes
  BY DEF CodecInv
<1> QED
  BY <1>1, CodecInvariant, PTL

\* No read of NetworkBufferUtils starts or ends outside the bytes that have arrived.
THEOREM OffsetCorrect == CodecSpec => []OffsetInside
<1>1. CodecInv => OffsetInside
  <2>1. SUFFICES ASSUME CodecInv PROVE OffsetInside
    OBVIOUS
  <2>2. CodecTypes
    BY <2>1 DEF CodecInv
  <2> QED
    BY <2>2, OutcomeIs DEF OffsetInside, CodecTypes
<1> QED
  BY <1>1, CodecInvariant, PTL

\* Every read*() gives back what its write*() was given, whatever the widths, the fields
\* and the pieces in which the bytes arrive, if the reader puts its offset back after a
\* read that threw.
THEOREM ReadBackCorrect == CodecSpec => []ReadBack
<1>1. CodecInv => ReadBack
  BY DEF CodecInv
<1> QED
  BY <1>1, CodecInvariant, PTL

\* A field that has arrived completely can be read, but for the integers with the top
\* bit that readVarInt() refuses.
THEOREM ArrivedCorrect == CodecSpec => []ArrivedIsReadable
<1>1. CodecInv => ArrivedIsReadable
  <2>1. SUFFICES ASSUME CodecInv, wire = <<>>, ~torn, Len(got) < Len(written),
                        ~(Expected.kind = "varint" /\ Expected.value >= 2 ^ (Width - 1))
                 PROVE  Outcome.ok
    BY DEF ArrivedIsReadable
  <2>2. CodecTypes /\ StreamInv
    BY <2>1 DEF CodecInv
  <2>3. /\ Begins(buffer, offset, Encode(Expected))
        /\ offset + Len(Encode(Expected)) <= Len(buffer)
    BY <2>1, <2>2, NextField
  <2>4. Expected \in Fields
    BY <2>1, <2>2, OutcomeIs
  <2> QED
    BY <2>1, <2>2, <2>3, <2>4, DecodeComplete DEF CodecTypes, Outcome
<1> QED
  BY <1>1, CodecInvariant, PTL
=============================================================================
