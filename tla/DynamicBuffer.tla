--------------------------- MODULE DynamicBuffer ---------------------------
(***************************************************************************)
(* DynamicBuffer: a std::vector<uint8_t> and two positions in it between   *)
(* which the content lies.  append() and consume() make it a byte queue;   *)
(* reserve(), resize() and the writable data() let a read of the socket    *)
(* put bytes behind the content, in memory the vector owns but does not    *)
(* count among its elements.                                               *)
(*                                                                         *)
(* The operators on buffers are functions of the code, one for each, and   *)
(* the actions are its public operations.  Bytes are told apart by the     *)
(* order in which they were put into the buffer.                           *)
(***************************************************************************)
EXTENDS Integers, Sequences

CONSTANTS
  Initial,      \* initialCapacity
  Junk,         \* what fresh memory holds
  Zero,         \* what vector::resize() writes
  SizeMod,      \* size_t counts modulo SizeMod
  MaxLength,    \* bound: bytes of one operation
  MaxBytes,     \* bound: bytes put into the buffer
  MaxCapacity   \* bound: arguments of reserve() and resize()

ASSUME BytesAssumption == Junk \notin Nat /\ Zero \notin Nat /\ Junk # Zero
ASSUME SizesAssumption ==
  /\ {Initial, MaxLength, MaxBytes, MaxCapacity} \subseteq Nat
  /\ SizeMod \in Nat /\ SizeMod > 4 * (Initial + MaxLength + MaxBytes + MaxCapacity + 1)

VARIABLES
  buf,          \* the buffer: memory, elements, readPos_ and writePos_
  puts,         \* bytes that have been put into it
  content,      \* history: what a byte queue would hold
  inPlace,      \* history: bytes arrived behind the elements of the vector
  spoilt        \* history: such bytes were overwritten or left behind

vars == <<buf, puts, content, inPlace, spoilt>>

-----------------------------------------------------------------------------
(* The vector: mem is its allocation, len its size() *)

Least(a, b) == IF a < b THEN a ELSE b
Most(a, b)  == IF a > b THEN a ELSE b

Capacity(b) == Len(b.mem)

\* vector::reserve: a new allocation gets the elements and nothing else.
VectorReserve(b, n) ==
  IF n <= Capacity(b) THEN b
  ELSE [b EXCEPT !.mem = [i \in 1..n |-> IF i <= b.len THEN b.mem[i] ELSE Junk]]

\* vector::resize within the capacity: new elements are zero.
VectorResize(b, n) ==
  [b EXCEPT !.len = n,
            !.mem = [i \in 1..Capacity(b) |-> IF b.len < i /\ i <= n THEN Zero
                                              ELSE b.mem[i]]]

\* memcpy of s to position p.
Store(b, p, s) ==
  [b EXCEPT !.mem = [i \in 1..Capacity(b) |->
                       IF p < i /\ i <= p + Len(s) THEN s[i - p] ELSE b.mem[i]]]

-----------------------------------------------------------------------------
(* The functions of the class *)

Size(b) == b.wp - b.rp

\* toVector(), toString(): what lies between the positions.
Bytes(b) == [i \in 1..Size(b) |-> b.mem[b.rp + i]]

\* Mutation: the content is not moved.
CompactMovesNothing(b) == [b EXCEPT !.rp = 0, !.wp = Size(b)]

Compact(b) ==
  IF b.rp = 0 THEN b ELSE [Store(b, 0, Bytes(b)) EXCEPT !.rp = 0, !.wp = Size(b)]

\* Mutation: what lies before readPos_ is taken for free room behind the content.
EnsureCapacityFromSize(b, n) ==
  IF Size(b) + n <= Capacity(b) THEN b
  ELSE LET c == Compact(b) IN VectorReserve(c, Most(2 * Capacity(c), c.wp + n))

\* The sums are those of size_t.
EnsureCapacity(b, n) ==
  LET Fits(c) == (c.wp + n) % SizeMod <= Capacity(c)
      c == Compact(b)
  IN  IF Fits(b) THEN b
      ELSE IF Fits(c) THEN c
      ELSE VectorReserve(c, Most(2 * Capacity(c), (c.wp + n) % SizeMod))

\* reserve() compacts before it looks for memory.
ReserveBuffer(b, n) == IF n > Capacity(b) THEN VectorReserve(Compact(b), n) ELSE b

\* resize() moves writePos_ and leaves the elements of the vector alone; when
\* newSize is less than size() the difference wraps around and comes back.
ResizeBuffer(b, n) ==
  LET c == EnsureCapacity(b, (n - Size(b)) % SizeMod) IN [c EXCEPT !.wp = c.rp + n]

AppendBytes(b, s) ==
  LET c == EnsureCapacity(b, Len(s))
      d == IF c.wp + Len(s) > c.len THEN VectorResize(c, c.wp + Len(s)) ELSE c
  IN  [Store(d, d.wp, s) EXCEPT !.wp = d.wp + Len(s)]

\* consume(): room is won back when more than half of the elements are behind.
ConsumeBytes(b, n) ==
  IF n >= Size(b) THEN [b EXCEPT !.rp = 0, !.wp = 0]
  ELSE LET c == [b EXCEPT !.rp = b.rp + n]
       IN  IF c.rp > c.len \div 2 THEN Compact(c) ELSE c

-----------------------------------------------------------------------------
\* acquire() of the pool, which nothing is ever released to: a new buffer.
Init ==
  /\ buf = [mem |-> [i \in 1..Initial |-> Junk], len |-> 0, rp |-> 0, wp |-> 0]
  /\ puts = 0 /\ content = <<>> /\ inPlace = FALSE /\ spoilt = FALSE

\* Fresh bytes.
NewBytes(n) == [i \in 1..n |-> puts + i]

\* Bytes behind the elements do not survive a new allocation or new elements.
AtRisk(b) == b.wp > b.len /\ Size(b) > 0

Append_(n) ==
  /\ n > 0 /\ puts + n <= MaxBytes
  /\ buf' = AppendBytes(buf, NewBytes(n))
  /\ puts' = puts + n
  /\ content' = content \o NewBytes(n)
  /\ spoilt' = (spoilt \/ AtRisk(buf))
  /\ UNCHANGED inPlace

Consume(n) ==
  /\ buf' = ConsumeBytes(buf, n)
  /\ content' = SubSeq(content, n + 1, Len(content))
  /\ inPlace' = (inPlace /\ n < Size(buf))
  /\ spoilt' = (spoilt /\ n < Size(buf))
  /\ UNCHANGED puts

Clear ==
  /\ buf' = [buf EXCEPT !.len = 0, !.rp = 0, !.wp = 0]
  /\ content' = <<>> /\ inPlace' = FALSE /\ spoilt' = FALSE
  /\ UNCHANGED puts

Reserve(n) ==
  /\ buf' = ReserveBuffer(buf, n)
  /\ spoilt' = (spoilt \/ (AtRisk(buf) /\ n > Capacity(buf)))
  /\ UNCHANGED <<puts, content, inPlace>>

\* resize() to less than size() cuts the end off.
Truncate(n) ==
  /\ n < Size(buf)
  /\ buf' = ResizeBuffer(buf, n)
  /\ content' = SubSeq(content, 1, n)
  /\ UNCHANGED <<puts, inPlace, spoilt>>

\* resize() to more than size() takes in whatever lies behind the content, for
\* the caller to write over; only a new allocation copies elements.
Grow(n) ==
  /\ n > Size(buf) /\ puts + n - Size(buf) <= MaxBytes
  /\ buf' = ResizeBuffer(buf, n)
  /\ content' = content \o SubSeq(Bytes(buf'), Size(buf) + 1, n)
  /\ inPlace' = (inPlace \/ buf'.wp > buf'.len)
  /\ spoilt' = (spoilt \/ (AtRisk(buf) /\ Capacity(buf') # Capacity(buf)))
  /\ puts' = puts + n - Size(buf)

\* startRead() and handleRead(): async_read_some puts n bytes behind the
\* content of a buffer nothing was consumed from, and resize() takes them in.
Receive(n) ==
  /\ n > 0 /\ puts + n <= MaxBytes
  /\ buf.rp = 0 /\ n <= Capacity(buf) - Size(buf)
  /\ buf' = ResizeBuffer(Store(buf, buf.wp, NewBytes(n)), Size(buf) + n)
  /\ puts' = puts + n
  /\ content' = content \o NewBytes(n)
  /\ inPlace' = TRUE
  /\ UNCHANGED spoilt

Next ==
  \/ \E n \in 0..MaxLength : Append_(n) \/ Consume(n) \/ Receive(n)
  \/ \E n \in 0..MaxCapacity : Reserve(n) \/ Truncate(n) \/ Grow(n)
  \/ Clear

Spec == Init /\ [][Next]_vars

-----------------------------------------------------------------------------
Cells == Nat \cup {Junk, Zero}

\* Every access is inside the allocation, through all sequences of calls and
\* through the wrap-around in resize(); unless bytes were received in place, it
\* is also inside the elements, as the iterators of toVector() require.
TypeOK ==
  /\ buf.mem \in Seq(Cells) /\ {buf.len, buf.rp, buf.wp} \subseteq Nat
  /\ buf.rp <= buf.wp /\ buf.wp <= Capacity(buf) /\ buf.len <= Capacity(buf)
  /\ ~inPlace => buf.wp <= buf.len
  /\ puts \in 0..MaxBytes /\ content \in Seq(Cells)
  /\ inPlace \in BOOLEAN /\ spoilt \in BOOLEAN

\* The buffer is a byte queue, except for bytes received in place: appending to
\* them or reserving more memory destroys them.
ByteQueue == ~spoilt => Bytes(buf) = content
=============================================================================
