----------------------------- MODULE BufferCodec -----------------------------
(***************************************************************************)
(* NetworkBufferUtils, and the compact integers of the serialization       *)
(* wrapper: a writer encodes fields, the bytes arrive in pieces, and a     *)
(* reader that knows the kinds of the fields decodes them at an offset     *)
(* into what has arrived.  A read that fails has thrown; the offset is     *)
(* where the code leaves it.                                               *)
(*                                                                         *)
(* The sizes are parameters: a byte has GroupBits bits and one that says   *)
(* that a variable-length integer goes on, and the integers have Width     *)
(* bits.  Floats are integers of their bits.                               *)
(***************************************************************************)
EXTENDS Naturals, Sequences, SequencesExt, FiniteSetsExt

CONSTANTS
  GroupBits,    \* bits of a variable-length integer in a byte: 7
  Width,        \* bits of the integers: 64
  LengthBytes,  \* bytes of the length of a string: 4
  Fields,       \* what the writer may write
  MaxFields     \* bound: fields written

ByteBits   == GroupBits + 1
Group      == 2 ^ GroupBits
ByteMod    == 2 ^ ByteBits
ByteValues == 0..(ByteMod - 1)
Kinds      == {"uint", "native", "string", "bytes", "varint", "compact"}

ASSUME WidthsAssumption ==
  /\ GroupBits \in Nat \ {0} /\ Width \in Nat /\ Width > GroupBits
  /\ Width % GroupBits = 1
  /\ LengthBytes \in Nat \ {0} /\ MaxFields \in Nat

\* A field has a kind, a number of bytes where the reader gives one, and a
\* value: a number, or the bytes of a string or of raw bytes.
ASSUME FieldsAssumption ==
  \A f \in Fields :
    /\ f.kind \in Kinds
    /\ f.kind \in {"uint", "native"} =>
         f.size \in Nat /\ f.value \in 0..(2 ^ (ByteBits * f.size) - 1)
    /\ f.kind \in {"string", "bytes"} => f.value \in Seq(ByteValues)
    /\ f.kind = "bytes" => f.size = Len(f.value)
    /\ f.kind = "string" => Len(f.value) < 2 ^ (ByteBits * LengthBytes)
    /\ f.kind \in {"varint", "compact"} => f.value \in 0..(2 ^ Width - 1)

VARIABLES
  written,      \* the fields that have been written
  wire,         \* their bytes that have not arrived
  buffer,       \* the bytes that have arrived and not been consumed
  offset,       \* where the reader is in buffer
  got,          \* the values that have been read
  torn          \* history: a failed read was not undone by the reader

codecVars == <<written, wire, buffer, offset, got, torn>>

-----------------------------------------------------------------------------
(* Writing *)

\* Integers of n bytes, the most significant byte first.
BigEndian(v, n) == [i \in 1..n |-> (v \div 2 ^ (ByteBits * (n - i))) % ByteMod]

\* The bytes of an integer, in network byte order or as the machine has them.
WriteUInt(v, n, network) == IF network THEN BigEndian(v, n) ELSE Reverse(BigEndian(v, n))

WriteString(s) == WriteUInt(Len(s), LengthBytes, TRUE) \o s

\* How many groups of bits an integer has, at least one.
Groups(v) == Min({n \in 1..Width : v < 2 ^ (GroupBits * n)})

\* The groups, the least significant first; all but the last have the bit set.
WriteVarInt(v) ==
  [i \in 1..Groups(v) |->
     ((v \div 2 ^ (GroupBits * (i - 1))) % Group) + IF i < Groups(v) THEN Group ELSE 0]

Encode(f) ==
  CASE f.kind = "uint"   -> WriteUInt(f.value, f.size, TRUE)
    [] f.kind = "native" -> WriteUInt(f.value, f.size, FALSE)
    [] f.kind = "string" -> WriteString(f.value)
    [] f.kind = "bytes"  -> f.value
    [] OTHER             -> WriteVarInt(f.value)

-----------------------------------------------------------------------------
(* Reading: whether the read succeeds, its value, and the offset after it *)

Success(v, at) == [ok |-> TRUE, value |-> v, at |-> at]
Failure(at)    == [ok |-> FALSE, value |-> 0, at |-> at]

\* The sum is one of size_t and could wrap; the lengths that the readers ask for,
\* those of the fields and 4-byte lengths that have been read, are too small.
CanRead(b, at, n) == at + n <= Len(b)

Slice(b, at, n) == SubSeq(b, at + 1, at + n)

\* The integer of some bytes, the most significant first.
Value(bs) ==
  LET value[n \in 0..Len(bs)] == IF n = 0 THEN 0 ELSE value[n - 1] * ByteMod + bs[n]
  IN  value[Len(bs)]

\* Mutation: ntohs is not called.
ValueOfNative(bs, network) == Value(Reverse(bs))

ValueOf(bs, network) == Value(IF network THEN bs ELSE Reverse(bs))

ReadUInt(b, at, n, network) ==
  IF CanRead(b, at, n) THEN Success(ValueOf(Slice(b, at, n), network), at + n)
                       ELSE Failure(at)

\* Mutation: the offset is advanced before the test.
ReadBytesAdvances(b, at, n) ==
  IF n = 0 \/ CanRead(b, at, n) THEN Success(Slice(b, at, n), at + n) ELSE Failure(at + n)

ReadBytes(b, at, n) ==
  IF n = 0 \/ CanRead(b, at, n) THEN Success(Slice(b, at, n), at + n) ELSE Failure(at)

\* The offset has passed the length when the content cannot be read.
ReadString(b, at) ==
  LET length == ReadUInt(b, at, LengthBytes, TRUE)
  IN  IF length.ok THEN ReadBytes(b, length.at, length.value) ELSE length

\* Mutation: the test refuses a group too early.
TooLongEarly(n) == n * GroupBits >= Width - 1

\* readVarInt() throws after a group that takes the shift beyond the width,
\* even if it is the last one.
TooLong(n) == n * GroupBits > Width - 1

\* The integer of the first n bytes, computed in Width bits.  (A shift by more
\* than that is undefined, and only met after a careless retry.)
Collect(b, at, n) ==
  LET result[i \in 0..n] ==
        IF i = 0 THEN 0
        ELSE result[i - 1] + (b[at + i] % Group) * 2 ^ (GroupBits * (i - 1))
  IN  result[n] % 2 ^ Width

\* Byte after byte, until one has not the bit that says that more follows;
\* limited says whether the length is tested.
ReadGroups(b, at, limited) ==
  LET last == {n \in 1..(Len(b) - at) : b[at + n] < Group \/ (limited /\ TooLong(n))}
  IN  IF last = {} THEN Failure(Len(b))
      ELSE IF limited /\ TooLong(Min(last)) THEN Failure(at + Min(last))
      ELSE Success(Collect(b, at, Min(last)), at + Min(last))

Decode(f, b, at) ==
  CASE f.kind = "uint"    -> ReadUInt(b, at, f.size, TRUE)
    [] f.kind = "native"  -> ReadUInt(b, at, f.size, FALSE)
    [] f.kind = "string"  -> ReadString(b, at)
    [] f.kind = "bytes"   -> ReadBytes(b, at, f.size)
    [] f.kind = "varint"  -> ReadGroups(b, at, TRUE)
    [] f.kind = "compact" -> ReadGroups(b, at, FALSE)

-----------------------------------------------------------------------------
CodecInit ==
  /\ written = <<>> /\ wire = <<>> /\ buffer = <<>>
  /\ offset = 0 /\ got = <<>> /\ torn = FALSE

Write ==
  \E f \in Fields :
    /\ Len(written) < MaxFields
    /\ written' = Append(written, f)
    /\ wire' = wire \o Encode(f)
    /\ UNCHANGED <<buffer, offset, got, torn>>

Arrive ==
  \E n \in 1..Len(wire) :
    /\ buffer' = buffer \o SubSeq(wire, 1, n)
    /\ wire' = SubSeq(wire, n + 1, Len(wire))
    /\ UNCHANGED <<written, offset, got, torn>>

\* The field the reader expects next, and what reading it gives.
Expected == written[Len(got) + 1]
Outcome  == Decode(Expected, buffer, offset)

Read ==
  /\ Len(got) < Len(written) /\ Outcome.ok
  /\ got' = Append(got, Outcome.value)
  /\ offset' = Outcome.at
  /\ UNCHANGED <<written, wire, buffer, torn>>

\* The read throws.  The reader that will try again when more has arrived puts
\* the offset back, or does not think of it.
ReadThrows ==
  /\ Len(got) < Len(written) /\ ~Outcome.ok
  /\ Outcome.at # offset
  /\ offset' = Outcome.at
  /\ torn' = TRUE
  /\ UNCHANGED <<written, wire, buffer, got>>

\* buffer.consume(offset) and offset = 0.
ConsumeRead ==
  /\ offset > 0
  /\ buffer' = SubSeq(buffer, offset + 1, Len(buffer))
  /\ offset' = 0
  /\ UNCHANGED <<written, wire, got, torn>>

CodecNext == Write \/ Arrive \/ Read \/ ReadThrows \/ ConsumeRead

CodecSpec == CodecInit /\ [][CodecNext]_codecVars
-----------------------------------------------------------------------------
\* However the bytes arrive and whatever a careless reader does after a failed
\* read, no read starts or ends outside the bytes that have arrived.
OffsetInside ==
  /\ offset \in 0..Len(buffer)
  /\ Len(got) < Len(written) => Outcome.at \in offset..Len(buffer)

\* A reader that puts its offset back after a failed read gets exactly the
\* values that were written, in order, wherever the pieces of the stream end.
ReadBack ==
  ~torn => \A i \in DOMAIN got : got[i] = written[i].value

\* It gets them all: what has arrived completely can be read, except for
\* integers whose top bit is set, which writeVarInt() writes and readVarInt()
\* refuses.
ArrivedIsReadable ==
  wire = <<>> /\ ~torn /\ Len(got) < Len(written) =>
    \/ Outcome.ok
    \/ Expected.kind = "varint" /\ Expected.value >= 2 ^ (Width - 1)
=============================================================================
