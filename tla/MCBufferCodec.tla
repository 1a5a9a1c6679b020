---------------------------- MODULE MCBufferCodec ----------------------------
(* Bytes of 2 + 1 bits and integers of 5 bits: as with 7 + 1 and 64, the last  *)
(* group has one bit.                                                          *)
EXTENDS BufferCodec

UInt(n, v)    == [kind |-> "uint", size |-> n, value |-> v]
Native(n, v)  == [kind |-> "native", size |-> n, value |-> v]
Str(s)        == [kind |-> "string", size |-> 0, value |-> s]
Raw(s)        == [kind |-> "bytes", size |-> Len(s), value |-> s]
VarInt(v)     == [kind |-> "varint", size |-> 0, value |-> v]
Compact(v)    == [kind |-> "compact", size |-> 0, value |-> v]

SomeFields ==
  {UInt(1, 5), UInt(2, 12), Native(2, 12), Str(<<>>), Str(<<6, 1>>), Raw(<<>>), Raw(<<4>>)}
    \cup {VarInt(v) : v \in {0, 3, 4, 15, 16, 31}}
    \cup {Compact(v) : v \in {3, 4, 15, 16, 31}}
=============================================================================
