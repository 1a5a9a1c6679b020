------------------------------ MODULE FifoLink ------------------------------
(***************************************************************************)
(* What one direction of a connection promises to the code above it:       *)
(* messages get the numbers 1, 2, ... in the order in which the sender's   *)
(* queue accepted them, and what the peer receives is those messages in    *)
(* that order, none skipped and none twice.  A message may arrive with its *)
(* content spoilt (Garbage), and the tail of the stream may never arrive:  *)
(* the link promises neither integrity nor delivery.                       *)
(***************************************************************************)
EXTENDS Naturals, Sequences

CONSTANT Garbage    \* a message whose bytes are not those that were sent

VARIABLES
  accepted,         \* how many messages the sender has put in the queue
  wire              \* what the peer has received, in order

vars == <<accepted, wire>>

Init == accepted = 0 /\ wire = <<>>

Accept ==
  /\ accepted' = accepted + 1
  /\ UNCHANGED wire

Transfer ==
  /\ Len(wire) < accepted
  /\ wire' \in { Append(wire, Len(wire) + 1), Append(wire, Garbage) }
  /\ UNCHANGED accepted

Next == Accept \/ Transfer

Spec == Init /\ [][Next]_vars
=============================================================================
