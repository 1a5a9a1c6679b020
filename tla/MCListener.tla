----------------------------- MODULE MCListener -----------------------------
(* Two clients of one server. *)
EXTENDS Listener

CONSTANTS c1, c2

TwoClients == {c1, c2}
=============================================================================
