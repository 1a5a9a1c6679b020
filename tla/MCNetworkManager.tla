-------------------------- MODULE MCNetworkManager --------------------------
(* One caller, two io threads, two connections. *)
EXTENDS NetworkManager

CONSTANTS u1, io1, io2

OneCaller == {u1}
TwoIo     == {io1, io2}
=============================================================================
