------------------------ MODULE MCNetworkConnection ------------------------
(* One caller thread beside two io threads, or two beside two. *)
EXTENDS NetworkConnection

CONSTANTS c1, c2, io1, io2

OneCaller  == {c1}
TwoCallers == {c1, c2}
TwoIo      == {io1, io2}
=============================================================================
