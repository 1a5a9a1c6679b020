--------------------------- MODULE MCPeerManager ---------------------------
(* Two threads that use the manager beside one or two io threads. *)
EXTENDS PeerManager, TLC

CONSTANTS u1, u2, io1, io2

OneUser  == {u1}
TwoUsers == {u1, u2}
OneIo    == {io1}
TwoIo    == {io1, io2}

Symmetry   == Permutations(TwoUsers) \cup Permutations(TwoIo)
IoSymmetry == Permutations(TwoIo)
=============================================================================
