-------------------------- MODULE MCNetworkClient --------------------------
(* Three connections one after another or at once. *)
EXTENDS NetworkClient, TLC

CONSTANTS i1, i2, i3

TwoIo   == {i1, i2}
ThreeIo == {i1, i2, i3}

IoSymmetry == Permutations(ThreeIo)
=============================================================================
