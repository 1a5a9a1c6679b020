-------------------------- MODULE MCPeerDiscovery --------------------------
(* Two remote nodes that announce an endpoint, twice in a message at most. *)
EXTENDS PeerDiscovery, TLC

CONSTANTS r1, r2, e1

TwoConns     == {r1, r2}
OneEndpoint == {e1}

Symmetry == Permutations(TwoConns)
=============================================================================
