---------------------------- MODULE MCPeerServer ----------------------------
(* Model-checking instances of PeerServer. *)
EXTENDS PeerServer, TLC

IndexSymmetry == Permutations(Indices)
=============================================================================
