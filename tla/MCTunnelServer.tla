--------------------------- MODULE MCTunnelServer ---------------------------
(* Instances of TunnelServer for TLC. *)
EXTENDS TunnelServer, TLC

\* Connection slots, hosts and identifiers of one kind are interchangeable.
SafetySymmetry == Permutations(Conns) \union Permutations(Hosts)
=============================================================================
