-------------------------- MODULE MCTunnelRequests --------------------------
(* Instances of TunnelRequests for TLC. *)
EXTENDS TunnelRequests, TLC

CONSTANTS h1, h2

\* h2 is h1 with a port.
WithPort == (h1 :> None) @@ (h2 :> h1)
=============================================================================
