----------------------------- MODULE MCEndToEnd -----------------------------
(* Instances of EndToEnd for TLC. *)
EXTENDS EndToEnd

CONSTANTS h1, i1, rules

TheRequest ==
    [method |-> ControlMethod, id |-> i1, signature |-> signIdentifier(i1, SignatureKey),
     wellFormed |-> TRUE, host |-> h1, rewrite |-> rules]
=============================================================================
