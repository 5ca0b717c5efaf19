----------------------------- MODULE MCSession -----------------------------
(* Instances of Session for TLC. *)
EXTENDS Session, TLC

CONSTANTS c1, c2, c3, identity, service

OneOfEach == [k \in FaultKinds |-> 1]

Uses == (c1 :> identity) @@ (c2 :> identity) @@ (c3 :> service)
=============================================================================
