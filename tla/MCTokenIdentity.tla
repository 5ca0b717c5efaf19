-------------------------- MODULE MCTokenIdentity --------------------------
(* Instances of TokenIdentity for TLC. *)
EXTENDS TokenIdentity

OneOfEach == [k \in FaultKinds |-> 1]
=============================================================================
