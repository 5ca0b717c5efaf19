-------------------------- MODULE MCServicePolicy --------------------------
(* Instances of ServicePolicy for TLC. *)
EXTENDS ServicePolicy

OneOfEach == [k \in FaultKinds |-> 1]
=============================================================================
