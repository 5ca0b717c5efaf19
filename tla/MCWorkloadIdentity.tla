------------------------- MODULE MCWorkloadIdentity -------------------------
(* Instances of WorkloadIdentity for TLC. *)
EXTENDS WorkloadIdentity

OneOfEach == [k \in FaultKinds |-> 1]
=============================================================================
