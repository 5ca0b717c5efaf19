------------------------- MODULE MCEnrolledIdentity -------------------------
(* Instances of EnrolledIdentity for TLC. *)
EXTENDS EnrolledIdentity, TLC

OneOfEach == [k \in FaultKinds |-> 1]

Symmetry == Permutations(Calls)
=============================================================================
