-------------------------- MODULE MCRoleAttributes --------------------------
(* Instances of RoleAttributes for TLC. *)
EXTENDS RoleAttributes, TLC

CONSTANTS a, b

OneOfEach == [k \in FaultKinds |-> 1]

Lists == {<<>>, <<a>>, <<b, a>>, <<b, b>>}

SomeRequests == [add : Lists, remove : {<<>>, <<a>>, <<b>>}]

Symmetry == Permutations(Calls)
=============================================================================
