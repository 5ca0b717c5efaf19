----------------------------- MODULE MCStartup -----------------------------
(* Instances of Startup for TLC. *)
EXTENDS Startup, TLC

CONSTANTS v1, v2, v3, managed, service

OneOfEach == [k \in FaultKinds |-> 1]

ThreeVersions == <<v1, v2, v3>>

TwoTables == (v1 :> managed) @@ (v2 :> service) @@ (v3 :> managed)
=============================================================================
