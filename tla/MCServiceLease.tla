--------------------------- MODULE MCServiceLease ---------------------------
(* Instances of ServiceLease for TLC. *)
EXTENDS ServiceLease

\* Two refused calls, which is what it takes to defeat the cleanup.
TwoRefused == [k \in FaultKinds |-> IF k = "refused" THEN 2 ELSE 1]
=============================================================================
