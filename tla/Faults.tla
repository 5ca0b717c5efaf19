------------------------------- MODULE Faults -------------------------------
(***************************************************************************)
(* What can go wrong around a handler, within a budget: calls to the       *)
(* controller and the database, contexts that end, processes that stop.    *)
(***************************************************************************)
EXTENDS Integers

CONSTANT MaxFaults  \* budget of each kind of fault

\* A call refused without effect; one whose effect happens and whose answer is lost;
\* one given up before its effect happens; a handler or process that stops where it
\* is; a failing login.
FaultKinds == {"refused", "lost", "late", "stop", "reauth"}

ASSUME FaultsAssumption == MaxFaults \in [FaultKinds -> Nat]

VARIABLE faults     \* faults so far, per kind

FaultsInit == faults = [k \in FaultKinds |-> 0]

Fault(kind) ==
    /\ faults[kind] < MaxFaults[kind]
    /\ faults' = [faults EXCEPT ![kind] = @ + 1]

NoFault == UNCHANGED faults
=============================================================================
