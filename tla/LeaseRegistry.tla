--------------------------- MODULE LeaseRegistry ---------------------------
(***************************************************************************)
(* What the holders of service identities are promised, with no store, no *)
(* controller and no garbage collector in sight.  An identity is granted  *)
(* once; it can be taken away only after its lease lapsed; a holder is    *)
(* told "not found" only when the identity is really gone, and a gone     *)
(* identity never comes back.                                              *)
(***************************************************************************)

CONSTANT Ids      \* the service identities that can ever be granted

VARIABLES
    status,       \* "none" | "live" | "lapsed" | "gone", per identity
    told          \* identities whose holder got NotFound for an extension

vars == <<status, told>>

Init == /\ status = [i \in Ids |-> "none"]
        /\ told = {}

\* A grant may be stale on arrival: its lease can lapse before it is stored.
Grant(i) == /\ status[i] = "none"
            /\ \E s \in {"live", "lapsed"} : status' = [status EXCEPT ![i] = s]
            /\ UNCHANGED told

\* Time makes any number of leases lapse at once.  A lease that lapsed once
\* stays "lapsed" even when it is extended afterwards: from then on the
\* promise of an undisturbed identity is off.
Lapse(S) == /\ \A i \in S : status[i] = "live"
            /\ status' = [i \in Ids |-> IF i \in S THEN "lapsed" ELSE status[i]]
            /\ UNCHANGED told

Collect(i) == /\ status[i] = "lapsed"
              /\ status' = [status EXCEPT ![i] = "gone"]
              /\ UNCHANGED told

TellGone(i) == /\ status[i] = "gone"
               /\ told' = told \cup {i}
               /\ UNCHANGED status

Next == \/ \E i \in Ids : Grant(i) \/ Collect(i) \/ TellGone(i)
        \/ \E S \in SUBSET Ids : Lapse(S)

Spec == Init /\ [][Next]_vars
============================================================================
