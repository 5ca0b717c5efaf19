--------------------------- MODULE IdentityStores ---------------------------
(***************************************************************************)
(* The two stores every managed identity lives in, the Ziti controller and *)
(* the table managed_identities, and the calls the handlers make to them.  *)
(*                                                                         *)
(* A call answers "ok", "notfound" or "error".  An error is a refused call *)
(* (no effect) or a lost answer (the effect took place), each within the   *)
(* budget MaxFaults.                                                       *)
(***************************************************************************)
EXTENDS Faults, FiniteSets

CONSTANTS
    Zids,       \* ids the controller can assign
    Keys,       \* external ids: workload, runner and app ids
    None        \* no id, no key

ASSUME NoneAssumption == None \notin Zids \cup Keys

VARIABLES
    live,       \* identities that exist on the controller
    keyOf,      \* external id the identity was last created with, or None
    rows        \* identities that have a row in managed_identities

stores == <<live, keyOf, rows, faults>>

Results == {"ok", "notfound", "error"}

StoresInit ==
    /\ live = {}
    /\ keyOf = [z \in Zids |-> None]
    /\ rows = {}
    /\ FaultsInit

StoresTypeOK ==
    /\ live \subseteq Zids
    /\ keyOf \in [Zids -> Keys \cup {None}]
    /\ rows \subseteq Zids
    /\ faults \in [FaultKinds -> Nat]
    /\ \A k \in FaultKinds : faults[k] <= MaxFaults[k]

\* Ids are random: it makes no difference which of the unused ones is assigned, so
\* one stands for all.
Assignable(unused) == IF unused = {} THEN {} ELSE {CHOOSE z \in unused : TRUE}

LiveOf(k) == {z \in live : keyOf[z] = k}
RowsOf(k) == {z \in rows : keyOf[z] = k}

\* A listing or a lookup, which changes nothing: it works or it does not.
PlainCall(res) ==
    /\ \/ res = "ok" /\ NoFault
       \/ res = "error" /\ Fault("refused")
    /\ UNCHANGED <<live, keyOf, rows>>

\* Fetching the enrollment token of z, and enrolling with it: an error also when
\* z is gone from the controller by now.
ZitiEnroll(z, res) ==
    /\ \/ res = "ok" /\ NoFault /\ z \in live
       \/ res = "error" /\ NoFault /\ z \notin live
       \/ res = "error" /\ Fault("refused")
    /\ UNCHANGED <<live, keyOf, rows>>

\* The controller keeps external ids unique, so a second identity with key k is
\* a conflict.  The callers choose a z nothing refers to; after a lost answer
\* nobody but the controller knows it.
ZitiCreate(z, k, res) ==
    /\ \/ /\ res = "ok" /\ NoFault
          /\ LiveOf(k) = {}
          /\ live' = live \cup {z} /\ keyOf' = [keyOf EXCEPT ![z] = k]
       \/ /\ res = "error" /\ NoFault
          /\ LiveOf(k) # {}
          /\ UNCHANGED <<live, keyOf>>
       \/ /\ res = "error" /\ Fault("refused")
          /\ UNCHANGED <<live, keyOf>>
       \/ /\ res = "error" /\ Fault("lost")
          /\ LiveOf(k) = {}
          /\ live' = live \cup {z} /\ keyOf' = [keyOf EXCEPT ![z] = k]
    /\ UNCHANGED rows

\* Client.DeleteIdentity
ZitiDelete(z, res) ==
    /\ \/ res = "ok" /\ NoFault /\ z \in live /\ live' = live \ {z}
       \/ res = "notfound" /\ NoFault /\ z \notin live /\ UNCHANGED live
       \/ res = "error" /\ Fault("refused") /\ UNCHANGED live
       \/ res = "error" /\ Fault("lost") /\ live' = live \ {z}
    /\ UNCHANGED <<keyOf, rows>>

\* Store.InsertManagedIdentity
RowInsert(z, res) ==
    /\ \/ res = "ok" /\ NoFault /\ rows' = rows \cup {z}
       \/ res = "error" /\ Fault("refused") /\ UNCHANGED rows
       \/ res = "error" /\ Fault("lost") /\ rows' = rows \cup {z}
    /\ UNCHANGED <<live, keyOf>>

\* Store.DeleteManagedIdentity
RowDelete(z, res) ==
    /\ \/ res = "ok" /\ NoFault /\ z \in rows /\ rows' = rows \ {z}
       \/ res = "notfound" /\ NoFault /\ z \notin rows /\ UNCHANGED rows
       \/ res = "error" /\ Fault("refused") /\ UNCHANGED rows
       \/ res = "error" /\ Fault("lost") /\ rows' = rows \ {z}
    /\ UNCHANGED <<live, keyOf>>

\* Store.DeleteManagedIdentityByIdentityID: every row of the key, or none.
RowsDelete(k, res) ==
    /\ \/ res = "ok" /\ NoFault /\ rows' = rows \ RowsOf(k)
       \/ res = "error" /\ Fault("refused") /\ UNCHANGED rows
       \/ res = "error" /\ Fault("lost") /\ rows' = rows \ RowsOf(k)
    /\ UNCHANGED <<live, keyOf>>
=============================================================================
