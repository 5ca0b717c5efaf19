-------------------------- MODULE WorkloadIdentity --------------------------
(***************************************************************************)
(* Identities of agents and sandboxes: CreateAgentIdentity and             *)
(* CreateSandboxIdentity, keyed by their workload, and DeleteIdentity, as  *)
(* concurrent calls over the controller and the table.                     *)
(*                                                                         *)
(* The caller of DeleteIdentity is a reconciler: it decides that an        *)
(* identity has to go and retries until a call answers OK.  It may have    *)
(* learned the id from ListIdentitiesByTag, that is, before the call that  *)
(* creates the identity has inserted its row.                              *)
(***************************************************************************)
EXTENDS IdentityStores

CONSTANT Calls        \* calls that can be running at the same time

VARIABLES
    call,       \* what each call is about and where it stands
    handed,     \* identities returned by a create that answered OK
    doomed,     \* identities the reconciler wants gone and has no OK for
    early,      \* history: identities doomed before they were handed out
    deleted     \* history: handed out identities whose deletion answered OK

asked == <<handed, doomed, early, deleted>>
vars == <<stores, call, asked>>

Steps == {"idle", "create", "jwt", "insert", "undo", "rowdel", "zitidel"}
Idle == [at |-> "idle", w |-> None, z |-> None]

Init ==
    /\ StoresInit
    /\ call = [c \in Calls |-> Idle]
    /\ handed = {}
    /\ doomed = {}
    /\ early = {}
    /\ deleted = {}

Goto(c, step) == call' = [call EXCEPT ![c].at = step]
Return(c) == call' = [call EXCEPT ![c] = Idle]

---------------------------------------------------------------------------
(* CreateAgentIdentity, CreateSandboxIdentity                              *)

Used == {z \in Zids : keyOf[z] # None}

\* Bound: a call starts only while the controller has an unused id left for it.
IdLeft == Cardinality({c \in Calls : call[c].at = "create"})
            < Cardinality(Zids \ Used)

StartCreate(c, w) ==
    /\ call[c] = Idle
    /\ IdLeft
    /\ call' = [call EXCEPT ![c] = [at |-> "create", w |-> w, z |-> None]]
    /\ UNCHANGED <<stores, asked>>

\* Variant: a conflict on the workload deletes the identity in the way.
CreateReplacing(c) ==
    /\ call[c].at = "create"
    /\ \E z \in Assignable(Zids \ Used) :
         \/ /\ ZitiCreate(z, call[c].w, "ok")
            /\ call' = [call EXCEPT ![c].at = "jwt", ![c].z = z]
         \/ /\ LiveOf(call[c].w) # {} /\ live' = live \ LiveOf(call[c].w)
            /\ Return(c) /\ UNCHANGED <<keyOf, rows, faults>>
    /\ UNCHANGED asked

CreateIdentity(c) ==
    /\ call[c].at = "create"
    /\ \E z \in Assignable(Zids \ Used), res \in Results :
         /\ ZitiCreate(z, call[c].w, res)
         /\ IF res = "ok" THEN call' = [call EXCEPT ![c].at = "jwt", ![c].z = z]
                          ELSE Return(c)
    /\ UNCHANGED asked

\* fetchEnrollmentJWT: when it fails the identity just created stays behind.
FetchEnrollmentJWT(c) ==
    /\ call[c].at = "jwt"
    /\ \E res \in Results :
         /\ ZitiEnroll(call[c].z, res)
         /\ IF res = "ok" THEN Goto(c, "insert") ELSE Return(c)
    /\ UNCHANGED asked

InsertManagedIdentity(c) ==
    /\ call[c].at = "insert"
    /\ \E res \in Results :
         /\ RowInsert(call[c].z, res)
         /\ \/ res = "ok" /\ Return(c) /\ handed' = handed \cup {call[c].z}
            \/ res = "error" /\ Goto(c, "undo") /\ UNCHANGED handed
    /\ UNCHANGED <<doomed, early, deleted>>

\* cleanupZitiIdentity: one attempt, whatever its result.
CleanupZitiIdentity(c) ==
    /\ call[c].at = "undo"
    /\ \E res \in Results : ZitiDelete(call[c].z, res)
    /\ Return(c)
    /\ UNCHANGED asked

---------------------------------------------------------------------------
(* DeleteIdentity                                                          *)

\* The reconciler picks an identity it was given or found on the controller.
Doom(z) ==
    /\ z \in handed \cup live
    /\ z \notin doomed \cup deleted
    /\ doomed' = doomed \cup {z}
    /\ early' = IF z \in handed THEN early ELSE early \cup {z}
    /\ UNCHANGED <<stores, call, handed, deleted>>

StartDelete(c, z) ==
    /\ call[c] = Idle
    /\ z \in doomed
    /\ \A d \in Calls : call[d].at \in {"rowdel", "zitidel"} => call[d].z # z
    /\ call' = [call EXCEPT ![c] = [at |-> "rowdel", w |-> None, z |-> z]]
    /\ UNCHANGED <<stores, asked>>

\* Variant: a missing row answers OK at once.
DeleteStopsWithoutRow(c) ==
    /\ call[c].at = "rowdel"
    /\ \/ /\ RowDelete(call[c].z, "ok") /\ Goto(c, "zitidel")
          /\ UNCHANGED <<doomed, deleted>>
       \/ /\ RowDelete(call[c].z, "notfound") /\ Return(c)
          /\ doomed' = doomed \ {call[c].z}
          /\ deleted' = deleted \cup ({call[c].z} \ early)
    /\ UNCHANGED <<handed, early>>

\* Variant: a missing row is reported as NotFound.
DeleteReportsNotFound(c) ==
    /\ call[c].at = "rowdel"
    /\ \E res \in Results :
         /\ RowDelete(call[c].z, res)
         /\ IF res = "ok" THEN Goto(c, "zitidel") ELSE Return(c)
    /\ UNCHANGED asked

\* Variant: a failing row deletion is logged and the identity deleted anyway.
DeleteIgnoresRowError(c) ==
    /\ call[c].at = "rowdel"
    /\ \E res \in Results : RowDelete(call[c].z, res)
    /\ Goto(c, "zitidel")
    /\ UNCHANGED asked

\* The row first; a row that is already gone is no reason to stop.
DeleteManagedIdentity(c) ==
    /\ call[c].at = "rowdel"
    /\ \E res \in Results :
         /\ RowDelete(call[c].z, res)
         /\ IF res = "error" THEN Return(c) ELSE Goto(c, "zitidel")
    /\ UNCHANGED asked

DeleteZitiIdentity(c) ==
    /\ call[c].at = "zitidel"
    /\ \E res \in Results :
         /\ ZitiDelete(call[c].z, res)
         /\ IF res = "error" THEN UNCHANGED <<doomed, deleted>>
            ELSE /\ doomed' = doomed \ {call[c].z}
                 /\ deleted' = deleted \cup ({call[c].z} \ early)
    /\ Return(c)
    /\ UNCHANGED <<handed, early>>

---------------------------------------------------------------------------
(* The environment                                                         *)

\* A cancelled context fails every later call of its handler.
Cancel(c) ==
    /\ call[c].at # "idle"
    /\ Fault("stop")
    /\ Return(c)
    /\ UNCHANGED <<live, keyOf, rows, asked>>

Restart ==
    /\ \E c \in Calls : call[c].at # "idle"
    /\ Fault("stop")
    /\ call' = [c \in Calls |-> Idle]
    /\ UNCHANGED <<live, keyOf, rows, asked>>

Handler(c) == \/ CreateIdentity(c) \/ FetchEnrollmentJWT(c)
              \/ InsertManagedIdentity(c) \/ CleanupZitiIdentity(c)
              \/ DeleteManagedIdentity(c) \/ DeleteZitiIdentity(c)

Next ==
    \/ \E c \in Calls : \/ Handler(c) \/ Cancel(c)
                        \/ \E w \in Keys : StartCreate(c, w)
                        \/ \E z \in Zids : StartDelete(c, z)
    \/ \E z \in Zids : Doom(z)
    \/ Restart

Spec == Init /\ [][Next]_vars

\* Handlers finish, and the reconciler asks again as long as it has no OK, no
\* matter how often the capacity for a call is taken by others.
FairSpec ==
    /\ Spec
    /\ \A c \in Calls : WF_vars(Handler(c))
    /\ \A z \in Zids : SF_vars(\E c \in Calls : StartDelete(c, z))

---------------------------------------------------------------------------
(* Properties                                                              *)

\* Every variable has its type.
TypeOK ==
    /\ StoresTypeOK
    /\ call \in [Calls -> [at : Steps, w : Keys \cup {None}, z : Zids \cup {None}]]
    /\ \A s \in {handed, doomed, early, deleted} : s \subseteq Zids

\* What a deletion answered OK for is gone on both sides, and no call that was
\* still running, retried or interrupted brings it back.
DeletedStaysGone == deleted \cap (live \cup rows) = {}

\* A create takes nothing away from another: an identity that was handed out
\* and that nobody asked to delete keeps its row and exists on the controller.
HandedOutIsWhole == \A z \in handed \ (doomed \cup deleted \cup early) :
                        z \in live \cap rows

\* Without lost answers and premature deletions a row always names an identity
\* that exists: the row is inserted last and deleted first, so ResolveIdentity
\* never vouches for an identity the controller has forgotten.
RowsAreLive == faults["lost"] = 0 /\ early = {} => rows \subseteq live

\* "Retries until the identity is gone": the retries come to an end, and then
\* the identity is on neither side.
RetriedDeletionEnds ==
    \A z \in Zids :
        z \in doomed /\ z \notin early ~> z \in deleted /\ z \notin live \cup rows
=============================================================================
