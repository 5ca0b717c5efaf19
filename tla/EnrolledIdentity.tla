-------------------------- MODULE EnrolledIdentity --------------------------
(***************************************************************************)
(* Identities of runners and apps: CreateRunnerIdentity and                *)
(* CreateAppIdentity, which replace whatever an earlier enrollment left,   *)
(* and DeleteRunnerIdentity and DeleteAppIdentity, as concurrent calls     *)
(* over the controller and the table.                                      *)
(*                                                                         *)
(* The external id is the id of the runner or app, and so is identity_id   *)
(* in the row, so keyOf stands for both.                                   *)
(***************************************************************************)
EXTENDS IdentityStores

CONSTANT Calls        \* calls that can be running at the same time

VARIABLES
    apps,       \* the keys that are apps; the others are runners
    call,       \* what each call is about and where it stands
    services,   \* keys whose Ziti service exists
    wanted,     \* keys whose owner asks for an enrollment until one answers OK
    alone,      \* history: calls that no other call on their key overlaps or follows
    raced       \* history: keys for which two calls ever overlapped

vars == <<stores, apps, call, services, wanted, alone, raced>>

Final == {"idle", "ok"}

\* listed: identities a re-enrollment still has to delete; svc: whether the
\* request of a deletion names a Ziti service.
Idle == [op |-> "none", at |-> "idle", k |-> None, z |-> None,
         listed |-> {}, svc |-> FALSE]

Init ==
    /\ StoresInit
    /\ apps \in SUBSET Keys
    /\ call = [c \in Calls |-> Idle]
    /\ services = Keys
    /\ wanted = {}
    /\ alone = {}
    /\ raced = {}

Running(c) == call[c].at \notin Final
Goto(c, step) == call' = [call EXCEPT ![c].at = step]
Fail(c) == call' = [call EXCEPT ![c] = Idle]

Start(c, op, k, step, svc) ==
    /\ ~Running(c)
    /\ call' = [call EXCEPT ![c] = [Idle EXCEPT !.op = op, !.at = step, !.k = k,
                                                !.svc = svc]]
    /\ LET others == {d \in Calls \ {c} : call[d].k = k}
           overlap == \E d \in others : Running(d)
       IN /\ alone' = (alone \ (others \cup {c})) \cup (IF overlap THEN {} ELSE {c})
          /\ raced' = IF overlap THEN raced \cup {k} ELSE raced
    /\ UNCHANGED apps

\* What every step but a start leaves alone.
Local == UNCHANGED <<apps, alone, raced>>

---------------------------------------------------------------------------
(* CreateRunnerIdentity, CreateAppIdentity                                 *)

Want(k) ==
    /\ k \notin wanted
    /\ wanted' = wanted \cup {k}
    /\ UNCHANGED <<stores, call, services>> /\ Local

StartEnroll(c, k) ==
    /\ k \in wanted
    /\ Start(c, "enroll", k, "list", FALSE)
    /\ UNCHANGED <<stores, services, wanted>>

\* Variant: nothing of an earlier enrollment is looked for.
ListNothing(c) ==
    /\ call[c].at = "list"
    /\ PlainCall("ok") /\ Goto(c, "purge")
    /\ UNCHANGED <<services, wanted>> /\ Local

\* listIdentityIDsByExternalID
ListByExternalID(c) ==
    /\ call[c].at = "list"
    /\ \E res \in Results :
         /\ PlainCall(res)
         /\ IF res = "ok"
            THEN call' = [call EXCEPT ![c].at = "purge",
                                      ![c].listed = LiveOf(call[c].k)]
            ELSE Fail(c)
    /\ UNCHANGED <<services, wanted>> /\ Local

\* deleteIdentityByExternalID, one of the listed identities after the other.
DeleteListed(c) ==
    /\ call[c].at = "purge"
    /\ \E z \in call[c].listed, res \in Results :
         /\ ZitiDelete(z, res)
         /\ IF res = "error"
            THEN Fail(c)
            ELSE call' = [call EXCEPT ![c].listed = @ \ {z}]
    /\ UNCHANGED <<services, wanted>> /\ Local

\* Ids are random and never used twice: one that nothing refers to any more
\* stands for a new one.
Fresh == Assignable(Zids \ (live \cup rows \cup {call[c].z : c \in Calls}
                                 \cup UNION {call[c].listed : c \in Calls}))

CreateIdentity(c) ==
    /\ call[c].at = "purge" /\ call[c].listed = {}
    /\ \E z \in Fresh, res \in Results :
         /\ ZitiCreate(z, call[c].k, res)
         /\ IF res = "ok"
            THEN call' = [call EXCEPT ![c].at = "enroll", ![c].z = z]
            ELSE Fail(c)
    /\ UNCHANGED <<services, wanted>> /\ Local

EnrollIdentity(c) ==
    /\ call[c].at = "enroll"
    /\ \E res \in Results :
         /\ ZitiEnroll(call[c].z, res)
         /\ Goto(c, IF res = "ok" THEN "forget" ELSE "undo")
    /\ UNCHANGED <<services, wanted>> /\ Local

\* Variant: a failure to delete the earlier rows is ignored.
ForgetBestEffort(c) ==
    /\ call[c].at = "forget"
    /\ \E res \in Results : RowsDelete(call[c].k, res)
    /\ Goto(c, "insert")
    /\ UNCHANGED <<services, wanted>> /\ Local

\* DeleteManagedIdentityByIdentityID: the rows of earlier enrollments.
ForgetRows(c) ==
    /\ call[c].at = "forget"
    /\ \E res \in Results :
         /\ RowsDelete(call[c].k, res)
         /\ Goto(c, IF res = "ok" THEN "insert" ELSE "undo")
    /\ UNCHANGED <<services, wanted>> /\ Local

\* Variant: a failing insert is logged and the call answers OK.
InsertBestEffort(c) ==
    /\ call[c].at = "insert"
    /\ \E res \in Results : RowInsert(call[c].z, res)
    /\ Goto(c, "ok") /\ wanted' = wanted \ {call[c].k}
    /\ UNCHANGED services /\ Local

InsertManagedIdentity(c) ==
    /\ call[c].at = "insert"
    /\ \E res \in Results :
         /\ RowInsert(call[c].z, res)
         /\ \/ res = "ok" /\ Goto(c, "ok") /\ wanted' = wanted \ {call[c].k}
            \/ res = "error" /\ Goto(c, "undo") /\ UNCHANGED wanted
    /\ UNCHANGED services /\ Local

\* cleanupServiceIdentity or cleanupZitiIdentity: one attempt.
CleanupZitiIdentity(c) ==
    /\ call[c].at = "undo"
    /\ \E res \in Results : ZitiDelete(call[c].z, res)
    /\ Fail(c)
    /\ UNCHANGED <<services, wanted>> /\ Local

---------------------------------------------------------------------------
(* DeleteRunnerIdentity, DeleteAppIdentity                                 *)

StartDelete(c, k, svc) ==
    /\ Start(c, "delete", k, "resolve", svc)
    /\ UNCHANGED <<stores, services, wanted>>

\* ResolveIdentityByIdentityID answers with any of the rows of the key.  With no
\* row a runner deletion is NotFound, while an app deletion goes on to the
\* service when the request names it.
ResolveByIdentityID(c) ==
    /\ call[c].at = "resolve"
    /\ \/ /\ PlainCall("ok")
          /\ \E z \in RowsOf(call[c].k) :
                call' = [call EXCEPT ![c].at = "rowdel", ![c].z = z]
       \/ /\ PlainCall("ok")
          /\ RowsOf(call[c].k) = {}
          /\ IF call[c].k \in apps /\ call[c].svc THEN Goto(c, "svcdel") ELSE Fail(c)
       \/ PlainCall("error") /\ Fail(c)
    /\ UNCHANGED <<services, wanted>> /\ Local

\* Variant: a failing row deletion is logged and the deletion goes on.
DeleteIgnoresRowError(c) ==
    /\ call[c].at = "rowdel"
    /\ \E res \in Results : RowDelete(call[c].z, res)
    /\ Goto(c, "zitidel")
    /\ UNCHANGED <<services, wanted>> /\ Local

\* Losing the race for the row ends a runner deletion with NotFound, but not an
\* app deletion.
DeleteManagedIdentity(c) ==
    /\ call[c].at = "rowdel"
    /\ \E res \in Results :
         /\ RowDelete(call[c].z, res)
         /\ IF res = "ok" \/ (res = "notfound" /\ call[c].k \in apps)
            THEN Goto(c, "zitidel") ELSE Fail(c)
    /\ UNCHANGED <<services, wanted>> /\ Local

\* Variant: a failing deletion on the controller is logged only.
DeleteIgnoresZitiError(c) ==
    /\ call[c].at = "zitidel"
    /\ \E res \in Results : ZitiDelete(call[c].z, res)
    /\ Goto(c, IF call[c].svc THEN "svcdel" ELSE "ok")
    /\ UNCHANGED <<services, wanted>> /\ Local

\* A runner may have no service; an app without one is an error, raised only
\* now that its identity is gone.
DeleteZitiIdentity(c) ==
    /\ call[c].at = "zitidel"
    /\ \E res \in Results :
         /\ ZitiDelete(call[c].z, res)
         /\ CASE res = "error" -> Fail(c)
              [] res # "error" /\ call[c].svc -> Goto(c, "svcdel")
              [] res # "error" /\ ~call[c].svc ->
                   IF call[c].k \in apps THEN Fail(c) ELSE Goto(c, "ok")
    /\ UNCHANGED <<services, wanted>> /\ Local

DeleteService(c) ==
    /\ call[c].at = "svcdel"
    /\ \/ NoFault /\ services' = services \ {call[c].k} /\ Goto(c, "ok")
       \/ Fault("refused") /\ UNCHANGED services /\ Fail(c)
       \/ Fault("lost") /\ services' = services \ {call[c].k} /\ Fail(c)
    /\ UNCHANGED <<live, keyOf, rows, wanted>> /\ Local

---------------------------------------------------------------------------
(* The environment                                                         *)

\* A cancelled context fails every later call of its handler.
Cancel(c) ==
    /\ Running(c)
    /\ Fault("stop")
    /\ Fail(c)
    /\ UNCHANGED <<live, keyOf, rows, services, wanted>> /\ Local

Restart ==
    /\ \E c \in Calls : Running(c)
    /\ Fault("stop")
    /\ call' = [c \in Calls |-> IF Running(c) THEN Idle ELSE call[c]]
    /\ UNCHANGED <<live, keyOf, rows, services, wanted>> /\ Local

Handler(c) ==
    \/ ListByExternalID(c) \/ DeleteListed(c) \/ CreateIdentity(c)
    \/ EnrollIdentity(c) \/ ForgetRows(c) \/ InsertManagedIdentity(c)
    \/ CleanupZitiIdentity(c)
    \/ ResolveByIdentityID(c) \/ DeleteManagedIdentity(c) \/ DeleteZitiIdentity(c)
    \/ DeleteService(c)

Next ==
    \/ \E c \in Calls :
         \/ Handler(c) \/ Cancel(c)
         \/ \E k \in Keys : \/ StartEnroll(c, k)
                            \/ \E svc \in BOOLEAN : StartDelete(c, k, svc)
    \/ \E k \in Keys : Want(k)
    \/ Restart

Spec == Init /\ [][Next]_vars

\* Handlers finish, and an owner without an identity keeps asking for one.
FairSpec ==
    /\ Spec
    /\ \A c \in Calls : WF_vars(Handler(c))
    /\ \A k \in Keys : SF_vars(\E c \in Calls : StartEnroll(c, k))

---------------------------------------------------------------------------
(* Properties                                                              *)

Succeeded(c, op) == call[c].op = op /\ call[c].at = "ok"

\* A re-enrollment that answers OK heals its key: whatever earlier calls, faults
\* and restarts left behind, exactly the new identity remains, on both sides, if
\* no other call on the key interferes.
LoneEnrollHeals ==
    \A c \in alone : Succeeded(c, "enroll") =>
        /\ LiveOf(call[c].k) = {call[c].z}
        /\ RowsOf(call[c].k) = {call[c].z}

\* The table has no unique index on identity_id.  Two rows for one key are still
\* only ever the result of calls on that key that overlapped.
DuplicateRowsNeedRace ==
    \A k \in Keys : Cardinality(RowsOf(k)) > 1 => k \in raced

\* A runner deletion that answers OK leaves nothing of the runner on either side,
\* after at most one refused call and no other fault, if calls on that runner
\* never overlapped.
LoneDeleteIsComplete ==
    faults["refused"] <= 1 /\ faults["lost"] = 0 /\ faults["stop"] = 0 =>
        \A c \in alone : LET k == call[c].k IN
            Succeeded(c, "delete") /\ k \notin apps \cup raced =>
                LiveOf(k) = {} /\ RowsOf(k) = {}

\* A deletion that answers OK leaves neither a row that would still resolve nor
\* the service it was asked to delete, whatever calls failed before, if calls on
\* the key never overlapped.
LoneDeleteForgets ==
    \A c \in alone :
        Succeeded(c, "delete") /\ call[c].k \notin raced =>
            /\ RowsOf(call[c].k) = {}
            /\ call[c].svc => call[c].k \notin services

\* Asking again is enough: no leftover of a failed attempt, an identity nobody
\* knows included, blocks the enrollment for good.  (Two enrollments of one key
\* that overlap can defeat each other, so the owner asks one at a time.)
RetriedEnrollSucceeds == \A k \in Keys : k \in wanted ~> k \notin wanted
=============================================================================
