---------------------------- MODULE ServiceLease ----------------------------
(***************************************************************************)
(* Leased service identities: RequestServiceIdentity, ExtendIdentityLease  *)
(* and the service identity garbage collector, over the Ziti controller    *)
(* and the table service_identities.                                       *)
(*                                                                         *)
(* No transaction spans the controller and the database.  Every call to    *)
(* one of them can be refused (error, no effect) or lost (effect, but the  *)
(* caller sees an error), a caller can cancel its request, and a replica   *)
(* of the process can stop and start again, each within the budget         *)
(* MaxFaults.  Every replica runs its own collector over the same stores.  *)
(*                                                                         *)
(* Time is relative: left[i] is what remains of the expiry computed for i, *)
(* from TTL down to Expired, where lease_expires_at < NOW().  The process  *)
(* and the database are taken to share one clock.                          *)
(***************************************************************************)
EXTENDS Faults, FiniteSets

CONSTANTS
    Ids,        \* identities the controller will hand out, one per request
    Calls,      \* concurrent ExtendIdentityLease calls
    Replicas,   \* replicas of the process, each with a collector; one by default
    TTL,        \* serviceIdentityLeaseTTL, in clock ticks
    None        \* no identity

ASSUME TTLAssumption == TTL \in Nat \ {0}
ASSUME NoneAssumption == None \notin Ids

Expired == -1
Times == Expired .. TTL

VARIABLES
    pc,         \* where the request for identity i stands
    ziti,       \* identities that exist on the controller
    rows,       \* identities that have a row in service_identities
    left,       \* remaining life of the lease computed for (or stored in) row i
    extId,      \* the identity an extension call is about, or None
    extLeft,    \* remaining life of the expiry that call is about to write
    batch,      \* what is left of the list a replica's running sweep obtained
    cur,        \* the identity that sweep deleted from Ziti and not yet the row
    told,       \* history: identities for which an extension returned NotFound
    lapsed      \* history: identities whose row was ever seen expired

request == <<pc>>
stores  == <<ziti, rows, left>>
extend  == <<extId, extLeft>>
sweep   == <<batch, cur>>
history == <<told, lapsed>>
vars == <<request, stores, extend, sweep, faults, history>>

\* "held": the response with the identity was sent; "abandoned": its holder
\* died, lost interest or never got the response; "failed": no identity was
\* handed out and the handler is over.
Working == {"enroll", "insert", "undo"}
Granted == {"held", "abandoned"}
PCs == {"none", "failed"} \cup Working \cup Granted

Init ==
    /\ pc = [i \in Ids |-> "none"]
    /\ ziti = {}
    /\ rows = {}
    /\ left = [i \in Ids |-> Expired]
    /\ extId = [c \in Calls |-> None]
    /\ extLeft = [c \in Calls |-> Expired]
    /\ batch = [r \in Replicas |-> {}]
    /\ cur = [r \in Replicas |-> None]
    /\ FaultsInit
    /\ told = {}
    /\ lapsed = {}

Goto(i, where) == pc' = [pc EXCEPT ![i] = where]

---------------------------------------------------------------------------
(* RequestServiceIdentity                                                  *)

\* createIdentity.  A lost answer leaves an identity nobody knows the id of.
CreateIdentity(i) ==
    /\ pc[i] = "none"
    /\ \/ NoFault /\ ziti' = ziti \cup {i} /\ Goto(i, "enroll")
       \/ Fault("refused") /\ Goto(i, "failed") /\ UNCHANGED ziti
       \/ Fault("lost") /\ ziti' = ziti \cup {i} /\ Goto(i, "failed")
    /\ UNCHANGED <<rows, left, extend, sweep, history>>

\* fetchEnrollmentJWT and the enrollment; on success the handler computes the
\* lease expiry, which starts to age before it is stored.
EnrollIdentity(i) ==
    /\ pc[i] = "enroll"
    /\ \/ NoFault /\ Goto(i, "insert") /\ left' = [left EXCEPT ![i] = TTL]
       \/ Fault("refused") /\ Goto(i, "undo") /\ UNCHANGED left
    /\ UNCHANGED <<ziti, rows, extend, sweep, history>>

NoteLapse(i, remaining) ==
    lapsed' = IF remaining = Expired THEN lapsed \cup {i} ELSE lapsed

\* Variant: a failing insert is logged and the identity handed out anyway.
InsertBestEffort(i) ==
    /\ pc[i] = "insert"
    /\ Goto(i, "held")
    /\ \/ NoFault /\ rows' = rows \cup {i} /\ NoteLapse(i, left[i])
       \/ Fault("refused") /\ UNCHANGED <<rows, lapsed>>
    /\ UNCHANGED <<ziti, left, extend, sweep, told>>

\* Variant: a failing insert returns without the cleanup.
InsertWithoutCleanup(i) ==
    /\ pc[i] = "insert"
    /\ \/ NoFault /\ rows' = rows \cup {i} /\ NoteLapse(i, left[i]) /\ Goto(i, "held")
       \/ Fault("refused") /\ Goto(i, "failed") /\ UNCHANGED <<rows, lapsed>>
    /\ UNCHANGED <<ziti, left, extend, sweep, told>>

InsertServiceIdentity(i) ==
    /\ pc[i] = "insert"
    /\ \/ /\ NoFault
          /\ rows' = rows \cup {i} /\ NoteLapse(i, left[i])
          /\ Goto(i, "held")
       \/ /\ Fault("refused")
          /\ Goto(i, "undo")
          /\ UNCHANGED <<rows, lapsed>>
       \/ /\ Fault("lost")
          /\ rows' = rows \cup {i} /\ NoteLapse(i, left[i])
          /\ Goto(i, "undo")
    /\ UNCHANGED <<ziti, left, extend, sweep, told>>

\* cleanupServiceIdentity after a failed enrollment, cleanupZitiIdentity after
\* a failed insert: one attempt, whose failure is reported but not retried.
CleanupZitiIdentity(i) ==
    /\ pc[i] = "undo"
    /\ Goto(i, "failed")
    /\ \/ NoFault /\ ziti' = ziti \ {i}
       \/ Fault("refused") /\ UNCHANGED ziti
       \/ Fault("lost") /\ ziti' = ziti \ {i}
    /\ UNCHANGED <<rows, left, extend, sweep, history>>

\* The caller gives up: the context of the handler is cancelled, and with it
\* every later call, the cleanup (which reuses that context) included.
CancelRequest(i) ==
    /\ pc[i] \in Working
    /\ Fault("stop")
    /\ Goto(i, "failed")
    /\ UNCHANGED <<stores, extend, sweep, history>>

\* The holder stops extending; the service is not told.
Abandon(i) ==
    /\ pc[i] = "held"
    /\ Goto(i, "abandoned")
    /\ UNCHANGED <<stores, extend, sweep, faults, history>>

---------------------------------------------------------------------------
(* ExtendIdentityLease                                                     *)

\* The new expiry is computed here and written by a later step, so that two
\* calls for one identity can write in either order.
ComputeExpiry(c, i) ==
    /\ extId[c] = None
    /\ pc[i] = "held"
    /\ extId' = [extId EXCEPT ![c] = i]
    /\ extLeft' = [extLeft EXCEPT ![c] = TTL]
    /\ UNCHANGED <<request, stores, sweep, faults, history>>

EndExtend(c) ==
    /\ extId' = [extId EXCEPT ![c] = None]
    /\ extLeft' = [extLeft EXCEPT ![c] = Expired]

\* Variant: every store error is reported as NotFound.
ExtendAnyErrorNotFound(c) ==
    /\ extId[c] # None
    /\ EndExtend(c)
    /\ \/ /\ extId[c] \in rows /\ NoFault
          /\ left' = [left EXCEPT ![extId[c]] = extLeft[c]]
          /\ NoteLapse(extId[c], extLeft[c]) /\ UNCHANGED told
       \/ /\ Fault("refused")
          /\ told' = told \cup {extId[c]} /\ UNCHANGED <<left, lapsed>>
    /\ UNCHANGED <<request, ziti, rows, sweep>>

\* UPDATE ... WHERE ziti_identity_id = i.  No row affected: the call answers
\* NotFound.  A lost answer is an Internal error, whatever the row did.
ExtendServiceIdentityLease(c) ==
    /\ extId[c] # None
    /\ EndExtend(c)
    /\ LET i == extId[c] IN
       \/ /\ i \in rows
          /\ NoFault \/ Fault("lost")
          /\ left' = [left EXCEPT ![i] = extLeft[c]]
          /\ NoteLapse(i, extLeft[c])
          /\ UNCHANGED told
       \/ /\ i \notin rows
          /\ NoFault
          /\ told' = told \cup {i}
          /\ UNCHANGED <<left, lapsed>>
       \/ /\ Fault("refused")
          /\ UNCHANGED <<left, history>>
    /\ UNCHANGED <<request, ziti, rows, sweep>>

---------------------------------------------------------------------------
(* RunServiceIdentityGC                                                    *)

\* Variant: the list starts one tick early.
ExpiringRows == {i \in rows : left[i] <= Expired + 1}

ExpiredRows == {i \in rows : left[i] = Expired}

\* ListExpiredServiceIdentities at the start of a sweep.  An empty list ends
\* the sweep with nothing done, and a failing query ends it with an error.
ListExpired(r) ==
    /\ batch[r] = {}
    /\ ExpiredRows # {}
    /\ \/ NoFault /\ batch' = [batch EXCEPT ![r] = ExpiredRows]
       \/ Fault("refused") /\ UNCHANGED batch
    /\ UNCHANGED <<request, stores, extend, cur, history>>

\* Variant: a failing deletion does not skip the row.
CollectWithoutSkip(r, i) ==
    /\ cur[r] = None
    /\ i \in batch[r]
    /\ cur' = [cur EXCEPT ![r] = i]
    /\ \/ NoFault /\ ziti' = ziti \ {i}
       \/ Fault("refused") /\ UNCHANGED ziti
    /\ UNCHANGED <<request, rows, left, batch, extend, history>>

Skip(r, i) == batch' = [batch EXCEPT ![r] = @ \ {i}] /\ UNCHANGED cur

\* Variant: NotFound from the controller skips the row like any other error.
CollectOnlyExisting(r, i) ==
    /\ cur[r] = None
    /\ i \in batch[r]
    /\ \/ /\ NoFault /\ i \in ziti
          /\ ziti' = ziti \ {i} /\ cur' = [cur EXCEPT ![r] = i] /\ UNCHANGED batch
       \/ NoFault /\ i \notin ziti /\ Skip(r, i) /\ UNCHANGED ziti
       \/ Fault("lost") /\ ziti' = ziti \ {i} /\ Skip(r, i)
    /\ UNCHANGED <<request, rows, left, extend, history>>

\* DeleteIdentity on the controller; NotFound counts as success, any other
\* error skips this identity until the next sweep.
CollectFromZiti(r, i) ==
    /\ cur[r] = None
    /\ i \in batch[r]
    /\ \/ /\ NoFault
          /\ ziti' = ziti \ {i} /\ cur' = [cur EXCEPT ![r] = i] /\ UNCHANGED batch
       \/ Fault("refused") /\ Skip(r, i) /\ UNCHANGED ziti
       \/ Fault("lost") /\ ziti' = ziti \ {i} /\ Skip(r, i)
    /\ UNCHANGED <<request, rows, left, extend, history>>

\* DeleteServiceIdentity on the row, whatever its lease is by now.  A row that
\* another replica's sweep deleted first is passed over.
CollectRow(r) ==
    /\ cur[r] # None
    /\ batch' = [batch EXCEPT ![r] = @ \ {cur[r]}]
    /\ cur' = [cur EXCEPT ![r] = None]
    /\ \/ (NoFault \/ Fault("lost")) /\ rows' = rows \ {cur[r]}
       \/ Fault("refused") /\ UNCHANGED rows
    /\ UNCHANGED <<request, ziti, left, extend, history>>

Sweep(r) == ListExpired(r) \/ (\E i \in Ids : CollectFromZiti(r, i)) \/ CollectRow(r)

---------------------------------------------------------------------------
(* The environment                                                         *)

Age(t) == IF t = Expired THEN Expired ELSE t - 1

Tick ==
    /\ \/ \E i \in Ids : left[i] # Expired
       \/ \E c \in Calls : extLeft[c] # Expired
    /\ left' = [i \in Ids |-> Age(left[i])]
    /\ extLeft' = [c \in Calls |-> Age(extLeft[c])]
    /\ lapsed' = lapsed \cup {i \in rows : left'[i] = Expired}
    /\ UNCHANGED <<request, ziti, rows, extId, sweep, faults, told>>

\* Replica r stops and starts again: its sweep and the handlers it was running
\* (any of them: which replica serves a call is not tracked) are gone, the two
\* stores are not.  A new sweep begins at once.
Restart(r) ==
    /\ Fault("stop")
    /\ \E S \in SUBSET {i \in Ids : pc[i] \in Working} :
          pc' = [i \in Ids |-> IF i \in S THEN "failed" ELSE pc[i]]
    /\ \E D \in SUBSET Calls :
          /\ extId' = [c \in Calls |-> IF c \in D THEN None ELSE extId[c]]
          /\ extLeft' = [c \in Calls |-> IF c \in D THEN Expired ELSE extLeft[c]]
    /\ batch' = [batch EXCEPT ![r] = {}]
    /\ cur' = [cur EXCEPT ![r] = None]
    /\ UNCHANGED <<stores, history>>

Request(i) == \/ CreateIdentity(i) \/ EnrollIdentity(i)
              \/ InsertServiceIdentity(i) \/ CleanupZitiIdentity(i)
              \/ CancelRequest(i) \/ Abandon(i)

Extend(c) == ExtendServiceIdentityLease(c) \/ \E i \in Ids : ComputeExpiry(c, i)

Next == \/ \E i \in Ids : Request(i)
        \/ \E c \in Calls : Extend(c)
        \/ \E r \in Replicas : Sweep(r) \/ Restart(r)
        \/ Tick

Spec == Init /\ [][Next]_vars

\* Handlers run to their end, the collector's loop never stops and time goes
\* on.  Nothing forces a request, a restart, a cancellation, or a holder to
\* extend or to leave.
Fairness ==
    /\ \A i \in Ids : /\ WF_vars(EnrollIdentity(i))
                      /\ WF_vars(InsertServiceIdentity(i))
                      /\ WF_vars(CleanupZitiIdentity(i))
    /\ \A c \in Calls : WF_vars(ExtendServiceIdentityLease(c))
    /\ \A r \in Replicas : WF_vars(Sweep(r))
    /\ WF_vars(Tick)

FairSpec == Spec /\ Fairness

---------------------------------------------------------------------------
(* Properties                                                              *)

\* Every variable has its type.
TypeOK ==
    /\ pc \in [Ids -> PCs]
    /\ ziti \subseteq Ids
    /\ rows \subseteq Ids
    /\ left \in [Ids -> Times]
    /\ extId \in [Calls -> Ids \cup {None}]
    /\ extLeft \in [Calls -> Times]
    /\ batch \in [Replicas -> SUBSET Ids]
    /\ cur \in [Replicas -> Ids \cup {None}]
    /\ faults \in [FaultKinds -> Nat]
    /\ \A k \in FaultKinds : faults[k] <= MaxFaults[k]
    /\ told \subseteq Ids
    /\ lapsed \subseteq Ids

\* The contract the callers' fail-fast logic depends on: an extension answered
\* NotFound means the identity is gone for good, on the controller too, and not
\* just that its record is missing.
NotFoundIsDefinitive == told \cap ziti = {}

\* An identity that was handed out stays known to the collector for as long as
\* it exists: no order of calls, faults and restarts leaves one on the
\* controller without the row that will get it collected.
GrantedIsTracked ==
    \A i \in ziti : pc[i] \in Granted => i \in rows

\* A holder whose lease never ran out never loses its identity, neither to a
\* sweep working on an old list nor to the cleanup of another request.
PromptHolderKeepsIdentity ==
    \A i \in Ids : pc[i] \in Granted /\ i \notin lapsed => i \in ziti \cap rows

\* One refused call, with no lost answer and no stop, never leaves an identity
\* on the controller that neither a row nor a running handler accounts for.
OneRefusalLeavesNoOrphan ==
    faults["refused"] <= 1 /\ faults["lost"] = 0 /\ faults["stop"] = 0
        => \A i \in ziti : i \in rows \/ pc[i] \in Working

\* The collector never drops a row while the identity is still on the
\* controller: the row is its only memory of what it has to delete.
RowOutlivesIdentity ==
    [][\A i \in rows : i \notin rows' => i \notin ziti]_vars

\* What no holder wants any more is eventually gone from both stores, as far as
\* it has a row, for every finite number of faults.
UnwantedIsCollected ==
    \A i \in Ids :
        (i \in rows /\ pc[i] \in {"failed", "abandoned"})
            ~> (i \notin rows /\ i \notin ziti)

---------------------------------------------------------------------------
(* The promise to the holders, implemented                                 *)

registryStatus ==
    [i \in Ids |-> IF pc[i] \notin Granted THEN "none"
                   ELSE IF i \notin ziti THEN "gone"
                   ELSE IF i \in lapsed THEN "lapsed" ELSE "live"]

Registry == INSTANCE LeaseRegistry WITH status <- registryStatus

\* The handlers, the collector and the two stores together behave like the
\* lease registry, whatever fails.
ImplementsRegistry == Registry!Spec
=============================================================================
