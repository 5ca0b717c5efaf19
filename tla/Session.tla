------------------------------ MODULE Session ------------------------------
(***************************************************************************)
(* The session with the controller: many calls share one set of clients    *)
(* under a mutex, each call retries once after a 401, and every 401        *)
(* replaces all clients.                                                   *)
(***************************************************************************)
EXTENDS Faults

CONSTANTS
    Calls,      \* calls to the controller
    Kinds,      \* the clients of a session: identity, service, config, servicePolicy
    KindOf,     \* the client each call uses
    None        \* nobody

ASSUME KindAssumption == KindOf \in [Calls -> Kinds]
ASSUME NoneAssumption == None \notin Calls

VARIABLES
    pc,         \* where each call stands
    mu,         \* who holds the mutex
    made,       \* sessions are numbered; the newest one
    expired,    \* sessions the controller does not know any more
    client,     \* the session that each shared client belongs to
    todo,       \* clients the holder of the mutex still has to replace
    using,      \* the session of the client each call has taken
    failedAt,   \* history: the newest session when a call got its first 401
    effects, answer

vars == <<pc, mu, made, expired, client, todo, using, failedAt, effects, answer, faults>>

Init ==
    /\ pc = [c \in Calls |-> "take"]
    /\ mu = None
    /\ made = 0 /\ expired = {}
    /\ client = [k \in Kinds |-> 0]
    /\ todo = {}
    /\ using = [c \in Calls |-> 0]
    /\ failedAt = [c \in Calls |-> -1]
    /\ effects = [c \in Calls |-> 0]
    /\ answer = [c \in Calls |-> "none"]
    /\ FaultsInit

Goto(c, step) == pc' = [pc EXCEPT ![c] = step]

Answer(c, res) ==
    /\ answer' = [answer EXCEPT ![c] = res]
    /\ Goto(c, "done")

FirstTry(c) == failedAt[c] = -1

---------------------------------------------------------------------------
(* One try                                                                 *)

\* Variant: the retry goes on with the client it has.
TakeOnce(c) ==
    /\ pc[c] = "take" /\ mu = None
    /\ using' = [using EXCEPT ![c] = IF FirstTry(c) THEN client[KindOf[c]] ELSE @]
    /\ Goto(c, "send")
    /\ UNCHANGED <<mu, made, expired, client, todo, failedAt, effects, answer, faults>>

\* identityClient and the other three: each try asks for the client again.
TakeClient(c) ==
    /\ pc[c] = "take" /\ mu = None
    /\ using' = [using EXCEPT ![c] = client[KindOf[c]]]
    /\ Goto(c, "send")
    /\ UNCHANGED <<mu, made, expired, client, todo, failedAt, effects, answer, faults>>

\* Variant: any failure of the first try is retried.
RetryEveryError(c) ==
    /\ pc[c] = "send"
    /\ \/ /\ NoFault /\ using[c] \notin expired
          /\ effects' = [effects EXCEPT ![c] = @ + 1]
          /\ Answer(c, "ok") /\ UNCHANGED failedAt
       \/ /\ Fault("lost") /\ using[c] \notin expired /\ FirstTry(c)
          /\ effects' = [effects EXCEPT ![c] = @ + 1]
          /\ failedAt' = [failedAt EXCEPT ![c] = made]
          /\ Goto(c, "lock") /\ UNCHANGED answer
    /\ UNCHANGED <<mu, made, expired, client, todo, using>>

\* withReauth: only a 401, which has no effect, is retried, and only once.
Operation(c) ==
    /\ pc[c] = "send"
    /\ \/ /\ using[c] \notin expired
          /\ \/ NoFault /\ Answer(c, "ok")
             \/ Fault("lost") /\ Answer(c, "error")
          /\ effects' = [effects EXCEPT ![c] = @ + 1]
          /\ UNCHANGED failedAt
       \/ Fault("refused") /\ Answer(c, "error") /\ UNCHANGED <<effects, failedAt>>
       \/ /\ NoFault /\ using[c] \in expired /\ FirstTry(c)
          /\ failedAt' = [failedAt EXCEPT ![c] = made]
          /\ Goto(c, "lock") /\ UNCHANGED <<effects, answer>>
       \/ /\ NoFault /\ using[c] \in expired /\ ~FirstTry(c)
          /\ Answer(c, "error") /\ UNCHANGED <<effects, failedAt>>
    /\ UNCHANGED <<mu, made, expired, client, todo, using>>

---------------------------------------------------------------------------
(* reauthenticate                                                          *)

Lock(c) ==
    /\ pc[c] = "lock" /\ mu = None
    /\ mu' = c
    /\ Goto(c, "login")
    /\ UNCHANGED <<made, expired, client, todo, using, failedAt, effects, answer, faults>>

\* Variant: an error leaves the mutex locked.
LoginKeepsLock(c) ==
    /\ pc[c] = "login"
    /\ \/ /\ NoFault /\ made' = made + 1 /\ todo' = Kinds /\ Goto(c, "replace")
          /\ UNCHANGED answer
       \/ Fault("reauth") /\ Answer(c, "error") /\ UNCHANGED <<made, todo>>
    /\ UNCHANGED <<mu, expired, client, using, failedAt, effects>>

\* The files are read and the controller is asked for a session, all under the mutex.
Login(c) ==
    /\ pc[c] = "login"
    /\ \/ /\ NoFault /\ made' = made + 1 /\ todo' = Kinds /\ Goto(c, "replace")
          /\ UNCHANGED <<mu, answer>>
       \/ Fault("reauth") /\ Answer(c, "error") /\ mu' = None /\ UNCHANGED <<made, todo>>
    /\ UNCHANGED <<expired, client, using, failedAt, effects>>

ReplaceClient(c) ==
    /\ pc[c] = "replace"
    /\ \E k \in todo :
         /\ client' = [client EXCEPT ![k] = made]
         /\ todo' = todo \ {k}
    /\ UNCHANGED <<pc, mu, made, expired, using, failedAt, effects, answer, faults>>

Unlock(c) ==
    /\ pc[c] = "replace" /\ todo = {}
    /\ mu' = None
    /\ Goto(c, "take")
    /\ UNCHANGED <<made, expired, client, todo, using, failedAt, effects, answer, faults>>

---------------------------------------------------------------------------

\* The controller forgets a session.
Expire ==
    /\ \E s \in (0..made) \ expired : expired' = expired \cup {s}
    /\ UNCHANGED <<pc, mu, made, client, todo, using, failedAt, effects, answer, faults>>

Step(c) ==
    \/ TakeClient(c) \/ Operation(c)
    \/ Lock(c) \/ Login(c) \/ ReplaceClient(c) \/ Unlock(c)

Next == (\E c \in Calls : Step(c)) \/ Expire

Spec == Init /\ [][Next]_vars

\* Every call runs, and the mutex is free in the end since every holder lets it go.
FairSpec == Spec /\ \A c \in Calls : WF_vars(Step(c))

---------------------------------------------------------------------------
(* Properties                                                              *)

\* Every variable has its type, and no call takes effect twice.
TypeOK ==
    /\ pc \in [Calls -> {"take", "send", "lock", "login", "replace", "done"}]
    /\ mu \in Calls \cup {None}
    /\ made \in Nat /\ expired \subseteq 0..made
    /\ client \in [Kinds -> 0..made] /\ todo \subseteq Kinds
    /\ using \in [Calls -> 0..made]
    /\ failedAt \in [Calls -> {-1} \cup 0..made]
    /\ effects \in [Calls -> 0..1]
    /\ answer \in [Calls -> {"none", "ok", "error"}]
    /\ faults \in [FaultKinds -> Nat]
    /\ \A k \in FaultKinds : faults[k] <= MaxFaults[k]

\* Nobody sees clients of two sessions: while the mutex is free, all of them are
\* of the newest session.
ClientsWhole == mu = None => \A k \in Kinds : client[k] = made

\* A retry never goes to the session that just failed: the client it takes is of a
\* session newer than every one there was at the first 401, so that a second 401
\* means that this one has expired as well.
RetryUsesNewSession ==
    \A c \in Calls : pc[c] = "send" /\ ~FirstTry(c) => using[c] > failedAt[c]

\* With its retry, and with any number of calls that share the session, a call is
\* the single step that the other modules take it for.
Atomic == INSTANCE AtomicCall
ImplementsAtomicCall == Atomic!Spec

\* No call waits for the mutex, or retries, for ever.
EveryCallEnds == \A c \in Calls : <>(pc[c] = "done")
=============================================================================
