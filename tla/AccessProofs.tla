---------------------------- MODULE AccessProofs ----------------------------
(***************************************************************************)
(* How the service gets access to the controller and to its database, and  *)
(* keeps it: proofs about Session, for every set of calls and clients, and *)
(* about Startup, for every set of processes, tokens and migrations, and   *)
(* every fault budget.                                                     *)
(*                                                                         *)
(* The invariant of a start has two parts that hardly meet.  Of the        *)
(* migrations: what a replica has done and not committed, and that no two  *)
(* record the same.  Of the files, as long as nothing was cut: nobody has  *)
(* enrolled, or one process has and is writing, alone, or the files are    *)
(* whole and nobody can enroll again.                                      *)
(***************************************************************************)
EXTENDS Session, Startup, TLAPS

---------------------------------------------------------------------------
(* The session with the controller                                         *)

\* Only the holder of the mutex logs in and replaces clients.
MutexHeld == \A c \in Calls : pc[c] \in {"login", "replace"} <=> mu = c

\* A client that is not of the newest session is one the holder still has to replace.
OldIsToDo ==
    \A k \in Kinds : client[k] # made =>
        /\ k \in todo
        /\ \E c \in Calls : mu = c /\ pc[c] = "replace"

\* There is a newer session by the time a call tries again.
RetryHasNewer ==
    \A c \in Calls : pc[c] \in {"replace", "take"} => made > failedAt[c]

\* A call that goes on has had no effect and no answer.
UndecidedUntouched ==
    \A c \in Calls :
        /\ pc[c] # "done" => effects[c] = 0 /\ answer[c] = "none"

SessionInv ==
    /\ TypeOK
    /\ MutexHeld
    /\ OldIsToDo
    /\ RetryHasNewer
    /\ RetryUsesNewSession
    /\ UndecidedUntouched

---------------------------------------------------------------------------

\* A fault of any kind is counted and stays within the budget of its kind.
LEMMA FaultBounded ==
    ASSUME NEW kind \in FaultKinds, TypeOK, Fault(kind)
    PROVE  /\ faults' \in [FaultKinds -> Nat]
           /\ \A k \in FaultKinds : faults'[k] <= MaxFaults[k]
<1>1. /\ faults \in [FaultKinds -> Nat]
      /\ \A k \in FaultKinds : faults[k] <= MaxFaults[k]
      /\ MaxFaults[kind] \in Nat
  BY FaultsAssumption DEF TypeOK
<1>2. /\ faults[kind] < MaxFaults[kind]
      /\ faults' = [faults EXCEPT ![kind] = faults[kind] + 1]
  BY DEF Fault
<1>3. faults[kind] + 1 \in Nat /\ faults[kind] + 1 <= MaxFaults[kind]
  BY <1>1, <1>2
<1> QED BY <1>1, <1>2, <1>3

\* A step without a fault leaves the counts within their budgets.
LEMMA NoFaultBounded ==
    ASSUME TypeOK, NoFault
    PROVE  /\ faults' \in [FaultKinds -> Nat]
           /\ \A k \in FaultKinds : faults'[k] <= MaxFaults[k]
BY DEF TypeOK, NoFault

\* Before the first call, all clients are of the session the process began with.
LEMMA SessionInit == Init => SessionInv
BY FaultsAssumption, NoneAssumption
   DEF Init, FaultsInit, SessionInv, TypeOK, MutexHeld, OldIsToDo, RetryHasNewer,
       RetryUsesNewSession, UndecidedUntouched, FirstTry, FaultKinds

\* Every step of a call, and every session that expires, keeps the invariant.
LEMMA SessionStep == SessionInv /\ [Next]_vars => SessionInv'
<1> SUFFICES ASSUME SessionInv, [Next]_vars PROVE SessionInv'
  OBVIOUS
<1> USE FaultBounded, NoFaultBounded, KindAssumption, NoneAssumption
<1> USE DEF SessionInv, TypeOK
<1>1. ASSUME NEW c \in Calls, TakeClient(c) PROVE SessionInv'
  <2>1. /\ using' = [using EXCEPT ![c] = client[KindOf[c]]]
        /\ pc' = [pc EXCEPT ![c] = "send"] /\ mu = None /\ pc[c] = "take"
        /\ UNCHANGED <<mu, made, expired, client, todo, failedAt, effects, answer, faults>>
    BY <1>1 DEF TakeClient, Goto
  <2>2. client[KindOf[c]] = made
    BY <2>1 DEF OldIsToDo
  <2>3. TypeOK'
    BY <2>1, <2>2
  <2>4. MutexHeld' /\ OldIsToDo' /\ UndecidedUntouched'
    BY <2>1 DEF MutexHeld, OldIsToDo, UndecidedUntouched
  <2>5. RetryHasNewer' /\ RetryUsesNewSession'
    BY <2>1, <2>2 DEF RetryHasNewer, RetryUsesNewSession, FirstTry
  <2> QED BY <2>3, <2>4, <2>5
<1>2. ASSUME NEW c \in Calls, Operation(c) PROVE SessionInv'
  <2>0. /\ pc[c] = "send" /\ effects[c] = 0 /\ answer[c] = "none"
        /\ UNCHANGED <<mu, made, expired, client, todo, using>>
    BY <1>2 DEF Operation, UndecidedUntouched
  <2>1. TypeOK'
    <3>1. effects[c] + 1 \in 0..1
      BY <2>0
    <3>2. CASE NoFault /\ FirstTry(c) /\ failedAt' = [failedAt EXCEPT ![c] = made]
               /\ Goto(c, "lock") /\ UNCHANGED <<effects, answer>>
      BY <2>0, <3>2 DEF Goto
    <3>3. CASE UNCHANGED failedAt
      <4>1. /\ pc' \in [Calls -> {"take", "send", "lock", "login", "replace", "done"}]
            /\ answer' \in [Calls -> {"none", "ok", "error"}]
            /\ effects' \in [Calls -> 0..1]
        BY <1>2, <2>0, <3>1 DEF Operation, Answer, Goto
      <4>2. /\ faults' \in [FaultKinds -> Nat]
            /\ \A k \in FaultKinds : faults'[k] <= MaxFaults[k]
        BY <1>2 DEF Operation, FaultKinds
      <4> QED BY <2>0, <3>3, <4>1, <4>2
    <3> QED BY <1>2, <3>2, <3>3 DEF Operation
  <2>2. \E step \in {"done", "lock"} : pc' = [pc EXCEPT ![c] = step]
    BY <1>2 DEF Operation, Answer, Goto
  <2>3. \A d \in Calls \ {c} : failedAt'[d] = failedAt[d] /\ effects'[d] = effects[d]
                               /\ answer'[d] = answer[d]
    BY <1>2 DEF Operation, Answer, Goto
  <2>4. MutexHeld' /\ OldIsToDo'
    BY <2>0, <2>2 DEF MutexHeld, OldIsToDo
  <2>5. RetryHasNewer' /\ RetryUsesNewSession'
    BY <2>0, <2>2, <2>3 DEF RetryHasNewer, RetryUsesNewSession, FirstTry
  <2>6. pc'[c] # "done" => effects'[c] = 0 /\ answer'[c] = "none"
    BY <1>2, <2>0 DEF Operation, Answer, Goto
  <2>7. UndecidedUntouched'
    BY <2>2, <2>3, <2>6 DEF UndecidedUntouched
  <2> QED BY <2>1, <2>4, <2>5, <2>7
<1>3. ASSUME NEW c \in Calls, Lock(c) PROVE SessionInv'
  BY <1>3 DEF Lock, Goto, MutexHeld, OldIsToDo, RetryHasNewer,
              RetryUsesNewSession, UndecidedUntouched, FirstTry
<1>4. ASSUME NEW c \in Calls, Login(c) PROVE SessionInv'
  <2>0. /\ mu = c /\ pc[c] = "login" /\ \A k \in Kinds : client[k] = made
        /\ UNCHANGED <<expired, client, using, failedAt, effects>>
    BY <1>4 DEF Login, MutexHeld, OldIsToDo
  <2>1. CASE /\ NoFault /\ made' = made + 1 /\ todo' = Kinds /\ Goto(c, "replace")
             /\ UNCHANGED <<mu, answer>>
    <3>1. TypeOK'
      BY <2>0, <2>1 DEF Goto
    <3>2. MutexHeld' /\ OldIsToDo' /\ UndecidedUntouched'
      BY <2>0, <2>1 DEF Goto, MutexHeld, OldIsToDo, UndecidedUntouched
    <3>3. RetryHasNewer' /\ RetryUsesNewSession'
      BY <2>0, <2>1 DEF Goto, RetryHasNewer, RetryUsesNewSession, FirstTry
    <3> QED BY <3>1, <3>2, <3>3
  <2>2. CASE Fault("reauth") /\ Answer(c, "error") /\ mu' = None /\ UNCHANGED <<made, todo>>
    <3>1. TypeOK'
      BY <2>0, <2>2 DEF Answer, Goto, FaultKinds
    <3>2. MutexHeld' /\ OldIsToDo' /\ UndecidedUntouched'
      BY <2>0, <2>2 DEF Answer, Goto, MutexHeld, OldIsToDo, UndecidedUntouched
    <3>3. RetryHasNewer' /\ RetryUsesNewSession'
      BY <2>0, <2>2 DEF Answer, Goto, RetryHasNewer, RetryUsesNewSession, FirstTry
    <3> QED BY <3>1, <3>2, <3>3
  <2> QED BY <1>4, <2>1, <2>2 DEF Login
<1>5. ASSUME NEW c \in Calls, ReplaceClient(c) PROVE SessionInv'
  BY <1>5 DEF ReplaceClient, MutexHeld, OldIsToDo, RetryHasNewer,
              RetryUsesNewSession, UndecidedUntouched, FirstTry
<1>6. ASSUME NEW c \in Calls, Unlock(c) PROVE SessionInv'
  BY <1>6 DEF Unlock, Goto, MutexHeld, OldIsToDo, RetryHasNewer,
              RetryUsesNewSession, UndecidedUntouched, FirstTry
<1>7. CASE Expire
  BY <1>7 DEF Expire, MutexHeld, OldIsToDo, RetryHasNewer,
              RetryUsesNewSession, UndecidedUntouched, FirstTry
<1>8. CASE UNCHANGED vars
  BY <1>8 DEF vars, MutexHeld, OldIsToDo, RetryHasNewer,
              RetryUsesNewSession, UndecidedUntouched, FirstTry
<1> QED BY <1>1, <1>2, <1>3, <1>4, <1>5, <1>6, <1>7, <1>8 DEF Next, Step

\* The invariant holds in every reachable state.
THEOREM Invariance == Spec => []SessionInv
BY SessionInit, SessionStep, PTL DEF Spec

---------------------------------------------------------------------------
(* Results                                                                 *)

\* Every variable has its type and no call takes effect twice, with any number of
\* calls that share the session.
THEOREM TypeCorrect == Spec => []TypeOK
<1>1. SessionInv => TypeOK
  BY DEF SessionInv
<1> QED BY <1>1, Invariance, PTL

\* Whoever takes a client gets one of the newest session.
THEOREM ClientsWholeCorrect == Spec => []ClientsWhole
<1>1. SessionInv => ClientsWhole
  BY NoneAssumption DEF SessionInv, OldIsToDo, ClientsWhole
<1> QED BY <1>1, Invariance, PTL

\* A retry goes to a session that did not exist when the call got its 401.
THEOREM RetryCorrect == Spec => []RetryUsesNewSession
<1>1. SessionInv => RetryUsesNewSession
  BY DEF SessionInv
<1> QED BY <1>1, Invariance, PTL

\* The calls together, with their retries, implement calls that are one step each.
THEOREM Refinement == Spec => ImplementsAtomicCall
<1>1. Init => Atomic!Init
  BY DEF Init, Atomic!Init
<1>2. SessionInv /\ [Next]_vars => [Atomic!Next]_<<effects, answer>>
  <2> SUFFICES ASSUME SessionInv, [Next]_vars
               PROVE  Atomic!Next \/ UNCHANGED <<effects, answer>>
    OBVIOUS
  <2>1. ASSUME NEW c \in Calls, Operation(c)
        PROVE  Atomic!Next \/ UNCHANGED <<effects, answer>>
    <3>1. answer[c] = "none"
      BY <2>1 DEF Operation, SessionInv, UndecidedUntouched
    <3>2. \/ Atomic!Works(c) \/ Atomic!Breaks(c)
          \/ UNCHANGED <<effects, answer>>
      BY <2>1, <3>1 DEF Operation, Answer, Goto, Atomic!Works, Atomic!Breaks
    <3> QED BY <3>2 DEF Atomic!Next
  <2>2. ASSUME NEW c \in Calls, Login(c)
        PROVE  Atomic!Next \/ UNCHANGED <<effects, answer>>
    <3>1. answer[c] = "none"
      BY <2>2 DEF Login, SessionInv, UndecidedUntouched
    <3>2. Atomic!Breaks(c) \/ UNCHANGED <<effects, answer>>
      BY <2>2, <3>1 DEF Login, Answer, Goto, Atomic!Breaks
    <3> QED BY <3>2 DEF Atomic!Next
  <2>3. ASSUME NEW c \in Calls,
               TakeClient(c) \/ Lock(c) \/ ReplaceClient(c) \/ Unlock(c)
        PROVE  UNCHANGED <<effects, answer>>
    BY <2>3 DEF TakeClient, Lock, ReplaceClient, Unlock
  <2>4. ASSUME Expire \/ UNCHANGED vars PROVE UNCHANGED <<effects, answer>>
    BY <2>4 DEF Expire, vars
  <2> QED BY <2>1, <2>2, <2>3, <2>4 DEF Next, Step
<1> QED BY <1>1, <1>2, Invariance, PTL
        DEF Spec, Atomic!Spec, ImplementsAtomicCall

---------------------------------------------------------------------------
(* The start of a process: types *)

Counts == [ToSet(Versions) -> Nat]
TxType == [created : BOOLEAN, applied : Counts, recorded : SUBSET ToSet(Versions)]

EnrollmentTypes ==
    /\ creds \in [Replicas -> Tokens \cup {Missing}]
    /\ file \in [Files -> Tokens \cup {Missing, Torn}]
    /\ offered \in Tokens /\ spent \in SUBSET Tokens
    /\ cut \in BOOLEAN

MigrationsTypes ==
    /\ recorded \in SUBSET ToSet(Versions)
    /\ applied \in Counts
    /\ at \in [Replicas -> 1..Len(Versions) + 1]
    /\ tx \in [Replicas -> TxType]

StageType == stage \in [Replicas -> Stages]

---------------------------------------------------------------------------
(* The migrations *)

\* What a replica has done and not committed: its transaction is empty outside the
\* migrations; every migration in front of its position is recorded, by others or by
\* itself; what it records, nobody else has recorded; and what it has applied and not
\* recorded is at most the migration it is at.
OpenTx(step, p, t, rows) ==
    /\ step \notin Migrating \ {"ensure"} => t = EmptyTx /\ p = 1
    /\ step = "wait for table" => t = EmptyTx
    /\ step \in {"apply", "record"} => p <= Len(Versions) /\ Versions[p] \notin t.recorded
    /\ step = "commit" => p = Len(Versions) + 1
    /\ step \in Migrated => rows = ToSet(Versions)
    /\ \A v \in ToSet(Versions) :
          t.applied[v] = IF v \in t.recorded \/ (step = "record" /\ v = Versions[p]) THEN 1 ELSE 0
    /\ \A i \in 1..p - 1 : Versions[i] \in rows \cup t.recorded
    /\ t.recorded \cap rows = {}

Open(r) == OpenTx(stage[r], at[r], tx[r], recorded)

Disjoint == \A r, s \in Replicas : r # s => tx[r].recorded \cap tx[s].recorded = {}

MigrationsInv == AppliedOnce /\ Disjoint /\ \A r \in Replicas : Open(r)

---------------------------------------------------------------------------
(* The files *)

Holds(c, k, a) == file["cert"] = c /\ file["key"] = k /\ file["ca"] = a

\* The one process that has enrolled, and how far it is with the files.
WrittenBy(r) ==
    /\ \A s \in Replicas \ {r} : stage[s] \notin Writing
    /\ creds[r] = offered /\ offered \in spent
    /\ \/ stage[r] = "open cert" /\ Holds(Missing, Missing, Missing)
       \/ stage[r] = "fill cert" /\ Holds(Torn, Missing, Missing)
       \/ stage[r] = "open key" /\ Holds(offered, Missing, Missing)
       \/ stage[r] = "fill key" /\ Holds(offered, Torn, Missing)
       \/ stage[r] = "open ca" /\ Holds(offered, offered, Missing)
       \/ stage[r] = "fill ca" /\ Holds(offered, offered, Torn)

NoWriter == \A r \in Replicas : stage[r] \notin Writing

\* Before the first enrollment, and after it: whoever would still enroll cannot.
NotEnrolled == NoWriter /\ Holds(Missing, Missing, Missing) /\ offered \notin spent
Enrolled ==
    NoWriter /\ Usable /\ \A r \in Replicas : stage[r] = "enroll" => offered \in spent

FilesInv ==
    ~cut =>
        /\ NotEnrolled \/ Enrolled \/ \E r \in Replicas : WrittenBy(r)
        /\ \A r \in Replicas :
              /\ stage[r] \in {"load ca", "serving"} =>
                    creds[r] = file["cert"] /\ file["cert"] \in Tokens
              /\ stage[r] = "serving" => Usable

StartInv == StageType /\ EnrollmentTypes /\ MigrationsTypes /\ MigrationsInv /\ FilesInv

---------------------------------------------------------------------------

\* The versions are those at the positions.
LEMMA Positions ==
    /\ Len(Versions) \in Nat
    /\ \A i \in 1..Len(Versions) : Versions[i] \in ToSet(Versions)
    /\ \A v \in ToSet(Versions) : \E i \in 1..Len(Versions) : Versions[i] = v
<1>1. Versions \in Seq(DOMAIN TableOf)
  BY VersionsAssumption
<1> QED BY <1>1 DEF ToSet

\* An empty transaction is a transaction.
LEMMA EmptyTxType == EmptyTx \in TxType /\ NotApplied \in Counts
BY DEF EmptyTx, NotApplied, TxType, Counts

\* Steps outside the migrations leave them as they are.
LEMMA MigrationsApart ==
    ASSUME StartInv, NEW r \in Replicas, NEW step \in Stages \ (Migrating \ {"ensure"}),
           stage[r] \notin Migrating \ {"ensure"}, Proceed(r, step), UNCHANGED migrations,
           step \in Migrated => stage[r] \in Migrated
    PROVE  StageType' /\ MigrationsTypes' /\ MigrationsInv'
<1>1. StageType' /\ stage'[r] = step /\ \A s \in Replicas \ {r} : stage'[s] = stage[s]
  BY DEF StartInv, StageType, Proceed
<1>2. MigrationsTypes' /\ AppliedOnce' /\ Disjoint'
  BY DEF StartInv, MigrationsTypes, MigrationsInv, migrations, AppliedOnce, Disjoint
<1>3. recorded' = recorded /\ at' = at /\ tx' = tx /\ \A s \in Replicas : Open(s)
  BY DEF StartInv, MigrationsInv, migrations
<1>4. ASSUME NEW s \in Replicas PROVE Open(s)'
  <2>1. CASE s = r
    <3>1. OpenTx(stage[r], at[r], tx[r], recorded)
      BY <1>3 DEF Open
    <3>2. OpenTx(step, at[r], tx[r], recorded)
      BY <3>1 DEF OpenTx, Migrating, Migrated
    <3> QED BY <1>1, <1>3, <2>1, <3>2 DEF Open
  <2>2. CASE s # r
    BY <1>1, <1>3, <2>2 DEF Open
  <2> QED BY <2>1, <2>2
<1> QED BY <1>1, <1>2, <1>4 DEF MigrationsInv

\* Steps of a process that has nothing to do with the files leave them as they are.
LEMMA FilesApart ==
    ASSUME StartInv, NEW r \in Replicas, NEW step \in Stages \ (Writing \cup {"load ca", "serving"}),
           stage[r] \notin Writing, Proceed(r, step), UNCHANGED <<file, offered, spent, cut>>,
           \A s \in Replicas \ {r} : creds'[s] = creds[s],
           creds' \in [Replicas -> Tokens \cup {Missing}],
           step = "enroll" => ~AllExist
    PROVE  EnrollmentTypes' /\ FilesInv'
<1>1. stage'[r] = step /\ \A s \in Replicas \ {r} : stage'[s] = stage[s]
  BY DEF StartInv, StageType, Proceed
<1>2. EnrollmentTypes'
  BY DEF StartInv, EnrollmentTypes
<1>3. ASSUME ~cut PROVE FilesInv'
  <2>1. CASE NotEnrolled
    <3>1. NotEnrolled'
      BY <1>1, <2>1 DEF NotEnrolled, NoWriter, Holds
    <3>2. \A s \in Replicas : stage'[s] \notin {"load ca", "serving"}
      BY <1>1, <1>3, <2>1, TokensAssumption DEF StartInv, FilesInv, NotEnrolled, Holds
    <3> QED BY <3>1, <3>2 DEF FilesInv
  <2>2. CASE Enrolled
    <3>1. AllExist
      BY <2>2, TokensAssumption DEF Enrolled, Usable, AllExist, Files
    <3>2. Enrolled'
      BY <1>1, <2>2, <3>1 DEF Enrolled, NoWriter, Usable
    <3> QED BY <1>1, <1>3, <3>2 DEF FilesInv, StartInv, Usable
  <2>3. ASSUME NEW s \in Replicas, WrittenBy(s) PROVE FilesInv'
    <3>1. s # r
      BY <2>3 DEF WrittenBy, Writing
    <3>2. WrittenBy(s)'
      BY <1>1, <2>3, <3>1 DEF WrittenBy, Holds
    <3> QED BY <1>1, <1>3, <3>2 DEF FilesInv, StartInv, Usable
  <2> QED BY <1>3, <2>1, <2>2, <2>3 DEF StartInv, FilesInv
<1> QED BY <1>2, <1>3 DEF FilesInv

\* A step that commits nothing, seen from the migrations.
LEMMA MigrationsMove ==
    ASSUME StartInv, NEW r \in Replicas, NEW step \in Migrating \cup {"down"},
           NEW p \in 1..Len(Versions) + 1, NEW t \in TxType, Proceed(r, step),
           at' = [at EXCEPT ![r] = p], tx' = [tx EXCEPT ![r] = t],
           UNCHANGED <<recorded, applied>>, OpenTx(step, p, t, recorded),
           \A s \in Replicas \ {r} : t.recorded \cap tx[s].recorded = {}
    PROVE  StageType' /\ MigrationsTypes' /\ MigrationsInv'
<1>2. StageType' /\ stage'[r] = step /\ \A s \in Replicas \ {r} : stage'[s] = stage[s]
  BY DEF StartInv, StageType, Proceed, Stages
<1>3. MigrationsTypes' /\ AppliedOnce'
  BY DEF StartInv, MigrationsTypes, MigrationsInv, AppliedOnce
<1>4. /\ tx'[r] = t /\ at'[r] = p /\ recorded' = recorded
      /\ \A s \in Replicas \ {r} : tx'[s] = tx[s] /\ at'[s] = at[s]
  BY DEF StartInv, MigrationsTypes
<1>5. ASSUME NEW s \in Replicas PROVE Open(s)'
  <2>1. CASE s = r
    BY <1>2, <1>4, <2>1 DEF Open
  <2>2. CASE s # r
    <3>1. Open(s)
      BY DEF StartInv, MigrationsInv
    <3> QED BY <1>2, <1>4, <2>2, <3>1 DEF Open
  <2> QED BY <2>1, <2>2
<1>6. Disjoint'
  BY <1>4 DEF StartInv, MigrationsInv, Disjoint
<1> QED BY <1>2, <1>3, <1>5, <1>6 DEF MigrationsInv

\* Such a step of the migrations themselves.
LEMMA MigrationStep ==
    ASSUME StartInv, NEW r \in Replicas, NEW step \in Migrating \cup {"down"},
           NEW p \in 1..Len(Versions) + 1, NEW t \in TxType,
           stage[r] \in Migrating, Proceed(r, step),
           at' = [at EXCEPT ![r] = p], tx' = [tx EXCEPT ![r] = t],
           UNCHANGED <<recorded, applied>>, UNCHANGED enrollment, OpenTx(step, p, t, recorded),
           \A s \in Replicas \ {r} : t.recorded \cap tx[s].recorded = {}
    PROVE  StartInv'
<1>1. EnrollmentTypes' /\ FilesInv'
  <2>1. /\ step \in Stages \ (Writing \cup {"load ca", "serving"}) /\ step # "enroll"
        /\ stage[r] \notin Writing
    BY DEF Migrating, Stages, Writing
  <2>2. /\ UNCHANGED <<file, offered, spent, cut>>
        /\ \A s \in Replicas \ {r} : creds'[s] = creds[s]
        /\ creds' \in [Replicas -> Tokens \cup {Missing}]
    BY DEF enrollment, StartInv, EnrollmentTypes
  <2> QED BY <2>1, <2>2, FilesApart
<1>2. StageType' /\ MigrationsTypes' /\ MigrationsInv'
  BY MigrationsMove
<1> QED BY <1>1, <1>2 DEF StartInv

\* A replica that is rolled back has nothing open.
LEMMA NothingOpen ==
    /\ OpenTx("down", 1, EmptyTx, recorded) /\ EmptyTx.recorded = {}
    /\ recorded = ToSet(Versions) => OpenTx("load", 1, EmptyTx, recorded)
<1>1. EmptyTx.recorded = {} /\ \A v \in ToSet(Versions) : EmptyTx.applied[v] = 0
  BY DEF EmptyTx, NotApplied
<1> QED BY <1>1 DEF OpenTx, Migrating, Migrated

\* An error in the migrations leaves nothing behind.
LEMMA RollbackStep ==
    ASSUME StartInv, NEW r \in Replicas, stage[r] \in Migrating, Rollback(r), UNCHANGED enrollment
    PROVE  StartInv'
<1>1. /\ Proceed(r, "down") /\ at' = [at EXCEPT ![r] = 1] /\ tx' = [tx EXCEPT ![r] = EmptyTx]
      /\ UNCHANGED <<recorded, applied>>
  BY DEF Rollback, Forget
<1>2. 1 \in 1..Len(Versions) + 1
  BY Positions
<1> QED BY <1>1, <1>2, EmptyTxType, NothingOpen, MigrationStep

\* What the invariant says of a replica that migrates.
LEMMA MigratingState ==
    ASSUME StartInv, NEW r \in Replicas
    PROVE  /\ OpenTx(stage[r], at[r], tx[r], recorded)
           /\ at[r] \in 1..Len(Versions) + 1 /\ at = [at EXCEPT ![r] = at[r]]
           /\ tx[r] \in TxType /\ tx = [tx EXCEPT ![r] = tx[r]]
           /\ \A s \in Replicas \ {r} : tx[r].recorded \cap tx[s].recorded = {}
BY DEF StartInv, MigrationsInv, MigrationsTypes, Open, Disjoint

\* The table is there, or this transaction creates it.
LEMMA CreatedStep ==
    ASSUME StartInv, NEW r \in Replicas, stage[r] \in {"ensure", "wait for table"},
           NEW step \in {"check", "wait for table"}, NEW t \in TxType,
           t = tx[r] \/ (t = [tx[r] EXCEPT !.created = TRUE] /\ step = "check"),
           Proceed(r, step), tx' = [tx EXCEPT ![r] = t],
           step = "wait for table" => stage[r] = "ensure",
           UNCHANGED <<recorded, applied, at>>, UNCHANGED enrollment
    PROVE  StartInv'
<1>1. /\ OpenTx(stage[r], at[r], tx[r], recorded) /\ stage[r] \in Migrating /\ step \in Migrating
  BY MigratingState DEF Migrating
<1>2. t.recorded = tx[r].recorded /\ t.applied = tx[r].applied
  BY MigratingState DEF TxType
<1>3. OpenTx(step, at[r], t, recorded)
  <2>1. /\ \A v \in ToSet(Versions) : t.applied[v] = IF v \in t.recorded THEN 1 ELSE 0
        /\ \A i \in 1..at[r] - 1 : Versions[i] \in recorded \cup t.recorded
        /\ t.recorded \cap recorded = {}
    BY <1>1, <1>2 DEF OpenTx
  <2>2. step = "wait for table" => t = EmptyTx
    BY <1>1 DEF OpenTx, Migrating
  <2>3. /\ step \in Migrating \ {"ensure"} /\ step \notin {"apply", "record"} /\ step # "commit"
        /\ step \notin Migrated /\ step # "record"
    BY DEF Migrating, Migrated
  <2> QED BY <2>1, <2>2, <2>3 DEF OpenTx
<1>4. \A s \in Replicas \ {r} : t.recorded \cap tx[s].recorded = {}
  BY <1>2, MigratingState
<1>5. at' = [at EXCEPT ![r] = at[r]] /\ at[r] \in 1..Len(Versions) + 1 /\ step \in Migrating \cup {"down"}
  BY <1>1, MigratingState
<1> QED BY <1>1, <1>3, <1>4, <1>5, MigrationStep

\* The table is found or created, or the process ends for having waited for it.
LEMMA EnsureStep ==
    ASSUME StartInv, NEW r \in Replicas, EnsureTable(r) \/ WaitForTable(r), UNCHANGED enrollment
    PROVE  StartInv'
<1> DEFINE created == [tx[r] EXCEPT !.created = TRUE]
<1>1. created \in TxType
  BY MigratingState DEF TxType
<1>2. PICK t : t = created
  OBVIOUS
<1>3. tx' = [tx EXCEPT ![r].created = TRUE] => tx' = [tx EXCEPT ![r] = t]
  BY <1>2
<1> HIDE DEF created
<1>4. CASE EnsureTable(r)
  <2>1. PICK u : u = tx[r]
    OBVIOUS
  <2>2. UNCHANGED tx => tx' = [tx EXCEPT ![r] = u]
    BY <2>1, MigratingState
  <2>3. stage[r] = "ensure" /\ UNCHANGED <<recorded, applied, at>> /\ u \in TxType /\ t \in TxType
    BY <1>1, <1>2, <1>4, <2>1, MigratingState DEF EnsureTable
  <2>4. \/ Proceed(r, "check") /\ tx' = [tx EXCEPT ![r] = u]
        \/ Proceed(r, "wait for table") /\ tx' = [tx EXCEPT ![r] = u]
        \/ Proceed(r, "check") /\ tx' = [tx EXCEPT ![r] = t]
    BY <1>3, <1>4, <2>2 DEF EnsureTable
  <2> QED BY <1>2, <2>1, <2>3, <2>4, CreatedStep DEF created
<1>5. CASE WaitForTable(r)
  <2>1. stage[r] = "wait for table" /\ stage[r] \in Migrating
    BY <1>5 DEF WaitForTable, Migrating
  <2>2. CASE ensured
    BY <1>5, <2>1, <2>2, RollbackStep DEF WaitForTable
  <2>3. CASE ~ensured
    BY <1>1, <1>2, <1>3, <1>5, <2>1, <2>3, CreatedStep DEF WaitForTable, created
  <2> QED BY <2>2, <2>3
<1> QED BY <1>4, <1>5

\* A migration that is recorded is passed by, and the others are applied.
LEMMA CheckStep ==
    ASSUME StartInv, NEW r \in Replicas, Check(r), UNCHANGED enrollment
    PROVE  StartInv'
<1>1. /\ stage[r] = "check" /\ stage[r] \in Migrating /\ UNCHANGED <<recorded, applied>>
      /\ tx' = [tx EXCEPT ![r] = tx[r]]
  BY MigratingState DEF Check, Migrating
<1>2. PICK p, t : p = at[r] /\ t = tx[r]
  OBVIOUS
<1>3. /\ OpenTx("check", p, t, recorded) /\ p \in 1..Len(Versions) + 1 /\ t \in TxType
      /\ tx' = [tx EXCEPT ![r] = t] /\ \A s \in Replicas \ {r} : t.recorded \cap tx[s].recorded = {}
      /\ Len(Versions) \in Nat
  BY <1>1, <1>2, MigratingState, Positions
<1>4. CASE p > Len(Versions)
  <2>1. Proceed(r, "commit") /\ at' = [at EXCEPT ![r] = p]
    BY <1>2, <1>4, MigratingState DEF Check
  <2>2. OpenTx("commit", p, t, recorded)
    BY <1>3, <1>4 DEF OpenTx, Migrating, Migrated
  <2> QED BY <1>1, <1>3, <2>1, <2>2, MigrationStep DEF Migrating
<1>5. CASE p <= Len(Versions) /\ Versions[p] \in recorded \cup t.recorded
  <2>1. stage' = stage /\ at' = [at EXCEPT ![r] = @ + 1]
    BY <1>2, <1>3, <1>5 DEF Check, Version
  <2>2. Proceed(r, "check") /\ at' = [at EXCEPT ![r] = p + 1] /\ p + 1 \in 1..Len(Versions) + 1
    BY <1>1, <1>2, <1>3, <1>5, <2>1 DEF Proceed, StartInv, StageType
  <2>3. OpenTx("check", p + 1, t, recorded)
    <3>1. \A i \in 1..(p + 1) - 1 : i = p \/ i \in 1..p - 1
      BY <1>3
    <3> QED BY <1>3, <1>5, <3>1 DEF OpenTx, Migrating, Migrated
  <2> QED BY <1>1, <1>3, <2>2, <2>3, MigrationStep DEF Migrating
<1>6. CASE p <= Len(Versions) /\ Versions[p] \notin recorded \cup t.recorded
  <2>1. Proceed(r, "apply") /\ at' = [at EXCEPT ![r] = p]
    BY <1>2, <1>3, <1>6, MigratingState DEF Check, Version
  <2>2. OpenTx("apply", p, t, recorded)
    BY <1>3, <1>6 DEF OpenTx, Migrating, Migrated
  <2> QED BY <1>1, <1>3, <2>1, <2>2, MigrationStep DEF Migrating
<1> QED BY <1>3, <1>4, <1>5, <1>6

\* Effects of a migration that may be there already are refused or counted.
LEMMA ApplyStep ==
    ASSUME StartInv, NEW r \in Replicas, Apply(r), UNCHANGED enrollment
    PROVE  StartInv'
<1>1. stage[r] = "apply" /\ stage[r] \in Migrating
  BY DEF Apply, Migrating
<1>2. CASE Rollback(r)
  BY <1>1, <1>2, RollbackStep
<1>3. CASE /\ tx' = [tx EXCEPT ![r].applied[Version(r)] = @ + 1]
           /\ Proceed(r, "record") /\ UNCHANGED <<ensured, recorded, applied, at>>
  <2>1. PICK p, t : p = at[r] /\ t = tx[r]
    OBVIOUS
  <2>2. /\ OpenTx("apply", p, t, recorded) /\ p \in 1..Len(Versions) + 1 /\ t \in TxType
        /\ at' = [at EXCEPT ![r] = p]
        /\ \A s \in Replicas \ {r} : t.recorded \cap tx[s].recorded = {}
        /\ Len(Versions) \in Nat
    BY <1>1, <1>3, <2>1, MigratingState, Positions
  <2>3. PICK u : u = [t EXCEPT !.applied[Versions[p]] = @ + 1]
    OBVIOUS
  <2>4. p \in 1..Len(Versions) /\ Versions[p] \in ToSet(Versions) /\ Versions[p] \notin t.recorded
    BY <2>2, Positions DEF OpenTx
  <2>5. u \in TxType /\ u.recorded = t.recorded /\ u.applied = [t.applied EXCEPT ![Versions[p]] = @ + 1]
    <3>1. PICK a : a = t.applied
      OBVIOUS
    <3>2. a \in Counts
      BY <2>2, <3>1 DEF TxType
    <3>3. [a EXCEPT ![Versions[p]] = @ + 1] \in Counts
      BY <2>4, <3>2 DEF Counts
    <3>4. u = [t EXCEPT !.applied = [a EXCEPT ![Versions[p]] = @ + 1]]
      BY <2>2, <2>3, <3>1 DEF TxType
    <3> QED BY <2>2, <3>1, <3>3, <3>4 DEF TxType
  <2>6. tx' = [tx EXCEPT ![r] = u]
    BY <1>3, <2>1, <2>3 DEF Version
  <2>7. OpenTx("record", p, u, recorded)
    <3>1. \A v \in ToSet(Versions) : t.applied[v] = IF v \in t.recorded THEN 1 ELSE 0
      BY <2>2 DEF OpenTx
    <3>2. \A v \in ToSet(Versions) : u.applied[v] = IF v \in u.recorded \/ v = Versions[p] THEN 1 ELSE 0
      BY <2>2, <2>4, <2>5, <3>1 DEF TxType, Counts
    <3>3. /\ \A i \in 1..p - 1 : Versions[i] \in recorded \cup u.recorded
          /\ u.recorded \cap recorded = {} /\ p <= Len(Versions) /\ Versions[p] \notin u.recorded
      BY <2>2, <2>4, <2>5 DEF OpenTx
    <3>4. "record" \in Migrating \ {"ensure"} /\ "record" \notin Migrated
      BY DEF Migrating, Migrated
    <3> QED BY <3>2, <3>3, <3>4 DEF OpenTx
  <2>8. /\ \A s \in Replicas \ {r} : u.recorded \cap tx[s].recorded = {}
        /\ Proceed(r, "record") /\ UNCHANGED <<recorded, applied>>
    BY <1>3, <2>2, <2>5
  <2> QED BY <1>1, <2>2, <2>5, <2>6, <2>7, <2>8, MigrationStep DEF Migrating
<1> QED BY <1>2, <1>3 DEF Apply

\* The primary key refuses what another replica has recorded.
LEMMA RecordStep ==
    ASSUME StartInv, NEW r \in Replicas, Record(r), UNCHANGED enrollment
    PROVE  StartInv'
<1>1. stage[r] = "record" /\ stage[r] \in Migrating
  BY DEF Record, Migrating
<1>2. CASE Version(r) \in recorded
  BY <1>1, <1>2, RollbackStep DEF Record
<1>3. CASE Version(r) \notin recorded
  <2>1. PICK p, t : p = at[r] /\ t = tx[r]
    OBVIOUS
  <2>2. /\ OpenTx("record", p, t, recorded) /\ p \in 1..Len(Versions) + 1 /\ t \in TxType
        /\ at' = [at EXCEPT ![r] = p]
        /\ \A s \in Replicas \ {r} : t.recorded \cap tx[s].recorded = {}
        /\ Len(Versions) \in Nat /\ UNCHANGED <<recorded, applied>> /\ Proceed(r, "check")
    BY <1>1, <1>3, <2>1, MigratingState, Positions DEF Record
  <2>3. PICK u : u = [t EXCEPT !.recorded = @ \cup {Versions[p]}]
    OBVIOUS
  <2>4. p \in 1..Len(Versions) /\ Versions[p] \in ToSet(Versions)
    BY <2>2, Positions DEF OpenTx
  <2>5. u \in TxType /\ u.recorded = t.recorded \cup {Versions[p]} /\ u.applied = t.applied
    BY <2>2, <2>3, <2>4 DEF TxType
  <2>6. tx' = [tx EXCEPT ![r] = u] /\ \A s \in Replicas \ {r} : u.recorded \cap tx[s].recorded = {}
    BY <1>3, <2>1, <2>2, <2>3, <2>5 DEF Version, Record
  <2>7. OpenTx("check", p, u, recorded)
    <3>1. \A v \in ToSet(Versions) : t.applied[v] = IF v \in t.recorded \/ v = Versions[p] THEN 1 ELSE 0
      BY <2>2 DEF OpenTx
    <3>2. \A v \in ToSet(Versions) : u.applied[v] = IF v \in u.recorded THEN 1 ELSE 0
      BY <2>5, <3>1
    <3>3. /\ \A i \in 1..p - 1 : Versions[i] \in recorded \cup u.recorded
          /\ u.recorded \cap recorded = {}
      BY <1>3, <2>1, <2>2, <2>5 DEF OpenTx, Version
    <3> QED BY <3>2, <3>3 DEF OpenTx, Migrating, Migrated
  <2> QED BY <1>1, <2>2, <2>5, <2>6, <2>7, MigrationStep DEF Migrating
<1> QED BY <1>2, <1>3

\* What is committed is recorded together with its effects, and was neither before.
LEMMA CommitStep ==
    ASSUME StartInv, NEW r \in Replicas, Commit(r), UNCHANGED enrollment
    PROVE  StartInv'
<1>1. PICK step \in {"load", "down"} : Proceed(r, step)
  BY DEF Commit
<1>2. /\ stage[r] = "commit" /\ stage[r] \in Migrating /\ stage[r] \notin Writing
      /\ step \in Stages \ (Writing \cup {"load ca", "serving"}) /\ step # "enroll"
  BY DEF Commit, Migrating, Stages, Writing, Migrated
<1>3. EnrollmentTypes' /\ FilesInv'
  <2>1. /\ UNCHANGED <<file, offered, spent, cut>>
        /\ \A s \in Replicas \ {r} : creds'[s] = creds[s]
        /\ creds' \in [Replicas -> Tokens \cup {Missing}]
    BY DEF enrollment, StartInv, EnrollmentTypes
  <2> QED BY <1>1, <1>2, <2>1, FilesApart
<1>4. StageType' /\ stage'[r] = step /\ \A s \in Replicas \ {r} : stage'[s] = stage[s]
  BY <1>1, <1>2 DEF StartInv, StageType, Proceed
<1>5. PICK t : t = tx[r]
  OBVIOUS
<1>6. /\ t \in TxType /\ t.recorded \cap recorded = {} /\ recorded' = recorded \cup t.recorded
      /\ \A v \in ToSet(Versions) : t.applied[v] = IF v \in t.recorded THEN 1 ELSE 0
      /\ \A i \in 1..Len(Versions) : Versions[i] \in recorded \cup t.recorded
      /\ \A s \in Replicas \ {r} : t.recorded \cap tx[s].recorded = {}
  <2>1. OpenTx("commit", at[r], t, recorded) /\ t \in TxType
    BY <1>2, <1>5, MigratingState
  <2>2. \A s \in Replicas \ {r} : t.recorded \cap tx[s].recorded = {}
    BY <1>5, MigratingState
  <2>3. at[r] - 1 = Len(Versions)
    BY <2>1, Positions DEF OpenTx
  <2> QED BY <1>5, <2>1, <2>2, <2>3 DEF OpenTx, Commit
<1>7. recorded' = ToSet(Versions)
  <2>1. recorded' \subseteq ToSet(Versions)
    BY <1>6 DEF TxType, StartInv, MigrationsTypes
  <2>2. ToSet(Versions) \subseteq recorded'
    BY <1>6, Positions
  <2> QED BY <2>1, <2>2
<1>8. /\ \A v \in ToSet(Versions) : applied'[v] = applied[v] + t.applied[v]
      /\ applied' \in Counts
  BY <1>5, <1>6 DEF Commit, StartInv, MigrationsTypes, Counts, TxType
<1>9. AppliedOnce'
  BY <1>6, <1>8 DEF AppliedOnce, StartInv, MigrationsInv
<1>10. /\ at' = [at EXCEPT ![r] = 1] /\ tx' = [tx EXCEPT ![r] = EmptyTx]
       /\ 1 \in 1..Len(Versions) + 1
  BY Positions DEF Commit, Forget
<1>11. MigrationsTypes'
  BY <1>7, <1>8, <1>10, EmptyTxType DEF StartInv, MigrationsTypes
<1>12. /\ tx'[r] = EmptyTx /\ at'[r] = 1
       /\ \A s \in Replicas \ {r} : tx'[s] = tx[s] /\ at'[s] = at[s]
  BY <1>10 DEF StartInv, MigrationsTypes
<1>13. ASSUME NEW s \in Replicas PROVE Open(s)'
  <2>1. CASE s = r
    <3>1. OpenTx(step, 1, EmptyTx, recorded')
      <4>1. EmptyTx.recorded = {} /\ \A v \in ToSet(Versions) : EmptyTx.applied[v] = 0
        BY DEF EmptyTx, NotApplied
      <4> QED BY <1>7, <4>1 DEF OpenTx, Migrating, Migrated
    <3> QED BY <1>4, <1>12, <2>1, <3>1 DEF Open
  <2>2. CASE s # r
    <3>1. PICK st, p, u : st = stage[s] /\ p = at[s] /\ u = tx[s]
      OBVIOUS
    <3>2. OpenTx(st, p, u, recorded) /\ t.recorded \cap u.recorded = {}
      BY <1>6, <2>2, <3>1, MigratingState
    <3>3. OpenTx(st, p, u, recorded')
      BY <1>6, <1>7, <3>2 DEF OpenTx
    <3> QED BY <1>4, <1>12, <2>2, <3>1, <3>3 DEF Open
  <2> QED BY <2>1, <2>2
<1>14. Disjoint'
  BY <1>12, NothingOpen DEF StartInv, MigrationsInv, Disjoint
<1> QED BY <1>3, <1>4, <1>9, <1>11, <1>13, <1>14 DEF StartInv, MigrationsInv

\* All steps of the migrations.
LEMMA ApplyMigrationsStep ==
    ASSUME StartInv, NEW r \in Replicas, ApplyMigrations(r), UNCHANGED enrollment
    PROVE  StartInv'
<1>1. FailStatement(r) => stage[r] \in Migrating /\ Rollback(r)
  BY DEF FailStatement, Migrating
<1> QED BY <1>1, EnsureStep, CheckStep, ApplyStep, RecordStep, CommitStep, RollbackStep
        DEF ApplyMigrations

---------------------------------------------------------------------------

\* A process that ends, while it writes only if that counts as a cut.
LEMMA ExitStep ==
    ASSUME StartInv, NEW r \in Replicas, Exit(r), UNCHANGED <<file, offered>>,
           spent' \in SUBSET Tokens, cut' \in BOOLEAN,
           cut' \/ (stage[r] \notin Writing /\ UNCHANGED <<spent, cut>>)
    PROVE  EnrollmentTypes' /\ FilesInv'
<1>1. /\ \A s \in Replicas \ {r} : creds'[s] = creds[s]
      /\ creds' \in [Replicas -> Tokens \cup {Missing}]
  BY DEF StartInv, EnrollmentTypes, Exit
<1>2. EnrollmentTypes'
  BY <1>1 DEF StartInv, EnrollmentTypes
<1>3. CASE cut'
  BY <1>2, <1>3 DEF FilesInv
<1>4. CASE ~cut'
  <2>1. "down" \in Stages \ (Writing \cup {"load ca", "serving"})
    BY DEF Stages, Writing
  <2> QED BY <1>1, <1>4, <2>1, FilesApart DEF Exit
<1> QED BY <1>3, <1>4

\* So it is seen from the migrations, whether they are running or not.
LEMMA ExitMigrations ==
    ASSUME StartInv, NEW r \in Replicas, Exit(r), UNCHANGED <<recorded, applied>>,
           Forget(r) \/ (stage[r] \notin Migrating /\ UNCHANGED migrations)
    PROVE  StageType' /\ MigrationsTypes' /\ MigrationsInv'
<1>1. CASE Forget(r)
  <2>1. /\ at' = [at EXCEPT ![r] = 1] /\ tx' = [tx EXCEPT ![r] = EmptyTx]
        /\ 1 \in 1..Len(Versions) + 1
    BY <1>1, Positions DEF Forget
  <2> QED BY <2>1, EmptyTxType, NothingOpen, MigrationsMove DEF Exit
<1>2. CASE stage[r] \notin Migrating /\ UNCHANGED migrations
  <2>1. /\ "down" \in Stages \ (Migrating \ {"ensure"}) /\ "down" \notin Migrated
        /\ stage[r] \notin Migrating \ {"ensure"}
    BY <1>2 DEF Stages, Migrating, Migrated
  <2> QED BY <1>2, <2>1, MigrationsApart DEF Exit
<1> QED BY <1>1, <1>2

\* A process can stop at any step.
LEMMA StopStep ==
    ASSUME StartInv, NEW r \in Replicas, Stop(r)
    PROVE  StartInv'
<1>1. /\ Exit(r) /\ Forget(r) /\ UNCHANGED <<recorded, applied, file, offered, spent>>
      /\ cut' = (cut \/ stage[r] \in Writing)
  BY DEF Stop
<1>2. spent' \in SUBSET Tokens /\ cut' \in BOOLEAN
  BY <1>1 DEF StartInv, EnrollmentTypes
<1>3. cut' \/ (stage[r] \notin Writing /\ UNCHANGED <<spent, cut>>)
  BY <1>1 DEF StartInv, EnrollmentTypes
<1> QED BY <1>1, <1>2, <1>3, ExitStep, ExitMigrations DEF StartInv

\* Starting and looking at the files write nothing.
LEMMA LookStep ==
    ASSUME StartInv, NEW r \in Replicas, UNCHANGED migrations,
           \/ Start(r) /\ UNCHANGED enrollment
           \/ certFilesExist(r)
    PROVE  StartInv'
<1>1. PICK step \in {"stat", "ensure", "enroll"} :
          /\ Proceed(r, step) /\ UNCHANGED enrollment /\ stage[r] \in {"down", "stat"}
          /\ step = "enroll" => ~AllExist
  BY DEF Start, certFilesExist
<1>2. /\ step \in Stages \ (Writing \cup {"load ca", "serving"}) /\ step \notin Migrated
      /\ step \in Stages \ (Migrating \ {"ensure"})
      /\ stage[r] \notin Writing /\ stage[r] \notin Migrating \ {"ensure"}
  BY <1>1 DEF Stages, Writing, Migrating, Migrated
<1>3. /\ UNCHANGED <<file, offered, spent, cut>>
      /\ \A s \in Replicas \ {r} : creds'[s] = creds[s]
      /\ creds' \in [Replicas -> Tokens \cup {Missing}]
  BY <1>1 DEF enrollment, StartInv, EnrollmentTypes
<1>4. EnrollmentTypes' /\ FilesInv'
  BY <1>1, <1>2, <1>3, FilesApart
<1>5. StageType' /\ MigrationsTypes' /\ MigrationsInv'
  BY <1>1, <1>2, MigrationsApart
<1> QED BY <1>4, <1>5 DEF StartInv

\* While a process writes and nothing is cut, no other does, and none serves.
LEMMA Alone ==
    ASSUME StartInv, ~cut, NEW r \in Replicas, stage[r] \in Writing
    PROVE  /\ WrittenBy(r) /\ ~Usable
           /\ file["cert"] \notin Tokens => \A s \in Replicas : stage[s] # "load ca"
           /\ \A s \in Replicas : stage[s] # "serving"
<1>1. WrittenBy(r)
  BY DEF StartInv, FilesInv, NotEnrolled, Enrolled, NoWriter, WrittenBy
<1>2. ~Usable
  BY <1>1, TokensAssumption DEF WrittenBy, Holds, Usable
<1>3. \A s \in Replicas :
          /\ stage[s] \in {"load ca", "serving"} => file["cert"] \in Tokens
          /\ stage[s] = "serving" => Usable
  BY DEF StartInv, FilesInv
<1> QED BY <1>1, <1>2, <1>3

\* The one process whose token is accepted finds no files.
LEMMA EnrollStep ==
    ASSUME StartInv, NEW r \in Replicas, enrollIdentity(r), UNCHANGED migrations
    PROVE  StartInv'
<1>1. /\ stage[r] = "enroll" /\ stage[r] \notin Writing /\ stage[r] \notin Migrating
      /\ "open cert" \in Stages \ (Migrating \ {"ensure"}) /\ "open cert" \notin Migrated
      /\ "open cert" \in Writing
  BY DEF enrollIdentity, Writing, Migrating, Stages, Migrated
<1>2. CASE Exit(r) /\ (UNCHANGED <<spent, cut>> \/ (spent' = spent \cup {offered} /\ cut' = TRUE))
  <2>1. /\ spent' \in SUBSET Tokens /\ cut' \in BOOLEAN /\ UNCHANGED <<file, offered>>
        /\ cut' \/ UNCHANGED <<spent, cut>>
    BY <1>2 DEF enrollIdentity, StartInv, EnrollmentTypes
  <2>2. UNCHANGED <<recorded, applied>>
    BY DEF migrations
  <2> QED BY <1>1, <1>2, <2>1, <2>2, ExitStep, ExitMigrations DEF StartInv
<1>3. CASE /\ offered \notin spent /\ spent' = spent \cup {offered}
           /\ creds' = [creds EXCEPT ![r] = offered]
           /\ Proceed(r, "open cert") /\ UNCHANGED <<cut, file, offered>>
  <2>1. StageType' /\ MigrationsTypes' /\ MigrationsInv'
    BY <1>1, <1>3, MigrationsApart
  <2>2. EnrollmentTypes'
    BY <1>3 DEF StartInv, EnrollmentTypes
  <2>3. stage'[r] = "open cert" /\ \A s \in Replicas \ {r} : stage'[s] = stage[s]
    BY <1>3 DEF StartInv, StageType, Proceed
  <2>4. ASSUME ~cut PROVE FilesInv'
    <3>1. NotEnrolled
      BY <1>1, <1>3, <2>4 DEF StartInv, FilesInv, Enrolled, WrittenBy
    <3>2. WrittenBy(r)'
      BY <1>3, <2>3, <3>1 DEF WrittenBy, NotEnrolled, NoWriter, Holds, StartInv, EnrollmentTypes
    <3>3. \A s \in Replicas : stage[s] \notin {"load ca", "serving"}
      BY <2>4, <3>1, TokensAssumption DEF StartInv, FilesInv, NotEnrolled, Holds
    <3> QED BY <2>3, <3>2, <3>3 DEF FilesInv
  <2> QED BY <1>3, <2>1, <2>2, <2>4 DEF StartInv, FilesInv
<1> QED BY <1>2, <1>3 DEF enrollIdentity

\* One of the two steps in which a file is written, while nothing is cut.
LEMMA WrittenStep ==
    ASSUME StartInv, NEW r \in Replicas, stage[r] \in Writing, UNCHANGED migrations,
           NEW step \in Writing \cup {"ensure"}, Proceed(r, step),
           NEW f \in Files, NEW content \in Tokens \cup {Missing, Torn},
           file' = [file EXCEPT ![f] = content], UNCHANGED <<offered, spent, cut>>,
           creds' = creds \/ creds' = [creds EXCEPT ![r] = Missing],
           ~cut /\ WrittenBy(r) =>
               /\ WrittenBy(r)' \/ (step = "ensure" /\ Usable' /\ offered \in spent)
               /\ f = "cert" => file["cert"] \notin Tokens
    PROVE  StartInv'
<1>1. /\ step \in Stages \ (Migrating \ {"ensure"}) /\ step \notin Migrated
      /\ step \notin Writing => step = "ensure" /\ step \notin {"enroll", "load ca", "serving"}
      /\ step # "enroll" /\ step # "load ca" /\ step # "serving" /\ stage[r] \notin Migrating \ {"ensure"}
      /\ "cert" \in Files /\ "ensure" \notin Writing
  BY DEF Writing, Stages, Migrating, Migrated, Files
<1>2. StageType' /\ MigrationsTypes' /\ MigrationsInv'
  BY <1>1, MigrationsApart
<1>3. EnrollmentTypes'
  BY DEF StartInv, EnrollmentTypes
<1>4. stage'[r] = step /\ \A s \in Replicas \ {r} : stage'[s] = stage[s] /\ creds'[s] = creds[s]
  BY DEF StartInv, StageType, EnrollmentTypes, Proceed
<1>5. ASSUME ~cut PROVE FilesInv'
  <2>1. /\ WrittenBy(r)
        /\ file["cert"] \notin Tokens => \A s \in Replicas : stage[s] # "load ca"
        /\ \A s \in Replicas : stage[s] # "serving"
    BY <1>5, Alone
  <2>2. \A s \in Replicas : stage'[s] # "serving"
    BY <1>1, <1>4, <2>1
  <2>3. ASSUME NEW s \in Replicas, stage'[s] = "load ca"
        PROVE  creds'[s] = file'["cert"] /\ file'["cert"] \in Tokens
    <3>1. s # r /\ stage[s] = "load ca"
      BY <1>1, <1>4, <2>3
    <3>2. creds[s] = file["cert"] /\ file["cert"] \in Tokens
      BY <1>5, <3>1 DEF StartInv, FilesInv
    <3>3. f # "cert"
      BY <1>5, <2>1, <3>2
    <3>4. file'["cert"] = file["cert"]
      BY <1>1, <3>3 DEF StartInv, EnrollmentTypes
    <3>5. creds'[s] = creds[s]
      BY <1>4, <3>1
    <3> QED BY <3>2, <3>4, <3>5
  <2>4. CASE WrittenBy(r)'
    BY <1>5, <2>2, <2>3, <2>4 DEF FilesInv
  <2>5. CASE step = "ensure" /\ Usable' /\ offered \in spent
    <3>1. \A s \in Replicas : stage'[s] \notin Writing
      BY <1>1, <1>4, <2>1, <2>5 DEF WrittenBy
    <3>2. offered' = offered /\ spent' = spent
      OBVIOUS
    <3>3. Enrolled'
      BY <2>5, <3>1, <3>2 DEF Enrolled, NoWriter
    <3> QED BY <1>5, <2>2, <2>3, <3>3 DEF FilesInv
  <2>6. WrittenBy(r)' \/ (step = "ensure" /\ Usable' /\ offered \in spent)
    BY <1>5, <2>1
  <2> QED BY <2>4, <2>5, <2>6
<1> QED BY <1>2, <1>3, <1>5 DEF StartInv, FilesInv

\* The truncation of one file, and the write of it, between the steps of a writer.
LEMMA TruncateStep ==
    ASSUME StartInv, NEW r \in Replicas, UNCHANGED migrations, UNCHANGED <<offered, spent>>,
           NEW f \in Files, NEW opening, NEW filling, NEW next, stage[r] = opening,
           \/ f = "cert" /\ opening = "open cert" /\ filling = "fill cert"
           \/ f = "key" /\ opening = "open key" /\ filling = "fill key"
           \/ f = "ca" /\ opening = "open ca" /\ filling = "fill ca",
           file' = [file EXCEPT ![f] = Torn], Proceed(r, filling), UNCHANGED <<creds, cut>>
    PROVE  StartInv'
<1>1. stage[r] \in Writing /\ filling \in Writing
  BY DEF Writing
<1>2. stage'[r] = filling /\ \A s \in Replicas \ {r} : stage'[s] = stage[s]
  BY <1>1 DEF StartInv, StageType, Proceed, Stages
<1>3. /\ \A g \in Files : file'[g] = IF g = f THEN Torn ELSE file[g]
      /\ {"cert", "key", "ca"} = Files
  BY DEF StartInv, EnrollmentTypes, Files
<1>4. ASSUME WrittenBy(r)
      PROVE  WrittenBy(r)' /\ (f = "cert" => file["cert"] \notin Tokens)
  <2>1. \A s \in Replicas \ {r} : stage'[s] \notin Writing
    BY <1>2, <1>4 DEF WrittenBy
  <2>2. \/ stage'[r] = "fill cert" /\ Holds(Torn, Missing, Missing)'
        \/ stage'[r] = "fill key" /\ Holds(offered, Torn, Missing)'
        \/ stage'[r] = "fill ca" /\ Holds(offered, offered, Torn)'
    BY <1>2, <1>3, <1>4 DEF WrittenBy, Holds
  <2>3. f = "cert" => file["cert"] = Missing
    BY <1>4 DEF WrittenBy, Holds
  <2> QED BY <1>4, <2>1, <2>2, <2>3, TokensAssumption DEF WrittenBy, Holds
<1> QED BY <1>1, <1>4, WrittenStep

\* What a lone writer fills in is from its own enrollment.
LEMMA FillStep ==
    ASSUME StartInv, NEW r \in Replicas, UNCHANGED migrations, UNCHANGED <<offered, spent, cut>>,
           NEW f \in Files, NEW filling, NEW next, stage[r] = filling,
           \/ f = "cert" /\ filling = "fill cert" /\ next = "open key"
           \/ f = "key" /\ filling = "fill key" /\ next = "open ca"
           \/ f = "ca" /\ filling = "fill ca" /\ next = "ensure",
           Fill(r, f, filling), Proceed(r, next),
           creds' = IF next = "ensure" THEN [creds EXCEPT ![r] = Missing] ELSE creds
    PROVE  StartInv'
<1>1. stage[r] \in Writing /\ next \in Writing \cup {"ensure"}
  BY DEF Writing
<1>2. stage'[r] = next /\ \A s \in Replicas \ {r} : stage'[s] = stage[s]
  BY <1>1 DEF StartInv, StageType, Proceed, Stages, Migrating
<1>3. PICK content \in {creds[r]} \cup
              (IF \E s \in Replicas \ {r} : stage[s] = filling THEN {Torn} ELSE {}) :
          file' = [file EXCEPT ![f] = content]
  BY DEF Fill
<1>4. content \in Tokens \cup {Missing, Torn}
  BY <1>3 DEF StartInv, EnrollmentTypes
<1>5. /\ \A g \in Files : file'[g] = IF g = f THEN content ELSE file[g]
      /\ {"cert", "key", "ca"} = Files
  BY <1>3 DEF StartInv, EnrollmentTypes, Files
<1>6. ASSUME WrittenBy(r)
      PROVE  /\ WrittenBy(r)' \/ (next = "ensure" /\ Usable' /\ offered \in spent)
             /\ f = "cert" => file["cert"] \notin Tokens
  <2>1. content = offered /\ offered \in Tokens
    BY <1>1, <1>3, <1>6 DEF WrittenBy, StartInv, EnrollmentTypes
  <2>2. f = "cert" => file["cert"] = Torn
    BY <1>6 DEF WrittenBy, Holds
  <2>3. \/ next = "open key" /\ Holds(offered, Missing, Missing)'
        \/ next = "open ca" /\ Holds(offered, offered, Missing)'
        \/ next = "ensure" /\ Holds(offered, offered, offered)'
    BY <1>5, <1>6, <2>1 DEF WrittenBy, Holds
  <2>4. next # "ensure" => creds'[r] = offered /\ \A s \in Replicas \ {r} : stage'[s] \notin Writing
    BY <1>2, <1>6 DEF WrittenBy
  <2> QED BY <1>2, <1>6, <2>1, <2>2, <2>3, <2>4, TokensAssumption DEF WrittenBy, Holds, Usable
<1> QED BY <1>1, <1>3, <1>4, <1>6, WrittenStep

\* All steps in which a file is written.
LEMMA WriteStep ==
    ASSUME StartInv, NEW r \in Replicas, writePEMFile(r), UNCHANGED migrations
    PROVE  StartInv'
<1>1. PICK f \in Files, opening \in Writing, filling \in Writing, next \in Writing \cup {"ensure"} :
          /\ WriteFile(r, f, opening, filling, next)
          /\ \/ f = "cert" /\ opening = "open cert" /\ filling = "fill cert" /\ next = "open key"
             \/ f = "key" /\ opening = "open key" /\ filling = "fill key" /\ next = "open ca"
             \/ f = "ca" /\ opening = "open ca" /\ filling = "fill ca" /\ next = "ensure"
  <2>1. Files = {"cert", "key", "ca"} /\ {"open cert", "fill cert", "open key", "fill key", "open ca", "fill ca"} = Writing
    BY DEF Files, Writing
  <2>2. CASE WriteFile(r, "cert", "open cert", "fill cert", "open key")
    BY <2>1, <2>2
  <2>3. CASE WriteFile(r, "key", "open key", "fill key", "open ca")
    BY <2>1, <2>3
  <2>4. CASE WriteFile(r, "ca", "open ca", "fill ca", "ensure")
    BY <2>1, <2>4
  <2> QED BY <2>2, <2>3, <2>4 DEF writePEMFile
<1>2. UNCHANGED <<offered, spent>>
  BY DEF writePEMFile
<1>3. CASE stage[r] \in Writing /\ Exit(r) /\ cut' = TRUE /\ UNCHANGED file
  <2>1. spent' \in SUBSET Tokens /\ cut' \in BOOLEAN /\ cut' /\ UNCHANGED <<file, offered>>
    BY <1>2, <1>3 DEF StartInv, EnrollmentTypes
  <2>2. stage[r] \notin Migrating /\ UNCHANGED <<recorded, applied>>
    BY <1>3 DEF Writing, Migrating, migrations
  <2> QED BY <1>3, <2>1, <2>2, ExitStep, ExitMigrations DEF StartInv
<1>4. CASE stage[r] = opening /\ file' = [file EXCEPT ![f] = Torn] /\ Proceed(r, filling)
           /\ UNCHANGED <<creds, cut>>
  BY <1>1, <1>2, <1>4, TruncateStep
<1>5. CASE /\ stage[r] = filling /\ Fill(r, f, filling) /\ Proceed(r, next) /\ UNCHANGED cut
           /\ creds' = IF next = "ensure" THEN [creds EXCEPT ![r] = Missing] ELSE creds
  BY <1>1, <1>2, <1>5, FillStep
<1> QED BY <1>1, <1>3, <1>4, <1>5 DEF WriteFile

\* Loading the files leads on, or ends the process.
LEMMA LoadStep ==
    ASSUME StartInv, NEW r \in Replicas, NewClient(r), UNCHANGED migrations
    PROVE  StartInv'
<1>1. /\ UNCHANGED <<file, offered, spent, cut>> /\ stage[r] \in {"load", "load ca"}
      /\ stage[r] \in Migrated /\ stage[r] \notin Migrating /\ stage[r] \notin Writing
  BY DEF NewClient, loadClientCredentials, loadCAPool, Migrated, Migrating, Writing
<1>2. CASE Exit(r)
  <2>1. spent' \in SUBSET Tokens /\ cut' \in BOOLEAN /\ UNCHANGED <<recorded, applied>>
    BY <1>1 DEF StartInv, EnrollmentTypes, migrations
  <2> QED BY <1>1, <1>2, <2>1, ExitStep, ExitMigrations DEF StartInv
<1>3. CASE \E step \in {"load ca", "serving"} :
              /\ Proceed(r, step)
              /\ step = "load ca" =>
                    /\ creds' = [creds EXCEPT ![r] = file["cert"]] /\ file["cert"] \in Tokens
              /\ step = "serving" => creds' = creds /\ stage[r] = "load ca" /\ file["ca"] \in Tokens
  <2>1. PICK step \in {"load ca", "serving"} :
              /\ Proceed(r, step)
              /\ step = "load ca" =>
                    /\ creds' = [creds EXCEPT ![r] = file["cert"]] /\ file["cert"] \in Tokens
              /\ step = "serving" => creds' = creds /\ stage[r] = "load ca" /\ file["ca"] \in Tokens
    BY <1>3
  <2>2. step \in Stages \ (Migrating \ {"ensure"}) /\ step \notin Writing /\ step # "enroll"
    BY DEF Stages, Migrated, Migrating, Writing
  <2>3. StageType' /\ MigrationsTypes' /\ MigrationsInv'
    BY <1>1, <2>1, <2>2, MigrationsApart
  <2>4. /\ stage'[r] = step
        /\ \A s \in Replicas \ {r} : stage'[s] = stage[s] /\ creds'[s] = creds[s]
        /\ creds' \in [Replicas -> Tokens \cup {Missing}]
    BY <2>1, <2>2 DEF StartInv, StageType, Proceed, EnrollmentTypes
  <2>5. EnrollmentTypes'
    BY <1>1, <2>4 DEF StartInv, EnrollmentTypes
  <2>6. ASSUME ~cut PROVE FilesInv'
    <3>1. file["cert"] \in Tokens
      BY <2>1, <2>6 DEF StartInv, FilesInv
    <3>2. creds'[r] = file["cert"]
      BY <2>1, <2>6 DEF StartInv, FilesInv, EnrollmentTypes
    <3>3. Enrolled \/ \E s \in Replicas : WrittenBy(s)
      BY <2>6, <3>1, TokensAssumption DEF StartInv, FilesInv, NotEnrolled, Holds
    <3>4. Enrolled => Enrolled'
      BY <1>1, <2>2, <2>4 DEF Enrolled, NoWriter, Usable
    <3>5. ASSUME NEW s \in Replicas, WrittenBy(s) PROVE WrittenBy(s)'
      <4>1. s # r
        BY <1>1, <3>5 DEF WrittenBy, Writing
      <4> QED BY <1>1, <2>2, <2>4, <3>5, <4>1 DEF WrittenBy, Holds
    <3>6. step = "serving" => Usable
      BY <2>1, <3>3, TokensAssumption DEF Enrolled, WrittenBy, Holds
    <3>7. ASSUME NEW s \in Replicas \ {r}
          PROVE  /\ stage'[s] \in {"load ca", "serving"} =>
                       creds'[s] = file'["cert"] /\ file'["cert"] \in Tokens
                 /\ stage'[s] = "serving" => Usable
      BY <1>1, <2>4, <2>6 DEF StartInv, FilesInv
    <3>8. Usable' <=> Usable
      BY <1>1 DEF Usable
    <3>9. Enrolled' \/ \E s \in Replicas : WrittenBy(s)'
      BY <3>3, <3>4, <3>5
    <3>10. ASSUME NEW s \in Replicas
           PROVE  /\ stage'[s] \in {"load ca", "serving"} =>
                        creds'[s] = file'["cert"] /\ file'["cert"] \in Tokens
                  /\ stage'[s] = "serving" => Usable'
      BY <1>1, <2>4, <3>1, <3>2, <3>6, <3>7, <3>8
    <3> QED BY <3>9, <3>10 DEF FilesInv
  <2> QED BY <1>1, <2>3, <2>5, <2>6 DEF StartInv, FilesInv
<1> QED BY <1>2, <1>3 DEF NewClient, loadClientCredentials, loadCAPool

\* Another token matters to nobody, unless someone is enrolling.
LEMMA ReissueStep ==
    ASSUME StartInv, Reissue, UNCHANGED migrations
    PROVE  StartInv'
<1>1. PICK t \in Tokens \ (spent \cup {offered}) : offered' = t
  BY DEF Reissue
<1>2. /\ UNCHANGED <<stage, creds, file, spent>>
      /\ cut' = (cut \/ \E r \in Replicas : stage[r] \in Writing \cup {"enroll"})
  BY DEF Reissue, deployment
<1>3. StageType' /\ EnrollmentTypes'
  BY <1>1, <1>2 DEF StartInv, StageType, EnrollmentTypes
<1>4. MigrationsTypes' /\ AppliedOnce' /\ Disjoint'
  BY DEF StartInv, MigrationsTypes, MigrationsInv, migrations, AppliedOnce, Disjoint
<1>5. ASSUME NEW r \in Replicas PROVE Open(r)'
  BY <1>2 DEF StartInv, MigrationsInv, migrations, Open
<1>6. ASSUME ~cut' PROVE FilesInv'
  <2>1. ~cut /\ \A r \in Replicas : stage[r] \notin Writing /\ stage[r] # "enroll"
    BY <1>2, <1>6
  <2>2. ~ \E r \in Replicas : WrittenBy(r)
    BY <2>1 DEF WrittenBy, Writing
  <2>3. NotEnrolled => NotEnrolled'
    BY <1>1, <1>2, <2>1 DEF NotEnrolled, NoWriter, Holds
  <2>4. Enrolled => Enrolled'
    BY <1>2, <2>1 DEF Enrolled, NoWriter, Usable
  <2>5. Usable' <=> Usable
    BY <1>2 DEF Usable
  <2> QED BY <1>2, <2>1, <2>2, <2>3, <2>4, <2>5 DEF StartInv, FilesInv
<1> QED BY <1>3, <1>4, <1>5, <1>6 DEF StartInv, MigrationsInv, FilesInv

\* The invariant holds before the first start.
LEMMA StartInvInit == StartupInit => StartInv
<1> SUFFICES ASSUME StartupInit PROVE StartInv
  OBVIOUS
<1>1. StageType /\ EnrollmentTypes
  BY DEF StartupInit, AllDown, EnrollmentInit, StageType, EnrollmentTypes, Stages
<1>2. MigrationsTypes /\ AppliedOnce
  <2>1. recorded \in SUBSET ToSet(Versions) /\ 1 \in 1..Len(Versions) + 1
    BY Positions DEF StartupInit, MigrationsInit
  <2> QED BY <2>1, EmptyTxType
          DEF StartupInit, MigrationsInit, MigrationsTypes, AppliedOnce, Counts
<1>3. Disjoint
  BY NothingOpen DEF StartupInit, MigrationsInit, Disjoint
<1>4. ASSUME NEW r \in Replicas PROVE Open(r)
  BY NothingOpen DEF StartupInit, AllDown, MigrationsInit, Open
<1>5. NotEnrolled
  BY DEF StartupInit, AllDown, EnrollmentInit, NotEnrolled, NoWriter, Holds, Files, Writing
<1>6. \A r \in Replicas : stage[r] = "down"
  BY DEF StartupInit, AllDown
<1> QED BY <1>1, <1>2, <1>3, <1>4, <1>5, <1>6 DEF StartInv, MigrationsInv, FilesInv

\* Every step preserves the invariant.
LEMMA StartInvNext == StartInv /\ [StartupNext]_startup => StartInv'
<1> SUFFICES ASSUME StartInv, [StartupNext]_startup PROVE StartInv'
  OBVIOUS
<1>1. ASSUME NEW r \in Replicas, Start(r), UNCHANGED <<enrollment, migrations>> PROVE StartInv'
  BY <1>1, LookStep
<1>2. ASSUME NEW r \in Replicas, EnsureEnrollment(r), UNCHANGED migrations PROVE StartInv'
  BY <1>2, LookStep, EnrollStep, WriteStep DEF EnsureEnrollment
<1>3. ASSUME NEW r \in Replicas, NewClient(r), UNCHANGED migrations PROVE StartInv'
  BY <1>3, LoadStep
<1>4. ASSUME NEW r \in Replicas, ApplyMigrations(r), UNCHANGED enrollment PROVE StartInv'
  BY <1>4, ApplyMigrationsStep
<1>5. ASSUME NEW r \in Replicas, Stop(r) PROVE StartInv'
  BY <1>5, StopStep
<1>6. ASSUME Reissue, UNCHANGED migrations PROVE StartInv'
  BY <1>6, ReissueStep
<1>7. CASE UNCHANGED startup
  <2>1. /\ UNCHANGED <<stage, creds, file, offered, spent, cut, recorded, applied, at, tx>>
    BY <1>7 DEF startup, deployment, enrollment, migrations
  <2>2. StageType' /\ EnrollmentTypes' /\ MigrationsTypes'
    BY <2>1 DEF StartInv, StageType, EnrollmentTypes, MigrationsTypes
  <2>3. MigrationsInv'
    BY <2>1 DEF StartInv, MigrationsInv, AppliedOnce, Disjoint, Open
  <2>4. FilesInv'
    BY <2>1 DEF StartInv, FilesInv, NotEnrolled, Enrolled, NoWriter, WrittenBy, Holds, Usable
  <2> QED BY <2>2, <2>3, <2>4 DEF StartInv
<1> QED BY <1>1, <1>2, <1>3, <1>4, <1>5, <1>6, <1>7 DEF StartupNext, run

\* Whatever the processes do, their files and their migrations are as described.
THEOREM StartInvariant == StartupSpec => []StartInv
<1>1. StartupInit => StartInv
  BY StartInvInit
<1>2. StartInv /\ [StartupNext]_startup => StartInv'
  BY StartInvNext
<1> QED BY <1>1, <1>2, PTL DEF StartupSpec

\* However replicas race and stop, a migration is committed once and with its record.
THEOREM MigrationsCommitOnce == StartupSpec => []AppliedOnce
<1>1. StartInv => AppliedOnce
  BY DEF StartInv, MigrationsInv
<1> QED BY <1>1, StartInvariant, PTL

\* Nobody serves on part of the schema.
THEOREM ServedOnWholeSchema == StartupSpec => []ServingSeesSchema
<1>1. StartInv => ServingSeesSchema
  <2>1. ASSUME StartInv, NEW r \in Replicas, stage[r] = "serving" PROVE recorded = ToSet(Versions)
    BY <2>1, MigratingState DEF OpenTx, Migrated
  <2> QED BY <2>1 DEF ServingSeesSchema
<1> QED BY <1>1, StartInvariant, PTL

\* Without a cut, who serves can authenticate again from the files.
THEOREM ServedWithUsableFiles == StartupSpec => []ServingCanReauthenticate
<1>1. StartInv => ServingCanReauthenticate
  BY DEF StartInv, FilesInv, ServingCanReauthenticate
<1> QED BY <1>1, StartInvariant, PTL

\* Without a cut, the service can always start again.
THEOREM OnlyCutsGetStuck == StartupSpec => []StuckNeedsCut
<1>1. StartInv => StuckNeedsCut
  <2> SUFFICES ASSUME StartInv, Stuck, ~cut PROVE FALSE
    BY DEF StuckNeedsCut, StartInv, EnrollmentTypes
  <2>1. ~Enrolled
    BY DEF Stuck, Enrolled
  <2>2. ASSUME NEW r \in Replicas PROVE ~WrittenBy(r)
    BY DEF Stuck, WrittenBy, Writing
  <2>3. NotEnrolled
    BY <2>1, <2>2 DEF StartInv, FilesInv
  <2> QED BY <2>3 DEF Stuck, NotEnrolled, Holds, AllExist, Files
<1> QED BY <1>1, StartInvariant, PTL
=============================================================================
