------------------------- MODULE ServiceLeaseProofs -------------------------
(***************************************************************************)
(* Proofs about ServiceLease, for every set of identities and calls, every *)
(* lease length and every fault budget.                                    *)
(***************************************************************************)
EXTENDS ServiceLease, TLAPS

---------------------------------------------------------------------------
(* The inductive invariant                                                 *)

\* An identity is unknown to both stores before its request, and on its way to
\* the holder it is on the controller and has no row.
Progress ==
    \A i \in Ids :
        /\ pc[i] = "none" => i \notin ziti /\ i \notin rows
        /\ pc[i] \in {"enroll", "insert"} => i \in ziti /\ i \notin rows

\* The list a sweep works on may be old, and other replicas may have collected
\* some of it, but everything on it had a row once that was seen expired; the
\* identity whose row comes next has left Ziti, whoever deleted it there.
SweepSound ==
    \A r \in Replicas :
        /\ \A i \in batch[r] :
              i \in lapsed /\ pc[i] \notin {"none", "enroll", "insert"}
        /\ cur[r] # None => cur[r] \in batch[r] /\ cur[r] \notin ziti

\* The history variable misses no expiry.
LapseNoted == \A i \in rows : left[i] = Expired => i \in lapsed

\* Only holders extend.
ExtendGranted == \A c \in Calls : extId[c] # None => pc[extId[c]] \in Granted

\* NotFound is answered to holders of identities that are gone.
ToldGone == \A i \in told : pc[i] \in Granted /\ i \notin ziti

LeaseInv ==
    /\ TypeOK
    /\ Progress
    /\ SweepSound
    /\ LapseNoted
    /\ ExtendGranted
    /\ ToldGone
    /\ GrantedIsTracked
    /\ PromptHolderKeepsIdentity

\* What an identity that nobody accounts for has cost in faults.
OrphanCost ==
    \A i \in Ids :
        /\ pc[i] = "undo" => faults["refused"] + faults["lost"] >= 1
        /\ pc[i] = "failed" /\ i \in ziti /\ i \notin rows
             => \/ faults["refused"] >= 2
                \/ faults["lost"] >= 1
                \/ faults["stop"] >= 1

---------------------------------------------------------------------------
(* Types                                                                   *)

\* A fault of any kind is counted and stays within the budget of its kind.
LEMMA FaultBounded ==
    ASSUME NEW kind \in FaultKinds, TypeOK, Fault(kind)
    PROVE  /\ faults' \in [FaultKinds -> Nat]
           /\ \A k \in FaultKinds : faults'[k] <= MaxFaults[k]
<1>1. /\ faults \in [FaultKinds -> Nat]
      /\ \A k \in FaultKinds : faults[k] <= MaxFaults[k]
      /\ MaxFaults[kind] \in Nat
  BY FaultsAssumption DEF TypeOK
<1>2. /\ faults[kind] < MaxFaults[kind]
      /\ faults' = [faults EXCEPT ![kind] = faults[kind] + 1]
  BY DEF Fault
<1>3. faults[kind] + 1 \in Nat /\ faults[kind] + 1 <= MaxFaults[kind]
  BY <1>1, <1>2
<1> QED BY <1>1, <1>2, <1>3

\* A step without a fault leaves the counts within their budgets.
LEMMA NoFaultBounded ==
    ASSUME TypeOK, NoFault
    PROVE  /\ faults' \in [FaultKinds -> Nat]
           /\ \A k \in FaultKinds : faults'[k] <= MaxFaults[k]
BY DEF TypeOK, NoFault

\* Ageing keeps a remaining life within its range.
LEMMA AgeType == \A t \in Times : Age(t) \in Times
BY TTLAssumption DEF Times, Age, Expired

\* The two empty stores and idle handlers the service starts with have their types.
LEMMA TypeInit == Init => TypeOK
BY TTLAssumption, FaultsAssumption
   DEF Init, FaultsInit, TypeOK, PCs, Times, Expired, FaultKinds

\* Every step of a handler, of the collector, of the clock and every restart keeps
\* the types.
LEMMA TypeStep == TypeOK /\ [Next]_vars => TypeOK'
<1> SUFFICES ASSUME TypeOK, [Next]_vars PROVE TypeOK'
  OBVIOUS
<1> USE FaultBounded, NoFaultBounded
<1> USE DEF TypeOK, request, stores, extend, sweep, history
<1>1. ASSUME NEW i \in Ids, CreateIdentity(i) PROVE TypeOK'
  BY <1>1 DEF CreateIdentity, Goto, PCs, Working, FaultKinds
<1>2. ASSUME NEW i \in Ids, EnrollIdentity(i) PROVE TypeOK'
  BY <1>2, TTLAssumption
     DEF EnrollIdentity, Goto, PCs, Working, FaultKinds, Times, Expired
<1>3. ASSUME NEW i \in Ids, InsertServiceIdentity(i) PROVE TypeOK'
  BY <1>3 DEF InsertServiceIdentity, NoteLapse, Goto, PCs, Working, Granted,
              FaultKinds
<1>4. ASSUME NEW i \in Ids, CleanupZitiIdentity(i) PROVE TypeOK'
  BY <1>4 DEF CleanupZitiIdentity, Goto, PCs, FaultKinds
<1>5. ASSUME NEW i \in Ids, CancelRequest(i) PROVE TypeOK'
  BY <1>5 DEF CancelRequest, Goto, PCs, FaultKinds
<1>6. ASSUME NEW i \in Ids, Abandon(i) PROVE TypeOK'
  BY <1>6 DEF Abandon, Goto, PCs, Granted
<1>7. ASSUME NEW c \in Calls, NEW i \in Ids, ComputeExpiry(c, i) PROVE TypeOK'
  BY <1>7, TTLAssumption DEF ComputeExpiry, Times, Expired
<1>8. ASSUME NEW c \in Calls, ExtendServiceIdentityLease(c) PROVE TypeOK'
  BY <1>8, TTLAssumption
     DEF ExtendServiceIdentityLease, EndExtend, NoteLapse, FaultKinds, Times,
         Expired
<1>9. ASSUME NEW r \in Replicas, Sweep(r) PROVE TypeOK'
  <2>1. CASE ListExpired(r)
    BY <2>1 DEF ListExpired, ExpiredRows, FaultKinds
  <2>2. ASSUME NEW i \in Ids, CollectFromZiti(r, i) PROVE TypeOK'
    BY <2>2 DEF CollectFromZiti, Skip, FaultKinds
  <2>3. CASE CollectRow(r)
    BY <2>3 DEF CollectRow, FaultKinds
  <2> QED BY <1>9, <2>1, <2>2, <2>3 DEF Sweep
<1>10. CASE Tick
  BY <1>10, AgeType DEF Tick
<1>11. ASSUME NEW r \in Replicas, Restart(r) PROVE TypeOK'
  BY <1>11, TTLAssumption DEF Restart, PCs, FaultKinds, Times, Expired
<1>12. CASE UNCHANGED vars
  BY <1>12 DEF vars
<1> QED BY <1>1, <1>2, <1>3, <1>4, <1>5, <1>6, <1>7, <1>8, <1>9, <1>10, <1>11,
           <1>12 DEF Next, Request, Extend

\* In every reachable state, for all values of the constants, every variable
\* has its type and no kind of fault exceeds its budget.
THEOREM TypeCorrect == Spec => []TypeOK
<1>1. Init => TypeOK
  BY TypeInit
<1>2. TypeOK /\ [Next]_vars => TypeOK'
  BY TypeStep
<1> QED BY <1>1, <1>2, PTL DEF Spec

---------------------------------------------------------------------------
(* Safety                                                                  *)

\* The invariant holds when nothing has been requested yet.
LEMMA LeaseInvInit == Init => LeaseInv
<1> SUFFICES ASSUME Init PROVE LeaseInv
  OBVIOUS
<1>1. TypeOK
  BY TypeInit
<1> QED BY <1>1, NoneAssumption
        DEF Init, LeaseInv, Progress, SweepSound, LapseNoted, ExtendGranted,
            ToldGone, GrantedIsTracked, PromptHolderKeepsIdentity, Granted

\* No step of RequestServiceIdentity, ExtendIdentityLease, the collector or the
\* environment breaks the invariant: one case per action.
LEMMA LeaseInvStep == LeaseInv /\ [Next]_vars => LeaseInv'
<1> SUFFICES ASSUME LeaseInv, [Next]_vars PROVE LeaseInv'
  OBVIOUS
<1>0. TypeOK /\ TypeOK'
  BY TypeStep DEF LeaseInv
<1> USE <1>0, NoneAssumption
<1> USE DEF LeaseInv, Progress, SweepSound, LapseNoted, ExtendGranted, ToldGone,
            GrantedIsTracked, PromptHolderKeepsIdentity, TypeOK,
            request, stores, extend, sweep, history, Granted, Goto
<1>1. ASSUME NEW i \in Ids, CreateIdentity(i) PROVE LeaseInv'
  BY <1>1 DEF CreateIdentity
<1>2. ASSUME NEW i \in Ids, EnrollIdentity(i) PROVE LeaseInv'
  BY <1>2 DEF EnrollIdentity
<1>3. ASSUME NEW i \in Ids, InsertServiceIdentity(i) PROVE LeaseInv'
  BY <1>3 DEF InsertServiceIdentity, NoteLapse
<1>4. ASSUME NEW i \in Ids, CleanupZitiIdentity(i) PROVE LeaseInv'
  BY <1>4 DEF CleanupZitiIdentity
<1>5. ASSUME NEW i \in Ids, CancelRequest(i) PROVE LeaseInv'
  BY <1>5 DEF CancelRequest, Working
<1>6. ASSUME NEW i \in Ids, Abandon(i) PROVE LeaseInv'
  BY <1>6 DEF Abandon
<1>7. ASSUME NEW c \in Calls, NEW i \in Ids, ComputeExpiry(c, i) PROVE LeaseInv'
  BY <1>7 DEF ComputeExpiry
<1>8. ASSUME NEW c \in Calls, ExtendServiceIdentityLease(c) PROVE LeaseInv'
  BY <1>8 DEF ExtendServiceIdentityLease, EndExtend, NoteLapse
<1>9. ASSUME NEW r \in Replicas, ListExpired(r) PROVE LeaseInv'
  BY <1>9 DEF ListExpired, ExpiredRows
<1>10. ASSUME NEW r \in Replicas, NEW i \in Ids, CollectFromZiti(r, i)
       PROVE  LeaseInv'
  BY <1>10 DEF CollectFromZiti, Skip
<1>11. ASSUME NEW r \in Replicas, CollectRow(r) PROVE LeaseInv'
  BY <1>11 DEF CollectRow
<1>12. CASE Tick
  BY <1>12 DEF Tick
<1>13. ASSUME NEW r \in Replicas, Restart(r) PROVE LeaseInv'
  BY <1>13 DEF Restart, Working
<1>14. CASE UNCHANGED vars
  BY <1>14 DEF vars
<1> QED BY <1>1, <1>2, <1>3, <1>4, <1>5, <1>6, <1>7, <1>8, <1>9, <1>10, <1>11,
           <1>12, <1>13, <1>14 DEF Next, Request, Extend, Sweep

\* The invariant that carries the safety properties holds in every reachable
\* state.
THEOREM Invariance == Spec => []LeaseInv
<1>1. Init => LeaseInv
  BY LeaseInvInit
<1>2. LeaseInv /\ [Next]_vars => LeaseInv'
  BY LeaseInvStep
<1> QED BY <1>1, <1>2, PTL DEF Spec

\* An extension answered NotFound means the identity is gone for good.
THEOREM NotFoundCorrect == Spec => []NotFoundIsDefinitive
<1>1. LeaseInv => NotFoundIsDefinitive
  BY DEF LeaseInv, ToldGone, NotFoundIsDefinitive
<1> QED BY <1>1, Invariance, PTL

\* The collector can always find an identity that was handed out.
THEOREM GrantedCorrect == Spec => []GrantedIsTracked
<1>1. LeaseInv => GrantedIsTracked
  BY DEF LeaseInv
<1> QED BY <1>1, Invariance, PTL

\* A holder whose lease never ran out keeps its identity.
THEOREM PromptHolderCorrect == Spec => []PromptHolderKeepsIdentity
<1>1. LeaseInv => PromptHolderKeepsIdentity
  BY DEF LeaseInv
<1> QED BY <1>1, Invariance, PTL

\* No step drops the row of an identity that is still on the controller.
THEOREM RowOutlives == Spec => RowOutlivesIdentity
<1> DEFINE Kept == \A i \in rows : i \notin rows' => i \notin ziti
<1>1. ASSUME LeaseInv, [Next]_vars PROVE [Kept]_vars
  <2> USE <1>1 DEF LeaseInv, SweepSound, TypeOK, stores, request, extend, sweep,
                   history
  <2>1. ASSUME NEW i \in Ids, Request(i) PROVE Kept
    BY <2>1 DEF Request, CreateIdentity, EnrollIdentity, InsertServiceIdentity,
                CleanupZitiIdentity, CancelRequest, Abandon
  <2>2. ASSUME NEW c \in Calls, Extend(c) PROVE Kept
    BY <2>2 DEF Extend, ComputeExpiry, ExtendServiceIdentityLease
  <2>3. ASSUME NEW r \in Replicas, Sweep(r) PROVE Kept
    BY <2>3 DEF Sweep, ListExpired, CollectFromZiti, CollectRow
  <2>4. CASE Tick
    BY <2>4 DEF Tick
  <2>5. ASSUME NEW r \in Replicas, Restart(r) PROVE Kept
    BY <2>5 DEF Restart
  <2> QED BY <2>1, <2>2, <2>3, <2>4, <2>5 DEF Next
<1> QED BY <1>1, Invariance, PTL DEF Spec, RowOutlivesIdentity

---------------------------------------------------------------------------
(* What an orphan costs                                                    *)

\* Every step that leaves an identity unaccounted for has been paid for with a lost
\* answer, a stop or a second refused call.
LEMMA OrphanCostStep ==
    LeaseInv /\ OrphanCost /\ [Next]_vars => OrphanCost'
<1> DEFINE Paid(i) ==
      /\ pc'[i] = "undo" => faults'["refused"] + faults'["lost"] >= 1
      /\ pc'[i] = "failed" /\ i \in ziti' /\ i \notin rows'
           => \/ faults'["refused"] >= 2
              \/ faults'["lost"] >= 1
              \/ faults'["stop"] >= 1
<1> SUFFICES ASSUME LeaseInv, OrphanCost, [Next]_vars, NEW i \in Ids
             PROVE  Paid(i)
  BY DEF OrphanCost
<1>1. /\ pc \in [Ids -> PCs]
      /\ faults \in [FaultKinds -> Nat]
      /\ faults["refused"] \in Nat /\ faults["lost"] \in Nat
      /\ faults["stop"] \in Nat
  BY DEF LeaseInv, TypeOK, FaultKinds
<1>2. /\ pc[i] = "undo" => faults["refused"] + faults["lost"] >= 1
      /\ pc[i] = "failed" /\ i \in ziti /\ i \notin rows
             => \/ faults["refused"] >= 2
                \/ faults["lost"] >= 1
                \/ faults["stop"] >= 1
  BY DEF OrphanCost
<1>3. /\ \A r \in Replicas : cur[r] # None => cur[r] \notin ziti
      /\ pc[i] = "none" => i \notin ziti
  BY DEF LeaseInv, SweepSound, Progress
<1> HIDE DEF Paid
<1> USE <1>1, <1>2, <1>3
<1> USE DEF request, stores, extend, sweep, history, Goto, Fault, NoFault,
            FaultKinds
<1>4. ASSUME NEW j \in Ids, CreateIdentity(j) PROVE Paid(i)
  BY <1>4 DEF CreateIdentity, Paid
<1>5. ASSUME NEW j \in Ids, EnrollIdentity(j) PROVE Paid(i)
  BY <1>5 DEF EnrollIdentity, Paid
<1>6. ASSUME NEW j \in Ids, InsertServiceIdentity(j) PROVE Paid(i)
  BY <1>6 DEF InsertServiceIdentity, Paid
<1>7. ASSUME NEW j \in Ids, CleanupZitiIdentity(j) PROVE Paid(i)
  BY <1>7 DEF CleanupZitiIdentity, Paid
<1>8. ASSUME NEW j \in Ids, CancelRequest(j) PROVE Paid(i)
  BY <1>8 DEF CancelRequest, Paid
<1>9. ASSUME NEW j \in Ids, Abandon(j) PROVE Paid(i)
  BY <1>9 DEF Abandon, Paid
<1>10. ASSUME NEW c \in Calls, Extend(c) PROVE Paid(i)
  BY <1>10 DEF Extend, ComputeExpiry, ExtendServiceIdentityLease, Paid
<1>11. ASSUME NEW r \in Replicas, ListExpired(r) PROVE Paid(i)
  BY <1>11 DEF ListExpired, Paid
<1>12. ASSUME NEW r \in Replicas, NEW j \in Ids, CollectFromZiti(r, j)
       PROVE  Paid(i)
  BY <1>12 DEF CollectFromZiti, Paid
<1>13. ASSUME NEW r \in Replicas, CollectRow(r) PROVE Paid(i)
  BY <1>13 DEF CollectRow, Paid
<1>14. CASE Tick
  BY <1>14 DEF Tick, Paid
<1>15. ASSUME NEW r \in Replicas, Restart(r) PROVE Paid(i)
  BY <1>15 DEF Restart, Working, Paid
<1>16. CASE UNCHANGED vars
  BY <1>16 DEF vars, Paid
<1>17. ASSUME NEW j \in Ids, Request(j) PROVE Paid(i)
  BY <1>4, <1>5, <1>6, <1>7, <1>8, <1>9, <1>17 DEF Request
<1>18. ASSUME NEW r \in Replicas, Sweep(r) PROVE Paid(i)
  BY <1>11, <1>12, <1>13, <1>18 DEF Sweep
<1> QED BY <1>10, <1>14, <1>15, <1>16, <1>17, <1>18 DEF Next

\* A single refused call leaves no identity behind that nothing accounts for.
THEOREM OneRefusalCorrect == Spec => []OneRefusalLeavesNoOrphan
<1>1. Init => OrphanCost
  BY DEF Init, OrphanCost
<1>2. LeaseInv /\ OrphanCost => OneRefusalLeavesNoOrphan
  <2> SUFFICES ASSUME LeaseInv, OrphanCost,
                      faults["refused"] <= 1, faults["lost"] = 0,
                      faults["stop"] = 0,
                      NEW i \in ziti
               PROVE  i \in rows \/ pc[i] \in Working
    BY DEF OneRefusalLeavesNoOrphan
  <2>1. i \in Ids /\ pc[i] \in PCs /\ faults["refused"] \in Nat
    BY DEF LeaseInv, TypeOK, FaultKinds
  <2>2. pc[i] # "none" /\ (pc[i] \in Granted => i \in rows)
    BY <2>1 DEF LeaseInv, Progress, GrantedIsTracked
  <2>3. pc[i] = "failed" => i \in rows
    BY <2>1 DEF OrphanCost
  <2> QED BY <2>1, <2>2, <2>3 DEF PCs
<1> QED BY <1>1, <1>2, Invariance, OrphanCostStep, PTL DEF Spec

---------------------------------------------------------------------------
(* Refinement of the lease registry                                        *)

\* A step that leaves every identity's registry status alone and tells nobody
\* anything is a stuttering step of the registry.
LEMMA Stutter ==
    ASSUME \A i \in Ids : (pc'[i] \in Granted <=> pc[i] \in Granted)
                       /\ (pc[i] \in Granted => (i \in ziti' <=> i \in ziti))
                       /\ (pc[i] \in Granted /\ i \in ziti
                             => (i \in lapsed' <=> i \in lapsed)),
           told' = told
    PROVE  UNCHANGED Registry!vars
<1>1. registryStatus' = registryStatus
  BY DEF registryStatus
<1> QED BY <1>1 DEF Registry!vars

\* Every step of the service is a step of the lease registry or leaves it alone.
LEMMA RegistryStep == LeaseInv /\ [Next]_vars => [Registry!Next]_(Registry!vars)
<1> SUFFICES ASSUME LeaseInv, [Next]_vars
             PROVE  [Registry!Next]_(Registry!vars)
  OBVIOUS
<1> DEFINE Simulated == [Registry!Next]_(Registry!vars)
<1>0. TypeOK /\ TypeOK' /\ LeaseInv'
  BY TypeStep, LeaseInvStep DEF LeaseInv
<1> HIDE DEF Simulated
<1>1. ASSUME NEW i \in Ids, CreateIdentity(i) PROVE Simulated
  BY <1>0, <1>1, Stutter
     DEF CreateIdentity, Goto, Granted, history, LeaseInv, TypeOK, Simulated
<1>2. ASSUME NEW i \in Ids, EnrollIdentity(i) PROVE Simulated
  BY <1>0, <1>2, Stutter
     DEF EnrollIdentity, Goto, Granted, history, LeaseInv, TypeOK, Simulated
<1>3. ASSUME NEW i \in Ids, InsertServiceIdentity(i) PROVE Simulated
  <2>1. CASE pc' = [pc EXCEPT ![i] = "undo"]
    BY <1>0, <1>3, <2>1, Stutter
       DEF InsertServiceIdentity, NoteLapse, Granted, LeaseInv, TypeOK, Simulated
  <2>2. CASE pc' = [pc EXCEPT ![i] = "held"]
    <3>1. /\ registryStatus[i] = "none"
          /\ registryStatus'[i] \in {"live", "lapsed"}
      BY <1>0, <1>3, <2>2
         DEF InsertServiceIdentity, registryStatus, Granted, LeaseInv, TypeOK,
             Progress
    <3>2. registryStatus' = [registryStatus EXCEPT ![i] = registryStatus'[i]]
      BY <1>0, <1>3, <2>2
         DEF InsertServiceIdentity, NoteLapse, registryStatus, LeaseInv, TypeOK
    <3>3. Registry!Grant(i)
      BY <1>3, <3>1, <3>2 DEF InsertServiceIdentity, Registry!Grant
    <3> QED BY <3>3 DEF Simulated, Registry!Next
  <2> QED BY <1>3, <2>1, <2>2 DEF InsertServiceIdentity, Goto
<1>4. ASSUME NEW i \in Ids, CleanupZitiIdentity(i) PROVE Simulated
  BY <1>0, <1>4, Stutter
     DEF CleanupZitiIdentity, Goto, Granted, history, LeaseInv, TypeOK, Simulated
<1>5. ASSUME NEW i \in Ids, CancelRequest(i) PROVE Simulated
  BY <1>0, <1>5, Stutter
     DEF CancelRequest, Goto, Granted, Working, history, stores, LeaseInv, TypeOK,
         Simulated
<1>6. ASSUME NEW i \in Ids, Abandon(i) PROVE Simulated
  BY <1>0, <1>6, Stutter
     DEF Abandon, Goto, Granted, history, stores, LeaseInv, TypeOK, Simulated
<1>7. ASSUME NEW c \in Calls, NEW i \in Ids, ComputeExpiry(c, i) PROVE Simulated
  BY <1>7, Stutter DEF ComputeExpiry, request, history, stores, Simulated
<1>8. ASSUME NEW c \in Calls, ExtendServiceIdentityLease(c) PROVE Simulated
  <2> DEFINE i == extId[c]
  <2>0. i \in Ids /\ pc[i] \in Granted /\ UNCHANGED <<pc, ziti>>
    BY <1>0, <1>8
       DEF ExtendServiceIdentityLease, LeaseInv, TypeOK, ExtendGranted, request
  <2>1. CASE UNCHANGED <<told, lapsed>>
    BY <2>0, <2>1, Stutter DEF Simulated
  <2>2. CASE i \notin rows /\ told' = told \cup {i} /\ UNCHANGED lapsed
    <3>1. registryStatus[i] = "gone" /\ registryStatus' = registryStatus
      BY <2>0, <2>2 DEF registryStatus, LeaseInv, GrantedIsTracked
    <3>2. Registry!TellGone(i)
      BY <2>2, <3>1 DEF Registry!TellGone
    <3> QED BY <2>0, <3>2 DEF Simulated, Registry!Next
  <2>3. CASE UNCHANGED told /\ lapsed' = lapsed \cup {i}
    <3>1. CASE i \in ziti /\ i \notin lapsed
      <4>1. \A j \in {i} : registryStatus[j] = "live"
        BY <2>0, <3>1 DEF registryStatus
      <4>2. registryStatus' =
              [j \in Ids |-> IF j \in {i} THEN "lapsed" ELSE registryStatus[j]]
        BY <2>0, <2>3, <3>1 DEF registryStatus
      <4>3. Registry!Lapse({i})
        BY <2>3, <4>1, <4>2 DEF Registry!Lapse
      <4> QED BY <2>0, <4>3 DEF Simulated, Registry!Next
    <3>2. CASE i \notin ziti \/ i \in lapsed
      BY <2>0, <2>3, <3>2, Stutter DEF Simulated
    <3> QED BY <3>1, <3>2
  <2> QED BY <1>8, <2>1, <2>2, <2>3
          DEF ExtendServiceIdentityLease, NoteLapse, history
<1>9. ASSUME NEW r \in Replicas, ListExpired(r) PROVE Simulated
  BY <1>9, Stutter DEF ListExpired, request, history, stores, Simulated
<1>10. ASSUME NEW r \in Replicas, NEW i \in Ids, CollectFromZiti(r, i)
       PROVE  Simulated
  <2>0. i \in lapsed /\ UNCHANGED <<pc, told, lapsed>>
    BY <1>0, <1>10
       DEF CollectFromZiti, LeaseInv, SweepSound, request, history
  <2>1. CASE UNCHANGED ziti \/ pc[i] \notin Granted \/ i \notin ziti
    BY <1>10, <2>0, <2>1, Stutter DEF CollectFromZiti, Simulated
  <2>2. CASE ziti' = ziti \ {i} /\ pc[i] \in Granted /\ i \in ziti
    <3>1. /\ registryStatus[i] = "lapsed"
          /\ registryStatus' = [registryStatus EXCEPT ![i] = "gone"]
      BY <2>0, <2>2 DEF registryStatus
    <3>2. Registry!Collect(i)
      BY <2>0, <3>1 DEF Registry!Collect
    <3> QED BY <3>2 DEF Simulated, Registry!Next
  <2> QED BY <1>10, <2>1, <2>2 DEF CollectFromZiti
<1>11. ASSUME NEW r \in Replicas, CollectRow(r) PROVE Simulated
  BY <1>11, Stutter DEF CollectRow, request, history, Simulated
<1>12. CASE Tick
  <2> DEFINE S == {i \in Ids : registryStatus[i] = "live" /\ i \in lapsed'}
  <2>0. UNCHANGED <<pc, ziti, told>> /\ lapsed \subseteq lapsed'
    BY <1>12 DEF Tick, request
  <2>1. \A i \in S : registryStatus[i] = "live"
    OBVIOUS
  <2>2. registryStatus' =
          [i \in Ids |-> IF i \in S THEN "lapsed" ELSE registryStatus[i]]
    BY <2>0 DEF registryStatus
  <2>3. Registry!Lapse(S)
    BY <2>0, <2>1, <2>2 DEF Registry!Lapse
  <2> QED BY <2>3 DEF Registry!Next
<1>13. ASSUME NEW r \in Replicas, Restart(r) PROVE Simulated
  BY <1>0, <1>13, Stutter
     DEF Restart, Granted, Working, stores, history, LeaseInv, TypeOK, Simulated
<1>14. CASE UNCHANGED vars
  BY <1>14, Stutter DEF vars, request, stores, history
<1>15. ASSUME NEW i \in Ids, Request(i) PROVE Simulated
  BY <1>1, <1>2, <1>3, <1>4, <1>5, <1>6, <1>15 DEF Request
<1>16. ASSUME NEW c \in Calls, Extend(c) PROVE Simulated
  BY <1>7, <1>8, <1>16 DEF Extend
<1>17. ASSUME NEW r \in Replicas, Sweep(r) PROVE Simulated
  BY <1>9, <1>10, <1>11, <1>17 DEF Sweep
<1> QED BY <1>12, <1>13, <1>14, <1>15, <1>16, <1>17 DEF Next, Simulated

\* The handlers, the collector and the two stores together implement the lease
\* registry, whatever calls fail and whenever a replica restarts.
THEOREM Refinement == Spec => ImplementsRegistry
<1>1. Init => Registry!Init
  BY DEF Init, Registry!Init, registryStatus, Granted
<1>2. LeaseInv /\ [Next]_vars => [Registry!Next]_(Registry!vars)
  BY RegistryStep
<1> QED BY <1>1, <1>2, Invariance, PTL
        DEF Spec, Registry!Spec, ImplementsRegistry
=============================================================================
