----------------------- MODULE WorkloadIdentityProofs -----------------------
(***************************************************************************)
(* Proofs about WorkloadIdentity, for every set of ids, workloads and      *)
(* calls and every fault budget.                                           *)
(***************************************************************************)
EXTENDS WorkloadIdentity, TLAPS

---------------------------------------------------------------------------
(* The inductive invariant                                                 *)

Making == {"jwt", "insert", "undo"}
Deleting == {"rowdel", "zitidel"}

\* A call that works on an identity has its id, and no other call of the same kind
\* works on it.
CallsApart ==
    \A c \in Calls :
        /\ call[c].at = "create" => call[c].w \in Keys
        /\ call[c].at \in Making \cup Deleting => call[c].z \in Zids
        /\ \A d \in Calls \ {c} :
              /\ call[c].at \in Making /\ call[d].at \in Making => call[c].z # call[d].z
              /\ call[c].at \in Deleting /\ call[d].at \in Deleting => call[c].z # call[d].z

\* What anything refers to has been created once; a new id is none of these.
CreatedOnce ==
    /\ \A z \in live \cup rows \cup handed \cup doomed \cup early \cup deleted : keyOf[z] # None
    /\ \A c \in Calls : call[c].at \in Making \cup Deleting => keyOf[call[c].z] # None

\* An identity on its way has not been handed out and has no row, and is on the
\* controller unless somebody wanted it gone before.
MakersKnow ==
    \A c \in Calls :
        /\ call[c].at \in Making => call[c].z \notin handed
        /\ call[c].at \in {"jwt", "insert"} =>
              call[c].z \notin rows /\ (call[c].z \in live \/ call[c].z \in early)
        /\ call[c].at = "undo" => call[c].z \notin rows \/ faults["lost"] > 0

\* Only doomed identities are deleted, the row of a handed out one first.
DeletersKnow ==
    \A c \in Calls :
        /\ call[c].at \in Deleting => call[c].z \in doomed
        /\ call[c].at = "zitidel" => call[c].z \notin rows \/ call[c].z \in early

HistoryKnows == doomed \subseteq handed \cup early /\ deleted \subseteq handed

WorkloadInv ==
    /\ TypeOK /\ CallsApart /\ CreatedOnce /\ MakersKnow /\ DeletersKnow /\ HistoryKnows
    /\ DeletedStaysGone /\ HandedOutIsWhole /\ RowsAreLive

---------------------------------------------------------------------------
(* Types                                                                   *)

CallType == [at : Steps, w : Keys \cup {None}, z : Zids \cup {None}]

\* A fault of any kind is counted within its budget, and no count ever falls.
LEMMA Faulty ==
    ASSUME TypeOK, NoFault \/ \E k \in FaultKinds : Fault(k)
    PROVE  /\ faults' \in [FaultKinds -> Nat]
           /\ \A k \in FaultKinds : faults'[k] <= MaxFaults[k]
           /\ faults["lost"] \in Nat /\ faults'["lost"] \in Nat
           /\ faults'["lost"] >= faults["lost"]
           /\ Fault("lost") => faults'["lost"] > 0
<1>1. /\ faults \in [FaultKinds -> Nat]
      /\ \A k \in FaultKinds : faults[k] <= MaxFaults[k]
      /\ MaxFaults \in [FaultKinds -> Nat]
  BY FaultsAssumption DEF TypeOK, StoresTypeOK
<1>2. "lost" \in FaultKinds
  BY DEF FaultKinds
<1>3. CASE NoFault
  BY <1>1, <1>2, <1>3 DEF NoFault, Fault
<1>4. ASSUME NEW k \in FaultKinds, Fault(k)
      PROVE  /\ faults' = [faults EXCEPT ![k] = faults[k] + 1]
             /\ faults[k] + 1 \in Nat /\ faults[k] + 1 <= MaxFaults[k]
  BY <1>1, <1>4 DEF Fault
<1> QED BY <1>1, <1>2, <1>3, <1>4

\* What a call to one of the stores can do.
LEMMA StoreCall ==
    ASSUME TypeOK, NEW z \in Zids, NEW k \in Keys, NEW res \in Results,
           \/ ZitiCreate(z, k, res) \/ ZitiEnroll(z, res) \/ ZitiDelete(z, res)
           \/ RowInsert(z, res) \/ RowDelete(z, res)
    PROVE  StoresTypeOK' /\ (NoFault \/ \E kind \in FaultKinds : Fault(kind))
<1>1. NoFault \/ \E kind \in FaultKinds : Fault(kind)
  BY DEF ZitiCreate, ZitiEnroll, ZitiDelete, RowInsert, RowDelete, FaultKinds
<1>2. /\ faults' \in [FaultKinds -> Nat]
      /\ \A kind \in FaultKinds : faults'[kind] <= MaxFaults[kind]
  BY <1>1, Faulty
<1>3. /\ live' \subseteq Zids /\ rows' \subseteq Zids
      /\ keyOf' \in [Zids -> Keys \cup {None}]
  BY DEF ZitiCreate, ZitiEnroll, ZitiDelete, RowInsert, RowDelete, TypeOK, StoresTypeOK
<1> QED BY <1>1, <1>2, <1>3 DEF StoresTypeOK

\* An id that is assigned is unused.
LEMMA AssignedIsUnused ==
    ASSUME NEW U, NEW z \in Assignable(U) PROVE z \in U
BY DEF Assignable

\* The stores are empty and no call runs at first.
LEMMA WorkloadInit == Init => WorkloadInv
<1> SUFFICES ASSUME Init PROVE WorkloadInv
  OBVIOUS
<1>1. TypeOK
  BY FaultsAssumption DEF Init, StoresInit, FaultsInit, TypeOK, StoresTypeOK, Idle, Steps, FaultKinds
<1>2. CallsApart /\ CreatedOnce /\ MakersKnow /\ DeletersKnow /\ HistoryKnows
  BY DEF Init, StoresInit, Idle, CallsApart, CreatedOnce, MakersKnow, DeletersKnow,
         HistoryKnows, Making, Deleting
<1>3. DeletedStaysGone /\ HandedOutIsWhole /\ RowsAreLive
  BY DEF Init, StoresInit, DeletedStaysGone, HandedOutIsWhole, RowsAreLive
<1> QED BY <1>1, <1>2, <1>3 DEF WorkloadInv

\* How a step of one call changes the calls.
LEMMA CallMoves ==
    ASSUME TypeOK, NEW c \in Calls, NEW step \in Steps,
           Goto(c, step)
    PROVE  /\ call' \in [Calls -> CallType]
           /\ \A d \in Calls \ {c} : call'[d] = call[d]
           /\ call'[c].at = step /\ call'[c].w = call[c].w /\ call'[c].z = call[c].z
<1>1. call \in [Calls -> CallType]
  BY DEF TypeOK, CallType
<1>2. call[c] \in CallType
  BY <1>1
<1>3. call' = [call EXCEPT ![c] = [call[c] EXCEPT !.at = step]]
  BY DEF Goto
<1>4. [call[c] EXCEPT !.at = step] \in CallType
  BY <1>2 DEF CallType
<1> QED BY <1>1, <1>2, <1>3, <1>4 DEF CallType

\* What an answer changes.
LEMMA CallEnds ==
    ASSUME TypeOK, NEW c \in Calls, Return(c)
    PROVE  /\ call' \in [Calls -> CallType]
           /\ \A d \in Calls \ {c} : call'[d] = call[d]
           /\ call'[c].at = "idle"
<1>1. call \in [Calls -> CallType] /\ Idle \in CallType
  BY DEF TypeOK, CallType, Idle, Steps
<1> QED BY <1>1 DEF Return, Idle

---------------------------------------------------------------------------
(* The steps                                                               *)

\* A create that gets a new id, or fails, with or without leaving one behind.
LEMMA CreateStep ==
    ASSUME WorkloadInv, NEW c \in Calls, CreateIdentity(c)
    PROVE  WorkloadInv'
<1>1. TypeOK /\ CallsApart /\ CreatedOnce /\ MakersKnow /\ DeletersKnow /\ HistoryKnows
  BY DEF WorkloadInv
<1>2. PICK z \in Assignable(Zids \ Used), res \in Results :
        /\ ZitiCreate(z, call[c].w, res)
        /\ IF res = "ok" THEN call' = [call EXCEPT ![c].at = "jwt", ![c].z = z] ELSE Return(c)
  BY DEF CreateIdentity
<1>3. z \in Zids /\ keyOf[z] = None /\ call[c].w \in Keys /\ call[c].w # None
  <2>1. z \in Zids \ Used
    BY AssignedIsUnused
  <2>2. call[c].w \in Keys
    BY <1>1 DEF CreateIdentity, CallsApart
  <2> QED BY <2>1, <2>2, NoneAssumption DEF Used
<1>4. /\ z \notin live \cup rows \cup handed \cup doomed \cup early \cup deleted
      /\ \A d \in Calls : call[d].at \in Making \cup Deleting => call[d].z # z
  BY <1>1, <1>3 DEF CreatedOnce
<1>5. StoresTypeOK' /\ faults["lost"] \in Nat /\ faults'["lost"] \in Nat
      /\ faults'["lost"] >= faults["lost"]
  BY <1>1, <1>2, <1>3, StoreCall, Faulty
<1>6. /\ \A y \in Zids \ {z} : keyOf'[y] = keyOf[y]
      /\ \/ live' = live \cup {z} /\ keyOf'[z] # None
         \/ live' = live /\ keyOf' = keyOf
      /\ UNCHANGED <<rows, asked>>
  BY <1>1, <1>2, <1>3 DEF ZitiCreate, CreateIdentity, TypeOK, StoresTypeOK
<1>7. /\ call' \in [Calls -> CallType]
      /\ \A d \in Calls \ {c} : call'[d] = call[d]
      /\ \/ call'[c].at = "idle"
         \/ call'[c].at = "jwt" /\ call'[c].z = z /\ z \in live' /\ keyOf'[z] # None
  <2>1. CASE res = "ok"
    <3>1. call \in [Calls -> CallType] /\ call[c] \in CallType
      BY <1>1 DEF TypeOK, CallType
    <3>2. call' = [call EXCEPT ![c] = [call[c] EXCEPT !.at = "jwt", !.z = z]]
      BY <1>2, <2>1, <3>1
    <3>3. [call[c] EXCEPT !.at = "jwt", !.z = z] \in CallType
      BY <1>3, <3>1 DEF CallType, Steps
    <3>4. z \in live' /\ keyOf'[z] # None
      BY <1>1, <1>2, <1>3, <2>1 DEF ZitiCreate, TypeOK, StoresTypeOK
    <3> QED BY <3>1, <3>2, <3>3, <3>4 DEF CallType
  <2>2. CASE res # "ok"
    BY <1>1, <1>2, <2>2, CallEnds
  <2> QED BY <2>1, <2>2
<1>8. TypeOK'
  BY <1>1, <1>5, <1>6, <1>7 DEF TypeOK, asked, CallType
<1>9. CallsApart'
  BY <1>1, <1>3, <1>4, <1>7 DEF CallsApart, Making, Deleting
<1>10. CreatedOnce'
  BY <1>1, <1>3, <1>4, <1>6, <1>7 DEF CreatedOnce, Making, Deleting, asked, TypeOK, StoresTypeOK, CallsApart
<1>11. MakersKnow'
  BY <1>1, <1>4, <1>5, <1>6, <1>7 DEF MakersKnow, Making, asked
<1>12. DeletersKnow' /\ HistoryKnows'
  BY <1>1, <1>6, <1>7 DEF DeletersKnow, HistoryKnows, Deleting, asked
<1>13. DeletedStaysGone' /\ HandedOutIsWhole' /\ RowsAreLive'
  BY <1>4, <1>5, <1>6 DEF WorkloadInv, DeletedStaysGone, HandedOutIsWhole, RowsAreLive, asked
<1> QED BY <1>8, <1>9, <1>10, <1>11, <1>12, <1>13 DEF WorkloadInv

\* Calls that begin or end without touching a store: every guarantee is about calls
\* in the middle of their work.
LEMMA QuietStep ==
    ASSUME WorkloadInv, UNCHANGED <<live, keyOf, rows, asked>>,
           NoFault \/ \E k \in FaultKinds : Fault(k),
           call' \in [Calls -> CallType],
           \A d \in Calls : \/ call'[d] = call[d]
                            \/ call'[d].at = "idle"
                            \/ call'[d].at = "create" /\ call'[d].w \in Keys
    PROVE  WorkloadInv'
<1>1. TypeOK /\ CallsApart /\ CreatedOnce /\ MakersKnow /\ DeletersKnow /\ HistoryKnows
  BY DEF WorkloadInv
<1>2. /\ faults' \in [FaultKinds -> Nat]
      /\ \A k \in FaultKinds : faults'[k] <= MaxFaults[k]
      /\ faults["lost"] \in Nat /\ faults'["lost"] \in Nat
      /\ faults'["lost"] >= faults["lost"]
  BY <1>1, Faulty
<1>3. TypeOK'
  BY <1>1, <1>2 DEF TypeOK, StoresTypeOK, asked, CallType
<1>4. CallsApart'
  BY <1>1 DEF CallsApart, Making, Deleting
<1>5. CreatedOnce'
  BY <1>1 DEF CreatedOnce, Making, Deleting, asked
<1>6. MakersKnow'
  BY <1>1, <1>2 DEF MakersKnow, Making, asked
<1>7. DeletersKnow' /\ HistoryKnows'
  BY <1>1 DEF DeletersKnow, HistoryKnows, Deleting, asked
<1>8. DeletedStaysGone' /\ HandedOutIsWhole' /\ RowsAreLive'
  BY <1>2 DEF WorkloadInv, DeletedStaysGone, HandedOutIsWhole, RowsAreLive, asked
<1> QED BY <1>3, <1>4, <1>5, <1>6, <1>7, <1>8 DEF WorkloadInv

\* A request that begins knows nothing yet.
LEMMA StartCreateStep ==
    ASSUME WorkloadInv, NEW c \in Calls, NEW w \in Keys, StartCreate(c, w)
    PROVE  WorkloadInv'
<1>1. call \in [Calls -> CallType]
  BY DEF WorkloadInv, TypeOK, CallType
<1>2. call' = [call EXCEPT ![c] = [at |-> "create", w |-> w, z |-> None]]
  BY DEF StartCreate
<1>3. [at |-> "create", w |-> w, z |-> None] \in CallType
  BY DEF CallType, Steps
<1>4. UNCHANGED <<live, keyOf, rows, asked>> /\ NoFault
  BY DEF StartCreate, stores, NoFault
<1> QED BY <1>1, <1>2, <1>3, <1>4, QuietStep

\* A cancelled call, and a restart, which ends all of them.
LEMMA StopStep ==
    ASSUME WorkloadInv, Restart \/ \E c \in Calls : Cancel(c)
    PROVE  WorkloadInv'
<1>1. TypeOK /\ call \in [Calls -> CallType] /\ Idle \in CallType
  BY DEF WorkloadInv, TypeOK, CallType, Idle, Steps
<1>2. CASE Restart
  <2>1. call' = [d \in Calls |-> Idle]
    BY <1>2 DEF Restart
  <2>2. call' \in [Calls -> CallType] /\ \A d \in Calls : call'[d].at = "idle"
    BY <1>1, <2>1 DEF Idle
  <2>3. UNCHANGED <<live, keyOf, rows, asked>> /\ \E k \in FaultKinds : Fault(k)
    BY <1>2 DEF Restart, FaultKinds
  <2> QED BY <2>2, <2>3, QuietStep
<1>3. ASSUME NEW c \in Calls, Cancel(c) PROVE WorkloadInv'
  <2>1. Return(c)
    BY <1>3 DEF Cancel
  <2>2. /\ call' \in [Calls -> CallType]
        /\ \A d \in Calls : call'[d] = call[d] \/ call'[d].at = "idle"
    BY <1>1, <2>1, CallEnds
  <2>3. UNCHANGED <<live, keyOf, rows, asked>> /\ \E k \in FaultKinds : Fault(k)
    BY <1>3 DEF Cancel, FaultKinds
  <2> QED BY <2>2, <2>3, QuietStep
<1> QED BY <1>2, <1>3

\* With the token the identity goes on to its row; without it nobody knows it.
LEMMA FetchStep ==
    ASSUME WorkloadInv, NEW c \in Calls, FetchEnrollmentJWT(c)
    PROVE  WorkloadInv'
<1>1. TypeOK /\ CallsApart /\ CreatedOnce /\ MakersKnow /\ DeletersKnow /\ HistoryKnows
      /\ call[c].at = "jwt" /\ call[c].z \in Zids
  BY DEF WorkloadInv, FetchEnrollmentJWT, CallsApart, Making
<1>2. PICK res \in Results :
        /\ ZitiEnroll(call[c].z, res)
        /\ IF res = "ok" THEN Goto(c, "insert") ELSE Return(c)
  BY DEF FetchEnrollmentJWT
<1>3. /\ UNCHANGED <<live, keyOf, rows, asked>>
      /\ NoFault \/ \E k \in FaultKinds : Fault(k)
  BY <1>2 DEF ZitiEnroll, FetchEnrollmentJWT, FaultKinds
<1>4. CASE res = "ok"
  <2>1. /\ call' \in [Calls -> CallType]
        /\ \A d \in Calls \ {c} : call'[d] = call[d]
        /\ call'[c].at = "insert" /\ call'[c].z = call[c].z
    BY <1>1, <1>2, <1>4, CallMoves DEF Steps
  <2>2. /\ faults' \in [FaultKinds -> Nat]
        /\ \A k \in FaultKinds : faults'[k] <= MaxFaults[k]
        /\ faults["lost"] \in Nat /\ faults'["lost"] \in Nat
        /\ faults'["lost"] >= faults["lost"]
    BY <1>1, <1>3, Faulty
  <2>3. TypeOK'
    BY <1>1, <1>3, <2>1, <2>2 DEF TypeOK, StoresTypeOK, asked, CallType
  <2>4. CallsApart'
    BY <1>1, <2>1 DEF CallsApart, Making, Deleting
  <2>5. CreatedOnce'
    BY <1>1, <1>3, <2>1 DEF CreatedOnce, Making, Deleting, asked
  <2>6. MakersKnow'
    BY <1>1, <1>3, <2>1, <2>2 DEF MakersKnow, Making, asked
  <2>7. DeletersKnow' /\ HistoryKnows'
    BY <1>1, <1>3, <2>1 DEF DeletersKnow, HistoryKnows, Deleting, asked
  <2>8. DeletedStaysGone' /\ HandedOutIsWhole' /\ RowsAreLive'
    BY <1>3, <2>2 DEF WorkloadInv, DeletedStaysGone, HandedOutIsWhole, RowsAreLive, asked
  <2> QED BY <2>3, <2>4, <2>5, <2>6, <2>7, <2>8 DEF WorkloadInv
<1>5. CASE res # "ok"
  <2>1. /\ call' \in [Calls -> CallType]
        /\ \A d \in Calls : call'[d] = call[d] \/ call'[d].at = "idle"
    BY <1>1, <1>2, <1>5, CallEnds
  <2> QED BY <1>3, <2>1, QuietStep
<1> QED BY <1>4, <1>5

\* The row comes last: from now on the identity has been handed out, or the row has to
\* be taken for lost.
LEMMA InsertStep ==
    ASSUME WorkloadInv, NEW c \in Calls, InsertManagedIdentity(c)
    PROVE  WorkloadInv'
<1> DEFINE z == call[c].z
<1>1. TypeOK /\ CallsApart /\ CreatedOnce /\ MakersKnow /\ DeletersKnow /\ HistoryKnows
      /\ DeletedStaysGone /\ HandedOutIsWhole /\ RowsAreLive
  BY DEF WorkloadInv
<1>2. PICK res \in Results :
        /\ RowInsert(z, res)
        /\ \/ res = "ok" /\ Return(c) /\ handed' = handed \cup {z}
           \/ res = "error" /\ Goto(c, "undo") /\ UNCHANGED handed
  BY DEF InsertManagedIdentity
<1>3. call[c].at = "insert" /\ z \in Zids /\ UNCHANGED <<live, keyOf, doomed, early, deleted>>
  BY <1>1, <1>2 DEF InsertManagedIdentity, CallsApart, Making, RowInsert
<1>4. StoresTypeOK'
      /\ faults["lost"] \in Nat /\ faults'["lost"] \in Nat
      /\ faults'["lost"] >= faults["lost"]
  <2>1. \/ NoFault \/ \E k \in FaultKinds : Fault(k)
    BY <1>2 DEF RowInsert, FaultKinds
  <2>2. rows' \subseteq Zids
    BY <1>1, <1>2, <1>3 DEF RowInsert, TypeOK, StoresTypeOK
  <2> QED BY <1>1, <1>3, <2>1, <2>2, Faulty DEF TypeOK, StoresTypeOK
<1>5. /\ call' \in [Calls -> CallType]
      /\ \A d \in Calls \ {c} : call'[d] = call[d]
      /\ \/ call'[c].at = "idle" /\ rows' = rows \cup {z} /\ handed' = handed \cup {z}
         \/ /\ call'[c].at = "undo" /\ call'[c].z = z /\ handed' = handed
            /\ \/ rows' = rows
               \/ rows' = rows \cup {z} /\ faults'["lost"] > 0
  <2>1. CASE res = "ok"
    BY <1>1, <1>2, <2>1, CallEnds DEF RowInsert
  <2>2. CASE res = "error"
    <3>1. /\ call' \in [Calls -> CallType]
          /\ \A d \in Calls \ {c} : call'[d] = call[d]
          /\ call'[c].at = "undo" /\ call'[c].z = z
      BY <1>1, <1>2, <2>2, CallMoves DEF Steps
    <3>2. Fault("lost") => faults'["lost"] > 0
      BY <1>1, Faulty DEF FaultKinds
    <3> QED BY <1>2, <2>2, <3>1, <3>2 DEF RowInsert
  <2> QED BY <1>2, <2>1, <2>2
<1>6. TypeOK'
  BY <1>1, <1>3, <1>4, <1>5 DEF TypeOK, CallType
<1>7. CallsApart'
  BY <1>1, <1>3, <1>4, <1>5 DEF CallsApart, Making, Deleting
<1>8. CreatedOnce'
  BY <1>1, <1>3, <1>4, <1>5 DEF CreatedOnce, Making, Deleting
<1>9. MakersKnow'
  BY <1>1, <1>3, <1>4, <1>5 DEF MakersKnow, DeletersKnow, CallsApart, HistoryKnows, Making, Deleting
<1>10. DeletersKnow' /\ HistoryKnows'
  BY <1>1, <1>3, <1>4, <1>5 DEF DeletersKnow, HistoryKnows, CallsApart, MakersKnow, Making, Deleting
<1>11. DeletedStaysGone'
  BY <1>1, <1>3, <1>4, <1>5 DEF DeletedStaysGone, DeletersKnow, HistoryKnows, MakersKnow, Making, Deleting
<1>12. HandedOutIsWhole'
  BY <1>1, <1>3, <1>4, <1>5 DEF HandedOutIsWhole, DeletersKnow, HistoryKnows, MakersKnow, Making, Deleting
<1>13. RowsAreLive'
  BY <1>1, <1>3, <1>4, <1>5 DEF RowsAreLive, DeletersKnow, HistoryKnows, MakersKnow, Making, Deleting
<1> QED BY <1>6, <1>7, <1>8, <1>9, <1>10, <1>11, <1>12, <1>13 DEF WorkloadInv

\* The cleanup takes back an identity that was not handed out.
LEMMA CleanupStep ==
    ASSUME WorkloadInv, NEW c \in Calls, CleanupZitiIdentity(c)
    PROVE  WorkloadInv'
<1> DEFINE z == call[c].z
<1>1. TypeOK /\ CallsApart /\ CreatedOnce /\ MakersKnow /\ DeletersKnow /\ HistoryKnows
      /\ DeletedStaysGone /\ HandedOutIsWhole /\ RowsAreLive
  BY DEF WorkloadInv
<1>2. PICK res \in Results : ZitiDelete(z, res)
  BY DEF CleanupZitiIdentity
<1>3. call[c].at = "undo" /\ z \in Zids
      /\ UNCHANGED <<keyOf, rows, handed, doomed, early, deleted>>
      /\ (live' = live \/ live' = live \ {z})
  BY <1>1, <1>2 DEF CleanupZitiIdentity, CallsApart, Making, ZitiDelete, asked
<1>4. StoresTypeOK'
      /\ faults["lost"] \in Nat /\ faults'["lost"] \in Nat
      /\ faults'["lost"] >= faults["lost"]
  <2>1. \/ NoFault \/ \E k \in FaultKinds : Fault(k)
    BY <1>2 DEF ZitiDelete, FaultKinds
  <2> QED BY <1>1, <1>3, <2>1, Faulty DEF TypeOK, StoresTypeOK
<1>5. /\ call' \in [Calls -> CallType]
      /\ \A d \in Calls \ {c} : call'[d] = call[d]
      /\ call'[c].at = "idle"
  BY <1>1, CallEnds DEF CleanupZitiIdentity
<1>6. TypeOK'
  BY <1>1, <1>3, <1>4, <1>5 DEF TypeOK, CallType
<1>7. CallsApart'
  BY <1>1, <1>3, <1>4, <1>5 DEF CallsApart, Making, Deleting
<1>8. CreatedOnce'
  BY <1>1, <1>3, <1>4, <1>5 DEF CreatedOnce, Making, Deleting
<1>9. MakersKnow'
  BY <1>1, <1>3, <1>4, <1>5 DEF MakersKnow, DeletersKnow, CallsApart, HistoryKnows, Making, Deleting
<1>10. DeletersKnow' /\ HistoryKnows'
  BY <1>1, <1>3, <1>4, <1>5 DEF DeletersKnow, HistoryKnows, CallsApart, MakersKnow, Making, Deleting
<1>11. DeletedStaysGone'
  BY <1>1, <1>3, <1>4, <1>5 DEF DeletedStaysGone, DeletersKnow, HistoryKnows, MakersKnow, Making, Deleting
<1>12. HandedOutIsWhole'
  BY <1>1, <1>3, <1>4, <1>5 DEF HandedOutIsWhole, DeletersKnow, HistoryKnows, MakersKnow, Making, Deleting
<1>13. RowsAreLive'
  BY <1>1, <1>3, <1>4, <1>5 DEF RowsAreLive, DeletersKnow, HistoryKnows, MakersKnow, Making, Deleting
<1> QED BY <1>6, <1>7, <1>8, <1>9, <1>10, <1>11, <1>12, <1>13 DEF WorkloadInv

\* The reconciler wants an identity gone.
LEMMA DoomStep ==
    ASSUME WorkloadInv, NEW z \in Zids, Doom(z)
    PROVE  WorkloadInv'
<1>1. TypeOK /\ CallsApart /\ CreatedOnce /\ MakersKnow /\ DeletersKnow /\ HistoryKnows
      /\ DeletedStaysGone /\ HandedOutIsWhole /\ RowsAreLive
  BY DEF WorkloadInv
<1>2. /\ z \in handed \cup live /\ z \notin doomed \cup deleted
      /\ doomed' = doomed \cup {z}
      /\ early' = (IF z \in handed THEN early ELSE early \cup {z})
      /\ UNCHANGED <<live, keyOf, rows, faults, call, handed, deleted>>
  BY DEF Doom, stores
<1>3. TypeOK'
  BY <1>1, <1>2 DEF TypeOK, StoresTypeOK
<1>4. CallsApart'
  BY <1>1, <1>2 DEF CallsApart, Making, Deleting
<1>5. CreatedOnce'
  BY <1>1, <1>2 DEF CreatedOnce, Making, Deleting
<1>6. MakersKnow'
  BY <1>1, <1>2 DEF MakersKnow, DeletersKnow, CallsApart, HistoryKnows, Making, Deleting
<1>7. DeletersKnow' /\ HistoryKnows'
  BY <1>1, <1>2 DEF DeletersKnow, HistoryKnows, CallsApart, MakersKnow, Making, Deleting
<1>8. DeletedStaysGone'
  BY <1>1, <1>2 DEF DeletedStaysGone, DeletersKnow, HistoryKnows, MakersKnow, Making, Deleting
<1>9. HandedOutIsWhole'
  BY <1>1, <1>2 DEF HandedOutIsWhole, DeletersKnow, HistoryKnows, MakersKnow, Making, Deleting
<1>10. RowsAreLive'
  BY <1>1, <1>2 DEF RowsAreLive, DeletersKnow, HistoryKnows, MakersKnow, Making, Deleting
<1> QED BY <1>3, <1>4, <1>5, <1>6, <1>7, <1>8, <1>9, <1>10 DEF WorkloadInv

\* A deletion starts for a doomed identity that no other deletion is working on.
LEMMA StartDeleteStep ==
    ASSUME WorkloadInv, NEW c \in Calls, NEW z \in Zids, StartDelete(c, z)
    PROVE  WorkloadInv'
<1>1. TypeOK /\ CallsApart /\ CreatedOnce /\ MakersKnow /\ DeletersKnow /\ HistoryKnows
      /\ DeletedStaysGone /\ HandedOutIsWhole /\ RowsAreLive
  BY DEF WorkloadInv
<1>2. /\ z \in doomed /\ call[c].at = "idle"
      /\ \A d \in Calls : call[d].at \in Deleting => call[d].z # z
      /\ UNCHANGED <<live, keyOf, rows, faults, handed, doomed, early, deleted>>
  BY DEF StartDelete, stores, asked, Idle, Deleting
<1>3. /\ call' \in [Calls -> CallType]
      /\ \A d \in Calls \ {c} : call'[d] = call[d]
      /\ call'[c].at = "rowdel" /\ call'[c].z = z
  <2>1. call \in [Calls -> CallType]
    BY <1>1 DEF TypeOK, CallType
  <2>2. call' = [call EXCEPT ![c] = [at |-> "rowdel", w |-> None, z |-> z]]
    BY DEF StartDelete
  <2>3. [at |-> "rowdel", w |-> None, z |-> z] \in CallType
    BY DEF CallType, Steps
  <2> QED BY <2>1, <2>2, <2>3
<1>4. TypeOK'
  BY <1>1, <1>2, <1>3 DEF TypeOK, StoresTypeOK, CallType
<1>5. CallsApart'
  BY <1>1, <1>2, <1>3 DEF CallsApart, Making, Deleting
<1>6. CreatedOnce'
  BY <1>1, <1>2, <1>3 DEF CreatedOnce, Making, Deleting
<1>7. MakersKnow'
  BY <1>1, <1>2, <1>3 DEF MakersKnow, DeletersKnow, CallsApart, HistoryKnows, Making, Deleting
<1>8. DeletersKnow' /\ HistoryKnows'
  BY <1>1, <1>2, <1>3 DEF DeletersKnow, HistoryKnows, CallsApart, MakersKnow, Making, Deleting
<1>9. DeletedStaysGone'
  BY <1>1, <1>2, <1>3 DEF DeletedStaysGone, DeletersKnow, HistoryKnows, MakersKnow, Making, Deleting
<1>10. HandedOutIsWhole'
  BY <1>1, <1>2, <1>3 DEF HandedOutIsWhole, DeletersKnow, HistoryKnows, MakersKnow, Making, Deleting
<1>11. RowsAreLive'
  BY <1>1, <1>2, <1>3 DEF RowsAreLive, DeletersKnow, HistoryKnows, MakersKnow, Making, Deleting
<1> QED BY <1>4, <1>5, <1>6, <1>7, <1>8, <1>9, <1>10, <1>11 DEF WorkloadInv

\* The row of a doomed identity goes; only then the identity may follow.
LEMMA DeleteRowStep ==
    ASSUME WorkloadInv, NEW c \in Calls, DeleteManagedIdentity(c)
    PROVE  WorkloadInv'
<1> DEFINE z == call[c].z
<1>1. TypeOK /\ CallsApart /\ CreatedOnce /\ MakersKnow /\ DeletersKnow /\ HistoryKnows
      /\ DeletedStaysGone /\ HandedOutIsWhole /\ RowsAreLive
  BY DEF WorkloadInv
<1>2. PICK res \in Results :
        /\ RowDelete(z, res)
        /\ IF res = "error" THEN Return(c) ELSE Goto(c, "zitidel")
  BY DEF DeleteManagedIdentity
<1>3. call[c].at = "rowdel" /\ z \in Zids
      /\ UNCHANGED <<live, keyOf, handed, doomed, early, deleted>>
      /\ (rows' = rows \/ rows' = rows \ {z}) /\ (res # "error" => z \notin rows')
  BY <1>1, <1>2 DEF DeleteManagedIdentity, CallsApart, Deleting, RowDelete, asked, Results
<1>4. StoresTypeOK'
      /\ faults["lost"] \in Nat /\ faults'["lost"] \in Nat
      /\ faults'["lost"] >= faults["lost"]
  <2>1. \/ NoFault \/ \E k \in FaultKinds : Fault(k)
    BY <1>2 DEF RowDelete, FaultKinds
  <2> QED BY <1>1, <1>3, <2>1, Faulty DEF TypeOK, StoresTypeOK
<1>5. /\ call' \in [Calls -> CallType]
      /\ \A d \in Calls \ {c} : call'[d] = call[d]
      /\ \/ call'[c].at = "idle"
         \/ call'[c].at = "zitidel" /\ call'[c].z = z /\ z \notin rows'
  <2>1. CASE res = "error"
    BY <1>1, <1>2, <2>1, CallEnds
  <2>2. CASE res # "error"
    BY <1>1, <1>2, <1>3, <2>2, CallMoves DEF Steps
  <2> QED BY <2>1, <2>2
<1>6. TypeOK'
  BY <1>1, <1>3, <1>4, <1>5 DEF TypeOK, CallType
<1>7. CallsApart'
  BY <1>1, <1>3, <1>4, <1>5 DEF CallsApart, Making, Deleting
<1>8. CreatedOnce'
  BY <1>1, <1>3, <1>4, <1>5 DEF CreatedOnce, Making, Deleting
<1>9. MakersKnow'
  BY <1>1, <1>3, <1>4, <1>5 DEF MakersKnow, DeletersKnow, CallsApart, HistoryKnows, Making, Deleting
<1>10. DeletersKnow' /\ HistoryKnows'
  BY <1>1, <1>3, <1>4, <1>5 DEF DeletersKnow, HistoryKnows, CallsApart, MakersKnow, Making, Deleting
<1>11. DeletedStaysGone'
  BY <1>1, <1>3, <1>4, <1>5 DEF DeletedStaysGone, DeletersKnow, HistoryKnows, MakersKnow, Making, Deleting
<1>12. HandedOutIsWhole'
  BY <1>1, <1>3, <1>4, <1>5 DEF HandedOutIsWhole, DeletersKnow, HistoryKnows, MakersKnow, Making, Deleting
<1>13. RowsAreLive'
  BY <1>1, <1>3, <1>4, <1>5 DEF RowsAreLive, DeletersKnow, HistoryKnows, MakersKnow, Making, Deleting
<1> QED BY <1>6, <1>7, <1>8, <1>9, <1>10, <1>11, <1>12, <1>13 DEF WorkloadInv

\* The identity goes, and with it, unless the call fails, the wish.
LEMMA DeleteZitiStep ==
    ASSUME WorkloadInv, NEW c \in Calls, DeleteZitiIdentity(c)
    PROVE  WorkloadInv'
<1> DEFINE z == call[c].z
<1>1. TypeOK /\ CallsApart /\ CreatedOnce /\ MakersKnow /\ DeletersKnow /\ HistoryKnows
      /\ DeletedStaysGone /\ HandedOutIsWhole /\ RowsAreLive
  BY DEF WorkloadInv
<1>2. PICK res \in Results :
        /\ ZitiDelete(z, res)
        /\ IF res = "error" THEN UNCHANGED <<doomed, deleted>>
           ELSE doomed' = doomed \ {z} /\ deleted' = deleted \cup ({z} \ early)
  BY DEF DeleteZitiIdentity
<1>3. call[c].at = "zitidel" /\ z \in Zids /\ z \in doomed
      /\ UNCHANGED <<keyOf, rows, handed, early>>
      /\ (live' = live \/ live' = live \ {z})
      /\ \/ UNCHANGED <<doomed, deleted>>
         \/ /\ z \notin live'
            /\ doomed' = doomed \ {z} /\ deleted' = deleted \cup ({z} \ early)
  BY <1>1, <1>2 DEF DeleteZitiIdentity, CallsApart, DeletersKnow, Deleting, ZitiDelete, Results
<1>4. StoresTypeOK'
      /\ faults["lost"] \in Nat /\ faults'["lost"] \in Nat
      /\ faults'["lost"] >= faults["lost"]
  <2>1. \/ NoFault \/ \E k \in FaultKinds : Fault(k)
    BY <1>2 DEF ZitiDelete, FaultKinds
  <2> QED BY <1>1, <1>3, <2>1, Faulty DEF TypeOK, StoresTypeOK
<1>5. /\ call' \in [Calls -> CallType]
      /\ \A d \in Calls \ {c} : call'[d] = call[d]
      /\ call'[c].at = "idle"
  BY <1>1, CallEnds DEF DeleteZitiIdentity
<1>6. TypeOK'
  BY <1>1, <1>3, <1>4, <1>5 DEF TypeOK, CallType
<1>7. CallsApart'
  BY <1>1, <1>3, <1>4, <1>5 DEF CallsApart, Making, Deleting
<1>8. CreatedOnce'
  BY <1>1, <1>3, <1>4, <1>5 DEF CreatedOnce, Making, Deleting
<1>9. MakersKnow'
  BY <1>1, <1>3, <1>4, <1>5 DEF MakersKnow, DeletersKnow, CallsApart, HistoryKnows, Making, Deleting
<1>10. DeletersKnow' /\ HistoryKnows'
  BY <1>1, <1>3, <1>4, <1>5 DEF DeletersKnow, HistoryKnows, CallsApart, MakersKnow, Making, Deleting
<1>11. DeletedStaysGone'
  BY <1>1, <1>3, <1>4, <1>5 DEF DeletedStaysGone, DeletersKnow, HistoryKnows, MakersKnow, Making, Deleting
<1>12. HandedOutIsWhole'
  BY <1>1, <1>3, <1>4, <1>5 DEF HandedOutIsWhole, DeletersKnow, HistoryKnows, MakersKnow, Making, Deleting
<1>13. RowsAreLive'
  BY <1>1, <1>3, <1>4, <1>5 DEF RowsAreLive, DeletersKnow, HistoryKnows, MakersKnow, Making, Deleting
<1> QED BY <1>6, <1>7, <1>8, <1>9, <1>10, <1>11, <1>12, <1>13 DEF WorkloadInv

\* Every step preserves the invariant.
LEMMA WorkloadNext == WorkloadInv /\ [Next]_vars => WorkloadInv'
<1> SUFFICES ASSUME WorkloadInv, [Next]_vars PROVE WorkloadInv'
  OBVIOUS
<1>1. ASSUME NEW c \in Calls, Handler(c) PROVE WorkloadInv'
  BY <1>1, CreateStep, FetchStep, InsertStep, CleanupStep, DeleteRowStep, DeleteZitiStep
     DEF Handler
<1>2. ASSUME NEW c \in Calls, \E w \in Keys : StartCreate(c, w) PROVE WorkloadInv'
  BY <1>2, StartCreateStep
<1>3. ASSUME NEW c \in Calls, \E z \in Zids : StartDelete(c, z) PROVE WorkloadInv'
  BY <1>3, StartDeleteStep
<1>4. CASE UNCHANGED vars
  <2>1. /\ UNCHANGED <<live, keyOf, rows, asked>> /\ NoFault /\ call' = call
        /\ call \in [Calls -> CallType]
    BY <1>4 DEF vars, stores, NoFault, WorkloadInv, TypeOK, CallType
  <2> QED BY <2>1, QuietStep
<1> QED BY <1>1, <1>2, <1>3, <1>4, StopStep, DoomStep DEF Next

\* So it holds throughout.
LEMMA WorkloadCorrect == Spec => []WorkloadInv
BY WorkloadInit, WorkloadNext, PTL DEF Spec

\* No call, however old or interrupted, brings back what a deletion answered OK for.
THEOREM DeletedCorrect == Spec => []DeletedStaysGone
<1>1. WorkloadInv => DeletedStaysGone
  BY DEF WorkloadInv
<1> QED BY <1>1, WorkloadCorrect, PTL

\* Creates and deletions of others leave a handed out identity and its row alone.
THEOREM HandedOutCorrect == Spec => []HandedOutIsWhole
<1>1. WorkloadInv => HandedOutIsWhole
  BY DEF WorkloadInv
<1> QED BY <1>1, WorkloadCorrect, PTL

\* A row names an identity that exists, unless an answer was lost or a deletion early.
THEOREM RowsCorrect == Spec => []RowsAreLive
<1>1. WorkloadInv => RowsAreLive
  BY DEF WorkloadInv
<1> QED BY <1>1, WorkloadCorrect, PTL
=============================================================================
