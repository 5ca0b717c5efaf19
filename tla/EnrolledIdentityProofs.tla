----------------------- MODULE EnrolledIdentityProofs -----------------------
(***************************************************************************)
(* Proofs about EnrolledIdentity, for every set of ids, runners, apps and  *)
(* calls and every fault budget.                                           *)
(***************************************************************************)
EXTENDS EnrolledIdentity, FiniteSetTheorems, TLAPS

---------------------------------------------------------------------------
(* The inductive invariant                                                 *)

Making == {"enroll", "forget", "insert", "undo"}
Enrolling == {"list", "purge"} \cup Making
Deleting == {"resolve", "rowdel", "zitidel", "svcdel"}

CallType ==
    [op : {"none", "enroll", "delete"}, at : Final \cup Enrolling \cup Deleting,
     k : Keys \cup {None}, z : Zids \cup {None}, listed : SUBSET Zids, svc : BOOLEAN]

EnrolledTypes ==
    /\ live \subseteq Zids /\ rows \subseteq Zids
    /\ keyOf \in [Zids -> Keys \cup {None}]
    /\ faults \in [FaultKinds -> Nat]
    /\ call \in [Calls -> CallType]
    /\ alone \subseteq Calls

\* Calls on one key that run at the same time are not alone, and their key is raced.
OverlapsKnown ==
    \A c \in Calls : \A d \in Calls \ {c} :
        Running(d) /\ call[d].k = call[c].k =>
            c \notin alone /\ (Running(c) => call[c].k \in raced)

\* A call has a key, and what it works on was created for that key.
CallKnows(c) ==
    /\ call[c].at # "idle" => call[c].k \in Keys
    /\ call[c].at \in Enrolling => call[c].op = "enroll"
    /\ call[c].at \in Deleting => call[c].op = "delete"
    /\ call[c].at \in Making \cup {"rowdel", "zitidel"} =>
          call[c].z \in Zids /\ keyOf[call[c].z] = call[c].k
    /\ \A z \in call[c].listed : keyOf[z] = call[c].k

\* An enrollment without interference finds the controller and the table as it has
\* left them.
EnrollSound(c) ==
    c \in alone \/ call[c].k \notin raced =>
        /\ call[c].at \in {"enroll", "forget", "insert"} => LiveOf(call[c].k) = {call[c].z}
        /\ call[c].at = "insert" => RowsOf(call[c].k) = {}

\* So does a deletion.
DeleteSound(c) ==
    call[c].k \notin raced =>
        /\ call[c].at = "rowdel" => RowsOf(call[c].k) \subseteq {call[c].z}
        /\ call[c].at \in {"zitidel", "svcdel"} => RowsOf(call[c].k) = {}

\* What a call that answered OK has left behind.
AnswerSound(c) ==
    /\ Succeeded(c, "delete") /\ call[c].svc => call[c].k \notin services
    /\ c \in alone /\ Succeeded(c, "enroll") =>
          LiveOf(call[c].k) = {call[c].z} /\ RowsOf(call[c].k) = {call[c].z}
    /\ c \in alone /\ Succeeded(c, "delete") /\ call[c].k \notin raced =>
          RowsOf(call[c].k) = {}

\* The premise of LoneDeleteIsComplete, and the first sign that something went wrong.
Few == faults["refused"] <= 1 /\ faults["lost"] = 0 /\ faults["stop"] = 0
Troubled == faults["refused"] >= 1 \/ faults["lost"] >= 1

\* With few faults the identity is not forgotten when its row is.
CompleteSound(c) ==
    call[c].k \notin raced =>
        /\ call[c].at = "undo" => Troubled /\ LiveOf(call[c].k) \subseteq {call[c].z}
        /\ Few /\ call[c].at \in {"rowdel", "zitidel"} =>
              LiveOf(call[c].k) \subseteq {call[c].z}
        /\ Few /\ call[c].k \notin apps /\ call[c].at = "svcdel" => LiveOf(call[c].k) = {}
        /\ Few /\ call[c].k \notin apps /\ c \in alone /\ Succeeded(c, "delete") =>
              LiveOf(call[c].k) = {}

CallInv(c) ==
    CallKnows(c) /\ EnrollSound(c) /\ DeleteSound(c) /\ AnswerSound(c) /\ CompleteSound(c)

\* A key on which calls never overlapped has one row at most, and with few faults
\* no identity beside the one of the row, except while an enrollment makes one.
KeyInv(k) ==
    k \notin raced =>
        /\ \A x, y \in RowsOf(k) : x = y
        /\ Few /\ (\A c \in Calls : call[c].k = k => call[c].at \notin Making) =>
              RowsOf(k) = {} \/ LiveOf(k) \subseteq RowsOf(k)

EnrolledInv ==
    /\ EnrolledTypes /\ OverlapsKnown
    /\ \A c \in Calls : CallInv(c)
    /\ \A k \in Keys : KeyInv(k)

---------------------------------------------------------------------------
(* What the steps of a call can do                                         *)

\* A step that touches the stores for key k only.
StoreStep(k) ==
    /\ live' \subseteq Zids /\ rows' \subseteq Zids
    /\ keyOf' \in [Zids -> Keys \cup {None}]
    /\ faults' \in [FaultKinds -> Nat]
    /\ \A j \in Keys \ {k} : LiveOf(j)' = LiveOf(j) /\ RowsOf(j)' = RowsOf(j)
    /\ Few' => Few
    /\ Troubled => Troubled'

\* A step of the running call c, about key k only.
OwnStep(c, k) ==
    /\ StoreStep(k)
    /\ call' \in [Calls -> CallType]
    /\ \A d \in Calls \ {c} : call'[d] = call[d]
    /\ call'[c].k = k \/ call'[c] = Idle
    /\ UNCHANGED <<apps, alone, raced>>
    /\ services \ {k} \subseteq services' /\ services' \subseteq services
    /\ \A d \in Calls \ {c} :
          /\ call[d].z \in Zids => keyOf'[call[d].z] = keyOf[call[d].z]
          /\ \A z \in call[d].listed : keyOf'[z] = keyOf[z]

\* Faults are counted, and no count ever falls.
LEMMA Faulty ==
    ASSUME EnrolledTypes, NoFault \/ \E kind \in FaultKinds : Fault(kind)
    PROVE  /\ faults' \in [FaultKinds -> Nat]
           /\ Few' => Few
           /\ Troubled => Troubled'
           /\ Fault("lost") \/ Fault("stop") => ~Few'
           /\ Fault("lost") \/ Fault("refused") => Troubled' /\ (Troubled => ~Few')
<1>1. faults \in [FaultKinds -> Nat] /\ {"refused", "lost", "stop"} \subseteq FaultKinds
  BY DEF EnrolledTypes, FaultKinds
<1>2. CASE NoFault
  BY <1>1, <1>2 DEF NoFault, Fault, Few, Troubled
<1>3. ASSUME NEW kind \in FaultKinds, Fault(kind)
      PROVE  /\ faults' = [faults EXCEPT ![kind] = faults[kind] + 1]
             /\ faults' \in [FaultKinds -> Nat]
             /\ \A j \in FaultKinds : faults'[j] >= faults[j]
  BY <1>1, <1>3 DEF Fault
<1>4. ASSUME NEW kind \in FaultKinds, Fault(kind)
      PROVE  faults'[kind] >= 1 /\ (faults[kind] >= 1 => faults'[kind] >= 2)
  BY <1>1, <1>3, <1>4
<1>5. ASSUME NEW kind \in FaultKinds, Fault(kind)
      PROVE  (Few' => Few) /\ (Troubled => Troubled')
  BY <1>1, <1>3, <1>5 DEF Few, Troubled
<1>6. Fault("lost") \/ Fault("stop") => ~Few'
  BY <1>1, <1>4 DEF Few
<1>7. Fault("lost") \/ Fault("refused") => Troubled' /\ (Troubled => ~Few')
  BY <1>1, <1>3, <1>4 DEF Few, Troubled
<1> QED BY <1>1, <1>2, <1>3, <1>5, <1>6, <1>7

\* An id that is assigned is unused.
LEMMA AssignedIsUnused ==
    ASSUME NEW U, NEW z \in Assignable(U) PROVE z \in U
BY DEF Assignable

\* A lookup or an enrollment with the controller leaves both stores alone.
LEMMA LookupEffect ==
    ASSUME EnrolledTypes, NEW k \in Keys, UNCHANGED <<live, keyOf, rows>>,
           NoFault \/ \E kind \in FaultKinds : Fault(kind)
    PROVE  /\ StoreStep(k)
           /\ LiveOf(k)' = LiveOf(k) /\ RowsOf(k)' = RowsOf(k)
           /\ Fault("refused") => Troubled'
           /\ Fault("stop") => ~Few'
<1>1. \A j \in Keys : LiveOf(j)' = LiveOf(j) /\ RowsOf(j)' = RowsOf(j)
  BY DEF LiveOf, RowsOf
<1>2. /\ faults' \in [FaultKinds -> Nat] /\ (Few' => Few) /\ (Troubled => Troubled')
      /\ Fault("refused") => Troubled'
      /\ Fault("stop") => ~Few'
  BY Faulty DEF FaultKinds
<1> QED BY <1>1, <1>2 DEF StoreStep, EnrolledTypes

\* A deletion on the controller takes away the identity or nothing, and succeeds only
\* when the identity is gone.
LEMMA ZitiDeleteEffect ==
    ASSUME EnrolledTypes, NEW k \in Keys, NEW z \in Zids, keyOf[z] = k,
           NEW res \in Results, ZitiDelete(z, res)
    PROVE  /\ StoreStep(k) /\ UNCHANGED <<keyOf, rows>>
           /\ LiveOf(k)' = LiveOf(k) \/ LiveOf(k)' = LiveOf(k) \ {z}
           /\ RowsOf(k)' = RowsOf(k)
           /\ res # "error" => LiveOf(k)' = LiveOf(k) \ {z}
           /\ res = "error" => (Troubled => ~Few')
<1>1. NoFault \/ Fault("refused") \/ Fault("lost")
  BY DEF ZitiDelete
<1>2. /\ UNCHANGED <<keyOf, rows>>
      /\ live' = live \/ live' = live \ {z}
      /\ res # "error" => live' = live \ {z}
  BY DEF ZitiDelete, Results
<1>3. /\ \A j \in Keys \ {k} : LiveOf(j)' = LiveOf(j) /\ RowsOf(j)' = RowsOf(j)
      /\ RowsOf(k)' = RowsOf(k)
      /\ live' = live => LiveOf(k)' = LiveOf(k)
      /\ live' = live \ {z} => LiveOf(k)' = LiveOf(k) \ {z}
  BY <1>2 DEF LiveOf, RowsOf
<1>4. /\ faults' \in [FaultKinds -> Nat] /\ (Few' => Few) /\ (Troubled => Troubled')
      /\ Fault("refused") \/ Fault("lost") => (Troubled => ~Few')
  BY <1>1, Faulty DEF FaultKinds
<1>5. res = "error" => (Troubled => ~Few')
  BY <1>4 DEF ZitiDelete
<1>6. live' \subseteq Zids /\ rows' \subseteq Zids /\ keyOf' \in [Zids -> Keys \cup {None}]
  BY <1>2 DEF EnrolledTypes
<1> QED BY <1>2, <1>3, <1>4, <1>5, <1>6 DEF StoreStep

\* An insert adds the row or nothing.
LEMMA RowInsertEffect ==
    ASSUME EnrolledTypes, NEW k \in Keys, NEW z \in Zids, keyOf[z] = k,
           NEW res \in Results, RowInsert(z, res)
    PROVE  /\ StoreStep(k) /\ UNCHANGED <<keyOf, live>>
           /\ RowsOf(k)' = RowsOf(k) \/ RowsOf(k)' = RowsOf(k) \cup {z}
           /\ LiveOf(k)' = LiveOf(k)
           /\ res = "ok" => RowsOf(k)' = RowsOf(k) \cup {z}
           /\ res = "error" => Troubled'
<1>1. NoFault \/ Fault("refused") \/ Fault("lost")
  BY DEF RowInsert
<1>2. /\ UNCHANGED <<keyOf, live>>
      /\ rows' = rows \/ rows' = rows \cup {z}
      /\ res = "ok" => rows' = rows \cup {z}
  BY DEF RowInsert, Results
<1>3. /\ \A j \in Keys \ {k} : LiveOf(j)' = LiveOf(j) /\ RowsOf(j)' = RowsOf(j)
      /\ LiveOf(k)' = LiveOf(k)
      /\ rows' = rows => RowsOf(k)' = RowsOf(k)
      /\ rows' = rows \cup {z} => RowsOf(k)' = RowsOf(k) \cup {z}
  BY <1>2 DEF LiveOf, RowsOf
<1>4. /\ faults' \in [FaultKinds -> Nat] /\ (Few' => Few) /\ (Troubled => Troubled')
      /\ Fault("refused") \/ Fault("lost") => Troubled'
  BY <1>1, Faulty DEF FaultKinds
<1>5. res = "error" => Troubled'
  BY <1>4 DEF RowInsert
<1>6. live' \subseteq Zids /\ rows' \subseteq Zids /\ keyOf' \in [Zids -> Keys \cup {None}]
  BY <1>2 DEF EnrolledTypes
<1> QED BY <1>2, <1>3, <1>4, <1>5, <1>6 DEF StoreStep

\* The deletion of one row takes away that row or nothing; with few faults a deletion
\* that fails has done nothing.
LEMMA RowDeleteEffect ==
    ASSUME EnrolledTypes, NEW k \in Keys, NEW z \in Zids, keyOf[z] = k,
           NEW res \in Results, RowDelete(z, res)
    PROVE  /\ StoreStep(k) /\ UNCHANGED <<keyOf, live>>
           /\ RowsOf(k)' = RowsOf(k) \/ RowsOf(k)' = RowsOf(k) \ {z}
           /\ LiveOf(k)' = LiveOf(k)
           /\ res # "error" => RowsOf(k)' = RowsOf(k) \ {z}
           /\ res = "error" /\ Few' => RowsOf(k)' = RowsOf(k)
<1>1. NoFault \/ Fault("refused") \/ Fault("lost")
  BY DEF RowDelete
<1>2. /\ UNCHANGED <<keyOf, live>>
      /\ rows' = rows \/ rows' = rows \ {z}
      /\ res # "error" => rows' = rows \ {z}
  BY DEF RowDelete, Results
<1>3. /\ \A j \in Keys \ {k} : LiveOf(j)' = LiveOf(j) /\ RowsOf(j)' = RowsOf(j)
      /\ LiveOf(k)' = LiveOf(k)
      /\ rows' = rows => RowsOf(k)' = RowsOf(k)
      /\ rows' = rows \ {z} => RowsOf(k)' = RowsOf(k) \ {z}
  BY <1>2 DEF LiveOf, RowsOf
<1>4. /\ faults' \in [FaultKinds -> Nat] /\ (Few' => Few) /\ (Troubled => Troubled')
      /\ Fault("lost") => ~Few'
  BY <1>1, Faulty DEF FaultKinds
<1>5. res = "error" /\ Few' => rows' = rows
  BY <1>4 DEF RowDelete
<1>6. live' \subseteq Zids /\ rows' \subseteq Zids /\ keyOf' \in [Zids -> Keys \cup {None}]
  BY <1>2 DEF EnrolledTypes
<1> QED BY <1>2, <1>3, <1>4, <1>5, <1>6 DEF StoreStep

\* The deletion of every row of a key takes away all of them or none.
LEMMA RowsDeleteEffect ==
    ASSUME EnrolledTypes, NEW k \in Keys, NEW res \in Results, RowsDelete(k, res)
    PROVE  /\ StoreStep(k) /\ UNCHANGED <<keyOf, live>>
           /\ RowsOf(k)' = RowsOf(k) \/ RowsOf(k)' = {}
           /\ LiveOf(k)' = LiveOf(k)
           /\ res = "ok" => RowsOf(k)' = {}
           /\ res # "ok" => Troubled'
<1>1. NoFault \/ Fault("refused") \/ Fault("lost")
  BY DEF RowsDelete
<1>2. /\ UNCHANGED <<keyOf, live>>
      /\ rows' = rows \/ rows' = rows \ RowsOf(k)
      /\ res = "ok" => rows' = rows \ RowsOf(k)
  BY DEF RowsDelete, Results
<1>3. /\ \A j \in Keys \ {k} : LiveOf(j)' = LiveOf(j) /\ RowsOf(j)' = RowsOf(j)
      /\ LiveOf(k)' = LiveOf(k)
      /\ rows' = rows => RowsOf(k)' = RowsOf(k)
      /\ rows' = rows \ RowsOf(k) => RowsOf(k)' = {}
  BY <1>2 DEF LiveOf, RowsOf
<1>4. /\ faults' \in [FaultKinds -> Nat] /\ (Few' => Few) /\ (Troubled => Troubled')
      /\ Fault("refused") \/ Fault("lost") => Troubled'
  BY <1>1, Faulty DEF FaultKinds
<1>5. res # "ok" => Troubled'
  BY <1>4 DEF RowsDelete
<1>6. live' \subseteq Zids /\ rows' \subseteq Zids /\ keyOf' \in [Zids -> Keys \cup {None}]
  BY <1>2 DEF EnrolledTypes
<1> QED BY <1>2, <1>3, <1>4, <1>5, <1>6 DEF StoreStep

\* How a step of one call changes the calls.
LEMMA CallBecomes ==
    ASSUME EnrolledTypes, NEW c \in Calls, NEW r \in CallType,
           call' = [call EXCEPT ![c] = r]
    PROVE  /\ call' \in [Calls -> CallType]
           /\ \A d \in Calls \ {c} : call'[d] = call[d]
           /\ call'[c] = r
BY DEF EnrolledTypes

\* A call that fails is idle again.
LEMMA CallEnds ==
    ASSUME EnrolledTypes, NEW c \in Calls, Fail(c)
    PROVE  /\ call' \in [Calls -> CallType]
           /\ \A d \in Calls \ {c} : call'[d] = call[d]
           /\ call'[c] = Idle
<1>1. Idle \in CallType
  BY DEF Idle, CallType, Final
<1> QED BY <1>1, CallBecomes DEF Fail

\* A call that goes on changes nothing but where it stands.
LEMMA CallMoves ==
    ASSUME EnrolledTypes, NEW c \in Calls, NEW step \in Final \cup Enrolling \cup Deleting,
           Goto(c, step)
    PROVE  /\ call' \in [Calls -> CallType]
           /\ \A d \in Calls \ {c} : call'[d] = call[d]
           /\ call'[c] = [call[c] EXCEPT !.at = step]
           /\ call'[c].at = step /\ call'[c].op = call[c].op /\ call'[c].k = call[c].k
           /\ call'[c].z = call[c].z /\ call'[c].listed = call[c].listed
           /\ call'[c].svc = call[c].svc
<1>1. call[c] \in CallType /\ call \in [Calls -> CallType]
  BY DEF EnrolledTypes
<1>2. [call[c] EXCEPT !.at = step] \in CallType
  BY <1>1 DEF CallType
<1>3. call' = [call EXCEPT ![c] = [call[c] EXCEPT !.at = step]]
  BY <1>1 DEF Goto
<1>4. /\ call' \in [Calls -> CallType]
      /\ \A d \in Calls \ {c} : call'[d] = call[d]
      /\ call'[c] = [call[c] EXCEPT !.at = step]
  BY <1>2, <1>3, CallBecomes
<1> QED BY <1>1, <1>4 DEF CallType

\* Other calls on the key of a running call are not alone, and the key of those that
\* run is raced: nothing is claimed about them.
LEMMA OthersClaimNothing ==
    ASSUME EnrolledInv, NEW c \in Calls, NEW k \in Keys, call[c].k = k, Running(c),
           NEW d \in Calls \ {c}, call[d].k = k
    PROVE  d \notin alone /\ (Running(d) => k \in raced)
BY DEF EnrolledInv, OverlapsKnown

\* A step of one call keeps the invariant when it keeps what concerns that call and
\* its key.
LEMMA OwnStepSuffices ==
    ASSUME EnrolledInv, NEW c \in Calls, NEW k \in Keys, call[c].k = k, Running(c),
           OwnStep(c, k), CallInv(c)', KeyInv(k)'
    PROVE  EnrolledInv'
<1>1. EnrolledTypes'
  BY DEF EnrolledInv, OwnStep, StoreStep, EnrolledTypes
<1>2. Idle.at = "idle" /\ Idle.k = None /\ None \notin Keys
  BY NoneAssumption DEF Idle
<1>3. \A d \in Calls \ {c} : call'[d] = call[d]
  BY DEF OwnStep
<1>4. OverlapsKnown'
  <2> SUFFICES ASSUME NEW x \in Calls, NEW y \in Calls \ {x}, Running(y)',
                      call'[y].k = call'[x].k
               PROVE  x \notin alone' /\ (Running(x)' => call'[x].k \in raced')
    BY DEF OverlapsKnown
  <2>1. UNCHANGED <<alone, raced>>
    BY DEF OwnStep
  <2>2. ASSUME NEW d \in Calls, Running(d)'
        PROVE  Running(d) /\ call'[d].k = call[d].k
    BY <1>2, <1>3, <2>2 DEF Running, Final, OwnStep
  <2>3. call'[y].k \in Keys
    BY <2>2 DEF EnrolledInv, CallInv, CallKnows, Running, Final
  <2>4. call'[x].k = call[x].k
    BY <1>2, <1>3, <2>3 DEF OwnStep
  <2> QED BY <2>1, <2>2, <2>4 DEF EnrolledInv, OverlapsKnown
<1>5. ASSUME NEW d \in Calls \ {c} PROVE CallInv(d)'
  <2>1. call'[d] = call[d] /\ CallInv(d) /\ UNCHANGED <<apps, alone, raced>>
    BY <1>3 DEF OwnStep, EnrolledInv
  <2>2. /\ call[d].z \in Zids => keyOf'[call[d].z] = keyOf[call[d].z]
        /\ \A z \in call[d].listed : keyOf'[z] = keyOf[z]
        /\ services' \subseteq services
    BY DEF OwnStep
  <2>3. CallKnows(d)'
    BY <2>1, <2>2 DEF CallInv, CallKnows
  <2>4. CASE call[d].k = k
    <3>1. d \notin alone' /\ (Running(d)' => k \in raced')
      BY <2>1, <2>4, OthersClaimNothing DEF Running
    <3>2. EnrollSound(d)' /\ DeleteSound(d)'
      BY <2>1, <2>4, <3>1 DEF EnrollSound, DeleteSound, Running, Final
    <3>3. AnswerSound(d)'
      BY <2>1, <2>2, <3>1 DEF CallInv, AnswerSound, Succeeded
    <3>4. CompleteSound(d)'
      BY <2>1, <2>4, <3>1 DEF CompleteSound, Running, Final
    <3> QED BY <2>3, <3>2, <3>3, <3>4 DEF CallInv
  <2>5. CASE call[d].k \in Keys \ {k}
    <3>1. /\ LiveOf(call[d].k)' = LiveOf(call[d].k)
          /\ RowsOf(call[d].k)' = RowsOf(call[d].k)
          /\ (Few' => Few) /\ (Troubled => Troubled')
      <4>1. \A j \in Keys \ {k} : LiveOf(j)' = LiveOf(j) /\ RowsOf(j)' = RowsOf(j)
        BY DEF OwnStep, StoreStep
      <4> DEFINE j == call[d].k
      <4>2. LiveOf(j)' = LiveOf(j) /\ RowsOf(j)' = RowsOf(j)
        BY <2>1, <2>5, <4>1 DEF LiveOf, RowsOf
      <4> QED BY <4>2 DEF OwnStep, StoreStep
    <3>2. EnrollSound(d)' /\ DeleteSound(d)' /\ AnswerSound(d)' /\ CompleteSound(d)'
      BY <2>1, <2>2, <3>1
      DEF CallInv, EnrollSound, DeleteSound, AnswerSound, CompleteSound, Succeeded
    <3> QED BY <2>3, <3>2 DEF CallInv
  <2>6. CASE call[d].k \notin Keys
    <3>1. call'[d].at = "idle"
      BY <2>1, <2>6 DEF CallInv, CallKnows
    <3> QED BY <2>3, <3>1
        DEF CallInv, EnrollSound, DeleteSound, AnswerSound, CompleteSound, Succeeded
  <2> QED BY <2>4, <2>5, <2>6
<1>6. ASSUME NEW j \in Keys \ {k} PROVE KeyInv(j)'
  <2>1. LiveOf(j)' = LiveOf(j) /\ RowsOf(j)' = RowsOf(j) /\ (Few' => Few) /\ raced' = raced
    BY DEF OwnStep, StoreStep
  <2>2. (\A d \in Calls : call'[d].k = j => call'[d].at \notin Making)
          => \A d \in Calls : call[d].k = j => call[d].at \notin Making
    BY <1>3
  <2> QED BY <2>1, <2>2 DEF EnrolledInv, KeyInv
<1> QED BY <1>1, <1>4, <1>5, <1>6 DEF EnrolledInv

\* What a running call can rely on.
LEMMA RunningCall ==
    ASSUME EnrolledInv, NEW c \in Calls, Running(c)
    PROVE  /\ EnrolledTypes /\ call[c] \in CallType
           /\ call[c].k \in Keys /\ CallInv(c) /\ KeyInv(call[c].k)
<1>1. EnrolledTypes /\ CallInv(c) /\ \A k \in Keys : KeyInv(k)
  BY DEF EnrolledInv
<1>2. call[c].k \in Keys
  BY <1>1 DEF CallInv, CallKnows, Running, Final
<1> QED BY <1>1, <1>2 DEF EnrolledTypes

\* What is known of its key while it makes no identity.
LEMMA QuietKey ==
    ASSUME EnrolledInv, NEW c \in Calls, Running(c), NEW k \in Keys, call[c].k = k,
           call[c].at \notin Making, k \notin raced
    PROVE  /\ \A x, y \in RowsOf(k) : x = y
           /\ Few => RowsOf(k) = {} \/ LiveOf(k) \subseteq RowsOf(k)
<1>1. \A d \in Calls : call[d].k = k => call[d].at \notin Making
  BY OthersClaimNothing DEF Running, Making, Final
<1> QED BY <1>1 DEF EnrolledInv, KeyInv

\* What is to be shown of the key after a step.
LEMMA KeyStays ==
    ASSUME NEW c \in Calls, NEW k \in Keys, raced' = raced,
           k \notin raced => \A x, y \in RowsOf(k)' : x = y,
           k \notin raced /\ Few' /\ (call'[c].k # k \/ call'[c].at \notin Making) =>
              RowsOf(k)' = {} \/ LiveOf(k)' \subseteq RowsOf(k)'
    PROVE  KeyInv(k)'
BY DEF KeyInv

\* Nothing is claimed about a call that has failed.
LEMMA FailedCall ==
    ASSUME NEW c \in Calls, call'[c] = Idle
    PROVE  CallInv(c)' /\ call'[c].at = "idle"
BY DEF Idle, CallInv, CallKnows, EnrollSound, DeleteSound, AnswerSound, CompleteSound,
       Succeeded, Enrolling, Deleting, Making

\* A step that created no identity is about the own key when the stores say so.
LEMMA StepIsOwn ==
    ASSUME EnrolledInv, NEW c \in Calls, NEW k \in Keys, call[c].k = k,
           StoreStep(k), Local, services' = services, keyOf' = keyOf,
           call' \in [Calls -> CallType],
           \A d \in Calls \ {c} : call'[d] = call[d],
           call'[c].k = k \/ call'[c] = Idle
    PROVE  OwnStep(c, k)
BY DEF OwnStep, Local

\* The key keeps what is known of it when identities are only taken away.
LEMMA KeyKept ==
    ASSUME EnrolledInv, NEW c \in Calls, NEW k \in Keys, call[c].k = k, Running(c),
           call[c].at \notin Making, OwnStep(c, k),
           RowsOf(k)' = RowsOf(k), LiveOf(k)' \subseteq LiveOf(k)
    PROVE  KeyInv(k)'
<1>1. k \notin raced => /\ \A x, y \in RowsOf(k) : x = y
                        /\ Few => RowsOf(k) = {} \/ LiveOf(k) \subseteq RowsOf(k)
  BY QuietKey
<1>2. raced' = raced /\ (Few' => Few)
  BY DEF OwnStep, StoreStep
<1>3. k \notin raced => \A x, y \in RowsOf(k)' : x = y
  BY <1>1
<1>4. k \notin raced /\ Few' => RowsOf(k)' = {} \/ LiveOf(k)' \subseteq RowsOf(k)'
  BY <1>1, <1>2
<1> QED BY <1>2, <1>3, <1>4 DEF KeyInv

---------------------------------------------------------------------------
(* The steps of an enrollment                                              *)

\* A listing finds identities of the own key only.
LEMMA ListStep ==
    ASSUME EnrolledInv, NEW c \in Calls, NEW k \in Keys, call[c].k = k,
           ListByExternalID(c)
    PROVE  EnrolledInv'
<1>1. Running(c) /\ call[c].at \notin Making
  BY DEF ListByExternalID, Running, Final, Making
<1>2. EnrolledTypes /\ call[c] \in CallType /\ k \in Keys /\ CallInv(c)
  BY <1>1, RunningCall
<1>3. PICK res \in Results :
        /\ PlainCall(res)
        /\ IF res = "ok"
           THEN call' = [call EXCEPT ![c].at = "purge", ![c].listed = LiveOf(k)]
           ELSE Fail(c)
  BY DEF ListByExternalID
<1>4. /\ StoreStep(k) /\ UNCHANGED <<live, keyOf, rows>>
      /\ LiveOf(k)' = LiveOf(k) /\ RowsOf(k)' = RowsOf(k)
  <2>1. UNCHANGED <<live, keyOf, rows>> /\ (NoFault \/ Fault("refused"))
    BY <1>3 DEF PlainCall
  <2> QED BY <1>2, <2>1, LookupEffect DEF FaultKinds
<1>5. /\ call' \in [Calls -> CallType]
      /\ \A d \in Calls \ {c} : call'[d] = call[d]
      /\ \/ call'[c] = Idle
         \/ /\ call'[c].at = "purge" /\ call'[c].k = k /\ call'[c].op = "enroll"
            /\ call'[c].listed = LiveOf(k)
  <2>1. CASE res = "ok"
    <3> DEFINE r == [call[c] EXCEPT !.at = "purge", !.listed = LiveOf(k)]
    <3>1. r \in CallType
      BY <1>2 DEF CallType, Enrolling, LiveOf, EnrolledTypes
    <3>2. call' = [call EXCEPT ![c] = r]
      BY <1>2, <1>3, <2>1 DEF EnrolledTypes
    <3>3. r.at = "purge" /\ r.k = k /\ r.op = "enroll" /\ r.listed = LiveOf(k)
      BY <1>2 DEF CallType, CallInv, CallKnows, ListByExternalID, Enrolling
    <3> HIDE DEF r
    <3> QED BY <1>2, <3>1, <3>2, <3>3, CallBecomes
  <2>2. CASE res # "ok"
    BY <1>2, <1>3, <2>2, CallEnds
  <2> QED BY <2>1, <2>2
<1>6. /\ call'[c].at \notin Making
      /\ call'[c].k = k \/ call'[c] = Idle
  BY <1>2, <1>5 DEF Idle, Making, CallType
<1>7. OwnStep(c, k)
  BY <1>2, <1>4, <1>5, <1>6, StepIsOwn DEF ListByExternalID
<1>8. CallInv(c)'
  <2>1. CASE call'[c] = Idle
    BY <2>1, FailedCall
  <2>2. CASE call'[c] # Idle
    <3>1. CallKnows(c)'
      BY <1>2, <1>4, <1>5, <2>2 DEF CallKnows, Enrolling, Deleting, Making, LiveOf
    <3> QED BY <1>5, <2>2, <3>1
        DEF CallInv, EnrollSound, DeleteSound, AnswerSound, CompleteSound, Succeeded
  <2> QED BY <1>5, <2>1, <2>2
<1>9. KeyInv(k)'
  BY <1>1, <1>4, <1>7, KeyKept
<1> QED BY <1>1, <1>2, <1>7, <1>8, <1>9, OwnStepSuffices

\* Only identities of the own key are deleted.
LEMMA DeleteListedStep ==
    ASSUME EnrolledInv, NEW c \in Calls, NEW k \in Keys, call[c].k = k,
           DeleteListed(c)
    PROVE  EnrolledInv'
<1>1. Running(c) /\ call[c].at \notin Making
  BY DEF DeleteListed, Running, Final, Making
<1>2. EnrolledTypes /\ call[c] \in CallType /\ k \in Keys /\ CallInv(c)
  BY <1>1, RunningCall
<1>3. PICK z \in call[c].listed, res \in Results :
        /\ ZitiDelete(z, res)
        /\ IF res = "error"
           THEN Fail(c)
           ELSE call' = [call EXCEPT ![c].listed = @ \ {z}]
  BY DEF DeleteListed
<1>4. /\ StoreStep(k) /\ UNCHANGED <<keyOf, rows>>
      /\ LiveOf(k)' \subseteq LiveOf(k) /\ RowsOf(k)' = RowsOf(k)
  <2>1. z \in Zids /\ keyOf[z] = k
    BY <1>2 DEF CallType, CallInv, CallKnows
  <2> QED BY <1>2, <1>3, <2>1, ZitiDeleteEffect
<1>5. /\ call' \in [Calls -> CallType]
      /\ \A d \in Calls \ {c} : call'[d] = call[d]
      /\ \/ call'[c] = Idle
         \/ call'[c] = [call[c] EXCEPT !.listed = call[c].listed \ {z}]
  <2>1. CASE res # "error"
    <3> DEFINE r == [call[c] EXCEPT !.listed = call[c].listed \ {z}]
    <3>1. r \in CallType
      BY <1>2 DEF CallType
    <3>2. call' = [call EXCEPT ![c] = r]
      BY <1>2, <1>3, <2>1 DEF EnrolledTypes
    <3> QED BY <1>2, <3>1, <3>2, CallBecomes
  <2>2. CASE res = "error"
    BY <1>2, <1>3, <2>2, CallEnds
  <2> QED BY <2>1, <2>2
<1>6. /\ call'[c].at \notin Making
      /\ call'[c].k = k \/ call'[c] = Idle
  BY <1>1, <1>2, <1>5 DEF Idle, Making, CallType
<1>7. OwnStep(c, k)
  BY <1>2, <1>4, <1>5, <1>6, StepIsOwn DEF DeleteListed
<1>8. CallInv(c)'
  <2>1. CASE call'[c] = Idle
    BY <2>1, FailedCall
  <2>2. CASE call'[c] = [call[c] EXCEPT !.listed = call[c].listed \ {z}]
    <3>1. /\ call'[c].at = "purge" /\ call'[c].k = k /\ call'[c].op = "enroll"
          /\ call'[c].listed = call[c].listed \ {z}
      BY <1>2, <2>2 DEF CallType, CallInv, CallKnows, DeleteListed, Enrolling
    <3>2. CallKnows(c)'
      BY <1>2, <1>4, <3>1 DEF CallInv, CallKnows, Enrolling, Deleting, Making
    <3> QED BY <3>1, <3>2
        DEF CallInv, EnrollSound, DeleteSound, AnswerSound, CompleteSound, Succeeded
  <2> QED BY <1>5, <2>1, <2>2
<1>9. KeyInv(k)'
  BY <1>1, <1>4, <1>7, KeyKept
<1> QED BY <1>1, <1>2, <1>7, <1>8, <1>9, OwnStepSuffices

\* The controller lets only one identity have the key, so a new one is the only one.
LEMMA CreateStep ==
    ASSUME EnrolledInv, NEW c \in Calls, NEW k \in Keys, call[c].k = k,
           CreateIdentity(c)
    PROVE  EnrolledInv'
<1>1. Running(c) /\ call[c].at \notin Making
  BY DEF CreateIdentity, Running, Final, Making
<1>2. EnrolledTypes /\ call[c] \in CallType /\ k \in Keys /\ CallInv(c)
  BY <1>1, RunningCall
<1>3. PICK z \in Fresh, res \in Results :
        /\ ZitiCreate(z, k, res)
        /\ IF res = "ok"
           THEN call' = [call EXCEPT ![c].at = "enroll", ![c].z = z]
           ELSE Fail(c)
  BY DEF CreateIdentity
<1>4. /\ z \in Zids /\ z \notin live /\ z \notin rows
      /\ \A d \in Calls : call[d].z # z /\ z \notin call[d].listed
  <2>1. z \in Zids \ (live \cup rows \cup {call[d].z : d \in Calls}
                         \cup UNION {call[d].listed : d \in Calls})
    BY AssignedIsUnused DEF Fresh
  <2> QED BY <2>1
<1>5. /\ rows' = rows
      /\ \A y \in Zids \ {z} : keyOf'[y] = keyOf[y]
      /\ keyOf' \in [Zids -> Keys \cup {None}]
      /\ \/ live' = live /\ keyOf' = keyOf
         \/ live' = live \cup {z} /\ keyOf'[z] = k
  BY <1>2, <1>3, <1>4 DEF ZitiCreate, EnrolledTypes
<1>6. /\ \A j \in Keys \ {k} : LiveOf(j)' = LiveOf(j) /\ RowsOf(j)' = RowsOf(j)
      /\ RowsOf(k)' = RowsOf(k)
      /\ live' = live /\ keyOf' = keyOf => LiveOf(k)' = LiveOf(k)
      /\ live' = live \cup {z} /\ keyOf'[z] = k => LiveOf(k)' = LiveOf(k) \cup {z}
  BY <1>2, <1>4, <1>5 DEF LiveOf, RowsOf, EnrolledTypes
<1>7. /\ faults' \in [FaultKinds -> Nat] /\ (Few' => Few) /\ (Troubled => Troubled')
      /\ Fault("lost") => ~Few'
  <2>1. NoFault \/ Fault("refused") \/ Fault("lost")
    BY <1>3 DEF ZitiCreate
  <2> QED BY <1>2, <2>1, Faulty DEF FaultKinds
<1>8. /\ res = "ok" => LiveOf(k)' = {z} /\ keyOf'[z] = k
      /\ res # "ok" /\ Few' => LiveOf(k)' = LiveOf(k)
  BY <1>2, <1>3, <1>4, <1>6, <1>7 DEF ZitiCreate, EnrolledTypes
<1>9. /\ call' \in [Calls -> CallType]
      /\ \A d \in Calls \ {c} : call'[d] = call[d]
      /\ \/ res # "ok" /\ call'[c] = Idle
         \/ res = "ok" /\ call'[c] = [call[c] EXCEPT !.at = "enroll", !.z = z]
  <2>1. CASE res = "ok"
    <3> DEFINE r == [call[c] EXCEPT !.at = "enroll", !.z = z]
    <3>1. r \in CallType
      BY <1>2, <1>4 DEF CallType, Enrolling, Making
    <3>2. call' = [call EXCEPT ![c] = r]
      BY <1>2, <1>3, <2>1 DEF EnrolledTypes
    <3> QED BY <1>2, <2>1, <3>1, <3>2, CallBecomes
  <2>2. CASE res # "ok"
    BY <1>2, <1>3, <2>2, CallEnds
  <2> QED BY <2>1, <2>2
<1>10. OwnStep(c, k)
  <2>1. StoreStep(k)
    BY <1>2, <1>4, <1>5, <1>6, <1>7 DEF StoreStep, EnrolledTypes
  <2>2. call'[c].k = k \/ call'[c] = Idle
    BY <1>2, <1>9 DEF CallType
  <2>3. \A d \in Calls \ {c} :
          /\ call[d].z \in Zids => keyOf'[call[d].z] = keyOf[call[d].z]
          /\ \A y \in call[d].listed : keyOf'[y] = keyOf[y]
    BY <1>2, <1>4, <1>5 DEF EnrolledTypes, CallType
  <2> QED BY <1>9, <2>1, <2>2, <2>3 DEF OwnStep, CreateIdentity, Local
<1>11. CallInv(c)'
  <2>1. CASE res # "ok"
    BY <1>9, <2>1, FailedCall
  <2>2. CASE res = "ok"
    <3>1. /\ call'[c].at = "enroll" /\ call'[c].k = k /\ call'[c].op = "enroll"
          /\ call'[c].z = z /\ call'[c].listed = {}
      BY <1>2, <1>9, <2>2 DEF CallType, CallInv, CallKnows, CreateIdentity, Enrolling
    <3>2. CallKnows(c)'
      BY <1>2, <1>4, <1>8, <2>2, <3>1 DEF CallKnows, Enrolling, Deleting, Making
    <3>3. EnrollSound(c)'
      BY <1>8, <2>2, <3>1 DEF EnrollSound
    <3> QED BY <3>1, <3>2, <3>3
        DEF CallInv, DeleteSound, AnswerSound, CompleteSound, Succeeded
  <2> QED BY <2>1, <2>2
<1>12. KeyInv(k)'
  <2>1. raced' = raced
    BY <1>10 DEF OwnStep
  <2>2. res = "ok" => call'[c].k = k /\ call'[c].at \in Making
    BY <1>2, <1>9 DEF CallType, Making
  <2> QED BY <1>1, <1>2, <1>6, <1>7, <1>8, <2>1, <2>2, QuietKey, KeyStays
<1> QED BY <1>1, <1>2, <1>10, <1>11, <1>12, OwnStepSuffices

\* An enrollment that nobody disturbs fails only when a call was refused.
LEMMA EnrollStep ==
    ASSUME EnrolledInv, NEW c \in Calls, NEW k \in Keys, call[c].k = k,
           EnrollIdentity(c)
    PROVE  EnrolledInv'
<1> DEFINE z == call[c].z
<1>1. Running(c) /\ call[c].at = "enroll"
  BY DEF EnrollIdentity, Running, Final
<1>2. EnrolledTypes /\ call[c] \in CallType /\ CallInv(c) /\ KeyInv(k)
  BY <1>1, RunningCall
<1>3. PICK res \in Results :
        ZitiEnroll(z, res) /\ Goto(c, IF res = "ok" THEN "forget" ELSE "undo")
  BY DEF EnrollIdentity
<1>4. /\ StoreStep(k) /\ UNCHANGED <<live, keyOf, rows>>
      /\ LiveOf(k)' = LiveOf(k) /\ RowsOf(k)' = RowsOf(k)
      /\ Fault("refused") => Troubled'
  <2>1. UNCHANGED <<live, keyOf, rows>> /\ (NoFault \/ Fault("refused"))
    BY <1>3 DEF ZitiEnroll
  <2> QED BY <1>2, <2>1, LookupEffect DEF FaultKinds
<1>5. /\ call' \in [Calls -> CallType]
      /\ \A d \in Calls \ {c} : call'[d] = call[d]
      /\ call'[c].at = IF res = "ok" THEN "forget" ELSE "undo"
      /\ call'[c].op = "enroll" /\ call'[c].k = k
      /\ call'[c].z = z /\ call'[c].listed = call[c].listed
  <2>1. (IF res = "ok" THEN "forget" ELSE "undo") \in Final \cup Enrolling \cup Deleting
    BY DEF Enrolling, Making
  <2>2. call[c].op = "enroll"
    BY <1>1, <1>2 DEF CallInv, CallKnows, Enrolling, Making
  <2> QED BY <1>2, <1>3, <2>1, <2>2, CallMoves
<1>6. OwnStep(c, k)
  BY <1>2, <1>4, <1>5, StepIsOwn DEF EnrollIdentity
<1>7. k \notin raced => LiveOf(k) = {z}
  BY <1>1, <1>2 DEF CallInv, EnrollSound
<1>8. c \in alone => LiveOf(k) = {z}
  BY <1>1, <1>2 DEF CallInv, EnrollSound
<1>9. k \notin raced /\ res # "ok" => Troubled'
  BY <1>3, <1>4, <1>7 DEF ZitiEnroll, LiveOf
<1>10. UNCHANGED <<alone, raced>>
  BY <1>6 DEF OwnStep
<1>11. CallInv(c)'
  <2>1. CallKnows(c)'
    BY <1>1, <1>2, <1>4, <1>5 DEF CallInv, CallKnows, Enrolling, Deleting, Making
  <2>2. EnrollSound(c)' /\ DeleteSound(c)' /\ AnswerSound(c)'
    BY <1>4, <1>5, <1>7, <1>8, <1>10 DEF EnrollSound, DeleteSound, AnswerSound, Succeeded
  <2>3. CompleteSound(c)'
    BY <1>4, <1>5, <1>7, <1>9, <1>10 DEF CompleteSound, Succeeded
  <2> QED BY <2>1, <2>2, <2>3 DEF CallInv
<1>12. KeyInv(k)'
  <2>1. k \notin raced => \A x, y \in RowsOf(k)' : x = y
    BY <1>2, <1>4 DEF KeyInv
  <2>2. call'[c].at \in Making
    BY <1>5 DEF Making
  <2> QED BY <1>5, <1>10, <2>1, <2>2 DEF KeyInv
<1> QED BY <1>1, <1>6, <1>11, <1>12, OwnStepSuffices

\* Every row of the key is gone, or the enrollment is undone.
LEMMA ForgetStep ==
    ASSUME EnrolledInv, NEW c \in Calls, NEW k \in Keys, call[c].k = k,
           ForgetRows(c)
    PROVE  EnrolledInv'
<1> DEFINE z == call[c].z
<1>1. Running(c) /\ call[c].at = "forget"
  BY DEF ForgetRows, Running, Final
<1>2. EnrolledTypes /\ call[c] \in CallType /\ CallInv(c) /\ KeyInv(k)
  BY <1>1, RunningCall
<1>3. PICK res \in Results :
        RowsDelete(k, res) /\ Goto(c, IF res = "ok" THEN "insert" ELSE "undo")
  BY DEF ForgetRows
<1>4. /\ StoreStep(k) /\ UNCHANGED <<live, keyOf>>
      /\ LiveOf(k)' = LiveOf(k)
      /\ RowsOf(k)' = RowsOf(k) \/ RowsOf(k)' = {}
      /\ res = "ok" => RowsOf(k)' = {}
      /\ res # "ok" => Troubled'
  BY <1>2, <1>3, RowsDeleteEffect
<1>5. /\ call' \in [Calls -> CallType]
      /\ \A d \in Calls \ {c} : call'[d] = call[d]
      /\ call'[c].at = IF res = "ok" THEN "insert" ELSE "undo"
      /\ call'[c].op = "enroll" /\ call'[c].k = k
      /\ call'[c].z = z /\ call'[c].listed = call[c].listed
  <2>1. (IF res = "ok" THEN "insert" ELSE "undo") \in Final \cup Enrolling \cup Deleting
    BY DEF Enrolling, Making
  <2>2. call[c].op = "enroll"
    BY <1>1, <1>2 DEF CallInv, CallKnows, Enrolling, Making
  <2> QED BY <1>2, <1>3, <2>1, <2>2, CallMoves
<1>6. OwnStep(c, k)
  BY <1>2, <1>4, <1>5, StepIsOwn DEF ForgetRows
<1>7. /\ k \notin raced => LiveOf(k) = {z}
      /\ c \in alone => LiveOf(k) = {z}
  BY <1>1, <1>2 DEF CallInv, EnrollSound
<1>8. UNCHANGED <<alone, raced>>
  BY <1>6 DEF OwnStep
<1>9. CallInv(c)'
  <2>1. CallKnows(c)'
    BY <1>1, <1>2, <1>4, <1>5 DEF CallInv, CallKnows, Enrolling, Deleting, Making
  <2>2. EnrollSound(c)' /\ DeleteSound(c)' /\ AnswerSound(c)'
    BY <1>4, <1>5, <1>7, <1>8 DEF EnrollSound, DeleteSound, AnswerSound, Succeeded
  <2>3. CompleteSound(c)'
    BY <1>4, <1>5, <1>7, <1>8 DEF CompleteSound, Succeeded
  <2> QED BY <2>1, <2>2, <2>3 DEF CallInv
<1>10. KeyInv(k)'
  <2>1. k \notin raced => \A x, y \in RowsOf(k)' : x = y
    BY <1>2, <1>4 DEF KeyInv
  <2>2. call'[c].at \in Making
    BY <1>5 DEF Making
  <2> QED BY <1>5, <1>8, <2>1, <2>2 DEF KeyInv
<1> QED BY <1>1, <1>6, <1>9, <1>10, OwnStepSuffices

\* The row of the new identity becomes the only one.
LEMMA InsertStep ==
    ASSUME EnrolledInv, NEW c \in Calls, NEW k \in Keys, call[c].k = k,
           InsertManagedIdentity(c)
    PROVE  EnrolledInv'
<1> DEFINE z == call[c].z
<1>1. Running(c) /\ call[c].at = "insert"
  BY DEF InsertManagedIdentity, Running, Final
<1>2. EnrolledTypes /\ call[c] \in CallType /\ CallInv(c) /\ KeyInv(k)
  BY <1>1, RunningCall
<1>3. PICK res \in {"ok", "error"} :
        RowInsert(z, res) /\ Goto(c, IF res = "ok" THEN "ok" ELSE "undo")
  BY DEF InsertManagedIdentity
<1>4. /\ StoreStep(k) /\ UNCHANGED <<live, keyOf>>
      /\ LiveOf(k)' = LiveOf(k)
      /\ RowsOf(k)' = RowsOf(k) \/ RowsOf(k)' = RowsOf(k) \cup {z}
      /\ res = "ok" => RowsOf(k)' = RowsOf(k) \cup {z}
      /\ res = "error" => Troubled'
  <2>1. z \in Zids /\ keyOf[z] = k /\ res \in Results
    BY <1>1, <1>2 DEF CallInv, CallKnows, Making, Results
  <2> QED BY <1>2, <1>3, <2>1, RowInsertEffect
<1>5. /\ call' \in [Calls -> CallType]
      /\ \A d \in Calls \ {c} : call'[d] = call[d]
      /\ call'[c].at = IF res = "ok" THEN "ok" ELSE "undo"
      /\ call'[c].op = "enroll" /\ call'[c].k = k
      /\ call'[c].z = z /\ call'[c].listed = call[c].listed
  <2>1. (IF res = "ok" THEN "ok" ELSE "undo") \in Final \cup Enrolling \cup Deleting
    BY DEF Enrolling, Making, Final
  <2>2. call[c].op = "enroll"
    BY <1>1, <1>2 DEF CallInv, CallKnows, Enrolling, Making
  <2> QED BY <1>2, <1>3, <2>1, <2>2, CallMoves
<1>6. OwnStep(c, k)
  BY <1>2, <1>4, <1>5, StepIsOwn DEF InsertManagedIdentity
<1>7. /\ k \notin raced => LiveOf(k) = {z} /\ RowsOf(k) = {}
      /\ c \in alone => LiveOf(k) = {z} /\ RowsOf(k) = {}
  BY <1>1, <1>2 DEF CallInv, EnrollSound
<1>8. UNCHANGED <<alone, raced>>
  BY <1>6 DEF OwnStep
<1>9. CallInv(c)'
  <2>1. CallKnows(c)'
    BY <1>1, <1>2, <1>4, <1>5 DEF CallInv, CallKnows, Enrolling, Deleting, Making
  <2>2. EnrollSound(c)' /\ DeleteSound(c)' /\ AnswerSound(c)'
    BY <1>4, <1>5, <1>7, <1>8 DEF EnrollSound, DeleteSound, AnswerSound, Succeeded
  <2>3. CompleteSound(c)'
    BY <1>4, <1>5, <1>7, <1>8 DEF CompleteSound, Succeeded
  <2> QED BY <2>1, <2>2, <2>3 DEF CallInv
<1>10. KeyInv(k)'
  <2>1. k \notin raced => RowsOf(k)' \subseteq {z}
    BY <1>4, <1>7
  <2>2. k \notin raced => \A x, y \in RowsOf(k)' : x = y
    BY <2>1
  <2>3. CASE res = "ok"
    <3>1. k \notin raced => LiveOf(k)' \subseteq RowsOf(k)'
      BY <1>4, <1>7, <2>3
    <3> QED BY <1>8, <2>2, <3>1 DEF KeyInv
  <2>4. CASE res # "ok"
    <3>1. call'[c].at \in Making
      BY <1>5, <2>4 DEF Making
    <3> QED BY <1>5, <1>8, <2>2, <3>1 DEF KeyInv
  <2> QED BY <2>3, <2>4
<1> QED BY <1>1, <1>6, <1>9, <1>10, OwnStepSuffices

\* One refused call was needed to get here, so with few faults the identity is undone.
LEMMA CleanupStep ==
    ASSUME EnrolledInv, NEW c \in Calls, NEW k \in Keys, call[c].k = k,
           CleanupZitiIdentity(c)
    PROVE  EnrolledInv'
<1> DEFINE z == call[c].z
<1>1. Running(c) /\ call[c].at = "undo"
  BY DEF CleanupZitiIdentity, Running, Final
<1>2. EnrolledTypes /\ call[c] \in CallType /\ CallInv(c) /\ KeyInv(k)
  BY <1>1, RunningCall
<1>3. PICK res \in Results : ZitiDelete(z, res)
  BY DEF CleanupZitiIdentity
<1>4. /\ StoreStep(k) /\ UNCHANGED <<keyOf, rows>>
      /\ RowsOf(k)' = RowsOf(k)
      /\ res # "error" => LiveOf(k)' = LiveOf(k) \ {z}
      /\ res = "error" => (Troubled => ~Few')
  <2>1. z \in Zids /\ keyOf[z] = k
    BY <1>1, <1>2 DEF CallInv, CallKnows, Making
  <2> QED BY <1>2, <1>3, <2>1, ZitiDeleteEffect
<1>5. /\ call' \in [Calls -> CallType]
      /\ \A d \in Calls \ {c} : call'[d] = call[d]
      /\ call'[c] = Idle
  BY <1>2, CallEnds DEF CleanupZitiIdentity
<1>6. OwnStep(c, k)
  BY <1>2, <1>4, <1>5, StepIsOwn DEF CleanupZitiIdentity
<1>7. k \notin raced => Troubled /\ LiveOf(k) \subseteq {z}
  BY <1>1, <1>2 DEF CallInv, CompleteSound
<1>8. CallInv(c)'
  BY <1>5, FailedCall
<1>9. KeyInv(k)'
  <2>1. k \notin raced /\ Few' => LiveOf(k)' = {}
    BY <1>4, <1>7
  <2>2. k \notin raced => \A x, y \in RowsOf(k)' : x = y
    BY <1>2, <1>4 DEF KeyInv
  <2>3. raced' = raced
    BY <1>6 DEF OwnStep
  <2> QED BY <2>1, <2>2, <2>3 DEF KeyInv
<1> QED BY <1>1, <1>6, <1>8, <1>9, OwnStepSuffices

---------------------------------------------------------------------------
(* The steps of a deletion                                                 *)

\* A deletion goes on with the only row of the key, or with none.
LEMMA ResolveStep ==
    ASSUME EnrolledInv, NEW c \in Calls, NEW k \in Keys, call[c].k = k,
           ResolveByIdentityID(c)
    PROVE  EnrolledInv'
<1>1. Running(c) /\ call[c].at = "resolve" /\ call[c].at \notin Making
  BY DEF ResolveByIdentityID, Running, Final, Making
<1>2. EnrolledTypes /\ call[c] \in CallType /\ CallInv(c)
  BY <1>1, RunningCall
<1>3. call[c].op = "delete" /\ \A z \in call[c].listed : keyOf[z] = k
  BY <1>1, <1>2 DEF CallInv, CallKnows, Deleting
<1>4. /\ StoreStep(k) /\ UNCHANGED <<live, keyOf, rows>>
      /\ LiveOf(k)' = LiveOf(k) /\ RowsOf(k)' = RowsOf(k)
  <2>1. UNCHANGED <<live, keyOf, rows>> /\ (NoFault \/ Fault("refused"))
    BY DEF ResolveByIdentityID, PlainCall
  <2> QED BY <1>2, <2>1, LookupEffect DEF FaultKinds
<1>5. /\ call' \in [Calls -> CallType]
      /\ \A d \in Calls \ {c} : call'[d] = call[d]
      /\ \/ call'[c] = Idle
         \/ /\ call'[c].op = "delete" /\ call'[c].k = k
            /\ call'[c].listed = call[c].listed
            /\ \/ /\ call'[c].at = "rowdel"
                  /\ call'[c].z \in RowsOf(k)
               \/ call'[c].at = "svcdel" /\ k \in apps /\ RowsOf(k) = {}
  <2>1. CASE \E z \in RowsOf(k) : call' = [call EXCEPT ![c].at = "rowdel", ![c].z = z]
    <3>1. PICK z \in RowsOf(k) : call' = [call EXCEPT ![c].at = "rowdel", ![c].z = z]
      BY <2>1
    <3> DEFINE r == [call[c] EXCEPT !.at = "rowdel", !.z = z]
    <3>2. z \in Zids
      BY <1>2 DEF RowsOf, EnrolledTypes
    <3>3. r \in CallType
      BY <1>2, <3>2 DEF CallType, Deleting
    <3>4. call' = [call EXCEPT ![c] = r]
      BY <1>2, <3>1 DEF EnrolledTypes
    <3>5. /\ r.op = "delete" /\ r.k = k /\ r.listed = call[c].listed
          /\ r.at = "rowdel" /\ r.z = z
      BY <1>2, <1>3 DEF CallType
    <3> HIDE DEF r
    <3> QED BY <1>2, <3>3, <3>4, <3>5, CallBecomes
  <2>2. CASE RowsOf(k) = {} /\ k \in apps /\ Goto(c, "svcdel")
    <3>1. "svcdel" \in Final \cup Enrolling \cup Deleting
      BY DEF Deleting
    <3> QED BY <1>2, <1>3, <2>2, <3>1, CallMoves
  <2>3. CASE Fail(c)
    BY <1>2, <2>3, CallEnds
  <2> QED BY <2>1, <2>2, <2>3 DEF ResolveByIdentityID
<1>6. OwnStep(c, k)
  BY <1>2, <1>4, <1>5, StepIsOwn DEF ResolveByIdentityID
<1>7. k \notin raced => /\ \A x, y \in RowsOf(k) : x = y
                        /\ Few => RowsOf(k) = {} \/ LiveOf(k) \subseteq RowsOf(k)
  BY <1>1, QuietKey
<1>8. UNCHANGED <<alone, raced, apps>> /\ (Few' => Few)
  BY <1>6 DEF OwnStep, StoreStep
<1>9. CallInv(c)'
  <2>1. CASE call'[c] = Idle
    BY <2>1, FailedCall
  <2>2. CASE call'[c].at = "rowdel" /\ call'[c] # Idle
    <3>1. call'[c].z \in Zids /\ keyOf'[call'[c].z] = k
      BY <1>2, <1>4, <1>5, <2>2 DEF RowsOf, EnrolledTypes
    <3>2. CallKnows(c)'
      BY <1>3, <1>4, <1>5, <2>2, <3>1 DEF CallKnows, Enrolling, Deleting, Making
    <3>3. k \notin raced => RowsOf(k)' \subseteq {call'[c].z}
      BY <1>4, <1>5, <1>7, <2>2
    <3>4. k \notin raced /\ Few' => LiveOf(k)' \subseteq {call'[c].z}
      BY <1>4, <1>5, <1>7, <1>8, <2>2, <3>3
    <3>5. EnrollSound(c)' /\ AnswerSound(c)' /\ DeleteSound(c)'
      BY <1>5, <1>8, <2>2, <3>3 DEF EnrollSound, AnswerSound, DeleteSound, Succeeded
    <3>6. CompleteSound(c)'
      BY <1>5, <1>8, <2>2, <3>4 DEF CompleteSound, Succeeded
    <3> QED BY <3>2, <3>5, <3>6 DEF CallInv
  <2>3. CASE call'[c].at = "svcdel" /\ call'[c] # Idle
    <3>1. CallKnows(c)'
      BY <1>3, <1>4, <1>5, <2>3 DEF CallKnows, Enrolling, Deleting, Making
    <3>2. EnrollSound(c)' /\ AnswerSound(c)' /\ DeleteSound(c)'
      BY <1>4, <1>5, <2>3 DEF EnrollSound, AnswerSound, DeleteSound, Succeeded
    <3>3. CompleteSound(c)'
      BY <1>5, <1>8, <2>3 DEF CompleteSound, Succeeded
    <3> QED BY <3>1, <3>2, <3>3 DEF CallInv
  <2> QED BY <1>5, <2>1, <2>2, <2>3
<1>10. KeyInv(k)'
  BY <1>1, <1>4, <1>6, KeyKept
<1> QED BY <1>1, <1>6, <1>9, <1>10, OwnStepSuffices

\* With the row of the key gone only the identity it was about is left.
LEMMA DeleteRowStep ==
    ASSUME EnrolledInv, NEW c \in Calls, NEW k \in Keys, call[c].k = k,
           DeleteManagedIdentity(c)
    PROVE  EnrolledInv'
<1> DEFINE z == call[c].z
<1>1. Running(c) /\ call[c].at = "rowdel" /\ call[c].at \notin Making
  BY DEF DeleteManagedIdentity, Running, Final, Making
<1>2. EnrolledTypes /\ call[c] \in CallType /\ CallInv(c)
  BY <1>1, RunningCall
<1>3. /\ call[c].op = "delete" /\ z \in Zids /\ keyOf[z] = k
      /\ \A y \in call[c].listed : keyOf[y] = k
  BY <1>1, <1>2 DEF CallInv, CallKnows, Deleting
<1>4. PICK res \in Results :
        /\ RowDelete(z, res)
        /\ \/ res # "error" /\ Goto(c, "zitidel")
           \/ Fail(c)
  BY DEF DeleteManagedIdentity, Results
<1>5. /\ StoreStep(k) /\ UNCHANGED <<keyOf, live>>
      /\ RowsOf(k)' \subseteq RowsOf(k)
      /\ LiveOf(k)' = LiveOf(k)
      /\ res # "error" => RowsOf(k)' = RowsOf(k) \ {z}
      /\ res = "error" /\ Few' => RowsOf(k)' = RowsOf(k)
  BY <1>2, <1>3, <1>4, RowDeleteEffect
<1>6. /\ call' \in [Calls -> CallType]
      /\ \A d \in Calls \ {c} : call'[d] = call[d]
      /\ \/ call'[c] = Idle
         \/ /\ res # "error" /\ call'[c].at = "zitidel" /\ call'[c].op = "delete"
            /\ call'[c].k = k /\ call'[c].z = z /\ call'[c].listed = call[c].listed
  <2>1. "zitidel" \in Final \cup Enrolling \cup Deleting
    BY DEF Deleting
  <2> QED BY <1>2, <1>3, <1>4, <2>1, CallMoves, CallEnds
<1>7. OwnStep(c, k)
  BY <1>2, <1>5, <1>6, StepIsOwn DEF DeleteManagedIdentity
<1>8. k \notin raced => RowsOf(k) \subseteq {z} /\ (Few => LiveOf(k) \subseteq {z})
  BY <1>1, <1>2 DEF CallInv, DeleteSound, CompleteSound
<1>9. UNCHANGED <<alone, raced, apps>> /\ (Few' => Few)
  BY <1>7 DEF OwnStep, StoreStep
<1>10. k \notin raced /\ res # "error" => RowsOf(k)' = {}
  BY <1>5, <1>8
<1>11. CallInv(c)'
  <2>1. CASE call'[c] = Idle
    BY <2>1, FailedCall
  <2>2. CASE call'[c] # Idle
    <3>1. CallKnows(c)'
      BY <1>3, <1>5, <1>6, <2>2 DEF CallKnows, Enrolling, Deleting, Making
    <3>2. EnrollSound(c)' /\ AnswerSound(c)' /\ DeleteSound(c)'
      BY <1>6, <1>9, <1>10, <2>2 DEF EnrollSound, AnswerSound, DeleteSound, Succeeded
    <3>3. CompleteSound(c)'
      BY <1>5, <1>6, <1>8, <1>9, <2>2 DEF CompleteSound, Succeeded
    <3> QED BY <3>1, <3>2, <3>3 DEF CallInv
  <2> QED BY <2>1, <2>2
<1>12. KeyInv(k)'
  <2>1. k \notin raced => /\ \A x, y \in RowsOf(k) : x = y
                          /\ Few => RowsOf(k) = {} \/ LiveOf(k) \subseteq RowsOf(k)
    BY <1>1, QuietKey
  <2>2. k \notin raced => \A x, y \in RowsOf(k)' : x = y
    BY <1>5, <2>1
  <2>3. k \notin raced /\ Few' => RowsOf(k)' = {} \/ LiveOf(k)' \subseteq RowsOf(k)'
    BY <1>5, <1>9, <1>10, <2>1
  <2> QED BY <1>9, <2>2, <2>3 DEF KeyInv
<1> QED BY <1>1, <1>7, <1>11, <1>12, OwnStepSuffices

\* With the identity gone nothing of the key is left.
LEMMA DeleteZitiStep ==
    ASSUME EnrolledInv, NEW c \in Calls, NEW k \in Keys, call[c].k = k,
           DeleteZitiIdentity(c)
    PROVE  EnrolledInv'
<1> DEFINE z == call[c].z
<1>1. Running(c) /\ call[c].at = "zitidel" /\ call[c].at \notin Making
  BY DEF DeleteZitiIdentity, Running, Final, Making
<1>2. EnrolledTypes /\ call[c] \in CallType /\ CallInv(c)
  BY <1>1, RunningCall
<1>3. /\ call[c].op = "delete" /\ z \in Zids /\ keyOf[z] = k
      /\ \A y \in call[c].listed : keyOf[y] = k
  BY <1>1, <1>2 DEF CallInv, CallKnows, Deleting
<1>4. PICK res \in Results :
        /\ ZitiDelete(z, res)
        /\ \/ Fail(c)
           \/ res # "error" /\ Goto(c, "svcdel")
           \/ res # "error" /\ ~call[c].svc /\ Goto(c, "ok")
  BY <1>2 DEF DeleteZitiIdentity, CallType
<1>5. /\ StoreStep(k) /\ UNCHANGED <<keyOf, rows>>
      /\ LiveOf(k)' \subseteq LiveOf(k)
      /\ RowsOf(k)' = RowsOf(k)
      /\ res # "error" => LiveOf(k)' = LiveOf(k) \ {z}
  BY <1>2, <1>3, <1>4, ZitiDeleteEffect
<1>6. /\ call' \in [Calls -> CallType]
      /\ \A d \in Calls \ {c} : call'[d] = call[d]
      /\ \/ call'[c] = Idle
         \/ /\ res # "error" /\ call'[c].op = "delete" /\ call'[c].k = k
            /\ call'[c].listed = call[c].listed
            /\ call'[c].at = "svcdel" \/ (call'[c].at = "ok" /\ ~call'[c].svc)
  <2>1. /\ "svcdel" \in Final \cup Enrolling \cup Deleting
        /\ "ok" \in Final \cup Enrolling \cup Deleting
    BY DEF Deleting, Final
  <2>2. CASE Fail(c)
    BY <1>2, <2>2, CallEnds
  <2>3. CASE res # "error" /\ Goto(c, "svcdel")
    BY <1>2, <1>3, <2>1, <2>3, CallMoves
  <2>4. CASE res # "error" /\ ~call[c].svc /\ Goto(c, "ok")
    BY <1>2, <1>3, <2>1, <2>4, CallMoves
  <2> QED BY <1>4, <2>2, <2>3, <2>4
<1>7. OwnStep(c, k)
  BY <1>2, <1>5, <1>6, StepIsOwn DEF DeleteZitiIdentity
<1>8. k \notin raced => RowsOf(k) = {} /\ (Few => LiveOf(k) \subseteq {z})
  BY <1>1, <1>2 DEF CallInv, DeleteSound, CompleteSound
<1>9. UNCHANGED <<alone, raced, apps>> /\ (Few' => Few)
  BY <1>7 DEF OwnStep, StoreStep
<1>10. k \notin raced /\ res # "error" /\ Few' => LiveOf(k)' = {}
  BY <1>5, <1>8, <1>9
<1>11. CallInv(c)'
  <2>1. CASE call'[c] = Idle
    BY <2>1, FailedCall
  <2>2. CASE call'[c] # Idle
    <3>1. CallKnows(c)'
      BY <1>3, <1>5, <1>6, <2>2 DEF CallKnows, Enrolling, Deleting, Making
    <3>2. EnrollSound(c)' /\ DeleteSound(c)'
      BY <1>5, <1>6, <1>8, <1>9, <2>2 DEF EnrollSound, DeleteSound
    <3>3. AnswerSound(c)'
      BY <1>5, <1>6, <1>8, <1>9, <2>2 DEF AnswerSound, Succeeded
    <3>4. CompleteSound(c)'
      BY <1>6, <1>9, <1>10, <2>2 DEF CompleteSound, Succeeded
    <3> QED BY <3>1, <3>2, <3>3, <3>4 DEF CallInv
  <2> QED BY <2>1, <2>2
<1>12. KeyInv(k)'
  BY <1>1, <1>5, <1>7, KeyKept
<1> QED BY <1>1, <1>7, <1>11, <1>12, OwnStepSuffices

\* A deletion answers OK only when the service is gone.
LEMMA DeleteServiceStep ==
    ASSUME EnrolledInv, NEW c \in Calls, NEW k \in Keys, call[c].k = k,
           DeleteService(c)
    PROVE  EnrolledInv'
<1>1. Running(c) /\ call[c].at = "svcdel" /\ call[c].at \notin Making
  BY DEF DeleteService, Running, Final, Making
<1>2. EnrolledTypes /\ call[c] \in CallType /\ CallInv(c)
  BY <1>1, RunningCall
<1>3. call[c].op = "delete" /\ \A y \in call[c].listed : keyOf[y] = k
  BY <1>1, <1>2 DEF CallInv, CallKnows, Deleting
<1>4. /\ StoreStep(k) /\ UNCHANGED <<live, keyOf, rows>>
      /\ LiveOf(k)' = LiveOf(k) /\ RowsOf(k)' = RowsOf(k)
  <2>1. /\ UNCHANGED <<live, keyOf, rows>>
        /\ NoFault \/ Fault("refused") \/ Fault("lost")
    BY DEF DeleteService
  <2> QED BY <1>2, <2>1, LookupEffect DEF FaultKinds
<1>5. /\ call' \in [Calls -> CallType]
      /\ \A d \in Calls \ {c} : call'[d] = call[d]
      /\ services' = services \/ services' = services \ {k}
      /\ \/ call'[c] = Idle
         \/ /\ services' = services \ {k} /\ call'[c].op = "delete" /\ call'[c].at = "ok"
            /\ call'[c].k = k /\ call'[c].listed = call[c].listed
  <2>1. "ok" \in Final \cup Enrolling \cup Deleting
    BY DEF Final
  <2>2. CASE services' = services \ {k} /\ Goto(c, "ok")
    BY <1>2, <1>3, <2>1, <2>2, CallMoves
  <2>3. CASE Fail(c) /\ (services' = services \/ services' = services \ {k})
    BY <1>2, <2>3, CallEnds
  <2> QED BY <2>2, <2>3 DEF DeleteService
<1>6. OwnStep(c, k)
  BY <1>2, <1>4, <1>5 DEF OwnStep, DeleteService, Local
<1>7. k \notin raced => RowsOf(k) = {} /\ (Few /\ k \notin apps => LiveOf(k) = {})
  BY <1>1, <1>2 DEF CallInv, DeleteSound, CompleteSound
<1>8. UNCHANGED <<alone, raced, apps>> /\ (Few' => Few)
  BY <1>6 DEF OwnStep, StoreStep
<1>9. CallInv(c)'
  <2>1. CASE call'[c] = Idle
    BY <2>1, FailedCall
  <2>2. CASE call'[c] # Idle
    <3>1. CallKnows(c)'
      BY <1>3, <1>4, <1>5, <2>2 DEF CallKnows, Enrolling, Deleting, Making
    <3>2. EnrollSound(c)' /\ DeleteSound(c)' /\ AnswerSound(c)' /\ CompleteSound(c)'
      BY <1>4, <1>5, <1>7, <1>8, <2>2
      DEF EnrollSound, DeleteSound, AnswerSound, CompleteSound, Succeeded
    <3> QED BY <3>1, <3>2 DEF CallInv
  <2> QED BY <2>1, <2>2
<1>10. KeyInv(k)'
  BY <1>1, <1>4, <1>6, KeyKept
<1> QED BY <1>1, <1>6, <1>9, <1>10, OwnStepSuffices

---------------------------------------------------------------------------
(* The steps of the environment                                            *)

\* A call that is cut off is one of the faults that are no longer few.
LEMMA CancelStep ==
    ASSUME EnrolledInv, NEW c \in Calls, NEW k \in Keys, call[c].k = k,
           Cancel(c)
    PROVE  EnrolledInv'
<1>1. EnrolledTypes /\ call[c] \in CallType /\ Running(c) /\ KeyInv(k)
  BY RunningCall DEF Cancel
<1>2. /\ StoreStep(k) /\ UNCHANGED <<live, keyOf, rows>>
      /\ LiveOf(k)' = LiveOf(k) /\ RowsOf(k)' = RowsOf(k) /\ ~Few'
  <2>1. UNCHANGED <<live, keyOf, rows>> /\ Fault("stop")
    BY DEF Cancel
  <2> QED BY <1>1, <2>1, LookupEffect DEF FaultKinds
<1>3. /\ call' \in [Calls -> CallType]
      /\ \A d \in Calls \ {c} : call'[d] = call[d]
      /\ call'[c] = Idle
  BY <1>1, CallEnds DEF Cancel
<1>4. OwnStep(c, k)
  BY <1>1, <1>2, <1>3, StepIsOwn DEF Cancel
<1>5. CallInv(c)'
  BY <1>3, FailedCall
<1>6. KeyInv(k)'
  BY <1>1, <1>2, <1>4 DEF KeyInv, OwnStep
<1> QED BY <1>1, <1>4, <1>5, <1>6, OwnStepSuffices

\* So is a restart, which cuts off every call.
LEMMA RestartStep ==
    ASSUME EnrolledInv, Restart
    PROVE  EnrolledInv'
<1>1. EnrolledTypes
  BY DEF EnrolledInv
<1>2. /\ UNCHANGED <<live, keyOf, rows, services, apps, alone, raced>>
      /\ Fault("stop") /\ faults' \in [FaultKinds -> Nat] /\ ~Few'
      /\ Troubled => Troubled'
  BY <1>1, Faulty DEF Restart, Local, FaultKinds
<1>3. Idle \in CallType /\ Idle.at = "idle"
  BY DEF Idle, CallType, Final
<1>4. /\ call' \in [Calls -> CallType]
      /\ \A d \in Calls : call'[d] = Idle \/ (call'[d] = call[d] /\ ~Running(d))
  BY <1>1, <1>3 DEF Restart, EnrolledTypes
<1>5. \A d \in Calls : ~Running(d)'
  BY <1>3, <1>4 DEF Running, Final
<1>6. EnrolledTypes' /\ OverlapsKnown'
  BY <1>1, <1>2, <1>4, <1>5 DEF EnrolledTypes, OverlapsKnown
<1>7. \A k \in Keys : LiveOf(k)' = LiveOf(k) /\ RowsOf(k)' = RowsOf(k)
  BY <1>2 DEF LiveOf, RowsOf
<1>8. ASSUME NEW d \in Calls PROVE CallInv(d)'
  <2>1. CASE call'[d] = Idle
    BY <2>1, FailedCall
  <2>2. CASE call'[d] = call[d] /\ ~Running(d)
    <3>1. CallInv(d) /\ call[d].at \in Final
      BY <2>2 DEF EnrolledInv, Running
    <3>2. CallKnows(d)'
      BY <1>2, <2>2, <3>1 DEF CallInv, CallKnows
    <3>3. EnrollSound(d)' /\ DeleteSound(d)' /\ CompleteSound(d)'
      BY <1>2, <2>2, <3>1 DEF EnrollSound, DeleteSound, CompleteSound, Final
    <3>4. AnswerSound(d)'
      BY <1>2, <2>2, <3>1 DEF CallInv, AnswerSound, Succeeded, LiveOf, RowsOf
    <3> QED BY <3>2, <3>3, <3>4 DEF CallInv
  <2> QED BY <1>4, <2>1, <2>2
<1>9. ASSUME NEW k \in Keys PROVE KeyInv(k)'
  BY <1>2, <1>7 DEF EnrolledInv, KeyInv
<1> QED BY <1>6, <1>8, <1>9 DEF EnrolledInv

\* A call that begins claims nothing yet; the calls it overlaps or follows are no
\* longer alone.
LEMMA StartStep ==
    ASSUME EnrolledInv, NEW c \in Calls, NEW k \in Keys,
           NEW svc \in BOOLEAN, NEW op, NEW step,
           \/ op = "enroll" /\ step = "list"
           \/ op = "delete" /\ step = "resolve",
           Start(c, op, k, step, svc), UNCHANGED <<stores, services>>
    PROVE  EnrolledInv'
<1> DEFINE others == {d \in Calls \ {c} : call[d].k = k}
           overlap == \E d \in others : Running(d)
           r == [Idle EXCEPT !.op = op, !.at = step, !.k = k, !.svc = svc]
<1>1. EnrolledTypes
  BY DEF EnrolledInv
<1>2. /\ ~Running(c) /\ apps' = apps
      /\ call' = [call EXCEPT ![c] = r]
      /\ alone' = (alone \ (others \cup {c})) \cup (IF overlap THEN {} ELSE {c})
      /\ raced' = IF overlap THEN raced \cup {k} ELSE raced
  BY DEF Start
<1>3. UNCHANGED <<live, keyOf, rows, faults, services>>
  BY DEF stores
<1>4. /\ r \in CallType
      /\ r.op = op /\ r.at = step /\ r.k = k /\ r.listed = {}
  BY DEF Idle, CallType, Enrolling, Deleting
<1>5. /\ call' \in [Calls -> CallType]
      /\ \A d \in Calls \ {c} : call'[d] = call[d]
      /\ call'[c].op = op /\ call'[c].at = step /\ call'[c].k = k /\ call'[c].listed = {}
  <2> HIDE DEF r
  <2> QED BY <1>1, <1>2, <1>4, CallBecomes
<1>6. /\ \A d \in Calls \ {c} : d \in alone' => d \in alone /\ call[d].k # k
      /\ \A d \in Calls \ {c} : Running(d) /\ call[d].k = k => c \notin alone' /\ k \in raced'
      /\ raced \subseteq raced'
  BY <1>2
<1>7. \A d \in Calls \ {c} : Running(d)' <=> Running(d)
  BY <1>5 DEF Running
<1>8. EnrolledTypes'
  BY <1>1, <1>2, <1>3, <1>5 DEF EnrolledTypes
<1>9. OverlapsKnown'
  <2> SUFFICES ASSUME NEW x \in Calls, NEW y \in Calls \ {x}, Running(y)',
                      call'[y].k = call'[x].k
               PROVE  x \notin alone' /\ (Running(x)' => call'[x].k \in raced')
    BY DEF OverlapsKnown
  <2>1. CASE x = c
    BY <1>5, <1>6, <1>7, <2>1
  <2>2. CASE y = c
    BY <1>5, <1>6, <1>7, <2>2
  <2>3. CASE x # c /\ y # c
    BY <1>5, <1>6, <1>7, <2>3 DEF EnrolledInv, OverlapsKnown
  <2> QED BY <2>1, <2>2, <2>3
<1>10. /\ \A j \in Keys \cup {None} : LiveOf(j)' = LiveOf(j) /\ RowsOf(j)' = RowsOf(j)
       /\ (Few' <=> Few) /\ (Troubled' <=> Troubled)
  BY <1>3 DEF LiveOf, RowsOf, Few, Troubled
<1>11. CallInv(c)'
  <2>1. CallKnows(c)'
    BY <1>5 DEF CallKnows, Enrolling, Deleting, Making
  <2> QED BY <1>5, <2>1
      DEF CallInv, EnrollSound, DeleteSound, AnswerSound, CompleteSound, Succeeded
<1>12. ASSUME NEW d \in Calls \ {c} PROVE CallInv(d)'
  <2>1. /\ CallInv(d) /\ call'[d] = call[d] /\ (d \in alone' => d \in alone)
        /\ call[d].k \notin raced' => call[d].k \notin raced
    BY <1>5, <1>6 DEF EnrolledInv
  <2> DEFINE j == call[d].k
  <2>2. j \in Keys \cup {None}
    BY <1>1 DEF EnrolledTypes, CallType
  <2>3. PICK i \in Keys \cup {None} : i = j
    BY <2>2
  <2>4. LiveOf(i)' = LiveOf(i) /\ RowsOf(i)' = RowsOf(i) /\ call[d].k = i /\ call'[d].k = i
    BY <1>10, <2>1, <2>3
  <2> HIDE DEF j
  <2>5. CallKnows(d)'
    BY <1>3, <2>1 DEF CallInv, CallKnows
  <2>6. EnrollSound(d)' /\ DeleteSound(d)'
    BY <2>1, <2>4 DEF CallInv, EnrollSound, DeleteSound
  <2>7. AnswerSound(d)' /\ CompleteSound(d)'
    BY <1>2, <1>3, <1>10, <2>1, <2>4 DEF CallInv, AnswerSound, CompleteSound, Succeeded
  <2> QED BY <2>5, <2>6, <2>7 DEF CallInv
<1>13. ASSUME NEW j \in Keys PROVE KeyInv(j)'
  <2>1. call[c].at \notin Making
    BY <1>2 DEF Running, Making, Final
  <2>2. (\A d \in Calls : call'[d].k = j => call'[d].at \notin Making)
          => \A d \in Calls : call[d].k = j => call[d].at \notin Making
    BY <1>5, <2>1
  <2> QED BY <1>6, <1>10, <2>2 DEF EnrolledInv, KeyInv
<1> QED BY <1>8, <1>9, <1>11, <1>12, <1>13 DEF EnrolledInv

\* A step that changes none of what the invariant speaks of.
LEMMA IdleStep ==
    ASSUME EnrolledInv,
           UNCHANGED <<live, keyOf, rows, faults, call, services, apps, alone, raced>>
    PROVE  EnrolledInv'
<1>1. EnrolledTypes' /\ OverlapsKnown'
  BY DEF EnrolledInv, EnrolledTypes, OverlapsKnown, Running
<1>2. \A c \in Calls : CallInv(c)'
  BY DEF EnrolledInv, CallInv, CallKnows, EnrollSound, DeleteSound, AnswerSound,
         CompleteSound, Succeeded, LiveOf, RowsOf, Few, Troubled
<1>3. \A k \in Keys : KeyInv(k)'
  BY DEF EnrolledInv, KeyInv, LiveOf, RowsOf, Few
<1> QED BY <1>1, <1>2, <1>3 DEF EnrolledInv

---------------------------------------------------------------------------
(* The theorems                                                            *)

\* There are no identities, rows and running calls at first.
LEMMA EnrolledInit == Init => EnrolledInv
<1> SUFFICES ASSUME Init PROVE EnrolledInv
  OBVIOUS
<1>1. Idle \in CallType /\ Idle.at = "idle" /\ Idle.op = "none" /\ Idle.listed = {}
  BY DEF Idle, CallType, Final
<1>2. EnrolledTypes
  BY <1>1 DEF Init, StoresInit, FaultsInit, EnrolledTypes, FaultKinds
<1>3. OverlapsKnown
  BY <1>1 DEF Init, OverlapsKnown, Running, Final
<1>4. \A c \in Calls : CallInv(c)
  BY <1>1 DEF Init, CallInv, CallKnows, EnrollSound, DeleteSound, AnswerSound,
              CompleteSound, Succeeded, Enrolling, Deleting, Making
<1>5. \A k \in Keys : KeyInv(k)
  BY DEF Init, StoresInit, KeyInv, LiveOf, RowsOf
<1> QED BY <1>2, <1>3, <1>4, <1>5 DEF EnrolledInv

\* A handler's step, or its end, keeps the invariant.
LEMMA HandlerStep ==
    ASSUME EnrolledInv, NEW c \in Calls, Handler(c) \/ Cancel(c)
    PROVE  EnrolledInv'
<1>1. Running(c)
  BY DEF Handler, Running, Final, ListByExternalID, DeleteListed, CreateIdentity,
         EnrollIdentity, ForgetRows, InsertManagedIdentity, CleanupZitiIdentity,
         ResolveByIdentityID, DeleteManagedIdentity, DeleteZitiIdentity, DeleteService,
         Cancel
<1>2. PICK k \in Keys : call[c].k = k
  BY <1>1, RunningCall
<1>3. CASE ListByExternalID(c) BY <1>2, <1>3, ListStep
<1>4. CASE DeleteListed(c) BY <1>2, <1>4, DeleteListedStep
<1>5. CASE CreateIdentity(c) BY <1>2, <1>5, CreateStep
<1>6. CASE EnrollIdentity(c) BY <1>2, <1>6, EnrollStep
<1>7. CASE ForgetRows(c) BY <1>2, <1>7, ForgetStep
<1>8. CASE InsertManagedIdentity(c) BY <1>2, <1>8, InsertStep
<1>9. CASE CleanupZitiIdentity(c) BY <1>2, <1>9, CleanupStep
<1>10. CASE ResolveByIdentityID(c) BY <1>2, <1>10, ResolveStep
<1>11. CASE DeleteManagedIdentity(c) BY <1>2, <1>11, DeleteRowStep
<1>12. CASE DeleteZitiIdentity(c) BY <1>2, <1>12, DeleteZitiStep
<1>13. CASE DeleteService(c) BY <1>2, <1>13, DeleteServiceStep
<1>14. CASE Cancel(c) BY <1>2, <1>14, CancelStep
<1> QED BY <1>3, <1>4, <1>5, <1>6, <1>7, <1>8, <1>9, <1>10, <1>11, <1>12, <1>13, <1>14
        DEF Handler

\* The invariant holds in every reachable state, for any number of calls and faults.
THEOREM EnrolledCorrect == Spec => []EnrolledInv
<1>1. EnrolledInv /\ [Next]_vars => EnrolledInv'
  <2> SUFFICES ASSUME EnrolledInv, [Next]_vars PROVE EnrolledInv'
    OBVIOUS
  <2>1. ASSUME NEW c \in Calls, Handler(c) \/ Cancel(c) PROVE EnrolledInv'
    BY <2>1, HandlerStep
  <2>2. ASSUME NEW c \in Calls, NEW k \in Keys, StartEnroll(c, k) PROVE EnrolledInv'
    BY <2>2, StartStep DEF StartEnroll
  <2>3. ASSUME NEW c \in Calls, NEW k \in Keys, NEW svc \in BOOLEAN, StartDelete(c, k, svc)
        PROVE  EnrolledInv'
    BY <2>3, StartStep DEF StartDelete
  <2>4. ASSUME NEW k \in Keys, Want(k) PROVE EnrolledInv'
    BY <2>4, IdleStep DEF Want, Local, stores
  <2>5. CASE Restart
    BY <2>5, RestartStep
  <2>6. CASE UNCHANGED vars
    BY <2>6, IdleStep DEF vars, stores
  <2> QED BY <2>1, <2>2, <2>3, <2>4, <2>5, <2>6 DEF Next
<1> QED BY <1>1, EnrolledInit, PTL DEF Spec

\* A re-enrollment that answers OK has healed its key, if no other call on the key
\* interferes: CreateRunnerIdentity and CreateAppIdentity leave exactly what they made.
THEOREM HealsCorrect == Spec => []LoneEnrollHeals
<1>1. EnrolledInv => LoneEnrollHeals
  BY DEF EnrolledInv, EnrolledTypes, CallInv, AnswerSound, LoneEnrollHeals
<1> QED BY <1>1, EnrolledCorrect, PTL

\* The table, which has no unique index on identity_id, holds two rows of one runner or
\* app only after calls on it that overlapped.
THEOREM DuplicatesCorrect == Spec => []DuplicateRowsNeedRace
<1>1. EnrolledInv => DuplicateRowsNeedRace
  <2> SUFFICES ASSUME EnrolledInv, NEW k \in Keys, k \notin raced
               PROVE  ~(Cardinality(RowsOf(k)) > 1)
    BY DEF DuplicateRowsNeedRace
  <2>1. \A x, y \in RowsOf(k) : x = y
    BY DEF EnrolledInv, KeyInv
  <2>2. CASE RowsOf(k) = {}
    <3>1. Cardinality(RowsOf(k)) = 0
      BY <2>2, FS_EmptySet
    <3> QED BY <3>1
  <2>3. CASE RowsOf(k) # {}
    <3>1. PICK x : RowsOf(k) = {x}
      BY <2>1, <2>3
    <3>2. Cardinality(RowsOf(k)) = 1
      BY <3>1, FS_Singleton
    <3> QED BY <3>2
  <2> QED BY <2>2, <2>3
<1> QED BY <1>1, EnrolledCorrect, PTL

\* DeleteRunnerIdentity leaves nothing of the runner on either side when it answers OK,
\* if calls on the runner never overlapped and at most one call was ever refused.
THEOREM CompleteCorrect == Spec => []LoneDeleteIsComplete
<1>1. EnrolledInv => LoneDeleteIsComplete
  <2> SUFFICES ASSUME EnrolledInv, Few, NEW c \in alone, Succeeded(c, "delete"),
                      call[c].k \notin apps \cup raced
               PROVE  LiveOf(call[c].k) = {} /\ RowsOf(call[c].k) = {}
    BY DEF LoneDeleteIsComplete, Few
  <2>1. c \in Calls
    BY DEF EnrolledInv, EnrolledTypes
  <2> QED BY <2>1 DEF EnrolledInv, CallInv, AnswerSound, CompleteSound
<1> QED BY <1>1, EnrolledCorrect, PTL

\* A deletion that answers OK has forgotten the runner or app and the service it was
\* asked to delete, whatever failed before, if calls on the key never overlapped.
THEOREM ForgetsCorrect == Spec => []LoneDeleteForgets
<1>1. EnrolledInv => LoneDeleteForgets
  BY DEF EnrolledInv, EnrolledTypes, CallInv, AnswerSound, LoneDeleteForgets
<1> QED BY <1>1, EnrolledCorrect, PTL
=============================================================================
