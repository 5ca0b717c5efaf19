------------------------ MODULE TokenIdentityProofs ------------------------
(***************************************************************************)
(* Proofs about TokenIdentity, for every set of ids, owners and calls and  *)
(* every fault budget.                                                     *)
(***************************************************************************)
EXTENDS TokenIdentity, TLAPS

\* What anything refers to has been created once; a new id is none of these.
CreatedOnce ==
    /\ \A z \in handed \cup doomed \cup gone : tag[z] # None
    /\ \A c \in Calls : call[c].at \in {"jwt", "delete"} => tag[call[c].z] # None

\* A create is made for an owner; only what somebody wants gone is deleted, if it
\* is not gone already.
CallsKnow ==
    \A c \in Calls :
        /\ call[c].at = "create" => call[c].o \in Owners
        /\ call[c].at = "delete" => call[c].z \in doomed \cup gone

TokenInv == TypeOK /\ CreatedOnce /\ CallsKnow /\ AnswersHold

\* What an owner does to its identities it does in one call at a time, and never
\* besides: a call that is to fetch a token finds the identity it made for its owner,
\* which nobody can want gone before the token was handed out.
OneCallEach ==
    \A c, d \in Calls : c # d /\ call[c].o \in Owners => call[c].o # call[d].o

MadeAndUntouched(c) ==
    /\ call[c].o \in Owners /\ call[c].o = tag[call[c].z]
    /\ call[c].z \in live \ (handed \cup doomed \cup gone)

OwnersApart ==
    /\ OneCallEach
    /\ \A c \in Calls : /\ call[c].at = "jwt" => MadeAndUntouched(c)
                        /\ call[c].at = "delete" => call[c].o = tag[call[c].z]

CallType == [at : Steps, o : Owners \cup {None}, z : Zids \cup {None}]

---------------------------------------------------------------------------
(* Types                                                                   *)

\* A fault is counted and stays within the budget of its kind.
LEMMA Faulty ==
    ASSUME TypeOK, NoFault \/ \E k \in FaultKinds : Fault(k)
    PROVE  /\ faults' \in [FaultKinds -> Nat]
           /\ \A k \in FaultKinds : faults'[k] <= MaxFaults[k]
<1>1. /\ faults \in [FaultKinds -> Nat]
      /\ \A k \in FaultKinds : faults[k] <= MaxFaults[k]
      /\ MaxFaults \in [FaultKinds -> Nat]
  BY FaultsAssumption DEF TypeOK
<1>2. CASE NoFault
  BY <1>1, <1>2 DEF NoFault
<1>3. ASSUME NEW k \in FaultKinds, Fault(k)
      PROVE  /\ faults' = [faults EXCEPT ![k] = faults[k] + 1]
             /\ faults[k] + 1 \in Nat /\ faults[k] + 1 <= MaxFaults[k]
  BY <1>1, <1>3 DEF Fault
<1> QED BY <1>1, <1>2, <1>3

\* What an answer changes.
LEMMA CallEnds ==
    ASSUME TypeOK, NEW c \in Calls, Return(c)
    PROVE  /\ call' \in [Calls -> CallType]
           /\ \A d \in Calls \ {c} : call'[d] = call[d]
           /\ call'[c].at = "idle"
<1>1. call \in [Calls -> CallType] /\ Idle \in CallType
  BY DEF TypeOK, CallType, Idle, Steps
<1> QED BY <1>1 DEF Return, Idle

\* An id that is assigned is unused.
LEMMA AssignedIsUnused ==
    ASSUME NEW z \in Assignable PROVE z \in Zids /\ tag[z] = None
BY DEF Assignable, Unused

---------------------------------------------------------------------------
(* The invariant                                                           *)

\* The invariant holds before the first call.
LEMMA TokenInit == Init => TokenInv
<1> SUFFICES ASSUME Init PROVE TokenInv
  OBVIOUS
<1>1. TypeOK
  BY FaultsAssumption DEF Init, FaultsInit, TypeOK, Idle, Steps, FaultKinds
<1> QED BY <1>1 DEF Init, TokenInv, CreatedOnce, CallsKnow, AnswersHold, Idle

\* What the controller does with a create, at once or late: nothing, or a new identity.
LEMMA MakeStep ==
    ASSUME TokenInv, NEW o \in Owners,
           \/ UNCHANGED <<live, tag>>
           \/ \E z \in Assignable : Make(z, o)
    PROVE  /\ live' \subseteq Zids /\ tag' \in [Zids -> Owners \cup {None}]
           /\ \A z \in live' : tag'[z] # None
           /\ live \subseteq live' /\ live' \cap gone = {}
           /\ \A z \in Zids : tag[z] # None => tag'[z] = tag[z]
<1>1. TypeOK /\ CreatedOnce /\ gone \cap live = {}
  BY DEF TokenInv, AnswersHold
<1>2. CASE UNCHANGED <<live, tag>>
  BY <1>1, <1>2 DEF TypeOK
<1>3. ASSUME NEW z \in Assignable, Make(z, o)
      PROVE  /\ z \in Zids /\ tag[z] = None /\ o # None /\ z \notin gone
             /\ live' = live \cup {z} /\ tag' = [tag EXCEPT ![z] = o]
  BY <1>1, <1>3, AssignedIsUnused, NoneAssumption DEF Make, CreatedOnce
<1> QED BY <1>1, <1>2, <1>3 DEF TypeOK

\* A create, whatever becomes of it.
LEMMA CreateStep ==
    ASSUME TokenInv, NEW c \in Calls, CreateIdentity(c)
    PROVE  TokenInv'
<1>1. /\ TypeOK /\ CreatedOnce /\ CallsKnow /\ AnswersHold
      /\ call[c].at = "create" /\ call[c].o \in Owners
  BY DEF TokenInv, CallsKnow, CreateIdentity
<1>2. /\ \/ UNCHANGED <<live, tag>>
         \/ \E z \in Assignable : Make(z, call[c].o)
      /\ UNCHANGED owning /\ inflight' \subseteq Owners
      /\ NoFault \/ \E k \in FaultKinds : Fault(k)
  BY <1>1 DEF CreateIdentity, FaultKinds, TypeOK
<1>3. /\ live' \subseteq Zids /\ tag' \in [Zids -> Owners \cup {None}]
      /\ \A z \in live' : tag'[z] # None
      /\ live \subseteq live' /\ live' \cap gone = {}
      /\ \A z \in Zids : tag[z] # None => tag'[z] = tag[z]
  BY <1>1, <1>2, MakeStep
<1>4. /\ call' \in [Calls -> CallType]
      /\ \A d \in Calls \ {c} : call'[d] = call[d]
      /\ \/ call'[c].at = "idle"
         \/ /\ call'[c].at = "jwt" /\ call'[c].z \in Zids
            /\ tag'[call'[c].z] # None
  <2>1. CASE Return(c)
    BY <1>1, <2>1, CallEnds
  <2>2. ASSUME NEW z \in Assignable, Make(z, call[c].o),
               call' = [call EXCEPT ![c].at = "jwt", ![c].z = z]
        PROVE  /\ call' \in [Calls -> CallType]
               /\ \A d \in Calls \ {c} : call'[d] = call[d]
               /\ call'[c].at = "jwt" /\ call'[c].z = z /\ z \in live' /\ z \in Zids
    <3>1. call \in [Calls -> CallType] /\ call[c] \in CallType /\ z \in Zids
      BY <1>1, AssignedIsUnused DEF TypeOK, CallType
    <3>2. call' = [call EXCEPT ![c] = [call[c] EXCEPT !.at = "jwt", !.z = z]]
      BY <2>2, <3>1
    <3>3. [call[c] EXCEPT !.at = "jwt", !.z = z] \in CallType
      BY <3>1 DEF CallType, Steps
    <3> QED BY <2>2, <3>1, <3>2, <3>3 DEF Make, CallType
  <2> QED BY <1>3, <2>1, <2>2 DEF CreateIdentity
<1>5. /\ faults' \in [FaultKinds -> Nat]
      /\ \A k \in FaultKinds : faults'[k] <= MaxFaults[k]
  BY <1>1, <1>2, Faulty
<1>6. TypeOK'
  BY <1>1, <1>2, <1>3, <1>4, <1>5 DEF TypeOK, owning, CallType
<1>7. CreatedOnce'
  BY <1>1, <1>2, <1>3, <1>4 DEF CreatedOnce, owning, TypeOK
<1>8. CallsKnow'
  BY <1>1, <1>2, <1>4 DEF CallsKnow, owning
<1>9. AnswersHold'
  BY <1>1, <1>2, <1>3 DEF AnswersHold, owning
<1> QED BY <1>6, <1>7, <1>8, <1>9 DEF TokenInv

\* The token is handed out for an identity that exists.
LEMMA FetchStep ==
    ASSUME TokenInv, NEW c \in Calls, fetchEnrollmentJWT(c)
    PROVE  TokenInv'
<1>1. /\ TypeOK /\ CreatedOnce /\ CallsKnow /\ AnswersHold
      /\ call[c].at = "jwt" /\ call[c].z \in Zids /\ tag[call[c].z] # None
  BY DEF TokenInv, CreatedOnce, TypeOK, fetchEnrollmentJWT
<1>2. /\ UNCHANGED <<live, tag, inflight, doomed, gone>> /\ wants' \subseteq wants
      /\ handed' = handed \/ (call[c].z \in live /\ handed' = handed \cup {call[c].z})
      /\ NoFault \/ \E k \in FaultKinds : Fault(k)
  BY DEF fetchEnrollmentJWT, FaultKinds
<1>3. /\ call' \in [Calls -> CallType]
      /\ \A d \in Calls \ {c} : call'[d] = call[d]
      /\ call'[c].at = "idle"
  BY <1>1, CallEnds DEF fetchEnrollmentJWT
<1>4. /\ faults' \in [FaultKinds -> Nat]
      /\ \A k \in FaultKinds : faults'[k] <= MaxFaults[k]
  BY <1>1, <1>2, Faulty
<1>5. TypeOK'
  BY <1>1, <1>2, <1>3, <1>4 DEF TypeOK, CallType
<1> QED BY <1>1, <1>2, <1>3, <1>5 DEF TokenInv, CreatedOnce, CallsKnow, AnswersHold

\* What is deleted was given up.
LEMMA DeleteStep ==
    ASSUME TokenInv, NEW c \in Calls, DeleteIdentity(c)
    PROVE  TokenInv'
<1> DEFINE z == call[c].z
<1>1. /\ TypeOK /\ CreatedOnce /\ CallsKnow /\ AnswersHold
      /\ call[c].at = "delete" /\ z \in Zids /\ tag[z] # None /\ z \in doomed \cup gone
  BY DEF TokenInv, CreatedOnce, CallsKnow, TypeOK, DeleteIdentity
<1>2. /\ UNCHANGED <<tag, inflight, wants, handed>>
      /\ \/ live' = live \ {z} /\ doomed' = doomed \ {z} /\ gone' = gone \cup {z}
         \/ live' \in {live, live \ {z}} /\ UNCHANGED <<doomed, gone>>
      /\ NoFault \/ \E k \in FaultKinds : Fault(k)
  BY DEF DeleteIdentity, Deleted, FaultKinds
<1>3. /\ call' \in [Calls -> CallType]
      /\ \A d \in Calls \ {c} : call'[d] = call[d]
      /\ call'[c].at = "idle"
  BY <1>1, CallEnds DEF DeleteIdentity
<1>4. /\ faults' \in [FaultKinds -> Nat]
      /\ \A k \in FaultKinds : faults'[k] <= MaxFaults[k]
  BY <1>1, <1>2, Faulty
<1>5. TypeOK'
  BY <1>1, <1>2, <1>3, <1>4 DEF TypeOK, CallType
<1> QED BY <1>1, <1>2, <1>3, <1>5 DEF TokenInv, CreatedOnce, CallsKnow, AnswersHold

\* Calls that begin, are cancelled or end.
LEMMA StartStep ==
    ASSUME TokenInv, NEW c \in Calls,
           \/ Cancel(c)
           \/ \E o \in Owners : StartCreate(c, o)
           \/ \E z \in Zids : StartDelete(c, z)
    PROVE  TokenInv'
<1>1. /\ TypeOK /\ CreatedOnce /\ CallsKnow /\ AnswersHold
      /\ call \in [Calls -> CallType]
  BY DEF TokenInv, TypeOK, CallType
<1>2. /\ UNCHANGED <<live, tag, inflight, owning>>
      /\ NoFault \/ \E k \in FaultKinds : Fault(k)
  BY DEF Cancel, StartCreate, StartDelete, NoFault, FaultKinds
<1>3. /\ call' \in [Calls -> CallType]
      /\ \A d \in Calls \ {c} : call'[d] = call[d]
      /\ \/ call'[c].at = "idle"
         \/ call'[c].at = "create" /\ call'[c].o \in Owners
         \/ call'[c].at = "delete" /\ call'[c].z \in Zids \cap doomed
  <2>1. CASE Cancel(c)
    BY <1>1, <2>1, CallEnds DEF Cancel
  <2>2. ASSUME NEW o \in Owners, StartCreate(c, o)
        PROVE  /\ [at |-> "create", o |-> o, z |-> None] \in CallType
               /\ call' = [call EXCEPT ![c] = [at |-> "create", o |-> o, z |-> None]]
    BY <2>2 DEF StartCreate, CallType, Steps
  <2>3. ASSUME NEW z \in Zids, StartDelete(c, z)
        PROVE  /\ [at |-> "delete", o |-> tag[z], z |-> z] \in CallType /\ z \in doomed
               /\ call' = [call EXCEPT ![c] = [at |-> "delete", o |-> tag[z], z |-> z]]
    <3>1. tag[z] \in Owners \cup {None}
      BY <1>1 DEF TypeOK
    <3> QED BY <2>3, <3>1 DEF StartDelete, CallType, Steps
  <2>4. CASE \E o \in Owners : StartCreate(c, o)
    <3>1. PICK o \in Owners : StartCreate(c, o)
      BY <2>4
    <3>2. call'[c] = [at |-> "create", o |-> o, z |-> None]
      BY <1>1, <2>2, <3>1
    <3> QED BY <1>1, <2>2, <3>1, <3>2
  <2>5. CASE \E z \in Zids : StartDelete(c, z)
    <3>1. PICK z \in Zids : StartDelete(c, z)
      BY <2>5
    <3>2. call'[c] = [at |-> "delete", o |-> tag[z], z |-> z]
      BY <1>1, <2>3, <3>1
    <3> QED BY <1>1, <2>3, <3>1, <3>2
  <2> QED BY <2>1, <2>4, <2>5
<1>4. /\ faults' \in [FaultKinds -> Nat]
      /\ \A k \in FaultKinds : faults'[k] <= MaxFaults[k]
  BY <1>1, <1>2, Faulty
<1>5. TypeOK'
  BY <1>1, <1>2, <1>3, <1>4 DEF TypeOK, CallType, owning
<1> QED BY <1>1, <1>2, <1>3, <1>5 DEF TokenInv, CreatedOnce, CallsKnow, AnswersHold, owning

\* What owners decide, and creates that arrive late.
LEMMA OwnerStep ==
    ASSUME TokenInv,
           \/ \E o \in Owners : Want(o) \/ SweepLeftovers(o) \/ ApplyLate(o)
           \/ \E z \in Zids : GiveUp(z)
    PROVE  TokenInv'
<1>1. TypeOK /\ CreatedOnce /\ CallsKnow /\ AnswersHold
  BY DEF TokenInv
<1>2. ASSUME NEW o \in Owners, Want(o) PROVE TokenInv'
  BY <1>1, <1>2 DEF Want, TokenInv, TypeOK, CreatedOnce, CallsKnow, AnswersHold
<1>3. ASSUME NEW o \in Owners, SweepLeftovers(o) PROVE TokenInv'
  BY <1>1, <1>3
     DEF SweepLeftovers, Leftovers, TokenInv, TypeOK, CreatedOnce, CallsKnow, AnswersHold
<1>4. ASSUME NEW z \in Zids, GiveUp(z) PROVE TokenInv'
  BY <1>1, <1>4 DEF GiveUp, TokenInv, TypeOK, CreatedOnce, CallsKnow, AnswersHold
<1>5. ASSUME NEW o \in Owners, ApplyLate(o) PROVE TokenInv'
  <2>1. /\ UNCHANGED <<call, owning, faults>> /\ inflight' \subseteq inflight
        /\ UNCHANGED <<live, tag>> \/ \E z \in Assignable : Make(z, o)
    BY <1>5 DEF ApplyLate
  <2>2. /\ live' \subseteq Zids /\ tag' \in [Zids -> Owners \cup {None}]
        /\ \A z \in live' : tag'[z] # None
        /\ live \subseteq live' /\ live' \cap gone = {}
        /\ \A z \in Zids : tag[z] # None => tag'[z] = tag[z]
    BY <2>1, MakeStep
  <2>3. TypeOK'
    BY <1>1, <2>1, <2>2 DEF TypeOK, owning
  <2>4. CreatedOnce'
    BY <1>1, <2>1, <2>2 DEF CreatedOnce, owning, TypeOK
  <2> QED BY <1>1, <2>1, <2>2, <2>3, <2>4 DEF TokenInv, CallsKnow, AnswersHold, owning
<1> QED BY <1>2, <1>3, <1>4, <1>5

\* Every step preserves the invariant.
LEMMA TokenNext == TokenInv /\ [Next]_vars => TokenInv'
<1> SUFFICES ASSUME TokenInv, [Next]_vars PROVE TokenInv'
  OBVIOUS
<1>1. CASE UNCHANGED vars
  BY <1>1 DEF vars, owning, TokenInv, TypeOK, CreatedOnce, CallsKnow, AnswersHold
<1> QED BY <1>1, CreateStep, FetchStep, DeleteStep, StartStep, OwnerStep DEF Next, Handler

\* So it holds throughout.
LEMMA TokenCorrect == Spec => []TokenInv
BY TokenInit, TokenNext, PTL DEF Spec

\* Every variable has its type.
THEOREM TypeCorrect == Spec => []TypeOK
<1>1. TokenInv => TypeOK
  BY DEF TokenInv
<1> QED BY <1>1, TokenCorrect, PTL

\* An owner keeps what it was handed until it gives it up, and what it was told is
\* gone stays gone, whatever creates arrive late.
THEOREM AnswersCorrect == Spec => []AnswersHold
<1>1. TokenInv => AnswersHold
  BY DEF TokenInv
<1> QED BY <1>1, TokenCorrect, PTL

---------------------------------------------------------------------------
(* One owner, one call                                                     *)

\* The controller works on a create: other calls keep what they have.
LEMMA MadeStaysUntouched ==
    ASSUME TokenInv, NEW o \in Owners,
           UNCHANGED <<live, tag>> \/ \E z \in Assignable : Make(z, o),
           UNCHANGED owning,
           NEW d \in Calls, call'[d] = call[d], call[d].at \in {"jwt", "delete"}
    PROVE  /\ MadeAndUntouched(d) => MadeAndUntouched(d)'
           /\ tag'[call[d].z] = tag[call[d].z]
<1>1. call[d].z \in Zids /\ tag[call[d].z] # None
  BY DEF TokenInv, TypeOK, CreatedOnce
<1>2. live \subseteq live' /\ tag'[call[d].z] = tag[call[d].z]
  BY <1>1, MakeStep
<1> QED BY <1>2 DEF MadeAndUntouched, owning

\* A create that is answered has made an identity nobody knows.
LEMMA CreateApart ==
    ASSUME TokenInv, OwnersApart, NEW c \in Calls, CreateIdentity(c)
    PROVE  OwnersApart'
<1> DEFINE o == call[c].o
<1>1. /\ TypeOK /\ CreatedOnce /\ call \in [Calls -> CallType]
      /\ call[c].at = "create" /\ o \in Owners
  BY DEF TokenInv, TypeOK, CallsKnow, CallType, CreateIdentity
<1>2. /\ UNCHANGED <<live, tag>> \/ \E z \in Assignable : Make(z, o)
      /\ UNCHANGED owning
  BY DEF CreateIdentity
<1>3. \A d \in Calls \ {c} : call'[d] = call[d]
  BY <1>1 DEF CreateIdentity, Return
<1>4. \/ call'[c] = Idle
      \/ call'[c].at = "jwt" /\ call'[c].o = o /\ MadeAndUntouched(c)'
  <2>1. CASE Return(c)
    BY <1>1, <2>1 DEF Return
  <2>2. ASSUME NEW z \in Assignable, Make(z, o),
               call' = [call EXCEPT ![c].at = "jwt", ![c].z = z]
        PROVE  call'[c].at = "jwt" /\ call'[c].o = o /\ MadeAndUntouched(c)'
    <3>1. z \in Zids /\ tag[z] = None
      BY AssignedIsUnused
    <3>2. call'[c].at = "jwt" /\ call'[c].o = o /\ call'[c].z = z
      BY <1>1, <2>2 DEF CallType
    <3>3. z \in live' /\ tag'[z] = o
      BY <1>1, <2>2, <3>1 DEF Make, TypeOK
    <3>4. z \notin handed \cup doomed \cup gone
      BY <1>1, <3>1 DEF CreatedOnce
    <3> QED BY <1>1, <1>2, <3>2, <3>3, <3>4 DEF MadeAndUntouched, owning
  <2> QED BY <2>1, <2>2 DEF CreateIdentity
<1>5. OneCallEach'
  BY <1>1, <1>3, <1>4, NoneAssumption DEF OwnersApart, OneCallEach, Idle
<1>6. ASSUME NEW d \in Calls \ {c}
      PROVE  /\ call'[d].at = "jwt" => MadeAndUntouched(d)'
             /\ call'[d].at = "delete" => call'[d].o = tag'[call'[d].z]
  BY <1>1, <1>2, <1>3, MadeStaysUntouched DEF OwnersApart
<1> QED BY <1>4, <1>5, <1>6 DEF OwnersApart, Idle

\* A token is handed out, or an identity deleted, for its owner alone.
LEMMA EndApart ==
    ASSUME TokenInv, OwnersApart, NEW c \in Calls,
           fetchEnrollmentJWT(c) \/ DeleteIdentity(c) \/ Cancel(c)
    PROVE  OwnersApart'
<1> DEFINE z == call[c].z
<1>1. TypeOK /\ CreatedOnce /\ CallsKnow /\ call \in [Calls -> CallType]
  BY DEF TokenInv, TypeOK, CallType
<1>2. /\ call'[c] = Idle /\ \A d \in Calls \ {c} : call'[d] = call[d]
      /\ UNCHANGED tag
  BY <1>1 DEF fetchEnrollmentJWT, DeleteIdentity, Cancel, Return
<1>3. OneCallEach'
  BY <1>2, NoneAssumption DEF OwnersApart, OneCallEach, Idle
<1>4. \/ UNCHANGED <<live, owning>>
      \/ /\ call[c].at \in {"jwt", "delete"} /\ tag[z] = call[c].o
         /\ live \subseteq live' \cup {z}
         /\ handed' \subseteq handed \cup {z} /\ doomed' \subseteq doomed
         /\ gone' \subseteq gone \cup {z}
  BY DEF fetchEnrollmentJWT, DeleteIdentity, Deleted, Cancel, OwnersApart, MadeAndUntouched,
     owning
<1>5. ASSUME NEW d \in Calls \ {c}, call[d].at = "jwt" PROVE MadeAndUntouched(d)'
  <2>1. MadeAndUntouched(d) /\ call[d].o # call[c].o /\ call'[d] = call[d]
    BY <1>2, <1>5 DEF OwnersApart, OneCallEach, MadeAndUntouched
  <2>2. call[d].z # z \/ UNCHANGED <<live, owning>>
    BY <1>4, <2>1 DEF MadeAndUntouched
  <2> QED BY <1>2, <1>4, <2>1, <2>2 DEF MadeAndUntouched, owning
<1> QED BY <1>2, <1>3, <1>5 DEF OwnersApart, Idle

\* A call begins for an owner that has none.
LEMMA BeginApart ==
    ASSUME TokenInv, OwnersApart, NEW c \in Calls,
           \/ \E o \in Owners : StartCreate(c, o)
           \/ \E z \in Zids : StartDelete(c, z)
    PROVE  OwnersApart'
<1>1. TypeOK /\ CreatedOnce /\ call \in [Calls -> CallType]
  BY DEF TokenInv, TypeOK, CallType
<1>2. UNCHANGED <<live, tag, owning>>
  BY DEF StartCreate, StartDelete
<1>3. /\ \A d \in Calls \ {c} : call'[d] = call[d]
      /\ Asking(call'[c].o) = {}
      /\ \/ call'[c].at = "create"
         \/ call'[c].at = "delete" /\ call'[c].o = tag[call'[c].z]
  BY <1>1 DEF StartCreate, StartDelete
<1>4. OneCallEach'
  BY <1>3 DEF OwnersApart, OneCallEach, Asking
<1> QED BY <1>2, <1>3, <1>4 DEF OwnersApart, MadeAndUntouched, owning

\* No owner wants gone what one of its calls has just made.
LEMMA OwnerApart ==
    ASSUME TokenInv, OwnersApart,
           \/ \E o \in Owners : Want(o) \/ SweepLeftovers(o) \/ ApplyLate(o)
           \/ \E z \in Zids : GiveUp(z)
    PROVE  OwnersApart'
<1>1. ASSUME NEW o \in Owners, Want(o) PROVE OwnersApart'
  BY <1>1 DEF Want, OwnersApart, OneCallEach, MadeAndUntouched
<1>2. ASSUME NEW z \in Zids, GiveUp(z) PROVE OwnersApart'
  BY <1>2 DEF GiveUp, OwnersApart, OneCallEach, MadeAndUntouched
<1>3. ASSUME NEW o \in Owners, SweepLeftovers(o) PROVE OwnersApart'
  <2>1. /\ UNCHANGED <<live, tag, call, handed, gone>> /\ Asking(o) = {}
        /\ doomed' = doomed \cup Leftovers(o)
    BY <1>3 DEF SweepLeftovers
  <2>2. ASSUME NEW d \in Calls, MadeAndUntouched(d) PROVE MadeAndUntouched(d)'
    BY <2>1, <2>2 DEF Asking, Leftovers, MadeAndUntouched
  <2> QED BY <2>1, <2>2 DEF OwnersApart, OneCallEach
<1>4. ASSUME NEW o \in Owners, ApplyLate(o) PROVE OwnersApart'
  <2>1. /\ UNCHANGED <<call, owning>>
        /\ UNCHANGED <<live, tag>> \/ \E z \in Assignable : Make(z, o)
    BY <1>4 DEF ApplyLate
  <2>2. OneCallEach'
    BY <2>1 DEF OwnersApart, OneCallEach
  <2>3. ASSUME NEW d \in Calls
        PROVE  /\ call'[d].at = "jwt" => MadeAndUntouched(d)'
               /\ call'[d].at = "delete" => call'[d].o = tag'[call'[d].z]
    BY <2>1, MadeStaysUntouched DEF OwnersApart
  <2> QED BY <2>2, <2>3 DEF OwnersApart
<1> QED BY <1>1, <1>2, <1>3, <1>4

\* Every step keeps the calls apart.
LEMMA ApartNext == TokenInv /\ OwnersApart /\ [Next]_vars => OwnersApart'
<1> SUFFICES ASSUME TokenInv, OwnersApart, [Next]_vars PROVE OwnersApart'
  OBVIOUS
<1>1. CASE UNCHANGED vars
  BY <1>1 DEF vars, owning, OwnersApart, OneCallEach, MadeAndUntouched
<1> QED BY <1>1, CreateApart, EndApart, BeginApart, OwnerApart DEF Next, Handler

\* The end of a call that creates for a user.
LEMMA DeviceStep ==
    ASSUME TokenInv, OwnersApart, [Next]_vars, NEW c \in Calls,
           call[c].o \in Users, call[c].at \in {"create", "jwt"}, call'[c] = Idle
    PROVE  faults' # faults \/ call[c].z \in handed'
<1>1. TypeOK /\ call \in [Calls -> CallType] /\ call'[c] # call[c] /\ call[c] # Idle
  BY DEF TokenInv, TypeOK, CallType, Idle
<1>2. ASSUME NEW k \in FaultKinds, Fault(k) PROVE faults' # faults
  BY <1>1, <1>2 DEF Fault, TypeOK
<1>3. ASSUME CreateIdentity(c) PROVE faults' # faults
  <2>1. InTheWay(call[c].o) = {}
    BY NoneAssumption DEF InTheWay
  <2>2. ASSUME NEW z \in Zids, call' = [call EXCEPT ![c].at = "jwt", ![c].z = z] PROVE FALSE
    BY <1>1, <2>2 DEF CallType, Idle
  <2> QED BY <1>2, <1>3, <2>1, <2>2, AssignedIsUnused DEF CreateIdentity, FaultKinds
<1>4. ASSUME fetchEnrollmentJWT(c) PROVE faults' # faults \/ call[c].z \in handed'
  <2>1. call[c].z \in live
    BY <1>4 DEF fetchEnrollmentJWT, OwnersApart, MadeAndUntouched
  <2> QED BY <1>2, <1>4, <2>1 DEF fetchEnrollmentJWT, FaultKinds
<1>5. ASSUME NEW d \in Calls \ {c},
             \/ Handler(d) \/ Cancel(d)
             \/ \E o \in Owners : StartCreate(d, o)
             \/ \E z \in Zids : StartDelete(d, z)
      PROVE  FALSE
  <2>1. call'[c] = call[c]
    BY <1>1, <1>5 DEF Handler, CreateIdentity, fetchEnrollmentJWT, DeleteIdentity, Cancel,
       Return, StartCreate, StartDelete
  <2> QED BY <1>1, <2>1
<1>6. ASSUME \/ DeleteIdentity(c)
             \/ \E o \in Owners : StartCreate(c, o)
             \/ \E z \in Zids : StartDelete(c, z)
      PROVE  FALSE
  BY <1>1, <1>6 DEF DeleteIdentity, StartCreate, StartDelete
<1>7. ASSUME Cancel(c) PROVE faults' # faults
  BY <1>2, <1>7 DEF Cancel, FaultKinds
<1>8. ASSUME \/ UNCHANGED vars
             \/ \E o \in Owners : Want(o) \/ SweepLeftovers(o) \/ ApplyLate(o)
             \/ \E z \in Zids : GiveUp(z)
      PROVE  FALSE
  BY <1>1, <1>8 DEF vars, Want, SweepLeftovers, ApplyLate, GiveUp
<1> QED BY <1>3, <1>4, <1>5, <1>6, <1>7, <1>8 DEF Next, Handler

\* A user gets another device unless a call failed or was cancelled, however many
\* it has, whatever is left of earlier creates, and whatever the others do meanwhile.
THEOREM DevicesCorrect == Spec => DevicesAreUnlimited
<1> DEFINE Inv == TokenInv /\ OwnersApart
<1>1. Init => Inv
  BY TokenInit, NoneAssumption DEF Init, OwnersApart, OneCallEach, Idle
<1>2. Inv /\ [Next]_vars => Inv'
  BY TokenNext, ApartNext
<1>3. ASSUME Inv, [Next]_vars
      PROVE  [\A c \in Calls :
                call[c].o \in Users /\ call[c].at \in {"create", "jwt"} /\ call'[c] = Idle
                => faults' # faults \/ call[c].z \in handed']_vars
  BY <1>3, DeviceStep
<1> QED BY <1>1, <1>2, <1>3, PTL DEF Spec, DevicesAreUnlimited
=============================================================================
