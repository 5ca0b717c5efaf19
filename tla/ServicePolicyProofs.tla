------------------------ MODULE ServicePolicyProofs ------------------------
(***************************************************************************)
(* Proofs about ServicePolicy, for every set of policy ids, roles and      *)
(* calls and every fault budget.                                           *)
(***************************************************************************)
EXTENDS ServicePolicy, TLAPS

CallType ==
    [at : {"idle", "create", "find", "delete"}, roles : Roles \cup {None},
     existing : BOOLEAN, id : Pids \cup {None}]
AnswerType ==
    [res : {"none", "ok", "failed"}, asked : CallType, id : Pids \cup {None}]

PolicyTypes ==
    /\ policy \in Pids \cup {None}
    /\ roles \in [Pids -> Roles \cup {None}]
    /\ call \in [Calls -> CallType]
    /\ before \in [Calls -> Pids \cup {None}]
    /\ answer \in [Calls -> AnswerType]
    /\ disturbed \subseteq Calls

\* Calls that run at the same time disturb each other.
DisturbedKnown ==
    \A c, d \in Calls : c # d /\ call[c] # Idle /\ call[d] # Idle => c \in disturbed

\* Until its create takes effect an undisturbed call finds what was there when it began,
\* and it looks the policy up only because the name is taken.
LoneSeesBefore ==
    \A c \in Calls : c \notin disturbed =>
        /\ call[c].at \in {"create", "find"} => policy = before[c]
        /\ call[c].at = "find" => policy # None /\ call[c].existing

PolicyInv == PolicyTypes /\ DisturbedKnown /\ LoneSeesBefore

---------------------------------------------------------------------------
(* How calls move                                                          *)

\* A call that is not running is a call.
LEMMA IdleType == Idle \in CallType /\ NoAnswer \in AnswerType
BY DEF Idle, NoAnswer, CallType, AnswerType

\* What an answer changes.
LEMMA Returned ==
    ASSUME PolicyTypes, NEW c \in Calls, NEW res \in {"ok", "failed"},
           NEW id \in Pids \cup {None}, Return(c, res, id)
    PROVE  /\ call' \in [Calls -> CallType] /\ answer' \in [Calls -> AnswerType]
           /\ \A d \in Calls \ {c} : call'[d] = call[d]
           /\ call'[c] = Idle /\ answer'[c].res = res /\ answer'[c].id = id
<1>1. /\ call \in [Calls -> CallType] /\ answer \in [Calls -> AnswerType]
      /\ call[c] \in CallType
  BY DEF PolicyTypes
<1>2. /\ call' = [call EXCEPT ![c] = Idle]
      /\ answer' = [answer EXCEPT ![c] = [res |-> res, asked |-> call[c], id |-> id]]
  BY DEF Return
<1>3. [res |-> res, asked |-> call[c], id |-> id] \in AnswerType
  BY <1>1 DEF AnswerType
<1>4. /\ answer'[c] = [res |-> res, asked |-> call[c], id |-> id]
      /\ answer' \in [Calls -> AnswerType]
  BY <1>1, <1>2, <1>3
<1> QED BY <1>1, <1>2, <1>4, IdleType

\* A name that is taken leads to the lookup.
LEMMA Found ==
    ASSUME PolicyTypes, NEW c \in Calls, Goto(c, "find")
    PROVE  /\ call' \in [Calls -> CallType] /\ answer' = answer
           /\ \A d \in Calls \ {c} : call'[d] = call[d]
           /\ call'[c].at = "find" /\ call'[c].existing = call[c].existing
<1>1. call \in [Calls -> CallType] /\ call[c] \in CallType
  BY DEF PolicyTypes
<1>2. call' = [call EXCEPT ![c] = [call[c] EXCEPT !.at = "find"]] /\ answer' = answer
  BY DEF Goto
<1>3. [call[c] EXCEPT !.at = "find"] \in CallType
  BY <1>1 DEF CallType
<1> QED BY <1>1, <1>2, <1>3 DEF CallType

---------------------------------------------------------------------------
(* The steps                                                               *)

\* The invariant holds before the first call.
LEMMA PolicyInit == Init => PolicyInv
<1> SUFFICES ASSUME Init PROVE PolicyInv
  OBVIOUS
<1>1. PolicyTypes
  BY IdleType DEF Init, PolicyTypes
<1> QED BY <1>1 DEF Init, PolicyInv, DisturbedKnown, LoneSeesBefore, Idle

\* A call that begins disturbs those that run, and is disturbed by them.
LEMMA BeginStep ==
    ASSUME PolicyInv, NEW c \in Calls, NEW what \in CallType, Begin(c, what),
           what.at # "find"
    PROVE  PolicyInv'
<1>1. PolicyTypes /\ DisturbedKnown /\ LoneSeesBefore /\ call[c] = Idle
  BY DEF PolicyInv, Begin
<1>2. /\ call' = [call EXCEPT ![c] = what] /\ answer' = [answer EXCEPT ![c] = NoAnswer]
      /\ before' = [before EXCEPT ![c] = policy] /\ UNCHANGED <<policy, roles>>
      /\ IF Running(Calls) = {} THEN disturbed' = disturbed \ {c}
         ELSE disturbed' = disturbed \cup Running(Calls) \cup {c}
  BY DEF Begin
<1>3. /\ \A d \in Calls \ {c} : call'[d] = call[d] /\ before'[d] = before[d]
      /\ call'[c] = what /\ before'[c] = policy
  BY <1>1, <1>2 DEF PolicyTypes
<1>4. PolicyTypes'
  BY <1>1, <1>2, IdleType DEF PolicyTypes, Running
<1>5. DisturbedKnown'
  BY <1>1, <1>2, <1>3 DEF DisturbedKnown, Running
<1>6. LoneSeesBefore'
  <2> SUFFICES ASSUME NEW d \in Calls, d \notin disturbed'
               PROVE  /\ call'[d].at \in {"create", "find"} => policy' = before'[d]
                      /\ call'[d].at = "find" => policy' # None /\ call'[d].existing
    BY DEF LoneSeesBefore
  <2>1. CASE d = c
    BY <1>2, <1>3, <2>1
  <2>2. CASE d # c
    <3>1. call[d] = Idle
      BY <1>2, <2>2 DEF Running
    <3> QED BY <1>3, <2>2, <3>1 DEF Idle
  <2> QED BY <2>1, <2>2
<1> QED BY <1>4, <1>5, <1>6 DEF PolicyInv

\* What the steps of a running call have in common.
LEMMA RunningStep ==
    ASSUME PolicyInv, NEW c \in Calls, call[c] # Idle,
           policy' \in Pids \cup {None}, roles' \in [Pids -> Roles \cup {None}],
           answer' \in [Calls -> AnswerType], before' = before,
           disturbed' \in {disturbed, disturbed \cup {c}},
           call' \in [Calls -> CallType],
           \A d \in Calls \ {c} : call'[d] = call[d],
           \/ call'[c] = Idle
           \/ /\ call'[c].at = "find"
              /\ c \in disturbed'
                 \/ (policy' = before[c] /\ policy' # None /\ call'[c].existing)
    PROVE  PolicyInv'
<1>1. PolicyTypes /\ DisturbedKnown /\ LoneSeesBefore
  BY DEF PolicyInv
<1>2. PolicyTypes'
  BY <1>1 DEF PolicyTypes
<1>3. DisturbedKnown'
  BY <1>1 DEF DisturbedKnown
<1>4. LoneSeesBefore'
  <2> SUFFICES ASSUME NEW d \in Calls, d \notin disturbed'
               PROVE  /\ call'[d].at \in {"create", "find"} => policy' = before'[d]
                      /\ call'[d].at = "find" => policy' # None /\ call'[d].existing
    BY DEF LoneSeesBefore
  <2>1. CASE d = c
    BY <2>1 DEF Idle
  <2>2. CASE d # c
    <3>1. call'[d] = Idle
      BY <1>1, <2>2 DEF DisturbedKnown
    <3> QED BY <3>1 DEF Idle
  <2> QED BY <2>1, <2>2
<1> QED BY <1>2, <1>3, <1>4 DEF PolicyInv

\* A call that ends, undisturbed, tells the truth.
TruthOf(c) ==
    Ends(c) /\ c \notin disturbed' =>
        /\ answer'[c].res = "ok" =>
             /\ policy' = answer'[c].id
             /\ roles'[answer'[c].id] = call[c].roles \/ before[c] = answer'[c].id
        /\ answer'[c].res = "failed" => before[c] # None /\ ~call[c].existing

\* The creation answers, or finds the name taken.
LEMMA CreateStep ==
    ASSUME PolicyInv, NEW c \in Calls, CreateServicePolicyWithTags(c)
    PROVE  PolicyInv' /\ TruthOf(c)
<1>1. /\ PolicyTypes /\ LoneSeesBefore /\ call[c].at = "create" /\ call[c] # Idle
      /\ call[c] \in CallType /\ before' = before
  BY DEF PolicyInv, PolicyTypes, CreateServicePolicyWithTags, Idle
<1>2. ASSUME NEW p \in Assignable, Make(c, p)
      PROVE  /\ p \in Pids /\ policy' = p /\ roles' \in [Pids -> Roles \cup {None}]
             /\ roles'[p] = call[c].roles
  <2>1. p \in Pids
    BY DEF Assignable, Unused
  <2>2. policy' = p /\ roles' = [roles EXCEPT ![p] = call[c].roles]
    BY <1>2 DEF Make
  <2>3. roles \in [Pids -> Roles \cup {None}] /\ call[c].roles \in Roles \cup {None}
    BY <1>1 DEF PolicyTypes, CallType
  <2> QED BY <2>1, <2>2, <2>3
<1>3. ASSUME NEW p \in Assignable, Make(c, p), Return(c, "ok", p), Smoothly
      PROVE  PolicyInv' /\ TruthOf(c)
  <2>1. /\ call' \in [Calls -> CallType] /\ answer' \in [Calls -> AnswerType]
        /\ \A d \in Calls \ {c} : call'[d] = call[d]
        /\ call'[c] = Idle /\ answer'[c].res = "ok" /\ answer'[c].id = p
    BY <1>1, <1>2, <1>3, Returned
  <2>2. PolicyInv'
    BY <1>1, <1>2, <1>3, <2>1, RunningStep DEF Smoothly, NoFault
  <2>3. TruthOf(c)
    BY <1>2, <1>3, <2>1 DEF TruthOf
  <2> QED BY <2>2, <2>3
<1>4. ASSUME CreateFailed(c), disturbed' \in {disturbed, disturbed \cup {c}},
             policy' \in Pids \cup {None}, roles' \in [Pids -> Roles \cup {None}],
             c \in disturbed' \/ (policy # None /\ policy' = policy)
      PROVE  PolicyInv' /\ TruthOf(c)
  <2>1. c \notin disturbed' => policy = before[c] /\ before[c] # None /\ policy' = policy
    BY <1>1, <1>4 DEF LoneSeesBefore
  <2>2. CASE call[c].existing
    <3>1. Goto(c, "find")
      BY <1>4, <2>2 DEF CreateFailed
    <3>2. /\ call' \in [Calls -> CallType] /\ answer' = answer
          /\ \A d \in Calls \ {c} : call'[d] = call[d]
          /\ call'[c].at = "find" /\ call'[c].existing
      BY <1>1, <2>2, <3>1, Found
    <3>3. answer' \in [Calls -> AnswerType]
      BY <1>1, <3>2 DEF PolicyTypes
    <3>4. PolicyInv'
      BY <1>1, <1>4, <2>1, <3>2, <3>3, RunningStep
    <3>5. TruthOf(c)
      BY <3>2 DEF TruthOf, Ends, Idle
    <3> QED BY <3>4, <3>5
  <2>3. CASE ~call[c].existing
    <3>1. Return(c, "failed", None)
      BY <1>4, <2>3 DEF CreateFailed
    <3>2. /\ call' \in [Calls -> CallType] /\ answer' \in [Calls -> AnswerType]
          /\ \A d \in Calls \ {c} : call'[d] = call[d]
          /\ call'[c] = Idle /\ answer'[c].res = "failed"
      BY <1>1, <3>1, Returned
    <3>3. PolicyInv'
      BY <1>1, <1>4, <3>2, RunningStep
    <3>4. TruthOf(c)
      BY <2>1, <2>3, <3>2 DEF TruthOf
    <3> QED BY <3>3, <3>4
  <2> QED BY <2>2, <2>3
<1>5. CASE policy # None /\ CreateFailed(c) /\ Smoothly /\ UNCHANGED <<policy, roles>>
  BY <1>1, <1>4, <1>5 DEF Smoothly, NoFault, PolicyTypes
<1>6. CASE Disturb(c, "refused") /\ CreateFailed(c) /\ UNCHANGED <<policy, roles>>
  BY <1>1, <1>4, <1>6 DEF Disturb, PolicyTypes
<1>7. CASE Disturb(c, "lost") /\ CreateFailed(c) /\ \E p \in Assignable : Make(c, p)
  BY <1>2, <1>4, <1>7 DEF Disturb, Fault
<1> QED BY <1>3, <1>5, <1>6, <1>7 DEF CreateServicePolicyWithTags

\* The lookup answers with what it found.
LEMMA FindStep ==
    ASSUME PolicyInv, NEW c \in Calls, getServicePolicyByName(c)
    PROVE  PolicyInv' /\ TruthOf(c)
<1>1. /\ PolicyTypes /\ LoneSeesBefore /\ call[c].at = "find" /\ call[c] # Idle
      /\ UNCHANGED <<policy, roles, before>>
      /\ policy \in Pids \cup {None} /\ roles \in [Pids -> Roles \cup {None}]
  BY DEF PolicyInv, PolicyTypes, getServicePolicyByName, Idle
<1>2. ASSUME NEW res \in {"ok", "failed"}, NEW id \in Pids \cup {None}, Return(c, res, id),
             disturbed' \in {disturbed, disturbed \cup {c}},
             c \in disturbed' \/ (res = "ok" /\ id = policy) \/ (res = "failed" /\ policy = None)
      PROVE  PolicyInv' /\ TruthOf(c)
  <2>1. /\ call' \in [Calls -> CallType] /\ answer' \in [Calls -> AnswerType]
        /\ \A d \in Calls \ {c} : call'[d] = call[d]
        /\ call'[c] = Idle /\ answer'[c].res = res /\ answer'[c].id = id
    BY <1>1, <1>2, Returned
  <2>2. c \notin disturbed' => policy = before[c] /\ policy # None
    BY <1>1, <1>2 DEF LoneSeesBefore
  <2>3. PolicyInv'
    BY <1>1, <1>2, <2>1, RunningStep
  <2>4. TruthOf(c)
    BY <1>1, <1>2, <2>1, <2>2 DEF TruthOf
  <2> QED BY <2>3, <2>4
<1>3. CASE policy # None /\ Return(c, "ok", policy) /\ Smoothly
  BY <1>1, <1>2, <1>3 DEF Smoothly, NoFault
<1>4. CASE policy = None /\ Return(c, "failed", None) /\ Smoothly
  BY <1>1, <1>2, <1>4 DEF Smoothly, NoFault
<1>5. CASE Disturb(c, "refused") /\ Return(c, "failed", None)
  BY <1>1, <1>2, <1>5 DEF Disturb, Fault
<1> QED BY <1>3, <1>4, <1>5 DEF getServicePolicyByName

\* A deletion makes no promise, and a cancelled call none either.
LEMMA DeleteStep ==
    ASSUME PolicyInv, NEW c \in Calls, DeleteServicePolicy(c) \/ Cancel(c)
    PROVE  PolicyInv' /\ TruthOf(c)
<1>1. /\ PolicyTypes /\ call[c] # Idle /\ UNCHANGED <<roles, before>>
      /\ policy' \in Pids \cup {None} /\ roles \in [Pids -> Roles \cup {None}]
      /\ disturbed' \in {disturbed, disturbed \cup {c}}
      /\ call[c].at = "delete" \/ c \in disturbed'
  BY DEF PolicyInv, PolicyTypes, DeleteServicePolicy, Cancel, Disturb, Fault, Smoothly, NoFault, Idle
<1>2. \E res \in {"ok", "failed"}, id \in Pids \cup {None} : Return(c, res, id)
  <2>1. call[c].id \in Pids \cup {None}
    BY <1>1 DEF PolicyTypes, CallType
  <2> QED BY <2>1 DEF DeleteServicePolicy, Cancel
<1>3. /\ call' \in [Calls -> CallType] /\ answer' \in [Calls -> AnswerType]
      /\ \A d \in Calls \ {c} : call'[d] = call[d]
      /\ call'[c] = Idle
  BY <1>1, <1>2, Returned
<1>4. PolicyInv'
  BY <1>1, <1>3, RunningStep
<1>5. TruthOf(c)
  BY <1>1 DEF TruthOf, Ends
<1> QED BY <1>4, <1>5

\* Every step keeps the invariant, and a call that ends in it tells the truth.
LEMMA PolicyNext ==
    ASSUME PolicyInv, [Next]_vars
    PROVE  PolicyInv' /\ \A d \in Calls : TruthOf(d)
<1>1. PolicyTypes
  BY DEF PolicyInv
<1>2. ASSUME NEW c \in Calls, Handler(c) \/ Cancel(c)
      PROVE  PolicyInv' /\ \A d \in Calls : TruthOf(d)
  <2>1. PolicyInv' /\ TruthOf(c)
    BY <1>2, CreateStep, FindStep, DeleteStep DEF Handler
  <2>2. \A d \in Calls \ {c} : call'[d] = call[d]
    BY <1>1, <1>2 DEF Handler, CreateServicePolicyWithTags, getServicePolicyByName,
       DeleteServicePolicy, Cancel, CreateFailed, Goto, Return, PolicyTypes
  <2>3. \A d \in Calls \ {c} : TruthOf(d)
    BY <2>2 DEF TruthOf, Ends, Idle
  <2> QED BY <2>1, <2>3
<1>3. ASSUME NEW c \in Calls, NEW what \in CallType, Begin(c, what), what.at # "find"
      PROVE  PolicyInv' /\ \A d \in Calls : TruthOf(d)
  <2>1. PolicyInv'
    BY <1>3, BeginStep
  <2>2. \A d \in Calls \ {c} : call'[d] = call[d]
    BY <1>1, <1>3 DEF Begin, PolicyTypes
  <2>3. call[c] = Idle
    BY <1>3 DEF Begin
  <2> QED BY <2>1, <2>2, <2>3 DEF TruthOf, Ends, Idle
<1>4. ASSUME NEW c \in Calls, NEW r \in Roles, NEW existing \in BOOLEAN,
             StartCreate(c, r, existing)
      PROVE  PolicyInv' /\ \A d \in Calls : TruthOf(d)
  <2> DEFINE what == [at |-> "create", roles |-> r, existing |-> existing, id |-> None]
  <2>1. what \in CallType /\ what.at # "find" /\ Begin(c, what)
    BY <1>4 DEF StartCreate, CallType
  <2> HIDE DEF what
  <2> QED BY <1>3, <2>1
<1>5. ASSUME NEW c \in Calls, NEW p \in Pids, StartDelete(c, p)
      PROVE  PolicyInv' /\ \A d \in Calls : TruthOf(d)
  <2> DEFINE what == [at |-> "delete", roles |-> None, existing |-> FALSE, id |-> p]
  <2>1. what \in CallType /\ what.at # "find" /\ Begin(c, what)
    BY <1>5 DEF StartDelete, CallType
  <2> HIDE DEF what
  <2> QED BY <1>3, <2>1
<1>6. CASE UNCHANGED vars
  <2>1. PolicyInv'
    BY <1>6 DEF vars, PolicyInv, PolicyTypes, DisturbedKnown, LoneSeesBefore
  <2> QED BY <1>6, <2>1 DEF vars, TruthOf, Ends, Idle
<1> QED BY <1>2, <1>4, <1>5, <1>6 DEF Next

\* A create that ran alone and met no fault tells the truth, for any history of
\* calls before it.
THEOREM TruthCorrect == Spec => LoneCreateTellsTruth
<1>1. PolicyInv /\ [Next]_vars => PolicyInv'
  BY PolicyNext
<1>2. ASSUME PolicyInv, [Next]_vars
      PROVE  [\A c \in Calls : Ends(c) /\ c \notin disturbed' =>
                LET end == answer'[c] IN
                /\ end.res = "ok" =>
                     /\ policy' = end.id
                     /\ roles'[end.id] = call[c].roles \/ before[c] = end.id
                /\ end.res = "failed" => before[c] # None /\ ~call[c].existing]_vars
  BY <1>2, PolicyNext DEF TruthOf
<1> QED BY <1>1, <1>2, PolicyInit, PTL DEF Spec, LoneCreateTellsTruth
=============================================================================
