--------------------------- MODULE ServicePolicy ---------------------------
(***************************************************************************)
(* CreateServicePolicy, GetServicePolicy by name and DeleteServicePolicy   *)
(* for one policy name, as concurrent calls.  The controller keeps names   *)
(* unique.  With return_existing a create that fails, for whatever reason, *)
(* answers with the policy of that name, whose roles stay what they are.   *)
(***************************************************************************)
EXTENDS Faults, FiniteSets

CONSTANTS
    Calls,      \* calls that can be running at the same time
    Pids,       \* policy ids the controller can assign
    Roles,      \* the type, identity roles and service roles of a policy, as one value
    None        \* no policy, no id

ASSUME NoneAssumption == None \notin Pids \cup Roles

VARIABLES
    policy,     \* id of the policy of the name, or None
    roles,      \* the roles each id was created with, None for an unused id
    call,       \* what each call asks for and where it stands
    disturbed,  \* history: calls that met a fault or ran beside another call
    before,     \* history: the policy when each call began
    wanted,     \* whether an owner wants a policy of the name and has no answer
    answer      \* the last answer of each call

vars == <<policy, roles, call, faults, disturbed, before, wanted, answer>>

Idle == [at |-> "idle", roles |-> None, existing |-> FALSE, id |-> None]
NoAnswer == [res |-> "none", asked |-> Idle, id |-> None]

Init ==
    /\ policy = None
    /\ roles = [p \in Pids |-> None]
    /\ call = [c \in Calls |-> Idle]
    /\ FaultsInit
    /\ disturbed = {}
    /\ before = [c \in Calls |-> None]
    /\ wanted = FALSE
    /\ answer = [c \in Calls |-> NoAnswer]

Smoothly == NoFault /\ UNCHANGED disturbed
Disturb(c, kind) == Fault(kind) /\ disturbed' = disturbed \cup {c}

Goto(c, step) == call' = [call EXCEPT ![c].at = step] /\ UNCHANGED <<answer, wanted>>

Return(c, res, id) ==
    /\ call' = [call EXCEPT ![c] = Idle]
    /\ answer' = [answer EXCEPT ![c] = [res |-> res, asked |-> call[c], id |-> id]]
    /\ wanted' = (wanted /\ ~(res = "ok" /\ call[c].existing))

Running(S) == {c \in S : call[c] # Idle}

Begin(c, what) ==
    /\ call[c] = Idle
    /\ call' = [call EXCEPT ![c] = what]
    /\ answer' = [answer EXCEPT ![c] = NoAnswer]
    /\ before' = [before EXCEPT ![c] = policy]
    /\ disturbed' = LET others == Running(Calls) IN
          IF others = {} THEN disturbed \ {c} ELSE disturbed \cup others \cup {c}
    /\ UNCHANGED <<policy, roles, faults>>

---------------------------------------------------------------------------
(* CreateServicePolicy                                                     *)

Unused == {p \in Pids : roles[p] = None}

\* Which of the unused ids it is makes no difference, so one stands for all.
Assignable == IF Unused = {} THEN {} ELSE {CHOOSE p \in Unused : TRUE}

\* Bound: a create starts only while there is an unused id left for it.
StartCreate(c, r, existing) ==
    /\ Cardinality({d \in Calls : call[d].at = "create"}) < Cardinality(Unused)
    /\ Begin(c, [at |-> "create", roles |-> r, existing |-> existing, id |-> None])
    /\ wanted' = (wanted \/ existing)

Make(c, p) ==
    /\ policy = None
    /\ policy' = p
    /\ roles' = [roles EXCEPT ![p] = call[c].roles]

\* Variant: the failure is the answer.
FailAtOnce(c) == Return(c, "failed", None)

\* Any error of the create, also one after it took effect, leads to the lookup.
CreateFailed(c) ==
    IF call[c].existing THEN Goto(c, "find") ELSE Return(c, "failed", None)

CreateServicePolicyWithTags(c) ==
    /\ call[c].at = "create"
    /\ \/ \E p \in Assignable : Make(c, p) /\ Return(c, "ok", p) /\ Smoothly
       \/ policy # None /\ CreateFailed(c) /\ Smoothly /\ UNCHANGED <<policy, roles>>
       \/ Disturb(c, "refused") /\ CreateFailed(c) /\ UNCHANGED <<policy, roles>>
       \/ Disturb(c, "lost") /\ CreateFailed(c) /\ \E p \in Assignable : Make(c, p)
    /\ UNCHANGED before

getServicePolicyByName(c) ==
    /\ call[c].at = "find"
    /\ \/ policy # None /\ Return(c, "ok", policy) /\ Smoothly
       \/ policy = None /\ Return(c, "failed", None) /\ Smoothly
       \/ Disturb(c, "refused") /\ Return(c, "failed", None)
    /\ UNCHANGED <<policy, roles, before>>

---------------------------------------------------------------------------
(* DeleteServicePolicy                                                     *)

StartDelete(c, p) ==
    /\ roles[p] # None
    /\ Begin(c, [at |-> "delete", roles |-> None, existing |-> FALSE, id |-> p])
    /\ UNCHANGED wanted

\* A policy that is already gone is deleted.
DeleteServicePolicy(c) ==
    LET after == IF policy = call[c].id THEN None ELSE policy IN
    /\ call[c].at = "delete"
    /\ \/ Smoothly /\ policy' = after /\ Return(c, "ok", call[c].id)
       \/ Disturb(c, "refused") /\ UNCHANGED policy /\ Return(c, "failed", None)
       \/ Disturb(c, "lost") /\ policy' = after /\ Return(c, "failed", None)
    /\ UNCHANGED <<roles, before>>

---------------------------------------------------------------------------

\* A cancelled context fails the call the handler is making, and every later one.
Cancel(c) ==
    /\ call[c] # Idle
    /\ Disturb(c, "stop")
    /\ Return(c, "failed", None)
    /\ UNCHANGED <<policy, roles, before>>

Handler(c) == \/ CreateServicePolicyWithTags(c) \/ getServicePolicyByName(c)
              \/ DeleteServicePolicy(c)

Next == \E c \in Calls :
    \/ Handler(c) \/ Cancel(c)
    \/ \E r \in Roles, existing \in BOOLEAN : StartCreate(c, r, existing)
    \/ \E p \in Pids : StartDelete(c, p)

Spec == Init /\ [][Next]_vars

\* Handlers finish, and an owner that wants a policy asks again, however
\* often the capacity for a call is taken by others.
FairSpec ==
    /\ Spec
    /\ \A c \in Calls : WF_vars(Handler(c))
    /\ SF_vars(wanted /\ \E c \in Calls, r \in Roles : StartCreate(c, r, TRUE))

---------------------------------------------------------------------------
(* Properties                                                              *)

Ends(c) == call[c].at \in {"create", "find"} /\ call'[c] = Idle

\* A create that meets no fault and runs alone tells the truth, whatever earlier
\* calls have left behind: OK means the live policy, with the roles it asked for
\* unless it was there before, and it fails only when the name is taken and it did
\* not ask for the existing policy.
LoneCreateTellsTruth ==
    [][\A c \in Calls : Ends(c) /\ c \notin disturbed' =>
         LET end == answer'[c] IN
         /\ end.res = "ok" =>
              /\ policy' = end.id
              /\ roles'[end.id] = call[c].roles \/ before[c] = end.id
         /\ end.res = "failed" => before[c] # None /\ ~call[c].existing]_vars

\* An owner that retries with return_existing gets an answer, although lost answers
\* have left a policy of the name that it knows nothing about.
RetriedCreateSucceeds == wanted ~> ~wanted \/ Unused = {}
=============================================================================
