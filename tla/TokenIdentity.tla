--------------------------- MODULE TokenIdentity ---------------------------
(***************************************************************************)
(* Identities of devices and tunnels: CreateDeviceIdentity and             *)
(* CreateTunnelIdentity hand out an enrollment token and keep no row;      *)
(* DeleteDeviceIdentity and DeleteTunnelIdentity go by the identity's id.  *)
(*                                                                         *)
(* A tunnel identity has its credential as external id, which the          *)
(* controller keeps unique; a device has none, since a user owns many.     *)
(* The owner finds what failed creates left behind by its tag, with        *)
(* ListIdentitiesByTag, deletes it and asks again.                         *)
(***************************************************************************)
EXTENDS Faults, FiniteSets

CONSTANTS
    Calls,      \* calls that can be running at the same time
    Zids,       \* ids the controller can assign
    Users,      \* owners of devices
    Credentials,\* owners of tunnels
    None        \* no id, no owner

Owners == Users \cup Credentials

ASSUME NoneAssumption == None \notin Zids \cup Owners /\ Users \cap Credentials = {}

VARIABLES
    live,       \* identities that exist on the controller
    tag,        \* the owner each identity was created for, None for an unused id
    inflight,   \* owners with an abandoned create the controller still has to apply
    call,       \* what each call is about and where it stands
    wants,      \* owners that want an identity and have no answer
    handed,     \* identities whose token was handed out
    doomed,     \* identities an owner wants gone and has no OK for
    gone        \* history: identities whose deletion answered OK

owning == <<wants, handed, doomed, gone>>
vars == <<live, tag, inflight, call, owning, faults>>

Steps == {"idle", "create", "jwt", "delete"}
Idle == [at |-> "idle", o |-> None, z |-> None]

Init ==
    /\ live = {} /\ tag = [z \in Zids |-> None] /\ inflight = {}
    /\ call = [c \in Calls |-> Idle]
    /\ wants = {} /\ handed = {} /\ doomed = {} /\ gone = {}
    /\ FaultsInit

Return(c) == call' = [call EXCEPT ![c] = Idle]
Asking(o) == {c \in Calls : call[c].o = o}
Unused == {z \in Zids : tag[z] = None}

\* Ids are random: it makes no difference which of the unused ones is assigned, so
\* one stands for all.
Assignable == IF Unused = {} THEN {} ELSE {CHOOSE z \in Unused : TRUE}

---------------------------------------------------------------------------
(* CreateDeviceIdentity, CreateTunnelIdentity                              *)

\* Bound: a create starts only while there is an unused id left for it.
IdLeft == Cardinality({d \in Calls : call[d].at = "create"}) + Cardinality(inflight)
            < Cardinality(Unused)

\* An owner has one call at a time, and first gets rid of what it found.
StartCreate(c, o) ==
    /\ call[c] = Idle /\ o \in wants
    /\ Asking(o) = {} /\ \A z \in doomed : tag[z] # o
    /\ IdLeft
    /\ call' = [call EXCEPT ![c] = [at |-> "create", o |-> o, z |-> None]]
    /\ UNCHANGED <<live, tag, inflight, owning, faults>>

\* Variant: a device has its user as external id.
ExternalIDAlways(o) == {z \in live : tag[z] = o}

\* The identities whose external id makes a create for o a conflict.
InTheWay(o) == {z \in live : o \in Credentials /\ tag[z] = o}

Make(z, o) ==
    /\ InTheWay(o) = {}
    /\ live' = live \cup {z} /\ tag' = [tag EXCEPT ![z] = o]

\* Variant: an identity in the way is deleted.
CreateReplacing(c) ==
    /\ call[c].at = "create" /\ NoFault
    /\ \E z \in Assignable :
         /\ live' = (live \ InTheWay(call[c].o)) \cup {z}
         /\ tag' = [tag EXCEPT ![z] = call[c].o]
         /\ call' = [call EXCEPT ![c].at = "jwt", ![c].z = z]
    /\ UNCHANGED <<inflight, owning>>

CreateIdentity(c) ==
    /\ call[c].at = "create"
    /\ \/ /\ NoFault /\ UNCHANGED inflight
          /\ \E z \in Assignable : /\ Make(z, call[c].o)
                               /\ call' = [call EXCEPT ![c].at = "jwt", ![c].z = z]
       \/ /\ NoFault /\ InTheWay(call[c].o) # {}
          /\ Return(c) /\ UNCHANGED <<live, tag, inflight>>
       \/ Fault("refused") /\ Return(c) /\ UNCHANGED <<live, tag, inflight>>
       \/ /\ Fault("lost") /\ Return(c) /\ UNCHANGED inflight
          /\ \E z \in Assignable : Make(z, call[c].o)
       \/ /\ Fault("late") /\ Return(c) /\ inflight' = inflight \cup {call[c].o}
          /\ call[c].o \notin inflight /\ UNCHANGED <<live, tag>>
    /\ UNCHANGED owning

\* When it fails, the identity just created stays behind.
fetchEnrollmentJWT(c) ==
    /\ call[c].at = "jwt"
    /\ \/ /\ NoFault /\ call[c].z \in live
          /\ wants' = wants \ {call[c].o} /\ handed' = handed \cup {call[c].z}
       \/ NoFault /\ call[c].z \notin live /\ UNCHANGED <<wants, handed>>
       \/ Fault("refused") /\ UNCHANGED <<wants, handed>>
    /\ Return(c)
    /\ UNCHANGED <<live, tag, inflight, doomed, gone>>

---------------------------------------------------------------------------
(* DeleteDeviceIdentity, DeleteTunnelIdentity                              *)

StartDelete(c, z) ==
    /\ call[c] = Idle /\ z \in doomed
    /\ Asking(tag[z]) = {}
    /\ call' = [call EXCEPT ![c] = [at |-> "delete", o |-> tag[z], z |-> z]]
    /\ UNCHANGED <<live, tag, inflight, owning, faults>>

Deleted(c) == doomed' = doomed \ {call[c].z} /\ gone' = gone \cup {call[c].z}

\* Variant: an identity that is already gone is reported as an error.
DeleteReportsNotFound(c) ==
    /\ call[c].at = "delete"
    /\ live' = live \ {call[c].z}
    /\ \/ NoFault /\ call[c].z \in live /\ Deleted(c)
       \/ NoFault /\ call[c].z \notin live /\ UNCHANGED <<doomed, gone>>
       \/ Fault("lost") /\ UNCHANGED <<doomed, gone>>
    /\ Return(c)
    /\ UNCHANGED <<tag, inflight, wants, handed>>

\* An identity that is already gone is deleted.
DeleteIdentity(c) ==
    /\ call[c].at = "delete"
    /\ \/ NoFault /\ live' = live \ {call[c].z} /\ Deleted(c)
       \/ Fault("refused") /\ UNCHANGED <<live, doomed, gone>>
       \/ Fault("lost") /\ live' = live \ {call[c].z} /\ UNCHANGED <<doomed, gone>>
    /\ Return(c)
    /\ UNCHANGED <<tag, inflight, wants, handed>>

---------------------------------------------------------------------------
(* Owners, the controller and the process                                  *)

Want(o) ==
    /\ o \notin wants /\ wants' = wants \cup {o}
    /\ UNCHANGED <<live, tag, inflight, call, handed, doomed, gone, faults>>

\* ListIdentitiesByTag: everything of o that it was never handed.  Created with its
\* tag, an identity is never without.
Leftovers(o) == {z \in live : tag[z] = o} \ (handed \cup doomed)

SweepLeftovers(o) ==
    /\ Asking(o) = {} /\ Leftovers(o) # {}
    /\ doomed' = doomed \cup Leftovers(o)
    /\ UNCHANGED <<live, tag, inflight, call, wants, handed, gone, faults>>

\* A tunnel is given up before another one is wanted for its credential.
GiveUp(z) ==
    /\ z \in handed \ (doomed \cup gone)
    /\ doomed' = doomed \cup {z}
    /\ UNCHANGED <<live, tag, inflight, call, wants, handed, gone, faults>>

\* The create of a call that was cancelled or timed out arrives after all.
ApplyLate(o) ==
    /\ o \in inflight /\ inflight' = inflight \ {o}
    /\ IF InTheWay(o) # {} THEN UNCHANGED <<live, tag>>
       ELSE \E z \in Assignable : Make(z, o)
    /\ UNCHANGED <<call, owning, faults>>

\* A cancelled call, or a stop of the process it runs in.
Cancel(c) ==
    /\ call[c] # Idle /\ Fault("stop")
    /\ Return(c)
    /\ UNCHANGED <<live, tag, inflight, owning>>

Handler(c) == CreateIdentity(c) \/ fetchEnrollmentJWT(c) \/ DeleteIdentity(c)

Next ==
    \/ \E c \in Calls : \/ Handler(c) \/ Cancel(c)
                        \/ \E o \in Owners : StartCreate(c, o)
                        \/ \E z \in Zids : StartDelete(c, z)
    \/ \E o \in Owners : Want(o) \/ SweepLeftovers(o) \/ ApplyLate(o)
    \/ \E z \in Zids : GiveUp(z)

Spec == Init /\ [][Next]_vars

\* Handlers finish; an owner asks again, sweeps and deletes until it has its answer.
FairSpec ==
    /\ Spec
    /\ \A c \in Calls : WF_vars(Handler(c))
    /\ \A o \in Owners : SF_vars(\E c \in Calls : StartCreate(c, o)) /\ SF_vars(SweepLeftovers(o))
    /\ SF_vars(\E c \in Calls, z \in Zids : StartDelete(c, z))

---------------------------------------------------------------------------
(* Properties                                                              *)

\* Every variable has its type, and no step goes on without the id it is about.
TypeOK ==
    /\ live \subseteq Zids /\ tag \in [Zids -> Owners \cup {None}]
    /\ inflight \subseteq Owners
    /\ call \in [Calls -> [at : Steps, o : Owners \cup {None}, z : Zids \cup {None}]]
    /\ \A c \in Calls : call[c].at \in {"jwt", "delete"} => call[c].z \in Zids
    /\ wants \subseteq Owners
    /\ \A s \in {handed, doomed, gone} : s \subseteq Zids
    /\ faults \in [FaultKinds -> Nat]
    /\ \A k \in FaultKinds : faults[k] <= MaxFaults[k]
    /\ \A z \in live : tag[z] # None

\* What owners were told holds.  An identity that was handed out exists until its
\* owner gives it up: neither another create of the owner nor the removal of its
\* leftovers takes it away.  One whose deletion answered OK is gone for good, and
\* no create that arrives late brings it back.
AnswersHold == handed \ (doomed \cup gone) \subseteq live /\ gone \cap live = {}

\* However many devices a user has, and whatever is left of earlier creates, another
\* one is refused only because a call failed or was cancelled.
DevicesAreUnlimited ==
    [][\A c \in Calls :
         call[c].o \in Users /\ call[c].at \in {"create", "jwt"} /\ call'[c] = Idle
         => faults' # faults \/ call[c].z \in handed']_vars

\* The unique external id of an identity that a failed create left behind blocks
\* its owner only until it has found and deleted the leftover: it gets what it
\* wants in the end, or has an identity already.
WantedIsHanded ==
    \A o \in Owners :
        o \in wants ~> \/ o \notin wants \/ ~IdLeft
                       \/ \E z \in handed \ (doomed \cup gone) : tag[z] = o /\ o \in Credentials
=============================================================================
