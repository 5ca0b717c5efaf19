--------------------------- MODULE RoleAttributes ---------------------------
(***************************************************************************)
(* PatchIdentityRoleAttributes on one identity: read the role attributes,  *)
(* merge the request into them, write the whole list back.  Calls overlap, *)
(* and a call that gave up can leave its write on its way to the           *)
(* controller, which then applies it late.                                 *)
(***************************************************************************)
EXTENDS Faults, SequencesExt

CONSTANTS
    Calls,      \* calls that can be running at the same time
    Attributes, \* role attributes
    Requests    \* what a call can ask for

ASSUME RequestsAssumption ==
    Requests \subseteq [add : Seq(Attributes), remove : Seq(Attributes)]

VARIABLES
    live,       \* whether the identity exists
    attrs,      \* its role attributes on the controller
    at,         \* where each call stands
    asked,      \* the request of each call
    seen,       \* the role attributes each call has read
    inflight,   \* calls whose abandoned write the controller still has to apply
    overtaken   \* history: calls since whose read another write took place

patching == <<live, attrs, at, asked, seen, inflight, faults, overtaken>>

Final == {"idle", "ok", "notfound", "failed"}

NoRequest == [add |-> <<>>, remove |-> <<>>]

PatchInit ==
    /\ live = TRUE
    /\ attrs \in {<<>>} \cup {<<a>> : a \in Attributes}
    /\ at = [c \in Calls |-> "idle"]
    /\ asked = [c \in Calls |-> NoRequest]
    /\ seen = [c \in Calls |-> <<>>]
    /\ inflight = {}
    /\ FaultsInit
    /\ overtaken = {}

Goto(c, step) == at' = [at EXCEPT ![c] = step]

\* What c has read and asked for matters no more.
Forget(c) ==
    /\ asked' = [asked EXCEPT ![c] = NoRequest]
    /\ seen' = [seen EXCEPT ![c] = <<>>]

\* The loops that write the list: an entry is appended if it is left to write, and
\* then is not any more.
Pass(list, todo) ==
    LET pass[n \in 0..Len(list)] ==
            IF n = 0 THEN [out |-> <<>>, left |-> todo]
            ELSE IF list[n] \in pass[n - 1].left
            THEN [out |-> Append(pass[n - 1].out, list[n]), left |-> pass[n - 1].left \ {list[n]}]
            ELSE pass[n - 1]
    IN pass[Len(list)].out

\* Variant: what is asked for is added after the removal.
PatchAddWins(current, request) ==
    Pass(current \o request.add,
         (ToSet(current) \ ToSet(request.remove)) \cup ToSet(request.add))

\* Variant: the request replaces the list.
PatchReplaces(current, request) ==
    Pass(request.add, ToSet(request.add) \ ToSet(request.remove))

\* What was there first, in its order, then what is new; a removal wins.
patchRoleAttributes(current, request) ==
    Pass(current \o request.add,
         (ToSet(current) \cup ToSet(request.add)) \ ToSet(request.remove))

---------------------------------------------------------------------------
(* Handler                                                                 *)

Start(c, request) ==
    /\ at[c] \in Final /\ c \notin inflight
    /\ asked' = [asked EXCEPT ![c] = request]
    /\ Goto(c, "detail")
    /\ UNCHANGED <<live, attrs, seen, inflight, faults, overtaken>>

detailIdentity(c) ==
    /\ at[c] = "detail"
    /\ \/ /\ NoFault /\ live /\ Goto(c, "patch")
          /\ seen' = [seen EXCEPT ![c] = attrs] /\ UNCHANGED asked
       \/ NoFault /\ ~live /\ Goto(c, "notfound") /\ Forget(c)
       \/ Fault("refused") /\ Goto(c, "failed") /\ Forget(c)
    /\ UNCHANGED <<live, attrs, inflight, overtaken>>

\* The controller replaces the list of the identity with the one c computed.
Write(c) ==
    /\ live
    /\ attrs' = patchRoleAttributes(seen[c], asked[c])
    /\ overtaken' = {d \in Calls \ {c} : at[d] = "patch" \/ d \in inflight}
    /\ Forget(c)

WriteNothing(c) == UNCHANGED attrs /\ overtaken' = overtaken \ {c} /\ Forget(c)

PatchIdentity(c) ==
    /\ at[c] = "patch"
    /\ \/ NoFault /\ Write(c) /\ Goto(c, "ok") /\ UNCHANGED inflight
       \/ NoFault /\ ~live /\ WriteNothing(c) /\ Goto(c, "notfound") /\ UNCHANGED inflight
       \/ Fault("refused") /\ WriteNothing(c) /\ Goto(c, "failed") /\ UNCHANGED inflight
       \/ Fault("lost") /\ Write(c) /\ Goto(c, "failed") /\ UNCHANGED inflight
       \/ /\ Fault("late") /\ Goto(c, "failed") /\ inflight' = inflight \cup {c}
          /\ UNCHANGED <<attrs, asked, seen, overtaken>>
    /\ UNCHANGED live

---------------------------------------------------------------------------
(* The environment                                                         *)

\* The write of a call that was cancelled or timed out arrives after all.
ApplyLate(c) ==
    /\ c \in inflight
    /\ inflight' = inflight \ {c}
    /\ Write(c) \/ (~live /\ WriteNothing(c))
    /\ UNCHANGED <<live, at, faults>>

DeleteIdentity ==
    /\ live /\ live' = FALSE
    /\ UNCHANGED <<attrs, at, asked, seen, inflight, faults, overtaken>>

PatchNext ==
    \/ \E c \in Calls : \/ \E request \in Requests : Start(c, request)
                        \/ detailIdentity(c) \/ PatchIdentity(c) \/ ApplyLate(c)
    \/ DeleteIdentity

PatchSpec == PatchInit /\ [][PatchNext]_patching

---------------------------------------------------------------------------
(* Properties                                                              *)

\* What comes first in the one list comes first in the other.
KeepsOrder(new, list) ==
    \A p, q \in DOMAIN new : p < q =>
        \E i \in DOMAIN list : list[i] = new[p] /\ \A j \in 1..i : list[j] # new[q]

\* The list a call is about to write, or has on its way, whatever was read and
\* asked, holds each attribute of (read + added) - removed once, and in the order
\* in which they were read and then added.
MergeMeetsReference ==
    \A c \in Calls : at[c] = "patch" \/ c \in inflight =>
        LET new == patchRoleAttributes(seen[c], asked[c])
        IN /\ ToSet(new) = (ToSet(seen[c]) \cup ToSet(asked[c].add)) \ ToSet(asked[c].remove)
           /\ IsInjective(new)
           /\ KeepsOrder(new, seen[c] \o asked[c].add)

Wrote(c) ==
    /\ live
    /\ \/ at[c] = "patch" /\ (at'[c] = "ok" \/ faults'["lost"] # faults["lost"])
                          /\ at'[c] # "patch"
       \/ c \in inflight /\ c \notin inflight'

\* A write changes what its own call asked for and nothing else: no attribute
\* that another call added is lost, and none that it removed comes back, unless
\* that call wrote between this one's read and its write, however late the write
\* arrives.
LossNeedsOvertaking ==
    [][\A c \in Calls : Wrote(c) /\ c \notin overtaken =>
          ToSet(attrs') = (ToSet(attrs) \cup ToSet(asked[c].add))
                              \ ToSet(asked[c].remove)]_patching
=============================================================================
