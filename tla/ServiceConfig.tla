---------------------------- MODULE ServiceConfig ----------------------------
(***************************************************************************)
(* One Ziti service and its host.v1 and intercept.v1 configs on the        *)
(* controller: CreateService (with adoption of leftover configs, rollback  *)
(* and return_existing), UpdateService and DeleteService, as concurrent    *)
(* calls about the same service name.                                      *)
(*                                                                         *)
(* The controller keeps names unique, so there is at most one service of   *)
(* the name and one config per kind; deleting a config strips it from the  *)
(* service that uses it.  A value stands for everything a request writes:  *)
(* config data, tags and role attributes.                                  *)
(***************************************************************************)
EXTENDS Faults, FiniteSets

CONSTANTS
    Calls,      \* calls that can be running at the same time
    Cids, Sids, \* config ids and service ids the controller can assign
    Values,     \* what requests write
    Requests,   \* bound: the sets of config kinds a request may have data for
    None        \* no id, no value

Kinds == {"host", "intercept"}

ASSUME RequestsAssumption == Requests \subseteq SUBSET Kinds
ASSUME NoneAssumption == None \notin Cids \cup Sids \cup Values

VARIABLES
    config,     \* id of the config of each kind, or None
    data,       \* value last written to the config of each kind
    svc,        \* id of the service, or None
    attached,   \* ids of the configs attached to the service
    roles,      \* role attributes of the service
    call,       \* what each call is about and where it stands
    wanted,     \* a caller asks for the service until a create answers OK
    alone       \* history: calls that no other call overlaps or follows

ctrl == <<config, data, svc, attached, roles>>
vars == <<ctrl, faults, call, wanted, alone>>

Final == {"idle", "ok", "failed"}

\* need: kinds the request has data for; todo: those not handled yet; flag:
\* return_existing of a create, presence of role attributes in an update; ids:
\* configs to attach; created: those to roll back; found: id the last lookup
\* returned.  History: before and was, the configs and the service that existed when
\* the call started; escaped, configs it made and will not take back: their creation
\* was not answered, their deletion refused, or the call was cancelled.
Idle == [op |-> "none", at |-> "idle", need |-> {}, todo |-> {}, val |-> None,
         flag |-> FALSE, ids |-> {}, created |-> {}, found |-> None,
         sid |-> None, before |-> {}, was |-> None, escaped |-> {}]

Init ==
    /\ config = [k \in Kinds |-> None]
    /\ data = [k \in Kinds |-> None]
    /\ svc = None
    /\ attached = {}
    /\ roles = None
    /\ FaultsInit
    /\ call = [c \in Calls |-> Idle]
    /\ wanted = FALSE
    /\ alone = {}

Existing == {config[k] : k \in Kinds} \ {None}
Running(c) == call[c].at \notin Final

\* Ids are never used twice: one that nothing refers to stands for a new one, and
\* it makes no difference which of them.
Assignable(unused) == IF unused = {} THEN {} ELSE {CHOOSE i \in unused : TRUE}
FreshCids == Assignable(Cids \ (Existing \cup UNION {call[c].ids \cup call[c].created
                                  \cup call[c].before \cup {call[c].found} : c \in Calls}))
FreshSids == Assignable(Sids \ ({svc} \cup {call[c].sid : c \in Calls}))

\* The kind a call works on: the host config first.
Kind(c) == IF "host" \in call[c].todo THEN "host" ELSE "intercept"

Goto(c, step) == call' = [call EXCEPT ![c].at = step]

\* The handler answers; what it had in hand is forgotten.
Answer(calls, c, result) ==
    call' = [calls EXCEPT ![c] = [@ EXCEPT !.at = result, !.todo = {}, !.ids = {},
                                          !.created = {}, !.found = None]]

Start(c, request) ==
    /\ ~Running(c)
    /\ call' = [call EXCEPT ![c] = request]
    /\ alone' = IF \E d \in Calls \ {c} : Running(d) THEN {} ELSE {c}
    /\ UNCHANGED <<ctrl, faults>>

---------------------------------------------------------------------------
(* Calls to the controller.  Each is applied or not and answers or not.    *)

\* The effect with an answer, the effect without one, or no effect: refused, or
\* rejected by the controller because the precondition of the effect fails.
Works(pre, effect) == NoFault /\ pre /\ effect
Breaks(pre, effect, same) ==
    \/ NoFault /\ ~pre /\ same
    \/ Fault("refused") /\ same
    \/ Fault("lost") /\ pre /\ effect

NewConfig(k, i, v) ==
    /\ config' = [config EXCEPT ![k] = i]
    /\ data' = [data EXCEPT ![k] = v]
    /\ UNCHANGED <<svc, attached, roles>>

WriteConfig(k, v) ==
    data' = [data EXCEPT ![k] = v] /\ UNCHANGED <<config, svc, attached, roles>>

WriteRoles(v) == roles' = v /\ UNCHANGED <<config, data, svc, attached>>

---------------------------------------------------------------------------
(* CreateService, CreateServiceWithConfigsAndTags                          *)

StartCreate(c, kinds, v, existing) ==
    /\ Start(c, [Idle EXCEPT !.op = "create", !.at = "config", !.need = kinds,
                             !.todo = kinds, !.val = v, !.flag = existing,
                             !.before = Existing, !.was = svc])
    /\ UNCHANGED wanted

Want == ~wanted /\ wanted' = TRUE /\ UNCHANGED <<ctrl, faults, call, alone>>

\* createOrAdoptConfig: any error of the create leads to a lookup by name.
CreateConfig(c) ==
    /\ call[c].at = "config" /\ call[c].todo # {}
    /\ \E i \in FreshCids :
         LET k == Kind(c)
             pre == config[k] = None
             effect == NewConfig(k, i, call[c].val)
         IN \/ /\ Works(pre, effect)
               /\ call' = [call EXCEPT ![c].ids = @ \cup {i},
                                       ![c].created = @ \cup {i},
                                       ![c].todo = @ \ {k}]
            \/ /\ Breaks(pre, effect, UNCHANGED ctrl)
               /\ call' = [call EXCEPT ![c].at = "find",
                                       ![c].escaped = @ \cup (Existing' \ Existing)]
    /\ UNCHANGED <<wanted, alone>>

\* Variant: a config of the name is never adopted.
FindNothing(c) ==
    /\ call[c].at = "find"
    /\ NoFault /\ Goto(c, "rollback")
    /\ UNCHANGED <<ctrl, wanted, alone>>

\* findConfigIDByName
FindConfig(c) ==
    /\ call[c].at = "find"
    /\ \/ /\ NoFault /\ config[Kind(c)] # None
          /\ call' = [call EXCEPT ![c].at = "adopt", ![c].found = config[Kind(c)]]
       \/ NoFault /\ config[Kind(c)] = None /\ Goto(c, "rollback")
       \/ Fault("refused") /\ Goto(c, "rollback")
    /\ UNCHANGED <<ctrl, wanted, alone>>

\* Variant: an adopted config keeps its old data.
AdoptUnwritten(c) ==
    /\ call[c].at = "adopt"
    /\ NoFault
    /\ call' = [call EXCEPT ![c].at = "config", ![c].found = None,
                            ![c].ids = @ \cup {call[c].found},
                            ![c].todo = @ \ {Kind(c)}]
    /\ UNCHANGED <<ctrl, wanted, alone>>

\* Variant: an adopted config is rolled back like a created one.
AdoptAsCreated(c) ==
    /\ call[c].at = "adopt"
    /\ Works(config[Kind(c)] = call[c].found, WriteConfig(Kind(c), call[c].val))
    /\ call' = [call EXCEPT ![c].at = "config", ![c].found = None,
                            ![c].ids = @ \cup {call[c].found},
                            ![c].created = @ \cup {call[c].found},
                            ![c].todo = @ \ {Kind(c)}]
    /\ UNCHANGED <<wanted, alone>>

AdoptConfig(c) ==
    /\ call[c].at = "adopt"
    /\ LET k == Kind(c)
           pre == config[k] = call[c].found
           effect == WriteConfig(k, call[c].val)
       IN \/ /\ Works(pre, effect)
             /\ call' = [call EXCEPT ![c].at = "config", ![c].found = None,
                                     ![c].ids = @ \cup {call[c].found},
                                     ![c].todo = @ \ {k}]
          \/ Breaks(pre, effect, UNCHANGED ctrl) /\ Goto(c, "rollback")
    /\ UNCHANGED <<wanted, alone>>

\* The service comes last, with every config attached.
CreateZitiService(c) ==
    /\ call[c].at = "config" /\ call[c].todo = {}
    /\ \E s \in FreshSids :
         LET pre == svc = None /\ call[c].ids \subseteq Existing
             effect == /\ svc' = s /\ attached' = call[c].ids
                       /\ roles' = call[c].val /\ UNCHANGED <<config, data>>
         IN \/ /\ Works(pre, effect)
               /\ Answer([call EXCEPT ![c].sid = s], c, "ok")
               /\ wanted' = FALSE
            \/ /\ Breaks(pre, effect, UNCHANGED ctrl)
               /\ Goto(c, "rollback") /\ UNCHANGED wanted
    /\ UNCHANGED alone

\* cleanupConfigs: one attempt for each config this call created, going on to
\* the next whatever the result.
RollbackConfig(c) ==
    /\ call[c].at = "rollback"
    /\ \E i \in call[c].created :
         \/ /\ NoFault \/ Fault("lost")
            /\ config' = [k \in Kinds |-> IF config[k] = i THEN None ELSE config[k]]
            /\ data' = [k \in Kinds |-> IF config[k] = i THEN None ELSE data[k]]
            /\ attached' = attached \ {i}
            /\ call' = [call EXCEPT ![c].created = @ \ {i}]
         \/ /\ Fault("refused")
            /\ call' = [call EXCEPT ![c].created = @ \ {i}, ![c].escaped = @ \cup {i}]
            /\ UNCHANGED <<config, data, attached>>
    /\ UNCHANGED <<svc, roles, wanted, alone>>

\* After the failure, return_existing turns to the service of that name.
FindExisting(c) ==
    /\ call[c].at = "rollback" /\ call[c].created = {}
    /\ \/ /\ NoFault /\ call[c].flag /\ svc # None
          /\ call' = [call EXCEPT ![c].at = "patch", ![c].sid = svc]
       \/ NoFault /\ ~(call[c].flag /\ svc # None) /\ Answer(call, c, "failed")
       \/ Fault("refused") /\ call[c].flag /\ Answer(call, c, "failed")
    /\ UNCHANGED <<ctrl, wanted, alone>>

\* Variant: the existing service is handed back as it is.
ReturnExisting(c) ==
    /\ call[c].at = "patch"
    /\ Answer([call EXCEPT ![c].op = "adopt"], c, "ok")
    /\ wanted' = FALSE
    /\ UNCHANGED <<ctrl, faults, alone>>

\* PatchServiceRoleAttributes
PatchExisting(c) ==
    /\ call[c].at = "patch"
    /\ LET pre == svc = call[c].sid
           effect == WriteRoles(call[c].val)
       IN \/ /\ Works(pre, effect)
             /\ Answer([call EXCEPT ![c].op = "adopt"], c, "ok")
             /\ wanted' = FALSE
          \/ /\ Breaks(pre, effect, UNCHANGED ctrl)
             /\ Answer(call, c, "failed") /\ UNCHANGED wanted
    /\ UNCHANGED alone

---------------------------------------------------------------------------
(* UpdateService                                                           *)

StartUpdate(c, kinds, v, updateRoles) ==
    /\ svc # None
    /\ Start(c, [Idle EXCEPT !.op = "update", !.at = "detail", !.need = kinds,
                             !.todo = kinds, !.val = v, !.flag = updateRoles,
                             !.sid = svc])
    /\ UNCHANGED wanted

\* The configs the service has now; the patch at the end writes this list back.
DetailService(c) ==
    /\ call[c].at = "detail"
    /\ \/ /\ NoFault /\ svc = call[c].sid
          /\ call' = [call EXCEPT ![c].at = "upsert", ![c].ids = attached]
       \/ NoFault /\ svc # call[c].sid /\ Answer(call, c, "failed")
       \/ Fault("refused") /\ Answer(call, c, "failed")
    /\ UNCHANGED <<ctrl, wanted, alone>>

\* findServiceConfigByType looks among the configs attached to the service.
FindServiceConfig(c) ==
    /\ call[c].at = "upsert" /\ call[c].todo # {}
    /\ LET i == config[Kind(c)] IN
       \/ /\ NoFault /\ svc = call[c].sid /\ i \in attached
          /\ call' = [call EXCEPT ![c].at = "rewrite", ![c].found = i]
       \/ NoFault /\ svc = call[c].sid /\ i \notin attached /\ Goto(c, "newconfig")
       \/ NoFault /\ svc # call[c].sid /\ Answer(call, c, "failed")
       \/ Fault("refused") /\ Answer(call, c, "failed")
    /\ UNCHANGED <<ctrl, wanted, alone>>

\* A config of the name that is not attached to the service is a conflict, and
\* here it is not adopted.
CreateMissingConfig(c) ==
    /\ call[c].at = "newconfig"
    /\ \E i \in FreshCids :
         LET k == Kind(c)
             pre == config[k] = None
             effect == NewConfig(k, i, call[c].val)
         IN \/ /\ Works(pre, effect)
               /\ call' = [call EXCEPT ![c].at = "upsert", ![c].todo = @ \ {k},
                                       ![c].ids = @ \cup {i}]
            \/ Breaks(pre, effect, UNCHANGED ctrl) /\ Answer(call, c, "failed")
    /\ UNCHANGED <<wanted, alone>>

RewriteConfig(c) ==
    /\ call[c].at = "rewrite"
    /\ LET k == Kind(c)
           pre == config[k] = call[c].found
           effect == WriteConfig(k, call[c].val)
       IN \/ /\ Works(pre, effect)
             /\ call' = [call EXCEPT ![c].at = "upsert", ![c].todo = @ \ {k},
                                     ![c].ids = @ \cup {call[c].found},
                                     ![c].found = None]
          \/ Breaks(pre, effect, UNCHANGED ctrl) /\ Answer(call, c, "failed")
    /\ UNCHANGED <<wanted, alone>>

\* Variant: the patch leaves the configs out.
PatchWithoutConfigs(c) ==
    /\ call[c].at = "upsert" /\ call[c].todo = {}
    /\ Works(svc = call[c].sid, WriteRoles(IF call[c].flag THEN call[c].val ELSE roles))
    /\ Answer(call, c, "ok")
    /\ UNCHANGED <<wanted, alone>>

\* The detail read after the patch decides the answer only.
PatchService(c) ==
    /\ call[c].at = "upsert" /\ call[c].todo = {}
    /\ LET pre == svc = call[c].sid /\ (call[c].need # {} => call[c].ids \subseteq Existing)
           effect == /\ attached' = IF call[c].need # {} THEN call[c].ids ELSE attached
                     /\ roles' = IF call[c].flag THEN call[c].val ELSE roles
                     /\ UNCHANGED <<config, data, svc>>
       IN \/ Works(pre, effect) /\ Answer(call, c, "ok")
          \/ Breaks(pre, effect, UNCHANGED ctrl) /\ Answer(call, c, "failed")
    /\ UNCHANGED <<wanted, alone>>

---------------------------------------------------------------------------
(* DeleteService, and the environment                                      *)

\* The service goes, its configs stay.
DeleteService ==
    /\ svc # None
    /\ svc' = None /\ attached' = {} /\ roles' = None
    /\ alone' = {}
    /\ UNCHANGED <<config, data, faults, call, wanted>>

\* A cancelled context fails every later call of its handler, rollback included.
Cancel(c) ==
    /\ Running(c)
    /\ Fault("stop")
    /\ Answer([call EXCEPT ![c].escaped = @ \cup call[c].created], c, "failed")
    /\ UNCHANGED <<ctrl, wanted, alone>>

Handler(c) ==
    \/ CreateConfig(c) \/ FindConfig(c) \/ AdoptConfig(c) \/ CreateZitiService(c)
    \/ RollbackConfig(c) \/ FindExisting(c) \/ PatchExisting(c)
    \/ DetailService(c) \/ FindServiceConfig(c) \/ CreateMissingConfig(c)
    \/ RewriteConfig(c) \/ PatchService(c)

Ask(c, existing) ==
    \E kinds \in Requests, v \in Values : StartCreate(c, kinds, v, existing)

Next ==
    \/ \E c \in Calls :
         \/ Handler(c) \/ Cancel(c)
         \/ \E existing \in BOOLEAN : Ask(c, existing)
         \/ \E kinds \in Requests, v \in Values, b \in BOOLEAN :
               StartUpdate(c, kinds, v, b)
    \/ Want
    \/ DeleteService

Spec == Init /\ [][Next]_vars

\* Handlers finish, and while the service is wanted it is asked for again, with
\* return_existing.
FairSpec ==
    /\ Spec
    /\ \A c \in Calls : WF_vars(Handler(c))
    /\ SF_vars(wanted /\ \E c \in Calls : Ask(c, TRUE))

---------------------------------------------------------------------------
(* Properties                                                              *)

Succeeded(c, op) == call[c].op = op /\ call[c].at = "ok"

\* The configs of these kinds belong to the service and carry this value.
Configured(kinds, v) == \A k \in kinds : config[k] \in attached /\ data[k] = v

\* A create that answers OK, undisturbed, where there was no service has made one as
\* asked, with exactly the configs of its request, whatever orphans it had to adopt on
\* the way; except that when the answer of createService is lost, the rollback takes
\* the configs this call made from the service this call made, before return_existing
\* finds that service and answers OK.  What is left then are configs as asked for, and
\* all that were there when the call started.
LoneCreateConfigures ==
    \A c \in alone :
        (Succeeded(c, "create") \/ Succeeded(c, "adopt")) /\ call[c].was = None =>
            LET stripped == {k \in call[c].need : config[k] = None}
                kept == call[c].need \ stripped
            IN /\ svc = call[c].sid /\ roles = call[c].val
               /\ Configured(kept, call[c].val) /\ Cardinality(attached) = Cardinality(kept)
               /\ stripped # {} => call[c].op = "adopt" /\ faults["lost"] > 0
               /\ call[c].before \subseteq Existing

\* "Adoption has to converge": a create that answers with the existing service
\* leaves it with the role attributes asked for.
AdoptionConverges ==
    \A c \in alone : Succeeded(c, "adopt") => svc = call[c].sid /\ roles = call[c].val

\* A create that fails or hands back a service, undisturbed, takes back every config it
\* made, except one whose creation was not answered, one whose deletion was refused, and
\* those it had in hand when it was cancelled; and it never takes away a config that was
\* there before it, whatever goes wrong.
FailedCreateTakesBack ==
    \A c \in alone :
        Succeeded(c, "adopt") \/ (call[c].op = "create" /\ call[c].at = "failed") =>
            Existing = call[c].before \cup call[c].escaped

\* An update that answers OK, undisturbed, has attached and written the configs
\* it was given, and set the role attributes if it was given any.
LoneUpdateConverges ==
    \A c \in alone : Succeeded(c, "update") =>
        /\ svc = call[c].sid
        /\ Configured(call[c].need, call[c].val)
        /\ call[c].flag => roles = call[c].val

\* An interrupted create never wedges its retries: asking for the service with
\* return_existing ends with an OK, whatever orphan configs were left behind.
RetriedCreateSucceeds == wanted ~> ~wanted

\* What the rollback is for: it must not strip a config from a live service.
LiveServiceKeepsConfigs ==
    [][svc # None /\ svc' = svc => attached \subseteq Existing']_vars
=============================================================================
