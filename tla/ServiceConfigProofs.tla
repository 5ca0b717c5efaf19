------------------------- MODULE ServiceConfigProofs -------------------------
(***************************************************************************)
(* What a call about a service leaves behind when no other call overlaps   *)
(* or follows it, however many calls came before it and whatever they left *)
(* on the controller; and that the data it writes is usable: whatever      *)
(* passes the validation can be dialled, is what was asked for, and        *)
(* nothing good is refused.                                                *)
(***************************************************************************)
EXTENDS ServiceConfig, ConfigData, FiniteSetTheorems, TLAPS

---------------------------------------------------------------------------
(* The inductive invariant *)

CreateSteps == {"config", "find", "adopt", "rollback", "patch"}
UpdateSteps == {"detail", "upsert", "newconfig", "rewrite"}
CallType ==
    [op : {"none", "create", "adopt", "update"}, at : CreateSteps \cup UpdateSteps \cup Final,
     need : SUBSET Kinds, todo : SUBSET Kinds, val : Values \cup {None},
     flag : BOOLEAN, ids : SUBSET Cids, created : SUBSET Cids,
     found : Cids \cup {None}, sid : Sids \cup {None}, before : SUBSET Cids,
     was : Sids \cup {None}, escaped : SUBSET Cids]

\* A call takes the steps of its operation, and only with kinds left to handle those
\* that handle one.
Consistent(r) ==
    /\ r.op = "none" => r.at = "idle"
    /\ r.op = "adopt" => r.at = "ok"
    /\ r.at \in CreateSteps => r.op = "create"
    /\ r.at \in UpdateSteps => r.op = "update"
    /\ r.todo \subseteq r.need
    /\ r.at \in {"find", "adopt", "newconfig", "rewrite"} => r.todo # {}
    /\ r.at \in {"adopt", "rewrite"} => r.found \in Cids
    /\ r.at = "detail" => r.todo = r.need
    /\ r.at \in Final => r.created = {}

\* No config id serves two kinds.
StoreOK ==
    /\ config \in [Kinds -> Cids \cup {None}]
    /\ data \in [Kinds -> Values \cup {None}]
    /\ svc \in Sids \cup {None}
    /\ attached \in SUBSET Cids
    /\ roles \in Values \cup {None}
    /\ config["host"] = config["intercept"] => config["host"] = None

KindOf(r) == IF "host" \in r.todo THEN "host" ELSE "intercept"
Undisturbed(c) == \A d \in Calls \ {c} : ~Running(d)

\* What a call has handled exists, is in its list and has its value; a create
\* attaches nothing else.
Collected(r) ==
    r.at \in {"config", "find", "adopt", "upsert", "newconfig", "rewrite"} =>
        /\ \A k \in r.need \ r.todo : config[k] \in r.ids /\ data[k] = r.val
        /\ r.op = "create" => r.ids = {config[k] : k \in r.need \ r.todo}

\* What a lookup found is still there.
Looked(r) ==
    /\ r.at \in {"adopt", "rewrite"} => r.found = config[KindOf(r)]
    /\ r.at = "patch" => svc = r.sid /\ svc # None /\ r.created = {}

\* What an OK stands for.
Answered(r) ==
    r.at = "ok" =>
        /\ svc = r.sid
        /\ r.op = "create" => /\ roles = r.val
                              /\ attached = {config[k] : k \in r.need}
                              /\ Configured(r.need, r.val)
        /\ r.op = "adopt" => roles = r.val /\ svc # None
        /\ r.op = "update" => Configured(r.need, r.val) /\ (r.flag => roles = r.val)

\* Of the configs that exist a create has found some, made others, and lost track of
\* the rest of those it made.
Owned(r) ==
    /\ r.op \in {"create", "adopt"} => r.before \subseteq Existing
    /\ (r.op = "create" /\ r.at # "ok") \/ r.op = "adopt" =>
            /\ Existing = r.before \cup r.escaped \cup r.created
            /\ (r.before \cup r.escaped) \cap r.created = {}

\* A create that has made the service without being told: what its rollback leaves is
\* attached and as asked for.
Stripped(r) ==
    /\ roles = r.val /\ faults["lost"] > 0
    /\ attached = {config[k] : k \in {j \in r.need : config[j] # None}}
    /\ \A k \in r.need : config[k] # None => data[k] = r.val

\* Until its own createService the service is as a create found it; what is there
\* afterwards, and was not before, is its own.
Made(r) ==
    /\ r.at \in {"config", "find", "adopt"} => svc = r.was
    /\ r.at \in {"rollback", "patch"} \/ r.op = "adopt" =>
            r.was # None \/ svc = None \/ Stripped(r)

Lone(r) == Collected(r) /\ Looked(r) /\ Answered(r) /\ Owned(r) /\ Made(r)

IInv ==
    /\ StoreOK
    /\ faults \in [FaultKinds -> Nat]
    /\ call \in [Calls -> CallType]
    /\ \A c \in Calls : Consistent(call[c])
    /\ alone \in SUBSET Calls
    /\ \A c \in alone : Undisturbed(c) /\ Lone(call[c])

---------------------------------------------------------------------------
(* Steps that leave the calls of others alone *)

\* A step of a running call needs to be looked at for that call only: if another
\* one were alone, this one would not be running.
LEMMA StepSuffices ==
    ASSUME IInv, NEW c \in Calls, Running(c), NEW q \in CallType, Consistent(q),
           call' = [call EXCEPT ![c] = q], alone' = alone,
           StoreOK', faults' \in [FaultKinds -> Nat], c \in alone => Lone(q)'
    PROVE  IInv'
<1>1. call' \in [Calls -> CallType] /\ call'[c] = q
  BY DEF IInv
<1>2. \A d \in Calls \ {c} : call'[d] = call[d]
  BY DEF IInv
<1>3. \A d \in Calls : Consistent(call'[d])
  BY <1>1, <1>2 DEF IInv
<1>4. ASSUME NEW d \in alone PROVE d = c
  BY <1>4 DEF IInv, Undisturbed
<1>5. ASSUME NEW d \in alone PROVE Undisturbed(d)' /\ Lone(call[d])'
  <2>1. d = c BY <1>4, <1>5
  <2>2. Undisturbed(c)'
    BY <1>2, <1>5, <2>1 DEF IInv, Undisturbed, Running
  <2>3. Lone(call[c])'
    BY <1>1, <1>5, <2>1
  <2> QED BY <2>1, <2>2, <2>3
<1> QED BY <1>1, <1>3, <1>5 DEF IInv

\* The kind a call works on is one it has not handled yet.
LEMMA KindIsPending ==
    ASSUME NEW r \in CallType, r.todo # {}
    PROVE  KindOf(r) \in r.todo /\ KindOf(r) \in Kinds
BY DEF KindOf, CallType, Kinds

\* A fresh config id is nowhere in the store and in no call.
LEMMA FreshIsNew ==
    ASSUME IInv, NEW c \in Calls, NEW i \in FreshCids
    PROVE  /\ i \in Cids /\ i # None
           /\ \A k \in Kinds : config[k] # i
           /\ i \notin call[c].before
<1> DEFINE U == Cids \ (Existing \cup UNION {call[d].ids \cup call[d].created
                                \cup call[d].before \cup {call[d].found} : d \in Calls})
<1>1. i \in Assignable(U)
  BY DEF FreshCids
<1>2. i \in U
  <2> HIDE DEF U
  <2>1. U # {} /\ i = CHOOSE j \in U : TRUE
    BY <1>1 DEF Assignable
  <2> QED BY <2>1
<1>3. i \in Cids /\ i # None
  BY <1>2, NoneAssumption
<1>4. \A k \in Kinds : config[k] # i
  BY <1>2, <1>3 DEF Existing
<1>5. i \notin call[c].before
  BY <1>2
<1> QED BY <1>3, <1>4, <1>5

\* Faults only add up.
LEMMA FaultEffect ==
    ASSUME faults \in [FaultKinds -> Nat], NEW kind \in {"refused", "lost", "stop"}, Fault(kind)
    PROVE  /\ faults' \in [FaultKinds -> Nat]
           /\ faults["lost"] > 0 \/ kind = "lost" => faults'["lost"] > 0
BY DEF Fault, FaultKinds

\* What the creation of a config does to the store.
LEMMA NewConfigEffect ==
    ASSUME StoreOK, NEW k \in Kinds, NEW i \in Cids, i # None, \A j \in Kinds : config[j] # i,
           NEW v \in Values \cup {None}, config[k] = None, NewConfig(k, i, v)
    PROVE  /\ StoreOK'
           /\ config'[k] = i /\ data'[k] = v
           /\ \A j \in Kinds \ {k} : config'[j] = config[j] /\ data'[j] = data[j]
           /\ Existing' = Existing \cup {i}
<1>1. config'[k] = i /\ data'[k] = v
  BY DEF StoreOK, NewConfig
<1>2. \A j \in Kinds \ {k} : config'[j] = config[j] /\ data'[j] = data[j]
  BY DEF StoreOK, NewConfig
<1>3. Existing' = Existing \cup {i}
  BY <1>1, <1>2 DEF Existing
<1>4. StoreOK'
  BY <1>1, <1>2 DEF StoreOK, NewConfig, Kinds
<1> QED BY <1>1, <1>2, <1>3, <1>4

\* What writing a config does to the store.
LEMMA WriteConfigEffect ==
    ASSUME StoreOK, NEW k \in Kinds, NEW v \in Values \cup {None}, WriteConfig(k, v)
    PROVE  /\ StoreOK' /\ config' = config /\ svc' = svc /\ Existing' = Existing
           /\ data'[k] = v
           /\ \A j \in Kinds \ {k} : data'[j] = data[j]
BY DEF StoreOK, WriteConfig, Existing

\* A step that leaves the controller as it is.
LEMMA SameStore ==
    ASSUME StoreOK, UNCHANGED ctrl
    PROVE  /\ StoreOK' /\ config' = config /\ data' = data /\ svc' = svc
           /\ attached' = attached /\ roles' = roles /\ Existing' = Existing
BY DEF StoreOK, ctrl, Existing

\* What is known of a running call.
LEMMA RunningCall ==
    ASSUME IInv, NEW c \in Calls, call[c].at \in CreateSteps \cup UpdateSteps
    PROVE  /\ Running(c) /\ call[c] \in CallType /\ Consistent(call[c])
           /\ c \in alone => Lone(call[c])
BY DEF IInv, Running, Final, CreateSteps, UpdateSteps

\* A call ends with an error: of a create it must be known what it leaves behind.
LEMMA CallFails ==
    ASSUME IInv, NEW c \in Calls, NEW r, call[c] = r, r.at \in CreateSteps \cup UpdateSteps,
           NEW e \in SUBSET Cids, StoreOK', faults' \in [FaultKinds -> Nat], alone' = alone,
           call' = [call EXCEPT ![c] = [r EXCEPT !.at = "failed", !.todo = {}, !.ids = {},
                                        !.created = {}, !.found = None, !.escaped = e]],
           c \in alone /\ r.op = "create" =>
                r.before \subseteq Existing' /\ Existing' = r.before \cup e
    PROVE  IInv'
<1> DEFINE q == [r EXCEPT !.at = "failed", !.todo = {}, !.ids = {}, !.created = {},
                          !.found = None, !.escaped = e]
<1>1. Running(c) /\ r \in CallType /\ Consistent(r)
  BY RunningCall
<1>2. call' = [call EXCEPT ![c] = q]
  OBVIOUS
<1>3. /\ q \in CallType /\ q.op = r.op /\ q.at = "failed" /\ q.before = r.before
      /\ q.escaped = e /\ q.created = {}
  BY <1>1 DEF CallType, Final
<1>4. Consistent(q)
  BY <1>1 DEF Consistent, CallType, CreateSteps, UpdateSteps
<1> HIDE DEF q
<1>5. r.op # "adopt"
  BY <1>1 DEF Consistent, CreateSteps, UpdateSteps
<1>6. c \in alone => Lone(q)'
  BY <1>3, <1>5 DEF Lone, Collected, Looked, Answered, Owned, Made
<1> QED BY <1>1, <1>2, <1>3, <1>4, <1>6, StepSuffices

\* One that fails by itself has taken back what it had made.
LEMMA AnswerFailed ==
    ASSUME IInv, NEW c \in Calls, NEW r, call[c] = r, r.at \in CreateSteps \cup UpdateSteps,
           Answer(call, c, "failed"), StoreOK', faults' \in [FaultKinds -> Nat], alone' = alone,
           c \in alone /\ r.op = "create" => r.created = {} /\ Existing' = Existing
    PROVE  IInv'
<1>1. r \in CallType /\ (c \in alone => Lone(r)) /\ Consistent(r)
  BY RunningCall
<1>2. PICK e \in SUBSET Cids : e = r.escaped
  BY <1>1 DEF CallType
<1>3. [r EXCEPT !.at = "failed", !.todo = {}, !.ids = {}, !.created = {}, !.found = None]
      = [r EXCEPT !.at = "failed", !.todo = {}, !.ids = {}, !.created = {}, !.found = None,
                  !.escaped = e]
  BY <1>1, <1>2 DEF CallType
<1>4. call' = [call EXCEPT ![c] = [r EXCEPT !.at = "failed", !.todo = {}, !.ids = {},
                                   !.created = {}, !.found = None, !.escaped = e]]
  BY <1>3 DEF Answer, IInv
<1>5. c \in alone /\ r.op = "create" =>
          r.before \subseteq Existing' /\ Existing' = r.before \cup e
  BY <1>1, <1>2 DEF Lone, Owned, Consistent, CreateSteps, UpdateSteps
<1> QED BY <1>4, <1>5, CallFails

\* The step of a create to its rollback, which from here on knows of no service that it
\* made, unless it has lost the answer.
LEMMA GotoRollback ==
    ASSUME IInv, NEW c \in Calls, NEW r, call[c] = r, r.at \in {"config", "find", "adopt"},
           Goto(c, "rollback"), StoreOK', faults' \in [FaultKinds -> Nat], alone' = alone,
           c \in alone => Existing' = Existing /\ (svc' = svc \/ Stripped(r)')
    PROVE  IInv'
<1> DEFINE q == [r EXCEPT !.at = "rollback"]
<1>1. Running(c) /\ r \in CallType /\ Consistent(r) /\ (c \in alone => Lone(r))
  BY RunningCall DEF CreateSteps
<1>2. call' = [call EXCEPT ![c] = q]
  BY DEF IInv, Goto
<1>3. /\ q \in CallType /\ q.op = r.op /\ q.at = "rollback" /\ q.before = r.before
      /\ q.created = r.created /\ q.op = "create" /\ q.todo = r.todo /\ q.need = r.need
      /\ q.escaped = r.escaped /\ q.was = r.was /\ q.val = r.val
  BY <1>1 DEF CallType, CreateSteps, Consistent
<1>4. Consistent(q)
  BY <1>1, <1>3 DEF Consistent, CallType, CreateSteps, UpdateSteps, Final
<1> HIDE DEF q
<1>5. ASSUME c \in alone PROVE Lone(q)'
  <2>1. Collected(q)' /\ Looked(q)' /\ Answered(q)'
    BY <1>3 DEF Collected, Looked, Answered
  <2>2. Owned(q)'
    BY <1>1, <1>3, <1>5 DEF Lone, Owned
  <2>3. svc = r.was
    BY <1>1, <1>5 DEF Lone, Made
  <2>4. Stripped(r)' => Stripped(q)'
    BY <1>3 DEF Stripped
  <2>5. Made(q)'
    BY <1>3, <1>5, <2>3, <2>4 DEF Made
  <2> QED BY <2>1, <2>2, <2>5 DEF Lone
<1> QED BY <1>1, <1>2, <1>3, <1>4, <1>5, StepSuffices DEF CreateSteps

\* The creation of a config, and the lookup it leads to when it fails, keep the invariant.
LEMMA CreateConfigKeeps ==
    ASSUME IInv, NEW c \in Calls, NEW r, call[c] = r, CreateConfig(c)
    PROVE  IInv'
<1> DEFINE k == KindOf(r)
<1>1. /\ r.at = "config" /\ r.todo # {} /\ alone' = alone /\ Kind(c) = k
      /\ Running(c) /\ r \in CallType /\ Consistent(r) /\ r.op = "create"
      /\ c \in alone => Lone(r)
  BY RunningCall DEF CreateConfig, CreateSteps, Consistent, Kind, KindOf
<1>2. k \in r.todo /\ k \in Kinds
  BY <1>1, KindIsPending
<1>3. StoreOK /\ faults \in [FaultKinds -> Nat] /\ call \in [Calls -> CallType]
  BY DEF IInv
<1> HIDE DEF k
<1>4. PICK i \in FreshCids :
         \/ /\ Works(config[k] = None, NewConfig(k, i, r.val))
            /\ call' = [call EXCEPT ![c].ids = @ \cup {i},
                                    ![c].created = @ \cup {i},
                                    ![c].todo = @ \ {k}]
         \/ /\ Breaks(config[k] = None, NewConfig(k, i, r.val), UNCHANGED ctrl)
            /\ call' = [call EXCEPT ![c].at = "find",
                                    ![c].escaped = @ \cup (Existing' \ Existing)]
  BY <1>1 DEF CreateConfig
<1>5. i \in Cids /\ i # None /\ (\A j \in Kinds : config[j] # i) /\ i \notin r.before
  BY FreshIsNew
<1>6. CASE /\ Works(config[k] = None, NewConfig(k, i, r.val))
           /\ call' = [call EXCEPT ![c].ids = @ \cup {i},
                                   ![c].created = @ \cup {i},
                                   ![c].todo = @ \ {k}]
  <2> DEFINE q == [r EXCEPT !.ids = @ \cup {i}, !.created = @ \cup {i}, !.todo = @ \ {k}]
  <2>1. call' = [call EXCEPT ![c] = q]
    BY <1>3, <1>6
  <2>2. q \in CallType /\ Consistent(q)
    BY <1>1, <1>2, <1>5 DEF CallType, Consistent, Final
  <2>3. /\ q.op = r.op /\ q.at = r.at /\ q.need = r.need /\ q.val = r.val
        /\ q.ids = r.ids \cup {i} /\ q.created = r.created \cup {i}
        /\ q.todo = r.todo \ {k} /\ q.before = r.before
        /\ q.was = r.was /\ q.escaped = r.escaped
    BY <1>1 DEF CallType
  <2> HIDE DEF q
  <2>4. /\ StoreOK' /\ config'[k] = i /\ data'[k] = r.val /\ config[k] = None
        /\ \A j \in Kinds \ {k} : config'[j] = config[j] /\ data'[j] = data[j]
        /\ Existing' = Existing \cup {i} /\ svc' = svc /\ faults' = faults
    BY <1>1, <1>2, <1>3, <1>5, <1>6, NewConfigEffect DEF CallType, Works, NoFault, NewConfig
  <2>5. ASSUME c \in alone PROVE Lone(q)'
    <3>1. k \in r.need /\ r.need \in SUBSET Kinds
      BY <1>1, <1>2 DEF Consistent, CallType
    <3>2. q.need \ q.todo = (r.need \ r.todo) \cup {k}
      BY <2>3, <3>1
    <3>3. Collected(q)'
      BY <1>1, <1>2, <2>3, <2>4, <2>5, <3>1, <3>2 DEF Lone, Collected
    <3>4. Looked(q)' /\ Answered(q)'
      BY <1>1, <2>3 DEF Looked, Answered
    <3>5. i \notin Existing
      BY <1>5 DEF Existing
    <3>6. Owned(q)'
      BY <1>1, <2>3, <2>4, <2>5, <3>5 DEF Lone, Owned
    <3>7. Made(q)'
      BY <1>1, <2>3, <2>4, <2>5 DEF Lone, Made
    <3> QED BY <3>3, <3>4, <3>6, <3>7 DEF Lone
  <2> QED BY <1>1, <1>3, <2>1, <2>2, <2>4, <2>5, StepSuffices
<1>7. CASE /\ Breaks(config[k] = None, NewConfig(k, i, r.val), UNCHANGED ctrl)
           /\ call' = [call EXCEPT ![c].at = "find",
                                   ![c].escaped = @ \cup (Existing' \ Existing)]
  <2>1. /\ StoreOK' /\ faults' \in [FaultKinds -> Nat] /\ svc' = svc
        /\ \A j \in Kinds \ {k} : config'[j] = config[j] /\ data'[j] = data[j]
        /\ Existing' = Existing \/ Existing' = Existing \cup {i}
    <3>1. CASE UNCHANGED ctrl /\ (Fault("refused") \/ NoFault)
      BY <1>3, <3>1, SameStore, FaultEffect DEF NoFault
    <3>2. CASE Fault("lost") /\ config[k] = None /\ NewConfig(k, i, r.val)
      <4>1. svc' = svc /\ faults' \in [FaultKinds -> Nat]
        BY <1>3, <3>2, FaultEffect DEF NewConfig
      <4> QED BY <1>1, <1>2, <1>3, <1>5, <3>2, <4>1, NewConfigEffect DEF CallType
    <3> QED BY <1>7, <3>1, <3>2 DEF Breaks
  <2>2. PICK x \in SUBSET Cids : x = Existing' \ Existing
    BY <1>5, <2>1
  <2> DEFINE q == [r EXCEPT !.at = "find", !.escaped = @ \cup x]
  <2>3. call' = [call EXCEPT ![c] = q]
    BY <1>3, <1>7, <2>2
  <2>4. q \in CallType /\ Consistent(q)
    BY <1>1, <1>2 DEF CallType, Consistent, CreateSteps, UpdateSteps, Final
  <2>5. /\ q.op = r.op /\ q.at = "find" /\ q.need = r.need /\ q.val = r.val
        /\ q.ids = r.ids /\ q.created = r.created
        /\ q.todo = r.todo /\ q.before = r.before
        /\ q.was = r.was /\ q.escaped = r.escaped \cup x
    BY <1>1 DEF CallType
  <2> HIDE DEF q
  <2>6. ASSUME c \in alone PROVE Lone(q)'
    <3>1. r.need \ r.todo \subseteq Kinds \ {k}
      BY <1>1, <1>2 DEF CallType
    <3>2. Collected(q)'
      BY <1>1, <2>1, <2>5, <2>6, <3>1 DEF Lone, Collected
    <3>3. Owned(q)'
      BY <1>1, <2>1, <2>2, <2>5, <2>6 DEF Lone, Owned
    <3>4. Looked(q)' /\ Answered(q)' /\ Made(q)'
      BY <1>1, <2>1, <2>5, <2>6 DEF Lone, Looked, Answered, Made
    <3> QED BY <3>2, <3>3, <3>4 DEF Lone
  <2> QED BY <1>1, <1>3, <2>1, <2>3, <2>4, <2>6, StepSuffices
<1> QED BY <1>4, <1>6, <1>7

\* So does the lookup of a leftover config,
LEMMA FindConfigKeeps ==
    ASSUME IInv, NEW c \in Calls, NEW r, call[c] = r, FindConfig(c)
    PROVE  IInv'
<1> DEFINE k == KindOf(r)
<1>1. /\ r.at = "find" /\ r.todo # {} /\ alone' = alone /\ Kind(c) = k
      /\ Running(c) /\ r \in CallType /\ Consistent(r) /\ r.op = "create"
      /\ c \in alone => Lone(r)
  BY RunningCall DEF FindConfig, CreateSteps, Consistent, Kind, KindOf
<1>2. k \in r.todo /\ k \in Kinds
  BY <1>1, KindIsPending
<1>3. StoreOK /\ faults \in [FaultKinds -> Nat] /\ call \in [Calls -> CallType]
  BY DEF IInv
<1>4. /\ StoreOK' /\ config' = config /\ data' = data /\ svc' = svc /\ Existing' = Existing
  BY <1>3, SameStore DEF FindConfig
<1> HIDE DEF k
<1>5. CASE /\ NoFault /\ config[k] # None
           /\ call' = [call EXCEPT ![c].at = "adopt", ![c].found = config[k]]
  <2>0. PICK i \in Cids : i = config[k]
    BY <1>2, <1>3, <1>5 DEF StoreOK
  <2> DEFINE q == [r EXCEPT !.at = "adopt", !.found = i]
  <2>1. call' = [call EXCEPT ![c] = q]
    BY <1>3, <1>5, <2>0
  <2>2. q \in CallType /\ Consistent(q)
    BY <1>1, <1>2, <2>0 DEF CallType, Consistent, CreateSteps, UpdateSteps, Final
  <2>3. /\ q.op = r.op /\ q.at = "adopt" /\ q.need = r.need /\ q.val = r.val
        /\ q.ids = r.ids /\ q.created = r.created /\ q.found = i
        /\ q.todo = r.todo /\ q.before = r.before
        /\ q.was = r.was /\ q.escaped = r.escaped
    BY <1>1 DEF CallType
  <2> HIDE DEF q
  <2>4. faults' = faults
    BY <1>5 DEF NoFault
  <2>5. ASSUME c \in alone PROVE Lone(q)'
    BY <1>1, <1>4, <2>0, <2>3, <2>4, <2>5
       DEF Lone, Collected, Looked, Answered, Owned, Made, KindOf, k
  <2> QED BY <1>1, <1>3, <1>4, <2>1, <2>2, <2>4, <2>5, StepSuffices
<1>6. CASE (NoFault \/ Fault("refused")) /\ Goto(c, "rollback")
  <2>1. faults' \in [FaultKinds -> Nat]
    BY <1>3, <1>6, FaultEffect DEF NoFault
  <2> QED BY <1>1, <1>4, <1>6, <2>1, GotoRollback
<1> QED BY <1>1, <1>5, <1>6 DEF FindConfig

\* its adoption,
LEMMA AdoptConfigKeeps ==
    ASSUME IInv, NEW c \in Calls, NEW r, call[c] = r, AdoptConfig(c)
    PROVE  IInv'
<1> DEFINE k == KindOf(r)
<1>1. /\ r.at = "adopt" /\ r.todo # {} /\ alone' = alone /\ Kind(c) = k
      /\ Running(c) /\ r \in CallType /\ Consistent(r) /\ r.op = "create" /\ r.found \in Cids
      /\ c \in alone => Lone(r)
  BY RunningCall DEF AdoptConfig, CreateSteps, Consistent, Kind, KindOf
<1>2. k \in r.todo /\ k \in Kinds
  BY <1>1, KindIsPending
<1>3. StoreOK /\ faults \in [FaultKinds -> Nat] /\ call \in [Calls -> CallType]
  BY DEF IInv
<1> HIDE DEF k
<1>4. CASE /\ Works(config[k] = r.found, WriteConfig(k, r.val))
           /\ call' = [call EXCEPT ![c].at = "config", ![c].found = None,
                                   ![c].ids = @ \cup {r.found},
                                   ![c].todo = @ \ {k}]
  <2> DEFINE q == [r EXCEPT !.at = "config", !.found = None, !.ids = @ \cup {r.found},
                            !.todo = @ \ {k}]
  <2>1. call' = [call EXCEPT ![c] = q]
    BY <1>3, <1>4
  <2>2. q \in CallType /\ Consistent(q)
    BY <1>1, <1>2 DEF CallType, Consistent, CreateSteps, UpdateSteps, Final
  <2>3. /\ q.op = r.op /\ q.at = "config" /\ q.need = r.need /\ q.val = r.val
        /\ q.ids = r.ids \cup {r.found} /\ q.created = r.created
        /\ q.todo = r.todo \ {k} /\ q.before = r.before
        /\ q.was = r.was /\ q.escaped = r.escaped
    BY <1>1 DEF CallType
  <2> HIDE DEF q
  <2>4. /\ StoreOK' /\ config' = config /\ svc' = svc /\ Existing' = Existing
        /\ faults' = faults /\ data'[k] = r.val /\ config[k] = r.found
        /\ \A j \in Kinds \ {k} : data'[j] = data[j]
    BY <1>1, <1>2, <1>3, <1>4, WriteConfigEffect DEF CallType, Works, NoFault
  <2>5. ASSUME c \in alone PROVE Lone(q)'
    <3>1. r.need \in SUBSET Kinds /\ q.need \ q.todo = (r.need \ r.todo) \cup {k}
      BY <1>1, <1>2, <2>3 DEF Consistent, CallType
    <3>2. Collected(q)'
      BY <1>1, <1>2, <2>3, <2>4, <2>5, <3>1 DEF Lone, Collected
    <3>3. Looked(q)' /\ Answered(q)'
      BY <2>3 DEF Looked, Answered
    <3>4. Owned(q)' /\ Made(q)'
      BY <1>1, <2>3, <2>4, <2>5 DEF Lone, Owned, Made
    <3> QED BY <3>2, <3>3, <3>4 DEF Lone
  <2> QED BY <1>1, <1>3, <2>1, <2>2, <2>4, <2>5, StepSuffices
<1>5. CASE /\ Breaks(config[k] = r.found, WriteConfig(k, r.val), UNCHANGED ctrl)
           /\ Goto(c, "rollback")
  <2>1. StoreOK' /\ svc' = svc /\ Existing' = Existing
    BY <1>1, <1>2, <1>3, <1>5, SameStore, WriteConfigEffect DEF Breaks, CallType
  <2>2. faults' \in [FaultKinds -> Nat]
    BY <1>3, <1>5, FaultEffect DEF Breaks, NoFault
  <2> QED BY <1>1, <1>5, <2>1, <2>2, GotoRollback
<1> QED BY <1>1, <1>4, <1>5 DEF AdoptConfig

\* the creation of the service,
LEMMA CreateZitiServiceKeeps ==
    ASSUME IInv, NEW c \in Calls, NEW r, call[c] = r, CreateZitiService(c)
    PROVE  IInv'
<1>1. /\ r.at = "config" /\ r.todo = {} /\ alone' = alone
      /\ Running(c) /\ r \in CallType /\ Consistent(r) /\ r.op = "create"
      /\ c \in alone => Lone(r)
  BY RunningCall DEF CreateZitiService, CreateSteps, Consistent
<1>2. StoreOK /\ faults \in [FaultKinds -> Nat] /\ call \in [Calls -> CallType]
  BY DEF IInv
<1> DEFINE Pre == svc = None /\ r.ids \subseteq Existing
           Effect(s) == /\ svc' = s /\ attached' = r.ids
                        /\ roles' = r.val /\ UNCHANGED <<config, data>>
<1>3. PICK s \in FreshSids :
         \/ /\ Works(Pre, Effect(s))
            /\ Answer([call EXCEPT ![c].sid = s], c, "ok")
         \/ Breaks(Pre, Effect(s), UNCHANGED ctrl) /\ Goto(c, "rollback")
  BY DEF CreateZitiService
<1>4. s \in Sids
  BY DEF FreshSids, Assignable
<1>5. Effect(s) => StoreOK'
  BY <1>1, <1>2, <1>4 DEF StoreOK, CallType
<1>6. CASE Works(Pre, Effect(s)) /\ Answer([call EXCEPT ![c].sid = s], c, "ok")
  <2> DEFINE q == [r EXCEPT !.sid = s, !.at = "ok", !.todo = {}, !.ids = {},
                            !.created = {}, !.found = None]
  <2>1. call' = [call EXCEPT ![c] = q]
    BY <1>2, <1>6 DEF Answer
  <2>2. q \in CallType /\ Consistent(q)
    BY <1>1, <1>4 DEF CallType, Consistent, CreateSteps, UpdateSteps, Final
  <2>3. /\ q.op = "create" /\ q.at = "ok" /\ q.need = r.need /\ q.val = r.val /\ q.sid = s
        /\ q.before = r.before
    BY <1>1 DEF CallType
  <2> HIDE DEF q
  <2>4. faults' = faults /\ Effect(s)
    BY <1>6 DEF Works, NoFault
  <2>5. ASSUME c \in alone PROVE Lone(q)'
    <3>1. /\ r.ids = {config[k] : k \in r.need}
          /\ \A k \in r.need : config[k] \in r.ids /\ data[k] = r.val
      <4>1. r.need \ r.todo = r.need BY <1>1
      <4> QED BY <1>1, <2>5, <4>1 DEF Lone, Collected
    <3>2. Answered(q)'
      BY <2>3, <2>4, <3>1 DEF Answered, Configured
    <3>3. r.before \subseteq Existing /\ Existing' = Existing
      BY <1>1, <2>4, <2>5 DEF Lone, Owned, Existing
    <3> QED BY <2>3, <3>2, <3>3 DEF Lone, Collected, Looked, Owned, Made
  <2> QED BY <1>1, <1>2, <1>5, <2>1, <2>2, <2>4, <2>5, StepSuffices
<1>7. CASE Breaks(Pre, Effect(s), UNCHANGED ctrl) /\ Goto(c, "rollback")
  <2>1. CASE UNCHANGED ctrl /\ (NoFault \/ Fault("refused"))
    <3>1. faults' \in [FaultKinds -> Nat] /\ StoreOK' /\ Existing' = Existing /\ svc' = svc
      BY <1>2, <2>1, SameStore, FaultEffect DEF NoFault
    <3> QED BY <1>1, <1>7, <3>1, GotoRollback
  <2>2. CASE Fault("lost") /\ Effect(s)
    <3>1. faults' \in [FaultKinds -> Nat] /\ faults'["lost"] > 0 /\ StoreOK' /\ Existing' = Existing
      BY <1>2, <1>5, <2>2, FaultEffect DEF Existing
    <3>2. ASSUME c \in alone PROVE Stripped(r)'
      <4>1. /\ r.ids = {config[k] : k \in r.need} /\ r.ids \in SUBSET Cids
            /\ \A k \in r.need : data[k] = r.val
        <5>1. r.need \ r.todo = r.need BY <1>1
        <5> QED BY <1>1, <3>2, <5>1 DEF Lone, Collected, CallType
      <4>2. {k \in r.need : config[k] # None} = r.need
        BY <4>1, NoneAssumption
      <4> QED BY <2>2, <3>1, <4>1, <4>2 DEF Stripped
    <3> QED BY <1>1, <1>7, <3>1, <3>2, GotoRollback
  <2> QED BY <1>7, <2>1, <2>2 DEF Breaks
<1> QED BY <1>3, <1>6, <1>7

\* one deletion of the rollback,
LEMMA RollbackConfigKeeps ==
    ASSUME IInv, NEW c \in Calls, NEW r, call[c] = r, RollbackConfig(c)
    PROVE  IInv'
<1>1. /\ r.at = "rollback" /\ alone' = alone /\ svc' = svc /\ roles' = roles
      /\ Running(c) /\ r \in CallType /\ Consistent(r) /\ r.op = "create"
      /\ c \in alone => Lone(r)
  BY RunningCall DEF RollbackConfig, CreateSteps, Consistent
<1>2. StoreOK /\ faults \in [FaultKinds -> Nat] /\ call \in [Calls -> CallType]
  BY DEF IInv
<1>3. PICK i \in r.created :
         \/ /\ NoFault \/ Fault("lost")
            /\ config' = [k \in Kinds |-> IF config[k] = i THEN None ELSE config[k]]
            /\ data' = [k \in Kinds |-> IF config[k] = i THEN None ELSE data[k]]
            /\ attached' = attached \ {i}
            /\ call' = [call EXCEPT ![c].created = @ \ {i}]
         \/ /\ Fault("refused")
            /\ call' = [call EXCEPT ![c].created = @ \ {i}, ![c].escaped = @ \cup {i}]
            /\ UNCHANGED <<config, data, attached>>
  BY DEF RollbackConfig
<1>4. i \in Cids
  BY <1>1 DEF CallType
<1>5. /\ faults' \in [FaultKinds -> Nat] /\ StoreOK'
      /\ faults["lost"] > 0 => faults'["lost"] > 0
  <2>1. StoreOK'
    BY <1>1, <1>2, <1>3 DEF StoreOK, Kinds
  <2> QED BY <1>2, <1>3, <2>1, FaultEffect DEF NoFault
<1>6. PICK x \in SUBSET {i} :
         /\ call' = [call EXCEPT ![c] = [r EXCEPT !.created = @ \ {i}, !.escaped = @ \cup x]]
         /\ \/ x = {i} /\ UNCHANGED <<config, data, attached>>
            \/ /\ x = {}
               /\ config' = [k \in Kinds |-> IF config[k] = i THEN None ELSE config[k]]
               /\ data' = [k \in Kinds |-> IF config[k] = i THEN None ELSE data[k]]
               /\ attached' = attached \ {i}
  <2>1. CASE /\ config' = [k \in Kinds |-> IF config[k] = i THEN None ELSE config[k]]
             /\ data' = [k \in Kinds |-> IF config[k] = i THEN None ELSE data[k]]
             /\ attached' = attached \ {i}
             /\ call' = [call EXCEPT ![c].created = @ \ {i}]
    <3>1. [r EXCEPT !.created = @ \ {i}] = [r EXCEPT !.created = @ \ {i}, !.escaped = @ \cup {}]
      BY <1>1 DEF CallType
    <3>2. call' = [call EXCEPT ![c] = [r EXCEPT !.created = @ \ {i}, !.escaped = @ \cup {}]]
      BY <1>2, <2>1, <3>1
    <3> QED BY <2>1, <3>2
  <2>2. CASE /\ call' = [call EXCEPT ![c].created = @ \ {i}, ![c].escaped = @ \cup {i}]
             /\ UNCHANGED <<config, data, attached>>
    <3>1. call' = [call EXCEPT ![c] = [r EXCEPT !.created = @ \ {i}, !.escaped = @ \cup {i}]]
      BY <1>2, <2>2
    <3> QED BY <2>2, <3>1
  <2> QED BY <1>3, <2>1, <2>2
<1> DEFINE q == [r EXCEPT !.created = @ \ {i}, !.escaped = @ \cup x]
<1>7. q \in CallType /\ Consistent(q)
  BY <1>1, <1>4 DEF CallType, Consistent, CreateSteps, UpdateSteps, Final
<1>8. /\ q.op = "create" /\ q.at = "rollback" /\ q.before = r.before
      /\ q.created = r.created \ {i} /\ q.escaped = r.escaped \cup x
      /\ q.was = r.was /\ q.need = r.need /\ q.val = r.val
  BY <1>1 DEF CallType
<1>9. call' = [call EXCEPT ![c] = q]
  BY <1>6
<1> HIDE DEF q
<1>10. ASSUME c \in alone PROVE Lone(q)'
  <2>1. Existing' = Existing \ ({i} \ x)
    BY <1>4, <1>6, NoneAssumption DEF Existing
  <2>2. Owned(q)'
    BY <1>1, <1>8, <1>10, <2>1 DEF Lone, Owned
  <2>3. Stripped(r) => Stripped(q)'
    <3>1. r.need \in SUBSET Kinds
      BY <1>1 DEF CallType
    <3> QED BY <1>1, <1>4, <1>5, <1>6, <1>8, <3>1, NoneAssumption DEF Stripped
  <2>4. Made(q)'
    BY <1>1, <1>8, <1>10, <2>3 DEF Lone, Made
  <2> QED BY <1>8, <2>2, <2>4 DEF Lone, Collected, Looked, Answered
<1> QED BY <1>1, <1>5, <1>7, <1>9, <1>10, StepSuffices

\* the lookup of the existing service,
LEMMA FindExistingKeeps ==
    ASSUME IInv, NEW c \in Calls, NEW r, call[c] = r, FindExisting(c)
    PROVE  IInv'
<1>1. /\ r.at = "rollback" /\ r.created = {} /\ alone' = alone
      /\ Running(c) /\ r \in CallType /\ Consistent(r) /\ r.op = "create"
      /\ c \in alone => Lone(r)
  BY RunningCall DEF FindExisting, CreateSteps, Consistent
<1>2. StoreOK /\ faults \in [FaultKinds -> Nat] /\ call \in [Calls -> CallType]
  BY DEF IInv
<1>3. StoreOK' /\ svc' = svc /\ Existing' = Existing
  BY <1>2, SameStore DEF FindExisting
<1>4. CASE /\ NoFault /\ svc # None
           /\ call' = [call EXCEPT ![c].at = "patch", ![c].sid = svc]
  <2>0. PICK s \in Sids : s = svc
    BY <1>2, <1>4 DEF StoreOK
  <2> DEFINE q == [r EXCEPT !.at = "patch", !.sid = s]
  <2>1. call' = [call EXCEPT ![c] = q]
    BY <1>2, <1>4, <2>0
  <2>2. q \in CallType /\ Consistent(q)
    BY <1>1, <2>0 DEF CallType, Consistent, CreateSteps, UpdateSteps
  <2>3. /\ q.op = "create" /\ q.at = "patch" /\ q.sid = s /\ q.created = {}
        /\ q.before = r.before /\ q.was = r.was /\ q.escaped = r.escaped
        /\ q.need = r.need /\ q.val = r.val
    BY <1>1 DEF CallType
  <2> HIDE DEF q
  <2>4. faults' = faults
    BY <1>4 DEF NoFault
  <2>5. ASSUME c \in alone PROVE Lone(q)'
    <3>1. Collected(q)' /\ Looked(q)' /\ Answered(q)' /\ Owned(q)'
      BY <1>1, <1>3, <1>4, <2>0, <2>3, <2>5 DEF Lone, Collected, Looked, Answered, Owned
    <3>2. Stripped(r) => Stripped(q)'
      BY <2>3, <2>4 DEF Stripped, FindExisting, ctrl
    <3>3. Made(q)'
      BY <1>1, <1>3, <2>3, <2>5, <3>2 DEF Lone, Made
    <3> QED BY <3>1, <3>3 DEF Lone
  <2> QED BY <1>1, <1>2, <1>3, <2>1, <2>2, <2>4, <2>5, StepSuffices
<1>5. CASE (NoFault \/ Fault("refused")) /\ Answer(call, c, "failed")
  <2>1. faults' \in [FaultKinds -> Nat]
    BY <1>2, <1>5, FaultEffect DEF NoFault
  <2> QED BY <1>1, <1>3, <1>5, <2>1, AnswerFailed DEF CreateSteps
<1> QED BY <1>4, <1>5 DEF FindExisting

\* and its patch.
LEMMA PatchExistingKeeps ==
    ASSUME IInv, NEW c \in Calls, NEW r, call[c] = r, PatchExisting(c)
    PROVE  IInv'
<1>1. /\ r.at = "patch" /\ alone' = alone
      /\ Running(c) /\ r \in CallType /\ Consistent(r) /\ r.op = "create"
      /\ c \in alone => Lone(r)
  BY RunningCall DEF PatchExisting, CreateSteps, Consistent
<1>2. StoreOK /\ faults \in [FaultKinds -> Nat] /\ call \in [Calls -> CallType]
  BY DEF IInv
<1>3. WriteRoles(r.val) =>
          /\ StoreOK' /\ svc' = svc /\ Existing' = Existing /\ roles' = r.val
          /\ config' = config /\ data' = data /\ attached' = attached
  BY <1>1, <1>2 DEF StoreOK, WriteRoles, CallType, Existing
<1>4. CASE /\ Works(svc = r.sid, WriteRoles(r.val))
           /\ Answer([call EXCEPT ![c].op = "adopt"], c, "ok")
  <2> DEFINE q == [r EXCEPT !.op = "adopt", !.at = "ok", !.todo = {}, !.ids = {},
                            !.created = {}, !.found = None]
  <2>1. call' = [call EXCEPT ![c] = q]
    BY <1>2, <1>4 DEF Answer
  <2>2. q \in CallType /\ Consistent(q)
    BY <1>1 DEF CallType, Consistent, CreateSteps, UpdateSteps, Final
  <2>3. /\ q.op = "adopt" /\ q.at = "ok" /\ q.sid = r.sid /\ q.val = r.val
        /\ q.before = r.before /\ q.was = r.was /\ q.escaped = r.escaped
        /\ q.need = r.need /\ q.created = {}
    BY <1>1 DEF CallType
  <2> HIDE DEF q
  <2>4. faults' = faults /\ WriteRoles(r.val) /\ svc = r.sid
    BY <1>4 DEF Works, NoFault
  <2>5. ASSUME c \in alone PROVE Lone(q)'
    <3>1. Collected(q)' /\ Looked(q)' /\ Answered(q)' /\ Owned(q)'
      BY <1>1, <1>3, <2>3, <2>4, <2>5 DEF Lone, Collected, Looked, Answered, Owned
    <3>2. Stripped(r) => Stripped(q)'
      BY <1>3, <2>3, <2>4 DEF Stripped
    <3>3. Made(q)'
      BY <1>1, <1>3, <2>3, <2>4, <2>5, <3>2 DEF Lone, Made
    <3> QED BY <3>1, <3>3 DEF Lone
  <2> QED BY <1>1, <1>2, <1>3, <2>1, <2>2, <2>4, <2>5, StepSuffices
<1>5. CASE /\ Breaks(svc = r.sid, WriteRoles(r.val), UNCHANGED ctrl)
           /\ Answer(call, c, "failed")
  <2>1. StoreOK' /\ Existing' = Existing
    BY <1>2, <1>3, <1>5, SameStore DEF Breaks
  <2>2. faults' \in [FaultKinds -> Nat]
    BY <1>2, <1>5, FaultEffect DEF Breaks, NoFault
  <2>3. c \in alone => r.created = {}
    BY <1>1 DEF Lone, Looked
  <2> QED BY <1>1, <1>5, <2>1, <2>2, <2>3, AnswerFailed DEF CreateSteps
<1> QED BY <1>1, <1>4, <1>5 DEF PatchExisting

\* An update that ends with an error has promised nothing.
LEMMA UpdateFails ==
    ASSUME IInv, NEW c \in Calls, NEW r, call[c] = r, r.at \in UpdateSteps,
           Answer(call, c, "failed"), StoreOK', alone' = alone,
           NoFault \/ Fault("refused") \/ Fault("lost")
    PROVE  IInv'
<1>1. faults' \in [FaultKinds -> Nat]
  BY FaultEffect DEF IInv, NoFault
<1>2. r.op = "update"
  BY RunningCall DEF Consistent
<1> QED BY <1>1, <1>2, AnswerFailed

\* The first read of an update keeps the invariant,
LEMMA DetailServiceKeeps ==
    ASSUME IInv, NEW c \in Calls, NEW r, call[c] = r, DetailService(c)
    PROVE  IInv'
<1>1. /\ r.at = "detail" /\ alone' = alone
      /\ Running(c) /\ r \in CallType /\ Consistent(r) /\ r.op = "update"
  BY RunningCall DEF DetailService, UpdateSteps, Consistent
<1>2. StoreOK /\ faults \in [FaultKinds -> Nat] /\ call \in [Calls -> CallType] /\ StoreOK'
  BY SameStore DEF IInv, DetailService
<1>3. CASE NoFault /\ call' = [call EXCEPT ![c].at = "upsert", ![c].ids = attached]
  <2>0. PICK a \in SUBSET Cids : a = attached
    BY <1>2 DEF StoreOK
  <2> DEFINE q == [r EXCEPT !.at = "upsert", !.ids = a]
  <2>1. call' = [call EXCEPT ![c] = q]
    BY <1>2, <1>3, <2>0
  <2>2. q \in CallType /\ Consistent(q)
    BY <1>1, <2>0 DEF CallType, Consistent, CreateSteps, UpdateSteps, Final
  <2>3. q.op = "update" /\ q.at = "upsert" /\ q.need = q.todo
    BY <1>1 DEF CallType, Consistent
  <2> HIDE DEF q
  <2>4. Lone(q)'
    BY <2>3 DEF Lone, Collected, Looked, Answered, Owned, Made, CreateSteps
  <2>5. faults' = faults
    BY <1>3 DEF NoFault
  <2> QED BY <1>1, <1>2, <2>1, <2>2, <2>4, <2>5, StepSuffices
<1>4. CASE (NoFault \/ Fault("refused")) /\ Answer(call, c, "failed")
  BY <1>1, <1>2, <1>4, UpdateFails DEF UpdateSteps
<1> QED BY <1>3, <1>4 DEF DetailService

\* so does the search among the configs of the service,
LEMMA FindServiceConfigKeeps ==
    ASSUME IInv, NEW c \in Calls, NEW r, call[c] = r, FindServiceConfig(c)
    PROVE  IInv'
<1> DEFINE k == KindOf(r)
<1>1. /\ r.at = "upsert" /\ r.todo # {} /\ alone' = alone /\ Kind(c) = k
      /\ Running(c) /\ r \in CallType /\ Consistent(r) /\ r.op = "update"
      /\ c \in alone => Lone(r)
  BY RunningCall DEF FindServiceConfig, UpdateSteps, Consistent, Kind, KindOf
<1>2. /\ StoreOK /\ faults \in [FaultKinds -> Nat] /\ call \in [Calls -> CallType]
      /\ StoreOK' /\ config' = config /\ data' = data
  BY SameStore DEF IInv, FindServiceConfig
<1> HIDE DEF k
<1>3. CASE /\ NoFault /\ config[k] \in attached
           /\ call' = [call EXCEPT ![c].at = "rewrite", ![c].found = config[k]]
  <2>0. PICK i \in Cids : i = config[k]
    BY <1>2, <1>3 DEF StoreOK
  <2> DEFINE q == [r EXCEPT !.at = "rewrite", !.found = i]
  <2>1. call' = [call EXCEPT ![c] = q]
    BY <1>2, <1>3, <2>0
  <2>2. q \in CallType /\ Consistent(q)
    BY <1>1, <2>0 DEF CallType, Consistent, CreateSteps, UpdateSteps, Final
  <2>3. /\ q.op = "update" /\ q.at = "rewrite" /\ q.need = r.need /\ q.todo = r.todo
        /\ q.ids = r.ids /\ q.val = r.val /\ q.found = i
    BY <1>1 DEF CallType
  <2> HIDE DEF q
  <2>4. c \in alone => Lone(q)'
    BY <1>1, <1>2, <2>0, <2>3
       DEF Lone, Collected, Looked, Answered, Owned, Made, CreateSteps, KindOf, k
  <2>5. faults' = faults
    BY <1>3 DEF NoFault
  <2> QED BY <1>1, <1>2, <2>1, <2>2, <2>4, <2>5, StepSuffices
<1>4. CASE NoFault /\ Goto(c, "newconfig")
  <2> DEFINE q == [r EXCEPT !.at = "newconfig"]
  <2>1. call' = [call EXCEPT ![c] = q]
    BY <1>2, <1>4 DEF Goto
  <2>2. q \in CallType /\ Consistent(q)
    BY <1>1 DEF CallType, Consistent, CreateSteps, UpdateSteps, Final
  <2>3. /\ q.op = "update" /\ q.at = "newconfig" /\ q.need = r.need /\ q.todo = r.todo
        /\ q.ids = r.ids /\ q.val = r.val
    BY <1>1 DEF CallType
  <2> HIDE DEF q
  <2>4. c \in alone => Lone(q)'
    BY <1>1, <1>2, <2>3 DEF Lone, Collected, Looked, Answered, Owned, Made, CreateSteps
  <2>5. faults' = faults
    BY <1>4 DEF NoFault
  <2> QED BY <1>1, <1>2, <2>1, <2>2, <2>4, <2>5, StepSuffices
<1>5. CASE (NoFault \/ Fault("refused")) /\ Answer(call, c, "failed")
  BY <1>1, <1>2, <1>5, UpdateFails DEF UpdateSteps
<1> QED BY <1>1, <1>3, <1>4, <1>5 DEF FindServiceConfig

\* A config of the kind at hand is written and joins the list of an update.
LEMMA UpdateCollects ==
    ASSUME IInv, NEW c \in Calls, NEW r, call[c] = r, r.at \in {"newconfig", "rewrite"},
           NEW k, k = KindOf(r), NEW i \in Cids, NEW q,
           q.op = "update", q.at = "upsert", q.need = r.need, q.todo = r.todo \ {k},
           q.ids = r.ids \cup {i}, q.val = r.val,
           c \in alone, config'[k] = i, data'[k] = r.val,
           \A j \in Kinds \ {k} : config'[j] = config[j] /\ data'[j] = data[j]
    PROVE  Lone(q)'
<1>1. r \in CallType /\ Consistent(r) /\ r.op = "update" /\ Lone(r)
  BY RunningCall DEF UpdateSteps, Consistent
<1>2. r.need \in SUBSET Kinds /\ r.need \ q.todo \subseteq (r.need \ r.todo) \cup {k}
  BY <1>1 DEF CallType
<1>3. Collected(q)'
  BY <1>1, <1>2 DEF Lone, Collected
<1> QED BY <1>3 DEF Lone, Looked, Answered, Owned, Made

\* the creation of a missing one,
LEMMA CreateMissingConfigKeeps ==
    ASSUME IInv, NEW c \in Calls, NEW r, call[c] = r, CreateMissingConfig(c)
    PROVE  IInv'
<1> DEFINE k == KindOf(r)
<1>1. /\ r.at = "newconfig" /\ r.todo # {} /\ alone' = alone /\ Kind(c) = k
      /\ Running(c) /\ r \in CallType /\ Consistent(r) /\ r.op = "update"
  BY RunningCall DEF CreateMissingConfig, UpdateSteps, Consistent, Kind, KindOf
<1>2. k \in r.todo /\ k \in Kinds /\ k = KindOf(r)
  BY <1>1, KindIsPending
<1>3. StoreOK /\ faults \in [FaultKinds -> Nat] /\ call \in [Calls -> CallType]
  BY DEF IInv
<1> HIDE DEF k
<1>4. PICK i \in FreshCids :
         \/ /\ Works(config[k] = None, NewConfig(k, i, r.val))
            /\ call' = [call EXCEPT ![c].at = "upsert", ![c].todo = @ \ {k},
                                    ![c].ids = @ \cup {i}]
         \/ /\ Breaks(config[k] = None, NewConfig(k, i, r.val), UNCHANGED ctrl)
            /\ Answer(call, c, "failed")
  BY <1>1 DEF CreateMissingConfig
<1>5. i \in Cids /\ i # None /\ (\A j \in Kinds : config[j] # i)
  BY FreshIsNew
<1>6. config[k] = None /\ NewConfig(k, i, r.val) =>
         /\ StoreOK' /\ config'[k] = i /\ data'[k] = r.val
         /\ \A j \in Kinds \ {k} : config'[j] = config[j] /\ data'[j] = data[j]
  BY <1>1, <1>2, <1>3, <1>5, NewConfigEffect DEF CallType
<1>7. CASE /\ Works(config[k] = None, NewConfig(k, i, r.val))
           /\ call' = [call EXCEPT ![c].at = "upsert", ![c].todo = @ \ {k},
                                   ![c].ids = @ \cup {i}]
  <2> DEFINE q == [r EXCEPT !.at = "upsert", !.todo = @ \ {k}, !.ids = @ \cup {i}]
  <2>1. call' = [call EXCEPT ![c] = q]
    BY <1>3, <1>7
  <2>2. q \in CallType /\ Consistent(q)
    BY <1>1, <1>2, <1>5 DEF CallType, Consistent, CreateSteps, UpdateSteps, Final
  <2>3. /\ q.op = "update" /\ q.at = "upsert" /\ q.need = r.need /\ q.val = r.val
        /\ q.todo = r.todo \ {k} /\ q.ids = r.ids \cup {i}
    BY <1>1 DEF CallType
  <2> HIDE DEF q
  <2>4. c \in alone => Lone(q)'
    BY <1>1, <1>2, <1>5, <1>6, <1>7, <2>3, UpdateCollects DEF Works
  <2> QED BY <1>1, <1>3, <1>6, <1>7, <2>1, <2>2, <2>4, StepSuffices DEF Works, NoFault
<1>8. CASE /\ Breaks(config[k] = None, NewConfig(k, i, r.val), UNCHANGED ctrl)
           /\ Answer(call, c, "failed")
  BY <1>1, <1>3, <1>6, <1>8, SameStore, UpdateFails DEF Breaks, UpdateSteps
<1> QED BY <1>4, <1>7, <1>8

\* the rewrite of one that is there,
LEMMA RewriteConfigKeeps ==
    ASSUME IInv, NEW c \in Calls, NEW r, call[c] = r, RewriteConfig(c)
    PROVE  IInv'
<1> DEFINE k == KindOf(r)
<1>1. /\ r.at = "rewrite" /\ r.todo # {} /\ alone' = alone /\ Kind(c) = k
      /\ Running(c) /\ r \in CallType /\ Consistent(r) /\ r.op = "update" /\ r.found \in Cids
  BY RunningCall DEF RewriteConfig, UpdateSteps, Consistent, Kind, KindOf
<1>2. k \in r.todo /\ k \in Kinds /\ k = KindOf(r)
  BY <1>1, KindIsPending
<1>3. StoreOK /\ faults \in [FaultKinds -> Nat] /\ call \in [Calls -> CallType]
  BY DEF IInv
<1> HIDE DEF k
<1>4. WriteConfig(k, r.val) =>
         /\ StoreOK' /\ config' = config /\ data'[k] = r.val
         /\ \A j \in Kinds \ {k} : data'[j] = data[j]
  BY <1>1, <1>2, <1>3, WriteConfigEffect DEF CallType
<1>5. CASE /\ Works(config[k] = r.found, WriteConfig(k, r.val))
           /\ call' = [call EXCEPT ![c].at = "upsert", ![c].todo = @ \ {k},
                                   ![c].ids = @ \cup {r.found}, ![c].found = None]
  <2> DEFINE q == [r EXCEPT !.at = "upsert", !.todo = @ \ {k}, !.ids = @ \cup {r.found},
                            !.found = None]
  <2>1. call' = [call EXCEPT ![c] = q]
    BY <1>3, <1>5
  <2>2. q \in CallType /\ Consistent(q)
    BY <1>1, <1>2 DEF CallType, Consistent, CreateSteps, UpdateSteps, Final
  <2>3. /\ q.op = "update" /\ q.at = "upsert" /\ q.need = r.need /\ q.val = r.val
        /\ q.todo = r.todo \ {k} /\ q.ids = r.ids \cup {r.found}
    BY <1>1 DEF CallType
  <2> HIDE DEF q
  <2>4. c \in alone => Lone(q)'
    <3>1. /\ config'[k] = r.found /\ data'[k] = r.val
          /\ \A j \in Kinds \ {k} : config'[j] = config[j] /\ data'[j] = data[j]
      BY <1>4, <1>5 DEF Works
    <3> QED BY <1>1, <1>2, <2>3, <3>1, UpdateCollects
  <2> QED BY <1>1, <1>3, <1>4, <1>5, <2>1, <2>2, <2>4, StepSuffices DEF Works, NoFault
<1>6. CASE /\ Breaks(config[k] = r.found, WriteConfig(k, r.val), UNCHANGED ctrl)
           /\ Answer(call, c, "failed")
  BY <1>1, <1>3, <1>4, <1>6, SameStore, UpdateFails DEF Breaks, UpdateSteps
<1> QED BY <1>1, <1>5, <1>6 DEF RewriteConfig

\* and the patch of the service.
LEMMA PatchServiceKeeps ==
    ASSUME IInv, NEW c \in Calls, NEW r, call[c] = r, PatchService(c)
    PROVE  IInv'
<1> DEFINE Pre == svc = r.sid /\ (r.need # {} => r.ids \subseteq Existing)
           Effect == /\ attached' = IF r.need # {} THEN r.ids ELSE attached
                     /\ roles' = IF r.flag THEN r.val ELSE roles
                     /\ UNCHANGED <<config, data, svc>>
<1>1. /\ r.at = "upsert" /\ r.todo = {} /\ alone' = alone
      /\ Running(c) /\ r \in CallType /\ Consistent(r) /\ r.op = "update"
      /\ c \in alone => Lone(r)
  BY RunningCall DEF PatchService, UpdateSteps, Consistent
<1>2. StoreOK /\ faults \in [FaultKinds -> Nat] /\ call \in [Calls -> CallType]
  BY DEF IInv
<1>3. Effect => StoreOK'
  BY <1>1, <1>2 DEF StoreOK, CallType
<1>4. CASE Works(Pre, Effect) /\ Answer(call, c, "ok")
  <2> DEFINE q == [r EXCEPT !.at = "ok", !.todo = {}, !.ids = {}, !.created = {}, !.found = None]
  <2>1. call' = [call EXCEPT ![c] = q]
    BY <1>2, <1>4 DEF Answer
  <2>2. q \in CallType /\ Consistent(q)
    BY <1>1 DEF CallType, Consistent, CreateSteps, UpdateSteps, Final
  <2>3. /\ q.op = "update" /\ q.at = "ok" /\ q.need = r.need /\ q.val = r.val
        /\ q.sid = r.sid /\ q.flag = r.flag
    BY <1>1 DEF CallType
  <2> HIDE DEF q
  <2>4. faults' = faults /\ Pre /\ Effect
    BY <1>4 DEF Works, NoFault
  <2>5. ASSUME c \in alone PROVE Lone(q)'
    <3>1. \A k \in r.need : config[k] \in r.ids /\ data[k] = r.val
      <4>1. r.need \ r.todo = r.need BY <1>1
      <4> QED BY <1>1, <2>5, <4>1 DEF Lone, Collected
    <3>2. Answered(q)'
      BY <2>3, <2>4, <3>1 DEF Answered, Configured
    <3> QED BY <2>3, <3>2 DEF Lone, Collected, Looked, Owned, Made
  <2> QED BY <1>1, <1>2, <1>3, <2>1, <2>2, <2>4, <2>5, StepSuffices
<1>5. CASE Breaks(Pre, Effect, UNCHANGED ctrl) /\ Answer(call, c, "failed")
  BY <1>1, <1>2, <1>3, <1>5, SameStore, UpdateFails DEF Breaks, UpdateSteps
<1> QED BY <1>1, <1>4, <1>5 DEF PatchService

\* A call that starts is alone if nothing runs, and then nothing else is.
LEMMA StartKeeps ==
    ASSUME IInv, NEW c \in Calls, NEW q \in CallType, Consistent(q), Start(c, q),
           Lone(q)
    PROVE  IInv'
<1>1. /\ call' = [call EXCEPT ![c] = q] /\ faults' = faults /\ UNCHANGED ctrl
      /\ alone' = IF \E d \in Calls \ {c} : Running(d) THEN {} ELSE {c}
  BY DEF Start
<1>2. StoreOK' /\ faults' \in [FaultKinds -> Nat] /\ call' \in [Calls -> CallType]
  BY <1>1, SameStore DEF IInv
<1>3. call'[c] = q /\ \A d \in Calls \ {c} : call'[d] = call[d]
  BY <1>1 DEF IInv
<1>4. \A d \in Calls : Consistent(call'[d])
  BY <1>3 DEF IInv
<1>5. alone' \in SUBSET Calls
  BY <1>1
<1>6. ASSUME NEW d \in alone' PROVE Undisturbed(d)' /\ Lone(call[d])'
  <2>1. d = c /\ Undisturbed(c)
    BY <1>1, <1>6 DEF Undisturbed
  <2>2. Undisturbed(c)'
    BY <1>3, <2>1 DEF Undisturbed, Running
  <2>3. Lone(call[c])'
    BY <1>1, <1>3 DEF ctrl, Lone, Collected, Looked, Answered, Owned, Made, Stripped,
                      KindOf, Existing, Configured
  <2> QED BY <2>1, <2>2, <2>3
<1> QED BY <1>2, <1>4, <1>5, <1>6 DEF IInv

\* A create starts with the configs it comes upon and none of its own;
LEMMA StartCreateKeeps ==
    ASSUME IInv, NEW c \in Calls, NEW kinds \in Requests, NEW v \in Values,
           NEW existing \in BOOLEAN, StartCreate(c, kinds, v, existing)
    PROVE  IInv'
<1>1. PICK b \in SUBSET Cids, w \in Sids \cup {None} : b = Existing /\ w = svc
  BY DEF IInv, StoreOK, Existing
<1> DEFINE q == [Idle EXCEPT !.op = "create", !.at = "config", !.need = kinds,
                             !.todo = kinds, !.val = v, !.flag = existing, !.before = b,
                             !.was = w]
<1>2. Start(c, q)
  BY <1>1 DEF StartCreate
<1>3. q \in CallType /\ Consistent(q)
  BY RequestsAssumption DEF Idle, CallType, Consistent, CreateSteps, UpdateSteps
<1>4. /\ q.op = "create" /\ q.at = "config" /\ q.todo = q.need /\ q.ids = {}
      /\ q.created = {} /\ q.before = b /\ q.was = w /\ q.escaped = {}
  BY DEF Idle
<1> HIDE DEF q
<1>5. Lone(q)
  BY <1>1, <1>4 DEF Lone, Collected, Looked, Answered, Owned, Made, CreateSteps
<1> QED BY <1>2, <1>3, <1>5, StartKeeps

\* an update starts with nothing handled.
LEMMA StartUpdateKeeps ==
    ASSUME IInv, NEW c \in Calls, NEW kinds \in Requests, NEW v \in Values,
           NEW b \in BOOLEAN, StartUpdate(c, kinds, v, b)
    PROVE  IInv'
<1>1. PICK s \in Sids : s = svc
  BY DEF IInv, StoreOK, StartUpdate
<1> DEFINE q == [Idle EXCEPT !.op = "update", !.at = "detail", !.need = kinds,
                             !.todo = kinds, !.val = v, !.flag = b, !.sid = s]
<1>2. Start(c, q)
  BY <1>1 DEF StartUpdate
<1>3. q \in CallType /\ Consistent(q)
  BY RequestsAssumption DEF Idle, CallType, Consistent, CreateSteps, UpdateSteps
<1>4. q.op = "update" /\ q.at = "detail"
  BY DEF Idle
<1> HIDE DEF q
<1>5. Lone(q)
  BY <1>4 DEF Lone, Collected, Looked, Answered, Owned, Made, CreateSteps
<1> QED BY <1>2, <1>3, <1>5, StartKeeps

\* A cancelled context ends a call, and what it had made escapes.
LEMMA CancelKeeps ==
    ASSUME IInv, NEW c \in Calls, NEW r, call[c] = r, Cancel(c)
    PROVE  IInv'
<1>1. r.at \in CreateSteps \cup UpdateSteps
  BY DEF IInv, Cancel, Running, Final, CallType
<1>2. r \in CallType /\ Consistent(r) /\ (c \in alone => Lone(r))
  BY <1>1, RunningCall
<1>3. StoreOK' /\ alone' = alone /\ Existing' = Existing /\ faults' \in [FaultKinds -> Nat]
  BY SameStore, FaultEffect DEF IInv, Cancel
<1>4. PICK e \in SUBSET Cids : e = r.escaped \cup r.created
  BY <1>2 DEF CallType
<1>5. call' = [call EXCEPT ![c] = [r EXCEPT !.at = "failed", !.todo = {}, !.ids = {},
                                   !.created = {}, !.found = None, !.escaped = e]]
  <2> DEFINE q == [r EXCEPT !.escaped = e]
  <2>1. [call EXCEPT ![c].escaped = @ \cup call[c].created] = [call EXCEPT ![c] = q]
    BY <1>4 DEF IInv
  <2>2. call' = [call EXCEPT ![c] = [q EXCEPT !.at = "failed", !.todo = {}, !.ids = {},
                                              !.created = {}, !.found = None]]
    BY <2>1 DEF Cancel, Answer, IInv
  <2>3. [q EXCEPT !.at = "failed", !.todo = {}, !.ids = {}, !.created = {}, !.found = None]
        = [r EXCEPT !.at = "failed", !.todo = {}, !.ids = {}, !.created = {}, !.found = None,
                    !.escaped = e]
    BY <1>2 DEF CallType
  <2> QED BY <2>2, <2>3
<1>6. c \in alone /\ r.op = "create" =>
          r.before \subseteq Existing' /\ Existing' = r.before \cup e
  BY <1>1, <1>2, <1>3, <1>4 DEF Lone, Owned, Consistent, CreateSteps, UpdateSteps
<1> QED BY <1>1, <1>3, <1>5, <1>6, CallFails

\* Without a service, nobody is alone any more; and what else leaves the calls as
\* they are changes nothing the invariant speaks of.
LEMMA OthersKeep ==
    ASSUME IInv, DeleteService \/ Want \/ UNCHANGED vars
    PROVE  IInv'
<1>1. CASE DeleteService
  BY <1>1 DEF IInv, DeleteService, StoreOK
<1>2. CASE Want \/ UNCHANGED vars
  BY <1>2 DEF IInv, Want, vars, ctrl, StoreOK, Undisturbed, Running, Lone, Collected, Looked,
              Answered, Owned, Made, Stripped, KindOf, Existing, Configured
<1> QED BY <1>1, <1>2

\* Whatever calls and faults came before, the invariant holds.
THEOREM Invariant == Spec => []IInv
<1>1. Init => IInv
  BY DEF Init, FaultsInit, IInv, StoreOK, Idle, CallType, Consistent, CreateSteps, UpdateSteps, Final,
         Kinds
<1>2. IInv /\ [Next]_vars => IInv'
  <2> SUFFICES ASSUME IInv, [Next]_vars PROVE IInv'
    OBVIOUS
  <2>1. ASSUME NEW c \in Calls, Handler(c) PROVE IInv'
    <3>1. CASE CreateConfig(c) BY <3>1, CreateConfigKeeps
    <3>2. CASE FindConfig(c) BY <3>2, FindConfigKeeps
    <3>3. CASE AdoptConfig(c) BY <3>3, AdoptConfigKeeps
    <3>4. CASE CreateZitiService(c) BY <3>4, CreateZitiServiceKeeps
    <3>5. CASE RollbackConfig(c) BY <3>5, RollbackConfigKeeps
    <3>6. CASE FindExisting(c) BY <3>6, FindExistingKeeps
    <3>7. CASE PatchExisting(c) BY <3>7, PatchExistingKeeps
    <3>8. CASE DetailService(c) BY <3>8, DetailServiceKeeps
    <3>9. CASE FindServiceConfig(c) BY <3>9, FindServiceConfigKeeps
    <3>10. CASE CreateMissingConfig(c) BY <3>10, CreateMissingConfigKeeps
    <3>11. CASE RewriteConfig(c) BY <3>11, RewriteConfigKeeps
    <3>12. CASE PatchService(c) BY <3>12, PatchServiceKeeps
    <3> QED BY <2>1, <3>1, <3>2, <3>3, <3>4, <3>5, <3>6, <3>7, <3>8, <3>9, <3>10, <3>11,
               <3>12 DEF Handler
  <2>2. ASSUME NEW c \in Calls, Cancel(c) PROVE IInv'
    BY <2>2, CancelKeeps
  <2>3. ASSUME NEW c \in Calls, NEW existing \in BOOLEAN, Ask(c, existing) PROVE IInv'
    BY <2>3, StartCreateKeeps DEF Ask
  <2>4. ASSUME NEW c \in Calls, NEW kinds \in Requests, NEW v \in Values, NEW b \in BOOLEAN,
               StartUpdate(c, kinds, v, b) PROVE IInv'
    BY <2>4, StartUpdateKeeps
  <2>5. CASE DeleteService \/ Want \/ UNCHANGED vars
    BY <2>5, OthersKeep
  <2> QED BY <2>1, <2>2, <2>3, <2>4, <2>5 DEF Next
<1> QED BY <1>1, <1>2, PTL DEF Spec

\* Two different things are two.
LEMMA PairHasTwo ==
    ASSUME NEW x, NEW y, x # y PROVE Cardinality({x, y}) = 2
<1>1. IsFiniteSet({x}) /\ Cardinality({x}) = 1
  BY FS_Singleton
<1>2. {x, y} = {x} \cup {y} /\ y \notin {x}
  OBVIOUS
<1> QED BY <1>1, <1>2, FS_AddElement

\* As many kinds as were asked for are attached, since no two share an id.
LEMMA OneConfigPerKind ==
    ASSUME StoreOK, NEW need \in SUBSET Kinds, NEW ids \in SUBSET Cids,
           ids = {config[k] : k \in need}
    PROVE  Cardinality(ids) = Cardinality(need)
<1>1. config["host"] = config["intercept"] => ids \cap {config["host"], config["intercept"]} = {}
  BY NoneAssumption DEF StoreOK
<1>2. CASE need = {}
  BY <1>2
<1>3. CASE \E k \in Kinds : need = {k}
  <2>1. PICK k \in Kinds : need = {k} BY <1>3
  <2>2. ids = {config[k]} BY <2>1
  <2> QED BY <2>1, <2>2, FS_Singleton
<1>4. CASE need = Kinds
  <2>1. need = {"host", "intercept"} /\ ids = {config["host"], config["intercept"]}
    BY <1>4 DEF Kinds
  <2>2. config["host"] # config["intercept"] /\ "host" # "intercept"
    BY <1>1, <2>1
  <2>3. Cardinality({config["host"], config["intercept"]}) = 2
    BY <2>2, PairHasTwo
  <2>4. Cardinality({"host", "intercept"}) = 2
    BY <2>2, PairHasTwo
  <2> QED BY <2>1, <2>3, <2>4
<1> QED BY <1>2, <1>3, <1>4 DEF Kinds

\* A create that answers OK, undisturbed, where there was no service has made one as
\* asked (createOrAdoptConfig, CreateServiceWithConfigsAndTags), less what its rollback
\* took away when the answer of createService was lost (cleanupConfigs, CreateService).
THEOREM CreatesConfigure == Spec => []LoneCreateConfigures
<1>1. IInv => LoneCreateConfigures
  <2> SUFFICES ASSUME IInv, NEW c \in alone, NEW r, call[c] = r, r.at = "ok",
                      r.op \in {"create", "adopt"}, r.was = None,
                      NEW stripped, stripped = {k \in r.need : config[k] = None},
                      NEW kept, kept = r.need \ stripped
               PROVE  /\ svc = r.sid /\ roles = r.val
                      /\ Configured(kept, r.val) /\ Cardinality(attached) = Cardinality(kept)
                      /\ stripped # {} => r.op = "adopt" /\ faults["lost"] > 0
                      /\ r.before \subseteq Existing
    BY DEF LoneCreateConfigures, Succeeded
  <2>1. /\ StoreOK /\ attached \in SUBSET Cids /\ r.need \in SUBSET Kinds /\ Lone(r)
        /\ kept \in SUBSET Kinds /\ kept = {k \in r.need : config[k] # None}
    BY DEF IInv, StoreOK, CallType
  <2>2. svc = r.sid /\ roles = r.val /\ r.before \subseteq Existing
    BY <2>1 DEF Lone, Answered, Owned
  <2>3. /\ attached = {config[k] : k \in kept}
        /\ \A k \in kept : data[k] = r.val
        /\ stripped # {} => r.op = "adopt" /\ faults["lost"] > 0
    <3>1. CASE r.op = "create"
      <4>1. attached = {config[k] : k \in r.need} /\ \A k \in r.need : data[k] = r.val
        BY <2>1, <3>1 DEF Lone, Answered, Configured
      <4>2. stripped = {} /\ kept = r.need
        BY <2>1, <4>1, NoneAssumption
      <4> QED BY <4>1, <4>2
    <3>2. CASE r.op = "adopt"
      <4>1. Stripped(r)
        BY <2>1, <3>2 DEF Lone, Answered, Made
      <4> QED BY <2>1, <3>2, <4>1 DEF Stripped
    <3> QED BY <3>1, <3>2
  <2>4. Cardinality(attached) = Cardinality(kept)
    BY <2>1, <2>3, OneConfigPerKind
  <2> QED BY <2>2, <2>3, <2>4 DEF Configured
<1> QED BY <1>1, Invariant, PTL

\* A create that answers with the existing service has set its role attributes
\* (CreateService with return_existing).
THEOREM AdoptedServicesAreAsAsked == Spec => []AdoptionConverges
<1>1. IInv => AdoptionConverges
  BY DEF IInv, AdoptionConverges, Lone, Answered, Succeeded
<1> QED BY <1>1, Invariant, PTL

\* A create that failed or handed back a service has deleted every config it made that
\* has not escaped it, and no other (cleanupConfigs).
THEOREM FailedCreatesCleanUp == Spec => []FailedCreateTakesBack
<1>1. IInv => FailedCreateTakesBack
  <2> SUFFICES ASSUME IInv, NEW c \in alone, NEW r, call[c] = r,
                      \/ r.op = "adopt" /\ r.at = "ok"
                      \/ r.op = "create" /\ r.at = "failed"
               PROVE  Existing = r.before \cup r.escaped
    BY DEF FailedCreateTakesBack, Succeeded
  <2> QED BY DEF IInv, Lone, Owned, Consistent, Final
<1> QED BY <1>1, Invariant, PTL

\* An update that answers OK, undisturbed, has attached and written what it was given
\* (UpdateService, upsertServiceConfig).
THEOREM UpdatesConverge == Spec => []LoneUpdateConverges
<1>1. IInv => LoneUpdateConverges
  BY DEF IInv, LoneUpdateConverges, Lone, Answered, Succeeded
<1> QED BY <1>1, Invariant, PTL

---------------------------------------------------------------------------
(* The data of the configs *)

\* Trimming ends in a word or in nothing.
LEMMA Trimmed ==
    ASSUME NEW t \in Texts PROVE TrimSpace(t) \in Words \cup {Empty}
BY TextsAssumption DEF Texts, TrimSpace

\* A list that passes has only words, as many as before.
LEMMA CleanedStrings ==
    ASSUME NEW texts \in Seq(Texts), StringsOK(texts)
    PROVE  LET clean == cleanOptionalStrings(texts)
           IN /\ DOMAIN clean = DOMAIN texts
              /\ \A i \in DOMAIN clean : clean[i] \in Words
              /\ clean = <<>> <=> texts = <<>>
              /\ texts # <<>> => GoodStrings(clean)
<1> DEFINE clean == cleanOptionalStrings(texts)
<1>1. DOMAIN clean = DOMAIN texts
  BY DEF cleanOptionalStrings
<1>2. ASSUME NEW i \in DOMAIN clean PROVE clean[i] \in Words
  <2>1. texts[i] \in Texts
    BY <1>1
  <2> QED BY <1>1, <2>1, Trimmed DEF cleanOptionalStrings, StringsOK
<1>3. clean = <<>> <=> texts = <<>>
  <2>1. clean \in Seq(Words)
    <3>1. Len(texts) \in Nat /\ DOMAIN texts = 1..Len(texts) OBVIOUS
    <3> QED BY <1>1, <1>2, <3>1 DEF cleanOptionalStrings
  <2>2. DOMAIN texts = {} <=> texts = <<>>
    OBVIOUS
  <2>3. DOMAIN clean = {} <=> clean = <<>>
    BY <2>1
  <2> QED BY <1>1, <2>2, <2>3
<1> QED BY <1>1, <1>2, <1>3 DEF GoodStrings

\* A list of port ranges that passes is good.
LEMMA CheckedRanges ==
    ASSUME NEW ranges \in Seq(PortRanges), PortRangesOK(ranges), ranges # <<>>
    PROVE  GoodRanges(ranges)
<1>1. ASSUME NEW i \in DOMAIN ranges
      PROVE  ranges[i].low \in Int /\ ranges[i].high \in Int
  <2>1. ranges[i] \in PortRanges
    BY <1>1
  <2> QED BY <2>1 DEF PortRanges
<1> QED BY <1>1, MaxPortAssumption DEF PortRangesOK, InRange, GoodRanges

\* What an accepted host.v1 config writes names a destination for each part, fixed
\* or forwarded within a list, and nothing else than was asked for.
THEOREM AcceptedHostIsUsable ==
    ASSUME NEW v \in HostRequests, HostOK(v)
    PROVE  LET written == WrittenHost(fromProtoHostV1Config(v))
           IN HostIsUsable(written) /\ HostIsAsked(v, written)
<1> DEFINE d == fromProtoHostV1Config(v)
           written == WrittenHost(d)
<1>1. /\ v.protocol \in Texts /\ v.address \in Texts /\ v.port \in Int
      /\ {v.forwardProtocol, v.forwardAddress, v.forwardPort} \subseteq BOOLEAN
      /\ v.allowedProtocols \in Seq(Texts) /\ v.allowedAddresses \in Seq(Texts)
      /\ v.allowedPortRanges \in Seq(PortRanges)
  BY DEF HostRequests
<1>2. /\ d.protocol = TrimSpace(v.protocol) /\ d.address = TrimSpace(v.address)
      /\ d.port = v.port
      /\ d.forwardProtocol = v.forwardProtocol
      /\ d.forwardAddress = v.forwardAddress
      /\ d.forwardPort = v.forwardPort
      /\ d.allowedProtocols = cleanOptionalStrings(v.allowedProtocols)
      /\ d.allowedAddresses = cleanOptionalStrings(v.allowedAddresses)
      /\ d.allowedPortRanges = v.allowedPortRanges
  BY DEF HostRequests, fromProtoHostV1Config
<1>3. /\ DOMAIN written = hostV1ConfigKeys(d) \cup AllowLists(d)
      /\ \A key \in DOMAIN written : key \notin Forwards => written[key] = d[key]
  BY DEF WrittenHost
<1> HIDE DEF d, written
<1>4. /\ "protocol" \in DOMAIN written <=> ~d.forwardProtocol
      /\ "address" \in DOMAIN written <=> ~d.forwardAddress
      /\ "port" \in DOMAIN written <=> ~d.forwardPort
      /\ "forwardProtocol" \in DOMAIN written <=> d.forwardProtocol
      /\ "forwardAddress" \in DOMAIN written <=> d.forwardAddress
      /\ "forwardPort" \in DOMAIN written <=> d.forwardPort
  BY <1>1, <1>2, <1>3 DEF hostV1ConfigKeys, AllowLists
<1>5. /\ "allowedProtocols" \in DOMAIN written <=> d.allowedProtocols # <<>>
      /\ "allowedAddresses" \in DOMAIN written <=> d.allowedAddresses # <<>>
      /\ "allowedPortRanges" \in DOMAIN written <=> d.allowedPortRanges # <<>>
  BY <1>3 DEF hostV1ConfigKeys, AllowLists
<1>6. /\ TrimSpace(v.protocol) \in Words \cup {Empty}
      /\ TrimSpace(v.address) \in Words \cup {Empty}
  BY <1>1, Trimmed
<1>7. HostIsUsable(written)
  <2>1. IF "forwardProtocol" \in DOMAIN written
        THEN /\ "protocol" \notin DOMAIN written /\ "allowedProtocols" \in DOMAIN written
             /\ GoodStrings(written["allowedProtocols"])
        ELSE "protocol" \in DOMAIN written /\ written["protocol"] \in Words
    <3>1. CASE v.forwardProtocol
      <4>1. d.allowedProtocols # <<>> /\ GoodStrings(d.allowedProtocols)
        BY <1>1, <1>2, <3>1, CleanedStrings DEF HostOK, GoodStrings
      <4> QED BY <1>2, <1>3, <1>4, <1>5, <3>1, <4>1 DEF Forwards
    <3>2. CASE ~v.forwardProtocol
      <4>1. d.protocol \in Words
        BY <1>2, <1>6, <3>2 DEF HostOK
      <4> QED BY <1>2, <1>3, <1>4, <3>2, <4>1 DEF Forwards
    <3> QED BY <3>1, <3>2
  <2>2. IF "forwardAddress" \in DOMAIN written
        THEN /\ "address" \notin DOMAIN written /\ "allowedAddresses" \in DOMAIN written
             /\ GoodStrings(written["allowedAddresses"])
        ELSE "address" \in DOMAIN written /\ written["address"] \in Words
    <3>1. CASE v.forwardAddress
      <4>1. d.allowedAddresses # <<>> /\ GoodStrings(d.allowedAddresses)
        BY <1>1, <1>2, <3>1, CleanedStrings DEF HostOK, GoodStrings
      <4> QED BY <1>2, <1>3, <1>4, <1>5, <3>1, <4>1 DEF Forwards
    <3>2. CASE ~v.forwardAddress
      <4>1. d.address \in Words
        BY <1>2, <1>6, <3>2 DEF HostOK
      <4> QED BY <1>2, <1>3, <1>4, <3>2, <4>1 DEF Forwards
    <3> QED BY <3>1, <3>2
  <2>3. IF "forwardPort" \in DOMAIN written
        THEN /\ "port" \notin DOMAIN written /\ "allowedPortRanges" \in DOMAIN written
             /\ GoodRanges(written["allowedPortRanges"])
        ELSE "port" \in DOMAIN written /\ written["port"] \in 1..maxPort
    <3>1. CASE v.forwardPort
      <4>1. d.allowedPortRanges # <<>> /\ GoodRanges(d.allowedPortRanges)
        BY <1>1, <1>2, <3>1, CheckedRanges DEF HostOK
      <4> QED BY <1>2, <1>3, <1>4, <1>5, <3>1, <4>1 DEF Forwards
    <3>2. CASE ~v.forwardPort
      <4>1. d.port \in 1..maxPort
        BY <1>1, <1>2, <3>2, MaxPortAssumption DEF HostOK, InRange
      <4> QED BY <1>2, <1>3, <1>4, <3>2, <4>1 DEF Forwards
    <3> QED BY <3>1, <3>2
  <2> QED BY <2>1, <2>2, <2>3 DEF HostIsUsable
<1>8. HostIsAsked(v, written)
  <2>1. SameList(written, "allowedProtocols", v.allowedProtocols)
    BY <1>1, <1>2, <1>3, <1>5, CleanedStrings DEF SameList, HostOK, Forwards
  <2>2. SameList(written, "allowedAddresses", v.allowedAddresses)
    BY <1>1, <1>2, <1>3, <1>5, CleanedStrings DEF SameList, HostOK, Forwards
  <2>3. SameList(written, "allowedPortRanges", v.allowedPortRanges)
    BY <1>2, <1>3, <1>5 DEF SameList, Forwards
  <2> QED BY <1>2, <1>4, <2>1, <2>2, <2>3 DEF HostIsAsked
<1> QED BY <1>7, <1>8 DEF d, written

\* What an accepted intercept.v1 config writes is complete.
THEOREM AcceptedInterceptIsUsable ==
    ASSUME NEW v \in InterceptRequests, InterceptOK(v)
    PROVE  InterceptIsUsable(fromProtoInterceptV1Config(v))
<1> DEFINE d == fromProtoInterceptV1Config(v)
<1>1. /\ v.protocols \in Seq(Texts) /\ v.addresses \in Seq(Texts)
      /\ v.portRanges \in Seq(PortRanges)
  BY DEF InterceptRequests
<1>2. /\ d.protocols = cleanOptionalStrings(v.protocols)
      /\ d.addresses = cleanOptionalStrings(v.addresses)
      /\ d.portRanges = v.portRanges
  BY DEF InterceptRequests, fromProtoInterceptV1Config
<1>3. GoodStrings(d.protocols)
  BY <1>1, <1>2, CleanedStrings DEF InterceptOK
<1>4. GoodStrings(d.addresses)
  BY <1>1, <1>2, CleanedStrings DEF InterceptOK
<1>5. GoodRanges(d.portRanges)
  BY <1>1, <1>2, CheckedRanges DEF InterceptOK
<1> QED BY <1>3, <1>4, <1>5 DEF InterceptIsUsable

\* A host.v1 config of which every part is good is accepted, whatever it forwards.
THEOREM PlainHostIsAccepted ==
    ASSUME NEW v \in HostRequests, HostIsPlain(v)
    PROVE  HostOK(v)
<1>1. /\ v.allowedProtocols \in Seq(Texts) /\ v.allowedAddresses \in Seq(Texts)
      /\ v.port \in Int
  BY DEF HostRequests
<1>2. ASSUME NEW texts \in Seq(Texts), GoodStrings(cleanOptionalStrings(texts))
      PROVE  texts # <<>> /\ StringsOK(texts)
  <2>1. texts # <<>>
    BY <1>2 DEF GoodStrings, cleanOptionalStrings
  <2>2. ASSUME NEW i \in DOMAIN texts PROVE TrimSpace(texts[i]) # Empty
    BY <1>2, TextsAssumption DEF GoodStrings, cleanOptionalStrings
  <2> QED BY <2>1, <2>2 DEF StringsOK
<1>3. PortRangesOK(v.allowedPortRanges)
  <2>1. ASSUME NEW i \in DOMAIN v.allowedPortRanges
        PROVE  /\ InRange(v.allowedPortRanges[i].low) /\ InRange(v.allowedPortRanges[i].high)
               /\ v.allowedPortRanges[i].low <= v.allowedPortRanges[i].high
    <3>1. v.allowedPortRanges[i] \in PortRanges
      BY <2>1 DEF HostRequests
    <3> QED BY <2>1, <3>1, MaxPortAssumption DEF HostIsPlain, GoodRanges, PortRanges, InRange
  <2> QED BY <2>1 DEF PortRangesOK
<1>4. TrimSpace(v.protocol) # Empty /\ TrimSpace(v.address) # Empty
  BY TextsAssumption DEF HostIsPlain
<1>5. InRange(v.port) /\ v.port <= maxPort
  BY <1>1, MaxPortAssumption DEF HostIsPlain, InRange
<1> QED BY <1>1, <1>2, <1>3, <1>4, <1>5 DEF HostIsPlain, HostOK, GoodRanges
=============================================================================
