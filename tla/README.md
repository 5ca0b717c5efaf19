# Formal models of ziti-management

ziti-management is a gRPC service that creates, tracks and removes identities,
services and policies on an OpenZiti controller. It keeps two tables of its own
in PostgreSQL. Every operation of interest touches the controller and the
database one after the other, with no transaction that spans both, and most of
the difficulty of the code is in what happens when one of those calls fails,
when two requests overlap, or when the process stops in between. The modules in
this directory model those operations call by call. TLC checks them on small
instances, and TLAPS proves every safety property that holds of them for all
instances.

## Inventory

| Component | State it keeps | Operations | Interacts with | What is hard |
|---|---|---|---|---|
| Service identity leases (`server.go:459-498`) | rows of `service_identities` with an expiry; identities on the controller | `RequestServiceIdentity`, `ExtendIdentityLease` | collector, controller, table | extension racing collection; failed cleanup; late writes |
| Service identity collector (`gc.go`) | a list per sweep | list expired rows, delete on the controller, delete the row | the same two stores, from every replica | old lists, partial deletion, restarts |
| Agent and sandbox identities (`server.go:90-180`, `386-406`) | rows of `managed_identities`; identities with the workload as unique external id | `CreateAgentIdentity`, `CreateSandboxIdentity`, `DeleteIdentity` | a reconciler that retries deletions | partial deletion, retries, leftovers of a failed create |
| Runner and app identities (`server.go:182-216`, `310-384`, `408-457`) | rows by `identity_id` (not unique); identities with the runner or app as unique external id; a service | `CreateRunnerIdentity`, `CreateAppIdentity`, `DeleteRunnerIdentity`, `DeleteAppIdentity` | owners that re-enroll | replacement of an earlier enrollment, lost creates, overlap |
| Services and configs (`client.go:562-817`, `1281-1433`) | on the controller only: a service, a host and an intercept config with unique names | `CreateService` (adoption, rollback, `return_existing`), `UpdateService`, `DeleteService` | callers that retry | orphan configs, rollback, stale config lists |
| Device and tunnel identities (`server.go:621-686`, `client.go:530-560`, `1033-1065`) | identities without a row; a tunnel's has a unique external id | create, delete, sweep of leftovers by tag | owners that retry, controller | leftovers of a failed create, creates that arrive late |
| Service policies (`server.go:500-617`, `client.go:899-1031`) | on the controller only, with unique names | create (`return_existing`), read, delete | controller | any failure answered with the existing policy; retries |
| Role attribute patches (`client.go:1067-1150`) | role attributes of an identity | read, merge, write | controller | lost updates |
| Listing and paging | page tokens | keyset pages, offset scans filtered by tag | both stores | entries that come and go between pages |
| `ResolveIdentity`, liveness | none | lookups, fallback by agent name | both stores | answers that are stale or ambiguous |
| Controller session (`client.go:177-217`) | shared clients under a mutex | one retry after a 401 | every call to the controller | replacement while in use |
| Own enrollment (`enroll.go`) | three files, a one-time token | `EnsureEnrollment` at start | file system, controller | a stop after the token is spent |
| Migrations (`db/migrate.go`) | `schema_migrations` | one transaction at start | database | replicas that start together |
| Start and shutdown (`main.go`) | none | wiring, signals | all | a stop with calls running |
| Configuration, conversions, chart | none | parsing, mapping, packaging | | |

What makes each component correct:

- Leases: a holder that extends in time keeps its identity; NotFound is only ever
  said of an identity that is gone; nothing that was handed out is forgotten.
- Collector: the row, its only memory, outlives the identity; what nobody wants
  is eventually gone from both stores.
- Agents and sandboxes: what was handed out is whole; what was deleted stays
  deleted; retried deletions end.
- Runners and apps: a successful re-enrollment leaves exactly one identity and
  one row; a successful deletion leaves nothing to resolve; retries get through.
- Services: a successful create or update has the effect it reports; a failed
  create leaves no config of its own; orphans do not wedge retries; rollback does
  not harm a live service.
- Devices and tunnels: what was handed out exists until it is given up, what was
  deleted stays gone, and leftovers never block an owner for good.
- Policies: a create that runs alone tells the truth about what is there.
- Role attributes: the merge does what is asked, and a change is lost to nothing
  but a write that overtook it.
- Listing: an entry that stays is listed, and none twice, as far as keyset tokens
  and offsets can promise that; a listing ends.
- Session: a retry uses a new session, a call takes effect at most once, and no
  call waits for ever.
- Start: replicas that start together neither spoil each other's credentials nor
  apply a migration twice, and they end serving.

## Modules

| Module | Models |
|---|---|
| `Faults` | kinds of faults and their budgets; extended by every module with a handler that can fail |
| `LeaseRegistry` | abstract specification: what a holder of a service identity is promised |
| `ServiceLease` | lease handlers and collectors over both stores; implements `LeaseRegistry` |
| `IdentityStores` | controller and `managed_identities`, with the calls made to them |
| `WorkloadIdentity` | agent and sandbox creation and `DeleteIdentity`; extends `IdentityStores` |
| `EnrolledIdentity` | runner and app enrollment and deletion; extends `IdentityStores` |
| `TokenIdentity` | devices and tunnels: create, delete, sweep by tag |
| `ServiceConfig` | one service name with its configs |
| `ConfigData` | validation of the configs' data, and what is written (operators only) |
| `ServicePolicy` | one policy name: create, lookup, delete |
| `RoleAttributes` | overlapping patches of one identity |
| `Listing` | keyset pages of the table, filtered offset scans of the controller |
| `AtomicCall` | abstract specification: a call takes effect once or not at all |
| `Session` | shared clients, 401 and retry; implements `AtomicCall` |
| `Deployment` | replicas and the steps of their start, for its two parts |
| `Enrollment`, `Migrations` | the two parts: credentials and schema; each extends `Deployment` |
| `Startup` | `main.run`: both parts composed, over one volume and one database |
| `MC...` | values of the constants for TLC, symmetry sets |
| `ServiceLeaseProofs`, `WorkloadIdentityProofs`, `EnrolledIdentityProofs`, `TokenIdentityProofs`, `ServicePolicyProofs` | theorems about the module of the name |
| `ServiceConfigProofs` | theorems about `ServiceConfig` and `ConfigData` |
| `ListProofs` | theorems about `Listing` and `RoleAttributes`, and about sums and passes over lists |
| `AccessProofs` | theorems about `Session` and `Startup` |

### Conventions

Every call to the controller or the database is one step. It works, is *refused*
(an error without effect) or is *lost* (the effect without the answer); a
caller's context can be *cancelled*, after which every further call of that
handler fails, cleanup included; and a process can *stop*. Where it matters a
call that its caller gave up is also *late*: the controller applies it at some
later time. Each kind of fault has a budget, `MaxFaults`, that appears in the
guard `Fault(kind)`. Unless a module says otherwise cancelling and stopping share
the kind `"stop"`. What is private to a handler (the identity it is about, where
it stands) is lost when the process stops, and the stores are not. A 401 and the
retry after it are part of the one step; `Session` shows why they may be.

Ids the controller assigns are random, so it makes no difference which of the
unused ones a create gets; `Assignable` picks one.

Definitions marked `Variant:` are modified forms of the action that follows them,
each with a plausible mistake (a guard dropped, an error ignored, an order
swapped). They are not part of any specification; each is there to show that some
property fails when the code is changed in that way (see "mutants" in
`PROJECT.json`).

### ServiceLease

| State | Code |
|---|---|
| `pc` | where `RequestServiceIdentity` stands; `held`, `abandoned`: what became of the holder |
| `ziti`, `rows`, `left` | controller; `service_identities` and `lease_expires_at` |
| `extId`, `extLeft` | an extension between `time.Now()` and its `UPDATE` |
| `batch`, `cur` | the list of a replica's sweep, and its progress inside the loop |
| `told`, `lapsed` | history: identities answered NotFound; identities ever seen expired |

Time is relative. `left[i]` counts down from `TTL` to `Expired`, which is where
`lease_expires_at < NOW()`; there is one clock for the processes and the
database. The expiry of a new row is computed before the row is inserted, and
ages meanwhile.

Each replica runs its own collector, so that lists overlap when there is more than
one. By default there is not: the chart has `replicaCount` 1, `updateStrategy`
`Recreate`, autoscaling off and a `ReadWriteOnce` volume
(`charts/ziti-management/values.yaml:15-18`, `:109-111`, `:151-154`). Several replicas,
or an old and a new process at once, take changed values: more replicas, autoscaling
(up to 3), a rolling update. Nothing in the code rules them out, so `Replicas` is any set
here and in `Deployment`; a default deployment is the case of one. Which replica
serves a call is not tracked: a restart of a replica takes down its sweep and any
subset of the running handlers.

`RequestServiceIdentity`'s cleanup on a failed insert and the one in the client
on a failed enrollment are the same call in the same situation, and one action.

### IdentityStores, WorkloadIdentity, EnrolledIdentity

`live` and `keyOf` are the controller's identities and their external ids, which
it keeps unique; `rows` is the table. A handler is a record in `call`. Identities
that only the controller knows the id of, after the answer of a create was lost,
are in `live` with no handler that refers to them.

In `WorkloadIdentity` the reconciler puts identities it was handed, or found on
the controller by tag, into `doomed` and retries `DeleteIdentity`, one call at a
time per identity. Deleting an identity found by tag before its create inserted
the row defeats the order the handlers rely on; `early` records that and the
properties that need it say so.

In `EnrolledIdentity` a key is a runner or an app (`apps`). `alone` is the set of
calls that overlapped with no other on their key and that none followed; `raced`
are the keys on which two ever overlapped. Runner and app deletions differ in what
they do when a row is missing, and in whether the service is required. No code
path stores `ziti_service_id` in the table, so the service comes from the
request.

### TokenIdentity

Devices and tunnels have no row. `tag` is the owner an identity was created for,
which `ListIdentitiesByTag` finds it by; a tunnel's owner is a credential and is
its external id too, a device's owner is a user and is not. The identity is made
by one call and its token fetched by another, and neither of them is undone when
it fails. `inflight` are creates that were given up and that the controller still
applies. The owner is the environment: it wants an identity, sweeps what has its
tag and was not handed out, asks again, and deletes what it does not need.

### ServiceConfig, ConfigData

`config`, `data`, `svc`, `attached`, `roles` are the controller's objects for
one service name; data, tags and role attributes of one request are one value.
A call handles the host config first and then the intercept config, as the code
does. Deleting a config detaches it. `PatchServiceRoleAttributes` after
`return_existing` is `PatchExisting`. The read after `UpdateService`'s patch
decides the answer only, and is covered by the lost answer of the patch.

A call remembers, for the properties alone, the configs and the service there were
when it started (`before`, `was`) and the configs it has made that it will not take
back (`escaped`): the controller created one without answering, refused to delete one,
or the call was cancelled with some in hand.

`ConfigData` has no state. It says what `fromProtoHostV1Config` and
`fromProtoInterceptV1Config` accept and make of a request, and which keys
`hostV1ConfigData` writes for it. A text is empty, blank, a word, or a word with
spaces around it, since that is what `TrimSpace` and the validation tell apart.

### ServicePolicy

`policy` is the id of the policy of the name, `roles` what each id was created
with. A create that fails, whatever the reason, goes on to look for the policy of
the name if `return_existing` is set, as the code does. `disturbed` are the calls
that met a fault or another call, `before` what there was when they began.

### RoleAttributes

A patch reads the identity, merges the request (`patchRoleAttributes`: what is
there and not removed, then what is added and neither there nor removed) and
writes the whole list. `overtaken` are calls since whose read another write took
place, and `inflight` those whose write arrives after they gave up.

### Listing

`source` says which of the two kinds of listing a behaviour is about. Entries are
numbers in the order of the list, so that the keyset token is the entry itself
and an offset is a position. In the table a page is one query. In the controller's
lists a page takes as many fetches as it needs, each one step (`Fetch`), and other
callers insert and delete between them. The controller applies its own limit
(`PageLimit`), which may be below the one asked for, and reports it. Position
and limit are those of the moment of the fetch.

### Session

Each of the clients belongs to a session, numbered in the order they were made.
`reauthenticate` takes the mutex, logs in, replaces the clients one by one
(`todo`) and releases it; a call takes its client under the same mutex. The
controller can forget any session at any time. A call's effect and its answer are
counted, and it ends with an answer.

### Deployment, Enrollment, Migrations, Startup

`stage` is the step of its start that a process is about to take: `EnsureEnrollment`
(look at the files, spend the token, open and fill each of the three files),
`ApplyMigrations` (one statement after the other in one transaction), `NewClient`
(load the key pair and the authorities, log in), then it serves. A file is what
enrollment its content is from, or `Torn` after it has been truncated, or when two
processes have written it at a time. The model is of a deployment that has an
enrollment token; without one `EnsureEnrollment` does nothing.

The database is PostgreSQL at READ COMMITTED. `tx` is what the open transaction of
a process has done; others wait for its table and for its primary keys, and a
stop rolls it back. A migration whose effect is committed already can fail when it
is applied again, or not, depending on how it is written; the record of its
version fails in any case. `applied` counts how often the migration of a version took
effect. Versions may have been added in the middle, as the two
files numbered 0007 in `src/migrations` show.

## Runs

Instances are small, and every kind of fault can occur once unless stated
otherwise.

| Run | Instance | Properties |
|---|---|---|
| `ServiceLease` | 1 identity, 2 extensions, 2 replicas, TTL 2, 2 refused calls | `NotFoundIsDefinitive`, `GrantedIsTracked`, `PromptHolderKeepsIdentity`, `OneRefusalLeavesNoOrphan`, `RowOutlivesIdentity`, `ImplementsRegistry`, `UnwantedIsCollected` |
| `WorkloadIdentity` | 2 ids, 2 workloads, 2 calls | `DeletedStaysGone`, `HandedOutIsWhole`, `RowsAreLive`, `RetriedDeletionEnds` |
| `EnrolledIdentity` | 1 runner or app, 5 ids, 2 calls | `LoneEnrollHeals`, `DuplicateRowsNeedRace`, `LoneDeleteIsComplete`, `LoneDeleteForgets` |
| `EnrolledIdentityLiveness` | the same, 4 ids, 1 call | `RetriedEnrollSucceeds` |
| `TokenIdentity` | 1 user, 1 credential, 3 ids, 2 calls | `AnswersHold`, `DevicesAreUnlimited`, `WantedIsHanded` |
| `ServiceConfig` | 1 call at a time, every set of configs, 2 values, 5 config and 2 service ids | `LoneCreateConfigures`, `AdoptionConverges`, `FailedCreateTakesBack`, `LoneUpdateConverges`, `RetriedCreateSucceeds` |
| `ServiceConfigRollback` | 2 calls, host config, no faults | finds `LiveServiceKeepsConfigs` violated |
| `ServicePolicy` | 2 calls, 3 ids, 2 sets of roles | `LoneCreateTellsTruth`, `RetriedCreateSucceeds` |
| `RoleAttributes` | 2 calls, 2 attributes, 12 requests | `MergeMeetsReference`, `LossNeedsOvertaking` |
| `Listing` | 5 entries of which 4 match, page sizes 0, 1 and 3, default and limit 2, 2 insertions, 2 deletions, 1 failing fetch | `NothingListedTwice`, `StayersAreListed`, `DriftIsBounded`, `ListingEnds` |
| `Session` | 3 calls, 2 clients | `RetryUsesNewSession`, `ImplementsAtomicCall`, `EveryCallEnds` |
| `Startup` | 2 processes, 2 tokens, 3 migrations of 2 tables | `StuckNeedsCut`, `ServingCanReauthenticate`, `AppliedOnce`, `ServingSeesSchema`, `ServesOrStuck` |

Why the bounds are enough. Two extensions are what it takes to write a lease out of
order, two replicas for two sweeps to overlap, a TTL of two ticks for an extension
to find a lease that has aged and not run out; two refused calls defeat a cleanup.
Identities meet only in the list of a sweep; that any number of them changes nothing
is proved. In `WorkloadIdentity` ids are not reused, and `IdLeft` bounds the
creates: two ids are a loser and a winner of one workload, and the theorems are
about any number. In the modules with a stock of reusable ids, an id that nothing
refers to any more stands for a new one; five in `EnrolledIdentity` are enough
for a create never to lack one. `ServiceConfig` runs one call at a time, with
every fault, since its promises are to undisturbed calls and what they may find
is what earlier ones left behind; that overlapping calls can do harm is what
`ServiceConfigRollback` shows. In `Listing` five entries are more than two pages of
every size but the largest, and the limit of the controller is below one of the
sizes. In `Startup` the second token is one that an operator issues after the first
was spent, and three migrations of two tables make a transaction hold one lock
while it waits for another. No cfg constrains the states in any other way. Symmetry
is used where no liveness property is checked. `CHECK_DEADLOCK FALSE` is in every
cfg, because the bounded instances do come to rest: every request is done, every
id used and every fault spent.

Fairness. Handlers run to their end, because each is a goroutine with calls
that return or fail. The collector's loop never ends, and time goes on. A process
that has ended is started again, and a statement that need not wait for a lock is
executed. A caller of a list follows the tokens. A reconciler retries a deletion,
an owner an enrollment, a tunnel or a policy, and a caller a `CreateService` until
it is answered OK; those are strongly fair, because other calls can take the
instance's capacity in between. Nothing forces a request, an extension, a restart
of a running process, a cancellation, or an operator to issue a token. In
`EnrolledIdentityLiveness` the owner asks one at a time: two enrollments that
overlap for ever can delete each other's identity.

## What the runs show about the code

- `NotFoundIsDefinitive`: the contract quoted in
  `src/internal/server/extend_identity_lease_test.go:54-56` holds, because the
  collector deletes on the controller first and skips the row on any failure.
- `PromptHolderKeepsIdentity` is about holders whose lease never ran out. An
  extension that comes after a sweep's query still answers OK and loses: its
  identity is collected, and the next extension is answered NotFound.
- `OneRefusalLeavesNoOrphan` cannot be strengthened. A second refusal, a lost
  answer of the create, a cancellation or a stop leaves an identity without a
  row that the collector will never see, because it only looks at rows.
- `RetriedDeletionEnds` needs exactly what `src/internal/server/server.go:391-394`
  says: a missing row must not be an error.
- A failing fetch of the enrollment token in agent and sandbox creation leaves
  the identity behind (`client.go:488`, `523`), and its external id makes every
  retry for that workload fail until someone deletes it by its tag. The same is
  true of tunnels; `WantedIsHanded` shows that the sweep by tag is enough there.
- `LoneDeleteIsComplete` is about runners and one refusal. The row is deleted
  first, so when the controller then fails, the retry is NotFound for a runner
  and an OK about the service alone for an app, and the identity stays.
- `RetriedCreateSucceeds` of services: adoption does what `client.go:702-705`
  wants. Updates do not adopt, so an orphan config made by a failed update blocks
  later updates that need a config of that kind; that is the code's behaviour and
  no property hides it.
- `LiveServiceKeepsConfigs` is violated. `client.go:576-577` says that only
  configs the call created may be rolled back, since deleting an adopted one
  would strip it from the live service that owns it. A config the call created
  can have been adopted by another: A creates the config; B conflicts, adopts
  it and creates the service; A's create of the service conflicts on the name;
  A rolls back the config of B's service. No call fails for any other reason.
- `LoneCreateConfigures`: one call and one lost answer do the same harm without any
  overlap. A create with `return_existing` makes its configs and the service, but the
  answer of `createService` is lost; `client.go:615-617` deletes the configs, which the
  controller thereby detaches from the service just made; `server.go:245-251` finds
  that service, patches its role attributes and answers OK. The service is live and
  has no configs, and no later `return_existing` gives it any. The property says that
  this is the only way in which a lone create that answers OK, where there was no
  service, ends without a config it was asked for, and that configs that were there
  before, which it adopted, stay.
- `FailedCreateTakesBack` names three exceptions, and each of them happens: a config
  whose creation was not answered is found and adopted by the same call, which then
  does not take it for its own; `cleanupConfigs` tries each deletion once; and a
  cancelled call rolls back with a context that is already done.
- `LoneCreateTellsTruth` says what `return_existing` means for a policy: unlike a
  service, the existing policy keeps the roles it has, whatever the request says.
- `LossNeedsOvertaking`: a patch is lost when another writes between its read and
  its write, which includes a write that arrives long after its call gave up; it is
  lost to nothing else.
- `NothingListedTwice` and `StayersAreListed` hold for the table, whose token is
  an id. An offset shifts with what is inserted and deleted in front of it, so
  `DriftIsBounded` is the most that can be said of the controller's lists: a
  listing misses up to one entry per deletion, and repeats up to one per insertion.
- `StuckNeedsCut`: it takes a lost answer, a failed write, a stop between the
  first and the last file, or a token replaced during an enrollment, to end with a
  spent token and unusable files. One torn file is enough, and a fresh token does
  not help then: `certFilesExist` only looks at whether the files are there.
- `ServesOrStuck`: replicas that start on an empty database can fail on each
  other's migrations, roll back and restart, and still all serve in the end.
- `RetryUsesNewSession`, `EveryCallEnds`: calls that meet a 401 together log in one
  after the other, each for itself, and none of them is left behind.

## Proofs

Every theorem is about all values of the constants: any sets of ids, owners and
calls, any lease length, any page sizes and any fault budgets, from the
assumptions the modules state about their constants (budgets are natural
numbers, `None` is nothing else, no owner is both a user and a credential, a
lease lasts at least one tick, entries are positive numbers). The invariants
were checked with TLC before they were proved.

`ServiceLeaseProofs`: `TypeCorrect`; `NotFoundCorrect`, `GrantedCorrect`,
`PromptHolderCorrect` and `RowOutlives` from `Invariance`; `OneRefusalCorrect`;
`Refinement`. None of the safety properties is inductive. `LeaseInv` adds what they
rest on:

- `Progress`: before its response an identity is on the controller and has no
  row, so that no sweep can meet it.
- `SweepSound`: the list of a sweep may be old, and other replicas may have
  collected parts of it, but everything on it was seen expired; and the identity
  whose row comes next has left the controller. Since identities never come
  back, it stays away whatever the other replicas do. This is what
  makes it safe to delete the row without looking at it again.
- `LapseNoted`, `ExtendGranted`, `ToldGone`: the history variables are right.

`OneRefusalLeavesNoOrphan` needs a second invariant, `OrphanCost`, which counts
the faults: a handler in its cleanup has cost one, an orphan two or a lost answer
or a stop. The refinement has one step of the registry per step of the service:
an insert is a grant, a tick or an extension written late is a lapse, a
deletion on the controller is a collection, a NotFound is `TellGone`, and
everything else is a stutter.

`WorkloadIdentityProofs`: `DeletedCorrect`, `HandedOutCorrect`, `RowsCorrect`. The
three properties are inductive only together with what the running calls know
(`WorkloadInv`): no two creates and no two deletions work on the same identity
(`CallsApart`); a new id is one that nothing refers to (`CreatedOnce`); an
identity on its way has no row and is on the controller unless it was doomed early
(`MakersKnow`); a deletion that has come to the controller has removed the row, and
no insert will bring it back, since an identity is handed out before it is doomed
(`DeletersKnow`, `HistoryKnows`).

`EnrolledIdentityProofs`: `HealsCorrect`, `DuplicatesCorrect`, `CompleteCorrect`,
`ForgetsCorrect`, all from `EnrolledCorrect`. What a call may rely on depends on the
other calls on its key, so `EnrolledInv` says it per call (`CallInv`) and per key
(`KeyInv`), and only of calls that are alone or keys that are not raced;
`OverlapsKnown` says that a running call takes both from every other call on its
key. A handler's step therefore only has to keep what concerns its own call and key
(`OwnStepSuffices`), and each step is proved to do that. `CompleteSound` counts the
faults: an enrollment in its cleanup has already met the one refused call that
`LoneDeleteIsComplete` allows, so with few faults its identity is undone, and a key
never has an identity beside the one of its row.

`TokenIdentityProofs`: `TypeCorrect`, `AnswersCorrect`, `DevicesCorrect`. `AnswersHold`
rests on `CreatedOnce` (a late create gets an id of its own, so it brings nothing
back) and `CallsKnow` (only what an owner gave up, or what was never handed out, is
deleted). `DevicesAreUnlimited` is an action property and needs more: an identity
whose token is being fetched must still be there. `OwnersApart` says why: an owner has
one call at a time, a sweep waits for it, and so does a deletion, so nobody deletes
what the call has just made.

`ServicePolicyProofs`: `TruthCorrect`, an action property, from an invariant that
says that calls that overlap disturb each other, and that an undisturbed one still
finds what was there when it began.

`ServiceConfigProofs`: `CreatesConfigure`, `AdoptedServicesAreAsAsked`,
`FailedCreatesCleanUp`, `UpdatesConverge`, from `Invariant`. The run has one call at
a time; the theorems are about any number of calls that may overlap before and
after the one that ran alone. `IInv` says of every call only that it is at a step of
its operation, and of a call that is alone what its local list means: the configs
it has handled exist, are in the list and have the value asked for (`Collected`);
what it looked up is still there (`Looked`); and the configs that exist are those it
came upon, those it made and those that escaped it (`Owned`), so that a rollback
leaves what was there before, whatever went wrong on the way. Where there was no
service, one that is there has been made by the call itself (`Made`); if the call goes
on to roll back, an answer was lost, and the configs that are left are still
attached and as asked for (`Stripped`). A running call takes `alone` from every other,
so that a step has to be looked at for one call (`StepSuffices`). TLC checked `IInv`
before it was proved, with one call and a fault of each kind, and with two
overlapping calls and a lost answer. `AcceptedHostIsUsable`,
`AcceptedInterceptIsUsable`, `PlainHostIsAccepted` are about the data, for requests of
any size and any port limit; TLC evaluates the same statements on small requests,
as an assumption of `MCServiceConfig`.

`ListProofs`, the table: `NothingTwice`, `StayersCorrect`. The invariant of a listing of
the table is that what lies up to the token, of what stayed, has been shown once,
and nothing beyond it has. Its lemmas are about `First`, the first n entries of a
set in order: it is closed downwards, and if no more than n of n + 1 are found, they
are all there is, which is what looking one row ahead is for.

`ListProofs`, the controller: `DriftCorrect`. `DriftIsBounded` counts, and says nothing of
offsets. `Drift` does: of the entries that stayed, those behind the offset and not
shown are no more than the deletions, and those shown twice together with those that
are ahead again although they were shown are no more than the insertions. A
change moves every entry after it by one place, so it takes at most one across the
offset (`DriftInsert`, `DriftDelete`); a fetch shows what lies between the old and
the new offset and nothing else (`DriftWalk`). A page that fails goes back to its token,
so `ScanInv` says it of two walks at a time: of the token with what was on a page, and
of the offset with what is on the page so far. That a page not full has taken all that
was fetched needs the length of a page, a sum over its counts (`LengthGrows`).

`ListProofs`, role attributes: `MergesAreRight`, `LossesAreOvertakings`. `PatchInv` says
that a call that was not overtaken has read what the controller has. The merge is
two loops over lists; `PassIs` shows that the recursion that models them is a
function, and `Written` what is in the result after n entries.

The provers cannot instantiate the induction theorems of the library, so
inductions over data are done by the least counterexample: of the numbers, or of
the finite sets, for which a statement fails one is minimal (`Least`, `LeastSet`,
from the library's theorem about well-founded relations), and the step refutes it.
That covers the recursion of a pass over a list, the fold behind `SumFunction`, and
the existence of the two functions.

`AccessProofs`, the session: `TypeCorrect`, `ClientsWholeCorrect`, `RetryCorrect`,
`Refinement`. `SessionInv` says that only the holder of the mutex logs in and replaces
clients, and that a client of an older session is one that it still has to replace;
so a call that gets its client after a 401 gets a newer one. `AtomicCall` is what the
other modules assume of a call, and the refinement is what justifies a 401 and its
retry being one step there.

`AccessProofs`, the start: `MigrationsCommitOnce`, `ServedOnWholeSchema`,
`ServedWithUsableFiles`, `OnlyCutsGetStuck`, from `StartInvariant`, for any number of
processes, tokens and migrations. Its part about the migrations says of every open
transaction what it has done so far and that this is not committed (`Open`), and
that no two have recorded the same version, which is what the primary key is for
(`Disjoint`). Its part about the files is conditional on nothing having been cut
short: nobody has enrolled and the token is unspent (`NotEnrolled`), or the files are
whole and whoever would still enroll has a spent token (`Enrolled`), or one process
alone is writing them in order (`WrittenBy`).

Model-checked only: the liveness properties `UnwantedIsCollected`,
`RetriedDeletionEnds`, `RetriedEnrollSucceeds`, `WantedIsHanded`,
`RetriedCreateSucceeds` (of services and of policies), `ListingEnds`, `EveryCallEnds` and
`ServesOrStuck`. They need fairness and `ENABLED`, which are out of the prover's
reach. `LiveServiceKeepsConfigs` is not proved because it is false.

## What could be next

- The arguments behind the liveness properties as action properties, which can be
  proved: what a step of a retried deletion, or of a scan, never undoes.
- An abstract specification of a service with its configs, which creates and updates
  that run alone implement.

## Not modelled

- `ResolveIdentity`, `GetIdentityLiveness`, `GetService`, `GetServicePolicy`: reads
  that change nothing. What there is to find is what the other modules say. The
  fallback of `ResolveIdentity` answers with any workload of an agent, so there is no
  answer to hold it to.
- Environment configuration is parsed once, has no state, and its values are
  constants of the modules.
- The conversions that map enumerations and copy fields.
- The graceful part of a shutdown: `GracefulStop` lets running calls end, which is
  one of the behaviours a model without a stop has.
- The chart and the build are packaging.
- Inside the modelled components: wording of errors and logs, names and random
  suffixes, the contents of tokens and certificates, the encoding of page tokens,
  paging inside a single lookup.
