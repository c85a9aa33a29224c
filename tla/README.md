# Verification of the Fastly Terraform provider

This directory keeps the formal models of the provider under `src/`: TLA+ modules, the TLC configurations
that check them on small instances, and TLAPS proofs of what they show.

## The system

The provider turns Terraform configurations into calls of the Fastly API. It keeps no state of its own
between calls of Terraform Core except what is in the Terraform state, and, within one run, the cache of the version checker.
Fastly keeps services as numbered versions: a version is a draft until it is activated and read-only from
then on, and an update clones a version, changes the clone and activates it.

| Component | State it keeps | Operations | What makes it correct | Model |
|---|---|---|---|---|
| automatic service resources (`servicecdnauto`, `servicecomputeauto`, `internal/service/version.go`) | the resource's record: id, name, blocks, managed and active version | Create, Read, Update, Delete, ImportState | what goes live is one whole configuration; the record tells the truth; services are not lost; destroy honours the policy; re-applying converges | `ServiceAuto` |
| generic reconcile (`internal/reconcile`) | none | Run, DeleteRemoved, CreateOrUpdate, GuardedRun, MatchOrder, ModelsEqual, DiffSet, ThreePassUpdate | a version ends up holding exactly the wanted blocks, unrelated blocks are not touched, no block names a missing one in between | `BlockPair` |
| nested block kinds (`backend`, `condition`, ...) | none | reconcile and read of one kind | each kind's discipline (plain, guarded, previous-aware, reset to defaults); an attribute that is cleared is really cleared | `BlockPair`, `ServiceObjects` |
| logging endpoints | none | as above, and an explicit resource each | as above | `LogEndpoints`, `PinnedVersion` |
| explicit resources and the version checker (`servicecdn`, `internal/service/mutability.go`) | per run: (service, version) to draft or locked | EnsureMutable, EnsureMutableForDelete; CRUD on a pinned version | a locked version is never written to; a stale answer is harmless; nothing that remains in the version is forgotten | `PinnedVersion`, `ServiceObjects` |
| actions | none | activate, stage, clone, upload | one call each | clone, activate in `PinnedVersion` |
| routing configuration (`routingconfigauto`) | the record | Create, Read, Update, Delete with paths and rules | the active configuration is one that was requested as a whole; nothing requested stays unactivated; nothing is leaked | `RoutingConfigAuto` |
| versionless domains and their links (`domainmanagement`, `domainservicelink`, `routingconfigdomainlink`) | three records of one remote object | CRUD; a link reads the domain and writes it back | no resource undoes what another wrote | `DomainLinks` |
| versionless items (dictionary items, ACL entries, stores, snippet content) | the record | batches of items written outside versions; deletion of a container behind a guard | the items end up as asked; unmanaged ones are left alone; nothing is lost with a container unasked | `OwnedItems`, in part |
| TLS | the record | CRUD, polling validation, links to activations | what is made is recorded whatever fails later; a validation ends, with the state Fastly reports | `AccountObjects`, in part |
| Next-Gen WAF, account-level resources | the record | CRUD of one object each | an apply leaves what was asked, and nothing to do for the next | `WafObjects`, `AccountObjects`, in part |
| API client (`internal/client`) | none | retry of GET, HEAD, PUT, DELETE | a repeated call does no harm | in `ServiceAuto` |
| data sources, list resources, validation, migration tool, wiring | none | reads and pure transformations | | no |

Interactions: Terraform Core calls the handlers of different resources concurrently, but those of one
resource one after the other (refresh, plan, then Create, Update or Delete). Handlers share the API client
and, in the explicit family, the version checker. Everybody shares the services with people who use the Fastly
web UI or API.

What is hard: every handler is a sequence of API calls that can fail anywhere, with the call carried out or
not; the process can be killed between two of them; only the error paths of Create record anything on
failure; the numbers a handler read are used several calls later; the client repeats some calls by itself;
and what a failed apply leaves behind is the starting point of the next one. `PROJECT.json` lists these
hazards, each at its line with the properties that watch it.

## The modules

| Module | Models | Extends |
|---|---|---|
| `FastlyService` | the part of the Fastly API that automatic services use: services, numbered versions, locks, the calls on them | |
| `Publication` | what users are promised: the content that is served changes only from one whole configuration to another | |
| `ServiceAuto` | Terraform Core, the handlers of an automatic service, an operator | `FastlyService`; implements `Publication` |
| `ServiceAutoInv`, `ServiceAuto_proofs` | its inductive invariant; the theorems | `ServiceAuto` |
| `BlockPair` | reconciling two kinds of blocks that name each other, call by call | |
| `BlockPairInv`, `BlockPair_proofs` | its inductive invariant; the theorems | `BlockPair` |
| `PinnedVersion` | explicit resources of one service, the two checkers with their caches, the user's clones, activations and edits | |
| `PinnedVersionInv`, `PinnedVersion_proofs` | its inductive invariants; the theorems | `PinnedVersion` |
| `RoutingConfigAuto` | `fastly_routing_config_auto`, its draft and its active version | |
| `RoutingConfigAutoInv`, `RoutingConfigAuto_proofs` | its inductive invariant; the theorems | `RoutingConfigAuto` |
| `DomainLinks` | the three resources that write to one versionless domain | |
| `DomainLinksInv`, `DomainLinks_proofs` | its inductive invariant; the theorems | `DomainLinks` |
| `OwnedItems` | a container (dictionary, ACL, store), the resource that manages some of its items, other writers | |
| `OwnedItemsInv`, `OwnedItems_proofs` | its inductive invariant; the theorems | `OwnedItems` |
| `Attributes` | what becomes of one attribute from the configuration over plan and request to the state: the classes every kind's tables are made of | |
| `AttributeUnits` | a unit: an attribute of a kind at a place, with its kind's handlers; what it makes of a value that is planned, sent, answered and read; what all units have in common, as assumptions | `Attributes` |
| `ResourceLife` | the life of one remote object, as a resource or as a block, seen at one of its attributes | `AttributeUnits` |
| `ResourceLifeInv`, `ResourceLife_proofs`, `ResourceValues_proofs` | its inductive invariants, of the steps and of the values; the theorems on either | `ResourceLife` |
| `LogEndpoints`, `ServiceObjects`, `AccountObjects`, `WafObjects` | the catalogue: 89 kinds of objects, each with its attributes and the steps of its handlers | `Attributes` |
| `MCServiceAuto`, `MCBlockPair`, `MCRoutingConfigAuto`, `MCDomainLinks`, `MCOwnedItems`, `MCResourceLife` | the instances TLC checks; the last puts the catalogue into `ResourceLife` | the above |

`ServiceAuto` is `BlockPair` seen from further away: there a whole reconcile of one block kind is a step
(`ReconcileBlock`) that succeeds or leaves the block half written, here the steps inside are what is looked at.
`BlockPair`'s `EndsAsWanted` is what `ServiceAuto` takes for granted of a step that succeeds, and its `Retry`, which
starts from the old version or from what the failed run left, is what `ServiceAuto`'s `SelectSource` may hand it.
`ResourceLife` with place `"block"` looks at one attribute of one block inside such a step: its `Reconcile` is a whole service update for a
single block, and it shows of each kind that `Equal`, `ToModel` and the update input fit together, as `BlockPair` assumes of its `Differing`.
The other modules do not compose with these: a resource of the explicit family and one of the automatic family
are not meant to manage one service, and routing configurations and versionless domains live outside services.

### ServiceAuto and the code

The line ranges of every definition are in `PROJECT.json` under `map`. The CDN and the Compute resource run through
the same sequence, so one module stands for both; its definitions point at `servicecdnauto/resource.go`.

| State, action | Code |
|---|---|
| `status`, `latest`, `active`, `locked`, `content`, `meta` | Fastly: whether a service exists, its newest version, the active one, the versions that can no longer be changed, what each holds, the service's name |
| `state` | the resource's model in the Terraform state: id, name, blocks, `force_destroy`, `reuse`, `managed_version`, `active_version`, and Terraform's taint |
| `pc`, `op`, `plan`, `sid`, `source`, `target`, `step`, `seen` | the local variables of a running handler |
| `BeginApply`, `ReadDetails`, `ReadBlocks` | `Read`: the service's details, then the blocks of the version `SelectReadVersion` chose |
| `MakePlan` | Terraform Core: no change, Create, Update or Delete; a tainted resource is replaced |
| `CreateService`, `UpdateMetadata`, `SelectSource`, `CloneVersion`, `ReconcileBlock`, `ValidateVersion`, `ActivateVersion` | the calls of `Create` and `Update`, in order; each has a failing twin, which may have been carried out |
| `PartialCreateState` | `recordOrphanSafeState`: what every error path of Create leaves behind |
| `DeleteDetails`, `ReleaseInactive`, `Deactivate`, `DeleteService` | `DeleteWithPolicy` |
| `Crash` | the process is killed between two calls |
| `ImportState`, `Untaint`, `EditConfig` | what the user does between applies |
| `ForeignDraft` ... `ForeignRename` | someone else with the web UI or the API, at any time |

A configuration is a tuple of `NumBlocks` values, one per block kind; `Partial` is a kind left half written.

### BlockPair and the code

`parents` and `deps` are the backends and directors (or dictionaries and rate limiters) of the draft the handler writes
to. With dependents in the plan or the state (`Present`, `pairs.go`) the passes are those of `ThreePassUpdate`: parents are created
and changed, dependents reconciled, surplus parents deleted. Without, the parents are reconciled by `Run`. `Call` is one call to the API; `Accepted` is the API's own check that nothing names a
missing block (a constant turns it on or off, as it does not check for every kind). A director's associations are calls
of their own, a rate limiter's reference is a field (`RefsAreAssociations`); a dictionary is changed by deleting and creating
it (`ParentsRecreated`).

### PinnedVersion and the code

A resource's `job` is what Terraform planned for it, its `stage` the call it has come to: `CheckType` (`EnsureServiceType`),
`CheckVersion` (`EnsureMutable`, `EnsureMutableForDelete`), then `Write`, `Delete` or, for kinds whose Update only looks a block up, `Follow`.
The resources of an apply interleave freely and share the two caches. `VersionChecker` holds its mutex
across the API call, so that a check is one step. Each apply is a provider process of its own, so that `BeginRun`
clears the caches. `Clone`, `Activate` and `DeleteService` are the user's, in the same apply (actions) or from elsewhere.

### RoutingConfigAuto and the code

`draft` and `active` are of the API. A list of `path` blocks is the rules of each path and which path comes before which, so that Read's `matchPathOrder` (`MatchOrder`) can be stated without listing permutations.
`List` reads the draft and sets what is to be done: `surplus`, the paths to delete, in the order of a Go map and hence any, then `todo`, the paths to reconcile, in the order of the configuration.
`Write` is one call of `Update`, `reconcileRules` or `createRules`: a path is deleted, made, or has a rule deleted or made; `at` is how far the rules of the first path of `todo` have come. `Activate` or `Get` ends the handler.
`Create` records the routing config when it exists and fills in its paths at the end.

### DomainLinks and the code

One domain, three resources. The links' `upsert` is two steps, `Get` and `Patch`; the domain's Create and Update are one. `MayGo` is Terraform's order: a link is created or changed after the domain it refers to, and
the removal of a link waits for nothing. Whether the three are in one Terraform configuration or in three is chosen in `Init`.
What the API keeps when a field is not sent is external, read off the requests the code builds.

### OwnedItems and the code

`store` is the container with its items, `pending` the batches an asynchronous API has yet to apply, `job` what Terraform planned for the container and
for the items. A container's kind says which guard its Delete asks (`guard`: none, refuse when not empty, refuse for write-only, purge), whether the items resource waits for its batch
(`Awaited`, `TimesOut`: `waitForEntries`), reads them back, and what it makes of an empty list. `Batch` is `buildBatchOperations` over what was listed: a set, as its operations are on different keys; `Before` is the order in which they are cut into chunks,
`Send` sends the first of those, `Record`, `Save`, `Reread` the ways a handler ends. `Others` writes or removes any item and deletes or makes the container. `managed`, `written`, `strays` and `late` are history:
the keys the resource declared, the ones it wrote, those a failed operation left, and what others did after the plan.

### ResourceLife, the catalogue and the code

Most resources of the provider have the same handlers around different fields, and what goes wrong with them goes wrong in a field: one that is cleared and stays, one that is read back
different from what was planned, one that is compared with the API's default. A kind is therefore a record of tables, from the names of its
attributes to classes: how the schema declares them (`schema`), how `buildCreateInput` and `buildUpdateInput` send them (`create`, `update`), how `flatten` reads the answer (`state`), what
`RequiresReplace` is on (`replaces`), and for blocks what `ModelsEqual` compares and what `Equal` and `ToModel` have at hand (`block`). `creating`, `updating` and `deleting` are the steps of its handlers,
in their order. The tables of each kind stand in `LogEndpoints`, `ServiceObjects`, `AccountObjects` and `WafObjects`, each mapped to the schema, the expand and the flatten
functions of its package; the classes, with the helper each stands for, in `Attributes` (`Always` is `new(StringValue(..))`, `NonZero` is `NullString`, `OrNull` is the pointer, ...). A value is absent, zero, the default, another, or the sentinel.

| State, action of `ResourceLife` | Code |
|---|---|
| `unit` (`AttributeUnits`) | the attribute, its classes, the handlers of its kind, the place: a resource, an explicit resource of a Compute service, or a block of either automatic service |
| `config`, `state`, `remote` | its value in the configuration, the Terraform state and the API; `None` without a resource, a record, an object |
| `Begin` | `Read`, then Terraform's plan; validators may refuse it, of a replacement when its first half, the deletion, is done |
| `Post`, `Put`, `Get`, `Attach`, `Delete`, `Drop` | the calls; `Attach` is what follows the first (a director's backends, an activation's mutual authentication), `Drop` the first half of `UpdateOrRecreate` |
| `Record`, `Save`, `Keep`, `Gone` | `State.SetAttribute` of the id, `State.Set` of what was answered, of the plan, `State.RemoveResource` |
| `Judge` | Terraform Core's comparison of what a provider stores with what it planned |
| `Reconcile` | `Run` of the automatic family for one block, then the reading of the new version |
| `CallFails`, `PostUnheard`, `PutUnheard`, `DeleteUnheard`, `AttachFails` | a call fails, with or without having been carried out |
| `Drift`, `EditConfig`, `Import` | others change or delete the object, also during an apply; the user |

## The runs

| Run | Question | Answer |
|---|---|---|
| `ServiceAutoSafety` | whatever fails, is killed, edited, imported, untainted, or done by an operator in between: is what the provider makes live one whole valid configuration, and its own draft? Does the state tell the truth? Is a service lost, or destroyed against its policy? | holds; and `ServiceAuto` implements `Publication` |
| `ServiceAutoLive` | do repeated applies converge, and is the configuration then served? | they do; served if nobody else put his hand in |
| `BackendsDirectors` | does the three-pass order go through without being refused and without exceeding both ends, and do repeated applies succeed? | holds; refused only if the state did not know of the directors that the cloned version has |
| `DictionariesLimiters` | blocks changed by delete and create, referred to by a field: does success mean that the draft is the plan? Is what was as wanted left alone? | holds |
| `Pinned` | while versions are cloned, locked and pinned and the service may go: does success mean "in the pinned version"? Is anything refused for another version, or dropped from the state while it remains? | holds, if a resource is removed only when the state has it in the pinned version |
| `RoutingConfig` | are only whole routing configurations served? Is anything leaked? Do repeated applies converge? | holds |
| `RoutingConfigDraft` | after a successful apply, is everything in the draft active? | no: a failed `Activate` is forgotten by the next refresh |
| `DomainLinks` | three resources write to one domain: what is left when an apply ends, and do repeated applies converge? | description and routing are as configured, and so is the service unless both links wrote; they do |
| `DomainLinksRace` | does a service link survive the apply that creates it? | no: the other link may send back what it read before |
| `OwnedItems` | a container of each kind, another writer, a failed call or a timeout, an edit: are the declared items there after an apply, are the others' left alone, is a container destroyed with items in it only when it may be, do applies converge? | holds; for the ACL of a CDN service what is said of the others' items is the next run's |
| `OwnedItemsAdopted` | are the entries of others in the ACL of a CDN service left alone? | no: a state without entries is read as an import, which adopts all of them |
| `Resources` | every attribute of the catalogue at every place its kind has: is what is stored what was planned, is it in force after an apply, is nothing left to do then, is nothing made without a record, do applies converge? | holds but for the attributes and the three `Lossy` kinds named below |

The runs that end in a violation are described, with the sentences of the documents or comments they
refute, under `findings` in `PROJECT.json`.

### The bounds, and why they are enough

- `ServiceAutoSafety`: two block kinds (the least that can be torn), two values, two services (the second is what a replacement or a lost response makes), four versions, two faults, one edit, one import or untaint,
  one operator step. Two faults let an apply fail on what a failed apply left. `PlainRequests` holds a configuration that validation turns down and both ways of being destroyed.
- `ServiceAutoLive`: three services and six versions, so that no `CreateService` or `CloneVersion` is held up by a bound, which would look like a system that stops by itself.
- `BlockPair`: every draft and every plan over two parents and one or two dependents, hence every combination of adding, changing and removing on either side, and a dependent that moves from one parent to the other. Blocks of one kind do not
  interact otherwise. Symmetry is used in the safety run only.
- `Pinned`: one logging endpoint and one dictionary (every resource shares with the others no more than the service and the caches), two versions, one edition, one failure.
- `RoutingConfig`: two paths in either order, two rules before the default rule in either order, two names; one fault, edit and drift. At most four routing configs ever exist: one, and one more for a fault, an edit and a drift each.
- `OwnedItems`: two keys and two values, so that one item can stay while another goes or changes; batches of one operation, so that a change is two calls; one fault, one edit, one thing others do.
- `Resources`: every attribute of every kind at every place, one at a time: attributes are sent, stored and compared independently of each other, and what connects them (a kind's steps, `RequiresReplace`) is in the unit. One fault, two edits (set, then cleared or set again), one drift. Units whose
  classes and steps are the same are one value, so that the 89 kinds come to a few hundred initial states.
- `DomainLinks`: two services, so that a link can move; one routing config and one description, set or not; one fault, one edit.

### Fairness

- `ServiceAuto`: `WF_vars(Apply)`. A handler is one goroutine that goes on to its next call, and the user (or a pipeline) applies again. Faults, edits and operators are bounded and get no
  fairness. The liveness run lets every configuration be destroyed (`force_destroy`): a Create whose `ActivateVersion` took effect but
  failed leaves a tainted resource whose version is active, and its replacement is refused for ever otherwise, as `DeleteWithPolicy` intends.
- `BlockPair`: `WF_vars(Handler)`, the same for the passes of a reconcile and the next apply. `PinnedVersion`: `WF_vars(Terraform)`.
- `RoutingConfigAuto`: `WF_vars(Refresh \/ Plan \/ Handler)` and `SF_vars(Refresh)`: not every apply of the future is made with `-refresh=false`.
- `DomainLinks`: weak fairness of each stack, each being applied by somebody of its own.

- `OwnedItems`: `WF_vars(Begin \/ End \/ Provider)` as above, and `WF_vars(ApplyPending)`: the API applies a batch it accepted at some time, which may be after the wait for it has ended.
- `ResourceLife`: `WF_vars(Handlers)` and `WF_vars(Begin /\ ~applied)`: who gets an error applies again. `SF_vars(Import /\ unit.named)`: a create whose answer was lost leaves an object under the name of the configuration,
  and every further create conflicts until the user imports it, as the error asks.

Deadlock is checked where the system goes on for ever. `ServiceAuto` really stops when nothing is configured and nothing tracked, `BlockPair` when the
reconcile is done, `ResourceLife` when what is applied is as configured and nothing is left to happen.

## What is proved

Every invariant and every action property of the passing runs is a theorem, for every value of the constants that satisfies the assumptions of the
component's module: any number of block kinds, resources, services, versions, paths, keys, faults, edits, operator steps; any names, blocks, references and values.

| Component | Theorem | Says |
|---|---|---|
| `ServiceAuto` | `Invariance`, `TypeCorrect` | `IInv`, and the types, hold in every reachable state |
| | `NothingTornEverGoesLive` | `NothingTornGoesLive` |
| | `HandlersWorkOnTheirDraft` | `WorksOnItsOwnDraft` |
| | `StateTellsTheTruth` | `StateDescribesActiveVersion` |
| | `ServicesAreNotLost` | `NoServiceIsLost` |
| | `DestroysAsAllowed` | the action property `DestroyHonoursPolicy` |
| | `ImplementsPublication` | `ServiceAuto` implements `Publication`: initial states map to initial states, each step to one of its steps or a stutter |
| `BlockPair` | `PairInvariance`, `PairTypeCorrect` | its `IInv`, and the types |
| | `ReconcileEndsAsWanted`, `ReconcileLeavesAlone`, `ReconcileStaysInBounds` | `EndsAsWanted`, `UntouchedStay`, `NoExcess` |
| | `OrderIsNeverRefused` | `RefusedOnlyWhenStale`, for parents that are changed in place |
| `PinnedVersion` | `PinnedInvariance`, `PinnedTypeCorrect` | its `IInv`, and the types |
| | `AppliesIntoPin` | `AppliedInPin`, for all kinds and whatever the user does |
| | `RefusedForThePin`, `NothingIsForgotten` | `RefusedOnlyForPin` and the action property `ForgottenIsGone`, for users who move the pin first (`Careful`) and kinds that no new version replaces (`Replaced = {}`) |
| `RoutingConfigAuto` | `RoutingInvariance`, `RoutingTypeCorrect` | its `IInv`, and the types |
| | `ServesRequests`, `AppliesRouting`, `RecordsConfigs` | `ServesWholeWishes`, `AppliedIsServed`, `NoConfigIsLost` |
| `DomainLinks` | `LinksInvariance`, `LinksTypeCorrect` | its `IInv`, and the types |
| | `AppliesLinks`, `UpdateKeepsLink` | `AppliedIsLinked`, and the action property `DomainKeepsLink` |
| `OwnedItems` | `ItemsInvariance`, `ItemsTypeCorrect` | its `IInv`, and the types |
| | `AppliesItems`, `LeavesTheirs`, `DestroysEmptyOrForced` | `AppliedIsThere`, and the action properties `LeavesOthersItems` and `DestroyedEmptyOrForced` |
| `ResourceLife` | `LifeInvariance`, `LifeTypeCorrect` | its `IInv`, of the steps, and the types |
| | `RecordsObjects` | `NothingIsOrphaned` |
| | `ValuesInvariance` | `VInv`, of the values |
| | `StoresWhatIsPlanned`, `AppliesWhatIsWanted`, `AppliesOnce` | `Consistent`, `AppliedIsRemote`, `Settles` |

The argument for `ServiceAuto`. That what goes live is whole is not inductive. It rests on `Progress` (the blocks before `step` are written, and once
validation is reached all are), on `HeldVersions` and `RemoteShape` (the number a handler has held since an earlier call still
names a version), on `WorksOnItsOwnDraft` (nobody locked the draft, and no operator owns it), on `Control` (which handler can be at which step, and
that its plan was asked for) and on `TheirsAreWhole` (an operator's draft). `StateDescribesActiveVersion` rests on
locked versions not changing, `DestroyHonoursPolicy` on `DeletePolicy`, which keeps what Delete looked at until it acts. One lemma per action shows that it preserves
`IInv`. The refinement then needs only `IInv` and a case for each action that moves `active`.

The argument for `BlockPair`. `Work` says that what a pass has still to do is exactly the difference between the draft and the plan
as far as that pass is concerned, `Achieved` what earlier passes did and later ones do not undo, `Ahead` what has not been touched yet,
`References` that names resolve all along, and `Bounded` that without dependents the parents shrink before they grow.

The argument for `PinnedVersion`. An apply without errors says what it did only when all of it is done, so `EndedInPin` says it of each resource whose operation has ended: nobody else
writes to the pinned version between that moment and the end of the apply. That refusals are only for the pin takes more, and more of the user: `LockedIsLocked` (an answer in the cache does not get old, as locks are for good), `FollowedIsKnown`
(the value of a dictionary in the state is the one it was made with) and `DeletesInPin` (what Delete is about is in the pinned version, which is false of an edition that removes a resource and moves the pin at once).

The argument for `RoutingConfigAuto`. `OnItsWay` says of each path of the draft that it is still listed for deletion, still to be reconciled, or as planned;
`RulesOnTheirWay` the same within a path, whose rules are a prefix of those it is to have; `UnchangedIsKnown` that an Update that changed nothing knows why. What is
activated is then a whole request, whatever earlier handlers left in the draft.

The argument for `DomainLinks`. Each operation that has ended has had its effect, unless a link was written since (`DomainDone`, `RoutingDone`, `ServiceDone`); a link that has read the domain and not yet written it back
has read what is there (`ReadIsCurrent`), as the domain's own operation comes before the links' (`LinksWait`), and the only other writer is the other link, which `wrote` remembers.

The argument for `OwnedItems`. `DeclaredIsThere` accounts for each declared item (there, or in the operations that are to be sent or applied), `WrittenIsKnown` for each item the resource ever wrote
(in the state, among the deletions to come, or left by a failed operation), `HeldIsManaged` for each deletion (the key was declared once), and `GuardHasSeen` keeps what the guard of a container has looked at until the container is deleted.
The assumption that a kind whose batches are applied later has no guard is true of the code: only the ACL of a Compute service is applied later, and its Delete asks nothing.

The argument for `ResourceLife` has two layers. `IInv` is about the steps that a handler has before it. They end in a step that stores something (`PostsAreRecorded`), a step that takes an answer comes after a call that has one (`Answered`),
an object is created where there is none (`PostsFollowRemovals`, `ObjectIsKnown`). It needs of a kind only what `HandlersAssumption` says of its three programs, and gives `TypeOK` and `NothingIsOrphaned`. A kind in `Lossy` is exempt from the part
that an object is stored first, and `NothingIsOrphaned` and the half of `AppliedIsRemote` about deletions do not speak of it: that is directors, integrations and TLS mutual authentications. TLC evaluates the assumption for every other kind.
`VInv` adds what the object, the answer and the state have to do with the plan. `PlanIsMade`: the plan a program carries out is that of the configuration, or the handler was turned down and only a deletion is left.
`UpdateIsDue`, `BlockIsDue`: when a program begins, object and state are as the refresh found them and not as planned.
`AnswerStores`: from the first write on, storing what is answered does what is planned. `KeptIsMet`: what Read keeps from the state is what was written last, which matters for secrets that the API does not tell.
`WellDone`: a program that has come to its end without an error leaves nothing to do. `Consistent`, `AppliedIsRemote` and `Settles` follow.

`VInv` reduces the life of a resource, with its failures, lost answers, changes by others and re-applies in any number and order, to how the tables of its kind fit together in single calls. That is what the assumptions of `AttributeUnits` state:
`CreatesAssumption` (what a create of the plan leaves at the API is read back as planned, and as something that needs no update), `UpdatesAssumption` and `BlocksAssumption` (the same of an update and a reconcile of what a refresh may find),
`RefreshesAssumption` (what is read back equal to the plan is as configured) and `ObjectsAssumption`. They are bounded formulas about one unit's tables, no behaviours in them, and TLC evaluates them at the start of `Resources` for each of the units of the catalogue. They are where a wrong
table shows: for each attribute in `Sticky` and `StickyBlock` one of them is false. So the theorems hold of the catalogue for any number of faults, edits and drifts, and of any further kind whose tables pass.

Other hypotheses of the theorems are that the markers of absence (`None`, `Null`, `Absent`) differ from what they stand beside, that bounds are numbers, and in `RoutingConfigAuto` that a request has passed `ValidateConfig` (`IsRequest`). TLC evaluates all of them too.
Every inductive invariant was checked by TLC, on the instance of its component's run or a smaller one, before it was proved.

Only model-checked: liveness (`Converges`, `GoesLive`, `Completes`, and `Settles` of `PinnedVersion`), which is beyond the proof system, as it needs `ENABLED` for the fairness of the handlers.
That `AppliedMeansActive`, `ServiceLinkSurvives` and the other properties of the runs that end in a violation are false is shown by TLC's counterexamples.

## Abstractions to know of

- Terraform Core is modelled, not verified: it keeps the prior state when a handler returns an error, taints what a failed Create recorded, replaces what is tainted, and never runs two handlers of one resource at a time.
- What the API does is external: `FastlyService`, `Accepted` and the version locks say what the code relies on.
- A version's limit on blocks, rate limits and timeouts are failed calls.
- Blocks have unique names within a kind. Some kinds refuse two of one name when the configuration is planned; for the others see the hazard at `reconcile.go:97`.
- `Careful = TRUE` in `Pinned`: without it `RefusedOnlyForPin` and `ForgottenIsGone` fail, as a resource removed from the configuration in the edition that moves the pin is deleted from the version in the state. The
  run is about users who move the pin first; the hazard is listed.
- `Settles` of `PinnedVersion` excuses what no apply can repair: the service is gone, the pin is locked, or the user has to import a block (its Create was carried out and its response lost) or to pin a version that has what the state expects.
- In `RoutingConfigAuto` an operator works between applies only, a change of name is a replacement, and a resource whose Create failed is replaced as a whole, so that its paths are left out. `AppliedIsServed` excuses applies whose plan found everything as configured: those are `RoutingConfigDraft`'s.
- In `DomainLinks` a domain that was dropped does not come back, and replacement (another fqdn or domain ID) is left out.

- In `ResourceLife` the attribute is followed alone, and the object is found by its name or its id; a list is absent, empty, the API's default, or another, and order and elements are left out. What the API does with an omitted field (`Created`, `Updated` of `AttributeUnits`) is external and left as open as the code allows.
- `Unseen` drifts are not made: what Read keeps from the state (`Kept`, `Merged`) cannot be refreshed, by design of the API.

## Known departures

Beside the runs that end in a violation, the following was met while modelling. The definitions are in the modules, and TLC refutes them when they are put in the place of a run's properties.

- `AppliedMeansActive` (`ServiceAuto`, with `ServiceAutoSafety.cfg`): after a failed Create is untainted, Read describes the draft it left, Terraform sees no difference, and the apply succeeds with nothing active.
- `OneVersionPerApply` (`ServiceAuto`, same): the transport repeats a PUT, and `CloneVersion` is a PUT that appends a version.
- A snippet or custom VCL, for which a new version is a replacement (`Replaced` in `Pinned.cfg`): the replacement deletes from the old, locked version first, and is refused (`RefusedOnlyForPin`).
- `Sticky` (`MCResourceLife`): attributes that are left out of an update when they are zero (`NullString`, `NullInt`, or a pointer that is null), so that the API keeps the old value when they are cleared, and the apply ends with an inconsistent result. Eleven of `backend` (`max_use = 0`, which `docs/resources/service_backend.md:51` says "is treated as unlimited", among them), `period` and `port` of several logging endpoints, the password of `sftp`, and a few others. Without `Sticky`, `UpdatesAssumption` or `BlocksAssumption` is false for each of them.
- `StickyBlock` (same): clearing a block's healthcheck headers, and setting a dynamic snippet's content to "", have no effect; `BlocksAssumption` is false for both.
- `Lossy` (same): the Create of a director, an integration or a TLS mutual authentication stores nothing when the call that fetches the new object fails; the object is then outside the state. For the third that is against its own comment (`tlsmutualauthentication/resource.go:68-69`: "Persist the created object immediately: if linking activations below fails, a retry must update this object rather than create a duplicate."): Create builds the record there, stores it when a link fails (lines 77 and 84), and returns without it when the fetch at line 89 fails. `CreatedIsPersisted` (`ResourceLife`, with `Resources.cfg`) is refuted for each of the three, and `HandlersAssumption` is false of each of the three when it is left out of `Lossy`.
- `Blank` (`AttributeUnits`): an optional attribute set to "" and read back as null, or computed and left out because it is zero (`keepalive_time` and `ssl_client_secrets` of `backend`, `content_type` of `responseobject`), is an inconsistent result at each apply.

## Not modelled

- Data sources, list resources and the query support read and change nothing. Validation is pure checks of a configuration before any call; where a guard matters (`ValidateNoVCLOnlyAttributesForCompute`, references between blocks) it is part of the handler that depends on it.
- The migration tool is a sequential rewrite of HCL and state files, text to text; nothing of it is concurrent or persistent, and its tables would be copied rather than modelled.
- Product enablement and virtual patches are on/off switches of things that always exist. The polling of `tlssubscriptionvalidation` changes nothing and ends at its timeout.
- The links between TLS mutual authentications and activations, which two resources can write as the domain links do; the package of a Compute service and the refusal to remove it; staging; the resource for the content of a dynamic snippet.
- Names that occur twice within a kind of block (`reconcile.go:97`), hence `MatchOrder`.

## Plan

Modelled first was what serves traffic (`ServiceAuto`), then what it takes for granted (`BlockPair`), then the
explicit family (`PinnedVersion`), the two places where several writers or a draft of another kind meet (`RoutingConfigAuto`, `DomainLinks`), what is written outside versions (`OwnedItems`),
and the catalogue of all other resources (`ResourceLife`). Next, in this order:

1. TLS: the two resources that link an activation and a mutual authentication, as `DomainLinks` does for domains.
2. The package of a Compute service and staging, in `ServiceAuto`.
3. The pure functions `MatchOrder` and `ModelsEqual` over blocks whose names occur twice.
4. A routing configuration composed with the domain link that refers to it.
5. Theorems about the above as they are modelled; and that a step of `ServiceAuto` that reconciles a block kind is what a whole run of `BlockPair` does, step by step.
