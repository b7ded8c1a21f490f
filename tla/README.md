# A verification project for operator-go

operator-go is an SDK for Kubernetes operators of data products. A product's
custom resource (CR) declares roles and role groups; the framework turns every
role group into a StatefulSet with its ConfigMap, Services and budgets, keeps
them up to date, tears down what is no longer declared and reports all of it in
the CR's status. This directory holds TLA+ models of that core, the TLC runs
that check them and TLAPS proofs about them.

## The system

| Component | State it keeps | Operations | Hard parts | What makes it correct |
|---|---|---|---|---|
| `RoleGroupCleaner` (cleaner.go) | annotations on the objects being torn down, the ledger `status.roleGroups`, a condition, a gauge | `Cleanup` once per pass | several passes per teardown, stale caches, crashes between calls, names shared by suffix | nothing owned is forgotten, order, grace and drain, foreign objects untouched, every orphan goes in the end |
| `GenericReconciler` (generic_reconciler.go) | none between passes but the CR's status | `Reconcile` | best effort over roles, early returns, throttling, panics, conflicts, waking itself | conditions and generation agree with the resources, the loop comes to rest |
| `HealthManager` (health.go) | none | `Check` | cached reads right after writes | no false alarm, no stale condition |
| `GenericClusterStatus` (cluster_status.go) | conditions, generation, ledger | `SetCondition`, `SetRoleGroup`, `RemoveRoleGroup` | transition times that defeat the no-op check | a settled cluster is not rewritten |
| Waits (errors.go, common/errors.go) | none | `WaitingErrors`, `mergeWait`, `ClampRequeueAfter` | nested errors, delays at their bounds | one failure outranks all waits, no wait is slept through |
| `ExtensionRegistry` (common) | registered hooks | register, clear, execute | registration while a hook runs, order, joined errors | every hook of a level runs once and in order, waits stay waits |
| `EnsureGeneratedSecret` (generated_secret.go) | a Secret | create once, never overwrite | two writers, stale reads, lost answers | a value once handed out never changes |
| `workload_rbac.go` | Role, RoleBinding | ensure, revoke | immutable roleRef, three caches, objects of others | the workload never gets more than declared, and no less in the end |
| `apply.go`, discovery.go | the live objects | `copyDesiredState` | merges, immutable fields, other writers | no endless rewriting, no refusal for good, foreign keys kept |
| Names and labels (generic_reconciler.go, base_role_group_handler.go) | none | resource names, selectors, slot markers | truncation, labels of the CR that look like markers | slots stay apart |
| Configuration (`config`, config_fold.go, resolved_image.go, affinity.go) | registered formats | fold and merge of layers, adapters | precedence leaf by leaf, escaping | the most specific layer wins, files say what was configured |
| Role group build (`BaseRoleGroupHandler`, `builder`, `sidecar`, `vector`, `productlogging`) | the handler's SidecarManager, shared by workers | build, inject, validate, apply | overrides against framework mounts, a pipeline decided in four places, shared state | mounts, logs and images of a pod are right |
| Listener, s3, security, webhook, util, testutil, examples | none | single reads, construction of fields | none | not modelled, see PROJECT.json |

The components meet in one pass of one worker per CR: `Reconcile` reads the CR
from the cache, `reconcile` applies the roles, calls `Cleanup` and `Check` on
the same in-memory status, and `updateStatus` writes it. The pass shares the
API server with the user, the StatefulSet controller, the garbage collector and
other controllers, and reads it through informers that lag. Deleting, updating
and reading are separate calls, so each is a step of its own in the models.
The hazards this leads to are listed in PROJECT.json with the line where each
bites.

## The modules

`RoleGroupCleaner` models the teardown inside the passes that drive it. Objects
are named by the group and the slot they occupy (`Keys`), with the part of them
the cleaner reads: owner, deletion, the two timestamps, replica counts. `api` is
the API server, `cache` the informers. `seen`, `status`, `mcond`, `left` are the
pass's local copies, `pc`, `cur`, `todo`, `step` its position. `orphanAge`,
`scaledAge` and `interrupted` are history: the time since a pass first found a
group orphaned, the time since its StatefulSet was last scaled to zero, and the
groups whose last declared pass a fault kept from resetting their timestamps.
They follow the spec the passes see and the scaling, and never look at the
timestamps the code keeps for the same purpose. Every API call is an action:

| Action | Code |
|---|---|
| `StartPass` | `fetchCR` and the start of `reconcile` |
| `ApplyResource`, `ApplyFails`, `ApplyRolePDBs` | `applyResources`, `applyResource`, `SetRoleGroup`, `reconcileRolePodDisruptionBudget` |
| `ClearTeardownProgress` | `clearTeardownProgress` |
| `CleanupOrphanedRolePDBs` | `cleanupOrphanedRolePDBs` |
| `DiscoverOrphans`, `DiscoverFails` | `discoverOrphans` and the early returns of `Cleanup` |
| `CheckOrMarkGrayDelete` | `checkOrMarkGrayDelete`, `grayDeleteMark` |
| `CheckOwned`, `Delete`, `ConfirmDeleted` | `deleteOwned`, `confirmDeleted` |
| `CheckStatefulSet`, `ScaleToZero`, `StampDrain` | `deleteStatefulSet` with `deletePVCsForStatefulSet`, and the second reads of `scaleToZero` and `drainDeadlineExpired` |
| `CheckExtras` | `deleteRoleGroupExtras` |
| `ConfirmReclaimed` | `confirmRoleGroupReclaimed`, `RemoveRoleGroup` |
| `TeardownFails`, `RateLimited` | the error paths of `Cleanup` |
| `ReportOrphans` | `setOrphanCleanupCondition` and the gauge |
| `WriteStatus`, `WriteFails` | `updateStatus` |
| `Crash`, `EditSpec`, `Tick`, `Sync`, `Finalize`, `Squat`, `StartPods`, ... | the environment |

`GenericReconciler` models the pass itself and the status. Roles stay declared
and have one group each. A StatefulSet is the generation it was made for, what
its status says and whether that is up to date. `world` is what hooks, probes and
pods report now. `mine` is the pass's copy of the CR and `base` the status it was
read with; `flipped` in a status stands for a newer transition time, the one
thing about times that `updateStatus` can tell. `wake` is the workqueue.

| Action | Code |
|---|---|
| `Fetch` | `Reconcile` up to the pause gate |
| `Observe` | the paused path of `reconcile` |
| `EnsureIdentity` | `ensureServiceAccount`, `ensureWorkloadRBAC` |
| `PassGates` | PreReconcile, `validateDependencies`, `declareRoles` |
| `ReconcileRole` | `reconcileRole`, `reconcileRoleGroup` |
| `CheckHealth` | `HealthManager.Check`, after `Cleanup` |
| `PostReconcile`, `Settle` | steps 6 to 8 of `reconcile` |
| `Fail` | the error path of `Reconcile` |
| `UpdateStatus`, `UpdateFails` | `updateStatus` |
| `Abandon` | the throttling path and the panic recovery |

### Objects written beside others

`GeneratedSecret` is `EnsureGeneratedSecret` call by call: `ReadSecret` (from the
cache), `CreateSecret`, `UpdateSecret`, and `ReReadSecret` after AlreadyExists,
for several workers, with failing calls and lost answers (`FailCall`), a foreign
controller reference (`RejectSecret`) and a user who deletes and empties the
Secret and restores backups of any age (`TamperSecret`). It implements the
abstract `WriteOnce`: a key without a value may get a new one, a stored value
changes only through the user, and a caller is given only what was stored. The
mapping takes `stored` to be the data at the API server; `ever` and `handed` are
history variables of the same names.

`DesiredState` is `applyResource` over `copyDesiredState` for an object of every
kind. `desired` is what the handler builds and `live` the object at the API
server, whose defaulting, allocation of node ports and validation are modelled as
far as apply.go has to deal with them (`Stored`, `Accepts`). `Reshape` is an edit
of the CR, `StampObject` and `SquatObject` other controllers, `NewConfig` and
`RestartPods` the restarter. An Update carries the version read and a conflict
changes nothing, so read and Update are one step.

`WorkloadRBAC` has the three objects of an identity, each with a cache of its own,
and one action per write or check of `ensureServiceAccount`, `EnsureWorkloadRBAC`
and `reclaimWorkloadRBAC`; the rules may change in the middle.

`MCObjects` puts the three side by side. They share no state, so a behaviour
follows one of them.

### What a pass goes through before it writes

`ExtensionRegistry`, over `ErrorTrees`, has the registry (`Register`, `Clear`), a
hook as a run over a snapshot, one extension per step (`Begin`, `RunHook`), and
the pass as the sequence of hooks with what each caller makes of the error it is
given (`EndClusterPre` to `EndOnError`). Errors are trees of waits, failures,
wrappers and joins; `seen` remembers the leaves of what hooks returned. How an
error is judged are three constants, `WaitVerdict`, `Throttled` and `Leafs`; their
values in the run are the recursive walks of `ErrorWalks` (`WaitingErrors`,
`IsRateLimitError`, `LeafErrors`). `JudgesError` and `JudgesJoin` say what the pass
relies on of them.

`RoleNames` has names as sequences of characters; the hash of a name is one
character that carries the name, so it is injective as SHA-256 is taken to be.
Labels and selectors are functions, and the reclaim predicates are compared with
the objects of every other declared slot.

`ConfigLayers` has the three layers of every aspect as partial functions on
leaves, layer i saying i, so an effective value names its author.

`ConfigFormats` has both halves of the adapters over sequences of characters.

`RoleGroupBuild`, over `PodAssembly`, has clusters whose builds run concurrently:
`BeginBuild` (gates and context), `PropagateImage` (`SetProductImage`),
`Assemble` (`buildConfigMap`, and `buildStatefulSet` up to the check of the
overrides), `InjectNext` (one turn of the loop of `InjectAll`, in the order of
`injectionOrder`), `CompleteBuild` (the end of `buildStatefulSet` and
`validateRoleGroupResources`), `ApplyConfigMap`, `ApplyWorkload`
(`validateSidecars`, then the StatefulSet). A pod is its containers with images
and mounts, its volumes and its claims. The constant `Alphabet` is the order of
strings, as far as names of sidecars are compared.

`MCPipeline` puts the five side by side, again one in focus at a time.

### Instances and proofs

`MCRoleGroupCleaner` and `MCGenericReconciler` are the instances of the first two
modules; the modules named Proofs hold the theorems. Definitions that begin with
"Mutant" in their comment are faulty variants that the properties must refute;
nothing uses them otherwise.

Faults are switched on by name. In the cleaner `lag` delays what the cache sees of
deletions and updates, `applyLag` what it sees of creations by this operator and
`svcLag` of its Services (every kind has an informer of its own), `squat` lets
another controller take a free name and `idleSquat` one of a slot the product does
not use, `lateStatus` lets the StatefulSet controller report late. In the
reconciler `crLag` and `stsLag` delay the CR and the StatefulSets.

## The runs

Those named MC pass, those named V are violations: they confront a sentence of
the code's comments with what the code does, and PROJECT.json quotes it.

| Run | Question | Bounds |
|---|---|---|
| MCLedger | is a group ever forgotten or a step issued too early, are foreign objects left alone | one group of three resources, one finalizer, a foreign metrics Service, two edits, one fault (or a squatter on an idle name), lagging deletions and Services, late replica counts |
| MCReclaim | do leftovers stay findable and reported, do declared groups keep their Services, does every orphan go in the end | two groups, one named like the other's metrics Service, one stuck behind a finalizer, two edits |
| MCGrace | are grace and drain whole after a group came back | one group, three edits (remove, add, remove), grace 1, drain 2, two faults |
| VGauge | is the gauge at zero once nothing is pending | one group, removed and added again |
| VLeftover | does a group that came back start its next teardown from scratch | one group, three edits, one API error |
| MCStatus | are failures, waits and installations told apart, is the generation gate honest | two roles with every outcome, a gate, a hook, one edit, one fault of any kind |
| MCLag | is the gate honest under stale reads, does the controller rest only when it is done | one role, a gate, CR and StatefulSet lag, one edit |
| MCSettle | does the loop rest, recover and let go | one role, a gate, pauses, a probe, two edits, one change, one API error |
| MCObjects | is a generated value stable, does an apply keep what others wrote and come to rest, do permissions converge | two keys, two workers, two interferences; thirteen StatefulSets, ten Services and three of each other kind, three edits, one stamp; three rule sets, three events |
| MCPipeline | hooks and errors, names and labels, layers, files, builds | three extensions at any level and two errors in a pass; six group names around the cut, two groups at a time; one to five leaves an aspect in three layers; keys of two and values of three characters, each of four or five that mean something to the format; two clusters, the kinds of input `MCInputs` lists, one edit, from one of the four inputs of `FirstInputs` to any other |
| VPauseGate | is the gate honest across a pause | one role, one edit |
| VFlap | does the loop rest while a role fails | one role, no edit |

`MaxAge` bounds ages: a timestamp older than the longest timeout is not told
apart from an older one. `MaxEdits` bounds the edits of the CR; remove, add,
remove is the longest sequence any property needs. `MaxFaults` bounds crashes
and errors; one is enough for a fault to fall between any two calls of a pass,
and the code keeps nothing that would count them. MCGrace has two, one for each
teardown. `MaxChanges` bounds what
hooks, pods and probes do on their own. Groups of one run are few because
groups share nothing but names, the list of pending ones and the order in which
they are visited, which two groups exercise.

In MCObjects three edits are enough to go to a shape, to another and back. In
MCPipeline lengths are scaled down (8 for the 54 characters of a resource name,
10 for the 63 of a label, 2 for the 8 of the hash) and the names lie below, at and
above the limit. Two registrations of equal priority and one of another exercise
every case of the order; two errors are the least that can be joined wrongly.
Three layers are all there are. Characters of a format are those it treats
specially and one it does not; an escape and what it escapes are two, so a value
of three has one on either side. The inputs of a build are a base input and
every single deviation the code tells apart, with the combinations that meet in
one check; deviations that are read in different places do not interact.

What the properties say, beside their comments in the modules:

- `ValuesWrittenOnce` is the refinement, `EventuallyFilled` that a lost key or
  Secret comes back.
- `RefusedOnlyAsKnown`, `DataStaysMounted`, `IgnoredIsTruthful`, `OthersWritesKept`
  and `RolloutSettles` are the promises of apply.go's comments.
- `NoForeignGrant`, `ForeignUntouched` and `PermissionsConverge` are those of
  workload_rbac.go.
- `HooksInOrder`, `FailureOutranksWaits`, `ShortestWaitWins` cover the registry and
  the errors of a pass as a whole, from a leaf in a hook to the requeue.
- `ResourceNamesDistinct` and `SlotsSeparate` keep groups apart by name and label.
- `UserStatementWins` compares every fold with a pointwise definition, `ReadsBack`
  every written file with the map it came from.
- `FrameworkMountsKept`, `LogsReachAgent` and `ImagesOwn` are about the pods that
  builds come to.

### Where the properties stop holding

MCReclaim and MCGrace assume caches that keep up and MCReclaim passes that are
not interrupted; MCLedger, for the order of the steps, that creations are seen at
once but for those of Services, whose steps come last, and that nobody takes a
free name the product uses; MCStatus that reads are current. These are assumptions about the
environment and not about the code. Changing a run as follows makes TLC produce
a counterexample, which shows the assumption to be needed:

| Run | Property | Change | What happens |
|---|---|---|---|
| MCLedger | OrderedTeardown | add `"applyLag"` to Faults | a step whose object is not in the cache yet settles, and so does its confirmation, which reads the same cache |
| MCLedger | ForeignKept | add `"squat"` | Delete names the object without a UID precondition, so an object that took the name after the ownership check is deleted |
| MCReclaim | NoInvisibleOrphan | Faults `{"lag", "apiError"}`, one fault | discovery goes by the ledger, StatefulSets and ConfigMaps; a group that never reached the ledger and whose primaries are deleted keeps its Services unseen |
| MCReclaim | LiveSlotsKept | ship `"metrics"` too | only resource names of declared groups are protected, and the orphan's client Service has the name of a declared group's metrics Service |
| MCGrace | GraceHonoured | Faults `{"lag"}` | the cache still shows the marks after they were reset, and the next teardown reads them there |
| MCGrace | DrainHonoured, PurgeAfterDrain | Faults `{"lateStatus"}` | status.replicas is taken without its observedGeneration |
| MCStatus | FirstInstallQuiet | add `"stsLag"` | the ledger entry of this pass counts against a StatefulSet the cache does not have yet |
| MCStatus | WaitIsNoFault | add `"wait"` to PostOutcomes | a wait of the cluster's PostReconcile takes the error path |

`GraceHonoured`, `DrainHonoured` and `PurgeAfterDrain` except the groups in
`interrupted`, because the code does not protect them: `Cleanup` only logs a reset
that fails, a crash or a throttled request may come before it, and nothing retries
it once the group is removed again. The old timestamp then ends the next grace
period or drain at once. VLeftover shows it against the comment that such a group
"starts its next teardown from scratch".

A pass on a stale CR that meets a conflict writes its whole status over the newer
one, so the stored ledger may lose a role and the observed generation may go
back. `RestsWhenDone` says that this does not last: a later pass writes them
again before the controller rests.

A pass that fails before the health check, in a gate or in the ServiceAccount
or RBAC step, leaves the condition Paused as it was, so a cluster that is
resumed into a failure is still reported as paused until a pass gets further;
EventuallyReported shows that it does not outlast the failure.

The newer modules exclude by name what the code does not promise or does not do:

- `merger.go`, `mergePodTemplates`: a podOverrides layer that names no containers
  marshals `containers: null`, which the strategic merge takes for a deletion, so
  the container overrides of the layers below are lost
  (`NullContainers` in `ConfigLayers`). The builder guards its own merge against
  this, statefulset_builder.go:894, and docs/architecture.md describes overrides
  as inherited.
- `INIAdapter` writes keys with spaces around them and reads them back without;
  a key " #x" disappears. The comment of `Marshal` says such entries are
  rejected; padded values are documented (`Padded` in `ConfigFormats`).
- A log volume that podOverrides or a VolumeProvider mounts elsewhere in a producer
  counts as the agent's mount, because `AddVolumeMounts` goes by volume name
  (`LogVolumeElsewhere` in `RoleGroupBuild`).
- Three kinds of Update are refused on every pass, and `RefusedOnlyAsKnown` names
  them: `findServicePort` may give two desired ports the node port of one live port
  (`PortTakenTwice`); a label layout may not match the kept selector; and
  `copyServiceState` keeps the cluster IP of a headless Service, "None", under a
  desired NodePort or LoadBalancer, which the API server does not accept.
- `copyJobState` compares a defaulted pod template with one that is not and reports
  it as ignored on every pass, although its comment (apply.go:600-604) has no
  warning where there is no conflict. A changed loadBalancerClass of a Service and
  a changed selector of a Job are kept silently (`KeptSilently`). So
  `IgnoredIsTruthful` says of a StatefulSet and a Service exactly what is reported,
  but for the load balancer class, and of a Job only that no edit of its template
  or completions is dropped silently.
- `RoleGroupResourceName` joins with dashes, so role "a-b" with group "c" and role
  "a" with group "b-c" share a name. `ResourceNamesDistinct` compares the joined
  names.
- A label of the CR reaches every pod of the cluster, also one that equals the
  marker of a group (`MarkerOnCR`). `SlotsSeparate` says exactly what follows: when
  there is no LabelDomain, the group's selector matches the pods of every group of
  its role (`SelectorGivenAway`), and its reclaim takes the budget of a role whose
  name equals its own resource name. `reservedSlotLabelKeys` keeps the other
  markers off.
- A mount that a VolumeProvider asks for without declaring its volume is built when
  the group has no podOverrides, because only `applyPodOverrides` checks the mounts
  (statefulset_builder.go:684-686); the API server refuses the StatefulSet
  (`Unchecked` in `RoleGroupBuild`).
- `EnsureGeneratedSecret` returns what it re-reads after AlreadyExists without
  filling keys that are missing there; the next pass does.
- `deleteWorkloadRBACIfOwned` deletes without a precondition, so a stale cache may
  delete a successor of the same name (`ForeignUntouched` says so).
- An init container of podOverrides by the name of the main container is the one
  `checkPodOverrideMountInvariants` looks at, so the mounts of the main one are not
  checked; the API server refuses the pod (`FrameworkMountsKept` excepts it).
- A health check interval below the floor of a requeue is taken as it is, so a
  waiting pass may come back sooner than the floor (`ShortestWaitWins` says so).
- A handler that products call directly validates no sidecars and runs no gates
  (`direct` inputs). If it has no SidecarManager either, there is nobody to hand an
  image to and an empty one is not refused at that point (`HasManager`).

### Fairness

`FairSpec` assumes that the worker keeps taking steps, that time passes, that
informers catch up and that finalizers are processed, except for the groups
named `Wedged`. The worker's part is what the code arranges: every unfinished
teardown returns a poll interval, a failed pass an error that the workqueue
retries, a good one the health check interval. In `GenericReconciler` the
workqueue is explicit, so the fairness of `Fetch` applies only when something
woke it. Pods need not terminate and rollouts need not complete in either.

In `MCObjects` the workers of `GeneratedSecret` are called on every pass and their
calls do not fail for ever, the identity step and the apply are part of every
pass, the restarter reacts to what it watches, and every cache catches up. The
user, the administrator, the squatters and the failures have no fairness. The
modules of `MCPipeline` have none: their properties are invariants, and a build
or a pass may stop anywhere (`CrashBuilds`).

In the reconciler's runs deadlock is not checked: a CR that is gone, or a
settled cluster without a health check interval, has nothing more to do.

## The proofs

TLC checks the instances above; the theorems hold for every value of the
constants that the named ASSUMEs allow. TLC evaluates those in the runs. They say
that bounds are numbers and sets are finite, and beyond that:

- `GroupsAssumption`, `ConfigAssumption` and the others of `RoleGroupCleaner`, and
  `BoundsAssumption` of `GenericReconciler`, which sizes the settings;
- `HandlersAssumption` of `DesiredState`: a handler builds objects with the fields
  of their kind that the API server would accept as new ones, and no two ports of
  a Service with the same name or number;
- `NamesAssumption` of `RoleNames`: names are what the API server accepts in the
  name of an object, so they are not empty and a group does not end in a dash;
  `LengthsAssumption`: a resource name leaves room for the suffix of the headless
  Service, as 54 of 63 characters do;
- `InputsAssumption` of `RoleGroupBuild`: containers, mounts and configurations of
  sidecars have the fields of their types, a provider comes without an image or
  with one of its own, and overrides that are not set say nothing;
- `LeavesAssumption` of `ConfigLayers`: the leaves of an aspect are pairs of a section
  and a field, those of the image are its five fields, and an environment variable, the
  command line and a pointer have one value each.

Some theorems have a hypothesis about the environment or the product, such as
`"stsLag" \notin Faults`. For each there is a run that checks the same property and
has every behaviour the hypothesis allows at its bounds, and "Where the properties
stop holding" shows what happens without it.

### Teardown

`RoleGroupCleanerProofs` and, on top of it, `TeardownTimingProofs` hold for every set
of groups, every aliasing of names, every choice of slots, timeouts and bounds:

- `TypeCorrect`: `Spec => []TypeOK`.
- `LedgerSafe`: `Spec => LedgerKept`, under all faults. The property alone is not
  inductive. `LedgerInv` adds what the pass knows at each position: the steps
  already confirmed in this pass left nothing in the API server (`Confirmed`,
  `ExtrasGone`), whatever it pruned from its copy is gone (`PrunedGone`), and
  where the pass stands (`Position`). It holds because nothing but the apply
  phase creates owned objects and that phase is over when a pass confirms;
  the confirmation reads the API server, so caches do not matter.
- `OrderSafe`: `OrderedTeardown` if creations are seen at once
  (neither `applyLag` nor `svcLag`). `OrderInv` adds that the cache then covers what
  is owned (`CacheCovers`) and that the steps behind are gone (`StepsGone`).
- `ForeignSafe`: `ForeignKept` if no name is taken during the run
  (neither `squat` nor `idleSquat`). `ForeignInv` pins foreign objects in the cache
  (`Pinned`) and says that a Delete is only ever aimed at an owned one
  (`Targeted`).
- `LiveSlotsSafe`: `LiveSlotsKept` under all faults, if no derived Service that
  handlers build has the resource name of another group. `LiveInv` says that the
  teardown works on groups the pass does not see declared (`Orphaned`) and
  that a Delete is never aimed at a live name (`Aimed`).
- `GraceSafe`, `DrainSafe`, `PurgeSafe`: `GraceHonoured`, `DrainHonoured` and
  `PurgeAfterDrain` for every grace period and drain timeout, with crashes,
  throttling and API errors, if caches keep up, replica counts are current and no
  primary is foreign (`Prompt`), for every group but the interrupted ones. The
  properties are about `orphanAge` and `scaledAge`, the code reads annotations;
  `ClockInv` joins the two. The cache is the API server (`Synced`). Outside the
  groups that a fault has spoilt or the running pass has yet to reset (`Loose`), no
  mark is older than the teardown (`Stamped`) and no drain timestamp older than the
  scaling (`Counted`). What a pass has concluded from the annotations still holds
  where it acts (`Due`, `GraceOver`, `Stamping`, `Drained`). The reset of the
  progress is what takes a group that came back out of `Loose`.
- `OrphansFindable` and `ConditionSafe`: `NoInvisibleOrphan` and `ConditionHonest` in the
  setting of MCReclaim (`Calm`: nothing fails, caches keep up, no name the handler
  builds is foreign or aliased), for any groups, finalizers, grace periods and edits of the
  CR during a pass. `FindInv` says who vouches for what a group owns: between passes
  the stored status, during one its copy of it or the apply at work (`Findable`); and
  that an orphan with something left is ahead in the loop, at hand, left over or
  reported (`Accounted`). What lets the confirmation take a group out of the status is
  the ledger's invariant again, and that nothing is ever made under a derived name that is
  another group's (`Free`).

### The pass

`GenericReconcilerProofs`, for every set of roles and every outcome of gates, roles
and hooks:

- `ReconcilerTypes`: `Spec => []TypeOK`. `TypeInv` adds that the generation of the CR counts
  its edits, which bounds every generation a pass notes.
- `WaitSafe`: `WaitIsNoFault` unless PostReconcile waits. `WaitInv` says that a failure
  is noted only where something failed, and none before the roles.
- `RestSafe`: `RestsWhenDone`, under every lag, conflict, crash and failure. `RestInv`
  says for whom the present status vouches. As long as no event has come since a pass
  read the CR it works on what the cache holds (`OnCourse`); without failures and
  waits, what it has been through is done (`Finishing`); and when nothing is queued,
  the CR in the cache is dealt with in the status that is stored or in the one the
  cache holds (`Asleep`). A write wakes the controller through its own event, so the
  invariant survives a pass that writes an old status over a newer one.
- `InstallSafe`: `FirstInstallQuiet` without stale StatefulSets, but with stale CRs and
  conflicts. `QuietInv`: as long as nobody deleted a StatefulSet, no copy of the
  status knows a role without one (`Innocent`), the pass's, the cached and the
  stored one alike, since any of them may be written.
- `GateSafe`: `GateHonest` without pauses, under every lag, crash and failure.
  `GateInv` orders the generations that are stored, observed, cached and worked on
  (`Observed`), says that StatefulSets are of none newer than the pass's
  (`Workable`), and that behind a pass without failures and waits lie those of its
  own (`Thorough`). VPauseGate shows that pauses break it.

### Objects written beside others

All in `ObjectProofs`:

- `VersionsUnique` is the invariant of `WorkloadRBAC` that the others rest on: what
  has the version of the stored object is the stored object, so a write that passes
  the API server's check was computed from what it replaces. From it follow
  `GrantSafe` (`NoForeignGrant`) and `ForeignSafe` (`ForeignUntouched`), for any rules and
  any interleaving of three caches.
- `SecretImplementsOnce` is the refinement of `WriteOnce`, for
  any number of workers and keys. `SecretInv` (`SecretInvariant`): everything the API
  server, the cache and the workers hold was stored once (`AllKnown`), a value that
  was generated and not stored yet is one worker's alone and derived from what it
  read (`AllPrepared`), and fewer values are in use than there are (`Counted`), so a
  fresh one exists.
- `ApplyInv` of `DesiredState` (`ApplyInvariant`) says that the live object has
  the fields of its kind, no two mounts of one path and no two ports alike; the
  rest is what `copyDesiredState` does to two such objects. `RefusalsKnown`,
  `DataMounted` and `OthersKept` need no hypothesis. `RefusalsKnown` is relative
  to `Accepts`, the rules of the API server that apply.go has to deal with: mounts
  and selectors, immutable fields, node ports, and which types of Service may be
  headless. `ReportTruthful` (`IgnoredIsTruthful`) has `PlainClaims`: handlers
  leave the volume mode and the phase of a claim to the server or state its
  defaults, and then live claims carry them (`FilledInv`). The hypothesis is
  needed: of a handler that asked for another volume mode and then leaves the mode
  out, `claimTemplateAsRequested` takes the live mode for a default and nothing is
  reported.

### Names

`RoleNamesProofs`: `NamesSafe` (`ResourceNamesDistinct`) and `SlotsSafe`
(`SlotsSeparate`) for any names, limits and labels of the CR, markers of groups
included. The invariant only says that what is declared can be declared
(`NamesInv`); the work is in lemmas about the operators: shortening is injective
because the hash is, and because a shortened name has a hash at its end and others
have none (`BoundedInjective`); the result is within the limit and ends in no dash
(`NameLegal`); the markers of two groups differ (`MarkersDistinct`); and no label
a user puts on the CR reaches the reserved keys (`NoMarkers`). `GivenMarker` is
the case left: a marker that the CR carries is on all pods, and the selector then
matches those of every group of the role.

### Configuration

`ConfigLayersProofs`: `StatementsWin` (`UserStatementWins`), for any sections and fields of
any aspect. `LayersInv` says only that a layer is a partial function on the leaves with its
own values, or raw JSON that does not decode; the work is in what one merge does
to one leaf (`FieldWise`, `SectionWise`, `LevelWise`, `TemplateLeaf`, `AffinityLayer`,
`DefaultsAre`), put together for three layers and compared with the highest
statement (`Topmost`). The folds compute it by merging upward, so that a leaf a
middle layer hides, clears or leaves out is what a proof has to follow.

### Hooks and errors

`ExtensionRegistryProofs`, for any priorities, registrations, hooks and groups:

- `HooksOrdered`: `HooksInOrder`. `HookInv` (`HooksInvariant`): what is registered at a
  level is sorted and older than the next number, and the running hook has run the
  first entries of a snapshot that is sorted itself, so that registering and
  clearing meanwhile do not matter. `Place` always exists (`PlaceIs`) and inserting
  there keeps the order (`AddedInOrder`).
- `FailuresOutrank` and `ShortestWins`: `FailureOutranksWaits` and `ShortestWaitWins`.
  `PassInv` (`PassInvariant`): each leaf of an error that a hook returned is carried
  on, in the errors of the hook at work, of the groups or of the role, or it is a
  wait that the pass waits for, and for no longer (`PassAt`). They assume that errors
  are judged soundly (`Judged`): an error waits only if it has leaves, all of
  them wait, and none for less; joining and wrapping keep the leaves; a wrapped
  throttled request is one. That the walks of `ErrorWalks` do is what
  `JudgesAssumption` of `MCPipeline` states, for the trees of `MCTrees`.

### Builds

`RoleGroupBuildProofs`, for any clusters, inputs, sidecars and order of their names,
with builds that interleave and crash at any point. `BuildInv` (`BuildsInvariant`)
follows the pod of a build through the sidecars that are left to inject
(`PodOK`), and says that the manager of a build holds no image but its own
cluster's (`ManagerOK`), that the handler's is never written and what was applied was such
a pod. What one sidecar adds to a pod is said once (`InjectedTo`).

- `FrameworkMountsSafe`: `FrameworkMountsKept`. With podOverrides, the check after the
  merge leaves no mount of the framework displaced and none without a volume;
  without them nothing is displaced (`NothingMerged`), and a mount without a volume
  is one a VolumeProvider asked for (`Unchecked`). Sidecars only add.
- `ImagesSafe`: `ImagesOwn`, through the clones of the handler's manager.
- `LogsSafe`: `LogsReachAgent`. Whichever sidecars come before or after the agent,
  once it is injected every producer that is there shares the log volume, and
  injecting the agent fails if one is not there.

### Only model-checked

- Liveness: `EventuallyReclaimed`, `Settles`, `EventuallyReported`, `EventuallyDeleted`,
  `EventuallyFilled`, `RolloutSettles`, `PermissionsConverge`. The prover has no rules for
  fairness.
- `ReadsBack`, which is about what recursive readers and writers compute for every
  text, and that the recursive walks of `ErrorWalks` judge every tree soundly. Both
  need induction over data.

## What is not modelled

In `RoleGroupCleaner`: the pods of a deleted StatefulSet, which are the garbage
collector's; a stale list of PersistentVolumeClaims; roles without groups;
objects from before the role-group labels; a stale CR, which is
`GenericReconciler`'s `crLag`; slots a product stops building. In
`GenericReconciler`: undeclared groups; a list of pods that fails and reads of a
StatefulSet that fail with anything but NotFound; paused and stopped at once,
which is treated as paused; messages, and transition times beyond being newer.
Names are distinct values in both; `RoleNames` is about their truncation.

In `DesiredState`: fields that no rule of apply.go tells apart; Services of type
ExternalName; the reclaim of a
slot that a handler stops filling, which `RoleNames` covers by its predicates. In
`PodAssembly`: ports, probes, environments, resources and security contexts,
which are copied field by field; containers of podOverrides that are reordered or
deleted by directives. In `RoleGroupBuild`: a lagging cache behind the agent's
check of its ConfigMap; Services and budgets. In `ConfigFormats`: YAML, which a
library writes and reads; \uXXXX, which is read and never written; noncharacters
in XML.

Of the repository: the text that productlogging's generators and the vector
template render; the builders of Services, budgets and metrics; security,
listener and s3, which build volumes or read single objects; the webhook setup;
remote execution; the event recorder; test utilities and the example operator.
These keep no state and take no decision that others depend on.

## Plan

1. Done: `RoleGroupCleaner` with its proofs, `GenericReconciler`.
2. Done: the modules of `MCObjects` and `MCPipeline`.
3. Done: theorems about every module but `ConfigFormats` and `ErrorWalks`.
4. Open: Services and budgets of a build, and the slots a handler stops filling,
   as actions of their own.
