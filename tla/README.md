# A verification of krypton-operator

The operator watches `KryptonDeployment` objects on a *home* cluster and keeps
one Helm release per object on one of many *edge* clusters, which it reaches
through kubeconfig Secrets stored on the home cluster. This directory holds TLA+
models of that program, TLC configurations that check them on small instances, and
TLAPS proofs for instances of any size. `KO` below is
`src/internal/multicluster/krypton_operator.go`.

## 1. The system

| Part | State | Operations |
|---|---|---|
| Home cluster API (external) | objects with `resourceVersion`, `generation`, finalizers, `deletionTimestamp`, status; Secrets | Update and Status().Update under the optimistic lock; users create, edit, delete; administrators replace Secrets |
| Informer and workqueue (controller-runtime, external; `registerHomeController`, KO:281) | a cached copy of every object; a FIFO set of keys, some delayed | list at start, watch events, `RequeueAfter` |
| Reconcile loop (`reconcileCED`, KO:378) | nothing between reconciles; within one: the copy it read, the edge handle, the reason to report | account check, deletion check, finalizer, target, namespace, check-and-heal, deploy, health, status |
| Check and heal (`rcedCheckAndHeal`, KO:785) | none | Helm history, release status, GET of each checked manifest object, repair |
| Helm deployment (`deployHelmChart`, KO:636; `uninstallHelmChart`, KO:723) | none; Helm (external) keeps the release record in the edge namespace | history, install, upgrade, uninstall |
| Deletion (`rcedHandleDelete`, KO:461) | none | uninstall, delete namespace, remove finalizer; every failure on the edge is logged and passed over |
| Secret provider (`src/multicluster/secretprovider/provider.go`) | `clusters`: a handle per name, never dropped; one mutex | `Get`, `List` |
| CRD bootstrap (`src/internal/multicluster/crd_watch.go`) | none | get, create, up to five attempts |
| Settings (`RunKryptonOperator`, KO:78–147; `buildWatchConfig`, KO:306; `getCheckInterval`, KO:763) | none after startup | flags, environment, source of the watch configuration, watch scope, check interval |
| Process life (`RunKryptonOperator`, `startManagers`) | two managers, one context, one channel | setup in seven stages, signals, the managers' ends, kill, replacement by a rolling update |
| API types and deep copies (`src/api/v1alpha1`) | the informer's object, the copies handed out | `DeepCopyInto`, decoding, writes through shared pointers |
| Edge cluster (external) | namespace, release record, objects, pods | namespace termination, rollout, out-of-band changes |

The parts meet in four places: the informer's cache (always behind the API server by
some unknown amount), the optimistic lock on writes to an object, the provider's
table, and the edge namespace and release, which carry only the *name* of the object.

What is hard: every reconcile is a chain of some ten calls to two clusters, working
from a copy read at its beginning; anything may happen between two of them (edits,
deletion, another operator process of a rolling update, a kill). Errors are almost
never returned to controller-runtime, so each single return has to bring the object
back by `RequeueAfter`. On deletion the clean-up is best effort. There is no leader
election (`--leader-elect=false` in `src/config/deployment/operator.yaml:22`), so old
and new processes overlap.

What makes the parts correct: no object is forgotten; stale copies never undo
anything a user or another controller did; a status is about the generation and the
edge it says; nothing is left on an edge without an object that will clean it up;
the release converges, and a deleted object is let go, once disturbances leave off.
`PROJECT.json` lists the hazards with the lines where they bite and the properties
that watch them.

## 2. The modules

```
Krypton ── HomeCluster ──┐              Custody (abstract)
        └─ EdgeCluster ──┴─ Reconciler ── OperatorProperties ──┬─ MCReconciler (*.cfg) ── MCSolo
                                                               └─ ReconcilerProofs ── LockProofs
                                       FreshProofs (on LockProofs) ──┬─ CustodyProofs
                                                                     └─ ReadyProofs
ClusterTable (abstract) ── Provider ──┬─ MCProvider
                                      └─ ProviderProofs
EnsureCRD ─────┬─ Startup ──┬─ MCStartup
Configuration ─┘            └─ StartupProofs           Copies ── CopiesProofs
```

**HomeCluster.** `kd[k]` is the stored object or `Gone`, `rv[k]` the last
`resourceVersion` handed out for `k`, `secret[s]` the edge cluster the Secret's
kubeconfig leads to, `BadCreds` for one that parses but that nobody accepts, or
`NoCluster`. `Store` is what every write does: nothing if the object does not
change, otherwise a fresh version, and the end of a deleted object with its last
finalizer. `Locked` is the optimistic lock, `Updated` and `StatusUpdated` what the
two kinds of write replace. `ResolveTarget` is `rcedResolveTarget`.

**EdgeCluster.** `edge[e][n]` is what is on edge `e` in namespace `n`: the namespace's
phase, the status of the release's last revision, for each manifest object the chart
whose version is applied, and the version the Deployment's available pods run.

**Reconciler.** Per process `o`: `cache[o]`, `queue[o]`, `clusters[o]` (the provider's
handles by Secret), `known[o]` (the Secrets its informer has seen), and the worker's
`pc[o]` and `w[o]` (the key, the copy, the handle, whether there is something to repair,
what Helm has been asked to do, the objects still to look at, apply or remove, and the
reason to report). One action is one call to an API server (or the chart download) with
all the code up to the next one; the order of the guards is that of the code's early
returns. `Begin` is the read of the object from the cache together with the checks of
KO:410–428, `FirstStep` their order; `WriteStatus` is the status update at the end of
each path, with its dropped error, and the `RequeueAfter`. In `rcedCheckAndHeal`,
`History`, `GetRelease` and, for each checked object, `CheckOne` are calls of their own.
Inside Helm, `Start` writes the pending record, `ApplyOne` and `RemoveOne` handle one
manifest object, `CloseRecord` and `UninstallEnd` close the record, `FailRecord` marks
it failed after an object could not be applied; so a kill, a deletion or another process
may come in between. Any of these calls may fail. If the one that closes the record
does, the record stays pending: Helm only logs that at the end of an install and returns
it at the end of an upgrade (`Unrecorded`), and after an earlier failure it ignores it.
What Helm reads just before it writes a record is taken together with that write.
`Launch`, `Deliver`, `Stop`, `Retire` are the process around the worker; an old process
that is to reconcile nothing more is not launched, as it matters to nobody. Everybody
else (`Users`, `PodsRoll`, `NamespaceEnds`, `Tampering`) and every failure draws on
`budget`, which starts as one of `Budgets`; nothing else in the model is bounded.

**OperatorProperties** states what is owed (section 4), and in what circumstances: what the
code relies on without providing for it is stated once, as the hypotheses of theorems
(`Custodial`, `Undisturbed`). `MCSolo` has TLC evaluate that the instance of run Solo meets
them. **Custody** is the protocol
behind the finalizer, on two variables: the objects held, and the places occupied on
edges. `Protocol` in `OperatorProperties` maps the reconciler's state to them.

**Provider** models its file: the mutex held across the read of the Secret, and how a
name leads to a Secret. **ClusterTable** is what it promises, a table filled on first
use whose entries never change; `Table` in `Provider` is the mapping (an entry counts
from the store at PR:73 on, a failing `Get` is a stutter). `Reconciler` uses `Get` as one
step (`Lookup`), which this refinement justifies.

**EnsureCRD** has the five attempts of several processes, with answers lost before or
after the server acted. **Configuration** has the functions that turn settings into
decisions, without state. **Startup** extends both: `stage[p]` is how far
`RunKryptonOperator` has come, `manager[p]` the two goroutines of `startManagers`,
`received[p]` what its loop has taken from the channel, `signals[p]` what
`SetupSignalHandler` has seen. `SetUp`, `Ensure`, `Ensured`, `Register` and `Receive` are
the main goroutine; `Sync`, `Finish` and `Break` a manager. What the managers do while
they run is `Reconciler`, whose `Launch` and `Stop` stand for all of this module.

**Copies** has first the types of the API group as data: what each declares
(`KryptonDeploymentTypes`, `AccountTypes`, `RegionTypes`), what each `DeepCopyInto` makes
anew (`Remakes`) and which others it calls (`Delegates`); from these `Shared(t)`
follows. Then the memory of one process: cells for what pointers and slices lead to,
the informer's object `store`, the reconciler's `copy`, and the client, which decodes each
answer into the object that was sent, through the pointers it finds there.

Operators with a comment "Mutation" are not used by any specification: they are
plausible wrong versions of the operator that follows them, and each property is
checked to fail with the one listed for it in `PROJECT.json`.

### Abstractions

- A Secret's content is where it leads to; a spec is what `ResolveTarget` and the
  account check tell apart; a condition is its reason, the phase being a function of it.
- `Deliver` brings the cache to the present object; intermediate versions may be
  skipped but never reordered. Delays are left out: a requeued key may be taken at
  once, so every delay is covered.
- The provider reads Secrets through the home manager's cache (KO:165): `known` lags
  behind the Secrets, and only namespaces in `Watched` are readable at all (a read
  elsewhere is the cache's error). Objects on the edge are read uncached, as in the code.
- `pending-install` and `pending-upgrade` are one status, as are `failed` and
  `superseded`: Helm treats each pair alike in what this code asks of it.
- One Deployment is modelled; its pods are all available, of one version, or none are.
- In `Startup`, `trouble` has the processes that have met an error which is nobody's
  fault, `other` those that have met an error of the API server of another kind; any
  process may, and a container that ended is not restarted (`Launch` in `Reconciler`
  is). A request under way when the first signal comes may still be answered.
- In `Configuration`, `time.Duration` wraps at the constant `Largest`, and `time.Second`
  is the constant `Second`. The proofs are for any of them; the run has 11 bits and 12
  units: like 10^9 an odd number times a power of two, so that products can wrap to
  negative, tiny and zero.
- In `Copies`, `ObjectMeta`'s maps and slices are one reference, and an edit of the spec is
  one of its kubeconfig reference, the only part that is shared.
- The manifest is the constant `Resources`; `parseManifestToObjects` drops what it
  cannot decode, and `Checked` are the kinds KO looks at.
- The namespace controller empties a terminating namespace in one step.
- A status that equals the stored one is a write without an event. The code's condition
  times have a resolution of a second, which would at worst add events.

## 3. The runs

| Run | Instance | Question |
|---|---|---|
| Solo | one process, one object created up to twice, one edit, one deletion, one foreign finalizer change, one failing call outside the clean-up, one kill anywhere | all safety of the loop |
| Routing | two edges, two edits of region or account, one failing call | is Ready about the right edge, does the last edit win |
| Converge | one object, one failing call, one out-of-band change and one graceful stop; or two objects that share an edge name, two creations and one deletion; or a rolling update to another chart, in which the old process makes one reconcile | does the release converge, with what disturbs one object, with what another of its name does, and with what an old process does |
| LetGo | a kill anywhere, any failing call, a Secret rotated or removed, an uninstall by hand | is a deleted object let go |
| Overlap | two processes with different charts, one reconcile of the old one while the new one makes several, a user's edit | what the lock protects between processes |
| Provider | two callers, four forms of names, two Secret changes | handles are unique and lead where the name says |
| Startup | two processes, each with one of three settings, five attempts each, any loss of answers, two signals each, errors of every kind for each | startup, the managers' ends and the exit status |
| Copies | one object, five versions, two reconciles' worth of writes, lost and refused answers | does what is shared ever show |
| BlankAccount, StuckRelease, RecreatedSecret, DeepCopy | see section 6 | violations |

The two manifest objects are a checked, namespaced Deployment and an unchecked,
cluster-scoped role: one of each kind the code and Kubernetes tell apart. One object
suffices for the lock and the queue, which treat keys separately (the proofs hold for
any number). Where objects do meet is on the edge, when they share a name, and in the
one worker; Converge has two such objects. One failing call and one kill reach every
call and every point between calls, because both are possible at each; pairs of failures
are left to the proofs, which have arbitrary budgets. Three runs leave out some calls.
Solo has no failing call in the clean-up (section 7). Routing and Converge have every
failing call but one, that which closes the record of a Helm operation
(`RecordedSites`): after it the release does *not* converge, as StuckRelease shows
(section 6). Solo and LetGo have that one too. Budgets of users are such that each pair
of their actions that the code distinguishes occurs: recreate after delete (Solo), away
and back (Routing). In Overlap and Converge the old process makes one reconcile (`old`
is 1): it suffices for it to be anywhere in one while the new one does several. In
Startup the settings are a home cluster given by file with the CRD left to others, one
given by a Secret in the operator's namespace with the CRD ensured, and the same with
another namespace named in which there is no such Secret: the sources, the default of
the namespace and the flag each make a difference in one of them. Routing adds a Secret
in a namespace that the caches do not cover. Three cells per reference suffice in
Copies: two objects hold at most one each, and one more is being made. Deadlock is not
checked where budgets run out and an idle system simply stops; Provider checks it.

### Fairness

`Fairness` asks weak fairness for each call of a busy worker, for the informer and the
launch of the process that stays, for the rolling update and for the edge's own
controllers: calls return (HTTP and Helm timeouts), the kubelet restarts containers,
controllers run. Taking a given key off the queue gets *strong* fairness, because the
workqueue is first-in first-out: a key that is again and again in the queue when the
worker is idle is taken. Users, tampering, failures and kills are not fair, and since their
budgets are finite the liveness properties are about what happens once they leave off.
A failing `Call` is limited by its budget, except with credentials nobody accepts,
where every call fails for ever. `GracefulStop` confines kills to points outside a Helm
operation in the runs of `Converges`; StuckRelease shows why it must.

`FairStartup` asks weak fairness for the main goroutine (each of its calls returns, and a
value in a buffered channel is received), for the home informer, which syncs or runs into
its timeout, and for a manager whose context is canceled. Signals and errors are not fair.

## 4. The properties

- `CopiesAgree`: two copies of an object with one `resourceVersion` are equal, and
  none is ahead of the API server. The lock compares versions only, and after its own
  Update the worker goes on with a copy it has changed itself.
- `NeverForgotten`: a running process that still has work with an object has it in its
  queue or hands, or an event on its way.
- `UsersOwnTheirFields`: although Update sends the whole object back, no step of the
  operator changes a spec or somebody else's finalizer.
- `StatusNeverRegresses`: no report gives way to one about an older generation.
- `KeepsCustody`: every step of the operator, the users and the edge clusters is one of the
  custody protocol or leaves it alone: nothing is put on an edge without an object held for
  it, and no object is let go of while something is there to stay. It
  implies `NothingOrphaned` (section 5) and says which *step* is to blame. Converge checks
  it for two objects of one name, either of which may clean up what the other deployed.
- `NothingOrphaned`: while something is on an edge that nobody is removing, an object
  with the finalizer exists. One process, specs that lead to one edge, no failure in the
  clean-up: the code does not provide it beyond that (section 7).
- `ReadyMeansServed`: Ready for the present generation is about the edge the present
  spec leads to, and the release is there with its pods. Without tampering.
- `Converges`, `DeletionCompletes`, `Heals`: liveness. `Converges` requires pods of the
  right version, and the object to say so; it is stated for objects whose Secret is in a
  watched namespace (`Reachable`), and checked without what leaves a record that Helm does
  not upgrade. `Heals` asks less, that checked objects be present in the end, but whatever
  has become of the record; it does not hold (section 6).
- `OneHandlePerName`, `HandleMatchesName`, `EveryCallReturns` of the provider, and
  `ActsLikeATable`, its refinement of `ClusterTable`.
- `NilMeansPresent`, `GivesUpOnlyWhenEntitled` of the CRD bootstrap.
- `ExitsForAReason`: a process told to ensure the CRD never fails for want of it, nor for a
  Secret that is where the other Secrets are; only its environment can end it.
  `ZeroIsGraceful`: status 0 means both managers finished after a signal.
  `ServesOrExits`, `EndsTogether`, `StopsWhenTold`: no process hangs in its setup, none
  goes on with one manager, and a signal is always answered.
- `IntervalIsUsable`: the check interval is positive and the one asked for, except for
  integers that do not fit when counted in nanoseconds. There the code may get any value,
  zero and negative ones included, and a Deployed object would not be looked at again:
  `Reconciler` assumes an interval that fits.
- `OnlyKubeconfigShared`: of all pointers and slices of all API types, none but the
  kubeconfig reference of a spec is ever shared with a deep copy; it would hold as well
  if that were copied. `DeepCopySharesNothing` says that none at all is, and does not
  hold (section 6). `StoreIntact`, `CopyIntact`: the sharing never shows, because the
  optimistic lock only lets answers come back that say of the shared cell what it
  already holds; without it both fail.

## 5. The proofs

For any number of objects, processes, edges, charts, manifest objects, callers, names
and settings, and any budgets, from the named assumptions of the modules, and for
`KeepsCustody`, `NothingOrphaned` and `ReadyMeansServed` also from the circumstances
named below:

| Theorem | Statement |
|---|---|
| `WorkersTyped` | `Spec => []TypeInv` |
| `TypeCorrect` | `Spec => []TypeOK` |
| `CopiesAlwaysAgree` | `Spec => []CopiesAgree` |
| `NothingForgotten` | `Spec => []NeverForgotten` |
| `FieldsAreTheUsers` | `Spec => UsersOwnTheirFields` |
| `StatusAdvances` | `Spec => StatusNeverRegresses` |
| `OperatorKeepsCustody` | `Custodial` implies `Spec => KeepsCustody` |
| `NothingIsOrphaned` | `Custodial` implies `Spec => []NothingOrphaned` |
| `CustodyOrphansNothing` | `KeepsCustody => []NothingOrphaned` |
| `ReadyIsServed` | `Undisturbed` implies `Spec => []ReadyMeansServed` |
| `ProviderTyped`, `HandlesAreUnique`, `HandlesLeadHome` | `Spec => []TypeOK`, `[]OneHandlePerName`, `[]HandleMatchesName` of `Provider` |
| `ProviderImplementsTable` | `Spec => ActsLikeATable` |
| `NilIsTrue`, `NoEarlyEnd` | `StartupSpec => []NilMeansPresent`, `[]GivesUpOnlyWhenEntitled` |
| `ZeroMeansDone`, `NeverForNothing` | `StartupSpec => []ZeroIsGraceful`, `[]ExitsForAReason` |
| `StartupTyped`, `EveryIntervalServes` | `StartupSpec => []StartupTypeOK`, `[]IntervalIsUsable` |
| `CopiesTyped`, `NothingElseShared` | `Spec => []TypeOK`, `[]OnlyKubeconfigShared` of `Copies` |
| `CacheStaysTrue`, `CopyStaysWhole` | `Spec => []StoreIntact`, `[]CopyIntact` |

*Types.* `TypeOK` is not inductive: the writes of a worker need its copy to be an
object and its key to be one, and `RemoveFinalizer` needs to know that the copy is
being deleted. `WorkOK` adds that: idle workers carry nothing, busy ones an object,
those in the clean-up a deleted one. `TypeInv` splits `TypeOK` and `WorkOK` by what
steps leave alone together; one lemma per action, on top of one lemma per helper.

*The lock.* `CopiesAgree` is inductive with `TypeInv`, by two facts about every step:
what it stores it stamps with the next version (`Stamped`), and the copies it leaves
behind were copies before, or are the object just stored (`CopiesMove`). A worker whose
lock holds therefore has the stored object itself in its hands (`LockedMeansCurrent`).

*Its consequences.* With that, every write of a worker is a change of the stored
object in our finalizer or our status only (`Legitimate`), which gives
`FieldsAreTheUsers`; and as a status is never ahead of the generation
(`StatusFollows`), writing one about the present generation never goes back. For
`NothingForgotten`, a call keeps its key, puts it back, or lets go of an object that is
gone or deleted without our finalizer (`Moves`, `LetsGo` needs the lock: the object
let go of is the stored one), and an object that changed has a version the cache
cannot have (`ChangeIsNoticed`).

*The provider.* `OneHandlePerName` speaks of what was returned; the invariant adds that
whoever reads the Secret holds the mutex, that the name it reads for has no entry, and
that everything returned is in the table. Under it every step is one of the table or a
stutter.

*What a worker may rely on* (`FreshProofs`). Both proofs that follow need three things
that hold whatever is on the edges. `Fresh`: while the object a worker carries is still
the stored one, the cache agrees with it on whether it is being deleted. `HandlesTrue`:
with no Secret changed, every handle leads where the Secret leads. `StoredStep`: every
change of a stored object is a user's, or a worker's change of our finalizer or of the
status of the object it carries. `WorkerFlow` says which label follows which.

*Custody.* The property is a refinement: `held` is the set of objects with the
finalizer, `occupied` the set of sites with something on them, and every step must be
one of `Custody`'s. `Custodial` is what the code relies on: one process, no Secret
changed, specs that lead to one edge by a Secret that can be read, no failing call in
the clean-up, and no release record or namespace deleted by hand (or charts that stay in
their namespace). Section 7 says what happens otherwise. The inductive invariant
`CustodyInv` has four parts. `FromUsers`, `LeadTo` and `OnlyAt`: every copy of a spec is
one of the users', so every worker with a handle has that of the one edge. `Held`: a
worker past the finalizer carries an object whose stored version bears it, because only
this worker takes it off. `Neat`: whatever outlives the namespace has a release record
in an active one, so that an uninstall finds it. `Phase`: what the worker's label says
of its site; from the start of a Helm operation until its record is closed, or has
failed to be, there is a record; while it uninstalls, what is no longer to do is gone;
after that nothing is left. `NothingOrphaned` then follows from the protocol alone
(`CustodyOrphansNothing`) and the first state, in which nothing is occupied.

*Ready.* `Undisturbed` asks for one process, no Secret changed, nobody who takes
anything away on the edge, and objects with names of their own, but allows any number of
edges, edits that lead elsewhere, unreadable Secrets, failing calls and kills
everywhere. `Aimed`: a worker that deploys has the handle that its copy's spec leads to.
`Laid`: what is on the site at each label; objects not on Helm's list have been applied,
and at the status update the release is complete with its pods. `ClaimsHold` is the
property with the addition that the object is not being deleted; it is what the status
update has to establish, whose lock makes the copy's spec the stored one. What could
take it away again is a worker that cleans up, and `DeletionSeen` says why none does: an
object that a cache or a worker takes for deleted is deleted or gone, or it has been
re-created and has not been reported Deployed yet.

*Copies.* `References` and `Remade` are recursive functions over the types. The prover
has no induction, and needs none: the solution is written down (`Refers`, `Makes`),
shown to satisfy the equation, and shown to be the only one, level by level, as the
types are only a few levels deep. `SharedReferences` follows. The invariant of the
memory is `TypeOK`, `StoreIntact` and three more: both objects are versions the server
has had (`Past`), they share at most the kubeconfig (`Apart`), and `Tells` says what the
copy contains at each point of a reconcile: the version it was taken from but for the
reconciler's own change, and, once a write is accepted, exactly what the answer says. So
decoding the answer writes into the shared cell what it already holds. `Fits`, the lock,
is what makes the last part true.

*Startup.* `Orderly(p)` says what is known of one process: beyond the ensure stage the
CRD is there, a manager is on only in the last stage and ends only for a reason, an exit
has one. `Counting` ties the attempts to the transient errors. What a process does is no
matter to the others (`OthersOrderly`), because the CRD, once there, stays, and reasons
do not go away. `Limits` adds that a living process has got at most one signal, which
bounds that counter. `EveryIntervalServes` is arithmetic: a product that fits is not
changed by wrapping.

Only model-checked: liveness (`Converges`, `DeletionCompletes`, `EveryCallReturns`,
`ServesOrExits`, `EndsTogether`, `StopsWhenTold`), which the prover does not treat under
fairness. Every invariant and every action property that a run checks is also a theorem.
`KeepsCustody` is checked in Converge outside `Custodial` (with two processes or
out-of-band changes, though never of an object that is also deleted), and there it is
model-checked only.

## 6. Where the code and what it says of itself part

- **BlankAccount**: KO:411 returns for a blank account name before KO:422 looks at the
  deletion; an object whose account was blanked keeps its finalizer for ever.
- **StuckRelease**: a release record that Helm does not upgrade is never got past, so an
  object that goes missing is not repaired, against the comment at KO:784. There are
  three ways to such a record, each in a budget of the run. A process is killed inside a
  Helm operation, which leaves it pending. No process is killed, but the one call that
  closes the record fails: Helm's `install.Run` only logs that and returns nil,
  `upgrade.Run` and the handling of a failed operation leave the record as it is, too
  (with an out-of-band deletion afterwards, the checked object stays missing). Or
  somebody uninstalls the release by hand and keeps its history. TLC reports the first
  it meets; with any one of the three budgets alone `Heals` fails.
- **RecreatedSecret**: the handle made from the first version of a Secret is kept, so
  the remedy that `src/README.md:198` gives needs a restart.

- **DeepCopy**: the comment at `src/api/v1alpha1/deepcopy_manual.go:63` says that
  `DeepCopy` creates a deep-copied spec, but `KryptonDeploymentSpec.DeepCopyInto` (line
  57) assigns its region, and with it the pointer to the kubeconfig reference.
  `RegionInfo.DeepCopyInto` (line 95) would make that anew, and nothing calls it.
  `StoreIntact` and `CopyIntact` say why this does no harm today.

Also met, without a run: `src/README.md:44` says that the controller computes a
fingerprint of the chart and upgrades only if it changed; the code has none and upgrades
on every reconcile.

## 7. Limits of the code that the checks leave out on purpose

- A single failure of the uninstall or the namespace deletion (KO:476) is logged and
  leaves the release on the edge, and the finalizer goes nevertheless. `NothingOrphaned`
  and `KeepsCustody` are checked without failing calls in the clean-up.
- A spec edited to another region leaves the release on the old edge: nothing records
  where it was. `NothingOrphaned` is therefore checked with specs that agree on the edge.
- A release record or a namespace that somebody deletes by hand is all the operator had: if
  the object is then deleted, `uninstallHelmChart` (KO:738) finds no release, takes that for
  nothing to do, and what the chart had outside its namespace stays. TLC shows this when an
  out-of-band change is added to Solo with its cluster-scoped object; hence `RecordsStand`.
- During a rolling update the old process may deploy while the new one cleans up, so
  `NothingOrphaned` is checked for one process.
- Objects of one name in two namespaces share the edge namespace and the release.
  Deleting one removes the other's release until the other's next check. `NameOf` admits
  that: the proved theorems hold for it, `Converges` and `KeepsCustody` are checked with
  it in Converge (and `KeepsCustody` is proved for it), and `ReadyMeansServed`, which is
  untrue in between, only for distinct names.
- One failing call that was to close the record of a Helm operation, a kill inside one
  and an uninstall that keeps the history wedge the release (StuckRelease), so
  `Converges` is checked without them. LetGo has all three and shows that deletion
  completes all the same.
- Availability is read without its generation (KO:929): Ready may be early by one check
  interval after an upgrade. `ReadyMeansServed` is about the release and its objects;
  `Converges` asks for the right pods only in the end.
- An integer `KRYPTON_CHECK_INTERVAL` may overflow (KO:775); `IntervalIsUsable` leaves
  those out.

`PROJECT.json` lists each of these as a hazard, and says of those that no property would
catch why none does.

## 8. Not modelled

The context within a kubeconfig, the chart flags and Helm's default paths, which change
no decision; `src/internal/helmutil/restgetter.go`, a stateless adapter;
`buildSchemes` and the registration of types; what the Account and Region types mean,
as no code uses them (their deep copies are in `Copies`); charts and scripts.

## 9. Plan

Next, in this order:

1. *Proofs.* `ReadyMeansServed` where Secrets do change, with what the handle leads to in
   place of the Secret; `KeepsCustody` for several edges, for objects whose
   spec does not change its target.
2. *Runs.* Two objects with distinct names and one worker; two that share a name together
   with failures and kills.
3. *Abstraction.* An object's life as a user sees it (absent, wanted, deleting, let go),
   and `Reconciler` as its implementation.

## 10. Running it

    tlc -workers 2 -config Solo.cfg MCSolo
    tlc -workers 2 -config Converge.cfg MCReconciler
    tlc -workers 2 -config Provider.cfg MCProvider
    tlc -workers 2 -config Startup.cfg MCStartup
    tlc -workers 2 -config Copies.cfg Copies
    tlapm ReconcilerProofs.tla
    tlapm LockProofs.tla
    tlapm ProviderProofs.tla
    tlapm FreshProofs.tla
    tlapm CustodyProofs.tla
    tlapm ReadyProofs.tla
    tlapm StartupProofs.tla
    tlapm CopiesProofs.tla

Solo is the largest run (4.2 million states, one and a half minutes), Converge the
longest (0.8 million states, with liveness, two to three minutes); the proofs take a few
minutes from nothing.
