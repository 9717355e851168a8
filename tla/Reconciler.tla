----------------------------- MODULE Reconciler -----------------------------
(***************************************************************************)
(* The operator: internal/multicluster/krypton_operator.go, reconcileCED   *)
(* and everything it calls, run by one controller-runtime worker per       *)
(* operator process over an informer cache and a workqueue.  One action is *)
(* one call to an API server (or the chart download): between two of them  *)
(* users, other operator processes and the edge clusters may move.         *)
(***************************************************************************)
EXTENDS HomeCluster, EdgeCluster

CONSTANTS
    Operators,     \* operator processes (pods), overlapping during a rollout
    Latest,        \* the one that stays
    ChartOf,       \* [Operators -> Charts]: -chart-repo, -chart-name, -chart-version
    NameOf,        \* [KD -> Names]: the object's name without its namespace
    NoKD,          \* the key of an idle worker
    FaultSites,    \* calls that may fail although nothing is wrong with them
    Watched,       \* -watch-namespaces: the home namespaces its caches cover
    GracefulStop,  \* a process never stops in the middle of a Helm operation
    Budgets        \* how often each kind of environment action happens: one of these

Kinds == {"create", "edit", "delete", "foreign", "rotate", "drift", "keep",
          "fault", "crash", "old"}

ASSUME OperatorAssumption ==
    /\ Latest \in Operators
    /\ ChartOf \in [Operators -> Charts]
    /\ NameOf \in [KD -> Names]
    /\ NoKD \notin KD
    /\ Watched \subseteq Namespaces
    /\ GracefulStop \in BOOLEAN
    /\ Budgets \subseteq [Kinds -> Nat]

Labels == {"idle", "status", "addFinalizer", "getCluster", "nsGet", "nsCreate",
           "history", "getRelease", "check", "chart", "chooseOp", "install",
           "upgrade", "apply", "fail", "health", "delCluster", "delHistory",
           "uninstall", "remove", "delNamespace", "removeFinalizer"}

\* The worker is inside a Helm operation that changes the release.
InHelm == {"apply", "fail", "remove"}

\* What a reconcile carries from call to call: the object as it was read, the
\* cluster handle, whether rcedCheckAndHeal found something to repair, what Helm
\* has been asked to do, the objects still to look at, apply or remove, and the
\* reason it will report.
Work == [key: KD \cup {NoKD}, obj: Object \cup {Gone},
         cluster: Clusters \cup {NoCluster}, repair: BOOLEAN,
         op: {"none", "install", "upgrade"}, todo: SUBSET Resources, reason: Reasons]
NoWork == [key |-> NoKD, obj |-> Gone, cluster |-> NoCluster, repair |-> FALSE,
           op |-> "none", todo |-> {}, reason |-> "none"]

VARIABLES
    proc,      \* proc[o]: "down", "up", or "retired" by the rollout
    cache,     \* cache[o][k]: the informer's copy of kd[k]
    known,     \* known[o][s]: the informer's copy of secret[s]
    queue,     \* queue[o]: keys in the workqueue, delayed ones included
    clusters,  \* clusters[o][s]: the provider's handles, by Secret key
    pc, w,     \* the worker
    budget     \* what the environment may still do

local == <<proc, cache, known, clusters>>
inside == <<proc, cache, known, queue, clusters, pc, w>>
vars == <<kd, rv, secret, edge, proc, cache, known, queue, clusters, pc, w, budget>>

TypeOK ==
    /\ HomeTypeOK /\ EdgeTypeOK
    /\ proc \in [Operators -> {"down", "up", "retired"}]
    /\ cache \in [Operators -> [KD -> Object \cup {Gone}]]
    /\ known \in [Operators -> [Secrets -> Clusters \cup {NoCluster}]]
    /\ queue \in [Operators -> SUBSET KD]
    /\ clusters \in [Operators -> [Secrets -> Clusters \cup {NoCluster}]]
    /\ pc \in [Operators -> Labels]
    /\ w \in [Operators -> Work]
    /\ budget \in [Kinds -> Nat]

NoHandles == [s \in Secrets |-> NoCluster]

Init ==
    /\ HomeInit /\ EdgeInit
    /\ proc = [o \in Operators |-> "down"]
    /\ cache = [o \in Operators |-> [k \in KD |-> Gone]]
    /\ known = [o \in Operators |-> NoHandles]
    /\ queue = [o \in Operators |-> {}]
    /\ clusters = [o \in Operators |-> NoHandles]
    /\ pc = [o \in Operators |-> "idle"]
    /\ w = [o \in Operators |-> NoWork]
    /\ budget \in Budgets

-----------------------------------------------------------------------------
(* The vocabulary of the worker's steps.                                    *)

Spend(kind) == budget[kind] > 0 /\ budget' = [budget EXCEPT ![kind] = @ - 1]
Fault(call) == call \in FaultSites /\ Spend("fault")

\* The worker goes on to label l with work.
Step(o, l, work) ==
    /\ pc' = [pc EXCEPT ![o] = l]
    /\ w' = [w EXCEPT ![o] = work]
    /\ UNCHANGED queue

Goto(o, l) == Step(o, l, w[o])

\* Report: setReadyCondition and Status().Update come next.
Report(o, reason) == Step(o, "status", [w[o] EXCEPT !.reason = reason])

\* Mutation: a return without RequeueAfter.
NoRequeue(keys, k) == keys

\* The reconcile returns: RequeueAfter puts the key back.
After(keys, k) == keys \cup {k}

Return(o, keys) ==
    /\ pc' = [pc EXCEPT ![o] = "idle"]
    /\ w' = [w EXCEPT ![o] = NoWork]
    /\ queue' = [queue EXCEPT ![o] = keys]

Requeue(o) == Return(o, After(queue[o], w[o].key))

\* The site the reconcile works on, and what it becomes.
At(o) == edge[w[o].cluster][NameOf[w[o].key]]
Set(o, site) == Becomes(w[o].cluster, NameOf[w[o].key], site)

\* A call to the edge cluster is answered, or fails: always with a kubeconfig
\* nobody accepts, and now and then with a good one.
Answers(o) == w[o].cluster \in Edges /\ UNCHANGED budget
CallFails(o, call) ==
    IF w[o].cluster \in Edges THEN Fault(call) ELSE UNCHANGED budget

-----------------------------------------------------------------------------
(* reconcileCED up to the edge cluster.                                     *)

\* Mutation: the finalizer is not added.
WithoutFinalizer(obj) ==
    CASE ~obj.spec.account -> "status"
      [] obj.spec.account /\ obj.deleting -> "delCluster"
      [] OTHER -> "getCluster"

\* Mutation: a deleted object is let go without a clean-up.
WithoutCleanUp(obj) ==
    CASE ~obj.spec.account -> "status"
      [] obj.spec.account /\ obj.deleting -> "removeFinalizer"
      [] obj.spec.account /\ ~obj.deleting /\ Ours \notin obj.fins -> "addFinalizer"
      [] OTHER -> "getCluster"

\* The checks on the copy, in the code's order.
FirstStep(obj) ==
    CASE ~obj.spec.account -> "status"
      [] obj.spec.account /\ obj.deleting -> "delCluster"
      [] obj.spec.account /\ ~obj.deleting /\ Ours \notin obj.fins -> "addFinalizer"
      [] OTHER -> "getCluster"

\* The worker takes a key and reads the object from the cache.
Begin(o, k) ==
    /\ proc[o] = "up" /\ pc[o] = "idle" /\ k \in queue[o]
    /\ IF o = Latest THEN UNCHANGED budget ELSE Spend("old")
    /\ queue' = [queue EXCEPT ![o] = @ \ {k}]
    /\ \/ cache[o][k] = Gone /\ UNCHANGED <<pc, w>>
       \/ /\ cache[o][k] # Gone
          /\ pc' = [pc EXCEPT ![o] = FirstStep(cache[o][k])]
          /\ w' = [w EXCEPT ![o] = [NoWork EXCEPT
                      !.key = k, !.obj = cache[o][k],
                      !.reason = IF cache[o][k].spec.account THEN "none"
                                 ELSE "AccountMissing"]]
    /\ UNCHANGED <<home, edge, local>>

\* Any other error of that read: the key is tried again.
ReadFails(o, k) ==
    /\ proc[o] = "up" /\ pc[o] = "idle" /\ k \in queue[o]
    /\ Fault("read")
    /\ UNCHANGED <<home, edge, inside>>

\* Mutation: the answer is dropped, the copy keeps its resourceVersion.
NotRefreshed(k) == [kd'[k] EXCEPT !.rv = kd[k].rv]

\* The copy after an accepted Update: the client decodes the answer into it.
Refreshed(k) == kd'[k]

AddFinalizer(o) ==
    LET k == w[o].key
        new == [w[o].obj EXCEPT !.fins = @ \cup {Ours}]
    IN  /\ pc[o] = "addFinalizer"
        /\ \/ /\ Locked(k, w[o].obj)
              /\ Store(k, Updated(k, new))
              /\ Step(o, "getCluster", [w[o] EXCEPT !.obj = Refreshed(k)])
              /\ UNCHANGED budget
           \/ /\ \/ ~Locked(k, w[o].obj) /\ UNCHANGED budget
                 \/ Fault("home")
              /\ Requeue(o)
              /\ UNCHANGED <<kd, rv>>
        /\ UNCHANGED <<secret, edge, local>>

\* Mutation: one handle for all Secrets.
AnyHandle(o, s) ==
    IF \E t \in Secrets : clusters[o][t] # NoCluster
    THEN clusters[o][CHOOSE t \in Secrets : clusters[o][t] # NoCluster]
    ELSE known[o][s]

\* The provider's handle, made on first use and kept for the life of the
\* process.  The provider reads the Secret through the home manager's client,
\* that is from its cache.
HandleFor(o, s) == IF clusters[o][s] # NoCluster THEN clusters[o][s] ELSE known[o][s]

\* mgr.GetCluster.
Lookup(o, found, missing) ==
    LET s == ResolveTarget(w[o].obj.spec)
        made == clusters[o][s] # NoCluster
        c == HandleFor(o, s)
    IN  \/ /\ c # NoCluster
           /\ clusters' = [clusters EXCEPT ![o][s] = c]
           /\ Step(o, found, [w[o] EXCEPT !.cluster = c])
           /\ UNCHANGED budget
        \/ /\ ~made
           /\ \/ known[o][s] = NoCluster /\ UNCHANGED budget
              \/ known[o][s] # NoCluster /\ Fault("secret")
           /\ missing
           /\ UNCHANGED clusters

GetCluster(o) ==
    /\ pc[o] = "getCluster"
    /\ Lookup(o, "nsGet", Report(o, "EdgeUnavailable"))
    /\ UNCHANGED <<home, edge, proc, cache, known>>

\* rcedEnsureNamespace: a failure is retried without a word in the status.
NsGet(o) ==
    /\ pc[o] = "nsGet"
    /\ \/ Answers(o) /\ Goto(o, IF At(o).ns = "absent" THEN "nsCreate" ELSE "history")
       \/ CallFails(o, "namespace") /\ Requeue(o)
    /\ UNCHANGED <<home, edge, local>>

NsCreate(o) ==
    /\ pc[o] = "nsCreate"
    /\ \/ /\ Answers(o) /\ At(o).ns = "absent"
          /\ Set(o, [At(o) EXCEPT !.ns = "active"])
          /\ Goto(o, "history")
       \/ /\ \/ Answers(o) /\ At(o).ns # "absent"
             \/ CallFails(o, "namespace")
          /\ Requeue(o)
          /\ UNCHANGED edge
    /\ UNCHANGED <<home, local>>

-----------------------------------------------------------------------------
(* rcedCheckAndHeal.                                                        *)

Repair(o) == Step(o, "chart", [w[o] EXCEPT !.repair = TRUE])

\* Any error of the history query is taken for a missing release.
History(o) ==
    /\ pc[o] = "history"
    /\ \/ Answers(o) /\ (IF At(o).rel = "none" THEN Repair(o) ELSE Goto(o, "getRelease"))
       \/ CallFails(o, "history") /\ Repair(o)
    /\ UNCHANGED <<home, edge, local>>

\* get.Run: the release as it is now, for its status and its manifest.
GetRelease(o) ==
    /\ pc[o] = "getRelease"
    /\ \/ /\ Answers(o) /\ At(o).rel # "none"
          /\ IF At(o).rel = "uninstalled" THEN Repair(o)
             ELSE Step(o, "check", [w[o] EXCEPT !.todo = Checked])
       \/ /\ \/ Answers(o) /\ At(o).rel = "none"
             \/ CallFails(o, "inspect")
          /\ Report(o, "HealthCheckFailed")
    /\ UNCHANGED <<home, edge, local>>

\* One object of the manifest: it is missing if the API server says so; one that
\* it does not tell about counts as present.
CheckOne(o, r) ==
    LET left == w[o].todo \ {r}
        next == IF left = {} THEN "chart" ELSE "check"
    IN  /\ pc[o] = "check" /\ r \in w[o].todo
        /\ \/ /\ Answers(o) /\ At(o).res[r] = NoChart
              /\ Step(o, next, [w[o] EXCEPT !.todo = left, !.repair = TRUE])
           \/ /\ \/ Answers(o) /\ At(o).res[r] # NoChart
                 \/ CallFails(o, "inspect")
              /\ Step(o, next, [w[o] EXCEPT !.todo = left])
        /\ UNCHANGED <<home, edge, local>>

-----------------------------------------------------------------------------
(* deployHelmChart, called to repair or to converge.                        *)

DeployFailed(o) == Report(o, IF w[o].repair THEN "HealthCheckFailed" ELSE "HelmFailed")
DeployDone(o) == IF w[o].repair THEN Report(o, "RepairTriggered") ELSE Goto(o, "health")

FetchChart(o) ==
    /\ pc[o] = "chart"
    /\ \/ Goto(o, "chooseOp") /\ UNCHANGED budget
       \/ Fault("chart") /\ DeployFailed(o)
    /\ UNCHANGED <<home, edge, local>>

\* Mutation: the history is not looked at.
AlwaysInstall(site) == "install"

HelmOp(site) == IF site.rel = "none" THEN "install" ELSE "upgrade"

ChooseOp(o) ==
    /\ pc[o] = "chooseOp"
    /\ \/ Answers(o) /\ Goto(o, HelmOp(At(o)))
       \/ CallFails(o, "history") /\ Goto(o, "install")
    /\ UNCHANGED <<home, edge, local>>

\* Helm writes a pending release record, then applies the manifest.
Start(o, l, allowed) ==
    /\ pc[o] = l
    /\ \/ /\ Answers(o) /\ allowed
          /\ Set(o, Recorded(At(o), "pending"))
          /\ Step(o, "apply", [w[o] EXCEPT !.todo = Resources, !.op = l])
       \/ /\ \/ Answers(o) /\ ~allowed
             \/ CallFails(o, "helm")
          /\ DeployFailed(o)
          /\ UNCHANGED edge
    /\ UNCHANGED <<home, local>>

Install(o) == Start(o, "install", w[o].cluster \in Edges /\ Installable(At(o)))
Upgrade(o) == Start(o, "upgrade", w[o].cluster \in Edges /\ Upgradable(At(o)))

ApplyOne(o, r) ==
    /\ pc[o] = "apply" /\ r \in w[o].todo
    /\ Answers(o) /\ Accepts(At(o), r)
    /\ Set(o, Applied(At(o), r, ChartOf[o]))
    /\ Step(o, "apply", [w[o] EXCEPT !.todo = @ \ {r}])
    /\ UNCHANGED <<home, local>>

ApplyFails(o) ==
    /\ pc[o] = "apply" /\ w[o].todo # {}
    /\ \/ Answers(o) /\ \E r \in w[o].todo : ~Accepts(At(o), r)
       \/ CallFails(o, "helm")
    /\ Step(o, "fail", [w[o] EXCEPT !.todo = {}])
    /\ UNCHANGED <<home, edge, local>>

\* Helm's failRelease: that the record cannot be written either is ignored.
FailRecord(o) ==
    /\ pc[o] = "fail"
    /\ \/ /\ Answers(o)
          /\ Set(o, IF At(o).rel = "none" THEN At(o) ELSE Recorded(At(o), "failed"))
       \/ CallFails(o, "record") /\ UNCHANGED edge
    /\ DeployFailed(o)
    /\ UNCHANGED <<home, local>>

\* What becomes of an operation whose record stays pending: Helm only logs that
\* at the end of an install, and returns it at the end of an upgrade.
Unrecorded(o) == IF w[o].op = "upgrade" THEN DeployFailed(o) ELSE DeployDone(o)

\* The record of the revision is closed, unless that call fails, or somebody has
\* removed the record.
CloseRecord(o) ==
    /\ pc[o] = "apply" /\ w[o].todo = {}
    /\ \/ /\ Answers(o) /\ At(o).rel # "none"
          /\ Set(o, Recorded(At(o), "deployed"))
          /\ DeployDone(o)
       \/ /\ \/ Answers(o) /\ At(o).rel = "none"
             \/ CallFails(o, "record")
          /\ Unrecorded(o)
          /\ UNCHANGED edge
    /\ UNCHANGED <<home, local>>

\* rcedNamespaceWorkloadHealthy: a failed list is "not healthy once".
Health(o) ==
    /\ pc[o] = "health"
    /\ \/ Answers(o) /\ Report(o, IF Healthy(At(o)) THEN "Deployed" ELSE "NotReady")
       \/ CallFails(o, "health") /\ Report(o, "NotReady")
    /\ UNCHANGED <<home, edge, local>>

\* Mutation: the phase is reported as the reason.
PhaseAsReason(o, obj, reason) ==
    [reason |-> IF reason = "Deployed" THEN "Ready" ELSE reason, obs |-> obj.gen,
     chart |-> IF reason = "Deployed" THEN ChartOf[o] ELSE obj.status.chart]

\* The status a reconcile of obj with this outcome writes.
Outcome(o, obj, reason) ==
    [reason |-> reason, obs |-> obj.gen,
     chart |-> IF reason = "Deployed" THEN ChartOf[o] ELSE obj.status.chart]

\* Status().Update, its error ignored; every path ends in RequeueAfter.
WriteStatus(o) ==
    LET k == w[o].key
    IN  /\ pc[o] = "status"
        /\ \/ /\ Locked(k, w[o].obj)
              /\ Store(k, StatusUpdated(k, Outcome(o, w[o].obj, w[o].reason)))
              /\ UNCHANGED budget
           \/ /\ \/ ~Locked(k, w[o].obj) /\ UNCHANGED budget
                 \/ Fault("home")
              /\ UNCHANGED <<kd, rv>>
        /\ Requeue(o)
        /\ UNCHANGED <<secret, edge, local>>

-----------------------------------------------------------------------------
(* rcedHandleDelete: every failure on the edge is logged and passed over.   *)

\* Mutation: deletion waits for an edge cluster.
AwaitEdge(o) == Requeue(o)

\* No handle: nothing on the edge is cleaned up.
SkipEdge(o) == Goto(o, "removeFinalizer")

DelCluster(o) ==
    /\ pc[o] = "delCluster"
    /\ Lookup(o, "delHistory", SkipEdge(o))
    /\ UNCHANGED <<home, edge, proc, cache, known>>

\* uninstallHelmChart: any error of the history query means nothing to do.
DelHistory(o) ==
    /\ pc[o] = "delHistory"
    /\ \/ /\ Answers(o)
          /\ Goto(o, IF At(o).rel = "none" THEN "delNamespace" ELSE "uninstall")
       \/ CallFails(o, "uninstall") /\ Goto(o, "delNamespace")
    /\ UNCHANGED <<home, edge, local>>

\* Helm reads the record and marks it, and goes on if it cannot be marked.  A
\* release uninstalled with its history kept is only purged.
Uninstall(o) ==
    /\ pc[o] = "uninstall"
    /\ \/ /\ w[o].cluster \in Edges /\ At(o).rel \notin {"none", "uninstalled"}
          /\ \/ Answers(o) /\ Set(o, Recorded(At(o), "uninstalling"))
             \/ CallFails(o, "uninstall") /\ UNCHANGED edge
          /\ Step(o, "remove", [w[o] EXCEPT !.todo = Resources])
       \/ /\ Answers(o) /\ At(o).rel \in {"none", "uninstalled"}
          /\ Set(o, Recorded(At(o), "none"))
          /\ Goto(o, "delNamespace")
       \/ /\ CallFails(o, "uninstall")
          /\ Goto(o, "delNamespace")
          /\ UNCHANGED edge
    /\ UNCHANGED <<home, local>>

RemoveOne(o, r) ==
    /\ pc[o] = "remove" /\ r \in w[o].todo
    /\ Answers(o)
    /\ Set(o, Without(At(o), {r}))
    /\ Step(o, "remove", [w[o] EXCEPT !.todo = @ \ {r}])
    /\ UNCHANGED <<home, local>>

\* KeepHistory is off: the record goes last.
UninstallEnd(o) ==
    /\ pc[o] = "remove" /\ w[o].todo = {}
    /\ Answers(o)
    /\ Set(o, Recorded(At(o), "none"))
    /\ Goto(o, "delNamespace")
    /\ UNCHANGED <<home, local>>

UninstallFails(o) ==
    /\ pc[o] = "remove"
    /\ CallFails(o, "uninstall")
    /\ Step(o, "delNamespace", [w[o] EXCEPT !.todo = {}])
    /\ UNCHANGED <<home, edge, local>>

DelNamespace(o) ==
    /\ pc[o] = "delNamespace"
    /\ \/ /\ Answers(o)
          /\ Set(o, [At(o) EXCEPT !.ns = IF @ = "absent" THEN @ ELSE "terminating"])
       \/ CallFails(o, "delNamespace") /\ UNCHANGED edge
    /\ Goto(o, "removeFinalizer")
    /\ UNCHANGED <<home, local>>

\* The only end of a reconcile, apart from an object that is gone, that does
\* not ask for another.
RemoveFinalizer(o) ==
    LET k == w[o].key
        new == [w[o].obj EXCEPT !.fins = @ \ {Ours}]
    IN  /\ pc[o] = "removeFinalizer"
        /\ \/ /\ Locked(k, w[o].obj)
              /\ Store(k, Updated(k, new))
              /\ Return(o, queue[o])
              /\ UNCHANGED budget
           \/ /\ \/ ~Locked(k, w[o].obj) /\ UNCHANGED budget
                 \/ Fault("home")
              /\ Requeue(o)
              /\ UNCHANGED <<kd, rv>>
        /\ UNCHANGED <<secret, edge, local>>

Call(o) ==
    \/ AddFinalizer(o) \/ GetCluster(o) \/ NsGet(o) \/ NsCreate(o)
    \/ History(o) \/ GetRelease(o) \/ FetchChart(o) \/ ChooseOp(o)
    \/ Install(o) \/ Upgrade(o)
    \/ (\E r \in Resources : CheckOne(o, r) \/ ApplyOne(o, r) \/ RemoveOne(o, r))
    \/ ApplyFails(o) \/ FailRecord(o) \/ CloseRecord(o) \/ Health(o) \/ WriteStatus(o)
    \/ DelCluster(o) \/ DelHistory(o) \/ Uninstall(o)
    \/ UninstallEnd(o) \/ UninstallFails(o) \/ DelNamespace(o)
    \/ RemoveFinalizer(o)

-----------------------------------------------------------------------------
(* The process around the worker.                                           *)

\* Mutation: only later events are queued.
NothingListed == {}

Listed == {k \in KD : kd[k] # Gone}

\* A Secret outside the watched namespaces cannot be read.
Readable(s) == s[1] \in Watched

\* The informers' initial lists fill the caches, and with them the queue; the
\* provider starts empty.  An old process that is to reconcile nothing more does
\* not matter to anybody.
Launch(o) ==
    /\ proc[o] = "down"
    /\ o = Latest \/ budget["old"] > 0
    /\ proc' = [proc EXCEPT ![o] = "up"]
    /\ cache' = [cache EXCEPT ![o] = kd]
    /\ known' = [known EXCEPT ![o] =
                   [s \in Secrets |-> IF Readable(s) THEN secret[s] ELSE NoCluster]]
    /\ queue' = [queue EXCEPT ![o] = Listed]
    /\ UNCHANGED <<home, edge, clusters, pc, w, budget>>

\* A watch event: every change of an object, its deletion included, is queued.
Deliver(o, k) ==
    /\ proc[o] = "up" /\ cache[o][k] # kd[k]
    /\ cache' = [cache EXCEPT ![o][k] = kd[k]]
    /\ queue' = [queue EXCEPT ![o] = @ \cup {k}]
    /\ UNCHANGED <<home, edge, proc, known, clusters, pc, w, budget>>

\* Secrets are watched too, but no key is queued for them.
DeliverSecret(o, s) ==
    /\ proc[o] = "up" /\ Readable(s) /\ known[o][s] # secret[s]
    /\ known' = [known EXCEPT ![o][s] = secret[s]]
    /\ UNCHANGED <<home, edge, proc, cache, queue, clusters, pc, w, budget>>

Stop(o, state) ==
    /\ proc[o] = "up"
    /\ GracefulStop => pc[o] \notin InHelm
    /\ proc' = [proc EXCEPT ![o] = state]
    /\ cache' = [cache EXCEPT ![o] = [k \in KD |-> Gone]]
    /\ known' = [known EXCEPT ![o] = NoHandles]
    /\ queue' = [queue EXCEPT ![o] = {}]
    /\ clusters' = [clusters EXCEPT ![o] = NoHandles]
    /\ pc' = [pc EXCEPT ![o] = "idle"]
    /\ w' = [w EXCEPT ![o] = NoWork]
    /\ UNCHANGED <<home, edge>>

Crash(o) == Stop(o, "down") /\ Spend("crash")

\* The Deployment's rolling update: the old pod goes once the new one is up.
Retire(o) ==
    /\ o # Latest /\ proc[Latest] = "up"
    /\ Stop(o, "retired") /\ UNCHANGED budget

-----------------------------------------------------------------------------
(* Everybody else, as often as the budgets allow.                           *)

Users ==
    /\ \/ Spend("create") /\ \E k \in KD, spec \in Specs : Create(k, spec)
       \/ Spend("edit") /\ \E k \in KD, spec \in Specs : Edit(k, spec)
       \/ Spend("delete") /\ \E k \in KD : Delete(k)
       \/ Spend("foreign") /\ \E k \in KD : ToggleForeign(k)
       \/ Spend("rotate") /\ \E s \in Secrets, c \in Clusters \cup {NoCluster} :
                                RotateSecret(s, c)
    /\ UNCHANGED <<edge, inside>>

PodsRoll(e, n) == Rollout(e, n) /\ UNCHANGED <<home, inside, budget>>
NamespaceEnds(e, n) == TerminateNs(e, n) /\ UNCHANGED <<home, inside, budget>>

Tampering(e, n) ==
    /\ \/ Spend("drift") /\ Drift(e, n)
       \/ Spend("keep") /\ UninstallKeepingHistory(e, n)
    /\ UNCHANGED <<home, inside>>

Worker(o) == Call(o) \/ \E k \in KD : Begin(o, k) \/ ReadFails(o, k)

Process(o) ==
    \/ Launch(o) \/ Crash(o) \/ Retire(o)
    \/ \E k \in KD : Deliver(o, k)
    \/ \E s \in Secrets : DeliverSecret(o, s)

Next ==
    \/ \E o \in Operators : Worker(o) \/ Process(o)
    \/ Users
    \/ \E e \in Edges, n \in Names :
          PodsRoll(e, n) \/ NamespaceEnds(e, n) \/ Tampering(e, n)

Spec == Init /\ [][Next]_vars

\* What keeps moving: the worker and the informers of the process that stays,
\* every key of its workqueue in turn (the queue is first-in first-out, so a
\* key cannot be passed over for ever), the kubelet that restarts it, the
\* rolling update, and the edge's own controllers.  Users, tampering, faults
\* and crashes need not happen.  An old process need only finish its calls.
Fairness ==
    /\ WF_vars(Launch(Latest))
    /\ \A o \in Operators : WF_vars(Call(o)) /\ WF_vars(Retire(o))
    /\ \A k \in KD : WF_vars(Deliver(Latest, k)) /\ SF_vars(Begin(Latest, k))
    /\ \A s \in Secrets : WF_vars(DeliverSecret(Latest, s))
    /\ \A e \in Edges, n \in Names :
          WF_vars(PodsRoll(e, n)) /\ WF_vars(NamespaceEnds(e, n))

FairSpec == Spec /\ Fairness

=============================================================================
