-------------------------- MODULE ReconcilerProofs --------------------------
(***************************************************************************)
(* Proofs about Reconciler, for any number of operator processes, objects, *)
(* edge clusters, charts, faults, crashes and edits.                       *)
(***************************************************************************)
EXTENDS OperatorProperties, TLAPS

\* What ties a worker to its place: an idle one carries nothing, a busy one an
\* object, and one that cleans up an object that is being deleted.
DeletePCs == {"delCluster", "delHistory", "uninstall", "remove",
              "delNamespace", "removeFinalizer"}

WorkOK ==
    \A o \in Operators :
        /\ pc[o] = "idle" => w[o] = NoWork
        /\ pc[o] # "idle" => w[o].key \in KD /\ w[o].obj \in Object
        /\ pc[o] \in DeletePCs => w[o].obj.deleting

LocalTyped ==
    /\ proc \in [Operators -> {"down", "up", "retired"}]
    /\ cache \in [Operators -> [KD -> Object \cup {Gone}]]
    /\ known \in [Operators -> [Secrets -> Clusters \cup {NoCluster}]]
    /\ clusters \in [Operators -> [Secrets -> Clusters \cup {NoCluster}]]

WorkerTyped ==
    /\ pc \in [Operators -> Labels]
    /\ w \in [Operators -> Work]
    /\ queue \in [Operators -> SUBSET KD]
    /\ WorkOK

BudgetTyped == budget \in [Kinds -> Nat]

\* TypeOK with WorkOK, in the parts that steps leave alone together.
TypeInv == HomeTypeOK /\ EdgeTypeOK /\ LocalTyped /\ WorkerTyped /\ BudgetTyped

-----------------------------------------------------------------------------
(* What the helper operators do to the types.                               *)

\* A busy worker that goes on with the same object stays well typed.
LEMMA StepTyped ==
    ASSUME WorkerTyped, NEW o \in Operators, NEW l \in Labels \ {"idle"},
           NEW work \in Work, work.key \in KD, work.obj \in Object,
           l \in DeletePCs => work.obj.deleting,
           Step(o, l, work)
    PROVE  WorkerTyped'
  BY DEF Step, WorkerTyped, WorkOK

\* A busy worker that goes on with the work as it was stays well typed.
LEMMA GotoTyped ==
    ASSUME WorkerTyped, NEW o \in Operators, pc[o] # "idle",
           NEW l \in Labels \ {"idle"},
           l \in DeletePCs => w[o].obj.deleting,
           Goto(o, l)
    PROVE  WorkerTyped'
  BY StepTyped DEF Goto, WorkerTyped, WorkOK

\* Reporting a reason leads to the status update.
LEMMA ReportTyped ==
    ASSUME WorkerTyped, NEW o \in Operators, pc[o] # "idle",
           NEW reason \in Reasons, Report(o, reason)
    PROVE  WorkerTyped'
<1> DEFINE work == [w[o] EXCEPT !.reason = reason]
<1>1. work \in Work /\ work.key \in KD /\ work.obj \in Object
  BY DEF WorkerTyped, WorkOK, Work
<1>2. "status" \in Labels \ {"idle"} /\ "status" \notin DeletePCs
  BY DEF Labels, DeletePCs
<1>3. Step(o, "status", work)
  BY DEF Report
<1> QED
  BY <1>1, <1>2, <1>3, StepTyped

\* A worker that returns is idle and carries nothing.
LEMMA ReturnTyped ==
    ASSUME WorkerTyped, NEW o \in Operators, NEW keys \in SUBSET KD, Return(o, keys)
    PROVE  WorkerTyped'
<1>1. NoWork \in Work
  BY DEF NoWork, Work, Reasons
<1>2. "idle" \in Labels /\ "idle" \notin DeletePCs
  BY DEF Labels, DeletePCs
<1> QED
  BY <1>1, <1>2 DEF Return, WorkerTyped, WorkOK

\* A worker that returns with RequeueAfter puts back a key it may have.
LEMMA RequeueTyped ==
    ASSUME WorkerTyped, NEW o \in Operators, pc[o] # "idle", Requeue(o)
    PROVE  WorkerTyped'
<1>1. After(queue[o], w[o].key) \in SUBSET KD
  BY DEF After, WorkerTyped, WorkOK
<1> QED
  BY <1>1, ReturnTyped DEF Requeue

\* The API server stores objects as objects.
LEMMA StoreTyped ==
    ASSUME HomeTypeOK, NEW k \in KD, NEW new \in Object, Store(k, new), UNCHANGED secret
    PROVE  HomeTypeOK'
<1>1. rv[k] + 1 \in Nat
  BY DEF HomeTypeOK
<1>2. [new EXCEPT !.rv = rv[k] + 1] \in Object
  BY <1>1 DEF Object
<1> QED
  BY <1>1, <1>2 DEF Store, HomeTypeOK

\* client.Update makes an object out of two.
LEMMA UpdatedTyped ==
    ASSUME HomeTypeOK, NEW k \in KD, kd[k] # Gone, NEW obj \in Object
    PROVE  Updated(k, obj) \in Object
<1>1. kd[k] \in Object
  BY DEF HomeTypeOK
<1>2. kd[k].gen + 1 \in Nat /\ obj.spec \in KDSpec /\ obj.fins \in SUBSET Finalizers
  BY <1>1 DEF Object
<1> QED
  BY <1>1, <1>2 DEF Updated, Object

\* A budget that is spent from is still a budget.
LEMMA SpendTyped ==
    ASSUME BudgetTyped, NEW kind \in Kinds, Spend(kind)
    PROVE  BudgetTyped'
  BY DEF Spend, BudgetTyped

\* A failing call spends from the budget of faults.
LEMMA FaultTyped ==
    ASSUME BudgetTyped, NEW call, Fault(call)
    PROVE  BudgetTyped'
  BY SpendTyped DEF Fault, Kinds

\* A call to the edge, answered or not, keeps the budgets typed.
LEMMA CallTyped ==
    ASSUME BudgetTyped, NEW o, NEW call, Answers(o) \/ CallFails(o, call)
    PROVE  BudgetTyped'
  BY FaultTyped DEF Answers, CallFails, BudgetTyped

\* Replacing one site by a site keeps the edge clusters typed.
LEMMA BecomesTyped ==
    ASSUME EdgeTypeOK, NEW e \in Edges, NEW n \in Names, NEW site \in Site,
           Becomes(e, n, site)
    PROVE  EdgeTypeOK'
  BY DEF Becomes, EdgeTypeOK

\* The site of a busy worker whose cluster answers.
LEMMA AtTyped ==
    ASSUME EdgeTypeOK, WorkerTyped, NEW o \in Operators, pc[o] # "idle",
           w[o].cluster \in Edges
    PROVE  /\ At(o) \in Site
           /\ \A site \in Site : Set(o, site) => EdgeTypeOK'
<1>1. NameOf[w[o].key] \in Names
  BY OperatorAssumption DEF WorkerTyped, WorkOK
<1> QED
  BY <1>1, BecomesTyped DEF At, Set, EdgeTypeOK

\* The ways a site changes.
LEMMA SitesTyped ==
    ASSUME NEW site \in Site
    PROVE  /\ \A status \in RelStatus : Recorded(site, status) \in Site
           /\ \A r \in Resources, c \in Charts : Applied(site, r, c) \in Site
           /\ \A R : Without(site, R) \in Site
           /\ \A x \in {"absent", "active", "terminating"} :
                 [site EXCEPT !.ns = x] \in Site
           /\ \A c \in Charts \cup {NoChart} : [site EXCEPT !.pods = c] \in Site
           /\ site.res[Workload] \in Charts \cup {NoChart}
           /\ Wiped(site) \in Site
<1>1. \A status \in RelStatus : Recorded(site, status) \in Site
  BY DEF Recorded, Site
<1>2. \A r \in Resources, c \in Charts : Applied(site, r, c) \in Site
  BY DEF Applied, Site
<1>3. \A s \in Site : \A R : Without(s, R) \in Site
  BY DEF Without, Site
<1>4. \A s \in Site, x \in {"absent", "active", "terminating"} :
         [s EXCEPT !.ns = x] \in Site
  BY DEF Site
<1>5. /\ \A c \in Charts \cup {NoChart} : [site EXCEPT !.pods = c] \in Site
      /\ site.res[Workload] \in Charts \cup {NoChart}
  BY EdgeAssumption DEF Site
<1>6. Wiped(site) \in Site
  <2>1. \A s \in Site : [s EXCEPT !.ns = "absent", !.rel = "none"] \in Site
    BY DEF Site, RelStatus
  <2> QED
    BY <1>3, <2>1 DEF Wiped
<1> QED
  BY <1>1, <1>2, <1>3, <1>4, <1>5, <1>6

\* Calls that leave the home cluster and the rest of the process alone.
LEMMA Untouched ==
    ASSUME TypeInv, UNCHANGED <<home, local>>
    PROVE  HomeTypeOK' /\ LocalTyped'
  BY DEF TypeInv, home, local, HomeTypeOK, LocalTyped

-----------------------------------------------------------------------------
(* Each step keeps the types.                                               *)

\* Taking a key off the queue: the cache holds objects, and FirstStep leads to
\* the clean-up only with an object that is being deleted.
LEMMA BeginTyped ==
    ASSUME TypeInv, NEW o \in Operators, NEW k \in KD, Begin(o, k)
    PROVE  TypeInv'
<1>1. HomeTypeOK' /\ LocalTyped' /\ EdgeTypeOK'
  BY Untouched DEF Begin, TypeInv, EdgeTypeOK
<1>2. BudgetTyped'
  BY SpendTyped DEF Begin, TypeInv, Kinds, BudgetTyped
<1>3. WorkerTyped'
  <2>1. CASE cache[o][k] = Gone /\ UNCHANGED <<pc, w>>
    BY <2>1 DEF Begin, TypeInv, WorkerTyped, WorkOK
  <2>2. CASE cache[o][k] # Gone
    <3> DEFINE obj == cache[o][k]
               new == [NoWork EXCEPT !.key = k, !.obj = obj,
                         !.reason = IF obj.spec.account THEN "none" ELSE "AccountMissing"]
    <3>1. obj \in Object
      BY <2>2 DEF TypeInv, LocalTyped
    <3>2. new \in Work /\ new.key = k /\ new.obj = obj
      BY <3>1 DEF NoWork, Work, Reasons
    <3>3. /\ FirstStep(obj) \in Labels /\ FirstStep(obj) # "idle"
          /\ FirstStep(obj) \in DeletePCs => obj.deleting
      BY DEF FirstStep, Labels, DeletePCs
    <3>4. /\ pc' = [pc EXCEPT ![o] = FirstStep(obj)]
          /\ w' = [w EXCEPT ![o] = new]
          /\ queue' = [queue EXCEPT ![o] = @ \ {k}]
      BY <2>2 DEF Begin
    <3>5. obj \in Object /\ k \in KD
      BY <3>1
    <3> HIDE DEF obj, new
    <3> QED
      BY <3>2, <3>3, <3>4, <3>5 DEF TypeInv, WorkerTyped, WorkOK
  <2> QED
    BY <2>1, <2>2 DEF Begin
<1> QED
  BY <1>1, <1>2, <1>3 DEF TypeInv

\* A failed read changes the budget only.
LEMMA ReadFailsTyped ==
    ASSUME TypeInv, NEW o \in Operators, NEW k \in KD, ReadFails(o, k)
    PROVE  TypeInv'
<1>1. BudgetTyped'
  BY FaultTyped DEF ReadFails, TypeInv
<1> QED
  BY <1>1 DEF ReadFails, TypeInv, home, inside, HomeTypeOK, EdgeTypeOK, LocalTyped,
     WorkerTyped, WorkOK

\* The Update that adds the finalizer stores an object, and the copy the worker
\* goes on with is one: with a finalizer it cannot be gone.
LEMMA AddFinalizerTyped ==
    ASSUME TypeInv, NEW o \in Operators, AddFinalizer(o)
    PROVE  TypeInv'
<1> DEFINE k == w[o].key
           new == [w[o].obj EXCEPT !.fins = @ \cup {Ours}]
<1>1. k \in KD /\ w[o].obj \in Object /\ pc[o] # "idle" /\ w[o] \in Work
  BY DEF AddFinalizer, TypeInv, WorkerTyped, WorkOK
<1>2. new \in Object
  <2>1. w[o].obj.fins \cup {Ours} \in SUBSET Finalizers
    BY <1>1 DEF Object, Finalizers
  <2> QED
    BY <1>1, <2>1 DEF Object
<1>3. LocalTyped' /\ EdgeTypeOK'
  BY DEF AddFinalizer, TypeInv, local, LocalTyped, EdgeTypeOK
<1>4. BudgetTyped'
  BY FaultTyped DEF AddFinalizer, TypeInv, BudgetTyped
<1>5. CASE /\ Locked(k, w[o].obj)
           /\ Store(k, Updated(k, new))
           /\ Step(o, "getCluster", [w[o] EXCEPT !.obj = Refreshed(k)])
  <2>1. Updated(k, new) \in Object /\ kd[k] # Gone
    BY <1>1, <1>2, <1>5, UpdatedTyped DEF Locked, TypeInv
  <2>2. HomeTypeOK'
    BY <1>1, <1>5, <2>1, StoreTyped DEF AddFinalizer, TypeInv
  <2>3. kd'[k] \in Object
    <3>1. Updated(k, new).fins = new.fins /\ Ours \in new.fins
      BY <1>1, <1>2, <2>1 DEF Updated, Object, HomeTypeOK, TypeInv
    <3>2. kd'[k] # Gone
      <4>1. rv[k] + 1 \in Nat
        BY <1>1 DEF TypeInv, HomeTypeOK
      <4>2. [Updated(k, new) EXCEPT !.rv = rv[k] + 1] \in Object
        BY <2>1, <4>1 DEF Object
      <4> QED
        BY <1>1, <1>5, <2>1, <3>1, <4>2, GoneAssumption DEF Store, TypeInv, HomeTypeOK
    <3> QED
      BY <2>2, <3>2, <1>1 DEF HomeTypeOK
  <2>4. [w[o] EXCEPT !.obj = Refreshed(k)] \in Work
    BY <1>1, <2>3 DEF Work, Refreshed
  <2>5. WorkerTyped'
    <3>1. "getCluster" \in Labels \ {"idle"} /\ "getCluster" \notin DeletePCs
      BY DEF Labels, DeletePCs
    <3>2. /\ [w[o] EXCEPT !.obj = Refreshed(k)].key \in KD
          /\ [w[o] EXCEPT !.obj = Refreshed(k)].obj \in Object
      BY <1>1, <2>3 DEF Work, Refreshed
    <3> QED
      BY <1>5, <2>4, <3>1, <3>2, StepTyped DEF TypeInv
  <2> QED
    BY <1>3, <1>4, <2>2, <2>5 DEF TypeInv
<1>6. CASE Requeue(o) /\ UNCHANGED <<kd, rv>>
  <2>1. WorkerTyped'
    BY <1>1, <1>6, RequeueTyped DEF TypeInv
  <2>2. HomeTypeOK'
    BY <1>6 DEF AddFinalizer, TypeInv, HomeTypeOK
  <2> QED
    BY <1>3, <1>4, <2>1, <2>2 DEF TypeInv
<1> QED
  BY <1>5, <1>6 DEF AddFinalizer

\* Which worker labels follow.
LEMMA LabelsKnown ==
    /\ Labels \ {"idle"} = {"status", "addFinalizer", "getCluster", "nsGet",
         "nsCreate", "history", "getRelease", "check", "chart", "chooseOp",
         "install", "upgrade", "apply", "fail", "health"} \cup DeletePCs
    /\ DeletePCs \cap {"status", "addFinalizer", "getCluster", "nsGet",
         "nsCreate", "history", "getRelease", "check", "chart", "chooseOp",
         "install", "upgrade", "apply", "fail", "health"} = {}
  BY DEF Labels, DeletePCs

\* Leaving rcedCheckAndHeal keeps the worker typed.
LEMMA RepairTyped ==
    ASSUME WorkerTyped, NEW o \in Operators, pc[o] # "idle", NEW b \in BOOLEAN,
           Step(o, "chart", [w[o] EXCEPT !.repair = b])
    PROVE  WorkerTyped'
<1>1. w[o] \in Work /\ w[o].key \in KD /\ w[o].obj \in Object
  BY DEF WorkerTyped, WorkOK
<1>2. /\ [w[o] EXCEPT !.repair = b] \in Work
      /\ [w[o] EXCEPT !.repair = b].key \in KD
      /\ [w[o] EXCEPT !.repair = b].obj \in Object
  BY <1>1 DEF Work
<1> QED
  BY <1>2, StepTyped, LabelsKnown

\* The steps inside a Helm operation keep the worker typed.
LEMMA TodoTyped ==
    ASSUME WorkerTyped, NEW o \in Operators, pc[o] # "idle",
           NEW l \in Labels \ {"idle"}, l \in DeletePCs => w[o].obj.deleting,
           NEW todo \in SUBSET Resources, NEW op \in {"install", "upgrade"},
           \/ Step(o, l, [w[o] EXCEPT !.todo = todo])
           \/ Step(o, l, [w[o] EXCEPT !.todo = todo, !.repair = TRUE])
           \/ Step(o, l, [w[o] EXCEPT !.todo = todo, !.op = op])
    PROVE  WorkerTyped'
<1> DEFINE a == [w[o] EXCEPT !.todo = todo]
           b == [w[o] EXCEPT !.todo = todo, !.repair = TRUE]
           c == [w[o] EXCEPT !.todo = todo, !.op = op]
<1>1. w[o] \in Work /\ w[o].key \in KD /\ w[o].obj \in Object
  BY DEF WorkerTyped, WorkOK
<1>2. /\ a \in Work /\ a.key = w[o].key /\ a.obj = w[o].obj
      /\ b \in Work /\ b.key = w[o].key /\ b.obj = w[o].obj
      /\ c \in Work /\ c.key = w[o].key /\ c.obj = w[o].obj
  BY <1>1 DEF Work
<1>3. Step(o, l, a) \/ Step(o, l, b) \/ Step(o, l, c)
  OBVIOUS
<1> HIDE DEF a, b, c
<1> QED
  BY <1>1, <1>2, <1>3, StepTyped

\* Either end of deployHelmChart keeps the worker typed.
LEMMA DeployTyped ==
    ASSUME WorkerTyped, NEW o \in Operators, pc[o] # "idle",
           DeployFailed(o) \/ DeployDone(o)
    PROVE  WorkerTyped'
<1>1. {"HealthCheckFailed", "HelmFailed", "RepairTriggered"} \subseteq Reasons
  BY DEF Reasons
<1> QED
  BY <1>1, ReportTyped, GotoTyped, LabelsKnown DEF DeployFailed, DeployDone

\* mgr.GetCluster leaves handles and worker well typed.
LEMMA LookupTyped ==
    ASSUME TypeInv, NEW o \in Operators, pc[o] # "idle",
           NEW l \in Labels \ {"idle"}, l \in DeletePCs => w[o].obj.deleting,
           NEW ACTION A, A => WorkerTyped', Lookup(o, l, A), UNCHANGED <<proc, cache, known>>
    PROVE  LocalTyped' /\ WorkerTyped' /\ BudgetTyped'
<1> DEFINE s == ResolveTarget(w[o].obj.spec)
           c == HandleFor(o, s)
           new == [w[o] EXCEPT !.cluster = c]
<1>1. w[o] \in Work /\ w[o].key \in KD /\ w[o].obj \in Object
  BY DEF TypeInv, WorkerTyped, WorkOK
<1>2. s \in Secrets
  <2>1. w[o].obj.spec \in KDSpec
    BY <1>1 DEF Object
  <2> QED
    BY <2>1, HomeAssumption DEF ResolveTarget, KDSpec, Secrets
<1>3. c \in Clusters \cup {NoCluster}
  BY <1>2 DEF HandleFor, TypeInv, LocalTyped, HomeTypeOK
<1>4. CASE /\ c # NoCluster
           /\ clusters' = [clusters EXCEPT ![o][s] = c]
           /\ Step(o, l, new)
           /\ UNCHANGED budget
  <2>1. new \in Work /\ new.key = w[o].key /\ new.obj = w[o].obj
    BY <1>1, <1>3 DEF Work
  <2>2. Step(o, l, new)
    BY <1>4
  <2>3. LocalTyped'
    BY <1>2, <1>3, <1>4 DEF TypeInv, LocalTyped
  <2>4. BudgetTyped'
    BY <1>4 DEF TypeInv, BudgetTyped
  <2> HIDE DEF new
  <2> QED
    BY <1>1, <2>1, <2>2, <2>3, <2>4, StepTyped DEF TypeInv
<1>5. CASE /\ \/ known[o][s] = NoCluster /\ UNCHANGED budget
              \/ known[o][s] # NoCluster /\ Fault("secret")
           /\ A
           /\ UNCHANGED clusters
  BY <1>5, FaultTyped DEF TypeInv, LocalTyped, BudgetTyped
<1> QED
  BY <1>4, <1>5 DEF Lookup

\* The lookup of the edge cluster for a reconcile keeps the types.
LEMMA GetClusterTyped ==
    ASSUME TypeInv, NEW o \in Operators, GetCluster(o)
    PROVE  TypeInv'
<1>1. pc[o] # "idle" /\ w[o].key \in KD /\ w[o].obj \in Object /\ w[o] \in Work
  BY DEF GetCluster, TypeInv, WorkerTyped, WorkOK
<1>2. HomeTypeOK' /\ EdgeTypeOK'
  BY DEF GetCluster, TypeInv, home, HomeTypeOK, EdgeTypeOK
<1>3. Report(o, "EdgeUnavailable") => WorkerTyped'
  BY <1>1, ReportTyped DEF TypeInv, Reasons
<1>4. LocalTyped' /\ WorkerTyped' /\ BudgetTyped'
  BY <1>1, <1>3, LookupTyped, LabelsKnown DEF GetCluster
<1> QED
  BY <1>2, <1>4 DEF TypeInv

\* The lookup of the edge cluster for a clean-up keeps the types.
LEMMA DelClusterTyped ==
    ASSUME TypeInv, NEW o \in Operators, DelCluster(o)
    PROVE  TypeInv'
<1>1. pc[o] # "idle" /\ w[o].key \in KD /\ w[o].obj \in Object /\ w[o] \in Work
  BY DEF DelCluster, TypeInv, WorkerTyped, WorkOK
<1>2. HomeTypeOK' /\ EdgeTypeOK'
  BY DEF DelCluster, TypeInv, home, HomeTypeOK, EdgeTypeOK
<1>3. w[o].obj.deleting
  BY DEF DelCluster, DeletePCs, TypeInv, WorkerTyped, WorkOK
<1>4. SkipEdge(o) => WorkerTyped'
  BY <1>1, <1>3, GotoTyped DEF SkipEdge, TypeInv, Labels
<1>5. LocalTyped' /\ WorkerTyped' /\ BudgetTyped'
  <2>1. "delHistory" \in Labels \ {"idle"}
    BY DEF Labels
  <2>2. Lookup(o, "delHistory", SkipEdge(o)) /\ UNCHANGED <<proc, cache, known>>
    BY DEF DelCluster
  <2> QED
    BY <1>1, <1>3, <1>4, <2>1, <2>2, LookupTyped
<1> QED
  BY <1>2, <1>5 DEF TypeInv

\* The step NsGet of a worker keeps the types.
LEMMA NsGetTyped ==
    ASSUME TypeInv, NEW o \in Operators, NsGet(o)
    PROVE  TypeInv'
<1>1. pc[o] # "idle" /\ w[o].key \in KD /\ w[o].obj \in Object /\ w[o] \in Work
  BY DEF NsGet, TypeInv, WorkerTyped, WorkOK
<1>2. HomeTypeOK' /\ LocalTyped' /\ EdgeTypeOK' /\ BudgetTyped'
  BY Untouched, CallTyped, FaultTyped DEF NsGet, TypeInv, EdgeTypeOK, BudgetTyped
<1>4. WorkerTyped'
  BY <1>1, GotoTyped, RequeueTyped, LabelsKnown DEF NsGet, TypeInv
<1> QED
  BY <1>2, <1>4 DEF TypeInv

\* The step History of a worker keeps the types.
LEMMA HistoryTyped ==
    ASSUME TypeInv, NEW o \in Operators, History(o)
    PROVE  TypeInv'
<1>1. pc[o] # "idle" /\ w[o].key \in KD /\ w[o].obj \in Object /\ w[o] \in Work
  BY DEF History, TypeInv, WorkerTyped, WorkOK
<1>2. HomeTypeOK' /\ LocalTyped' /\ EdgeTypeOK' /\ BudgetTyped'
  BY Untouched, CallTyped, FaultTyped DEF History, TypeInv, EdgeTypeOK, BudgetTyped
<1>4. WorkerTyped'
  BY <1>1, GotoTyped, RepairTyped, LabelsKnown DEF History, Repair, TypeInv
<1> QED
  BY <1>2, <1>4 DEF TypeInv

\* The step GetRelease of a worker keeps the types.
LEMMA GetReleaseTyped ==
    ASSUME TypeInv, NEW o \in Operators, GetRelease(o)
    PROVE  TypeInv'
<1>1. pc[o] # "idle" /\ w[o].key \in KD /\ w[o].obj \in Object /\ w[o] \in Work
  BY DEF GetRelease, TypeInv, WorkerTyped, WorkOK
<1>2. HomeTypeOK' /\ LocalTyped' /\ EdgeTypeOK' /\ BudgetTyped'
  BY Untouched, CallTyped, FaultTyped DEF GetRelease, TypeInv, EdgeTypeOK, BudgetTyped
<1>3. "HealthCheckFailed" \in Reasons
  BY DEF Reasons
<1>4. Checked \in SUBSET Resources /\ "check" \in Labels \ {"idle"} /\ "check" \notin DeletePCs
  BY EdgeAssumption, LabelsKnown
<1>5. WorkerTyped'
  BY <1>1, <1>3, <1>4, RepairTyped, ReportTyped, TodoTyped DEF GetRelease, Repair, TypeInv
<1> QED
  BY <1>2, <1>5 DEF TypeInv

\* The step CheckOne of a worker keeps the types.
LEMMA CheckOneTyped ==
    ASSUME TypeInv, NEW o \in Operators, NEW r \in Resources, CheckOne(o, r)
    PROVE  TypeInv'
<1> DEFINE left == w[o].todo \ {r}
           next == IF left = {} THEN "chart" ELSE "check"
<1>1. pc[o] # "idle" /\ w[o].key \in KD /\ w[o].obj \in Object /\ w[o] \in Work
  BY DEF CheckOne, TypeInv, WorkerTyped, WorkOK
<1>2. HomeTypeOK' /\ LocalTyped' /\ EdgeTypeOK' /\ BudgetTyped'
  BY Untouched, CallTyped, FaultTyped DEF CheckOne, TypeInv, EdgeTypeOK, BudgetTyped
<1>3. left \in SUBSET Resources
  BY <1>1 DEF Work
<1>4. next \in Labels \ {"idle"} /\ next \notin DeletePCs
  BY LabelsKnown
<1>5. \/ Step(o, next, [w[o] EXCEPT !.todo = left, !.repair = TRUE])
      \/ Step(o, next, [w[o] EXCEPT !.todo = left])
  BY DEF CheckOne
<1> HIDE DEF left, next
<1>6. WorkerTyped'
  BY <1>1, <1>3, <1>4, <1>5, TodoTyped DEF TypeInv
<1> QED
  BY <1>2, <1>6 DEF TypeInv

\* The step FetchChart of a worker keeps the types.
LEMMA FetchChartTyped ==
    ASSUME TypeInv, NEW o \in Operators, FetchChart(o)
    PROVE  TypeInv'
<1>1. pc[o] # "idle" /\ w[o].key \in KD /\ w[o].obj \in Object /\ w[o] \in Work
  BY DEF FetchChart, TypeInv, WorkerTyped, WorkOK
<1>2. HomeTypeOK' /\ LocalTyped' /\ EdgeTypeOK' /\ BudgetTyped'
  BY Untouched, CallTyped, FaultTyped DEF FetchChart, TypeInv, EdgeTypeOK, BudgetTyped
<1>4. WorkerTyped'
  BY <1>1, GotoTyped, DeployTyped, LabelsKnown DEF FetchChart, TypeInv
<1> QED
  BY <1>2, <1>4 DEF TypeInv

\* The step ChooseOp of a worker keeps the types.
LEMMA ChooseOpTyped ==
    ASSUME TypeInv, NEW o \in Operators, ChooseOp(o)
    PROVE  TypeInv'
<1>1. pc[o] # "idle" /\ w[o].key \in KD /\ w[o].obj \in Object /\ w[o] \in Work
  BY DEF ChooseOp, TypeInv, WorkerTyped, WorkOK
<1>2. HomeTypeOK' /\ LocalTyped' /\ EdgeTypeOK' /\ BudgetTyped'
  BY Untouched, CallTyped, FaultTyped DEF ChooseOp, TypeInv, EdgeTypeOK, BudgetTyped
<1>4. WorkerTyped'
  BY <1>1, GotoTyped, LabelsKnown DEF ChooseOp, HelmOp, TypeInv
<1> QED
  BY <1>2, <1>4 DEF TypeInv

\* The step Health of a worker keeps the types.
LEMMA HealthTyped ==
    ASSUME TypeInv, NEW o \in Operators, Health(o)
    PROVE  TypeInv'
<1>1. pc[o] # "idle" /\ w[o].key \in KD /\ w[o].obj \in Object /\ w[o] \in Work
  BY DEF Health, TypeInv, WorkerTyped, WorkOK
<1>2. HomeTypeOK' /\ LocalTyped' /\ EdgeTypeOK' /\ BudgetTyped'
  BY Untouched, CallTyped, FaultTyped DEF Health, TypeInv, EdgeTypeOK, BudgetTyped
<1>3. {"Deployed", "NotReady"} \subseteq Reasons
  BY DEF Reasons
<1>4. WorkerTyped'
  BY <1>1, <1>3, ReportTyped DEF Health, TypeInv
<1> QED
  BY <1>2, <1>4 DEF TypeInv

\* The step DelHistory of a worker keeps the types.
LEMMA DelHistoryTyped ==
    ASSUME TypeInv, NEW o \in Operators, DelHistory(o)
    PROVE  TypeInv'
<1>1. pc[o] # "idle" /\ w[o].key \in KD /\ w[o].obj \in Object /\ w[o] \in Work
  BY DEF DelHistory, TypeInv, WorkerTyped, WorkOK
<1>2. HomeTypeOK' /\ LocalTyped' /\ EdgeTypeOK' /\ BudgetTyped'
  BY Untouched, CallTyped, FaultTyped DEF DelHistory, TypeInv, EdgeTypeOK, BudgetTyped
<1>3. w[o].obj.deleting
  BY DEF DelHistory, DeletePCs, TypeInv, WorkerTyped, WorkOK
<1>4. WorkerTyped'
  BY <1>1, <1>3, GotoTyped, LabelsKnown DEF DelHistory, TypeInv, DeletePCs
<1> QED
  BY <1>2, <1>4 DEF TypeInv

\* The step UninstallFails of a worker keeps the types.
LEMMA UninstallFailsTyped ==
    ASSUME TypeInv, NEW o \in Operators, UninstallFails(o)
    PROVE  TypeInv'
<1>1. pc[o] # "idle" /\ w[o].key \in KD /\ w[o].obj \in Object /\ w[o] \in Work
  BY DEF UninstallFails, TypeInv, WorkerTyped, WorkOK
<1>2. HomeTypeOK' /\ LocalTyped' /\ EdgeTypeOK' /\ BudgetTyped'
  BY Untouched, CallTyped, FaultTyped DEF UninstallFails, TypeInv, EdgeTypeOK, BudgetTyped
<1>3. w[o].obj.deleting
  BY DEF UninstallFails, DeletePCs, TypeInv, WorkerTyped, WorkOK
<1>4. WorkerTyped'
  BY <1>1, <1>3, TodoTyped, LabelsKnown DEF UninstallFails, TypeInv, DeletePCs, Reasons
<1> QED
  BY <1>2, <1>4 DEF TypeInv

\* The step NsCreate of a worker keeps the types.
LEMMA NsCreateTyped ==
    ASSUME TypeInv, NEW o \in Operators, NsCreate(o)
    PROVE  TypeInv'
<1>1. pc[o] # "idle" /\ w[o].key \in KD /\ w[o].obj \in Object /\ w[o] \in Work
  BY DEF NsCreate, TypeInv, WorkerTyped, WorkOK
<1>2. HomeTypeOK' /\ LocalTyped' /\ BudgetTyped'
  BY Untouched, CallTyped, FaultTyped DEF NsCreate, TypeInv, BudgetTyped
<1>3. EdgeTypeOK'
  <2>1. CASE UNCHANGED edge
    BY <2>1 DEF TypeInv, EdgeTypeOK
  <2>2. CASE /\ w[o].cluster \in Edges
             /\ Set(o, [At(o) EXCEPT !.ns = "active"])
    <3>1. At(o) \in Site
      BY <1>1, <2>2, AtTyped DEF TypeInv
    <3>2. [At(o) EXCEPT !.ns = "active"] \in Site
      BY <3>1, SitesTyped
    <3> QED
      BY <1>1, <2>2, <3>2, AtTyped DEF TypeInv
  <2> QED
    BY <2>1, <2>2 DEF NsCreate, Answers
<1>4. WorkerTyped'
  BY <1>1, GotoTyped, RequeueTyped, LabelsKnown DEF NsCreate, TypeInv
<1> QED
  BY <1>2, <1>3, <1>4 DEF TypeInv

\* Install and Upgrade alike.
LEMMA StartTyped ==
    ASSUME TypeInv, NEW o \in Operators, NEW l \in {"install", "upgrade"},
           NEW allowed \in BOOLEAN, Start(o, l, allowed)
    PROVE  TypeInv'
<1>1. pc[o] # "idle" /\ w[o].key \in KD /\ w[o].obj \in Object /\ w[o] \in Work
  BY DEF Start, TypeInv, WorkerTyped, WorkOK
<1>2. HomeTypeOK' /\ LocalTyped' /\ BudgetTyped'
  BY Untouched, CallTyped DEF Start, TypeInv
<1>3. EdgeTypeOK'
  BY <1>1, AtTyped, SitesTyped DEF Start, TypeInv, EdgeTypeOK, Answers, RelStatus
<1>4. WorkerTyped'
  BY <1>1, DeployTyped, TodoTyped, LabelsKnown DEF Start, TypeInv
<1> QED
  BY <1>2, <1>3, <1>4 DEF TypeInv

\* The step ApplyOne of a worker keeps the types.
LEMMA ApplyOneTyped ==
    ASSUME TypeInv, NEW o \in Operators, NEW r \in Resources, ApplyOne(o, r)
    PROVE  TypeInv'
<1>1. pc[o] # "idle" /\ w[o].key \in KD /\ w[o].obj \in Object /\ w[o] \in Work
  BY DEF ApplyOne, TypeInv, WorkerTyped, WorkOK
<1>2. HomeTypeOK' /\ LocalTyped' /\ BudgetTyped'
  BY Untouched, CallTyped, FaultTyped DEF ApplyOne, TypeInv, BudgetTyped
<1>3. EdgeTypeOK'
  <2>1. CASE UNCHANGED edge
    BY <2>1 DEF TypeInv, EdgeTypeOK
  <2>2. CASE w[o].cluster \in Edges
    BY <1>1, <2>2, AtTyped, SitesTyped, OperatorAssumption DEF ApplyOne, TypeInv
  <2> QED
    BY <2>1, <2>2 DEF ApplyOne, Answers
<1>4. WorkerTyped'
  <2>1. w[o].todo \ {r} \in SUBSET Resources
    BY <1>1 DEF Work
  <2> QED
    BY <1>1, <2>1, TodoTyped, LabelsKnown DEF ApplyOne, TypeInv
<1> QED
  BY <1>2, <1>3, <1>4 DEF TypeInv

\* The step CloseRecord of a worker keeps the types.
LEMMA CloseRecordTyped ==
    ASSUME TypeInv, NEW o \in Operators, CloseRecord(o)
    PROVE  TypeInv'
<1>1. pc[o] # "idle" /\ w[o].key \in KD /\ w[o].obj \in Object /\ w[o] \in Work
  BY DEF CloseRecord, TypeInv, WorkerTyped, WorkOK
<1>2. HomeTypeOK' /\ LocalTyped' /\ BudgetTyped'
  BY Untouched, CallTyped, FaultTyped DEF CloseRecord, TypeInv, BudgetTyped
<1>3. EdgeTypeOK'
  <2>1. CASE UNCHANGED edge
    BY <2>1 DEF TypeInv, EdgeTypeOK
  <2>2. CASE w[o].cluster \in Edges
    BY <1>1, <2>2, AtTyped, SitesTyped DEF CloseRecord, TypeInv, RelStatus, EdgeTypeOK
  <2> QED
    BY <2>1, <2>2 DEF CloseRecord, Answers
<1>4. WorkerTyped'
  BY <1>1, DeployTyped DEF CloseRecord, Unrecorded, TypeInv
<1> QED
  BY <1>2, <1>3, <1>4 DEF TypeInv

\* The step ApplyFails of a worker keeps the types.
LEMMA ApplyFailsTyped ==
    ASSUME TypeInv, NEW o \in Operators, ApplyFails(o)
    PROVE  TypeInv'
<1>1. pc[o] # "idle" /\ w[o].key \in KD /\ w[o].obj \in Object /\ w[o] \in Work
  BY DEF ApplyFails, TypeInv, WorkerTyped, WorkOK
<1>2. HomeTypeOK' /\ LocalTyped' /\ EdgeTypeOK' /\ BudgetTyped'
  BY Untouched, CallTyped, FaultTyped DEF ApplyFails, TypeInv, EdgeTypeOK, BudgetTyped
<1>3. WorkerTyped'
  BY <1>1, TodoTyped, LabelsKnown DEF ApplyFails, TypeInv
<1> QED
  BY <1>2, <1>3 DEF TypeInv

\* The step FailRecord of a worker keeps the types.
LEMMA FailRecordTyped ==
    ASSUME TypeInv, NEW o \in Operators, FailRecord(o)
    PROVE  TypeInv'
<1>1. pc[o] # "idle" /\ w[o].key \in KD /\ w[o].obj \in Object /\ w[o] \in Work
  BY DEF FailRecord, TypeInv, WorkerTyped, WorkOK
<1>2. HomeTypeOK' /\ LocalTyped' /\ BudgetTyped'
  BY Untouched, CallTyped, FaultTyped DEF FailRecord, TypeInv, BudgetTyped
<1>3. EdgeTypeOK'
  <2>1. CASE UNCHANGED edge
    BY <2>1 DEF TypeInv, EdgeTypeOK
  <2>2. CASE /\ w[o].cluster \in Edges
             /\ Set(o, IF At(o).rel = "none" THEN At(o) ELSE Recorded(At(o), "failed"))
    BY <1>1, <2>2, AtTyped, SitesTyped DEF TypeInv, RelStatus
  <2> QED
    BY <2>1, <2>2 DEF FailRecord, Answers
<1>4. WorkerTyped'
  BY <1>1, DeployTyped DEF FailRecord, TypeInv
<1> QED
  BY <1>2, <1>3, <1>4 DEF TypeInv

\* The step Uninstall of a worker keeps the types.
LEMMA UninstallTyped ==
    ASSUME TypeInv, NEW o \in Operators, Uninstall(o)
    PROVE  TypeInv'
<1>1. pc[o] # "idle" /\ w[o].key \in KD /\ w[o].obj \in Object /\ w[o] \in Work
  BY DEF Uninstall, TypeInv, WorkerTyped, WorkOK
<1>2. HomeTypeOK' /\ LocalTyped' /\ BudgetTyped'
  BY Untouched, CallTyped, FaultTyped DEF Uninstall, TypeInv, BudgetTyped
<1>3. EdgeTypeOK'
  <2>1. CASE UNCHANGED edge
    BY <2>1 DEF TypeInv, EdgeTypeOK
  <2>2. CASE w[o].cluster \in Edges
    BY <1>1, <2>2, AtTyped, SitesTyped DEF Uninstall, TypeInv, RelStatus, EdgeTypeOK
  <2> QED
    BY <2>1, <2>2 DEF Uninstall, Answers
<1>5. w[o].obj.deleting
  BY DEF Uninstall, DeletePCs, TypeInv, WorkerTyped, WorkOK
<1>4. WorkerTyped'
  BY <1>1, <1>5, GotoTyped, TodoTyped, LabelsKnown DEF Uninstall, TypeInv, DeletePCs, Reasons
<1> QED
  BY <1>2, <1>3, <1>4 DEF TypeInv

\* The step RemoveOne of a worker keeps the types.
LEMMA RemoveOneTyped ==
    ASSUME TypeInv, NEW o \in Operators, NEW r \in Resources, RemoveOne(o, r)
    PROVE  TypeInv'
<1>1. pc[o] # "idle" /\ w[o].key \in KD /\ w[o].obj \in Object /\ w[o] \in Work
  BY DEF RemoveOne, TypeInv, WorkerTyped, WorkOK
<1>2. HomeTypeOK' /\ LocalTyped' /\ BudgetTyped'
  BY Untouched, CallTyped, FaultTyped DEF RemoveOne, TypeInv, BudgetTyped
<1>3. EdgeTypeOK'
  <2>1. CASE UNCHANGED edge
    BY <2>1 DEF TypeInv, EdgeTypeOK
  <2>2. CASE w[o].cluster \in Edges
    BY <1>1, <2>2, AtTyped, SitesTyped DEF RemoveOne, TypeInv
  <2> QED
    BY <2>1, <2>2 DEF RemoveOne, Answers
<1>5. w[o].obj.deleting
  BY DEF RemoveOne, DeletePCs, TypeInv, WorkerTyped, WorkOK
<1>4. WorkerTyped'
  <2>1. w[o].todo \ {r} \in SUBSET Resources
    BY <1>1 DEF Work
  <2> QED
    BY <1>1, <1>5, <2>1, TodoTyped, LabelsKnown DEF RemoveOne, TypeInv, DeletePCs, Reasons
<1> QED
  BY <1>2, <1>3, <1>4 DEF TypeInv

\* The step UninstallEnd of a worker keeps the types.
LEMMA UninstallEndTyped ==
    ASSUME TypeInv, NEW o \in Operators, UninstallEnd(o)
    PROVE  TypeInv'
<1>1. pc[o] # "idle" /\ w[o].key \in KD /\ w[o].obj \in Object /\ w[o] \in Work
  BY DEF UninstallEnd, TypeInv, WorkerTyped, WorkOK
<1>2. HomeTypeOK' /\ LocalTyped' /\ BudgetTyped'
  BY Untouched, CallTyped, FaultTyped DEF UninstallEnd, TypeInv, BudgetTyped
<1>3. EdgeTypeOK'
  <2>1. CASE UNCHANGED edge
    BY <2>1 DEF TypeInv, EdgeTypeOK
  <2>2. CASE w[o].cluster \in Edges
    BY <1>1, <2>2, AtTyped, SitesTyped DEF UninstallEnd, TypeInv, RelStatus
  <2> QED
    BY <2>1, <2>2 DEF UninstallEnd, Answers
<1>5. w[o].obj.deleting
  BY DEF UninstallEnd, DeletePCs, TypeInv, WorkerTyped, WorkOK
<1>4. WorkerTyped'
  BY <1>1, <1>5, GotoTyped, LabelsKnown DEF UninstallEnd, TypeInv, DeletePCs
<1> QED
  BY <1>2, <1>3, <1>4 DEF TypeInv

\* The step DelNamespace of a worker keeps the types.
LEMMA DelNamespaceTyped ==
    ASSUME TypeInv, NEW o \in Operators, DelNamespace(o)
    PROVE  TypeInv'
<1>1. pc[o] # "idle" /\ w[o].key \in KD /\ w[o].obj \in Object /\ w[o] \in Work
  BY DEF DelNamespace, TypeInv, WorkerTyped, WorkOK
<1>2. HomeTypeOK' /\ LocalTyped' /\ BudgetTyped'
  BY Untouched, CallTyped, FaultTyped DEF DelNamespace, TypeInv, BudgetTyped
<1>3. EdgeTypeOK'
  <2>1. CASE UNCHANGED edge
    BY <2>1 DEF TypeInv, EdgeTypeOK
  <2>2. CASE w[o].cluster \in Edges
    <3>1. CASE UNCHANGED edge
      BY <3>1 DEF TypeInv, EdgeTypeOK
    <3>2. CASE Set(o, [At(o) EXCEPT !.ns = IF @ = "absent" THEN @ ELSE "terminating"])
      <4>1. At(o) \in Site
        BY <1>1, <2>2, AtTyped DEF TypeInv
      <4>2. [At(o) EXCEPT !.ns = IF @ = "absent" THEN @ ELSE "terminating"] \in Site
        BY <4>1 DEF Site
      <4> QED
        BY <1>1, <2>2, <3>2, <4>2, AtTyped DEF TypeInv
    <3> QED
      BY <3>1, <3>2 DEF DelNamespace
  <2> QED
    BY <2>1, <2>2 DEF DelNamespace, Answers
<1>5. w[o].obj.deleting
  BY DEF DelNamespace, DeletePCs, TypeInv, WorkerTyped, WorkOK
<1>4. WorkerTyped'
  BY <1>1, <1>5, GotoTyped, LabelsKnown DEF DelNamespace, TypeInv, DeletePCs
<1> QED
  BY <1>2, <1>3, <1>4 DEF TypeInv

\* The status update stores an object with a well-typed status.
LEMMA WriteStatusTyped ==
    ASSUME TypeInv, NEW o \in Operators, WriteStatus(o)
    PROVE  TypeInv'
<1> DEFINE k == w[o].key
           status == Outcome(o, w[o].obj, w[o].reason)
<1>1. k \in KD /\ w[o].obj \in Object /\ pc[o] # "idle" /\ w[o] \in Work
  BY DEF WriteStatus, TypeInv, WorkerTyped, WorkOK
<1>2. EdgeTypeOK' /\ LocalTyped' /\ WorkerTyped'
  BY <1>1, RequeueTyped DEF WriteStatus, TypeInv, local, EdgeTypeOK, LocalTyped
<1>3. BudgetTyped'
  BY FaultTyped DEF WriteStatus, TypeInv, BudgetTyped
<1>4. HomeTypeOK'
  <2>1. CASE UNCHANGED <<kd, rv>>
    BY <2>1 DEF WriteStatus, TypeInv, HomeTypeOK
  <2>2. CASE Locked(k, w[o].obj) /\ Store(k, StatusUpdated(k, status))
    <3>1. kd[k] \in Object
      BY <1>1, <2>2 DEF Locked, TypeInv, HomeTypeOK
    <3>2. status \in Status
      <4>1. w[o].obj.gen \in Nat /\ w[o].obj.status \in Status
        BY <1>1 DEF Object
      <4>2. w[o].reason \in Reasons /\ ChartOf[o] \in Charts
        BY <1>1, OperatorAssumption DEF Work
      <4> QED
        BY <4>1, <4>2 DEF Outcome, Status
    <3>3. StatusUpdated(k, status) \in Object
      BY <3>1, <3>2 DEF StatusUpdated, Object
    <3> QED
      BY <1>1, <2>2, <3>3, StoreTyped DEF WriteStatus, TypeInv
  <2> QED
    BY <2>1, <2>2 DEF WriteStatus
<1> QED
  BY <1>2, <1>3, <1>4 DEF TypeInv

\* The Update that removes the finalizer stores an object or none.
LEMMA RemoveFinalizerTyped ==
    ASSUME TypeInv, NEW o \in Operators, RemoveFinalizer(o)
    PROVE  TypeInv'
<1> DEFINE k == w[o].key
           new == [w[o].obj EXCEPT !.fins = @ \ {Ours}]
<1>1. k \in KD /\ w[o].obj \in Object /\ pc[o] # "idle"
  BY DEF RemoveFinalizer, TypeInv, WorkerTyped, WorkOK
<1>2. EdgeTypeOK' /\ LocalTyped'
  BY DEF RemoveFinalizer, TypeInv, local, EdgeTypeOK, LocalTyped
<1>3. WorkerTyped'
  <2>1. queue[o] \in SUBSET KD
    BY DEF TypeInv, WorkerTyped
  <2> QED
    BY <1>1, <2>1, ReturnTyped, RequeueTyped DEF RemoveFinalizer, TypeInv
<1>4. BudgetTyped'
  BY FaultTyped DEF RemoveFinalizer, TypeInv, BudgetTyped
<1>5. HomeTypeOK'
  <2>1. CASE UNCHANGED <<kd, rv>>
    BY <2>1 DEF RemoveFinalizer, TypeInv, HomeTypeOK
  <2>2. CASE Locked(k, w[o].obj) /\ Store(k, Updated(k, new))
    <3>1. new \in Object
      <4>1. w[o].obj.fins \ {Ours} \in SUBSET Finalizers
        BY <1>1 DEF Object
      <4> QED
        BY <1>1, <4>1 DEF Object
    <3>2. kd[k] # Gone
      BY <2>2 DEF Locked
    <3>3. Updated(k, new) \in Object
      BY <1>1, <3>1, <3>2, UpdatedTyped DEF TypeInv
    <3> QED
      BY <1>1, <2>2, <3>3, StoreTyped DEF RemoveFinalizer, TypeInv
  <2> QED
    BY <2>1, <2>2 DEF RemoveFinalizer
<1> QED
  BY <1>2, <1>3, <1>4, <1>5 DEF TypeInv

\* Launching, stopping and watching keep the types.
LEMMA ProcessTyped ==
    ASSUME TypeInv, NEW o \in Operators, Process(o)
    PROVE  TypeInv'
<1>1. CASE Launch(o)
  <2>1. Listed \in SUBSET KD
    BY DEF Listed
  <2>2. [s \in Secrets |-> IF Readable(s) THEN secret[s] ELSE NoCluster]
          \in [Secrets -> Clusters \cup {NoCluster}]
    BY DEF TypeInv, HomeTypeOK
  <2>3. LocalTyped'
    BY <1>1, <2>2 DEF Launch, TypeInv, HomeTypeOK, LocalTyped
  <2> QED
    BY <1>1, <2>1, <2>3 DEF Launch, home, TypeInv, HomeTypeOK, EdgeTypeOK, WorkerTyped,
       WorkOK, BudgetTyped
<1>2. ASSUME NEW k \in KD, Deliver(o, k) PROVE TypeInv'
  <2>1. kd[k] \in Object \cup {Gone}
    BY DEF TypeInv, HomeTypeOK
  <2>2. WorkerTyped'
    BY <1>2 DEF Deliver, TypeInv, WorkerTyped, WorkOK
  <2> QED
    BY <1>2, <2>1, <2>2 DEF Deliver, home, TypeInv, HomeTypeOK, EdgeTypeOK, LocalTyped,
       BudgetTyped
<1>3. ASSUME NEW state \in {"down", "retired"}, Stop(o, state), BudgetTyped'
      PROVE  TypeInv'
  <2>1. NoWork \in Work /\ "idle" \in Labels /\ "idle" \notin DeletePCs
    BY DEF NoWork, Work, Reasons, Labels, DeletePCs
  <2>2. WorkerTyped'
    BY <1>3, <2>1 DEF Stop, TypeInv, WorkerTyped, WorkOK
  <2>3. LocalTyped'
    BY <1>3 DEF Stop, NoHandles, TypeInv, LocalTyped
  <2> QED
    BY <1>3, <2>2, <2>3 DEF Stop, home, TypeInv, HomeTypeOK, EdgeTypeOK
<1>4. CASE Crash(o)
  <2>1. BudgetTyped'
    BY <1>4, SpendTyped DEF Crash, Kinds, TypeInv
  <2> QED
    BY <1>3, <1>4, <2>1 DEF Crash
<1>5. CASE Retire(o)
  <2>1. BudgetTyped'
    BY <1>5 DEF Retire, TypeInv, BudgetTyped
  <2> QED
    BY <1>3, <1>5, <2>1 DEF Retire
<1>6. ASSUME NEW s \in Secrets, DeliverSecret(o, s) PROVE TypeInv'
  <2>1. secret[s] \in Clusters \cup {NoCluster}
    BY DEF TypeInv, HomeTypeOK
  <2>2. WorkerTyped'
    BY <1>6 DEF DeliverSecret, TypeInv, WorkerTyped, WorkOK
  <2> QED
    BY <1>6, <2>1, <2>2 DEF DeliverSecret, home, TypeInv, HomeTypeOK, EdgeTypeOK,
       LocalTyped, BudgetTyped
<1> QED
  BY <1>1, <1>2, <1>4, <1>5, <1>6 DEF Process

\* Whatever users do to objects and Secrets keeps the types.
LEMMA UsersTyped ==
    ASSUME TypeInv, Users
    PROVE  TypeInv'
<1>1. EdgeTypeOK' /\ LocalTyped' /\ WorkerTyped'
  BY DEF Users, inside, TypeInv, EdgeTypeOK, LocalTyped, WorkerTyped, WorkOK
<1>2. BudgetTyped'
  BY SpendTyped DEF Users, Kinds, TypeInv
<1>3. HomeTypeOK'
  <2>1. ASSUME NEW k \in KD, NEW spec \in Specs, Create(k, spec) PROVE HomeTypeOK'
    <3>1. [rv |-> 0, gen |-> 1, spec |-> spec, deleting |-> FALSE,
           fins |-> {}, status |-> NoStatus] \in Object
      BY SpecsAssumption DEF Object, NoStatus, Status, Reasons
    <3> QED
      BY <2>1, <3>1, StoreTyped DEF Create, TypeInv
  <2>2. ASSUME NEW k \in KD, NEW spec \in Specs, Edit(k, spec) PROVE HomeTypeOK'
    <3>1. kd[k] \in Object
      BY <2>2 DEF Edit, TypeInv, HomeTypeOK
    <3>2. [kd[k] EXCEPT !.spec = spec, !.gen = @ + 1] \in Object
      <4>1. kd[k].gen + 1 \in Nat /\ spec \in KDSpec
        BY <3>1, SpecsAssumption DEF Object
      <4> QED
        BY <3>1, <4>1 DEF Object
    <3> QED
      BY <2>2, <3>2, StoreTyped DEF Edit, TypeInv
  <2>3. ASSUME NEW k \in KD, Delete(k) PROVE HomeTypeOK'
    <3>1. kd[k] \in Object
      BY <2>3 DEF Delete, TypeInv, HomeTypeOK
    <3>2. [kd[k] EXCEPT !.deleting = TRUE, !.gen = @ + 1] \in Object
      <4>1. kd[k].gen + 1 \in Nat
        BY <3>1 DEF Object
      <4> QED
        BY <3>1, <4>1 DEF Object
    <3> QED
      BY <2>3, <3>2, StoreTyped DEF Delete, TypeInv
  <2>4. ASSUME NEW k \in KD, ToggleForeign(k) PROVE HomeTypeOK'
    <3>1. kd[k] \in Object
      BY <2>4 DEF ToggleForeign, TypeInv, HomeTypeOK
    <3>2. \A fins \in SUBSET Finalizers : [kd[k] EXCEPT !.fins = fins] \in Object
      BY <3>1 DEF Object
    <3>3. /\ kd[k].fins \ {Foreign} \in SUBSET Finalizers
          /\ kd[k].fins \cup {Foreign} \in SUBSET Finalizers
      BY <3>1 DEF Object, Finalizers
    <3>4. /\ [kd[k] EXCEPT !.fins = @ \ {Foreign}] \in Object
          /\ [kd[k] EXCEPT !.fins = @ \cup {Foreign}] \in Object
      BY <3>2, <3>3
    <3> QED
      BY <2>4, <3>4, StoreTyped DEF ToggleForeign, TypeInv
  <2>5. ASSUME NEW s \in Secrets, NEW c \in Clusters \cup {NoCluster}, RotateSecret(s, c)
        PROVE HomeTypeOK'
    BY <2>5 DEF RotateSecret, TypeInv, HomeTypeOK
  <2> QED
    BY <2>1, <2>2, <2>3, <2>4, <2>5 DEF Users
<1> QED
  BY <1>1, <1>2, <1>3 DEF TypeInv

\* The edge's own controllers and people make sites of sites.
LEMMA EdgeMovesTyped ==
    ASSUME TypeInv, NEW e \in Edges, NEW n \in Names,
           PodsRoll(e, n) \/ NamespaceEnds(e, n) \/ Tampering(e, n)
    PROVE  TypeInv'
<1> DEFINE site == edge[e][n]
<1>1. site \in Site
  BY DEF TypeInv, EdgeTypeOK
<1>2. HomeTypeOK' /\ LocalTyped' /\ WorkerTyped'
  BY DEF PodsRoll, NamespaceEnds, Tampering, home, inside, TypeInv, HomeTypeOK,
     LocalTyped, WorkerTyped, WorkOK
<1>3. BudgetTyped'
  BY SpendTyped DEF PodsRoll, NamespaceEnds, Tampering, Kinds, TypeInv, BudgetTyped
<1>4. ASSUME NEW new \in Site, Becomes(e, n, new) PROVE EdgeTypeOK'
  BY <1>4, BecomesTyped DEF TypeInv
<1>5. EdgeTypeOK'
  <2>1. CASE Rollout(e, n)
    BY <1>1, <1>4, <2>1, SitesTyped DEF Rollout
  <2>2. CASE TerminateNs(e, n)
    BY <1>1, <1>4, <2>2, SitesTyped DEF TerminateNs
  <2>3. CASE Drift(e, n)
    <3>1. CASE \E r \in Resources : Becomes(e, n, Without(edge[e][n], {r}))
      BY <1>1, <1>4, <3>1, SitesTyped
    <3>2. CASE Becomes(e, n, Recorded(edge[e][n], "none"))
      BY <1>1, <1>4, <3>2, SitesTyped DEF RelStatus
    <3>3. CASE Becomes(e, n, [edge[e][n] EXCEPT !.ns = "terminating"])
      BY <1>1, <1>4, <3>3, SitesTyped
    <3>4. CASE Becomes(e, n, [edge[e][n] EXCEPT !.pods = NoChart])
      BY <1>1, <1>4, <3>4, SitesTyped
    <3> QED
      BY <2>3, <3>1, <3>2, <3>3, <3>4 DEF Drift
  <2>4. CASE UninstallKeepingHistory(e, n)
    <3>1. Without(site, Resources) \in Site
      BY <1>1, SitesTyped
    <3>2. Recorded(Without(site, Resources), "uninstalled") \in Site
      BY <3>1, SitesTyped DEF RelStatus
    <3> QED
      BY <1>4, <2>4, <3>2 DEF UninstallKeepingHistory
  <2> QED
    BY <2>1, <2>2, <2>3, <2>4 DEF PodsRoll, NamespaceEnds, Tampering
<1> QED
  BY <1>2, <1>3, <1>5 DEF TypeInv

\* A step of a worker, whichever call it makes.
LEMMA WorkerStepTyped ==
    ASSUME TypeInv, NEW o \in Operators, Worker(o)
    PROVE  TypeInv'
<1>1. CASE Install(o) \/ Upgrade(o)
  <2>1. /\ (w[o].cluster \in Edges /\ Installable(At(o))) \in BOOLEAN
        /\ (w[o].cluster \in Edges /\ Upgradable(At(o))) \in BOOLEAN
    BY DEF Installable, Upgradable
  <2> QED
    BY <1>1, <2>1, StartTyped DEF Install, Upgrade
<1>2. CASE \E r \in Resources : CheckOne(o, r) \/ ApplyOne(o, r) \/ RemoveOne(o, r)
  BY <1>2, CheckOneTyped, ApplyOneTyped, RemoveOneTyped
<1>3. CASE \E k \in KD : Begin(o, k) \/ ReadFails(o, k)
  BY <1>3, BeginTyped, ReadFailsTyped
<1> QED
  BY <1>1, <1>2, <1>3, AddFinalizerTyped, GetClusterTyped, NsGetTyped, NsCreateTyped,
     HistoryTyped, GetReleaseTyped, FetchChartTyped, ChooseOpTyped, CloseRecordTyped,
     FailRecordTyped, ApplyFailsTyped, HealthTyped, WriteStatusTyped, DelClusterTyped,
     DelHistoryTyped, UninstallTyped, UninstallEndTyped, UninstallFailsTyped,
     DelNamespaceTyped, RemoveFinalizerTyped DEF Worker, Call

\* The state before anything has happened.
LEMMA InitTyped == Init => TypeInv
<1> SUFFICES ASSUME Init PROVE TypeInv
  OBVIOUS
<1>1. HomeTypeOK
  BY SecretsAssumption DEF Init, HomeInit, HomeTypeOK
<1>2. EdgeTypeOK
  <2>1. EmptySite \in Site
    BY DEF EmptySite, Site, RelStatus
  <2> QED
    BY <2>1 DEF Init, EdgeInit, EdgeTypeOK
<1>3. LocalTyped /\ BudgetTyped
  BY OperatorAssumption DEF Init, NoHandles, LocalTyped, BudgetTyped
<1>4. WorkerTyped
  <2>1. NoWork \in Work /\ "idle" \in Labels /\ "idle" \notin DeletePCs
    BY DEF NoWork, Work, Reasons, Labels, DeletePCs
  <2> QED
    BY <2>1 DEF Init, WorkerTyped, WorkOK
<1> QED
  BY <1>1, <1>2, <1>3, <1>4 DEF TypeInv

\* TypeInv is inductive.
LEMMA TypeStep == TypeInv /\ [Next]_vars => TypeInv'
<1> SUFFICES ASSUME TypeInv, [Next]_vars PROVE TypeInv'
  OBVIOUS
<1>1. CASE Next
  BY <1>1, WorkerStepTyped, ProcessTyped, UsersTyped, EdgeMovesTyped DEF Next
<1>2. CASE UNCHANGED vars
  BY <1>2 DEF vars, TypeInv, HomeTypeOK, EdgeTypeOK, LocalTyped, WorkerTyped, WorkOK,
     BudgetTyped
<1> QED
  BY <1>1, <1>2

\* In every reachable state what is stored, cached, queued and carried has its
\* type, a busy worker carries an object, and one that cleans up carries an
\* object that is being deleted (reconcileCED never reaches rcedHandleDelete
\* with another).
THEOREM WorkersTyped == Spec => []TypeInv
  BY InitTyped, TypeStep, PTL DEF Spec

\* The type invariant of the whole system.
THEOREM TypeCorrect == Spec => []TypeOK
<1>1. TypeInv => TypeOK
  BY DEF TypeInv, TypeOK, LocalTyped, WorkerTyped, BudgetTyped
<1> QED
  BY <1>1, WorkersTyped, PTL
=============================================================================
