----------------------------- MODULE ReadyProofs -----------------------------
(***************************************************************************)
(* Ready means served: what the Ready condition of a KryptonDeployment     *)
(* says about its edge cluster, for any number of objects, edges, charts   *)
(* and resources, with any faults, crashes, edits and deletions.           *)
(***************************************************************************)
EXTENDS FreshProofs

-----------------------------------------------------------------------------
(* What a report is about.                                                  *)

\* The release is there, complete and with pods.
Serving(site) ==
    /\ site.ns = "active" /\ site.rel # "none" /\ site.pods # NoChart
    /\ \A r \in Resources : site.res[r] # NoChart

\* The status calls the object, as it is now, deployed.
Claims(k) ==
    kd[k] # Gone /\ kd[k].status.reason = "Deployed" /\ kd[k].status.obs = kd[k].gen

\* Such a status is about an object that stays, on a cluster that serves it.
ClaimsHold ==
    \A k \in KD : Claims(k) =>
        /\ ~kd[k].deleting /\ Reachable(k)
        /\ Serving(edge[Target(k)][NameOf[k]])

\* The worker is about to report success.
Reporting(o) == pc[o] = "status" /\ w[o].reason = "Deployed"

\* A worker that deploys or reports success does so for an object that was not
\* deleted when it was read, on the cluster that its spec leads to.
Aimed ==
    \A o \in Operators :
        /\ (pc[o] \in {"addFinalizer"} \cup Deploying \/ Reporting(o)) => ~w[o].obj.deleting
        /\ (pc[o] \in Deploying \ {"getCluster"} \/ Reporting(o)) =>
              LET s == ResolveTarget(w[o].obj.spec)
              IN  w[o].cluster = secret[s] /\ Readable(s)

\* What the worker knows of its site at label l.
LaidOut(l, reason, todo, site) ==
    /\ l = "apply" => /\ site.ns = "active" /\ site.rel = "pending"
                      /\ \A r \in Resources \ todo : site.res[r] # NoChart
    /\ l = "health" => /\ site.ns = "active" /\ site.rel # "none"
                       /\ \A r \in Resources : site.res[r] # NoChart
    /\ l = "status" /\ reason = "Deployed" => Serving(site)

LaysOut(o) == pc[o] \in {"apply", "health"} \/ Reporting(o)
Laid == \A o \in Operators : LaysOut(o) =>
            w[o].cluster \in Edges /\ LaidOut(pc[o], w[o].reason, w[o].todo, At(o))

\* An object that a cache or a worker takes for deleted no longer claims anything.
Doomed(k) == kd[k] = Gone \/ kd[k].deleting \/ kd[k].status.reason # "Deployed"
DeletionSeen ==
    /\ \A o \in Operators, k \in KD :
          cache[o][k] # Gone /\ cache[o][k].deleting => Doomed(k)
    /\ \A o \in Operators : pc[o] \in DeletePCs => Doomed(w[o].key)

-----------------------------------------------------------------------------
(* Sites.                                                                   *)

\* Nobody but a worker disturbs a site that serves.
LEMMA SiteMovesServe ==
    ASSUME TypeInv, budget["drift"] = 0, budget["keep"] = 0,
           NEW e \in Edges, NEW n \in Names,
           PodsRoll(e, n) \/ NamespaceEnds(e, n) \/ Tampering(e, n)
    PROVE  LET site == edge[e][n]
           IN  \E new \in Site :
                 /\ Becomes(e, n, new)
                 /\ Serving(site) => Serving(new)
                 /\ site.ns = "active" =>
                       new.ns = "active" /\ new.rel = site.rel /\ new.res = site.res
<1> DEFINE site == edge[e][n]
<1>1. site \in Site /\ BudgetTyped
  BY DEF TypeInv, EdgeTypeOK
<1> HIDE DEF site
<1>2. CASE Rollout(e, n)
  <2> DEFINE new == [site EXCEPT !.pods = site.res[Workload]]
  <2>1. Workload \in Resources /\ site.res[Workload] \in Charts \cup {NoChart}
    BY <1>1, EdgeAssumption DEF Site
  <2>2. /\ new \in Site /\ new.ns = site.ns /\ new.rel = site.rel /\ new.res = site.res
        /\ new.pods = site.res[Workload]
    BY <1>1, <2>1, PodsEffect
  <2>3. Becomes(e, n, new)
    BY <1>2 DEF Rollout, site
  <2> HIDE DEF new
  <2> QED
    BY <2>1, <2>2, <2>3 DEF Serving, site
<1>3. CASE TerminateNs(e, n)
  <2>1. Becomes(e, n, Wiped(site)) /\ site.ns = "terminating" /\ Wiped(site) \in Site
    BY <1>1, <1>3, WipedEffect DEF TerminateNs, site
  <2> QED
    BY <2>1 DEF Serving, site
<1>4. ~Spend("drift") /\ ~Spend("keep")
  BY <1>1 DEF Spend
<1> QED
  BY <1>2, <1>3, <1>4 DEF PodsRoll, NamespaceEnds, Tampering

\* What a call does to the site and to what the worker knows of it.
Serves(o, new) ==
    /\ new \in Site
    /\ Set(o, new) \/ (UNCHANGED edge /\ new = At(o))
    /\ pc[o] \in Deploying /\ Serving(At(o)) => Serving(new)
    /\ LaidOut(pc'[o], w'[o].reason, w'[o].todo, new)

\* There is nothing to know elsewhere.
LEMMA NothingLaidOut ==
    ASSUME NEW l, l \notin {"apply", "health"}, NEW reason, l # "status" \/ reason # "Deployed",
           NEW todo, NEW site
    PROVE  LaidOut(l, reason, todo, site)
  BY DEF LaidOut

\* Without an edge cluster that answers, nothing is done there and no success is
\* reported.
LEMMA CallsAway ==
    ASSUME TypeInv, NEW o \in Operators, EdgeCall(o), w[o].cluster \notin Edges, ~LaysOut(o)
    PROVE  UNCHANGED edge /\ ~LaysOut(o)'
<1>1. WorkerTyped /\ ~Answers(o)
  BY DEF TypeInv, Answers
<1>2. /\ \A l : Goto(o, l) => pc'[o] = l
      /\ \A reason : Report(o, reason) => pc'[o] = "status" /\ w'[o].reason = reason
      /\ Requeue(o) => pc'[o] = "idle"
  BY <1>1, StepGoes DEF Goes, Requeue
<1>3. \A l, work : Step(o, l, work) => pc'[o] = l
  BY <1>1 DEF Step, WorkerTyped
<1>4. CASE NsGet(o) \/ NsCreate(o) \/ History(o) \/ GetRelease(o)
  <2>1. UNCHANGED edge
    BY <1>1, <1>4 DEF NsGet, NsCreate, History, GetRelease
  <2>2. pc'[o] \in {"idle", "chart"} \/ (pc'[o] = "status" /\ w'[o].reason = "HealthCheckFailed")
    BY <1>1, <1>2, <1>3, <1>4 DEF NsGet, NsCreate, History, GetRelease, Repair
  <2> QED
    BY <2>1, <2>2 DEF LaysOut, Reporting
<1>5. CASE FetchChart(o) \/ ChooseOp(o) \/ Install(o) \/ Upgrade(o) \/ Health(o)
  <2>1. UNCHANGED edge
    BY <1>1, <1>5 DEF FetchChart, ChooseOp, Install, Upgrade, Start, Health
  <2>2. \/ pc'[o] \in {"chooseOp", "install"}
        \/ /\ pc'[o] = "status"
           /\ w'[o].reason \in {"HealthCheckFailed", "HelmFailed", "NotReady"}
    BY <1>1, <1>2, <1>5 DEF FetchChart, ChooseOp, Install, Upgrade, Start, Health, DeployFailed
  <2> QED
    BY <2>1, <2>2 DEF LaysOut, Reporting
<1>6. CASE DelHistory(o) \/ Uninstall(o) \/ UninstallFails(o) \/ DelNamespace(o)
  <2>1. UNCHANGED edge
    BY <1>1, <1>6 DEF DelHistory, Uninstall, UninstallFails, DelNamespace
  <2>2. pc'[o] \in {"delNamespace", "removeFinalizer"}
    BY <1>1, <1>2, <1>3, <1>6 DEF DelHistory, Uninstall, UninstallFails, DelNamespace
  <2> QED
    BY <2>1, <2>2 DEF LaysOut, Reporting
<1>7. CASE ApplyFails(o) \/ FailRecord(o) \/ \E r \in Resources : CheckOne(o, r)
  <2>1. UNCHANGED edge
    BY <1>1, <1>7 DEF ApplyFails, FailRecord, CheckOne
  <2>2. \/ pc'[o] \in {"fail", "chart", "check"}
        \/ pc'[o] = "status" /\ w'[o].reason \in {"HealthCheckFailed", "HelmFailed"}
    BY <1>1, <1>2, <1>3, <1>7 DEF ApplyFails, FailRecord, CheckOne, DeployFailed
  <2> QED
    BY <2>1, <2>2 DEF LaysOut, Reporting
<1>8. /\ ~CloseRecord(o) /\ ~UninstallEnd(o)
      /\ \A r \in Resources : ~ApplyOne(o, r) /\ ~RemoveOne(o, r)
  BY <1>1 DEF CloseRecord, LaysOut, UninstallEnd, ApplyOne, RemoveOne
<1> QED
  BY <1>4, <1>5, <1>6, <1>7, <1>8 DEF EdgeCall

\* With one, a worker that deploys leaves a site that serves in service, and what
\* it goes on with is true.
LEMMA CallsServe ==
    ASSUME TypeInv, NEW o \in Operators, EdgeCall(o), w[o].cluster \in Edges,
           LaysOut(o) => LaidOut(pc[o], w[o].reason, w[o].todo, At(o))
    PROVE  \E new : Serves(o, new)
<1> DEFINE site == At(o)
<1>1. WorkerTyped /\ pc[o] # "idle" /\ site \in Site
  <2>1. WorkerTyped /\ EdgeTypeOK /\ pc[o] # "idle"
    BY EdgeCallsOnly DEF TypeInv, AtEdge, Deploying, DeletePCs
  <2> QED
    BY <2>1, AtTyped
<1> HIDE DEF site
<1>2. /\ \A l : Goto(o, l) => pc'[o] = l
      /\ \A reason : Report(o, reason) => pc'[o] = "status" /\ w'[o].reason = reason
      /\ Requeue(o) => pc'[o] = "idle"
  BY <1>1, StepGoes DEF Goes, Requeue
<1>3. /\ \A l, work : Step(o, l, work) => pc'[o] = l
      /\ \A l, todo : Step(o, l, [w[o] EXCEPT !.todo = todo])
                         => pc'[o] = l /\ w'[o].todo = todo
      /\ \A l, todo, op : Step(o, l, [w[o] EXCEPT !.todo = todo, !.op = op])
                         => pc'[o] = l /\ w'[o].todo = todo
  <2>1. \A l, work : Step(o, l, work) => pc'[o] = l
    BY <1>1 DEF Step, WorkerTyped
  <2>2. \A l, todo : Step(o, l, [w[o] EXCEPT !.todo = todo])
                         => pc'[o] = l /\ w'[o].todo = todo
    BY <1>1 DEF Step, WorkerTyped, Work
  <2>3. \A l, todo, op : Step(o, l, [w[o] EXCEPT !.todo = todo, !.op = op])
                         => pc'[o] = l /\ w'[o].todo = todo
    BY <1>1 DEF Step, WorkerTyped, Work
  <2> QED
    BY <2>1, <2>2, <2>3
<1>4. /\ "pending" \in RelStatus /\ "deployed" \in RelStatus /\ "failed" \in RelStatus
      /\ "uninstalling" \in RelStatus /\ "none" \in RelStatus
  BY DEF RelStatus
<1>5. ASSUME UNCHANGED edge, pc'[o] \notin {"apply", "health"},
             pc'[o] # "status" \/ w'[o].reason # "Deployed"
      PROVE  \E new : Serves(o, new)
  BY <1>1, <1>5, NothingLaidOut DEF Serves, site
<1>6. ASSUME NEW new \in Site, Set(o, new), pc[o] \in DeletePCs, pc'[o] \in DeletePCs
      PROVE  Serves(o, new)
  <2>1. /\ pc[o] \notin Deploying
        /\ pc'[o] \notin {"apply", "health", "status"}
    BY <1>6 DEF DeletePCs, Deploying
  <2> QED
    BY <1>6, <2>1, NothingLaidOut DEF Serves
<1>7. DeployFailed(o) => pc'[o] = "status" /\ w'[o].reason # "Deployed"
  BY <1>2 DEF DeployFailed
<1>8. CASE \/ NsGet(o) \/ History(o) \/ GetRelease(o) \/ \E r \in Resources : CheckOne(o, r)
           \/ FetchChart(o) \/ ChooseOp(o)
  <2>1. UNCHANGED edge
    BY <1>8 DEF NsGet, History, GetRelease, CheckOne, FetchChart, ChooseOp
  <2>2. NsGet(o) => pc'[o] \in {"idle", "nsCreate", "history"}
    BY <1>2 DEF NsGet
  <2>3. History(o) \/ (\E r \in Resources : CheckOne(o, r))
          => pc'[o] \in {"chart", "getRelease", "check"}
    BY <1>2, <1>3 DEF History, CheckOne, Repair
  <2>4. GetRelease(o)
          => \/ pc'[o] \in {"chart", "check"}
             \/ pc'[o] = "status" /\ w'[o].reason = "HealthCheckFailed"
    BY <1>2, <1>3 DEF GetRelease, Repair
  <2>5. FetchChart(o)
          => pc'[o] = "chooseOp" \/ (pc'[o] = "status" /\ w'[o].reason # "Deployed")
    BY <1>2, <1>7 DEF FetchChart
  <2>6. ChooseOp(o) => pc'[o] \in {"install", "upgrade"}
    BY <1>2 DEF ChooseOp, HelmOp
  <2> QED
    BY <1>5, <1>8, <2>1, <2>2, <2>3, <2>4, <2>5, <2>6
<1>9. CASE NsCreate(o)
  <2>1. CASE site.ns = "absent" /\ Set(o, [site EXCEPT !.ns = "active"]) /\ Goto(o, "history")
    <3> DEFINE new == [site EXCEPT !.ns = "active"]
    <3>1. new \in Site
      BY <1>1, NamespaceEffect
    <3>2. ~Serving(site) /\ pc'[o] = "history" /\ Set(o, new)
      BY <1>2, <2>1 DEF Serving
    <3> HIDE DEF new
    <3> QED
      BY <3>1, <3>2, NothingLaidOut DEF Serves, site
  <2>2. CASE UNCHANGED edge /\ Requeue(o)
    BY <1>2, <1>5, <2>2
  <2> QED
    BY <1>9, <2>1, <2>2 DEF NsCreate, site
<1>10. CASE Install(o) \/ Upgrade(o)
  <2>1. CASE /\ site.ns = "active" /\ Set(o, Recorded(site, "pending"))
             /\ \E l : Step(o, "apply", [w[o] EXCEPT !.todo = Resources, !.op = l])
    <3> DEFINE new == Recorded(site, "pending")
    <3>1. /\ new \in Site /\ new.rel = "pending" /\ new.ns = "active"
          /\ new.res = site.res /\ new.pods = site.pods
      BY <1>1, <1>4, <2>1, RecordedEffect
    <3>2. pc'[o] = "apply" /\ w'[o].todo = Resources /\ Set(o, new)
      BY <1>3, <2>1
    <3> HIDE DEF new
    <3> QED
      BY <3>1, <3>2 DEF Serves, Serving, LaidOut, site
  <2>2. CASE UNCHANGED edge /\ DeployFailed(o)
    BY <1>5, <1>7, <2>2
  <2> QED
    BY <1>10, <2>1, <2>2 DEF Install, Upgrade, Start, Installable, Upgradable, site
<1>11. ASSUME NEW r \in Resources, ApplyOne(o, r) PROVE \E new : Serves(o, new)
  <2> DEFINE new == Applied(site, r, ChartOf[o])
  <2>1. ChartOf[o] \in Charts /\ ChartOf[o] # NoChart
    BY OperatorAssumption, ChartAssumption
  <2>2. /\ new \in Site /\ new.rel = site.rel /\ new.ns = site.ns /\ new.pods = site.pods
        /\ new.res[r] # NoChart
        /\ \A q \in Resources \ {r} : new.res[q] = site.res[q]
    BY <1>1, <2>1, AppliedEffect
  <2>3. /\ pc'[o] = "apply" /\ w'[o].todo = w[o].todo \ {r} /\ Set(o, new)
        /\ pc[o] = "apply"
    BY <1>3, <1>11 DEF ApplyOne, site
  <2> HIDE DEF new
  <2>4. /\ site.ns = "active" /\ site.rel = "pending"
        /\ \A q \in Resources \ w[o].todo : site.res[q] # NoChart
    BY <2>3 DEF LaysOut, LaidOut, site
  <2>5. LaidOut(pc'[o], w'[o].reason, w'[o].todo, new)
    BY <2>2, <2>3, <2>4 DEF LaidOut
  <2>6. Serving(site) => Serving(new)
    BY <2>2 DEF Serving
  <2> QED
    BY <2>2, <2>3, <2>5, <2>6 DEF Serves, site
<1>12. CASE CloseRecord(o)
  <2>1. /\ pc[o] = "apply" /\ site.ns = "active" /\ site.rel = "pending"
        /\ \A q \in Resources : site.res[q] # NoChart
    BY <1>12 DEF CloseRecord, LaysOut, LaidOut, site
  <2>2. /\ DeployDone(o) => \/ pc'[o] = "health"
                            \/ pc'[o] = "status" /\ w'[o].reason = "RepairTriggered"
        /\ Unrecorded(o) => DeployDone(o) \/ DeployFailed(o)
    BY <1>2 DEF DeployDone, Unrecorded
  <2>3. CASE Set(o, Recorded(site, "deployed")) /\ DeployDone(o)
    <3> DEFINE new == Recorded(site, "deployed")
    <3>1. /\ new \in Site /\ new.rel = "deployed" /\ new.ns = "active"
          /\ new.res = site.res /\ new.pods = site.pods
      BY <1>1, <1>4, <2>1, RecordedEffect
    <3>2. Set(o, new)
      BY <2>3
    <3> HIDE DEF new
    <3> QED
      BY <2>1, <2>2, <2>3, <3>1, <3>2 DEF Serves, Serving, LaidOut, site
  <2>4. CASE UNCHANGED edge /\ Unrecorded(o)
    <3>1. LaidOut(pc'[o], w'[o].reason, w'[o].todo, site)
      BY <1>7, <2>1, <2>2, <2>4 DEF LaidOut
    <3> QED
      BY <1>1, <2>4, <3>1 DEF Serves, site
  <2> QED
    BY <1>12, <2>1, <2>3, <2>4 DEF CloseRecord, site
<1>13. CASE ApplyFails(o) \/ FailRecord(o)
  <2>1. CASE ApplyFails(o)
    <3>1. UNCHANGED edge /\ pc'[o] = "fail"
      BY <1>3, <2>1 DEF ApplyFails
    <3> QED
      BY <1>5, <3>1
  <2>2. CASE FailRecord(o)
    <3>1. pc'[o] = "status" /\ w'[o].reason # "Deployed"
      BY <1>7, <2>2 DEF FailRecord
    <3>2. CASE UNCHANGED edge
      BY <1>5, <3>1, <3>2
    <3>3. CASE Set(o, site)
      <4>1. LaidOut(pc'[o], w'[o].reason, w'[o].todo, site)
        BY <3>1, NothingLaidOut
      <4> QED
        BY <1>1, <3>3, <4>1 DEF Serves, site
    <3>4. CASE Set(o, Recorded(site, "failed")) /\ site.rel # "none"
      <4> DEFINE new == Recorded(site, "failed")
      <4>1. /\ new \in Site /\ new.rel = "failed" /\ new.ns = site.ns
            /\ new.res = site.res /\ new.pods = site.pods
        BY <1>1, <1>4, RecordedEffect
      <4>2. Set(o, new)
        BY <3>4
      <4> HIDE DEF new
      <4>3. LaidOut(pc'[o], w'[o].reason, w'[o].todo, new)
        BY <3>1, NothingLaidOut
      <4>4. Serving(site) => Serving(new)
        BY <4>1 DEF Serving
      <4> QED
        BY <4>1, <4>2, <4>3, <4>4 DEF Serves, site
    <3> QED
      BY <2>2, <3>2, <3>3, <3>4 DEF FailRecord, site
  <2> QED
    BY <1>13, <2>1, <2>2
<1>14. CASE Health(o)
  <2>1. /\ pc[o] = "health" /\ site.ns = "active" /\ site.rel # "none"
        /\ \A q \in Resources : site.res[q] # NoChart
    BY <1>14 DEF Health, LaysOut, LaidOut, site
  <2>2. /\ UNCHANGED edge /\ pc'[o] = "status"
        /\ w'[o].reason = "Deployed" => Healthy(site)
    BY <1>2, <1>14 DEF Health, site
  <2>3. Healthy(site) => Serving(site)
    BY <2>1, EdgeAssumption DEF Healthy, Serving
  <2>4. LaidOut(pc'[o], w'[o].reason, w'[o].todo, site)
    BY <2>2, <2>3 DEF LaidOut
  <2> QED
    BY <1>1, <2>2, <2>4 DEF Serves, site
<1>15. CASE DelHistory(o) \/ UninstallFails(o)
  <2>1. UNCHANGED edge /\ pc'[o] \in {"delNamespace", "uninstall"}
    BY <1>2, <1>3, <1>15 DEF DelHistory, UninstallFails
  <2> QED
    BY <1>5, <2>1
<1>16. CASE Uninstall(o) \/ UninstallEnd(o)
  <2>1. /\ pc[o] \in DeletePCs /\ pc'[o] \in {"remove", "delNamespace"}
        /\ \/ UNCHANGED edge
           \/ \E status \in {"uninstalling", "none"} : Set(o, Recorded(site, status))
    BY <1>2, <1>3, <1>16 DEF Uninstall, UninstallEnd, DeletePCs, site
  <2>2. ASSUME NEW status \in {"uninstalling", "none"}, Set(o, Recorded(site, status))
        PROVE  \E new : Serves(o, new)
    <3>1. Recorded(site, status) \in Site /\ pc'[o] \in DeletePCs
      BY <1>1, <1>4, <2>1, RecordedEffect DEF DeletePCs
    <3> QED
      BY <1>6, <2>1, <2>2, <3>1
  <2> QED
    BY <1>5, <2>1, <2>2
<1>17. ASSUME NEW r \in Resources, RemoveOne(o, r) PROVE \E new : Serves(o, new)
  <2>1. Set(o, Without(site, {r})) /\ pc[o] \in DeletePCs /\ pc'[o] \in DeletePCs
    BY <1>3, <1>17 DEF RemoveOne, DeletePCs, site
  <2>2. Without(site, {r}) \in Site
    BY <1>1, WithoutEffect
  <2> QED
    BY <1>6, <2>1, <2>2
<1>18. CASE DelNamespace(o)
  <2>1. /\ pc[o] \in DeletePCs /\ pc'[o] \in DeletePCs /\ pc'[o] = "removeFinalizer"
        /\ \/ UNCHANGED edge
           \/ \E x \in {"absent", "terminating"} : Set(o, [site EXCEPT !.ns = x])
    BY <1>2, <1>18 DEF DelNamespace, DeletePCs, site
  <2>2. ASSUME NEW x \in {"absent", "terminating"}, Set(o, [site EXCEPT !.ns = x])
        PROVE  \E new : Serves(o, new)
    <3>1. [site EXCEPT !.ns = x] \in Site
      BY <1>1, NamespaceEffect
    <3> QED
      BY <1>6, <2>1, <2>2, <3>1
  <2> QED
    BY <1>5, <2>1, <2>2
<1> QED
  BY <1>8, <1>9, <1>10, <1>11, <1>12, <1>13, <1>14, <1>15, <1>16, <1>17, <1>18 DEF EdgeCall

\* A site that serves goes out of service only by a worker that cleans up there.
LEMMA ServingStep ==
    ASSUME TypeInv, budget["drift"] = 0, budget["keep"] = 0, Laid, [Next]_vars,
           NEW f \in Edges, NEW n \in Names, Serving(edge[f][n])
    PROVE  \/ Serving(edge'[f][n])
           \/ \E o \in Operators :
                 EdgeCall(o) /\ pc[o] \in DeletePCs /\ NameOf[w[o].key] = n
<1>1. EdgeTypeOK
  BY DEF TypeInv
<1>2. CASE UNCHANGED edge
  BY <1>2
<1>3. ASSUME NEW e \in Edges, NEW m \in Names,
             PodsRoll(e, m) \/ NamespaceEnds(e, m) \/ Tampering(e, m)
      PROVE  Serving(edge'[f][n])
  <2>1. PICK new \in Site : Becomes(e, m, new) /\ (Serving(edge[e][m]) => Serving(new))
    BY <1>3, SiteMovesServe
  <2>2. edge'[f][n] = IF e = f /\ m = n THEN new ELSE edge[f][n]
    BY <1>1, <2>1 DEF Becomes, EdgeTypeOK
  <2> QED
    BY <2>1, <2>2
<1>4. ASSUME NEW o \in Operators, EdgeCall(o), w[o].cluster \in Edges, pc[o] \in Deploying
      PROVE  Serving(edge'[f][n])
  <2>1. PICK new : Serves(o, new)
    BY <1>4, CallsServe DEF Laid
  <2>2. CASE Set(o, new)
    <3>1. edge'[f][n] = IF w[o].cluster = f /\ NameOf[w[o].key] = n THEN new
                        ELSE edge[f][n]
      BY <1>1, <2>2 DEF Set, Becomes, EdgeTypeOK
    <3> QED
      BY <1>4, <2>1, <3>1 DEF Serves, At
  <2> QED
    BY <2>1, <2>2 DEF Serves
<1>5. ASSUME NEW o \in Operators, EdgeCall(o), w[o].cluster \notin Edges
      PROVE  Serving(edge'[f][n])
  BY <1>5, CallsAway DEF Laid
<1>6. ASSUME NEW o \in Operators, EdgeCall(o), pc[o] \in DeletePCs,
             w[o].cluster \in Edges, NameOf[w[o].key] # n
      PROVE  Serving(edge'[f][n])
  <2>1. PICK new : Serves(o, new)
    BY <1>6, CallsServe DEF Laid
  <2>2. Set(o, new) => edge'[f][n] = edge[f][n]
    BY <1>1, <1>6 DEF Set, Becomes, EdgeTypeOK
  <2> QED
    BY <2>1, <2>2 DEF Serves
<1> QED
  BY <1>2, <1>3, <1>4, <1>5, <1>6, WhoMovesSites, EdgeCallsOnly DEF AtEdge

-----------------------------------------------------------------------------
(* What a worker knows.                                                     *)

\* Only a call to the edge cluster gives a worker something to know of its site.
LEMMA OnlyEdgeCallsLayOut ==
    ASSUME FreshInv, HandlesTrue, [Next]_vars, NEW o \in Operators, LaysOut(o)'
    PROVE  EdgeCall(o) \/ (pc'[o] = pc[o] /\ w'[o] = w[o])
<1>1. TypeInv /\ WorkerTyped
  BY DEF FreshInv, LockInv, TypeInv
<1>2. pc'[o] \in {"apply", "health"} \/ (pc'[o] = "status" /\ w'[o].reason = "Deployed")
  BY DEF LaysOut, Reporting
<1>3. ASSUME NEW k \in KD, Begin(o, k) PROVE FALSE
  BY <1>1, <1>2, <1>3, BeginEffect DEF FirstStep
<1>4. ~GetCluster(o) /\ ~DelCluster(o)
  BY <1>2, LookupEffect
<1>5. ~AddFinalizer(o) /\ ~WriteStatus(o) /\ ~RemoveFinalizer(o)
  BY <1>1, <1>2 DEF AddFinalizer, WriteStatus, RemoveFinalizer, Requeue, Return,
     Step, WorkerTyped
<1> QED
  BY <1>2, <1>3, <1>4, <1>5, WorkerFlow, OtherCalls

\* Laid is preserved by a single process.
LEMMA LaidStep ==
    ASSUME FreshInv, HandlesTrue, Alone, budget["drift"] = 0, budget["keep"] = 0, Laid,
           [Next]_vars
    PROVE  Laid'
<1> SUFFICES ASSUME NEW o \in Operators, LaysOut(o)'
             PROVE  /\ w'[o].cluster \in Edges
                    /\ LaidOut(pc'[o], w'[o].reason, w'[o].todo, At(o)')
  BY DEF Laid
<1>1. /\ TypeInv /\ EdgeTypeOK /\ pc'[o] # "idle"
      /\ \A p \in Operators : p = o
  BY DEF FreshInv, LockInv, TypeInv, LaysOut, Reporting, Alone
<1>2. CASE EdgeCall(o)
  <2>1. Goes(o, pc'[o]) /\ pc[o] # "idle"
    BY <1>1, <1>2, EdgeCallsFlow DEF AtEdge, Deploying, DeletePCs
  <2>2. w[o].cluster \in Edges
    BY <1>1, <1>2, CallsAway DEF Laid
  <2>3. PICK new : Serves(o, new)
    BY <1>1, <1>2, <2>2, CallsServe DEF Laid
  <2>4. NameOf[w[o].key] \in Names
    BY <2>1, OperatorAssumption DEF FreshInv, LockInv, TypeInv, WorkerTyped, WorkOK
  <2>5. At(o)' = edge'[w[o].cluster][NameOf[w[o].key]]
    BY <2>1 DEF At, Goes
  <2>6. Set(o, new) => edge'[w[o].cluster][NameOf[w[o].key]] = new
    BY <1>1, <2>2, <2>3, <2>4 DEF Set, Becomes, EdgeTypeOK
  <2>7. At(o)' = new
    BY <2>3, <2>5, <2>6 DEF Serves, At
  <2> QED
    BY <2>1, <2>2, <2>3, <2>7 DEF Serves, Goes
<1>3. CASE ~EdgeCall(o) /\ pc'[o] = pc[o] /\ w'[o] = w[o]
  <2>1. /\ LaysOut(o) /\ w[o].cluster \in Edges
        /\ LaidOut(pc[o], w[o].reason, w[o].todo, At(o))
    BY <1>3 DEF LaysOut, Reporting, Laid
  <2>2. At(o)' = edge'[w[o].cluster][NameOf[w[o].key]]
    BY <1>3 DEF At
  <2>3. CASE UNCHANGED edge
    BY <1>3, <2>1, <2>2, <2>3 DEF At
  <2>4. ASSUME NEW e \in Edges, NEW n \in Names,
               PodsRoll(e, n) \/ NamespaceEnds(e, n) \/ Tampering(e, n)
        PROVE  LaidOut(pc[o], w[o].reason, w[o].todo, At(o)')
    <3> DEFINE site == edge[e][n]
    <3>1. PICK new \in Site :
                /\ Becomes(e, n, new)
                /\ Serving(site) => Serving(new)
                /\ site.ns = "active" =>
                      new.ns = "active" /\ new.rel = site.rel /\ new.res = site.res
      BY <1>1, <2>4, SiteMovesServe
    <3>2. edge'[w[o].cluster][NameOf[w[o].key]]
             = IF e = w[o].cluster /\ n = NameOf[w[o].key] THEN new ELSE At(o)
      BY <1>1, <2>1, <3>1 DEF Becomes, EdgeTypeOK, At
    <3>3. e = w[o].cluster /\ n = NameOf[w[o].key] => site = At(o)
      BY DEF At
    <3>4. LaidOut(pc[o], w[o].reason, w[o].todo, site)
             => LaidOut(pc[o], w[o].reason, w[o].todo, new)
      <4> HIDE DEF site
      <4> QED
        BY <3>1 DEF LaidOut
    <3> HIDE DEF site
    <3> QED
      BY <2>1, <2>2, <3>2, <3>3, <3>4
  <2> QED
    BY <1>1, <1>3, <2>1, <2>3, <2>4, WhoMovesSites
<1> QED
  BY <1>2, <1>3, OnlyEdgeCallsLayOut

\* Aimed is preserved while no Secret changes.
LEMMA AimedStep ==
    ASSUME FreshInv, HandlesTrue, Aimed, [Next]_vars
    PROVE  Aimed'
<1> DEFINE Goal(o, l) ==
      /\ ~w'[o].obj.deleting
      /\ (l \in Deploying \ {"getCluster"} \/ l = "status") =>
            LET s == ResolveTarget(w'[o].obj.spec)
            IN  w'[o].cluster = secret[s] /\ Readable(s)
<1>1. LockInv /\ TypeInv /\ WorkerTyped /\ UNCHANGED secret
  BY StepSpends DEF FreshInv, LockInv, TypeInv, HandlesTrue, Spend
<1>2. SUFFICES ASSUME NEW o \in Operators,
                      pc'[o] \in {"addFinalizer"} \cup Deploying \/ Reporting(o)'
               PROVE  Goal(o, pc'[o])
  BY <1>1 DEF Aimed, Reporting, Readable, Deploying
<1>3. /\ pc'[o] \in {"addFinalizer", "status"} \cup Deploying
      /\ pc'[o] # "idle" /\ pc'[o] \notin DeletePCs
      /\ pc'[o] = "status" => w'[o].reason = "Deployed"
  BY <1>2 DEF Reporting, Deploying, DeletePCs
<1>4. CASE pc'[o] = pc[o] /\ w'[o] = w[o]
  BY <1>2, <1>4 DEF Aimed, Reporting, Deploying
<1>5. ASSUME NEW k \in KD, Begin(o, k) PROVE Goal(o, pc'[o])
  <2>1. /\ w'[o].obj = cache[o][k] /\ pc'[o] = FirstStep(cache[o][k])
        /\ w'[o].reason # "Deployed"
    BY <1>1, <1>3, <1>5, BeginEffect
  <2>2. pc'[o] \in {"addFinalizer", "getCluster"} /\ ~cache[o][k].deleting
    BY <1>3, <2>1 DEF FirstStep, DeletePCs
  <2> QED
    BY <2>1, <2>2 DEF Deploying
<1>6. CASE EdgeCall(o)
  <2>1. Goes(o, pc'[o]) /\ pc[o] \in Deploying \ {"getCluster"} /\ pc'[o] # "addFinalizer"
    BY <1>1, <1>3, <1>6, EdgeCallsFlow DEF AtEdge, Deploying, DeletePCs
  <2> QED
    BY <2>1 DEF Goes, Aimed
<1>7. CASE AddFinalizer(o)
  <2>1. ~Requeue(o) /\ pc[o] = "addFinalizer"
    BY <1>1, <1>3, <1>7 DEF Requeue, Return, WorkerTyped, AddFinalizer
  <2>2. LET k == w[o].key
        IN  /\ kd[k] = w[o].obj /\ kd'[k] # Gone
            /\ Touched(k, kd[k].fins \cup {Ours}, kd[k].status)
            /\ Step(o, "getCluster", [w[o] EXCEPT !.obj = kd'[k]])
    BY <1>1, <1>7, <2>1, AddFinalizerEffect
  <2>3. w'[o].obj = kd'[w[o].key] /\ pc'[o] = "getCluster"
    BY <1>1, <2>2 DEF WorkerTyped, Step, Work
  <2> QED
    BY <2>1, <2>2, <2>3 DEF Touched, Aimed
<1>8. CASE GetCluster(o) \/ DelCluster(o)
  <2>1. GetCluster(o) => pc[o] = "getCluster"
    BY DEF GetCluster
  <2>2. DelCluster(o) => pc[o] = "delCluster"
    BY DEF DelCluster
  <2>3. /\ pc[o] = "getCluster" /\ w'[o].obj = w[o].obj
        /\ LET s == ResolveTarget(w[o].obj.spec)
           IN  w'[o].cluster = secret[s] /\ Readable(s)
    BY <1>3, <1>8, <2>1, <2>2, LookupEffect DEF DeletePCs
  <2> QED
    BY <2>3 DEF Aimed, Deploying
<1>9. ~WriteStatus(o) /\ ~RemoveFinalizer(o)
  BY <1>1, <1>3 DEF WriteStatus, RemoveFinalizer, Requeue, Return, WorkerTyped
<1> QED
  BY <1>3, <1>4, <1>5, <1>6, <1>7, <1>8, <1>9, WorkerFlow, OtherCalls

-----------------------------------------------------------------------------
(* Deletions.                                                               *)

\* An object that no longer claims anything does so again only by a report.
LEMMA DoomedStep ==
    ASSUME LockInv, [Next]_vars, NEW k \in KD, Doomed(k)
    PROVE  \/ Doomed(k)'
           \/ \E o \in Operators :
                /\ WriteStatus(o) /\ w[o].key = k /\ kd[k] = w[o].obj
                /\ w[o].reason = "Deployed" /\ pc'[o] = "idle"
<1>1. Used(k) => Doomed(k)'
  BY DEF Used, Doomed, NoStatus
<1>2. \A fins : Touched(k, fins, kd[k].status) /\ kd[k] # Gone => Doomed(k)'
  BY DEF Touched, Doomed
<1>3. ASSUME NEW o \in Operators, w[o].reason # "Deployed",
             Touched(k, kd[k].fins, Outcome(o, w[o].obj, w[o].reason))
      PROVE  Doomed(k)'
  BY <1>3 DEF Touched, Doomed, Outcome
<1>4. ASSUME NEW o \in Operators, AddFinalizer(o) \/ RemoveFinalizer(o), kd[k] = w[o].obj
      PROVE  kd[k] # Gone
  BY <1>4, GoneAssumption DEF AddFinalizer, RemoveFinalizer, LockInv, TypeInv,
     WorkerTyped, WorkOK
<1> QED
  BY <1>1, <1>2, <1>3, <1>4, StoredStep

\* DeletionSeen is preserved by a single process.
LEMMA DeletionSeenStep ==
    ASSUME FreshInv, HandlesTrue, Alone, Aimed, DeletionSeen, [Next]_vars
    PROVE  DeletionSeen'
<1>1. /\ LockInv /\ TypeInv /\ WorkerTyped /\ WorkOK /\ CopiesMove
      /\ \A o, p \in Operators : o = p
  BY StepsMoveCopies DEF FreshInv, LockInv, TypeInv, WorkerTyped, Alone
<1>2. ASSUME NEW o \in Operators, NEW k \in KD, cache'[o][k] # Gone, cache'[o][k].deleting
      PROVE  Doomed(k)'
  <2>1. Doomed(k)
    BY <1>1, <1>2 DEF CopiesMove, DeletionSeen, Doomed
  <2>2. ASSUME NEW p \in Operators, WriteStatus(p), w[p].key = k, kd[k] = w[p].obj,
               w[p].reason = "Deployed"
        PROVE  FALSE
    <3>1. p = o /\ cache'[o] = cache[o] /\ pc[o] = "status"
      BY <1>1, <2>2 DEF WriteStatus, local
    <3>2. ~w[o].obj.deleting
      BY <2>2, <3>1 DEF Aimed, Reporting
    <3>3. ~cache[o][k].deleting
      BY <2>2, <3>1, <3>2 DEF FreshInv, Fresh
    <3> QED
      BY <1>2, <3>1, <3>3
  <2> QED
    BY <1>1, <2>1, <2>2, DoomedStep
<1>3. ASSUME NEW o \in Operators, pc'[o] \in DeletePCs, NEW k \in KD, w'[o].key = k
      PROVE  Doomed(k)'
  <2>1. pc'[o] \notin {"idle", "status", "addFinalizer"} \cup Deploying
    BY <1>3 DEF DeletePCs, Deploying
  <2>2. ASSUME pc[o] \in DeletePCs, w'[o].key = w[o].key PROVE Doomed(k)'
    <3>1. Doomed(k)
      BY <1>3, <2>2 DEF DeletionSeen
    <3> QED
      BY <1>1, <2>1, <3>1, DoomedStep
  <2>3. ASSUME NEW j \in KD, Begin(o, j) PROVE Doomed(k)'
    <3>1. /\ cache[o][j] # Gone /\ FirstStep(cache[o][j]) = "delCluster"
          /\ w'[o].key = j /\ kd' = kd
      BY <1>1, <2>1, <2>3, BeginEffect DEF FirstStep, Deploying, home
    <3>2. cache[o][j].deleting
      BY <3>1 DEF FirstStep
    <3>3. Doomed(k)
      BY <1>3, <3>1, <3>2 DEF DeletionSeen
    <3> QED
      BY <3>1, <3>3 DEF Doomed
  <2>4. CASE Call(o)
    <3>1. CASE DelCluster(o) \/ EdgeCall(o)
      <4>1. pc[o] \in DeletePCs
        <5>1. DelCluster(o) => pc[o] \in DeletePCs
          BY DEF DelCluster, DeletePCs
        <5>2. EdgeCall(o) => pc[o] \in DeletePCs
          BY <1>1, <2>1, EdgeCallsFlow DEF AtEdge
        <5> QED
          BY <3>1, <5>1, <5>2
      <4>2. w'[o].key = w[o].key
        BY <1>1, <2>1, <2>4, CallsMove DEF Moves, KeepsGoing, ComesBack, LetsGo, LockInv
      <4> QED
        BY <2>2, <4>1, <4>2
    <3>2. CASE GetCluster(o)
      <4>1. pc[o] = "getCluster"
        BY <3>2 DEF GetCluster
      <4> QED
        BY <2>1, <3>2, <4>1, LookupEffect DEF Deploying
    <3>3. CASE AddFinalizer(o) \/ WriteStatus(o) \/ RemoveFinalizer(o)
      BY <1>1, <2>1, <3>3 DEF AddFinalizer, WriteStatus, RemoveFinalizer, Requeue, Return,
         Step, WorkerTyped, Deploying
    <3> QED
      BY <2>4, <3>1, <3>2, <3>3, OtherCalls
  <2>5. CASE pc'[o] = pc[o] /\ w'[o] = w[o]
    BY <1>3, <2>2, <2>5
  <2> QED
    BY <2>1, <2>3, <2>4, <2>5, WorkerFlow
<1>4. TypeInv'
  BY <1>1, LockStep DEF LockInv
<1>5. ASSUME NEW o \in Operators, pc'[o] \in DeletePCs PROVE w'[o].key \in KD
  BY <1>4, <1>5 DEF TypeInv, WorkerTyped, WorkOK, DeletePCs
<1> QED
  BY <1>2, <1>3, <1>5 DEF DeletionSeen, Doomed

-----------------------------------------------------------------------------
(* Claims.                                                                  *)

\* A claim is made by a report of success, or was made before; meanwhile nothing
\* but the finalizers of the object has changed.
LEMMA ClaimStep ==
    ASSUME LockInv, StatusFollows, [Next]_vars, NEW k \in KD, Claims(k)'
    PROVE  /\ kd[k] # Gone /\ kd'[k].spec = kd[k].spec /\ kd'[k].deleting = kd[k].deleting
           /\ \/ Claims(k)
              \/ \E o \in Operators : /\ WriteStatus(o) /\ w[o].key = k /\ kd[k] = w[o].obj
                                      /\ w[o].reason = "Deployed"
<1>1. /\ kd'[k] # Gone /\ kd'[k].status.reason = "Deployed"
      /\ kd'[k].status.obs = kd'[k].gen
  BY DEF Claims
<1>2. kd[k] # Gone => /\ kd[k].gen \in Nat /\ kd[k].status.obs \in Nat
                      /\ kd[k].status.obs <= kd[k].gen
  BY DEF LockInv, TypeInv, HomeTypeOK, Object, Status, StatusFollows
<1>3. CASE Used(k)
  <2>1. kd[k] # Gone /\ kd'[k].status = kd[k].status
    BY <1>1, <1>3 DEF Used, NoStatus
  <2>2. kd'[k].gen # kd[k].gen + 1
    BY <1>1, <1>2, <2>1
  <2> QED
    BY <1>1, <1>3, <2>1, <2>2 DEF Used, Claims
<1>4. ASSUME NEW fins, Touched(k, fins, kd[k].status), kd[k] # Gone
      PROVE  Claims(k) /\ kd'[k].spec = kd[k].spec /\ kd'[k].deleting = kd[k].deleting
  BY <1>1, <1>4 DEF Touched, Claims
<1>5. ASSUME NEW o \in Operators, kd[k] = w[o].obj,
             Touched(k, kd[k].fins, Outcome(o, w[o].obj, w[o].reason))
      PROVE  /\ w[o].reason = "Deployed"
             /\ kd'[k].spec = kd[k].spec /\ kd'[k].deleting = kd[k].deleting
  BY <1>1, <1>5 DEF Touched, Outcome
<1>6. ASSUME NEW o \in Operators, AddFinalizer(o) \/ RemoveFinalizer(o) \/ WriteStatus(o),
             kd[k] = w[o].obj
      PROVE  kd[k] # Gone
  BY <1>6, GoneAssumption DEF AddFinalizer, RemoveFinalizer, WriteStatus, LockInv, TypeInv,
     WorkerTyped, WorkOK
<1> QED
  BY <1>3, <1>4, <1>5, <1>6, StoredStep

\* ClaimsHold is preserved by a single process.
LEMMA ClaimsStep ==
    ASSUME FreshInv, HandlesTrue, StatusFollows, budget["drift"] = 0, budget["keep"] = 0,
           Undisturbed, Aimed, Laid, DeletionSeen, ClaimsHold, [Next]_vars
    PROVE  ClaimsHold'
<1> SUFFICES ASSUME NEW k \in KD, Claims(k)'
             PROVE  /\ ~kd'[k].deleting /\ Reachable(k)'
                    /\ Serving(edge'[Target(k)'][NameOf[k]])
  BY DEF ClaimsHold
<1>1. LockInv /\ TypeInv /\ WorkerTyped /\ WorkOK /\ UNCHANGED secret
  BY StepSpends DEF FreshInv, LockInv, TypeInv, WorkerTyped, HandlesTrue, Spend
<1>2. kd[k] # Gone /\ kd'[k].spec = kd[k].spec /\ kd'[k].deleting = kd[k].deleting
  BY <1>1, ClaimStep
<1>3. /\ Target(k)' = Target(k) /\ Reachable(k)' = Reachable(k)
  BY <1>1, <1>2 DEF Target, Reachable, Readable
<1>4. CASE Claims(k)
  <2>1. /\ ~kd[k].deleting /\ Reachable(k) /\ Serving(edge[Target(k)][NameOf[k]])
    BY <1>4 DEF ClaimsHold
  <2>2. Target(k) \in Edges /\ NameOf[k] \in Names
    BY <2>1, OperatorAssumption DEF Reachable
  <2>3. ASSUME NEW o \in Operators, pc[o] \in DeletePCs, NameOf[w[o].key] = NameOf[k]
        PROVE  FALSE
    <3>1. w[o].key = k
      BY <1>1, <2>3 DEF WorkOK, DeletePCs, Undisturbed
    <3> QED
      BY <1>4, <2>1, <2>3, <3>1 DEF DeletionSeen, Doomed, Claims
  <2> DEFINE f == Target(k)
             n == NameOf[k]
  <2>4. Serving(edge'[f][n])
    <3>1. f \in Edges /\ n \in Names /\ Serving(edge[f][n])
      BY <2>1, <2>2
    <3>2. ~\E o \in Operators : EdgeCall(o) /\ pc[o] \in DeletePCs /\ NameOf[w[o].key] = n
      BY <2>3
    <3> HIDE DEF f, n
    <3> QED
      BY <1>1, <3>1, <3>2, ServingStep
  <2> QED
    BY <1>2, <1>3, <2>1, <2>4
<1>5. ASSUME NEW o \in Operators, WriteStatus(o), w[o].key = k, kd[k] = w[o].obj,
             w[o].reason = "Deployed"
      PROVE  /\ ~kd[k].deleting /\ Reachable(k)
             /\ Serving(edge'[Target(k)][NameOf[k]])
  <2>1. pc[o] = "status" /\ Reporting(o) /\ UNCHANGED edge
    BY <1>5 DEF WriteStatus, Reporting
  <2>2. /\ ~kd[k].deleting /\ w[o].cluster = Target(k)
        /\ Readable(ResolveTarget(kd[k].spec))
    BY <1>5, <2>1 DEF Aimed, Target
  <2>3. w[o].cluster \in Edges /\ Serving(At(o))
    BY <1>5, <2>1 DEF Laid, LaysOut, LaidOut
  <2> QED
    BY <1>5, <2>1, <2>2, <2>3 DEF Reachable, At
<1> QED
  BY <1>1, <1>2, <1>3, <1>4, <1>5, ClaimStep

-----------------------------------------------------------------------------
(* The inductive invariant.                                                 *)

ReadyInv ==
    /\ FreshInv /\ HandlesTrue /\ StatusFollows
    /\ budget["drift"] = 0 /\ budget["keep"] = 0
    /\ Aimed /\ Laid /\ DeletionSeen /\ ClaimsHold

\* ReadyInv is inductive.
LEMMA ReadyStep ==
    ASSUME Undisturbed
    PROVE  ReadyInv /\ [Next]_vars => ReadyInv'
<1> SUFFICES ASSUME ReadyInv, [Next]_vars PROVE ReadyInv'
  OBVIOUS
<1>1. FreshInv' /\ HandlesTrue' /\ StatusFollows'
  BY FreshStep, HandlesStep, StatusStep DEF ReadyInv, FreshInv
<1>2. budget'["drift"] = 0 /\ budget'["keep"] = 0
  <2>1. BudgetTyped /\ "drift" \in Kinds /\ "keep" \in Kinds
    BY DEF ReadyInv, FreshInv, LockInv, TypeInv, Kinds
  <2> QED
    BY <2>1, SpentStays DEF ReadyInv
<1>3. Aimed' /\ Laid'
  BY AimedStep, LaidStep DEF ReadyInv, Undisturbed
<1>4. DeletionSeen' /\ ClaimsHold'
  BY DeletionSeenStep, ClaimsStep DEF ReadyInv, Undisturbed
<1> QED
  BY <1>1, <1>2, <1>3, <1>4 DEF ReadyInv

\* ReadyInv holds at the start, where nothing is claimed.
LEMMA ReadyInit ==
    ASSUME Undisturbed
    PROVE  Init => ReadyInv
<1> SUFFICES ASSUME Init PROVE ReadyInv
  OBVIOUS
<1>1. FreshInv /\ HandlesTrue /\ StatusFollows
  BY FreshInit, HandlesInit DEF Undisturbed, Init, HomeInit, StatusFollows
<1>2. budget["drift"] = 0 /\ budget["keep"] = 0
  BY DEF Init, Undisturbed
<1>3. Aimed /\ Laid /\ DeletionSeen /\ ClaimsHold
  BY DEF Init, HomeInit, Aimed, Laid, DeletionSeen, ClaimsHold, Reporting, LaysOut,
     Deploying, DeletePCs, Claims
<1> QED
  BY <1>1, <1>2, <1>3 DEF ReadyInv

\* Ready is never said of an object whose present spec does not lead to an edge
\* cluster with its complete release and with pods, whatever crashes, faults,
\* edits, deletions and re-creations come between a reconcile's calls
\* (rcedDeployAndStatus, line 626, and the status update after it).
THEOREM ReadyIsServed ==
    ASSUME Undisturbed
    PROVE  Spec => []ReadyMeansServed
<1>1. ReadyInv => ReadyMeansServed
  BY DEF ReadyInv, ClaimsHold, Claims, Serving, ReadyMeansServed
<1>2. ReadyInv /\ [Next]_vars => ReadyInv'
  BY ReadyStep
<1>3. Init => ReadyInv
  BY ReadyInit
<1> QED
  BY <1>1, <1>2, <1>3, PTL DEF Spec
=============================================================================
