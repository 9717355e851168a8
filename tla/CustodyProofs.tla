--------------------------- MODULE CustodyProofs ---------------------------
(***************************************************************************)
(* The operator keeps custody of what it puts on an edge cluster, and so   *)
(* orphans nothing, for any number of objects, edges and resources, with   *)
(* any faults, crashes and edits that the circumstances Custodial admit.   *)
(***************************************************************************)
EXTENDS FreshProofs

-----------------------------------------------------------------------------
(* What is on a site, and how far a worker has come with it.                *)

\* Something of a release that outlives the namespace.
Left(site) == \E r \in ClusterScoped : site.res[r] # NoChart

\* There is a release to uninstall as long as there is anything for it to remove.
Neat(site) == Left(site) => site.ns = "active" /\ site.rel \notin {"none", "uninstalled"}

\* What the worker knows of its site at label l with todo still to be done.
Phase(l, todo, site) ==
    /\ l \in {"apply", "fail"}
          => ClusterScoped = {} \/ (site.ns = "active" /\ site.rel = "pending")
    /\ l = "remove" => \A r \in ClusterScoped \ todo : site.res[r] = NoChart
    /\ l \in {"delNamespace", "removeFinalizer"} => ~Left(site)
    /\ l = "removeFinalizer" => site.ns # "active"

\* Where a worker is of no consequence to its site.
Harmless == Labels \ {"apply", "fail", "remove", "delNamespace", "removeFinalizer"}

\* The edge's own controllers and people, who take nothing by hand if releases
\* have something outside their namespace.
LEMMA SiteMoves ==
    ASSUME TypeInv, NEW e \in Edges, NEW n \in Names,
           PodsRoll(e, n) \/ NamespaceEnds(e, n) \/ Tampering(e, n),
           ClusterScoped = {} \/ budget["drift"] = 0
    PROVE  LET site == edge[e][n]
           IN  \E new \in Site :
                 /\ Becomes(e, n, new)
                 /\ Neat(site) => Neat(new) /\ (Occupied(new) => Occupied(site))
                 /\ \A l, todo : Neat(site) /\ Phase(l, todo, site) => Phase(l, todo, new)
<1> DEFINE site == edge[e][n]
           Goal(new) ==
                 /\ Becomes(e, n, new)
                 /\ Neat(site) => Neat(new) /\ (Occupied(new) => Occupied(site))
                 /\ \A l, todo : Neat(site) /\ Phase(l, todo, site) => Phase(l, todo, new)
<1>1. site \in Site /\ ClusterScoped \subseteq Resources
  <2>1. site \in Site
    BY DEF TypeInv, EdgeTypeOK
  <2> QED
    BY <2>1, EdgeAssumption
<1> HIDE DEF site
<1>2. ASSUME NEW new \in Site, Becomes(e, n, new), new.ns \in {site.ns, "terminating"},
             ClusterScoped = {}
      PROVE  Goal(new)
  <2>1. /\ ~Left(new) /\ \A todo : ClusterScoped \ todo = {}
        /\ new.ns = "active" => site.ns = "active"
    BY <1>2 DEF Left
  <2>2. Neat(new) /\ (Occupied(new) => Occupied(site))
    BY <2>1 DEF Neat, Occupied, Left
  <2>3. ASSUME NEW l, NEW todo, Phase(l, todo, site) PROVE Phase(l, todo, new)
    BY <1>2, <2>1, <2>3 DEF Phase
  <2> QED
    BY <1>2, <2>2, <2>3
<1>3. ASSUME NEW new \in Site, Becomes(e, n, new), new.ns = site.ns, new.rel = site.rel,
             \A r \in ClusterScoped : new.res[r] = site.res[r]
      PROVE  Goal(new)
  BY <1>3 DEF Neat, Phase, Occupied, Left
<1>4. CASE Rollout(e, n)
  <2> DEFINE new == [site EXCEPT !.pods = site.res[Workload]]
  <2>1. Becomes(e, n, new) /\ new \in Site
    BY <1>1, <1>4, SitesTyped DEF Rollout, site
  <2>2. new.ns = site.ns /\ new.rel = site.rel /\ new.res = site.res
    BY <1>1, SitesTyped, PodsEffect
  <2> HIDE DEF new
  <2> QED
    BY <1>3, <2>1, <2>2 DEF site
<1>5. CASE TerminateNs(e, n)
  <2> DEFINE new == Wiped(site)
  <2>1. Becomes(e, n, new) /\ new \in Site /\ site.ns = "terminating"
    BY <1>1, <1>5, WipedEffect DEF TerminateNs, site
  <2>2. /\ new.ns = "absent"
        /\ \A r \in ClusterScoped : new.res[r] = site.res[r]
    BY <1>1, WipedEffect
  <2> HIDE DEF new
  <2>3. Left(new) => Left(site)
    BY <2>2 DEF Left
  <2>4. Neat(site) => Neat(new) /\ (Occupied(new) => Occupied(site))
    BY <2>1, <2>2, <2>3 DEF Neat, Occupied, Left
  <2>5. ASSUME NEW l, NEW todo, Phase(l, todo, site) PROVE Phase(l, todo, new)
    BY <2>1, <2>2, <2>3, <2>5 DEF Phase
  <2> QED
    BY <2>1, <2>4, <2>5 DEF site
<1>6. CASE Drift(e, n) /\ Spend("drift")
  <2>1. ClusterScoped = {}
    BY <1>6 DEF Spend, TypeInv, BudgetTyped
  <2>2. ASSUME NEW r \in Resources, Becomes(e, n, Without(site, {r}))
        PROVE  Goal(Without(site, {r})) /\ Without(site, {r}) \in Site
    BY <1>1, <1>2, <2>1, <2>2, WithoutEffect
  <2>3. ASSUME Becomes(e, n, Recorded(site, "none"))
        PROVE  Goal(Recorded(site, "none")) /\ Recorded(site, "none") \in Site
    <3>1. "none" \in RelStatus
      BY DEF RelStatus
    <3>2. Recorded(site, "none") \in Site /\ Recorded(site, "none").ns = site.ns
      BY <1>1, <3>1, RecordedEffect
    <3> QED
      BY <1>2, <2>1, <2>3, <3>2
  <2>4. ASSUME Becomes(e, n, [site EXCEPT !.ns = "terminating"])
        PROVE  /\ Goal([site EXCEPT !.ns = "terminating"])
               /\ [site EXCEPT !.ns = "terminating"] \in Site
    <3>1. /\ [site EXCEPT !.ns = "terminating"] \in Site
          /\ [site EXCEPT !.ns = "terminating"].ns \in {site.ns, "terminating"}
      BY <1>1, NamespaceEffect
    <3> QED
      BY <1>2, <2>1, <2>4, <3>1
  <2>5. ASSUME Becomes(e, n, [site EXCEPT !.pods = NoChart])
        PROVE  /\ Goal([site EXCEPT !.pods = NoChart])
               /\ [site EXCEPT !.pods = NoChart] \in Site
    <3>1. /\ [site EXCEPT !.pods = NoChart] \in Site
          /\ [site EXCEPT !.pods = NoChart].ns = site.ns
      BY <1>1, PodsEffect
    <3> QED
      BY <1>2, <2>1, <2>5, <3>1
  <2> QED
    BY <1>6, <2>2, <2>3, <2>4, <2>5 DEF Drift, site
<1>7. CASE UninstallKeepingHistory(e, n)
  <2> DEFINE bare == Without(site, Resources)
             new == Recorded(bare, "uninstalled")
  <2>1. bare \in Site /\ bare.ns = site.ns /\ \A r \in Resources : bare.res[r] = NoChart
    BY <1>1, WithoutEffect
  <2>2. "uninstalled" \in RelStatus
    BY DEF RelStatus
  <2> HIDE DEF bare
  <2>3. /\ new \in Site
        /\ new.ns = site.ns /\ new.res = bare.res
    BY <2>1, <2>2, RecordedEffect
  <2>4. Becomes(e, n, new) /\ site.rel \in {"deployed", "failed"}
    BY <1>7 DEF UninstallKeepingHistory, site, bare
  <2> HIDE DEF new
  <2>5. ~Left(new)
    BY <1>1, <2>1, <2>3 DEF Left
  <2>6. Neat(new) /\ (Occupied(new) => Occupied(site))
    BY <2>3, <2>5 DEF Neat, Occupied, Left
  <2>7. ASSUME NEW l, NEW todo, Phase(l, todo, site) PROVE Phase(l, todo, new)
    BY <2>3, <2>4, <2>5, <2>7 DEF Phase, Left
  <2> QED
    BY <2>3, <2>4, <2>6, <2>7 DEF site
<1> QED
  BY <1>4, <1>5, <1>6, <1>7 DEF PodsRoll, NamespaceEnds, Tampering, site

\* The calls of a worker, none of which fails once it cleans up.
LEMMA CallsKeepSites ==
    ASSUME TypeInv, CleanUpSucceeds, NEW o \in Operators, EdgeCall(o), pc[o] # "idle",
           w[o].cluster \in Edges, Neat(At(o)), Phase(pc[o], w[o].todo, At(o))
    PROVE  \E new \in Site :
              /\ Set(o, new) \/ (UNCHANGED edge /\ new = At(o))
              /\ Neat(new) /\ Phase(pc'[o], w'[o].todo, new)
              /\ Occupied(new) => Occupied(At(o)) \/ pc[o] \in Deploying
<1> DEFINE site == At(o)
           Goal(new) ==
              /\ new \in Site
              /\ Set(o, new) \/ (UNCHANGED edge /\ new = site)
              /\ Neat(new) /\ Phase(pc'[o], w'[o].todo, new)
              /\ Occupied(new) => Occupied(site) \/ pc[o] \in Deploying
<1>1. /\ WorkerTyped /\ site \in Site /\ \A r \in ClusterScoped : r \in Resources
      /\ \A call \in {"uninstall", "delNamespace"} : ~CallFails(o, call)
  BY AtTyped, EdgeAssumption DEF TypeInv, CleanUpSucceeds, CallFails, Fault
<1> SUFFICES \E new : Goal(new)
  OBVIOUS
<1> HIDE DEF site
<1>2. /\ \A l : Goto(o, l) => pc'[o] = l /\ w'[o].todo = w[o].todo
      /\ \A reason : Report(o, reason) => pc'[o] = "status"
      /\ Requeue(o) => pc'[o] = "idle"
  BY <1>1, StepGoes DEF Goes, Requeue
<1>3. /\ \A l, b : Step(o, l, [w[o] EXCEPT !.repair = b]) => pc'[o] = l
      /\ \A l, todo : Step(o, l, [w[o] EXCEPT !.todo = todo])
                         => pc'[o] = l /\ w'[o].todo = todo
      /\ \A l, todo, op : Step(o, l, [w[o] EXCEPT !.todo = todo, !.op = op])
                         => pc'[o] = l
      /\ \A l, todo, b : Step(o, l, [w[o] EXCEPT !.todo = todo, !.repair = b])
                         => pc'[o] = l
  <2>1. \A l, b : Step(o, l, [w[o] EXCEPT !.repair = b]) => pc'[o] = l
    BY <1>1 DEF Step, WorkerTyped
  <2>2. \A l, todo : Step(o, l, [w[o] EXCEPT !.todo = todo])
                         => pc'[o] = l /\ w'[o].todo = todo
    BY <1>1 DEF Step, WorkerTyped, Work
  <2>3. /\ \A l, todo, op : Step(o, l, [w[o] EXCEPT !.todo = todo, !.op = op])
                         => pc'[o] = l
        /\ \A l, todo, b : Step(o, l, [w[o] EXCEPT !.todo = todo, !.repair = b])
                         => pc'[o] = l
    BY <1>1 DEF Step, WorkerTyped
  <2> QED
    BY <2>1, <2>2, <2>3
<1>4. "pending" \in RelStatus /\ "deployed" \in RelStatus /\ "failed" \in RelStatus
      /\ "uninstalling" \in RelStatus /\ "none" \in RelStatus
  BY DEF RelStatus
<1>5. ASSUME UNCHANGED edge, pc'[o] \in Harmless PROVE \E new : Goal(new)
  BY <1>1, <1>5 DEF Harmless, Phase, site
<1>6. CASE \/ NsGet(o) \/ History(o) \/ GetRelease(o) \/ \E r \in Resources : CheckOne(o, r)
           \/ FetchChart(o) \/ ChooseOp(o) \/ Health(o)
  <2>1. NsGet(o) => UNCHANGED edge /\ pc'[o] \in {"idle", "nsCreate", "history"}
    BY <1>2 DEF NsGet
  <2>2. History(o) \/ GetRelease(o)
           => UNCHANGED edge /\ pc'[o] \in {"chart", "getRelease", "check", "status"}
    BY <1>2, <1>3 DEF History, GetRelease, Repair
  <2>3. FetchChart(o) \/ ChooseOp(o)
           => UNCHANGED edge /\ pc'[o] \in {"status", "chooseOp", "install", "upgrade"}
    BY <1>2 DEF FetchChart, ChooseOp, HelmOp, DeployFailed
  <2>4. Health(o) => UNCHANGED edge /\ pc'[o] = "status"
    BY <1>2 DEF Health
  <2>5. ASSUME NEW r \in Resources, CheckOne(o, r)
        PROVE  UNCHANGED edge /\ pc'[o] \in {"chart", "check"}
    BY <1>3, <2>5 DEF CheckOne
  <2>6. {"idle", "nsCreate", "history", "chart", "getRelease", "check", "status", "chooseOp",
         "install", "upgrade"} \subseteq Harmless
    BY DEF Harmless, Labels
  <2> QED
    BY <1>5, <1>6, <2>1, <2>2, <2>3, <2>4, <2>5, <2>6
<1>7. CASE NsCreate(o)
  <2>1. CASE /\ site.ns = "absent" /\ Set(o, [site EXCEPT !.ns = "active"])
             /\ Goto(o, "history")
    <3> DEFINE new == [site EXCEPT !.ns = "active"]
    <3>1. new \in Site /\ new.rel = site.rel /\ new.res = site.res
      BY <1>1, NamespaceEffect
    <3>2. pc'[o] = "history" /\ pc[o] = "nsCreate"
      BY <1>2, <1>7, <2>1 DEF NsCreate
    <3>3. ~Left(new)
      BY <2>1, <3>1 DEF Left, Neat, site
    <3> HIDE DEF new
    <3>4. Goal(new)
      BY <2>1, <3>1, <3>2, <3>3 DEF Neat, Phase, Deploying, new
    <3> QED
      BY <3>4
  <2>2. CASE UNCHANGED edge /\ Requeue(o)
    <3>1. "idle" \in Harmless
      BY DEF Harmless, Labels
    <3> QED
      BY <1>2, <1>5, <2>2, <3>1
  <2> QED
    BY <1>7, <2>1, <2>2 DEF NsCreate, site
<1>8. CASE Install(o) \/ Upgrade(o)
  <2>1. CASE /\ site.ns = "active" /\ Set(o, Recorded(site, "pending"))
             /\ \E l : Step(o, "apply", [w[o] EXCEPT !.todo = Resources, !.op = l])
    <3> DEFINE new == Recorded(site, "pending")
    <3>1. new \in Site /\ new.rel = "pending" /\ new.ns = "active"
      BY <1>1, <1>4, <2>1, RecordedEffect
    <3>2. pc'[o] = "apply" /\ Set(o, new)
      BY <1>3, <2>1
    <3> HIDE DEF new
    <3>3. Goal(new)
      BY <2>1, <3>1, <3>2 DEF Neat, Phase, Occupied
    <3> QED
      BY <3>3
  <2>2. CASE UNCHANGED edge /\ DeployFailed(o)
    <3>1. "status" \in Harmless
      BY DEF Harmless, Labels
    <3> QED
      BY <1>2, <1>5, <2>2, <3>1 DEF DeployFailed
  <2> QED
    BY <1>8, <2>1, <2>2 DEF Install, Upgrade, Start, Installable, Upgradable, site
<1>9. ASSUME NEW r \in Resources, ApplyOne(o, r) PROVE \E new : Goal(new)
  <2> DEFINE new == Applied(site, r, ChartOf[o])
  <2>1. /\ new \in Site /\ new.rel = site.rel /\ new.ns = site.ns
        /\ \A q \in Resources \ {r} : new.res[q] = site.res[q]
    <3>1. ChartOf[o] \in Charts
      BY OperatorAssumption
    <3> QED
      BY <1>1, <3>1, AppliedEffect
  <2>2. pc'[o] = "apply" /\ Set(o, new) /\ pc[o] = "apply"
    BY <1>3, <1>9 DEF ApplyOne, site
  <2> HIDE DEF new
  <2>3. ClusterScoped = {} \/ (new.ns = "active" /\ new.rel = "pending")
    BY <2>1, <2>2 DEF Phase, site
  <2>4. Left(new) => new.ns = "active" /\ new.rel = "pending"
    BY <2>3 DEF Left
  <2>5. Goal(new)
    BY <2>1, <2>2, <2>3, <2>4 DEF Neat, Phase, Deploying
  <2> QED
    BY <2>5
<1>10. CASE CloseRecord(o) \/ FailRecord(o)
  <2>1. pc'[o] \in {"health", "status"} /\ pc[o] \in {"apply", "fail"}
    <3>1. /\ DeployDone(o) => pc'[o] \in {"health", "status"}
          /\ DeployFailed(o) => pc'[o] = "status"
      BY <1>2 DEF DeployDone, DeployFailed
    <3> QED
      BY <1>10, <3>1 DEF CloseRecord, FailRecord, Unrecorded
  <2>2. \/ UNCHANGED edge \/ Set(o, site)
        \/ \E status \in {"deployed", "failed"} : Set(o, Recorded(site, status))
    BY <1>10 DEF CloseRecord, FailRecord, site
  <2>3. ASSUME NEW status \in {"deployed", "failed"}, Set(o, Recorded(site, status))
        PROVE  \E new : Goal(new)
    <3> DEFINE new == Recorded(site, status)
    <3>1. /\ new \in Site /\ new.rel = status /\ new.ns = site.ns /\ new.res = site.res
          /\ Set(o, new)
      BY <1>1, <1>4, <2>3, RecordedEffect
    <3> HIDE DEF new
    <3>2. Goal(new)
      BY <2>1, <3>1 DEF Neat, Phase, Deploying, Left, site
    <3> QED
      BY <3>2
  <2>4. CASE UNCHANGED edge \/ Set(o, site)
    <3>1. Goal(site)
      BY <1>1, <2>1, <2>4 DEF Phase, site
    <3> QED
      BY <3>1
  <2> QED
    BY <2>2, <2>3, <2>4
<1>11. CASE ApplyFails(o)
  <2>1. UNCHANGED edge /\ pc[o] = "apply" /\ pc'[o] = "fail"
    BY <1>3, <1>11 DEF ApplyFails
  <2>2. Goal(site)
    BY <1>1, <2>1 DEF Phase, site
  <2> QED
    BY <2>2
<1>12. CASE DelHistory(o)
  <2>1. /\ UNCHANGED edge
        /\ pc'[o] = "delNamespace" => site.rel = "none"
        /\ pc'[o] \in {"delNamespace", "uninstall"}
    BY <1>1, <1>2, <1>12 DEF DelHistory, site
  <2>2. Goal(site)
    BY <1>1, <2>1 DEF Neat, Phase, site
  <2> QED
    BY <2>2
<1>13. CASE Uninstall(o)
  <2>1. \/ /\ site.rel \notin {"none", "uninstalled"}
           /\ Set(o, Recorded(site, "uninstalling"))
           /\ Step(o, "remove", [w[o] EXCEPT !.todo = Resources])
        \/ /\ site.rel \in {"none", "uninstalled"}
           /\ Set(o, Recorded(site, "none"))
           /\ Goto(o, "delNamespace")
    BY <1>1, <1>13 DEF Uninstall, site
  <2>2. ASSUME NEW status \in {"uninstalling", "none"}, Set(o, Recorded(site, status)),
               \/ /\ status = "uninstalling"
                  /\ pc'[o] = "remove" /\ w'[o].todo = Resources
               \/ /\ ~Left(site) /\ pc'[o] = "delNamespace"
        PROVE  \E new : Goal(new)
    <3> DEFINE new == Recorded(site, status)
    <3>1. /\ new \in Site /\ new.rel = status /\ new.ns = site.ns /\ new.res = site.res
          /\ Set(o, new)
      BY <1>1, <1>4, <2>2, RecordedEffect
    <3> HIDE DEF new
    <3>2. /\ Left(new) => Left(site)
          /\ Occupied(new) => Occupied(site)
      BY <3>1 DEF Left, Occupied
    <3>3. Neat(new) /\ Phase(pc'[o], w'[o].todo, new)
      BY <1>1, <2>2, <3>1, <3>2 DEF Neat, Phase, site
    <3>4. Goal(new)
      BY <3>1, <3>2, <3>3
    <3> QED
      BY <3>4
  <2> QED
    BY <1>2, <1>3, <2>1, <2>2 DEF Neat, site
<1>14. ASSUME NEW r \in Resources, RemoveOne(o, r) PROVE \E new : Goal(new)
  <2> DEFINE new == Without(site, {r})
  <2>1. /\ new \in Site /\ new.rel = site.rel /\ new.ns = site.ns
        /\ new.res[r] = NoChart
        /\ \A q \in Resources \ {r} : new.res[q] = site.res[q]
    BY <1>1, WithoutEffect
  <2>2. pc'[o] = "remove" /\ w'[o].todo = w[o].todo \ {r} /\ Set(o, new) /\ pc[o] = "remove"
    BY <1>3, <1>14 DEF RemoveOne, site
  <2> HIDE DEF new
  <2>3. /\ Left(new) => Left(site)
        /\ Occupied(new) => Occupied(site)
    BY <1>1, <2>1 DEF Left, Occupied
  <2>4. Neat(new)
    BY <2>1, <2>3 DEF Neat, site
  <2>5. Phase(pc'[o], w'[o].todo, new)
    BY <1>1, <2>1, <2>2 DEF Phase, site
  <2>6. Goal(new)
    BY <2>1, <2>2, <2>3, <2>4, <2>5
  <2> QED
    BY <2>6
<1>15. CASE UninstallEnd(o)
  <2> DEFINE new == Recorded(site, "none")
  <2>1. new \in Site /\ new.ns = site.ns /\ new.res = site.res
    BY <1>1, <1>4, RecordedEffect
  <2>2. pc'[o] = "delNamespace" /\ Set(o, new) /\ pc[o] = "remove" /\ w[o].todo = {}
    BY <1>2, <1>15 DEF UninstallEnd, site
  <2> HIDE DEF new
  <2>3. ~Left(new) /\ (Occupied(new) => Occupied(site))
    BY <2>1, <2>2 DEF Left, Phase, Occupied, site
  <2>4. Goal(new)
    BY <2>1, <2>2, <2>3 DEF Neat, Phase
  <2> QED
    BY <2>4
<1>16. CASE DelNamespace(o)
  <2>1. \E x \in {"absent", "terminating"} : Set(o, [site EXCEPT !.ns = x])
    BY <1>1, <1>16 DEF DelNamespace, site
  <2>2. PICK x \in {"absent", "terminating"} : Set(o, [site EXCEPT !.ns = x])
    BY <2>1
  <2> DEFINE new == [site EXCEPT !.ns = x]
  <2>3. new \in Site /\ new.ns = x /\ new.res = site.res
    BY <1>1, NamespaceEffect
  <2>4. pc'[o] = "removeFinalizer" /\ Set(o, new) /\ pc[o] = "delNamespace"
    BY <1>2, <1>16, <2>2 DEF DelNamespace
  <2> HIDE DEF new
  <2>5. ~Left(new) /\ ~Occupied(new)
    BY <2>3, <2>4 DEF Left, Phase, Occupied, site
  <2>6. Goal(new)
    BY <2>3, <2>4, <2>5 DEF Neat, Phase
  <2> QED
    BY <2>6
<1>17. ~UninstallFails(o)
  BY <1>1 DEF UninstallFails
<1> QED
  BY <1>6, <1>7, <1>8, <1>9, <1>10, <1>11, <1>12, <1>13, <1>14, <1>15, <1>16,
     <1>17 DEF EdgeCall

-----------------------------------------------------------------------------
(* Where a worker goes, and for which objects.                              *)

\* Every copy of an object carries a spec that a user wrote,
FromUsers == \A k \in KD : \A c \in Copies(k) \ {Gone} : c.spec \in Specs

\* all of which lead to one edge cluster.
LeadTo(e) ==
    /\ e \in Edges
    /\ \A spec \in Specs : Readable(ResolveTarget(spec)) /\ secret[ResolveTarget(spec)] = e

OnlyAt(e) == \A o \in Operators : pc[o] \in AtEdge => w[o].cluster = e

Bears(obj) == obj # Gone /\ Ours \in obj.fins

\* An object bears the finalizer while a cache takes it for one to be deployed,
\* and while a worker deploys it.
Held ==
    /\ \A o \in Operators, k \in KD :
          Bears(cache[o][k]) /\ ~cache[o][k].deleting => Bears(kd[k])
    /\ \A o \in Operators : pc[o] \in Deploying => Bears(kd[w[o].key])

\* FromUsers is preserved.
LEMMA FromUsersStep == LockInv /\ FromUsers /\ [Next]_vars => FromUsers'
<1> SUFFICES ASSUME LockInv, FromUsers, [Next]_vars,
                    NEW k \in KD, NEW c \in Copies(k)' \ {Gone}
             PROVE  c.spec \in Specs
  BY DEF FromUsers
<1>1. CopiesMove
  BY StepsMoveCopies DEF LockInv
<1>2. c \in Copies(k) \cup {kd'[k]}
  <2>1. /\ \A o \in Operators : cache'[o][k] \in Copies(k) \cup {Gone}
        /\ \A o \in Operators : w'[o].key = k => w'[o].obj \in Copies(k) \cup {kd'[k], Gone}
    BY <1>1 DEF CopiesMove, Copies
  <2> QED
    BY <2>1 DEF Copies
<1>3. kd[k] \in Copies(k)
  BY DEF Copies
<1>4. kd'[k] # Gone => kd'[k].spec \in Specs
  <2>1. kd[k] # Gone => kd[k].spec \in Specs
    BY <1>3 DEF FromUsers
  <2>2. \A fins, status : Touched(k, fins, status) /\ kd[k] # Gone /\ kd'[k] # Gone
                             => kd'[k].spec \in Specs
    BY <2>1 DEF Touched
  <2>3. Used(k) /\ kd'[k] # Gone => kd'[k].spec \in Specs
    BY <2>1 DEF Used
  <2>4. \A o \in Operators : AddFinalizer(o) \/ RemoveFinalizer(o) \/ WriteStatus(o)
                             => w[o].obj # Gone
    BY GoneAssumption DEF AddFinalizer, RemoveFinalizer, WriteStatus, LockInv, TypeInv,
       WorkerTyped, WorkOK
  <2>5. \/ Used(k)
        \/ \E fins, status : kd[k] # Gone /\ Touched(k, fins, status)
    BY <2>4, StoredStep
  <2> QED
    BY <2>2, <2>3, <2>5
<1> QED
  BY <1>2, <1>4 DEF FromUsers

\* LeadTo is preserved while no Secret changes.
LEMMA LeadToStep ==
    ASSUME HandlesTrue, NEW e, LeadTo(e), [Next]_vars
    PROVE  LeadTo(e)'
  BY StepSpends DEF HandlesTrue, Spend, LeadTo, Readable

\* A worker with an object carries a spec that leads to e.
LEMMA WorkLeadsTo ==
    ASSUME LockInv, FromUsers, NEW e, LeadTo(e), NEW o \in Operators, pc[o] # "idle"
    PROVE  LET s == ResolveTarget(w[o].obj.spec) IN Readable(s) /\ secret[s] = e
<1>1. w[o].key \in KD /\ w[o].obj \in Copies(w[o].key) \ {Gone}
  BY GoneAssumption DEF LockInv, TypeInv, WorkerTyped, WorkOK, Copies
<1> QED
  BY <1>1 DEF FromUsers, LeadTo

\* So it finds a cluster, and this one.
LEMMA OnlyAtStep ==
    ASSUME FreshInv, HandlesTrue, CleanUpSucceeds, FromUsers, NEW e, LeadTo(e), OnlyAt(e),
           [Next]_vars
    PROVE  /\ OnlyAt(e)'
           /\ \A o \in Operators : DelCluster(o) => pc'[o] = "delHistory"
<1>1. TypeInv /\ WorkerTyped /\ LockInv /\ e # NoCluster
  BY HomeAssumption DEF FreshInv, LockInv, TypeInv, LeadTo
<1>2. ASSUME NEW o \in Operators, GetCluster(o) \/ DelCluster(o)
      PROVE  /\ w'[o].cluster = e \/ pc'[o] = "status"
             /\ DelCluster(o) => pc'[o] = "delHistory"
  <2>1. pc[o] # "idle" /\ (DelCluster(o) => pc[o] = "delCluster")
    BY <1>2 DEF GetCluster, DelCluster
  <2>2. LET s == ResolveTarget(w[o].obj.spec) IN Readable(s) /\ secret[s] = e
    BY <1>1, <2>1, WorkLeadsTo
  <2>3. "secret" \notin FaultSites
    BY DEF CleanUpSucceeds
  <2> QED
    BY <1>1, <1>2, <2>1, <2>2, <2>3, LookupEffect
<1>3. ASSUME NEW o \in Operators, pc'[o] \in AtEdge PROVE w'[o].cluster = e
  <2>1. pc'[o] \notin {"idle", "status", "getCluster", "addFinalizer", "delCluster"}
    BY <1>3 DEF AtEdge, Deploying, DeletePCs
  <2>2. CASE pc'[o] = pc[o] /\ w'[o] = w[o]
    BY <1>3, <2>2 DEF OnlyAt
  <2>3. ASSUME NEW k \in KD, Begin(o, k) PROVE FALSE
    BY <1>1, <2>1, <2>3, BeginEffect DEF FirstStep
  <2>4. CASE Call(o)
    <3>1. CASE GetCluster(o) \/ DelCluster(o)
      BY <1>2, <2>1, <3>1
    <3>2. CASE EdgeCall(o)
      BY <1>1, <2>1, <3>2, EdgeCallsFlow DEF Goes, OnlyAt
    <3>3. CASE AddFinalizer(o) \/ WriteStatus(o) \/ RemoveFinalizer(o)
      BY <1>1, <2>1, <3>3 DEF AddFinalizer, WriteStatus, RemoveFinalizer, Requeue, Return,
         Step, WorkerTyped
    <3> QED
      BY <2>4, <3>1, <3>2, <3>3, OtherCalls
  <2> QED
    BY <2>1, <2>2, <2>3, <2>4, WorkerFlow
<1> QED
  BY <1>2, <1>3 DEF OnlyAt

\* The finalizer goes only by the worker's last call for an object.
LEMMA BearsStep ==
    ASSUME LockInv, [Next]_vars, NEW k \in KD, Bears(kd[k])
    PROVE  \/ Bears(kd'[k])
           \/ \E o \in Operators : /\ RemoveFinalizer(o) /\ w[o].key = k /\ kd[k] = w[o].obj
                                   /\ pc'[o] = "idle"
<1>1. Used(k) => Bears(kd'[k])
  BY DEF Used, Bears
<1>2. \A status : Touched(k, kd[k].fins, status) => Bears(kd'[k])
  BY DEF Touched, Bears
<1>3. \A status : Touched(k, kd[k].fins \cup {Ours}, status) => Bears(kd'[k])
  BY DEF Touched, Bears
<1> QED
  BY <1>1, <1>2, <1>3, StoredStep

\* Held is preserved by a single process.
LEMMA HeldStep ==
    ASSUME FreshInv, Alone, Held, [Next]_vars
    PROVE  Held'
<1>1. LockInv /\ TypeInv /\ WorkerTyped /\ WorkOK /\ CopiesMove
  BY StepsMoveCopies DEF FreshInv, LockInv, TypeInv, WorkerTyped
<1>2. ASSUME NEW o \in Operators, NEW k \in KD, Bears(cache'[o][k]), ~cache'[o][k].deleting
      PROVE  Bears(kd'[k])
  <2>1. Bears(kd[k])
    BY <1>1, <1>2 DEF CopiesMove, Held, Bears
  <2>2. ASSUME NEW p \in Operators, RemoveFinalizer(p), w[p].key = k, kd[k] = w[p].obj
        PROVE  FALSE
    <3>1. p = o /\ cache'[o] = cache[o] /\ pc[o] = "removeFinalizer"
      BY <2>2 DEF Alone, RemoveFinalizer, local
    <3>2. w[o].obj.deleting
      BY <1>1, <3>1 DEF WorkOK, DeletePCs
    <3>3. cache[o][k].deleting
      BY <2>2, <3>1, <3>2 DEF FreshInv, Fresh
    <3> QED
      BY <1>2, <3>1, <3>3
  <2> QED
    BY <1>1, <2>1, <2>2, BearsStep
<1>3. ASSUME NEW o \in Operators, pc'[o] \in Deploying
      PROVE  Bears(kd'[w'[o].key])
  <2>1. pc'[o] \notin {"idle", "status", "addFinalizer"} \cup DeletePCs
    BY <1>3 DEF Deploying, DeletePCs
  <2>2. ASSUME pc[o] \in Deploying, w'[o].key = w[o].key PROVE Bears(kd'[w'[o].key])
    <3>1. w[o].key \in KD /\ Bears(kd[w[o].key])
      BY <1>1, <2>2 DEF WorkOK, Held, Deploying
    <3>2. \A p \in Operators : p = o
      BY DEF Alone
    <3> QED
      BY <1>1, <2>1, <2>2, <3>1, <3>2, BearsStep
  <2>3. ASSUME NEW k \in KD, Begin(o, k) PROVE Bears(kd'[w'[o].key])
    <3>1. /\ cache[o][k] # Gone /\ FirstStep(cache[o][k]) = "getCluster"
          /\ w'[o].key = k /\ kd' = kd
      BY <1>1, <2>1, <2>3, BeginEffect DEF FirstStep, DeletePCs, home
    <3>2. Bears(cache[o][k]) /\ ~cache[o][k].deleting
      BY <3>1 DEF FirstStep, Bears
    <3> QED
      BY <3>1, <3>2 DEF Held
  <2>4. CASE Call(o)
    <3>1. CASE AddFinalizer(o)
      <4>1. ~Requeue(o)
        BY <1>1, <2>1 DEF Requeue, Return, WorkerTyped
      <4>2. LET k == w[o].key
            IN  /\ kd'[k] # Gone /\ Touched(k, kd[k].fins \cup {Ours}, kd[k].status)
                /\ Step(o, "getCluster", [w[o] EXCEPT !.obj = kd'[k]])
        BY <1>1, <3>1, <4>1, AddFinalizerEffect
      <4>3. w'[o].key = w[o].key
        BY <1>1, <4>2 DEF WorkerTyped, Step, Work
      <4> QED
        BY <4>2, <4>3 DEF Touched, Bears
    <3>2. CASE GetCluster(o) \/ EdgeCall(o)
      <4>1. pc[o] \in Deploying
        <5>1. GetCluster(o) => pc[o] \in Deploying
          BY DEF GetCluster, Deploying
        <5>2. EdgeCall(o) => pc[o] \in Deploying
          BY <1>1, <2>1, EdgeCallsFlow DEF AtEdge
        <5> QED
          BY <3>2, <5>1, <5>2
      <4>2. w'[o].key = w[o].key
        BY <1>1, <2>1, <2>4, CallsMove DEF Moves, KeepsGoing, ComesBack, LetsGo, LockInv
      <4> QED
        BY <2>2, <4>1, <4>2
    <3>3. CASE DelCluster(o) \/ WriteStatus(o) \/ RemoveFinalizer(o)
      BY <1>1, <2>1, <3>3 DEF DelCluster, Lookup, SkipEdge, Goto, WriteStatus,
         RemoveFinalizer, Requeue, Return, Step, WorkerTyped, DeletePCs
    <3> QED
      BY <2>4, <3>1, <3>2, <3>3, OtherCalls
  <2>5. CASE pc'[o] = pc[o] /\ w'[o] = w[o]
    BY <1>3, <2>2, <2>5
  <2> QED
    BY <2>1, <2>3, <2>4, <2>5, WorkerFlow
<1> QED
  BY <1>2, <1>3 DEF Held

-----------------------------------------------------------------------------
(* The inductive invariant.                                                 *)

\* What is on the edge clusters, and what a worker knows of it.
SitesKept(e) ==
    /\ \A f \in Edges, n \in Names : f # e => ~Occupied(edge[f][n])
    /\ \A n \in Names : Neat(edge[e][n])
    /\ \A o \in Operators : pc[o] # "idle" =>
          Phase(pc[o], w[o].todo, edge[e][NameOf[w[o].key]])

CustodyInv(e) ==
    /\ FreshInv /\ HandlesTrue /\ FromUsers /\ LeadTo(e) /\ OnlyAt(e)
    /\ Held /\ SitesKept(e)
    /\ ClusterScoped = {} \/ budget["drift"] = 0

\* Sites stay, or one is changed that is occupied already or whose object bears
\* the finalizer.
SitesStand == UNCHANGED edge
SiteChanges ==
    \E f \in Edges, n \in Names, new \in Site :
        /\ Becomes(f, n, new) /\ UNCHANGED kd
        /\ Occupied(new) => \/ Occupied(edge[f][n])
                           \/ \E k \in KD : Bears(kd[k]) /\ NameOf[k] = n

\* Where a worker is of no consequence, it need not know anything.
LEMMA HarmlessPhase ==
    ASSUME NEW l \in Harmless, NEW todo, NEW site
    PROVE  Phase(l, todo, site)
  BY DEF Harmless, Phase

\* The labels that steps other than the calls to the edge cluster lead to.
LEMMA OtherStepsHarmless ==
    ASSUME FreshInv, HandlesTrue, CleanUpSucceeds, FromUsers, NEW e, LeadTo(e), OnlyAt(e),
           [Next]_vars, NEW o \in Operators, ~EdgeCall(o)
    PROVE  (pc'[o] = pc[o] /\ w'[o] = w[o]) \/ pc'[o] \in Harmless
<1>1. TypeInv /\ WorkerTyped
  BY DEF FreshInv, LockInv, TypeInv
<1>2. {"idle", "status", "addFinalizer", "getCluster", "delCluster", "nsGet", "delHistory"}
        \subseteq Harmless
  BY DEF Harmless, Labels
<1>3. ASSUME NEW k \in KD, Begin(o, k) PROVE pc'[o] \in Harmless
  BY <1>1, <1>2, <1>3, BeginEffect DEF FirstStep
<1>4. CASE DelCluster(o)
  BY <1>2, <1>4, OnlyAtStep
<1>5. CASE GetCluster(o)
  <2>1. pc[o] = "getCluster"
    BY <1>5 DEF GetCluster
  <2> QED
    BY <1>2, <1>5, <2>1, LookupEffect
<1>6. CASE AddFinalizer(o) \/ WriteStatus(o) \/ RemoveFinalizer(o)
  BY <1>1, <1>2, <1>6 DEF AddFinalizer, WriteStatus, RemoveFinalizer, Requeue, Return,
     Step, WorkerTyped
<1> QED
  BY <1>2, <1>3, <1>4, <1>5, <1>6, WorkerFlow, OtherCalls

\* SitesKept is preserved by a single process, and sites change as they should.
LEMMA SitesStep ==
    ASSUME NEW e, CustodyInv(e), Alone, CleanUpSucceeds, [Next]_vars
    PROVE  SitesKept(e)' /\ (SitesStand \/ SiteChanges)
<1>1. /\ TypeInv /\ WorkerTyped /\ EdgeTypeOK /\ e \in Edges
      /\ \A o \in Operators : pc[o] # "idle" => NameOf[w[o].key] \in Names
  BY OperatorAssumption DEF CustodyInv, FreshInv, LockInv, TypeInv, LeadTo, WorkerTyped, WorkOK
<1>2. CASE UNCHANGED edge /\ \A o \in Operators : ~EdgeCall(o)
  <2>1. ASSUME NEW o \in Operators, pc'[o] # "idle"
        PROVE  Phase(pc'[o], w'[o].todo, edge'[e][NameOf[w'[o].key]])
    BY <1>2, <2>1, OtherStepsHarmless, HarmlessPhase DEF CustodyInv, SitesKept
  <2> QED
    BY <1>2, <2>1 DEF CustodyInv, SitesKept, SitesStand
<1>3. ASSUME NEW f \in Edges, NEW n \in Names,
             PodsRoll(f, n) \/ NamespaceEnds(f, n) \/ Tampering(f, n)
      PROVE  SitesKept(e)' /\ SiteChanges
  <2> DEFINE site == edge[f][n]
  <2>1. PICK new \in Site :
             /\ Becomes(f, n, new)
             /\ Neat(site) => Neat(new) /\ (Occupied(new) => Occupied(site))
             /\ \A l, todo : Neat(site) /\ Phase(l, todo, site) => Phase(l, todo, new)
    BY <1>1, <1>3, SiteMoves DEF CustodyInv
  <2>2. UNCHANGED <<pc, w, kd>>
    BY <1>3 DEF PodsRoll, NamespaceEnds, Tampering, inside, home
  <2>3. Neat(site)
    BY DEF CustodyInv, SitesKept, Neat, Occupied, Left
  <2>4. /\ edge'[f][n] = new
        /\ \A g \in Edges, m \in Names : <<g, m>> # <<f, n>> => edge'[g][m] = edge[g][m]
    BY <1>1, <2>1 DEF Becomes, EdgeTypeOK
  <2> HIDE DEF site
  <2>5. \A g \in Edges, m \in Names : g # e => ~Occupied(edge'[g][m])
    BY <2>1, <2>3, <2>4 DEF CustodyInv, SitesKept, site
  <2>6. \A m \in Names : Neat(edge'[e][m])
    BY <1>1, <2>1, <2>3, <2>4 DEF CustodyInv, SitesKept, site
  <2>7. ASSUME NEW o \in Operators, pc[o] # "idle"
        PROVE  Phase(pc[o], w[o].todo, edge'[e][NameOf[w[o].key]])
    <3>1. Phase(pc[o], w[o].todo, edge[e][NameOf[w[o].key]])
      BY <2>7 DEF CustodyInv, SitesKept
    <3> QED
      BY <1>1, <2>1, <2>3, <2>4, <2>7, <3>1 DEF site
  <2>8. SitesKept(e)'
    BY <2>2, <2>5, <2>6, <2>7 DEF SitesKept
  <2>9. SiteChanges
    BY <2>1, <2>2, <2>3 DEF SiteChanges, site
  <2> QED
    BY <2>8, <2>9
<1>4. ASSUME NEW o \in Operators, EdgeCall(o)
      PROVE  SitesKept(e)' /\ (SitesStand \/ SiteChanges)
  <2> DEFINE n == NameOf[w[o].key]
             site == edge[e][n]
  <2>1. pc[o] \in AtEdge /\ pc[o] # "idle" /\ UNCHANGED kd
    BY <1>4, EdgeCallsOnly DEF home, AtEdge, Deploying, DeletePCs
  <2>2. w[o].cluster = e /\ n \in Names
    BY <1>1, <2>1 DEF CustodyInv, OnlyAt
  <2>3. site = At(o) /\ \A new : Set(o, new) = Becomes(e, n, new)
    BY <2>2 DEF At, Set
  <2>4. Neat(site) /\ Phase(pc[o], w[o].todo, site)
    BY <2>1, <2>2 DEF CustodyInv, SitesKept
  <2> HIDE DEF site, n
  <2>5. PICK new \in Site :
              /\ Becomes(e, n, new) \/ (UNCHANGED edge /\ new = site)
              /\ Neat(new) /\ Phase(pc'[o], w'[o].todo, new)
              /\ Occupied(new) => Occupied(site) \/ pc[o] \in Deploying
    BY <1>1, <1>4, <2>1, <2>2, <2>3, <2>4, CallsKeepSites
  <2>6. /\ edge'[e][n] = new
        /\ \A g \in Edges, m \in Names : <<g, m>> # <<e, n>> => edge'[g][m] = edge[g][m]
    <3>1. CASE Becomes(e, n, new)
      BY <1>1, <2>2, <3>1 DEF Becomes, EdgeTypeOK
    <3>2. CASE UNCHANGED edge /\ new = site
      BY <3>2 DEF site
    <3> QED
      BY <2>5, <3>1, <3>2
  <2>7. /\ \A g \in Edges, m \in Names : g # e => ~Occupied(edge'[g][m])
        /\ \A m \in Names : Neat(edge'[e][m])
    BY <1>1, <2>5, <2>6 DEF CustodyInv, SitesKept
  <2>8. ASSUME NEW p \in Operators, pc'[p] # "idle"
        PROVE  Phase(pc'[p], w'[p].todo, edge'[e][NameOf[w'[p].key]])
    <3>1. p = o
      BY DEF Alone
    <3>2. w'[o].key = w[o].key
      BY <1>1, <1>4, <2>8, <3>1, EdgeCallsFlow DEF Goes
    <3> QED
      BY <2>5, <2>6, <3>1, <3>2 DEF n
  <2>9. SitesKept(e)'
    BY <2>7, <2>8 DEF SitesKept
  <2>10. SitesStand \/ SiteChanges
    <3>1. pc[o] \in Deploying => w[o].key \in KD /\ Bears(kd[w[o].key])
      BY <1>1, <2>1 DEF CustodyInv, Held, WorkerTyped, WorkOK
    <3> QED
      BY <1>1, <2>1, <2>2, <2>5, <3>1 DEF SitesStand, SiteChanges, site, n
  <2> QED
    BY <2>9, <2>10
<1> QED
  BY <1>2, <1>3, <1>4, WhoMovesSites

\* CustodyInv is inductive.
LEMMA CustodyStep ==
    ASSUME NEW e, Alone, CleanUpSucceeds
    PROVE  CustodyInv(e) /\ [Next]_vars => CustodyInv(e)'
<1> SUFFICES ASSUME CustodyInv(e), [Next]_vars PROVE CustodyInv(e)'
  OBVIOUS
<1>1. FreshInv' /\ HandlesTrue' /\ FromUsers' /\ LeadTo(e)'
  BY FreshStep, HandlesStep, FromUsersStep, LeadToStep DEF CustodyInv, FreshInv
<1>2. OnlyAt(e)' /\ Held' /\ SitesKept(e)'
  BY OnlyAtStep, HeldStep, SitesStep DEF CustodyInv
<1>3. ClusterScoped = {} \/ budget'["drift"] = 0
  <2>1. BudgetTyped /\ "drift" \in Kinds
    BY DEF CustodyInv, FreshInv, LockInv, TypeInv, Kinds
  <2> QED
    BY <2>1, SpentStays DEF CustodyInv
<1> QED
  BY <1>1, <1>2, <1>3 DEF CustodyInv

\* It holds at the start, where nothing is anywhere.
LEMMA CustodyInit ==
    ASSUME Custodial, NEW e \in Edges,
           \A spec \in Specs, given \in InitialSecrets :
              Readable(ResolveTarget(spec)) /\ given[ResolveTarget(spec)] = e
    PROVE  Init => CustodyInv(e)
<1> SUFFICES ASSUME Init PROVE CustodyInv(e)
  OBVIOUS
<1>1. FreshInv /\ HandlesTrue
  BY FreshInit, HandlesInit DEF Custodial
<1>2. LeadTo(e)
  BY DEF Init, HomeInit, LeadTo
<1>3. /\ \A o \in Operators : pc[o] = "idle" /\ w[o] = NoWork
      /\ \A o \in Operators, k \in KD : cache[o][k] = Gone
      /\ \A k \in KD : kd[k] = Gone
  BY DEF Init, HomeInit
<1>4. FromUsers
  BY <1>3 DEF FromUsers, Copies, NoWork
<1>5. OnlyAt(e) /\ Held
  BY <1>3 DEF OnlyAt, Held, AtEdge, Deploying, DeletePCs, Bears
<1>6. SitesKept(e)
  <2>1. \A f \in Edges, n \in Names : edge[f][n] = EmptySite
    BY DEF Init, EdgeInit
  <2>2. ~Left(EmptySite) /\ ~Occupied(EmptySite)
    BY EdgeAssumption DEF EmptySite, Left, Occupied
  <2> QED
    BY <1>3, <2>1, <2>2 DEF SitesKept, Neat
<1>7. ClusterScoped = {} \/ budget["drift"] = 0
  BY DEF Init, Custodial, RecordsStand
<1> QED
  BY <1>1, <1>2, <1>4, <1>5, <1>6, <1>7 DEF CustodyInv

-----------------------------------------------------------------------------
(* The finalizer protocol.                                                  *)

\* Every step of the operator, its users and the edge clusters is a step of the
\* protocol, or none.
LEMMA ProtocolStep ==
    ASSUME NEW e, CustodyInv(e), Alone, CleanUpSucceeds, [Next]_vars
    PROVE  [Protocol!Next]_<<InCustody, OccupiedSites>>
<1>1. LockInv /\ TypeInv /\ EdgeTypeOK
  BY DEF CustodyInv, FreshInv, LockInv, TypeInv
<1>2. InCustody = {k \in KD : Bears(kd[k])} /\ InCustody' = {k \in KD : Bears(kd'[k])}
  BY DEF InCustody, Bears
<1>3. CASE UNCHANGED kd /\ SitesStand
  BY <1>3 DEF SitesStand, InCustody, OccupiedSites
<1>4. CASE SiteChanges
  <2>1. PICK f \in Edges, n \in Names, new \in Site :
          /\ Becomes(f, n, new) /\ UNCHANGED kd
          /\ Occupied(new) => \/ Occupied(edge[f][n])
                             \/ \E k \in KD : Bears(kd[k]) /\ NameOf[k] = n
    BY <1>4 DEF SiteChanges
  <2>2. /\ edge'[f][n] = new
        /\ \A g \in Edges, m \in Names : <<g, m>> # <<f, n>> => edge'[g][m] = edge[g][m]
    BY <1>1, <2>1 DEF Becomes, EdgeTypeOK
  <2>3. InCustody' = InCustody
    BY <1>2, <2>1
  <2>4. CASE ~Occupied(new)
    <3>1. OccupiedSites' = OccupiedSites \ {<<f, n>>}
      BY <2>2, <2>4 DEF OccupiedSites
    <3> QED
      BY <2>3, <3>1 DEF Protocol!Next, Protocol!Vacate
  <2>5. CASE Occupied(new)
    <3>1. OccupiedSites' = OccupiedSites \cup {<<f, n>>}
      BY <2>2, <2>5 DEF OccupiedSites
    <3>2. CASE Occupied(edge[f][n])
      <4>1. <<f, n>> \in OccupiedSites
        BY <3>2 DEF OccupiedSites
      <4> QED
        BY <2>3, <3>1, <4>1
    <3>3. CASE \E k \in KD : Bears(kd[k]) /\ NameOf[k] = n
      <4>1. \E k \in InCustody : NameOf[k] = n
        BY <1>2, <3>3
      <4> QED
        BY <2>3, <3>1, <4>1 DEF Protocol!Next, Protocol!Occupy
    <3> QED
      BY <2>1, <2>5, <3>2, <3>3
  <2> QED
    BY <2>4, <2>5
<1>5. CASE SitesStand /\ ~UNCHANGED kd
  <2>1. OccupiedSites' = OccupiedSites
    BY <1>5 DEF SitesStand, OccupiedSites
  <2>2. CASE Users
    <3>1. \A k \in KD : Bears(kd'[k]) = Bears(kd[k])
      BY <1>1, <2>2, UsersUse DEF Used, Bears
    <3> QED
      BY <1>2, <2>1, <3>1
  <2>3. ASSUME NEW o \in Operators, AddFinalizer(o) \/ WriteStatus(o) \/ RemoveFinalizer(o)
        PROVE  [Protocol!Next]_<<InCustody, OccupiedSites>>
    <3> DEFINE k == w[o].key
    <3>1. k \in KD /\ w[o].obj # Gone
      BY <1>1, <2>3, GoneAssumption DEF AddFinalizer, WriteStatus, RemoveFinalizer, TypeInv,
         WorkerTyped, WorkOK
    <3>2. CASE AddFinalizer(o)
      <4>1. kd'[k] # Gone /\ Touched(k, kd[k].fins \cup {Ours}, kd[k].status)
        BY <1>1, <1>5, <3>2, AddFinalizerEffect
      <4>2. /\ Bears(kd'[k])
            /\ \A j \in KD \ {k} : Bears(kd'[j]) = Bears(kd[j])
        BY <4>1 DEF Touched, Bears
      <4>3. InCustody' = InCustody \cup {k}
        BY <1>2, <3>1, <4>2
      <4> QED
        BY <2>1, <3>1, <4>3 DEF Protocol!Next, Protocol!Take
    <3>3. CASE WriteStatus(o)
      <4>1. PICK status : kd[k] # Gone /\ Touched(k, kd[k].fins, status)
        BY <1>1, <1>5, <3>3, WriteStatusEffect
      <4>2. \A j \in KD : Bears(kd'[j]) = Bears(kd[j])
        BY <3>1, <4>1 DEF Touched, Bears
      <4> QED
        BY <1>2, <2>1, <4>2
    <3>4. CASE RemoveFinalizer(o)
      <4>1. Touched(k, kd[k].fins \ {Ours}, kd[k].status)
        BY <1>1, <1>5, <3>4, RemoveFinalizerEffect
      <4>2. /\ ~Bears(kd'[k])
            /\ \A j \in KD \ {k} : Bears(kd'[j]) = Bears(kd[j])
        BY <4>1 DEF Touched, Bears
      <4>3. InCustody' = InCustody \ {k}
        BY <1>2, <3>1, <4>2
      <4>4. ~Occupied(edge[e][NameOf[k]])
        <5>1. Phase("removeFinalizer", w[o].todo, edge[e][NameOf[k]])
          BY <3>4 DEF RemoveFinalizer, CustodyInv, SitesKept
        <5> QED
          BY <5>1 DEF Phase, Occupied, Left
      <4>5. \A f \in Edges : <<f, NameOf[k]>> \notin OccupiedSites
        BY <4>4 DEF OccupiedSites, CustodyInv, SitesKept
      <4> QED
        BY <2>1, <3>1, <4>3, <4>5 DEF Protocol!Next, Protocol!LetGo
    <3> QED
      BY <2>3, <3>2, <3>3, <3>4
  <2> QED
    BY <1>5, <2>2, <2>3, WhoStores
<1> QED
  BY <1>3, <1>4, <1>5, SitesStep

\* The operator keeps to the finalizer protocol (lines 428 and 505), whatever
\* crashes, failing calls, stale reads and edits come in between.
THEOREM OperatorKeepsCustody ==
    ASSUME Custodial
    PROVE  Spec => KeepsCustody
<1>1. PICK e \in Edges : \A spec \in Specs, given \in InitialSecrets :
              Readable(ResolveTarget(spec)) /\ given[ResolveTarget(spec)] = e
  BY DEF Custodial, OneEdge
<1>2. Init => CustodyInv(e)
  BY <1>1, CustodyInit
<1>3. CustodyInv(e) /\ [Next]_vars => CustodyInv(e)'
  BY CustodyStep DEF Custodial
<1>4. CustodyInv(e) /\ [Next]_vars => [Protocol!Next]_<<InCustody, OccupiedSites>>
  BY ProtocolStep DEF Custodial
<1>5. Init => Protocol!Init
  <2> SUFFICES ASSUME Init PROVE Protocol!Init
    OBVIOUS
  <2>1. InCustody = {}
    BY DEF Init, HomeInit, InCustody
  <2>2. OccupiedSites = {}
    BY EdgeAssumption DEF Init, EdgeInit, EmptySite, OccupiedSites, Occupied
  <2> QED
    BY <2>1, <2>2 DEF Protocol!Init
<1> QED
  BY <1>2, <1>3, <1>4, <1>5, PTL DEF Spec, KeepsCustody, Protocol!Spec

\* A step of the protocol never leaves a site without its object.
LEMMA AccountedStep ==
    ASSUME Protocol!Accounted,
           [Protocol!Next]_<<InCustody, OccupiedSites>>
    PROVE  Protocol!Accounted'
<1>0. ASSUME \A e \in Edges, n \in Names :
               <<e, n>> \in OccupiedSites' => \E k \in InCustody' : NameOf[k] = n
      PROVE  Protocol!Accounted'
  BY <1>0 DEF Protocol!Accounted
<1>1. \A e \in Edges, n \in Names :
         <<e, n>> \in OccupiedSites => \E k \in InCustody : NameOf[k] = n
  BY DEF Protocol!Accounted
<1>2. [Protocol!Next]_<<InCustody, OccupiedSites>>
  OBVIOUS
<1>3. \/ \E k \in KD : InCustody' = InCustody \cup {k} /\ OccupiedSites' = OccupiedSites
      \/ \E k \in KD : /\ \A e \in Edges : <<e, NameOf[k]>> \notin OccupiedSites
                       /\ InCustody' = InCustody \ {k} /\ OccupiedSites' = OccupiedSites
      \/ \E e \in Edges, n \in Names :
           /\ \E k \in InCustody : NameOf[k] = n
           /\ OccupiedSites' = OccupiedSites \cup {<<e, n>>} /\ InCustody' = InCustody
      \/ \E e \in Edges, n \in Names :
           OccupiedSites' = OccupiedSites \ {<<e, n>>} /\ InCustody' = InCustody
      \/ InCustody' = InCustody /\ OccupiedSites' = OccupiedSites
  BY <1>2 DEF Protocol!Next, Protocol!Take, Protocol!LetGo, Protocol!Occupy, Protocol!Vacate
<1> QED
  BY <1>0, <1>1, <1>3

\* An operator that keeps custody orphans nothing: whatever is on an edge
\* cluster has an object that bears the finalizer (lines 428 and 505).
THEOREM CustodyOrphansNothing == KeepsCustody => []NothingOrphaned
<1>1. Protocol!Init => Protocol!Accounted
  BY DEF Protocol!Init, Protocol!Accounted
<1>2. Protocol!Accounted => NothingOrphaned
  BY DEF Protocol!Accounted, NothingOrphaned, OccupiedSites, InCustody
<1> QED
  BY <1>1, <1>2, AccountedStep, PTL DEF KeepsCustody, Protocol!Spec

\* Nothing of a release stays on an edge cluster without an object that bears the
\* finalizer.
THEOREM NothingIsOrphaned ==
    ASSUME Custodial
    PROVE  Spec => []NothingOrphaned
<1>1. Spec => KeepsCustody
  BY OperatorKeepsCustody
<1> QED
  BY <1>1, CustodyOrphansNothing
=============================================================================
