---------------------------- MODULE EdgeCluster ----------------------------
(***************************************************************************)
(* An edge cluster: per namespace the operator works in, the namespace     *)
(* itself, the Helm release record kept in it, the objects of the release  *)
(* and the version the available pods of its Deployment run.  All of it is *)
(* external (Kubernetes, Helm 3); it is modelled from the calls            *)
(* krypton_operator.go makes and the answers it distinguishes.             *)
(***************************************************************************)
EXTENDS Krypton

CONSTANTS
    Names,          \* namespaces on the edge; the release is ced-<name>
    Resources,      \* objects the chart renders
    Checked,        \* those of a kind rcedCheckAndHeal looks at
    ClusterScoped,  \* those that outlive the namespace
    Workload        \* the Deployment among them

ASSUME EdgeAssumption ==
    /\ Workload \in Checked /\ Checked \subseteq Resources
    /\ ClusterScoped \subseteq Resources \ Checked

RelStatus == {"none", "deployed", "failed", "pending", "uninstalling", "uninstalled"}

\* rel is the status of the last revision; res[r] the chart whose version of r
\* is applied; pods the chart whose version of the Deployment has its replicas
\* available, or NoChart: right after an upgrade the old pods still run.
Site == [ns: {"absent", "active", "terminating"}, rel: RelStatus,
         res: [Resources -> Charts \cup {NoChart}],
         pods: Charts \cup {NoChart}]

VARIABLE edge

EdgeTypeOK == edge \in [Edges -> [Names -> Site]]

EmptySite == [ns |-> "absent", rel |-> "none",
              res |-> [r \in Resources |-> NoChart], pods |-> NoChart]

EdgeInit == edge = [e \in Edges |-> [n \in Names |-> EmptySite]]

-----------------------------------------------------------------------------
(* What calls do to a site.                                                 *)

Without(site, R) ==
    [site EXCEPT !.res = [r \in Resources |-> IF r \in R THEN NoChart ELSE @[r]],
                 !.pods = IF Workload \in R THEN NoChart ELSE @]

\* The namespace controller removes everything namespaced, the release record
\* (a Secret) included.
Wiped(site) ==
    [Without(site, Resources \ ClusterScoped) EXCEPT !.ns = "absent", !.rel = "none"]

Recorded(site, status) == [site EXCEPT !.rel = status]

Applied(site, r, chart) == [site EXCEPT !.res[r] = chart]

\* A terminating namespace refuses new objects.
Accepts(site, r) ==
    \/ r \in ClusterScoped
    \/ site.ns = "active"
    \/ site.ns = "terminating" /\ site.res[r] # NoChart

\* Helm installs over no release, and upgrades one whose last revision is
\* neither pending nor uninstalled; both write a new record first.
Installable(site) == site.ns = "active" /\ site.rel = "none"
Upgradable(site) == site.ns = "active" /\ site.rel \in {"deployed", "failed"}

\* Mutation: a release that was applied counts as healthy.
AppliedIsHealthy(site) == TRUE

\* rcedNamespaceWorkloadHealthy: the Deployment, if there is one, has enough
\* available replicas, of whichever version.
Healthy(site) == site.res[Workload] # NoChart => site.pods # NoChart

-----------------------------------------------------------------------------
(* The edge cluster's own controllers and people.                           *)

Becomes(e, n, site) == edge' = [edge EXCEPT ![e][n] = site]

Rollout(e, n) ==
    /\ edge[e][n].pods # edge[e][n].res[Workload]
    /\ Becomes(e, n, [edge[e][n] EXCEPT !.pods = edge[e][n].res[Workload]])

TerminateNs(e, n) ==
    /\ edge[e][n].ns = "terminating"
    /\ Becomes(e, n, Wiped(edge[e][n]))

\* Out-of-band changes: an object, the release record or the namespace is
\* deleted by hand, or pods stop being available.
Drift(e, n) ==
    /\ \/ \E r \in Resources :
            /\ edge[e][n].res[r] # NoChart
            /\ Becomes(e, n, Without(edge[e][n], {r}))
       \/ /\ edge[e][n].rel # "none"
          /\ Becomes(e, n, Recorded(edge[e][n], "none"))
       \/ /\ edge[e][n].ns = "active"
          /\ Becomes(e, n, [edge[e][n] EXCEPT !.ns = "terminating"])
       \/ /\ edge[e][n].pods # NoChart
          /\ Becomes(e, n, [edge[e][n] EXCEPT !.pods = NoChart])

\* `helm uninstall --keep-history` by hand.
UninstallKeepingHistory(e, n) ==
    /\ edge[e][n].rel \in {"deployed", "failed"}
    /\ Becomes(e, n, Recorded(Without(edge[e][n], Resources), "uninstalled"))
=============================================================================
