------------------------- MODULE OperatorProperties -------------------------
(***************************************************************************)
(* What the operator owes its users, stated over Reconciler.               *)
(***************************************************************************)
EXTENDS Reconciler, FiniteSets

-----------------------------------------------------------------------------
(* For any number of operator processes.                                    *)

\* Every copy of an object that anybody holds.
Copies(k) ==
    {kd[k]} \cup {cache[o][k] : o \in Operators}
            \cup {w[o].obj : o \in {p \in Operators : w[p].key = k}}

\* The optimistic lock compares resourceVersions only.  That is enough because
\* two copies of an object with one resourceVersion are equal, the copy a
\* worker keeps using after its own Update (reconcileCED, line 430) included,
\* and no copy is ahead of the API server.
CopiesAgree ==
    \A k \in KD : \A a, b \in Copies(k) \ {Gone} :
        /\ a.rv <= rv[k]
        /\ a.rv = b.rv => a = b

\* No running process loses an object it still has work with: it is queued, in
\* the worker's hands, or an event for it is on its way.  Only an object that
\* is being deleted and no longer bears the finalizer may be left alone.  Every
\* return of reconcileCED and rcedHandleDelete has to see to that by itself.
NeverForgotten ==
    \A o \in Operators, k \in KD :
        \/ proc[o] # "up"
        \/ k \in queue[o]
        \/ pc[o] # "idle" /\ w[o].key = k
        \/ cache[o][k] # kd[k]
        \/ kd[k] = Gone
        \/ kd[k].deleting /\ Ours \notin kd[k].fins

\* Whatever stale copies the workers write from, the spec changes only by the
\* hand of a user, and so do the finalizers of other controllers: Update sends
\* the whole object back (lines 430 and 505).
UsersOwnTheirFields ==
    [][\A k \in KD : kd[k] # Gone /\ kd'[k] # Gone =>
        /\ kd'[k].spec # kd[k].spec => budget'["edit"] < budget["edit"]
        /\ (Foreign \in kd'[k].fins) # (Foreign \in kd[k].fins)
              => budget'["foreign"] < budget["foreign"]]_vars

\* A report never gives way to one about an older generation of the object,
\* though every reconcile reports on the copy it read some calls ago.
StatusNeverRegresses ==
    [][\A k \in KD : kd[k] # Gone /\ kd'[k] # Gone =>
        kd'[k].status.obs >= kd[k].status.obs]_vars

-----------------------------------------------------------------------------
(* For one process at a time (the Deployment has one replica).              *)

Target(k) == secret[ResolveTarget(kd[k].spec)]
Reachable(k) == Target(k) \in Edges /\ Readable(ResolveTarget(kd[k].spec))

\* There is something of a release on the site that nobody is removing.
Occupied(site) ==
    \/ site.ns = "active"
    \/ \E r \in ClusterScoped : site.res[r] # NoChart

\* While anything of an object is on an edge cluster the object exists and bears
\* the finalizer: it is added before the first call to the edge (line 428) and
\* removed after the last (line 505), also across crashes and stale reads.
NothingOrphaned ==
    \A e \in Edges, n \in Names : Occupied(edge[e][n]) =>
        \E k \in KD : NameOf[k] = n /\ kd[k] # Gone /\ Ours \in kd[k].fins

InCustody == {k \in KD : kd[k] # Gone /\ Ours \in kd[k].fins}
OccupiedSites == {p \in Edges \X Names : Occupied(edge[p[1]][p[2]])}

\* The finalizer protocol as a whole: each step takes an object into custody,
\* lets go of one with nothing left on any edge, or occupies or leaves a site of
\* an object in custody (reconcileCED and rcedHandleDelete implement Custody).
Protocol == INSTANCE Custody WITH held <- InCustody, occupied <- OccupiedSites
KeepsCustody == Protocol!Spec

\* Ready, reported for the present generation, is about the edge cluster the
\* present spec leads to: the release is there, complete and with pods.
ReadyMeansServed ==
    \A k \in KD :
        (/\ kd[k] # Gone /\ kd[k].status.reason = "Deployed"
         /\ kd[k].status.obs = kd[k].gen)
        => /\ Reachable(k)
           /\ LET site == edge[Target(k)][NameOf[k]]
              IN  /\ site.ns = "active" /\ site.rel # "none"
                  /\ \A r \in Resources : site.res[r] # NoChart
                  /\ site.pods # NoChart

-----------------------------------------------------------------------------
(* Circumstances: what the code relies on for the above without providing   *)
(* for it.  The runs meet them by their constants, the theorems name them.  *)

\* One process: no rolling update is under way.
Alone == Operators = {Latest}

\* No Secret changes (a handle made from the old one would be kept, line 41 of
\* provider.go).
SecretsStand == \A b \in Budgets : b["rotate"] = 0

\* Whatever users write leads to one edge cluster (no record is kept of where an
\* object was deployed), by a Secret that the operator can read.
OneEdge ==
    \E e \in Edges : \A spec \in Specs, given \in InitialSecrets :
        Readable(ResolveTarget(spec)) /\ given[ResolveTarget(spec)] = e

\* No call of the clean-up fails (its errors are passed over, line 476).
CleanUpSucceeds == FaultSites \cap {"secret", "uninstall", "delNamespace"} = {}

\* Nobody deletes a release record or a namespace by hand, or else releases have
\* nothing outside their namespace (uninstallHelmChart takes a missing record
\* for nothing to do).
RecordsStand == ClusterScoped = {} \/ \A b \in Budgets : b["drift"] = 0

Custodial == Alone /\ SecretsStand /\ OneEdge /\ CleanUpSucceeds /\ RecordsStand

\* Nobody but the operator takes anything away on the edge, and every object has
\* a site of its own.
Undisturbed ==
    /\ Alone /\ SecretsStand
    /\ \A b \in Budgets : b["drift"] = 0 /\ b["keep"] = 0
    /\ \A j, k \in KD : NameOf[j] = NameOf[k] => j = k

-----------------------------------------------------------------------------
(* Liveness, once users, tampering, faults and crashes leave off.           *)

Wanted(k) ==
    /\ kd[k] # Gone /\ ~kd[k].deleting /\ kd[k].spec.account
    /\ Reachable(k)

\* The chart of the process that stays is completely on the target, its pods
\* run (availability is read without looking at their version, line 929), and
\* the status says so.
Served(k) ==
    /\ kd[k].status = [reason |-> "Deployed", obs |-> kd[k].gen,
                       chart |-> ChartOf[Latest]]
    /\ LET site == edge[Target(k)][NameOf[k]]
       IN  /\ site.ns = "active" /\ site.pods = ChartOf[Latest]
           /\ \A r \in Resources : site.res[r] = ChartOf[Latest]

\* "If any are missing, it triggers a corrective upgrade/install" (line 784): the
\* checked objects of a wanted release come to be present for good, whatever has
\* become of its record.
Heals ==
    \A k \in KD : <>[](Wanted(k) =>
        \A r \in Checked : edge[Target(k)][NameOf[k]].res[r] # NoChart)

\* rcedDeployAndStatus converges from failing calls, drift and crashes, unless
\* they leave a record that Helm does not upgrade (Heals).
Converges == \A k \in KD : <>[](Wanted(k) => Served(k))

\* An object that is deleted is let go ("Finalizer added for cleanup on
\* delete", line 435).
DeletionCompletes ==
    \A k \in KD : (kd[k] # Gone /\ kd[k].deleting)
                    ~> (kd[k] = Gone \/ Ours \notin kd[k].fins)
=============================================================================
