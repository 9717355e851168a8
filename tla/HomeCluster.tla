---------------------------- MODULE HomeCluster ----------------------------
(***************************************************************************)
(* The home (watch) cluster as the operator sees it: the KryptonDeployment *)
(* objects of the API server with their optimistic lock, the kubeconfig    *)
(* Secrets, and what users may do to both.  The code that reads and writes *)
(* them is internal/multicluster/krypton_operator.go; the API server       *)
(* itself is external and modelled from how that code relies on it.        *)
(***************************************************************************)
EXTENDS Krypton, Integers

CONSTANTS
    KD,             \* KryptonDeployment objects (namespace/name) users may create
    BadCreds,       \* a kubeconfig that parses but that no API server accepts
    NoCluster,      \* no Secret, or one that yields no cluster handle
    Namespaces,     \* home namespaces that may hold kubeconfig Secrets
    OperatorNs,     \* the operator's discovery namespace (-namespace)
    SecretNames,    \* names of kubeconfig Secrets
    Regions,        \* spec.region.name
    DefaultSecret,  \* [Regions -> SecretNames]: "<region>-kubeconfig"
    Unset,          \* the empty string
    Specs,          \* the specs users write
    InitialSecrets, \* what administrators may have set up beforehand
    Foreign,        \* a finalizer of some other controller
    Gone            \* no such object

ASSUME HomeAssumption ==
    /\ OperatorNs \in Namespaces
    /\ DefaultSecret \in [Regions -> SecretNames]
    /\ Unset \notin Namespaces \cup SecretNames
    /\ BadCreds \notin Edges /\ NoCluster \notin Edges /\ BadCreds # NoCluster
    /\ Foreign # "krypton"

\* A spec: whether account.name is set, the region, the Secret reference of
\* region.kubeconfig.secret, and the deprecated region.kubeconfigSecretName.
KDSpec == [account: BOOLEAN, region: Regions,
           refName: SecretNames \cup {Unset}, refNs: Namespaces \cup {Unset},
           legacy: SecretNames \cup {Unset}]

ASSUME SpecsAssumption == Specs \subseteq KDSpec

Secrets == Namespaces \X SecretNames
Clusters == Edges \cup {BadCreds}

ASSUME SecretsAssumption == InitialSecrets \subseteq [Secrets -> Clusters \cup {NoCluster}]

Ours == "krypton"                   \* mesh.openkcm.io/kryptondeployment-finalizer
Finalizers == {Ours, Foreign}

\* The reason of the Ready condition; the phase is a function of it.
Reasons == {"none", "AccountMissing", "EdgeUnavailable", "HealthCheckFailed",
            "RepairTriggered", "HelmFailed", "NotReady", "Deployed"}
Status == [reason: Reasons, obs: Nat, chart: Charts \cup {NoChart}]
NoStatus == [reason |-> "none", obs |-> 0, chart |-> NoChart]

Object == [rv: Nat, gen: Nat, spec: KDSpec, deleting: BOOLEAN,
           fins: SUBSET Finalizers, status: Status]

ASSUME GoneAssumption == Gone \notin Object

VARIABLES
    kd,      \* kd[k]: the stored object, or Gone
    rv,      \* rv[k]: the last resourceVersion handed out for k
    secret   \* secret[s]: the cluster its kubeconfig leads to, or NoCluster

home == <<kd, rv, secret>>

HomeTypeOK ==
    /\ kd \in [KD -> Object \cup {Gone}]
    /\ rv \in [KD -> Nat]
    /\ secret \in [Secrets -> Clusters \cup {NoCluster}]

HomeInit ==
    /\ kd = [k \in KD |-> Gone]
    /\ rv = [k \in KD |-> 0]
    /\ secret \in InitialSecrets

-----------------------------------------------------------------------------
(* Which Secret a spec leads to.                                            *)

\* rcedResolveTarget: the reference wins, then the deprecated field, then the
\* default name; a missing namespace means the operator's own.
ResolveTarget(spec) ==
    LET named == spec.refName # Unset
    IN  << IF named /\ spec.refNs # Unset THEN spec.refNs ELSE OperatorNs,
           IF named THEN spec.refName
           ELSE IF spec.legacy # Unset THEN spec.legacy
           ELSE DefaultSecret[spec.region] >>

-----------------------------------------------------------------------------
(* The API server: every write is stamped with a new resourceVersion, and a *)
(* deleted object stays until its last finalizer is gone.                   *)

Store(k, new) ==
    IF kd[k] = new
    THEN UNCHANGED <<kd, rv>>                       \* no-op write, no event
    ELSE /\ rv' = [rv EXCEPT ![k] = @ + 1]
         /\ kd' = [kd EXCEPT ![k] =
                     IF new.deleting /\ new.fins = {} THEN Gone
                     ELSE [new EXCEPT !.rv = rv[k] + 1]]

\* Mutation: a write that does not carry the resourceVersion.
Unlocked(k, obj) == kd[k] # Gone

\* client.Update and Status().Update send the resourceVersion of the copy.
Locked(k, obj) == kd[k] # Gone /\ kd[k].rv = obj.rv

\* client.Update: metadata and spec of the copy; the status is left alone and
\* the generation moves with the spec.
Updated(k, obj) ==
    [kd[k] EXCEPT !.spec = obj.spec, !.fins = obj.fins,
                  !.gen = IF obj.spec = kd[k].spec THEN @ ELSE @ + 1]

\* Status().Update: the status of the copy, nothing else.
StatusUpdated(k, status) == [kd[k] EXCEPT !.status = status]

-----------------------------------------------------------------------------
(* Users.                                                                   *)

Create(k, spec) ==
    /\ kd[k] = Gone
    /\ Store(k, [rv |-> 0, gen |-> 1, spec |-> spec, deleting |-> FALSE,
                 fins |-> {}, status |-> NoStatus])
    /\ UNCHANGED secret

Edit(k, spec) ==
    /\ kd[k] # Gone /\ spec # kd[k].spec
    /\ Store(k, [kd[k] EXCEPT !.spec = spec, !.gen = @ + 1])
    /\ UNCHANGED secret

\* The deletionTimestamp bumps the generation too.
Delete(k) ==
    /\ kd[k] # Gone /\ ~kd[k].deleting
    /\ Store(k, [kd[k] EXCEPT !.deleting = TRUE, !.gen = @ + 1])
    /\ UNCHANGED secret

\* Another controller drops its finalizer, or adds it while it still may.
ToggleForeign(k) ==
    /\ kd[k] # Gone
    /\ \/ /\ Foreign \in kd[k].fins
          /\ Store(k, [kd[k] EXCEPT !.fins = @ \ {Foreign}])
       \/ /\ Foreign \notin kd[k].fins /\ ~kd[k].deleting
          /\ Store(k, [kd[k] EXCEPT !.fins = @ \cup {Foreign}])
    /\ UNCHANGED secret

RotateSecret(s, c) ==
    /\ secret[s] # c
    /\ secret' = [secret EXCEPT ![s] = c]
    /\ UNCHANGED <<kd, rv>>
=============================================================================
