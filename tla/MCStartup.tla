----------------------------- MODULE MCStartup -----------------------------
(* Two processes for TLC: what they are started with.                       *)
EXTENDS Startup

Bare == [WATCH_NAMESPACE |-> Empty, POD_NAMESPACE |-> Empty, serviceaccount |-> Empty,
         namespace |-> "default", watchSecret |-> Empty, watchSecretNs |-> Empty,
         WATCH_KUBECONFIG |-> Empty, WATCH_CLUSTER_KUBECONFIG |-> Empty,
         ensure |-> FALSE, ENSURE_WATCH_CRDS |-> Empty]

\* A home cluster by file, the CRD left to others.
Plainly == [Bare EXCEPT !.WATCH_CLUSTER_KUBECONFIG = "file"]
\* A remote home cluster, with the Secret in the operator's namespace.
BySecret == [Bare EXCEPT !.POD_NAMESPACE = "krypton", !.watchSecret = "home",
                         !.ENSURE_WATCH_CRDS = "true"]
\* Another namespace is named, and the Secret is not there.
Astray == [BySecret EXCEPT !.watchSecretNs = "team"]

MCEnvironments == {Plainly, BySecret, Astray}
=============================================================================
