---------------------------- MODULE MCReconciler ----------------------------
(* Instances of Reconciler for TLC.                                         *)
EXTENDS OperatorProperties, TLC

CONSTANTS k1, k2, e1, e2, oldPod, newPod

BaseBudget == [kind \in Kinds |-> 0]
With(b) == b @@ BaseBudget
Just(b) == {With(b)}

\* Two Secrets in the operator's namespace, one per region; another in "team".
MCDefaultSecret == [r \in Regions |-> IF r = "r1" THEN "kc1" ELSE "kc2"]

Plain(region) == [account |-> TRUE, region |-> region, refName |-> Unset,
                  refNs |-> Unset, legacy |-> Unset]
\* The same Secret as Plain("r1"), named in three other ways.
ByLegacy == [Plain("r2") EXCEPT !.legacy = "kc1"]
ByRef == [Plain("r2") EXCEPT !.refName = "kc1"]
ByFullRef == [Plain("r2") EXCEPT !.refName = "kc1", !.refNs = "krypton"]
\* A Secret in a namespace that the caches do not cover.
Elsewhere == [Plain("r1") EXCEPT !.refName = "kc2", !.refNs = "team"]
Blank == [Plain("r1") EXCEPT !.account = FALSE]

\* "krypton/kc1" leads to e1, "krypton/kc2" and "team/kc2" to e2.
GoodSecrets == {[s \in Secrets |->
                   IF s[2] = "kc2" THEN e2
                   ELSE IF s[1] = "krypton" THEN e1 ELSE NoCluster]}

\* -watch-namespaces=krypton, : the caches cover nothing else.
Settings == INSTANCE Configuration WITH Largest <- 1023, Second <- 12
MCWatched == Settings!Scope(<<"krypton", Settings!Empty>>, Namespaces)

OneName == [k \in KD |-> "tenant"]
OwnName == [k \in KD |-> IF k = k1 THEN "tenant" ELSE "other"]

Charts1 == {"c1"}
Charts2 == {"c1", "c2"}
ChartOf1 == [o \in Operators |-> "c1"]
ChartOf2 == [o \in Operators |-> IF o = oldPod THEN "c1" ELSE "c2"]

MCResources == {"deploy", "role"}

AllSites == {"read", "home", "secret", "namespace", "history", "inspect",
             "chart", "helm", "record", "health", "uninstall", "delNamespace"}
\* All but the call that closes the record of a Helm operation.
RecordedSites == AllSites \ {"record"}
\* No failing call while a deleted object is cleaned up.
DeploySites == AllSites \ {"uninstall", "delNamespace", "secret"}

SoloSpecs == {Plain("r1"), [Plain("r1") EXCEPT !.legacy = "kc1"]}
PlainSpec == {Plain("r1")}
BlankSpecs == {Plain("r1"), Blank}
RoutingSpecs == {Plain("r1"), Plain("r2"), Elsewhere, Blank}

BadSecrets == {[s \in Secrets |-> BadCreds]}

\* Budgets of the runs.
BudgetSolo == Just([create |-> 2, edit |-> 1, delete |-> 1, foreign |-> 1, fault |-> 1,
                    crash |-> 1])
BudgetRouting == Just([create |-> 1, fault |-> 1, edit |-> 2])
BudgetConverge == {With([create |-> 1, fault |-> 1, drift |-> 1, crash |-> 1]),
                   With([create |-> 2, delete |-> 1]),
                   With([create |-> 1, old |-> 1])}
BudgetLetGo == Just([create |-> 1, delete |-> 1, fault |-> 1, crash |-> 1, keep |-> 1,
                     rotate |-> 1])
BudgetOverlap == Just([create |-> 1, edit |-> 1, old |-> 1])
BudgetBlank == Just([create |-> 1, edit |-> 1, delete |-> 1])
BudgetStuck == {With([create |-> 1, crash |-> 1]),
                With([create |-> 1, keep |-> 1]),
                With([create |-> 1, fault |-> 1, drift |-> 1])}
BudgetRecreated == Just([create |-> 1, rotate |-> 1])
=============================================================================
