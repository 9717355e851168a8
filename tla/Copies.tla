------------------------------- MODULE Copies -------------------------------
(***************************************************************************)
(* api/v1alpha1/deepcopy_manual.go: the hand-written deep copies, and what *)
(* one operator process does with them.  The informer keeps the object it  *)
(* has decoded last; the client hands the reconciler a deep copy; and the  *)
(* reconciler writes to that copy, as does the client, which decodes the   *)
(* answers of the API server into it.  Objects are structs whose pointers  *)
(* and slices lead to cells that two objects may share.                    *)
(***************************************************************************)
EXTENDS Naturals, Sequences

CONSTANTS
    Nil,           \* a nil pointer or slice
    Kubeconfigs,   \* contents of spec.region.kubeconfig
    Reports,       \* Ready conditions the reconciler may report
    MaxVersions    \* bound on the versions of the object

ASSUME CopiesAssumption ==
    /\ Nil \notin Kubeconfigs \cup Reports \cup {"bare", "held"}
    /\ MaxVersions \in Nat \ {0}

-----------------------------------------------------------------------------
(* The types of the API group and their DeepCopyInto.                       *)

\* The pointers and slices a struct type has (those of ObjectMeta count as one),
\* and the structs it has as fields or as items.
Struct(refs, has) == [refs |-> refs, has |-> has]
Plain == Struct({}, {})

KD == "KryptonDeployment"
KryptonDeploymentTypes ==
    [KryptonDeployment |-> Struct({"meta"}, {"KryptonDeploymentSpec", "KryptonDeploymentStatus"}),
     KryptonDeploymentList |-> Struct({"items"}, {KD}),
     KryptonDeploymentSpec |-> Struct({}, {"AccountInfo", "RegionInfo"}),
     KryptonDeploymentStatus |-> Struct({"conditions"}, {}),
     AccountInfo |-> Plain,
     RegionInfo |-> Struct({"kubeconfig"}, {}),
     KubeconfigRef |-> Struct({}, {"SecretRef"}),
     SecretRef |-> Plain]
AccountTypes ==
    [Account |-> Struct({"meta"}, {"AccountSpec", "AccountStatus"}),
     AccountList |-> Struct({"items"}, {"Account"}),
     AccountSpec |-> Plain,
     AccountStatus |-> Struct({"lastSyncTime"}, {})]
RegionTypes ==
    [Region |-> Struct({"meta"}, {"RegionSpec"}),
     RegionList |-> Struct({"items"}, {"Region"}),
     RegionSpec |-> Plain]

Types == DOMAIN KryptonDeploymentTypes \cup DOMAIN AccountTypes \cup DOMAIN RegionTypes
Structs == [t \in Types |-> CASE t \in DOMAIN KryptonDeploymentTypes -> KryptonDeploymentTypes[t]
                              [] t \in DOMAIN AccountTypes -> AccountTypes[t]
                              [] t \in DOMAIN RegionTypes -> RegionTypes[t]]
Declares(t) == Structs[t].refs
Contains(t) == Structs[t].has

\* Mutation: the conditions are copied with the struct.
AllButConditions(t) == Declares(t) \ {"conditions"}

\* What DeepCopyInto makes anew, nil left nil, and the fields it calls
\* DeepCopyInto for: KryptonDeploymentSpec assigns its Region instead.
Remakes(t) == Declares(t)
Delegates(t) == IF t \in {"KryptonDeploymentSpec", "KubeconfigRef"} THEN {} ELSE Contains(t)

References[t \in Types] == Declares(t) \cup UNION {References[u] : u \in Contains(t)}
Remade[t \in Types] == Remakes(t) \cup UNION {Remade[u] : u \in Delegates(t)}
Shared(t) == References[t] \ Remade[t]

-----------------------------------------------------------------------------
(* One object in the memory of one process.                                 *)

Refs == {"meta", "kubeconfig", "conditions"}
Values(p) ==
    CASE p = "meta" -> {"bare", "held"}      \* without and with the finalizer
      [] p = "kubeconfig" -> Kubeconfigs \cup {Nil}
      [] p = "conditions" -> Reports \cup {Nil}

\* Three cells for each reference are enough for two objects and a new one.
Cells == 1..3
NoCell == 0

VARIABLES
    versions,   \* the contents the API server has had, by resourceVersion
    heap,       \* heap[p][i]: the content of a cell
    store,      \* the informer's object: its version and its cells
    copy,       \* the reconciler's
    pc,
    answer      \* the version in the answer that is on its way

vars == <<versions, heap, store, copy, pc, answer>>

rv == Len(versions)
Server == versions[rv]

Object == [rv : 0..MaxVersions, at : [Refs -> Cells \cup {NoCell}]]
Nothing == [rv |-> 0, at |-> [p \in Refs |-> NoCell]]

TypeOK ==
    /\ versions \in Seq([Refs -> UNION {Values(p) : p \in Refs}]) /\ rv \in 1..MaxVersions
    /\ \A v \in 1..rv, p \in Refs : versions[v][p] \in Values(p)
    /\ heap \in [Refs -> [Cells -> UNION {Values(p) : p \in Refs}]]
    /\ store \in Object /\ copy \in Object
    /\ \A p \in Refs, obj \in {store, copy} :
        obj.at[p] # NoCell => heap[p][obj.at[p]] \in Values(p) \ {Nil}
    /\ pc \in {"idle", "read", "update", "decode", "reconciled", "status", "decodeStatus"}
    /\ answer \in 0..MaxVersions

Content(obj) ==
    [p \in Refs |-> IF obj.at[p] = NoCell THEN Nil ELSE heap[p][obj.at[p]]]

New(p) == CHOOSE i \in Cells : i \notin {store.at[p], copy.at[p]}

\* An object of its own with this content.
Decoded(version, content) ==
    [rv |-> version,
     at |-> [p \in Refs |-> IF content[p] = Nil THEN NoCell ELSE New(p)]]

Write(obj, P, content) ==
    heap' = [p \in Refs |-> IF p \in P /\ obj.at[p] # NoCell
                            THEN [heap[p] EXCEPT ![obj.at[p]] = content[p]]
                            ELSE heap[p]]

Init ==
    \E kc \in Values("kubeconfig") :
        /\ versions = << [p \in Refs |-> CASE p = "meta" -> "bare"
                                           [] p = "kubeconfig" -> kc
                                           [] p = "conditions" -> Nil] >>
        /\ heap = [p \in Refs |-> [i \in Cells |-> Nil]]
        /\ store = Nothing /\ copy = Nothing /\ pc = "idle" /\ answer = 0

\* The API server takes a write; one that changes nothing makes no version.
Commit(content) ==
    /\ rv < MaxVersions
    /\ versions' = IF content = Server THEN versions ELSE Append(versions, content)

Edit(kc) ==
    /\ kc # Server["kubeconfig"] /\ Commit([Server EXCEPT !["kubeconfig"] = kc])
    /\ UNCHANGED <<heap, store, copy, pc, answer>>

\* Mutation: the informer decodes into the object it has.
InPlace == [store EXCEPT !.rv = rv]

\* The informer replaces its object by one decoded from the event.
Replacement == Decoded(rv, Server)

Sync ==
    /\ store.rv # rv
    /\ store' = Replacement
    /\ Write(Replacement, Refs, Server)
    /\ UNCHANGED <<versions, copy, pc, answer>>

\* Mutation: what is nil is made, too.
WhateverItHolds(p) == p \in Shared(KD)
\* A cell is not made anew.
SameCell(p) == p \in Shared(KD) \/ store.at[p] = NoCell

\* client.Get from the cache: KryptonDeployment.DeepCopyInto.
Begin ==
    LET taken == [store EXCEPT !.at = [p \in Refs |->
                    IF SameCell(p) THEN store.at[p] ELSE New(p)]]
    IN  /\ pc = "idle" /\ store.rv # 0
        /\ copy' = taken /\ Write(taken, Refs \ Shared(KD), Content(store))
        /\ pc' = IF Content(store)["meta"] = "held" THEN "reconciled" ELSE "read"
        /\ UNCHANGED <<versions, store, answer>>

\* append: a new slice.
AddFinalizer ==
    LET grown == [copy EXCEPT !.at["meta"] = New("meta")]
    IN  /\ pc = "read" /\ pc' = "update"
        /\ copy' = grown /\ Write(grown, {"meta"}, [p \in Refs |-> "held"])
        /\ UNCHANGED <<versions, store, answer>>

\* SetStatusCondition: through the slice, or a new one.
SetReady(report) ==
    LET i == copy.at["conditions"]
        new == [copy EXCEPT !.at["conditions"] = IF i = NoCell THEN New("conditions") ELSE i]
    IN  /\ pc = "reconciled" /\ pc' = "status"
        /\ copy' = new /\ Write(new, {"conditions"}, [p \in Refs |-> report])
        /\ UNCHANGED <<versions, store, answer>>

\* Mutation: the write does not carry the resourceVersion.
AlwaysFits == TRUE
\* The resourceVersion of the copy is the stored one.
Fits == copy.rv = rv

Drop == pc' = "idle" /\ copy' = Nothing

\* Update and Status().Update: accepted, refused, or lost with the answer.
Send(l, answered, content) ==
    /\ pc = l
    /\ \/ Fits /\ Commit(content)
          /\ \/ pc' = answered /\ answer' = Len(versions') /\ UNCHANGED copy
             \/ Drop /\ UNCHANGED answer
       \/ Drop /\ UNCHANGED <<versions, answer>>
    /\ UNCHANGED <<heap, store>>

Update == Send("update", "decode",
               [Content(copy) EXCEPT !["conditions"] = Server["conditions"]])
StatusUpdate == Send("status", "decodeStatus",
                     [Server EXCEPT !["conditions"] = Content(copy)["conditions"]])

\* The answer is decoded into the copy, through the pointers and slices it has;
\* what is absent from the answer stays as it is.
Decode(l) ==
    LET got == versions[answer]
        P == {p \in Refs : got[p] # Nil}
        new == [rv |-> answer,
                at |-> [p \in Refs |->
                          IF p \in P /\ copy.at[p] = NoCell THEN New(p) ELSE copy.at[p]]]
    IN  /\ pc = l /\ Write(new, P, got)
        /\ IF l = "decode" THEN pc' = "reconciled" /\ copy' = new ELSE Drop
        /\ answer' = 0
        /\ UNCHANGED <<versions, store>>

Next ==
    \/ Sync \/ Begin \/ AddFinalizer \/ Update \/ StatusUpdate
    \/ Decode("decode") \/ Decode("decodeStatus")
    \/ \E kc \in Values("kubeconfig") : Edit(kc)
    \/ \E report \in Reports : SetReady(report)

Spec == Init /\ [][Next]_vars

-----------------------------------------------------------------------------
\* No more than a spec's kubeconfig pointer is shared between an object and its
\* deep copy: every other pointer or slice that a type declares has its line in a
\* DeepCopyInto that the copy of the whole object reaches.  Nor do the writes of
\* the reconciler and the client make the two share another cell.
OnlyKubeconfigShared ==
    /\ \A t \in Types : Shared(t) \subseteq {"kubeconfig"}
    /\ \A p \in Refs :
          store.at[p] = copy.at[p] /\ store.at[p] # NoCell => p = "kubeconfig"

\* What the comments on DeepCopy say ("a new deep-copied kryptondeploymentspec",
\* line 63), of the object: its copy shares nothing with it.  RegionInfo has a
\* DeepCopyInto that makes the pointer anew (line 95); nothing calls it.
DeepCopySharesNothing ==
    \A p \in Refs : store.at[p] # NoCell => copy.at[p] # store.at[p]

\* Nothing the reconciler does with its copy shows in the informer's object,
\* the shared pointer notwithstanding: answers are decoded through it, but the
\* optimistic lock lets only those come back that say what is there.
StoreIntact == store.rv # 0 => Content(store) = versions[store.rv]

\* The copy a reconcile works with is one version of the object from beginning
\* to end, however often the informer replaces its own in the meantime.
CopyIntact == pc \in {"read", "reconciled"} => Content(copy) = versions[copy.rv]
=============================================================================
