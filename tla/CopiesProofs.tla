---------------------------- MODULE CopiesProofs ----------------------------
(***************************************************************************)
(* Copies: which references of its types a deep copy shares, and what that *)
(* means for any number of versions of an object, whatever is in its spec  *)
(* and its status.                                                         *)
(***************************************************************************)
EXTENDS Copies, SequenceTheorems, TLAPS

-----------------------------------------------------------------------------
(* The types.                                                               *)

InKD == {KD, "KryptonDeploymentList", "KryptonDeploymentSpec", "KryptonDeploymentStatus",
         "AccountInfo", "RegionInfo", "KubeconfigRef", "SecretRef"}
InAccount == {"Account", "AccountList", "AccountSpec", "AccountStatus"}
InRegion == {"Region", "RegionList", "RegionSpec"}

\* The types of the three files.
LEMMA AllTypes ==
    /\ Types = InKD \cup InAccount \cup InRegion
    /\ \A t \in InKD : Structs[t] = KryptonDeploymentTypes[t]
    /\ \A t \in InAccount : Structs[t] = AccountTypes[t]
    /\ \A t \in InRegion : Structs[t] = RegionTypes[t]
<1>1. DOMAIN KryptonDeploymentTypes = InKD
  BY DEF KryptonDeploymentTypes, InKD, KD
<1>2. DOMAIN AccountTypes = InAccount
  BY DEF AccountTypes, InAccount
<1>3. DOMAIN RegionTypes = InRegion
  BY DEF RegionTypes, InRegion
<1>4. Types = InKD \cup InAccount \cup InRegion
  BY <1>1, <1>2, <1>3 DEF Types
<1>5. \A t \in InKD : Structs[t] = KryptonDeploymentTypes[t]
  BY <1>1, <1>2, <1>3, <1>4 DEF Structs, InKD, InAccount, InRegion, KD
<1>6. \A t \in InAccount : Structs[t] = AccountTypes[t]
  BY <1>1, <1>2, <1>3, <1>4 DEF Structs, InKD, InAccount, InRegion, KD
<1>7. \A t \in InRegion : Structs[t] = RegionTypes[t]
  BY <1>1, <1>2, <1>3, <1>4 DEF Structs, InKD, InAccount, InRegion, KD
<1> QED
  BY <1>4, <1>5, <1>6, <1>7

\* What each of them declares and contains.
LEMMA Declarations ==
    /\ Declares(KD) = {"meta"}
    /\ Contains(KD) = {"KryptonDeploymentSpec", "KryptonDeploymentStatus"}
    /\ Declares("KryptonDeploymentList") = {"items"} /\ Contains("KryptonDeploymentList") = {KD}
    /\ Declares("KryptonDeploymentSpec") = {}
    /\ Contains("KryptonDeploymentSpec") = {"AccountInfo", "RegionInfo"}
    /\ Declares("KryptonDeploymentStatus") = {"conditions"}
    /\ Contains("KryptonDeploymentStatus") = {}
    /\ Declares("RegionInfo") = {"kubeconfig"} /\ Contains("RegionInfo") = {}
    /\ Declares("KubeconfigRef") = {} /\ Contains("KubeconfigRef") = {"SecretRef"}
    /\ Declares("Account") = {"meta"} /\ Contains("Account") = {"AccountSpec", "AccountStatus"}
    /\ Declares("AccountList") = {"items"} /\ Contains("AccountList") = {"Account"}
    /\ Declares("AccountStatus") = {"lastSyncTime"} /\ Contains("AccountStatus") = {}
    /\ Declares("Region") = {"meta"} /\ Contains("Region") = {"RegionSpec"}
    /\ Declares("RegionList") = {"items"} /\ Contains("RegionList") = {"Region"}
    /\ \A t \in {"AccountInfo", "SecretRef", "AccountSpec", "RegionSpec"} :
          Declares(t) = {} /\ Contains(t) = {}
<1>1. \A t \in Types : Declares(t) = Structs[t].refs /\ Contains(t) = Structs[t].has
  BY DEF Declares, Contains
<1> USE AllTypes, <1>1 DEF Struct, Plain, KD
<1>2. \A t \in InKD : /\ Declares(t) = KryptonDeploymentTypes[t].refs
                      /\ Contains(t) = KryptonDeploymentTypes[t].has
  OBVIOUS
<1>3. \A t \in InAccount : /\ Declares(t) = AccountTypes[t].refs
                           /\ Contains(t) = AccountTypes[t].has
  OBVIOUS
<1>4. \A t \in InRegion : /\ Declares(t) = RegionTypes[t].refs
                          /\ Contains(t) = RegionTypes[t].has
  OBVIOUS
<1> HIDE AllTypes, <1>1
<1>5. /\ Declares(KD) = {"meta"}
      /\ Contains(KD) = {"KryptonDeploymentSpec", "KryptonDeploymentStatus"}
      /\ Declares("KryptonDeploymentList") = {"items"} /\ Contains("KryptonDeploymentList") = {KD}
      /\ Declares("KryptonDeploymentSpec") = {}
      /\ Contains("KryptonDeploymentSpec") = {"AccountInfo", "RegionInfo"}
  BY <1>2 DEF InKD, KryptonDeploymentTypes
<1>6. /\ Declares("KryptonDeploymentStatus") = {"conditions"}
      /\ Contains("KryptonDeploymentStatus") = {}
      /\ Declares("RegionInfo") = {"kubeconfig"} /\ Contains("RegionInfo") = {}
      /\ Declares("KubeconfigRef") = {} /\ Contains("KubeconfigRef") = {"SecretRef"}
      /\ \A t \in {"AccountInfo", "SecretRef"} : Declares(t) = {} /\ Contains(t) = {}
  BY <1>2 DEF InKD, KryptonDeploymentTypes
<1>7. /\ Declares("Account") = {"meta"} /\ Contains("Account") = {"AccountSpec", "AccountStatus"}
      /\ Declares("AccountList") = {"items"} /\ Contains("AccountList") = {"Account"}
      /\ Declares("AccountStatus") = {"lastSyncTime"} /\ Contains("AccountStatus") = {}
      /\ Declares("AccountSpec") = {} /\ Contains("AccountSpec") = {}
  BY <1>3 DEF InAccount, AccountTypes
<1>8. /\ Declares("Region") = {"meta"} /\ Contains("Region") = {"RegionSpec"}
      /\ Declares("RegionList") = {"items"} /\ Contains("RegionList") = {"Region"}
      /\ Declares("RegionSpec") = {} /\ Contains("RegionSpec") = {}
  BY <1>4 DEF InRegion, RegionTypes
<1> QED
  BY <1>5, <1>6, <1>7, <1>8

\* A union over the types that a type contains.
LEMMA UnionOver ==
    ASSUME NEW f
    PROVE  /\ UNION {f[u] : u \in {}} = {}
           /\ \A a : UNION {f[u] : u \in {a}} = f[a]
           /\ \A a, b : UNION {f[u] : u \in {a, b}} = f[a] \cup f[b]
<1>1. UNION {f[u] : u \in {}} = {}
  OBVIOUS
<1>2. \A a : UNION {f[u] : u \in {a}} = f[a]
  OBVIOUS
<1>3. \A a, b : UNION {f[u] : u \in {a, b}} = f[a] \cup f[b]
  OBVIOUS
<1> QED
  BY <1>1, <1>2, <1>3

\* The references of a type and of all that it contains.
Refers(t) ==
    CASE t = KD -> {"meta", "kubeconfig", "conditions"}
      [] t = "KryptonDeploymentList" -> {"items", "meta", "kubeconfig", "conditions"}
      [] t \in {"KryptonDeploymentSpec", "RegionInfo"} -> {"kubeconfig"}
      [] t = "KryptonDeploymentStatus" -> {"conditions"}
      [] t = "Account" -> {"meta", "lastSyncTime"}
      [] t = "AccountList" -> {"items", "meta", "lastSyncTime"}
      [] t = "AccountStatus" -> {"lastSyncTime"}
      [] t = "Region" -> {"meta"}
      [] t = "RegionList" -> {"items", "meta"}
      [] OTHER -> {}

\* Where the kubeconfig is not made anew.
Sharing == {KD, "KryptonDeploymentList", "KryptonDeploymentSpec"}
Makes(t) == Refers(t) \ (IF t \in Sharing THEN {"kubeconfig"} ELSE {})

\* References solves its equation, as Refers does, and the types that contain others
\* are few levels deep: level by level the two agree.
LEMMA ReferencesOf == \A t \in Types : References[t] = Refers(t)
<1> DEFINE Equation(f) ==
      f = [t \in Types |-> Declares(t) \cup UNION {f[u] : u \in Contains(t)}]
<1> USE UnionOver, Declarations
<1>1. Equation([t \in Types |-> Refers(t)])
  <2> DEFINE f == [t \in Types |-> Refers(t)]
  <2>1. \A t \in InKD \cup InAccount \cup InRegion : f[t] = Refers(t)
    BY AllTypes
  <2> HIDE DEF f
  <2>2. ASSUME NEW t \in InKD PROVE f[t] = Declares(t) \cup UNION {f[u] : u \in Contains(t)}
    BY <2>1 DEF InKD, Refers, KD
  <2>3. ASSUME NEW t \in InAccount \cup InRegion
        PROVE  f[t] = Declares(t) \cup UNION {f[u] : u \in Contains(t)}
    BY <2>1 DEF InAccount, InRegion, Refers, KD
  <2> QED
    BY <2>1, <2>2, <2>3, AllTypes DEF f
<1>2. Equation(References)
  BY <1>1 DEF References
<1>3. \A t \in InKD \cup InAccount \cup InRegion :
         References[t] = Declares(t) \cup UNION {References[u] : u \in Contains(t)}
  BY <1>2, AllTypes
<1> HIDE DEF Equation
<1>4. \A t \in InKD \ {KD, "KryptonDeploymentList"} : References[t] = Refers(t)
  <2>1. \A t \in {"AccountInfo", "SecretRef", "RegionInfo", "KryptonDeploymentStatus"} :
           References[t] = Refers(t)
    <3>1. \A t \in {"AccountInfo", "SecretRef", "RegionInfo", "KryptonDeploymentStatus"} :
             Contains(t) = {} /\ t \in InKD
      BY DEF InKD
    <3>2. \A t \in {"AccountInfo", "SecretRef", "RegionInfo", "KryptonDeploymentStatus"} :
             References[t] = Declares(t)
      BY <1>3, <3>1
    <3> QED
      BY <3>2 DEF Refers, KD
  <2>2. References["KubeconfigRef"] = References["SecretRef"]
    <3>1. UNION {References[u] : u \in {"SecretRef"}} = References["SecretRef"]
      BY UnionOver
    <3>2. Declares("KubeconfigRef") = {} /\ Contains("KubeconfigRef") = {"SecretRef"}
      OBVIOUS
    <3>3. References["KubeconfigRef"] = {} \cup UNION {References[u] : u \in {"SecretRef"}}
      <4> HIDE UnionOver
      <4> QED
        BY <1>3, <3>2 DEF InKD
    <3> QED
      BY <3>1, <3>3
  <2>3. References["KryptonDeploymentSpec"] = References["AccountInfo"] \cup References["RegionInfo"]
    BY <1>3 DEF InKD
  <2>4. \A t \in {"KubeconfigRef", "KryptonDeploymentSpec"} : References[t] = Refers(t)
    BY <2>1, <2>2, <2>3 DEF Refers, KD
  <2> QED
    BY <2>1, <2>4 DEF InKD
<1>5. References[KD] = Refers(KD)
  BY <1>3, <1>4 DEF InKD, Refers, KD
<1>6. References["KryptonDeploymentList"] = Refers("KryptonDeploymentList")
  BY <1>3, <1>5 DEF InKD, Refers, KD
<1>7. \A t \in InAccount \cup InRegion : References[t] = Refers(t)
  BY <1>3 DEF InAccount, InRegion, Refers, KD
<1> QED
  BY <1>4, <1>5, <1>6, <1>7, AllTypes

\* So do Remade and Makes.
LEMMA RemadeOf == \A t \in Types : Remade[t] = Makes(t)
<1> DEFINE Equation(f) ==
      f = [t \in Types |-> Remakes(t) \cup UNION {f[u] : u \in Delegates(t)}]
<1> USE UnionOver, Declarations DEF Remakes, Delegates
<1>1. Equation([t \in Types |-> Makes(t)])
  <2> DEFINE f == [t \in Types |-> Makes(t)]
  <2>1. \A t \in InKD \cup InAccount \cup InRegion : f[t] = Makes(t)
    BY AllTypes
  <2> HIDE DEF f
  <2>2. ASSUME NEW t \in InKD PROVE f[t] = Remakes(t) \cup UNION {f[u] : u \in Delegates(t)}
    BY <2>1 DEF InKD, Makes, Sharing, Refers, KD
  <2>3. ASSUME NEW t \in InAccount \cup InRegion
        PROVE  f[t] = Remakes(t) \cup UNION {f[u] : u \in Delegates(t)}
    BY <2>1 DEF InAccount, InRegion, Makes, Sharing, Refers, KD
  <2> QED
    BY <2>1, <2>2, <2>3, AllTypes DEF f
<1>2. Equation(Remade)
  BY <1>1 DEF Remade
<1>3. \A t \in InKD \cup InAccount \cup InRegion :
         Remade[t] = Remakes(t) \cup UNION {Remade[u] : u \in Delegates(t)}
  BY <1>2, AllTypes
<1> HIDE DEF Equation
<1>4. \A t \in InKD \ {KD, "KryptonDeploymentList"} : Remade[t] = Makes(t)
  BY <1>3 DEF InKD, Makes, Sharing, Refers, KD
<1>5. Remade[KD] = Makes(KD)
  BY <1>3, <1>4 DEF InKD, Makes, Sharing, Refers, KD
<1>6. Remade["KryptonDeploymentList"] = Makes("KryptonDeploymentList")
  BY <1>3, <1>5 DEF InKD, Makes, Sharing, Refers, KD
<1>7. \A t \in InAccount \cup InRegion : Remade[t] = Makes(t)
  BY <1>3 DEF InAccount, InRegion, Makes, Sharing, Refers, KD
<1> QED
  BY <1>4, <1>5, <1>6, <1>7, AllTypes

\* Only the kubeconfig reference of a spec is shared, and whatever type has it as
\* a part (line 57 assigns the region instead of copying it deeply).
LEMMA SharedReferences ==
    \A t \in Types : Shared(t) = IF t \in Sharing THEN {"kubeconfig"} ELSE {}
<1>1. \A t \in Types : Shared(t) = Refers(t) \ Makes(t)
  BY ReferencesOf, RemadeOf DEF Shared
<1>2. \A t \in Sharing : "kubeconfig" \in Refers(t)
  BY DEF Sharing, Refers, KD
<1> QED
  BY <1>1, <1>2 DEF Makes

-----------------------------------------------------------------------------
(* The inductive invariant.                                                 *)

\* Both objects are versions that the server has had.
Past == store.rv <= rv /\ copy.rv <= rv

\* They share nothing that the reconciler or the client writes anew.
Apart ==
    \A p \in Refs : store.at[p] = copy.at[p] /\ store.at[p] # NoCell => p = "kubeconfig"

\* What the copy says at each point of a reconcile: the version it was taken
\* from, but for what the reconciler has changed and the server has not seen;
\* when a write is accepted, the copy says what the answer says.
Tells ==
    /\ pc # "idle" => copy.rv # 0
    /\ pc \in {"read", "reconciled"} => Content(copy) = versions[copy.rv]
    /\ pc = "update" => /\ Content(copy)["meta"] = "held"
                        /\ \A p \in Refs \ {"meta"} : Content(copy)[p] = versions[copy.rv][p]
    /\ pc = "status" => \A p \in Refs \ {"conditions"} :
                            Content(copy)[p] = versions[copy.rv][p]
    /\ pc \in {"decode", "decodeStatus"} =>
          answer \in 1..rv /\ Content(copy) = versions[answer]

CopiesInv == TypeOK /\ Past /\ Apart /\ StoreIntact /\ Tells

-----------------------------------------------------------------------------
(* Cells and versions.                                                      *)

AnyValue == UNION {Values(p) : p \in Refs}

\* The content of obj in the heap h, and that it is what it should be.
In(h, obj) == [p \in Refs |-> IF obj.at[p] = NoCell THEN Nil ELSE h[p][obj.at[p]]]
Good(h, obj) ==
    \A p \in Refs : obj.at[p] # NoCell => h[p][obj.at[p]] \in Values(p) \ {Nil}

\* The values of each reference.
LEMMA ValuesAre ==
    /\ Values("meta") = {"bare", "held"} /\ Values("kubeconfig") = Kubeconfigs \cup {Nil}
    /\ Values("conditions") = Reports \cup {Nil}
    /\ \A p \in Refs : \A v \in Values(p) : v \in AnyValue
    /\ Nil \in AnyValue
<1>1. /\ Values("meta") = {"bare", "held"} /\ Values("kubeconfig") = Kubeconfigs \cup {Nil}
      /\ Values("conditions") = Reports \cup {Nil}
  BY DEF Values
<1>2. \A p \in Refs : \A v \in Values(p) : v \in AnyValue
  BY DEF AnyValue
<1> QED
  BY <1>1, <1>2 DEF Refs

\* A new cell is in nobody's use.
LEMMA NewIsNew ==
    ASSUME TypeOK, NEW p \in Refs
    PROVE  New(p) \in Cells /\ New(p) # store.at[p] /\ New(p) # copy.at[p] /\ New(p) # NoCell
<1>1. \E i \in Cells : i \notin {store.at[p], copy.at[p]}
  <2>1. 1 \in Cells /\ 2 \in Cells /\ 3 \in Cells
    BY DEF Cells
  <2> QED
    BY <2>1
<1> QED
  BY <1>1 DEF New, Cells, NoCell

\* A write changes the cells of the object written to, and no other.
LEMMA WriteEffect ==
    ASSUME TypeOK, NEW obj, NEW P, NEW content, Write(obj, P, content),
           \A p \in Refs : p \in P /\ obj.at[p] # NoCell => content[p] \in Values(p)
    PROVE  /\ heap' \in [Refs -> [Cells -> AnyValue]]
           /\ \A p \in Refs, i \in Cells :
                 heap'[p][i] = IF p \in P /\ obj.at[p] = i THEN content[p] ELSE heap[p][i]
<1>1. heap \in [Refs -> [Cells -> AnyValue]]
  BY DEF TypeOK, AnyValue
<1>2. \A i \in Cells : i # NoCell
  BY DEF Cells, NoCell
<1>3. \A p \in Refs : heap'[p] = IF p \in P /\ obj.at[p] # NoCell
                                 THEN [heap[p] EXCEPT ![obj.at[p]] = content[p]]
                                 ELSE heap[p]
  BY DEF Write
<1>4. \A p \in Refs : p \in P /\ obj.at[p] # NoCell => content[p] \in AnyValue
  BY ValuesAre
<1>5. \A p \in Refs : heap'[p] \in [Cells -> AnyValue]
  BY <1>1, <1>3, <1>4
<1>6. heap' \in [Refs -> [Cells -> AnyValue]]
  BY <1>5 DEF Write
<1>7. \A p \in Refs, i \in Cells :
          heap'[p][i] = IF p \in P /\ obj.at[p] = i THEN content[p] ELSE heap[p][i]
  BY <1>1, <1>2, <1>3
<1> QED
  BY <1>6, <1>7

\* What an object says after a write, to itself or to another.
LEMMA WriteReads ==
    ASSUME TypeOK, NEW obj, NEW P, NEW content, Write(obj, P, content),
           \A p \in Refs : p \in P /\ obj.at[p] # NoCell => content[p] \in Values(p),
           NEW seen \in Object
    PROVE  \A p \in Refs :
              In(heap', seen)[p] = IF p \in P /\ seen.at[p] # NoCell /\ obj.at[p] = seen.at[p]
                                   THEN content[p] ELSE In(heap, seen)[p]
<1>1. \A p \in Refs : seen.at[p] \in Cells \cup {NoCell}
  BY DEF Object
<1> QED
  BY <1>1, WriteEffect DEF In

\* A version, as far as its type goes.
IsContent(content) ==
    /\ content = [p \in Refs |-> content[p]]
    /\ \A p \in Refs : content[p] \in Values(p)

\* Every version is a content.
LEMMA VersionsTyped ==
    ASSUME TypeOK
    PROVE  /\ \A v \in 1..rv : IsContent(versions[v])
           /\ rv \in 1..rv /\ rv \in Nat /\ rv <= MaxVersions /\ MaxVersions \in Nat
<1>1. versions \in Seq([Refs -> AnyValue]) /\ rv \in 1..MaxVersions /\ MaxVersions \in Nat
  BY CopiesAssumption DEF TypeOK, AnyValue
<1>2. \A v \in 1..rv : versions[v] \in [Refs -> AnyValue]
  BY <1>1 DEF rv
<1> QED
  BY <1>1, <1>2 DEF TypeOK, IsContent

\* A commit adds what it is given, or nothing new.
LEMMA CommitEffect ==
    ASSUME TypeOK, NEW content, IsContent(content), Commit(content)
    PROVE  /\ versions' \in Seq([Refs -> AnyValue]) /\ rv' \in 1..MaxVersions /\ rv <= rv'
           /\ \A v \in 1..rv : versions'[v] = versions[v]
           /\ \A v \in 1..rv' : IsContent(versions'[v])
           /\ versions'[rv'] = content
<1>1. /\ versions \in Seq([Refs -> AnyValue]) /\ rv \in 1..MaxVersions /\ rv < MaxVersions
      /\ MaxVersions \in Nat /\ rv \in Nat /\ rv # 0
  BY CopiesAssumption DEF TypeOK, AnyValue, Commit
<1>2. content \in [Refs -> AnyValue]
  BY ValuesAre DEF IsContent
<1>3. \A v \in 1..rv : IsContent(versions[v])
  BY VersionsTyped
<1>4. CASE content = Server /\ versions' = versions
  BY <1>1, <1>3, <1>4 DEF Server, rv
<1>5. CASE versions' = Append(versions, content)
  <2>1. /\ versions' \in Seq([Refs -> AnyValue]) /\ rv' = rv + 1
        /\ \A v \in 1..rv : versions'[v] = versions[v]
        /\ versions'[rv + 1] = content
    BY <1>1, <1>2, <1>5 DEF rv
  <2> QED
    BY <1>1, <1>3, <2>1
<1> QED
  BY <1>4, <1>5 DEF Commit

-----------------------------------------------------------------------------
(* Steps in memory.                                                         *)

Steps == {"idle", "read", "update", "decode", "reconciled", "status", "decodeStatus"}

\* A step that leaves the server alone preserves the invariant if both objects
\* come out well.
LEMMA MemoryStep ==
    ASSUME CopiesInv, UNCHANGED versions,
           heap' \in [Refs -> [Cells -> AnyValue]], store' \in Object, copy' \in Object,
           \A p \in Refs : /\ store'.at[p] # NoCell => In(heap', store')[p] \in Values(p) \ {Nil}
                           /\ copy'.at[p] # NoCell => In(heap', copy')[p] \in Values(p) \ {Nil},
           pc' \in Steps, answer' \in 0..MaxVersions,
           store'.rv <= rv, copy'.rv <= rv,
           store'.rv # 0 => In(heap', store') = versions[store'.rv],
           Apart', Tells'
    PROVE  CopiesInv'
<1>1. rv' = rv
  BY DEF rv
<1>2. Good(heap', store') /\ Good(heap', copy')
  BY DEF Good, In
<1>3. TypeOK'
  BY <1>1, <1>2 DEF CopiesInv, TypeOK, Good, Steps, AnyValue
<1>4. StoreIntact'
  BY DEF StoreIntact, Content, In
<1> QED
  BY <1>1, <1>3, <1>4 DEF CopiesInv, Past

\* What the two objects are before a step.
LEMMA MemoryHas ==
    ASSUME CopiesInv
    PROVE  /\ store \in Object /\ copy \in Object /\ pc \in Steps /\ answer \in 0..MaxVersions
           /\ store.rv <= rv /\ copy.rv <= rv
           /\ \A p \in Refs :
                /\ store.at[p] \in Cells \cup {NoCell} /\ copy.at[p] \in Cells \cup {NoCell}
                /\ store.at[p] = NoCell => In(heap, store)[p] = Nil
                /\ copy.at[p] = NoCell => In(heap, copy)[p] = Nil
                /\ store.at[p] # NoCell => In(heap, store)[p] \in Values(p) \ {Nil}
                /\ copy.at[p] # NoCell => In(heap, copy)[p] \in Values(p) \ {Nil}
           /\ Content(store) = In(heap, store) /\ Content(copy) = In(heap, copy)
<1>1. /\ store \in Object /\ copy \in Object /\ pc \in Steps /\ answer \in 0..MaxVersions
      /\ store.rv <= rv /\ copy.rv <= rv
  BY DEF CopiesInv, TypeOK, Past, Steps
<1>2. \A p \in Refs, obj \in {store, copy} :
          obj.at[p] # NoCell => heap[p][obj.at[p]] \in Values(p) \ {Nil}
  BY DEF CopiesInv, TypeOK
<1> QED
  BY <1>1, <1>2 DEF In, Content, Object

\* The informer decodes into cells of its own.
LEMMA SyncKeeps == ASSUME CopiesInv, Sync PROVE CopiesInv'
<1> DEFINE new == Replacement
<1>1. TypeOK /\ IsContent(Server) /\ rv \in Nat /\ rv <= MaxVersions /\ MaxVersions \in Nat
  BY VersionsTyped DEF CopiesInv, Server
<1>2. /\ new.rv = rv /\ new \in Object
      /\ \A p \in Refs : new.at[p] = IF Server[p] = Nil THEN NoCell ELSE New(p)
  BY <1>1, NewIsNew DEF Replacement, Decoded, Object
<1>3. store' = new /\ Write(new, Refs, Server) /\ UNCHANGED <<versions, copy, pc, answer>>
  BY DEF Sync
<1> HIDE DEF new
<1>4. heap' \in [Refs -> [Cells -> AnyValue]]
  BY <1>1, <1>3, WriteEffect DEF IsContent
<1>5. \A p \in Refs : In(heap', new)[p] = Server[p]
  <2>1. \A p \in Refs : new.at[p] = NoCell => In(heap', new)[p] = Nil
    BY DEF In
  <2> QED
    BY <1>1, <1>2, <1>3, <2>1, NewIsNew, WriteReads DEF IsContent
<1>6. In(heap', new) = Server
  BY <1>1, <1>5 DEF In, IsContent
<1>7. \A p \in Refs : In(heap', copy)[p] = In(heap, copy)[p]
  BY <1>1, <1>2, <1>3, NewIsNew, WriteReads, MemoryHas DEF IsContent
<1>8. In(heap', copy) = In(heap, copy)
  BY <1>7 DEF In
<1>9. \A p \in Refs : new.at[p] # NoCell => Server[p] \in Values(p) \ {Nil}
  BY <1>1, <1>2 DEF IsContent
<1>10. Apart'
  BY <1>1, <1>2, <1>3, NewIsNew DEF Apart
<1>11. Tells'
  BY <1>3, <1>8, MemoryHas DEF CopiesInv, Tells, Content, In, rv
<1> QED
  BY <1>1, <1>2, <1>3, <1>4, <1>5, <1>6, <1>8, <1>9, <1>10, <1>11, MemoryHas, MemoryStep DEF Server

\* The client's deep copy is what it is made from.
LEMMA BeginKeeps == ASSUME CopiesInv, Begin PROVE CopiesInv'
<1> DEFINE new == [store EXCEPT !.at = [p \in Refs |->
                      IF SameCell(p) THEN store.at[p] ELSE New(p)]]
           P == Refs \ Shared(KD)
<1>1. TypeOK /\ store \in Object
  BY MemoryHas DEF CopiesInv
<1>2. Shared(KD) = {"kubeconfig"}
  BY SharedReferences, AllTypes DEF InKD, Sharing
<1>3. /\ new.rv = store.rv /\ new \in Object
      /\ \A p \in Refs : new.at[p] = IF p = "kubeconfig" \/ store.at[p] = NoCell
                                     THEN store.at[p] ELSE New(p)
  BY <1>1, <1>2, NewIsNew DEF Object, SameCell
<1>4. /\ store.rv # 0 /\ copy' = new /\ Write(new, P, Content(store))
      /\ pc' \in {"reconciled", "read"} /\ UNCHANGED <<versions, store, answer>>
  BY DEF Begin
<1> HIDE DEF new
<1>5. \A p \in Refs : p \in P /\ new.at[p] # NoCell => Content(store)[p] \in Values(p)
  BY <1>3, NewIsNew, MemoryHas
<1>6. heap' \in [Refs -> [Cells -> AnyValue]]
  BY <1>1, <1>4, <1>5, WriteEffect
<1>7. \A p \in Refs : In(heap', store)[p] = In(heap, store)[p]
  BY <1>1, <1>2, <1>3, <1>4, <1>5, NewIsNew, WriteReads, MemoryHas
<1>8. \A p \in Refs : In(heap', new)[p] = In(heap, store)[p]
  <2>1. \A p \in Refs : store.at[p] = new.at[p] => In(heap', new)[p] = In(heap', store)[p]
    BY DEF In
  <2>2. \A p \in P : new.at[p] # NoCell => In(heap', new)[p] = In(heap, store)[p]
    BY <1>1, <1>3, <1>4, <1>5, WriteReads, MemoryHas
  <2> QED
    BY <1>1, <1>2, <1>3, <1>7, <2>1, <2>2, NewIsNew
<1>9. In(heap', store) = In(heap, store) /\ In(heap', new) = In(heap, store)
  BY <1>7, <1>8 DEF In
<1>10. \A p \in Refs : new.at[p] # NoCell => store.at[p] # NoCell
  BY <1>3
<1>11. Apart'
  BY <1>1, <1>3, <1>4, NewIsNew DEF Apart
<1>12. In(heap, store) = versions[store.rv]
  BY <1>4, MemoryHas DEF CopiesInv, StoreIntact
<1>13. Tells'
  BY <1>3, <1>4, <1>9, <1>12 DEF Tells, Content, In
<1> QED
  BY <1>3, <1>4, <1>6, <1>9, <1>10, <1>11, <1>12, <1>13, MemoryHas, MemoryStep DEF Steps

\* The reconciler's own writes: into a cell that the informer's object has not.
LEMMA OwnWrite ==
    ASSUME CopiesInv, NEW q \in Refs, q # "kubeconfig", NEW v \in Values(q), v # Nil,
           NEW i \in Cells, i # store.at[q],
           NEW content, content[q] = v,
           copy' = [copy EXCEPT !.at[q] = i],
           Write(copy', {q}, content), UNCHANGED <<versions, store>>
    PROVE  /\ copy' \in Object /\ copy'.rv = copy.rv
           /\ heap' \in [Refs -> [Cells -> AnyValue]]
           /\ In(heap', store) = In(heap, store)
           /\ In(heap', copy')[q] = v
           /\ \A p \in Refs \ {q} : In(heap', copy')[p] = In(heap, copy)[p]
           /\ \A p \in Refs : /\ store.at[p] # NoCell => In(heap', store)[p] \in Values(p) \ {Nil}
                              /\ copy'.at[p] # NoCell => In(heap', copy')[p] \in Values(p) \ {Nil}
           /\ Apart'
<1> DEFINE new == copy'
<1>1. TypeOK /\ copy \in Object /\ store \in Object
  BY MemoryHas DEF CopiesInv
<1>2. /\ new \in Object /\ new.rv = copy.rv /\ new.at[q] = i /\ i # NoCell
      /\ \A p \in Refs \ {q} : new.at[p] = copy.at[p]
  BY <1>1 DEF Object, Cells, NoCell
<1> HIDE DEF new
<1>3. Write(new, {q}, content)
  BY DEF new
<1>4. \A p \in Refs : p \in {q} /\ new.at[p] # NoCell => content[p] \in Values(p)
  OBVIOUS
<1>5. heap' \in [Refs -> [Cells -> AnyValue]]
  BY <1>1, <1>3, <1>4, WriteEffect
<1>6. \A p \in Refs : In(heap', store)[p] = In(heap, store)[p]
  BY <1>1, <1>2, <1>3, <1>4, WriteReads
<1>7. In(heap', new)[q] = v
  BY <1>1, <1>2, <1>3, <1>4, WriteReads
<1>8. \A p \in Refs \ {q} : In(heap', new)[p] = In(heap, copy)[p]
  <2>1. \A p \in Refs \ {q} : In(heap', new)[p] = In(heap, new)[p]
    BY <1>1, <1>2, <1>3, <1>4, WriteReads
  <2> QED
    BY <1>2, <2>1 DEF In
<1>9. In(heap', store) = In(heap, store)
  BY <1>6 DEF In
<1>10. Apart'
  BY <1>2 DEF CopiesInv, Apart, new
<1> QED
  BY <1>2, <1>5, <1>6, <1>7, <1>8, <1>9, <1>10, MemoryHas DEF new

\* The finalizer is added to the copy (line 428): its metadata gets a cell of its own.
LEMMA AddFinalizerKeeps == ASSUME CopiesInv, AddFinalizer PROVE CopiesInv'
<1>1. /\ pc = "read" /\ pc' = "update" /\ UNCHANGED <<versions, store, answer>>
      /\ copy' = [copy EXCEPT !.at["meta"] = New("meta")]
      /\ Write(copy', {"meta"}, [p \in Refs |-> "held"])
  BY DEF AddFinalizer
<1>2. /\ "meta" \in Refs /\ "held" \in Values("meta") /\ "held" # Nil
      /\ New("meta") \in Cells /\ New("meta") # store.at["meta"]
      /\ [p \in Refs |-> "held"]["meta"] = "held"
  BY ValuesAre, NewIsNew, CopiesAssumption DEF CopiesInv, Refs
<1>3. /\ copy' \in Object /\ copy'.rv = copy.rv
      /\ heap' \in [Refs -> [Cells -> AnyValue]]
      /\ In(heap', store) = In(heap, store)
      /\ In(heap', copy')["meta"] = "held"
      /\ \A p \in Refs \ {"meta"} : In(heap', copy')[p] = In(heap, copy)[p]
      /\ \A p \in Refs : /\ store.at[p] # NoCell => In(heap', store)[p] \in Values(p) \ {Nil}
                         /\ copy'.at[p] # NoCell => In(heap', copy')[p] \in Values(p) \ {Nil}
      /\ Apart'
  BY <1>1, <1>2, OwnWrite
<1>4. Tells'
  BY <1>1, <1>3, MemoryHas DEF CopiesInv, Tells, Content, In
<1> QED
  BY <1>1, <1>3, <1>4, MemoryHas, MemoryStep DEF Steps, CopiesInv, StoreIntact

\* The condition is set in the copy (line 388).
LEMMA SetReadyKeeps == ASSUME CopiesInv, NEW report \in Reports, SetReady(report) PROVE CopiesInv'
<1> DEFINE q == "conditions"
           i == IF copy.at[q] = NoCell THEN New(q) ELSE copy.at[q]
<1>1. /\ pc = "reconciled" /\ pc' = "status" /\ UNCHANGED <<versions, store, answer>>
      /\ copy' = [copy EXCEPT !.at[q] = i]
      /\ Write(copy', {q}, [p \in Refs |-> report])
  BY DEF SetReady
<1>2. /\ q \in Refs /\ report \in Values(q) /\ report # Nil /\ q # "kubeconfig"
      /\ [p \in Refs |-> report][q] = report
  BY ValuesAre, CopiesAssumption DEF Refs
<1>3. i \in Cells /\ i # store.at[q]
  BY <1>2, NewIsNew, MemoryHas DEF CopiesInv, Apart
<1>4. /\ copy' \in Object /\ copy'.rv = copy.rv
      /\ heap' \in [Refs -> [Cells -> AnyValue]]
      /\ In(heap', store) = In(heap, store)
      /\ \A p \in Refs \ {q} : In(heap', copy')[p] = In(heap, copy)[p]
      /\ \A p \in Refs : /\ store.at[p] # NoCell => In(heap', store)[p] \in Values(p) \ {Nil}
                         /\ copy'.at[p] # NoCell => In(heap', copy')[p] \in Values(p) \ {Nil}
      /\ Apart'
  <2> HIDE DEF i, q
  <2> QED
    BY <1>1, <1>2, <1>3, OwnWrite
<1>5. Tells'
  BY <1>1, <1>4, MemoryHas DEF CopiesInv, Tells, Content, In
<1> QED
  BY <1>1, <1>4, <1>5, MemoryHas, MemoryStep DEF Steps, CopiesInv, StoreIntact

\* An answer is decoded into cells that say it already.
LEMMA DecodeKeeps ==
    ASSUME CopiesInv, NEW l \in {"decode", "decodeStatus"}, Decode(l)
    PROVE  CopiesInv'
<1> DEFINE got == versions[answer]
           P == {p \in Refs : got[p] # Nil}
           new == [rv |-> answer,
                   at |-> [p \in Refs |->
                             IF p \in P /\ copy.at[p] = NoCell THEN New(p) ELSE copy.at[p]]]
<1>1. /\ TypeOK /\ copy \in Object /\ store \in Object /\ copy.rv # 0
      /\ answer \in 1..rv /\ IsContent(got) /\ In(heap, copy) = got
      /\ answer \in 1..MaxVersions /\ rv \in Nat
  BY MemoryHas, VersionsTyped DEF CopiesInv, Tells, Decode
<1>2. \A p \in Refs : copy.at[p] = NoCell <=> got[p] = Nil
  BY <1>1, MemoryHas
<1>3. /\ new.rv = answer /\ new \in Object /\ \A p \in Refs : new.at[p] = copy.at[p]
  BY <1>1, <1>2, MemoryHas DEF Object
<1>4. /\ Write(new, P, got) /\ UNCHANGED <<versions, store>> /\ answer' = 0
      /\ \/ pc' = "reconciled" /\ copy' = new
         \/ pc' = "idle" /\ copy' = Nothing
  BY DEF Decode, Drop
<1> HIDE DEF new, got
<1>5. \A p \in Refs : p \in P /\ new.at[p] # NoCell => got[p] \in Values(p)
  BY <1>1 DEF IsContent
<1>6. heap' \in [Refs -> [Cells -> AnyValue]]
  BY <1>1, <1>4, <1>5, WriteEffect
<1>7. \A p \in Refs : In(heap', new)[p] = got[p]
  <2>1. \A p \in Refs : In(heap, new)[p] = got[p]
    BY <1>1, <1>3 DEF In
  <2> QED
    BY <1>1, <1>3, <1>4, <1>5, <2>1, WriteReads
<1>8. \A p \in Refs : In(heap', store)[p] = In(heap, store)[p]
  <2>1. \A p \in Refs : store.at[p] = new.at[p] => In(heap, store)[p] = got[p]
    BY <1>1, <1>3 DEF In
  <2> QED
    BY <1>1, <1>4, <1>5, <2>1, WriteReads
<1>9. In(heap', store) = In(heap, store) /\ In(heap', new) = got
  BY <1>1, <1>7, <1>8 DEF In, IsContent
<1>10. \A p \in Refs : new.at[p] # NoCell => In(heap', new)[p] \in Values(p) \ {Nil}
  BY <1>1, <1>2, <1>3, <1>7 DEF IsContent
<1>11. \A p \in Refs : store.at[p] # NoCell => In(heap', store)[p] \in Values(p) \ {Nil}
  BY <1>8, MemoryHas
<1>12. /\ Nothing \in Object /\ Nothing.rv = 0 /\ \A p \in Refs : Nothing.at[p] = NoCell
       /\ MaxVersions \in Nat
  BY <1>1, VersionsTyped DEF Nothing, Object
<1>13. Apart'
  BY <1>3, <1>4, <1>12 DEF CopiesInv, Apart
<1>14. Tells'
  BY <1>1, <1>3, <1>4, <1>9 DEF Tells, Content, In, got
<1>15. /\ copy' \in Object /\ copy'.rv <= rv /\ pc' \in Steps /\ answer' \in 0..MaxVersions
       /\ \A p \in Refs : copy'.at[p] # NoCell => In(heap', copy')[p] \in Values(p) \ {Nil}
  BY <1>1, <1>3, <1>4, <1>10, <1>12 DEF Steps
<1>16. store.rv # 0 => In(heap', store) = versions[store.rv]
  BY <1>9, MemoryHas DEF CopiesInv, StoreIntact
<1> QED
  BY <1>1, <1>4, <1>6, <1>11, <1>13, <1>14, <1>15, <1>16, MemoryHas, MemoryStep

-----------------------------------------------------------------------------
(* Steps of the server.                                                     *)

\* A version more: both objects are what they were.
LEMMA ServerStep ==
    ASSUME CopiesInv, NEW content, IsContent(content), Commit(content),
           UNCHANGED <<heap, store>>,
           \/ UNCHANGED <<copy, pc, answer>>
           \/ pc' = "idle" /\ copy' = Nothing /\ UNCHANGED answer
           \/ /\ UNCHANGED copy /\ copy.rv # 0
              /\ pc' \in {"decode", "decodeStatus"} /\ answer' = Len(versions')
              /\ Content(copy) = content
    PROVE  CopiesInv'
<1>1. TypeOK
  BY DEF CopiesInv
<1>2. /\ versions' \in Seq([Refs -> AnyValue]) /\ rv' \in 1..MaxVersions /\ rv <= rv'
      /\ \A v \in 1..rv : versions'[v] = versions[v]
      /\ \A v \in 1..rv' : IsContent(versions'[v])
      /\ versions'[rv'] = content
  BY <1>1, CommitEffect
<1>3. rv \in Nat /\ MaxVersions \in Nat /\ rv' \in Nat
  BY <1>1, <1>2, VersionsTyped
<1>4. Nothing \in Object /\ Nothing.rv = 0 /\ \A p \in Refs : Nothing.at[p] = NoCell
  BY <1>3 DEF Nothing, Object
<1>5. copy' \in Object /\ copy' \in {copy, Nothing} /\ pc' \in Steps /\ answer' \in 0..MaxVersions
  BY <1>2, <1>3, <1>4, MemoryHas DEF Steps, rv
<1>6. TypeOK'
  BY <1>1, <1>2, <1>4, <1>5 DEF TypeOK, IsContent, AnyValue, Steps
<1>7. Past'
  BY <1>2, <1>3, <1>4, <1>5, MemoryHas DEF Past, Object
<1>8. Apart'
  BY <1>4, <1>5 DEF CopiesInv, Apart
<1>9. /\ store.rv # 0 => store.rv \in 1..rv
      /\ copy.rv # 0 => copy.rv \in 1..rv
  BY <1>3, MemoryHas DEF Object
<1>10. StoreIntact'
  BY <1>2, <1>9 DEF CopiesInv, StoreIntact, Content
<1>11. Tells'
  <2>1. CASE UNCHANGED <<copy, pc, answer>>
    <3>1. copy.rv # 0 => versions'[copy.rv] = versions[copy.rv]
      BY <1>2, <1>9
    <3>2. Content(copy)' = Content(copy)
      BY <2>1 DEF Content
    <3>3. answer \in 1..rv => answer \in 1..rv' /\ versions'[answer] = versions[answer]
      BY <1>2, <1>3
    <3> QED
      BY <2>1, <3>1, <3>2, <3>3 DEF CopiesInv, Tells
  <2>2. CASE pc' = "idle"
    BY <2>2 DEF Tells
  <2>3. CASE /\ UNCHANGED copy /\ copy.rv # 0 /\ pc' \in {"decode", "decodeStatus"}
             /\ answer' = Len(versions') /\ Content(copy) = content
    BY <1>2, <1>3, <2>3 DEF Tells, Content, rv
  <2> QED
    BY <2>1, <2>2, <2>3
<1> QED
  BY <1>6, <1>7, <1>8, <1>10, <1>11 DEF CopiesInv

\* A user's edit concerns the server only.
LEMMA EditKeeps ==
    ASSUME CopiesInv, NEW kc \in Values("kubeconfig"), Edit(kc)
    PROVE  CopiesInv'
<1> DEFINE content == [Server EXCEPT !["kubeconfig"] = kc]
<1>1. IsContent(Server)
  BY VersionsTyped DEF CopiesInv, Server
<1>2. IsContent(content)
  BY <1>1 DEF IsContent
<1>3. Commit(content) /\ UNCHANGED <<heap, store, copy, pc, answer>>
  BY DEF Edit
<1> HIDE DEF content
<1> QED
  BY <1>2, <1>3, ServerStep

\* An accepted write says what the copy says.
LEMMA SendKeeps ==
    ASSUME CopiesInv, NEW l, NEW answered \in {"decode", "decodeStatus"}, NEW content,
           Send(l, answered, content), Fits => IsContent(content) /\ Content(copy) = content,
           copy.rv # 0
    PROVE  CopiesInv'
<1>1. UNCHANGED <<heap, store>>
  BY DEF Send
<1>2. CASE /\ Fits /\ Commit(content)
           /\ \/ pc' = answered /\ answer' = Len(versions') /\ UNCHANGED copy
              \/ Drop /\ UNCHANGED answer
  BY <1>1, <1>2, ServerStep DEF Drop
<1>3. CASE Drop /\ UNCHANGED <<versions, answer>>
  <2>1. Nothing \in Object /\ Nothing.rv = 0 /\ \A p \in Refs : Nothing.at[p] = NoCell
    BY VersionsTyped DEF CopiesInv, Nothing, Object
  <2>2. rv' = rv /\ Content(store)' = Content(store)
    BY <1>1, <1>3 DEF rv, Content
  <2>3. TypeOK'
    BY <1>1, <1>3, <2>1, <2>2 DEF Drop, CopiesInv, TypeOK
  <2>4. Past' /\ Apart' /\ StoreIntact' /\ Tells'
    BY <1>1, <1>3, <2>1, <2>2, VersionsTyped
       DEF Drop, CopiesInv, Past, Apart, StoreIntact, Tells
  <2> QED
    BY <2>3, <2>4 DEF CopiesInv
<1> QED
  BY <1>2, <1>3 DEF Send

\* Update of the copy with the finalizer (line 430).
LEMMA UpdateKeeps == ASSUME CopiesInv, Update PROVE CopiesInv'
<1> DEFINE content == [Content(copy) EXCEPT !["conditions"] = Server["conditions"]]
<1>1. /\ pc = "update" /\ Send("update", "decode", content) /\ copy.rv # 0 /\ TypeOK
      /\ \A p \in Refs \ {"meta"} : Content(copy)[p] = versions[copy.rv][p]
      /\ Content(copy)["meta"] = "held"
  BY DEF Update, Send, CopiesInv, Tells
<1>2. IsContent(Server)
  BY <1>1, VersionsTyped DEF Server
<1>3. Fits => \A p \in Refs \ {"meta"} : Content(copy)[p] = Server[p]
  BY <1>1 DEF Fits, Server
<1>4. Content(copy) = [p \in Refs |-> Content(copy)[p]]
  BY DEF Content
<1>5. Fits => Content(copy) = content
  BY <1>3, <1>4 DEF Refs
<1>6. Fits => IsContent(Content(copy))
  BY <1>1, <1>2, <1>3, <1>4, ValuesAre DEF IsContent
<1> HIDE DEF content
<1> QED
  BY <1>1, <1>5, <1>6, SendKeeps

\* Update of the copy's status.
LEMMA StatusUpdateKeeps == ASSUME CopiesInv, StatusUpdate PROVE CopiesInv'
<1> DEFINE content == [Server EXCEPT !["conditions"] = Content(copy)["conditions"]]
<1>1. /\ pc = "status" /\ Send("status", "decodeStatus", content) /\ copy.rv # 0 /\ TypeOK
      /\ \A p \in Refs \ {"conditions"} : Content(copy)[p] = versions[copy.rv][p]
  BY DEF StatusUpdate, Send, CopiesInv, Tells
<1>2. IsContent(Server)
  BY <1>1, VersionsTyped DEF Server
<1>3. Fits => \A p \in Refs \ {"conditions"} : Content(copy)[p] = Server[p]
  BY <1>1 DEF Fits, Server
<1>4. Content(copy) = [p \in Refs |-> Content(copy)[p]]
  BY DEF Content
<1>5. Content(copy)["conditions"] \in Values("conditions")
  BY MemoryHas, ValuesAre DEF Refs
<1>6. Fits => \A p \in Refs : Content(copy)[p] = content[p]
  BY <1>2, <1>3 DEF IsContent, Refs
<1>7. content = [p \in Refs |-> content[p]]
  BY <1>2 DEF IsContent
<1>8. IsContent(content)
  BY <1>2, <1>5 DEF IsContent
<1> HIDE DEF content
<1>9. Fits => Content(copy) = content
  BY <1>4, <1>6, <1>7
<1> QED
  BY <1>1, <1>8, <1>9, SendKeeps

-----------------------------------------------------------------------------
(* The theorems.                                                            *)

\* Every step keeps the invariant.
LEMMA CopiesStep == CopiesInv /\ [Next]_vars => CopiesInv'
<1> SUFFICES ASSUME CopiesInv, [Next]_vars PROVE CopiesInv'
  OBVIOUS
<1>1. CASE Sync \/ Begin \/ AddFinalizer \/ Update \/ StatusUpdate
  BY <1>1, SyncKeeps, BeginKeeps, AddFinalizerKeeps, UpdateKeeps, StatusUpdateKeeps
<1>2. CASE Decode("decode") \/ Decode("decodeStatus")
  BY <1>2, DecodeKeeps
<1>3. ASSUME NEW kc \in Values("kubeconfig"), Edit(kc) PROVE CopiesInv'
  BY <1>3, EditKeeps
<1>4. ASSUME NEW report \in Reports, SetReady(report) PROVE CopiesInv'
  BY <1>4, SetReadyKeeps
<1>5. CASE UNCHANGED vars
  BY <1>5 DEF vars, CopiesInv, TypeOK, Past, Apart, StoreIntact, Tells, Content, rv
<1> QED
  BY <1>1, <1>2, <1>3, <1>4, <1>5 DEF Next

\* It holds at the start.
LEMMA CopiesInit == Init => CopiesInv
<1> SUFFICES ASSUME Init PROVE CopiesInv
  OBVIOUS
<1>1. PICK kc \in Values("kubeconfig") :
          /\ versions = << [p \in Refs |-> CASE p = "meta" -> "bare"
                                             [] p = "kubeconfig" -> kc
                                             [] p = "conditions" -> Nil] >>
          /\ heap = [p \in Refs |-> [i \in Cells |-> Nil]]
          /\ store = Nothing /\ copy = Nothing /\ pc = "idle" /\ answer = 0
  BY DEF Init
<1>2. /\ rv = 1 /\ MaxVersions \in Nat /\ 1 \in 1..MaxVersions
      /\ versions[1]["meta"] = "bare" /\ versions[1]["kubeconfig"] = kc
      /\ versions[1]["conditions"] = Nil /\ versions[1] = [p \in Refs |-> versions[1][p]]
      /\ versions = <<versions[1]>>
  BY <1>1, CopiesAssumption DEF rv, Refs
<1>3. \A p \in Refs : versions[1][p] \in Values(p) /\ versions[1][p] \in AnyValue
  BY <1>2, ValuesAre DEF Refs
<1>4. versions[1] \in [Refs -> AnyValue]
  BY <1>2, <1>3
<1>5. versions \in Seq([Refs -> AnyValue])
  <2>1. \A S : \A x \in S : <<x>> \in Seq(S)
    OBVIOUS
  <2> QED
    BY <1>2, <1>4, <2>1
<1>6. Nothing \in Object /\ Nothing.rv = 0 /\ \A p \in Refs : Nothing.at[p] = NoCell
  BY <1>2 DEF Nothing, Object
<1>7. heap \in [Refs -> [Cells -> AnyValue]]
  BY <1>1, ValuesAre
<1>8. TypeOK
  <2>1. \A v \in 1..rv, p \in Refs : versions[v][p] \in Values(p)
    BY <1>2, <1>3
  <2>2. rv \in 1..MaxVersions /\ answer \in 0..MaxVersions /\ pc \in Steps
    BY <1>1, <1>2 DEF Steps
  <2>3. \A p \in Refs, obj \in {store, copy} :
            obj.at[p] # NoCell => heap[p][obj.at[p]] \in Values(p) \ {Nil}
    BY <1>1, <1>6
  <2> QED
    BY <1>1, <1>5, <1>6, <1>7, <2>1, <2>2, <2>3 DEF TypeOK, AnyValue, Steps
<1>9. Past /\ Apart /\ StoreIntact /\ Tells
  BY <1>1, <1>2, <1>6 DEF Past, Apart, StoreIntact, Tells
<1> QED
  BY <1>8, <1>9 DEF CopiesInv

\* Every cell an object has holds a value of its kind, for any number of versions.
THEOREM CopiesTyped == Spec => []TypeOK
<1>1. CopiesInv => TypeOK
  BY DEF CopiesInv
<1> QED
  BY <1>1, CopiesInit, CopiesStep, PTL DEF Spec

\* Whatever the reconciler and the client write to the copy, no reference is ever
\* shared but the one that DeepCopyInto leaves shared (line 57).
THEOREM NothingElseShared == Spec => []OnlyKubeconfigShared
<1>1. CopiesInv => OnlyKubeconfigShared
  BY SharedReferences DEF CopiesInv, Apart, OnlyKubeconfigShared
<1> QED
  BY <1>1, CopiesInit, CopiesStep, PTL DEF Spec

\* The informer's object is always a version of the API server's, although answers
\* are decoded through a pointer that it shares: the lock lets only such answers
\* come back that say what is there.
THEOREM CacheStaysTrue == Spec => []StoreIntact
<1>1. CopiesInv => StoreIntact
  BY DEF CopiesInv
<1> QED
  BY <1>1, CopiesInit, CopiesStep, PTL DEF Spec

\* The copy a reconcile decides on is one version of the object.
THEOREM CopyStaysWhole == Spec => []CopyIntact
<1>1. CopiesInv => CopyIntact
  BY DEF CopiesInv, Tells, CopyIntact
<1> QED
  BY <1>1, CopiesInit, CopiesStep, PTL DEF Spec
=============================================================================
