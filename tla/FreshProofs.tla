---------------------------- MODULE FreshProofs ----------------------------
(***************************************************************************)
(* Proofs about Reconciler: what a worker may conclude about the present   *)
(* from the copy and the handles it carries, and what becomes of an object *)
(* in the hands of its users and of a worker.                              *)
(***************************************************************************)
EXTENDS LockProofs

-----------------------------------------------------------------------------
(* What becomes of a stored object.                                         *)

\* k gets these finalizers and this status, and nothing else changes.
Touched(k, fins, status) ==
    /\ \A j \in KD \ {k} : kd'[j] = kd[j]
    /\ kd'[k] = Gone => kd[k].deleting /\ fins = {}
    /\ kd'[k] # Gone =>
         /\ kd'[k].fins = fins /\ kd'[k].status = status
         /\ kd'[k].spec = kd[k].spec /\ kd'[k].gen = kd[k].gen
         /\ kd'[k].deleting = kd[k].deleting

\* What users do to k: they make it without finalizers and status, change its
\* spec under a new generation, delete it, or let it go if it is not held here.
Used(k) ==
    \/ kd'[k] = kd[k]
    \/ /\ kd[k] = Gone /\ kd'[k] # Gone
       /\ kd'[k].fins = {} /\ kd'[k].status = NoStatus /\ ~kd'[k].deleting
       /\ kd'[k].spec \in Specs
    \/ kd[k] # Gone /\ kd'[k] = Gone /\ Ours \notin kd[k].fins
    \/ /\ kd[k] # Gone /\ kd'[k] # Gone
       /\ (Ours \in kd'[k].fins) = (Ours \in kd[k].fins)
       /\ kd'[k].status = kd[k].status
       /\ kd'[k].spec \in {kd[k].spec} \cup Specs
       /\ kd[k].deleting => kd'[k].deleting
       /\ \/ /\ kd'[k].gen = kd[k].gen /\ kd'[k].spec = kd[k].spec
             /\ kd'[k].deleting = kd[k].deleting
          \/ kd'[k].gen = kd[k].gen + 1

\* An object vanishes only if it is stored as deleted and without finalizers.
LEMMA StoreGone ==
    ASSUME HomeTypeOK, NEW k \in KD, NEW new \in Object, Store(k, new), kd'[k] = Gone
    PROVE  new.deleting /\ new.fins = {}
<1>1. rv[k] + 1 \in Nat /\ kd \in [KD -> Object \cup {Gone}]
  BY DEF HomeTypeOK
<1>2. [new EXCEPT !.rv = rv[k] + 1] \in Object
  BY <1>1 DEF Object
<1> QED
  BY <1>1, <1>2, GoneAssumption DEF Store

\* A write of a worker that finds its lock changes what it is meant to change.
LEMMA LockedWrite ==
    ASSUME LockInv, NEW o \in Operators, pc[o] # "idle", Locked(w[o].key, w[o].obj),
           NEW fins \in SUBSET Finalizers, NEW status \in Status,
           \/ /\ Store(w[o].key, Updated(w[o].key, [w[o].obj EXCEPT !.fins = fins]))
              /\ status = w[o].obj.status
           \/ /\ Store(w[o].key, StatusUpdated(w[o].key, status))
              /\ fins = w[o].obj.fins
    PROVE  /\ kd[w[o].key] = w[o].obj
           /\ Touched(w[o].key, fins, status)
<1> DEFINE k == w[o].key
           obj == w[o].obj
<1>1. k \in KD /\ obj \in Object /\ HomeTypeOK /\ kd[k] = obj
  BY LockedMeansCurrent DEF LockInv, TypeInv, WorkerTyped, WorkOK
<1>2. ASSUME NEW new \in Object, Store(k, new), new.fins = fins, new.status = status,
             new.spec = obj.spec, new.gen = obj.gen, new.deleting = obj.deleting
      PROVE  Touched(k, fins, status)
  <2>1. kd'[k] = Gone => new.deleting /\ new.fins = {}
    BY <1>1, <1>2, StoreGone
  <2>2. /\ \A j \in KD \ {k} : kd'[j] = kd[j]
        /\ kd'[k] # Gone => SameContent(kd'[k], new)
    BY <1>1, <1>2, StoreShape
  <2> QED
    BY <1>1, <1>2, <2>1, <2>2 DEF Touched, SameContent
<1>3. CASE /\ Store(k, Updated(k, [obj EXCEPT !.fins = fins]))
           /\ status = obj.status
  <2> DEFINE new == Updated(k, [obj EXCEPT !.fins = fins])
  <2>1. /\ new \in Object /\ new.fins = fins /\ new.status = status
        /\ new.spec = obj.spec /\ new.gen = obj.gen /\ new.deleting = obj.deleting
    BY <1>1, <1>3 DEF Updated, Object
  <2> HIDE DEF new
  <2> QED
    BY <1>1, <1>2, <1>3, <2>1 DEF new
<1>4. CASE Store(k, StatusUpdated(k, status)) /\ fins = obj.fins
  <2> DEFINE new == StatusUpdated(k, status)
  <2>1. /\ new \in Object /\ new.fins = fins /\ new.status = status
        /\ new.spec = obj.spec /\ new.gen = obj.gen /\ new.deleting = obj.deleting
    BY <1>1, <1>4 DEF StatusUpdated, Object
  <2> HIDE DEF new
  <2> QED
    BY <1>1, <1>2, <1>4, <2>1 DEF new
<1> QED
  BY <1>1, <1>3, <1>4

\* The Update that adds the finalizer: the worker goes on with what it stored.
LEMMA AddFinalizerEffect ==
    ASSUME LockInv, NEW o \in Operators, AddFinalizer(o)
    PROVE  \/ Requeue(o) /\ UNCHANGED <<kd, rv>>
           \/ LET k == w[o].key
              IN  /\ kd[k] = w[o].obj /\ kd'[k] # Gone
                  /\ Touched(k, kd[k].fins \cup {Ours}, kd[k].status)
                  /\ Step(o, "getCluster", [w[o] EXCEPT !.obj = kd'[k]])
<1> DEFINE k == w[o].key
           obj == w[o].obj
           fins == obj.fins \cup {Ours}
<1>1. k \in KD /\ obj \in Object /\ pc[o] # "idle"
  BY DEF AddFinalizer, LockInv, TypeInv, WorkerTyped, WorkOK
<1>2. CASE /\ Locked(k, obj) /\ Store(k, Updated(k, [obj EXCEPT !.fins = @ \cup {Ours}]))
           /\ Step(o, "getCluster", [w[o] EXCEPT !.obj = Refreshed(k)])
  <2>1. fins \in SUBSET Finalizers /\ obj.status \in Status /\ fins # {}
    BY <1>1 DEF Object, Finalizers
  <2>2. Store(k, Updated(k, [obj EXCEPT !.fins = fins]))
    BY <1>2
  <2>3. kd[k] = obj /\ Touched(k, fins, obj.status)
    <3> HIDE DEF fins
    <3> QED
      BY <1>1, <1>2, <2>1, <2>2, LockedWrite
  <2>4. kd'[k] # Gone
    BY <2>1, <2>3 DEF Touched
  <2> QED
    BY <1>2, <2>3, <2>4 DEF Refreshed
<1> QED
  BY <1>2 DEF AddFinalizer

\* The Update that removes it.
LEMMA RemoveFinalizerEffect ==
    ASSUME LockInv, NEW o \in Operators, RemoveFinalizer(o)
    PROVE  \/ Requeue(o) /\ UNCHANGED <<kd, rv>>
           \/ LET k == w[o].key
              IN  /\ kd[k] = w[o].obj
                  /\ Touched(k, kd[k].fins \ {Ours}, kd[k].status)
                  /\ Return(o, queue[o])
<1> DEFINE k == w[o].key
           obj == w[o].obj
           fins == obj.fins \ {Ours}
<1>1. k \in KD /\ obj \in Object /\ pc[o] # "idle"
  BY DEF RemoveFinalizer, LockInv, TypeInv, WorkerTyped, WorkOK
<1>2. CASE /\ Locked(k, obj) /\ Store(k, Updated(k, [obj EXCEPT !.fins = @ \ {Ours}]))
           /\ Return(o, queue[o])
  <2>1. fins \in SUBSET Finalizers /\ obj.status \in Status
    BY <1>1 DEF Object, Finalizers
  <2>2. Store(k, Updated(k, [obj EXCEPT !.fins = fins]))
    BY <1>2
  <2>3. kd[k] = obj /\ Touched(k, fins, obj.status)
    <3> HIDE DEF fins
    <3> QED
      BY <1>1, <1>2, <2>1, <2>2, LockedWrite
  <2> QED
    BY <1>2, <2>3
<1> QED
  BY <1>2 DEF RemoveFinalizer

\* The status update.
LEMMA WriteStatusEffect ==
    ASSUME LockInv, NEW o \in Operators, WriteStatus(o)
    PROVE  /\ Requeue(o)
           /\ \/ UNCHANGED <<kd, rv>>
              \/ LET k == w[o].key
                 IN  /\ kd[k] = w[o].obj /\ kd[k] # Gone
                     /\ Touched(k, kd[k].fins, Outcome(o, w[o].obj, w[o].reason))
<1> DEFINE k == w[o].key
           obj == w[o].obj
           status == Outcome(o, obj, w[o].reason)
<1>1. k \in KD /\ obj \in Object /\ pc[o] # "idle" /\ w[o] \in Work
  BY DEF WriteStatus, LockInv, TypeInv, WorkerTyped, WorkOK
<1>2. CASE Locked(k, obj) /\ Store(k, StatusUpdated(k, status))
  <2>1. status \in Status /\ obj.fins \in SUBSET Finalizers
    BY <1>1, OperatorAssumption DEF Outcome, Status, Object, Work
  <2>2. kd[k] = obj /\ Touched(k, obj.fins, status)
    <3> HIDE DEF status
    <3> QED
      BY <1>1, <1>2, <2>1, LockedWrite
  <2> QED
    BY <1>2, <2>2 DEF Locked, WriteStatus
<1> QED
  BY <1>2 DEF WriteStatus

\* What users do to the objects.
LEMMA UsersUse ==
    ASSUME TypeInv, Users
    PROVE  \A k \in KD : Used(k)
<1>1. HomeTypeOK
  BY DEF TypeInv
<1>2. \A j \in KD : kd[j] # Gone =>
         kd[j] \in Object /\ kd[j].gen \in Nat /\ kd[j].fins \in SUBSET Finalizers
  BY <1>1 DEF HomeTypeOK, Object
<1>3. Ours # Foreign
  BY HomeAssumption DEF Ours
<1>4. ASSUME NEW k \in KD, NEW new \in Object, Store(k, new),
             (kd'[k] # Gone => SameContent(kd'[k], new))
             /\ (kd'[k] = Gone => new.deleting /\ new.fins = {})
             => Used(k)
      PROVE  \A j \in KD : Used(j)
  <2>1. /\ \A j \in KD \ {k} : kd'[j] = kd[j]
        /\ kd'[k] # Gone => SameContent(kd'[k], new)
        /\ kd'[k] = Gone => new.deleting /\ new.fins = {}
    BY <1>1, <1>4, StoreShape, StoreGone
  <2> QED
    BY <1>4, <2>1 DEF Used
<1>5. ASSUME NEW k \in KD, NEW spec \in Specs, Create(k, spec) PROVE \A j \in KD : Used(j)
  <2> DEFINE new == [rv |-> 0, gen |-> 1, spec |-> spec, deleting |-> FALSE,
                     fins |-> {}, status |-> NoStatus]
  <2>1. /\ new \in Object /\ new.fins = {} /\ ~new.deleting
        /\ new.status = NoStatus /\ new.spec = spec
    BY SpecsAssumption DEF Object, NoStatus, Status, Reasons
  <2>2. Store(k, new) /\ kd[k] = Gone
    BY <1>5 DEF Create
  <2> HIDE DEF new
  <2> QED
    BY <1>4, <2>1, <2>2 DEF Used, SameContent
<1>6. ASSUME NEW k \in KD, NEW spec \in Specs, Edit(k, spec) PROVE \A j \in KD : Used(j)
  <2> DEFINE new == [kd[k] EXCEPT !.spec = spec, !.gen = @ + 1]
  <2>1. kd[k] # Gone /\ Store(k, new)
    BY <1>6 DEF Edit
  <2>2. kd[k].gen + 1 \in Nat /\ spec \in KDSpec
    BY <1>2, <2>1, SpecsAssumption
  <2>3. /\ new \in Object /\ new.gen = kd[k].gen + 1 /\ new.spec = spec
        /\ new.fins = kd[k].fins /\ new.status = kd[k].status
        /\ new.deleting = kd[k].deleting
    BY <1>2, <2>1, <2>2 DEF Object
  <2> HIDE DEF new
  <2> QED
    BY <1>4, <2>1, <2>3 DEF Used, SameContent
<1>7. ASSUME NEW k \in KD, Delete(k) PROVE \A j \in KD : Used(j)
  <2> DEFINE new == [kd[k] EXCEPT !.deleting = TRUE, !.gen = @ + 1]
  <2>1. kd[k] # Gone /\ Store(k, new)
    BY <1>7 DEF Delete
  <2>2. kd[k].gen + 1 \in Nat
    BY <1>2, <2>1
  <2>3. /\ new \in Object /\ new.gen = kd[k].gen + 1 /\ new.spec = kd[k].spec
        /\ new.fins = kd[k].fins /\ new.status = kd[k].status /\ new.deleting
    BY <1>2, <2>1, <2>2 DEF Object
  <2> HIDE DEF new
  <2> QED
    BY <1>4, <2>1, <2>3 DEF Used, SameContent
<1>8. ASSUME NEW k \in KD, ToggleForeign(k) PROVE \A j \in KD : Used(j)
  <2>1. kd[k] # Gone
    BY <1>8 DEF ToggleForeign
  <2>2. ASSUME NEW fins \in SUBSET Finalizers, Store(k, [kd[k] EXCEPT !.fins = fins]),
               (Ours \in fins) = (Ours \in kd[k].fins)
        PROVE  \A j \in KD : Used(j)
    <3> DEFINE new == [kd[k] EXCEPT !.fins = fins]
    <3>1. /\ new \in Object /\ new.gen = kd[k].gen /\ new.spec = kd[k].spec
          /\ new.status = kd[k].status /\ new.fins = fins /\ new.deleting = kd[k].deleting
      BY <1>2, <2>1 DEF Object
    <3>2. Store(k, new)
      BY <2>2
    <3> HIDE DEF new
    <3> QED
      BY <1>4, <2>1, <2>2, <3>1, <3>2 DEF Used, SameContent
  <2>3. /\ kd[k].fins \ {Foreign} \in SUBSET Finalizers
        /\ kd[k].fins \cup {Foreign} \in SUBSET Finalizers
    BY <1>2, <2>1 DEF Finalizers
  <2>4. \/ Store(k, [kd[k] EXCEPT !.fins = kd[k].fins \ {Foreign}])
        \/ Store(k, [kd[k] EXCEPT !.fins = kd[k].fins \cup {Foreign}])
    BY <1>8 DEF ToggleForeign
  <2> QED
    BY <1>3, <2>2, <2>3, <2>4
<1> QED
  BY <1>5, <1>6, <1>7, <1>8 DEF Users, RotateSecret, Used

-----------------------------------------------------------------------------
(* The copy of a busy worker, the cache, and the store.                     *)

\* A worker is busy only in a running process.
Running == \A o \in Operators : pc[o] # "idle" => proc[o] = "up"

\* While the object a worker carries is still the stored one, the cache holds a
\* copy that agrees with it on whether the object is being deleted.
Fresh ==
    \A o \in Operators : LET k == w[o].key
                         IN  pc[o] # "idle" /\ kd[k] = w[o].obj =>
                               /\ cache[o][k] # Gone
                               /\ cache[o][k].deleting = w[o].obj.deleting

FreshInv == LockInv /\ Running /\ Fresh

\* A stored object that equals a worker's copy after a step did so before.
LEMMA StillStored ==
    ASSUME LockInv, HomeStep, NEW o \in Operators, pc[o] # "idle",
           kd'[w[o].key] = w[o].obj
    PROVE  kd[w[o].key] = w[o].obj
<1> DEFINE k == w[o].key
<1>1. k \in KD /\ w[o].obj \in Object /\ w[o].obj \in Copies(k)
  BY DEF LockInv, TypeInv, WorkerTyped, WorkOK, Copies
<1>2. w[o].obj # Gone /\ w[o].obj.rv <= rv[k] /\ w[o].obj.rv \in Nat /\ rv[k] \in Nat
  BY <1>1, GoneAssumption DEF LockInv, TypeInv, HomeTypeOK, CopiesAgree, Object
<1> QED
  BY <1>1, <1>2 DEF HomeStep, Stamped

\* A worker that goes on with its object as it was.
LEMMA StaysFresh ==
    ASSUME FreshInv, HomeStep, NEW o \in Operators, pc[o] # "idle",
           w'[o].key = w[o].key, w'[o].obj = w[o].obj,
           cache'[o][w[o].key] \in {cache[o][w[o].key], kd[w[o].key]},
           kd'[w'[o].key] = w'[o].obj
    PROVE  /\ cache'[o][w'[o].key] # Gone
           /\ cache'[o][w'[o].key].deleting = w'[o].obj.deleting
<1>1. kd[w[o].key] = w[o].obj
  BY StillStored DEF FreshInv
<1>2. w[o].obj # Gone
  BY GoneAssumption DEF FreshInv, LockInv, TypeInv, WorkerTyped, WorkOK
<1> QED
  BY <1>1, <1>2 DEF FreshInv, Fresh

\* What a worker takes up: nothing, or the copy in the cache.
LEMMA BeginEffect ==
    ASSUME TypeInv, NEW o \in Operators, NEW k \in KD, Begin(o, k)
    PROVE  /\ UNCHANGED <<home, edge, local>> /\ proc[o] = "up"
           /\ \A p \in Operators \ {o} : pc'[p] = pc[p] /\ w'[p] = w[p]
           /\ \/ pc'[o] = "idle"
              \/ /\ cache[o][k] # Gone
                 /\ pc'[o] = FirstStep(cache[o][k])
                 /\ w'[o].key = k /\ w'[o].obj = cache[o][k]
                 /\ w'[o].cluster = NoCluster /\ w'[o].reason # "Deployed"
<1>1. pc \in [Operators -> Labels] /\ w \in [Operators -> Work] /\ pc[o] = "idle"
  BY DEF TypeInv, WorkerTyped, Begin
<1>2. CASE cache[o][k] = Gone /\ UNCHANGED <<pc, w>>
  BY <1>1, <1>2 DEF Begin
<1>3. CASE cache[o][k] # Gone
  <2> DEFINE new == [NoWork EXCEPT !.key = k, !.obj = cache[o][k],
                       !.reason = IF cache[o][k].spec.account THEN "none"
                                  ELSE "AccountMissing"]
  <2>1. /\ new.key = k /\ new.obj = cache[o][k] /\ new.cluster = NoCluster
        /\ new.reason # "Deployed"
    BY DEF NoWork
  <2>2. w' = [w EXCEPT ![o] = new] /\ pc' = [pc EXCEPT ![o] = FirstStep(cache[o][k])]
    BY <1>3 DEF Begin
  <2> HIDE DEF new
  <2> QED
    BY <1>1, <1>3, <2>1, <2>2 DEF Begin
<1> QED
  BY <1>2, <1>3 DEF Begin

\* FreshInv is inductive.
LEMMA FreshStep == FreshInv /\ [Next]_vars => FreshInv'
<1> SUFFICES ASSUME FreshInv, [Next]_vars PROVE FreshInv'
  OBVIOUS
<1>1. LockInv' /\ HomeStep /\ LockInv
  BY LockStep, HomeSteps DEF FreshInv, LockInv
<1>2. /\ pc \in [Operators -> Labels] /\ w \in [Operators -> Work]
      /\ proc \in [Operators -> {"down", "up", "retired"}]
      /\ cache \in [Operators -> [KD -> Object \cup {Gone}]]
      /\ \A o \in Operators : pc[o] # "idle" => w[o].key \in KD /\ w[o].obj \in Object
  BY <1>1 DEF LockInv, TypeInv, WorkerTyped, LocalTyped, WorkOK
<1>3. SUFFICES ASSUME NEW o \in Operators, pc'[o] # "idle"
               PROVE  /\ proc'[o] = "up"
                      /\ kd'[w'[o].key] = w'[o].obj =>
                           /\ cache'[o][w'[o].key] # Gone
                           /\ cache'[o][w'[o].key].deleting = w'[o].obj.deleting
  BY <1>1 DEF FreshInv, Running, Fresh
<1> DEFINE Goal == /\ proc'[o] = "up"
                   /\ kd'[w'[o].key] = w'[o].obj =>
                        /\ cache'[o][w'[o].key] # Gone
                        /\ cache'[o][w'[o].key].deleting = w'[o].obj.deleting
<1>4. ASSUME pc[o] # "idle", proc'[o] = proc[o], w'[o] = w[o],
             cache'[o][w[o].key] \in {cache[o][w[o].key], kd[w[o].key]}
      PROVE  Goal
  BY <1>1, <1>4, StaysFresh DEF FreshInv, Running
<1>5. ASSUME pc'[o] = pc[o], proc'[o] = proc[o], w'[o] = w[o], cache'[o] = cache[o]
      PROVE  Goal
  BY <1>3, <1>4, <1>5
<1>6. ASSUME NEW p \in Operators, Call(p) PROVE Goal
  <2>1. Moves(p)
    BY <1>1, <1>6, CallsMove DEF LockInv
  <2>2. CASE o # p
    BY <1>5, <2>1, <2>2 DEF Moves, OthersRest
  <2>3. CASE o = p
    <3>1. KeepsGoing(o) /\ UNCHANGED <<proc, cache>>
      BY <1>3, <2>1, <2>3 DEF Moves, ComesBack, LetsGo
    <3>2. pc[o] # "idle"
      BY <1>6, <2>3 DEF Call, AddFinalizer, GetCluster, NsGet, NsCreate, History, GetRelease,
         FetchChart, ChooseOp, Install, Upgrade, Start, CheckOne, ApplyOne, RemoveOne,
         CloseRecord, FailRecord, ApplyFails, Health, WriteStatus, DelCluster, DelHistory,
         Uninstall, UninstallEnd, UninstallFails, DelNamespace, RemoveFinalizer
    <3>3. CASE w'[o].obj = w[o].obj
      BY <1>1, <3>1, <3>2, <3>3, StaysFresh DEF KeepsGoing, FreshInv, Running
    <3>4. CASE AddFinalizer(o) /\ w'[o].obj = kd'[w[o].key]
      <4>1. ~Requeue(o)
        BY <1>2, <1>3 DEF Requeue, Return
      <4>2. /\ kd[w[o].key] = w[o].obj
            /\ kd'[w[o].key].deleting = kd[w[o].key].deleting
        BY <1>1, <3>4, <4>1, AddFinalizerEffect DEF Touched
      <4> QED
        BY <3>1, <3>2, <3>4, <4>2 DEF KeepsGoing, FreshInv, Running, Fresh
    <3> QED
      BY <3>1, <3>3, <3>4 DEF KeepsGoing
  <2> QED
    BY <2>2, <2>3
<1>7. ASSUME NEW p \in Operators, NEW k \in KD, Begin(p, k) PROVE Goal
  <2>1. UNCHANGED <<proc, cache>> /\ proc[p] = "up"
    BY <1>1, <1>7, BeginEffect DEF LockInv, local
  <2>2. CASE o # p
    BY <1>1, <1>5, <1>7, <2>1, <2>2, BeginEffect DEF LockInv
  <2>3. CASE o = p
    BY <1>1, <1>3, <1>7, <2>1, <2>3, BeginEffect DEF LockInv
  <2> QED
    BY <2>2, <2>3
<1>8. ASSUME NEW p \in Operators, Process(p) PROVE Goal
  <2>1. CASE Launch(p)
    <3>1. CASE o # p
      BY <1>2, <1>5, <2>1, <3>1 DEF Launch
    <3>2. CASE o = p
      BY <1>2, <1>3, <2>1, <3>2 DEF Launch, FreshInv, Running
    <3> QED
      BY <3>1, <3>2
  <2>2. ASSUME NEW k \in KD, Deliver(p, k) PROVE Goal
    <3>1. CASE o # p
      BY <1>2, <1>5, <2>2, <3>1 DEF Deliver
    <3>2. CASE o = p
      BY <1>2, <1>3, <1>4, <2>2, <3>2 DEF Deliver
    <3> QED
      BY <3>1, <3>2
  <2>3. ASSUME NEW state, Stop(p, state) PROVE Goal
    BY <1>2, <1>3, <1>5, <2>3 DEF Stop
  <2>4. ASSUME NEW s \in Secrets, DeliverSecret(p, s) PROVE Goal
    BY <1>5, <2>4 DEF DeliverSecret
  <2> QED
    BY <1>8, <2>1, <2>2, <2>3, <2>4 DEF Process, Crash, Retire
<1>9. ASSUME UNCHANGED <<proc, cache, pc, w>> PROVE Goal
  BY <1>5, <1>9
<1>10. \/ \E p \in Operators : Call(p) \/ Process(p) \/ \E k \in KD : Begin(p, k)
       \/ UNCHANGED <<proc, cache, pc, w>>
  BY DEF Next, Worker, ReadFails, Users, PodsRoll, NamespaceEnds, Tampering, inside, vars
<1> QED
  BY <1>6, <1>7, <1>8, <1>9, <1>10

\* FreshInv holds at the start, where nobody works.
LEMMA FreshInit == Init => FreshInv
  BY LockInit DEF Init, FreshInv, Running, Fresh

-----------------------------------------------------------------------------
(* What does not happen does not happen later.                              *)

\* A call leaves the budgets alone or draws on one of them.
LEMMA CallSpends ==
    ASSUME NEW o \in Operators, Worker(o)
    PROVE  UNCHANGED budget \/ \E kind \in Kinds : Spend(kind)
<1>1. {"fault", "old"} \subseteq Kinds
  BY DEF Kinds
<1>2. \A call : CallFails(o, call) => UNCHANGED budget \/ Spend("fault")
  BY DEF CallFails, Fault
<1>3. CASE \/ AddFinalizer(o) \/ GetCluster(o) \/ FetchChart(o) \/ WriteStatus(o)
           \/ DelCluster(o) \/ RemoveFinalizer(o)
           \/ \E k \in KD : Begin(o, k) \/ ReadFails(o, k)
  BY <1>1, <1>3 DEF AddFinalizer, GetCluster, FetchChart, WriteStatus, DelCluster,
     RemoveFinalizer, Begin, ReadFails, Lookup, Fault
<1>4. CASE \/ NsGet(o) \/ NsCreate(o) \/ History(o) \/ GetRelease(o) \/ ChooseOp(o)
           \/ Install(o) \/ Upgrade(o)
           \/ \E r \in Resources : CheckOne(o, r) \/ ApplyOne(o, r) \/ RemoveOne(o, r)
  BY <1>1, <1>2, <1>4 DEF NsGet, NsCreate, History, GetRelease, ChooseOp, Install, Upgrade,
     Start, CheckOne, ApplyOne, RemoveOne, Answers, Fault
<1>5. CASE \/ CloseRecord(o) \/ FailRecord(o) \/ ApplyFails(o) \/ Health(o)
           \/ DelHistory(o) \/ Uninstall(o) \/ UninstallEnd(o) \/ UninstallFails(o) \/ DelNamespace(o)
  BY <1>1, <1>2, <1>5 DEF CloseRecord, FailRecord, ApplyFails, Health, DelHistory, Uninstall,
     UninstallEnd, UninstallFails, DelNamespace, Answers, Fault
<1> QED
  BY <1>3, <1>4, <1>5 DEF Worker, Call

\* So does every step; a Secret changes only by drawing on its budget.
LEMMA StepSpends ==
    ASSUME [Next]_vars
    PROVE  /\ UNCHANGED budget \/ \E kind \in Kinds : Spend(kind)
           /\ secret' # secret => Spend("rotate")
<1>1. Kinds = {"create", "edit", "delete", "foreign", "rotate", "drift", "keep",
               "fault", "crash", "old"}
  BY DEF Kinds
<1>2. ASSUME NEW o \in Operators, Process(o)
      PROVE  UNCHANGED secret /\ (UNCHANGED budget \/ Spend("crash"))
  BY <1>2 DEF Process, Launch, Crash, Retire, Stop, Deliver, DeliverSecret, home
<1>3. ASSUME NEW e \in Edges, NEW n \in Names,
             PodsRoll(e, n) \/ NamespaceEnds(e, n) \/ Tampering(e, n)
      PROVE  UNCHANGED secret /\ (UNCHANGED budget \/ Spend("drift") \/ Spend("keep"))
  BY <1>3 DEF PodsRoll, NamespaceEnds, Tampering, home
<1>4. ASSUME NEW o \in Operators, Worker(o) PROVE UNCHANGED secret
  BY <1>4 DEF Worker, Call, Begin, ReadFails, AddFinalizer, GetCluster, NsGet, NsCreate,
     History, GetRelease, FetchChart, ChooseOp, Install, Upgrade, Start, CheckOne, ApplyOne,
     RemoveOne, CloseRecord, FailRecord, ApplyFails, Health, WriteStatus, DelCluster,
     DelHistory, Uninstall, UninstallEnd, UninstallFails, DelNamespace, RemoveFinalizer,
     home
<1>5. CASE Users
  BY <1>1, <1>5 DEF Users, Create, Edit, Delete, ToggleForeign
<1>6. CASE UNCHANGED vars
  BY <1>6 DEF vars
<1> QED
  BY <1>1, <1>2, <1>3, <1>4, <1>5, <1>6, CallSpends DEF Next

\* A budget that is used up stays so.
LEMMA SpentStays ==
    ASSUME BudgetTyped, [Next]_vars, NEW kind \in Kinds, budget[kind] = 0
    PROVE  budget'[kind] = 0
  BY StepSpends DEF Spend, BudgetTyped

-----------------------------------------------------------------------------
(* Handles.                                                                 *)

\* While Secrets stand, what the informer and the provider have is true.
HandlesTrue ==
    /\ budget["rotate"] = 0
    /\ \A o \in Operators, s \in Secrets :
         /\ proc[o] = "up" /\ Readable(s) => known[o][s] = secret[s]
         /\ known[o][s] # NoCluster => known[o][s] = secret[s] /\ Readable(s)
         /\ clusters[o][s] # NoCluster => clusters[o][s] = secret[s] /\ Readable(s)

\* What a spec leads to is the key of a Secret.
LEMMA TargetIsSecret ==
    ASSUME NEW spec \in KDSpec
    PROVE  ResolveTarget(spec) \in Secrets
  BY HomeAssumption DEF KDSpec, ResolveTarget, Secrets

\* HandlesTrue is preserved while no Secret changes.
LEMMA HandlesStep == FreshInv /\ HandlesTrue /\ [Next]_vars => HandlesTrue'
<1> SUFFICES ASSUME FreshInv, HandlesTrue, [Next]_vars PROVE HandlesTrue'
  OBVIOUS
<1>1. /\ TypeInv /\ BudgetTyped /\ "rotate" \in Kinds
      /\ proc \in [Operators -> {"down", "up", "retired"}]
      /\ known \in [Operators -> [Secrets -> Clusters \cup {NoCluster}]]
      /\ clusters \in [Operators -> [Secrets -> Clusters \cup {NoCluster}]]
  BY DEF FreshInv, LockInv, TypeInv, LocalTyped, Kinds
<1>2. budget'["rotate"] = 0 /\ UNCHANGED secret
  BY <1>1, StepSpends, SpentStays DEF HandlesTrue, Spend
<1>3. CASE UNCHANGED <<proc, known, clusters>>
  BY <1>2, <1>3 DEF HandlesTrue, Readable
<1>4. ASSUME NEW o \in Operators, GetCluster(o) \/ DelCluster(o) PROVE HandlesTrue'
  <2> DEFINE s == ResolveTarget(w[o].obj.spec)
  <2>1. pc[o] # "idle" /\ w[o].obj \in Object /\ UNCHANGED <<proc, known>>
    BY <1>1, <1>4 DEF GetCluster, DelCluster, TypeInv, WorkerTyped, WorkOK
  <2>2. s \in Secrets
    BY <2>1, TargetIsSecret DEF Object
  <2>3. \/ UNCHANGED clusters
        \/ /\ HandleFor(o, s) # NoCluster
           /\ clusters' = [clusters EXCEPT ![o][s] = HandleFor(o, s)]
    BY <1>4 DEF GetCluster, DelCluster, Lookup
  <2> QED
    BY <1>1, <1>2, <1>3, <2>1, <2>2, <2>3 DEF HandlesTrue, HandleFor, Readable
<1>5. ASSUME NEW o \in Operators, Process(o) PROVE HandlesTrue'
  <2>1. CASE Launch(o)
    BY <1>1, <1>2, <2>1 DEF Launch, HandlesTrue, Readable
  <2>2. ASSUME NEW s \in Secrets, DeliverSecret(o, s) PROVE HandlesTrue'
    BY <1>1, <1>2, <2>2 DEF DeliverSecret, HandlesTrue, Readable
  <2>3. ASSUME NEW state \in {"down", "retired"}, Stop(o, state) PROVE HandlesTrue'
    BY <1>1, <1>2, <2>3 DEF Stop, NoHandles, HandlesTrue, Readable
  <2>4. ASSUME NEW k \in KD, Deliver(o, k) PROVE HandlesTrue'
    BY <1>3, <2>4 DEF Deliver
  <2> QED
    BY <1>5, <2>1, <2>2, <2>3, <2>4 DEF Process, Crash, Retire
<1>6. ASSUME NEW o \in Operators, Worker(o)
      PROVE  GetCluster(o) \/ DelCluster(o) \/ UNCHANGED <<proc, known, clusters>>
  BY <1>6 DEF Worker, Call, Begin, ReadFails, AddFinalizer, NsGet, NsCreate,
     History, GetRelease, FetchChart, ChooseOp, Install, Upgrade, Start, CheckOne, ApplyOne,
     RemoveOne, CloseRecord, FailRecord, ApplyFails, Health, WriteStatus, DelHistory,
     Uninstall, UninstallEnd, UninstallFails, DelNamespace, RemoveFinalizer, local, inside
<1>7. \/ \E o \in Operators : Worker(o) \/ Process(o)
      \/ UNCHANGED <<proc, known, clusters>>
  BY DEF Next, Users, PodsRoll, NamespaceEnds, Tampering, inside, vars
<1> QED
  BY <1>3, <1>4, <1>5, <1>6, <1>7

\* HandlesTrue holds at the start, where there are no handles.
LEMMA HandlesInit == Init /\ SecretsStand => HandlesTrue
  BY DEF Init, SecretsStand, HandlesTrue, NoHandles

-----------------------------------------------------------------------------
(* The course of a reconcile.                                               *)

\* From the finalizer to the report, and the calls that have an edge cluster.
Deploying == {"getCluster", "nsGet", "nsCreate", "history", "getRelease", "check",
              "chart", "chooseOp", "install", "upgrade", "apply", "fail", "health"}
AtEdge == (Deploying \ {"getCluster"}) \cup (DeletePCs \ {"delCluster"})

Goes(o, l) ==
    /\ w'[o].key = w[o].key /\ w'[o].obj = w[o].obj /\ w'[o].cluster = w[o].cluster
    /\ pc'[o] = l

\* A step within a reconcile keeps what it does not name.
LEMMA StepGoes ==
    ASSUME WorkerTyped, NEW o \in Operators, NEW l
    PROVE  /\ Goto(o, l) => Goes(o, l) /\ w'[o] = w[o]
           /\ \A reason : Report(o, reason) => Goes(o, "status") /\ w'[o].reason = reason
           /\ \A b : Step(o, l, [w[o] EXCEPT !.repair = b]) => Goes(o, l)
           /\ \A todo : Step(o, l, [w[o] EXCEPT !.todo = todo])
                           => Goes(o, l) /\ w'[o].todo = todo
           /\ \A todo : Step(o, l, [w[o] EXCEPT !.todo = todo, !.repair = TRUE])
                           => Goes(o, l)
           /\ \A todo, op : Step(o, l, [w[o] EXCEPT !.todo = todo, !.op = op])
                           => Goes(o, l) /\ w'[o].todo = todo
           /\ \A c : Step(o, l, [w[o] EXCEPT !.cluster = c])
                           => /\ w'[o].key = w[o].key /\ w'[o].obj = w[o].obj
                              /\ w'[o].cluster = c /\ pc'[o] = l
           /\ \A keys : Return(o, keys) => pc'[o] = "idle"
<1> USE DEF WorkerTyped, Goes, Step
<1>1. w[o] \in Work
  OBVIOUS
<1>2. Goto(o, l) => Goes(o, l) /\ w'[o] = w[o]
  BY DEF Goto
<1>3. \A reason : Report(o, reason) => Goes(o, "status") /\ w'[o].reason = reason
  BY <1>1 DEF Report, Work
<1>4. \A b : Step(o, l, [w[o] EXCEPT !.repair = b]) => Goes(o, l)
  BY <1>1 DEF Work
<1>5. \A todo : Step(o, l, [w[o] EXCEPT !.todo = todo]) => Goes(o, l) /\ w'[o].todo = todo
  BY <1>1 DEF Work
<1>6. \A todo : Step(o, l, [w[o] EXCEPT !.todo = todo, !.repair = TRUE]) => Goes(o, l)
  BY <1>1 DEF Work
<1>9. \A todo, op : Step(o, l, [w[o] EXCEPT !.todo = todo, !.op = op])
                      => Goes(o, l) /\ w'[o].todo = todo
  BY <1>1 DEF Work
<1>7. \A c : Step(o, l, [w[o] EXCEPT !.cluster = c])
                           => /\ w'[o].key = w[o].key /\ w'[o].obj = w[o].obj
                              /\ w'[o].cluster = c /\ pc'[o] = l
  BY <1>1 DEF Work
<1>8. \A keys : Return(o, keys) => pc'[o] = "idle"
  BY DEF Return
<1> QED
  BY <1>2, <1>3, <1>4, <1>5, <1>6, <1>7, <1>8, <1>9

\* The calls to the edge cluster and the chart repository.
EdgeCall(o) ==
    \/ NsGet(o) \/ NsCreate(o) \/ History(o) \/ GetRelease(o) \/ FetchChart(o)
    \/ ChooseOp(o) \/ Install(o) \/ Upgrade(o)
    \/ ApplyFails(o) \/ FailRecord(o) \/ CloseRecord(o) \/ Health(o)
    \/ DelHistory(o) \/ Uninstall(o) \/ UninstallEnd(o) \/ UninstallFails(o) \/ DelNamespace(o)
    \/ \E r \in Resources : CheckOne(o, r) \/ ApplyOne(o, r) \/ RemoveOne(o, r)

\* They are made with an edge cluster, and the stored objects are not their affair.
LEMMA EdgeCallsOnly ==
    ASSUME NEW o \in Operators, EdgeCall(o)
    PROVE  pc[o] \in AtEdge /\ UNCHANGED <<home, local>>
<1> USE DEF AtEdge, Deploying, DeletePCs
<1>1. CASE NsGet(o) \/ NsCreate(o) \/ History(o) \/ GetRelease(o) \/ FetchChart(o)
           \/ ChooseOp(o) \/ Install(o) \/ Upgrade(o)
  BY <1>1 DEF NsGet, NsCreate, History, GetRelease, FetchChart, ChooseOp, Install, Upgrade, Start
<1>2. CASE \/ CloseRecord(o) \/ FailRecord(o) \/ ApplyFails(o) \/ Health(o)
           \/ DelHistory(o) \/ Uninstall(o) \/ UninstallEnd(o) \/ UninstallFails(o) \/ DelNamespace(o)
           \/ \E r \in Resources : CheckOne(o, r) \/ ApplyOne(o, r) \/ RemoveOne(o, r)
  BY <1>2 DEF CloseRecord, FailRecord, ApplyFails, Health, DelHistory, Uninstall, UninstallEnd,
     UninstallFails, DelNamespace, CheckOne, ApplyOne, RemoveOne
<1> QED
  BY <1>1, <1>2 DEF EdgeCall

\* Which labels lead to which: all that the calls to the edge cluster need of it.
LEMMA EdgeCallsFlow ==
    ASSUME TypeInv, NEW o \in Operators, pc'[o] # "idle", EdgeCall(o)
    PROVE  /\ Goes(o, pc'[o]) /\ pc[o] \in AtEdge
           /\ pc[o] \in Deploying => pc'[o] \in (Deploying \ {"getCluster"}) \cup {"status"}
           /\ pc[o] \in DeletePCs => pc'[o] \in DeletePCs \ {"delCluster"}
<1> DEFINE Flow(ls) == Goes(o, pc'[o]) /\ pc'[o] \in ls
<1>1. WorkerTyped
  BY DEF TypeInv
<1>2. \A l : Goto(o, l) => Flow({l})
  BY <1>1, StepGoes DEF Goes
<1>3. \A reason : Report(o, reason) => Flow({"status"})
  BY <1>1, StepGoes DEF Goes
<1>4. ~Requeue(o)
  BY <1>1, StepGoes DEF Requeue
<1>5. \A l, b : Step(o, l, [w[o] EXCEPT !.repair = b]) => Flow({l})
  BY <1>1, StepGoes DEF Goes
<1>6. \A l, todo : Step(o, l, [w[o] EXCEPT !.todo = todo]) => Flow({l})
  BY <1>1, StepGoes DEF Goes
<1>7. /\ \A l, todo : Step(o, l, [w[o] EXCEPT !.todo = todo, !.repair = TRUE]) => Flow({l})
      /\ \A l, todo, op : Step(o, l, [w[o] EXCEPT !.todo = todo, !.op = op]) => Flow({l})
  BY <1>1, StepGoes DEF Goes
<1> HIDE DEF Flow
<1>8. /\ NsGet(o) => pc[o] = "nsGet" /\ \E l \in {"nsCreate", "history"} : Flow({l})
      /\ NsCreate(o) => pc[o] = "nsCreate" /\ Flow({"history"})
  BY <1>2, <1>4 DEF NsGet, NsCreate
<1>9. /\ History(o) => pc[o] = "history" /\ \E l \in {"chart", "getRelease"} : Flow({l})
      /\ GetRelease(o) => pc[o] = "getRelease"
                            /\ \E l \in {"chart", "check", "status"} : Flow({l})
  BY <1>2, <1>3, <1>5, <1>6 DEF History, GetRelease, Repair
<1>10. /\ FetchChart(o) => pc[o] = "chart" /\ \E l \in {"chooseOp", "status"} : Flow({l})
       /\ ChooseOp(o) => pc[o] = "chooseOp" /\ \E l \in {"install", "upgrade"} : Flow({l})
  BY <1>2, <1>3 DEF FetchChart, ChooseOp, HelmOp, DeployFailed
<1>11. /\ Install(o) => pc[o] = "install" /\ \E l \in {"apply", "status"} : Flow({l})
       /\ Upgrade(o) => pc[o] = "upgrade" /\ \E l \in {"apply", "status"} : Flow({l})
  BY <1>3, <1>7 DEF Install, Upgrade, Start, DeployFailed
<1>12. ASSUME NEW r \in Resources
       PROVE  /\ CheckOne(o, r) => pc[o] = "check" /\ \E l \in {"check", "chart"} : Flow({l})
              /\ ApplyOne(o, r) => pc[o] = "apply" /\ Flow({"apply"})
              /\ RemoveOne(o, r) => pc[o] = "remove" /\ Flow({"remove"})
  BY <1>6, <1>7 DEF CheckOne, ApplyOne, RemoveOne
<1>13. /\ CloseRecord(o) => pc[o] = "apply" /\ \E l \in {"health", "status"} : Flow({l})
       /\ ApplyFails(o) => pc[o] = "apply" /\ Flow({"fail"})
       /\ FailRecord(o) => pc[o] = "fail" /\ Flow({"status"})
       /\ Health(o) => pc[o] = "health" /\ Flow({"status"})
  BY <1>2, <1>3, <1>6 DEF CloseRecord, Unrecorded, FailRecord, ApplyFails, Health,
     DeployFailed, DeployDone
<1>14. /\ DelHistory(o) => pc[o] = "delHistory"
                              /\ \E l \in {"delNamespace", "uninstall"} : Flow({l})
       /\ Uninstall(o) => pc[o] = "uninstall"
                             /\ \E l \in {"delNamespace", "remove"} : Flow({l})
  BY <1>2, <1>6 DEF DelHistory, Uninstall
<1>15. /\ UninstallEnd(o) \/ UninstallFails(o) => pc[o] = "remove" /\ Flow({"delNamespace"})
       /\ DelNamespace(o) => pc[o] = "delNamespace" /\ Flow({"removeFinalizer"})
  BY <1>2, <1>6 DEF UninstallEnd, UninstallFails, DelNamespace
<1>16. \/ /\ pc[o] \in Deploying \ {"getCluster"}
          /\ \E l \in (Deploying \ {"getCluster"}) \cup {"status"} : Flow({l})
       \/ /\ pc[o] \in DeletePCs \ {"delCluster"}
          /\ \E l \in DeletePCs \ {"delCluster"} : Flow({l})
  BY <1>8, <1>9, <1>10, <1>11, <1>12, <1>13, <1>14, <1>15
     DEF EdgeCall, Deploying, DeletePCs
<1> QED
  BY <1>16 DEF Flow, AtEdge, Deploying, DeletePCs

\* The calls that are not made to an edge cluster.
LEMMA OtherCalls ==
    ASSUME NEW o \in Operators, Call(o)
    PROVE  \/ AddFinalizer(o) \/ GetCluster(o) \/ DelCluster(o) \/ WriteStatus(o)
           \/ RemoveFinalizer(o) \/ EdgeCall(o)
  BY DEF Call, EdgeCall

-----------------------------------------------------------------------------
(* Who changes the stored objects.                                          *)

\* A step leaves all objects alone, or is one of users, or one of three calls.
LEMMA WhoStores ==
    ASSUME [Next]_vars
    PROVE  \/ UNCHANGED kd
           \/ Users
           \/ \E o \in Operators : AddFinalizer(o) \/ WriteStatus(o) \/ RemoveFinalizer(o)
<1>1. ASSUME NEW o \in Operators, Worker(o)
      PROVE  \/ UNCHANGED kd
             \/ AddFinalizer(o) \/ WriteStatus(o) \/ RemoveFinalizer(o)
  BY <1>1 DEF Worker, Call, Begin, ReadFails, GetCluster, NsGet, NsCreate, History, GetRelease,
     FetchChart, ChooseOp, Install, Upgrade, Start, CheckOne, ApplyOne, RemoveOne,
     CloseRecord, FailRecord, ApplyFails, Health, DelCluster, DelHistory, Uninstall,
     UninstallEnd, UninstallFails, DelNamespace, home
<1>2. ASSUME NEW o \in Operators, Process(o) PROVE UNCHANGED kd
  BY <1>2 DEF Process, Launch, Crash, Retire, Stop, Deliver, DeliverSecret, home
<1>3. ASSUME NEW e \in Edges, NEW n \in Names,
             PodsRoll(e, n) \/ NamespaceEnds(e, n) \/ Tampering(e, n)
      PROVE  UNCHANGED kd
  BY <1>3 DEF PodsRoll, NamespaceEnds, Tampering, home
<1> QED
  BY <1>1, <1>2, <1>3 DEF Next, vars

\* What a step does to one stored object.
LEMMA StoredStep ==
    ASSUME LockInv, [Next]_vars, NEW k \in KD
    PROVE  \/ Used(k)
           \/ \E o \in Operators :
                /\ w[o].key = k /\ kd[k] = w[o].obj
                /\ \/ /\ AddFinalizer(o) /\ pc'[o] = "getCluster"
                      /\ w'[o].key = k /\ w'[o].obj = kd'[k] /\ kd'[k] # Gone
                      /\ Touched(k, kd[k].fins \cup {Ours}, kd[k].status)
                   \/ /\ RemoveFinalizer(o) /\ pc'[o] = "idle"
                      /\ Touched(k, kd[k].fins \ {Ours}, kd[k].status)
                   \/ /\ WriteStatus(o) /\ pc'[o] = "idle"
                      /\ Touched(k, kd[k].fins, Outcome(o, w[o].obj, w[o].reason))
<1>1. /\ TypeInv /\ WorkerTyped
      /\ \A o \in Operators : pc[o] # "idle" => w[o].key \in KD
  BY DEF LockInv, TypeInv, WorkerTyped, WorkOK
<1>2. CASE UNCHANGED kd \/ Users
  BY <1>1, <1>2, UsersUse DEF Used
<1>3. ASSUME NEW o \in Operators, AddFinalizer(o), kd'[k] # kd[k]
      PROVE  /\ w[o].key = k /\ kd[k] = w[o].obj /\ pc'[o] = "getCluster"
             /\ w'[o].key = k /\ w'[o].obj = kd'[k] /\ kd'[k] # Gone
             /\ Touched(k, kd[k].fins \cup {Ours}, kd[k].status)
  <2>1. LET j == w[o].key
        IN  /\ kd[j] = w[o].obj /\ kd'[j] # Gone
            /\ Touched(j, kd[j].fins \cup {Ours}, kd[j].status)
            /\ Step(o, "getCluster", [w[o] EXCEPT !.obj = kd'[j]])
    BY <1>3, AddFinalizerEffect
  <2>2. w[o].key = k
    BY <1>3, <2>1 DEF Touched
  <2>3. pc'[o] = "getCluster" /\ w'[o].key = k /\ w'[o].obj = kd'[k]
    BY <1>1, <2>1, <2>2 DEF WorkerTyped, Step, Work
  <2> QED
    BY <2>1, <2>2, <2>3
<1>4. ASSUME NEW o \in Operators, RemoveFinalizer(o), kd'[k] # kd[k]
      PROVE  /\ w[o].key = k /\ kd[k] = w[o].obj /\ pc'[o] = "idle"
             /\ Touched(k, kd[k].fins \ {Ours}, kd[k].status)
  <2>1. LET j == w[o].key
        IN  /\ kd[j] = w[o].obj
            /\ Touched(j, kd[j].fins \ {Ours}, kd[j].status)
            /\ Return(o, queue[o])
    BY <1>4, RemoveFinalizerEffect
  <2>2. w[o].key = k
    BY <1>4, <2>1 DEF Touched
  <2>3. pc'[o] = "idle"
    BY <1>1, <2>1 DEF WorkerTyped, Return
  <2> QED
    BY <2>1, <2>2, <2>3
<1>5. ASSUME NEW o \in Operators, WriteStatus(o), kd'[k] # kd[k]
      PROVE  /\ w[o].key = k /\ kd[k] = w[o].obj /\ pc'[o] = "idle"
             /\ Touched(k, kd[k].fins, Outcome(o, w[o].obj, w[o].reason))
  <2>1. LET j == w[o].key
        IN  /\ kd[j] = w[o].obj
            /\ Touched(j, kd[j].fins, Outcome(o, w[o].obj, w[o].reason))
            /\ Requeue(o)
    BY <1>5, WriteStatusEffect
  <2>2. w[o].key = k
    BY <1>5, <2>1 DEF Touched
  <2>3. pc'[o] = "idle"
    BY <1>1, <2>1 DEF WorkerTyped, Requeue, Return
  <2> QED
    BY <2>1, <2>2, <2>3
<1>6. CASE kd'[k] = kd[k]
  BY <1>6 DEF Used
<1> QED
  BY <1>2, <1>3, <1>4, <1>5, <1>6, WhoStores

-----------------------------------------------------------------------------
(* What becomes of a worker, and of the sites.                              *)

\* A worker rests, returns, makes a call or takes up an object.
LEMMA WorkerFlow ==
    ASSUME FreshInv, [Next]_vars, NEW o \in Operators
    PROVE  \/ pc'[o] = pc[o] /\ w'[o] = w[o]
           \/ pc'[o] = "idle"
           \/ Call(o)
           \/ \E k \in KD : Begin(o, k)
<1>1. TypeInv /\ CopiesAgree
  BY DEF FreshInv, LockInv
<1>2. ASSUME NEW p \in Operators, p # o, Call(p) \/ \E k \in KD : Begin(p, k)
      PROVE  pc'[o] = pc[o] /\ w'[o] = w[o]
  BY <1>1, <1>2, CallsMove, BeginEffect DEF Moves, OthersRest
<1>3. ASSUME NEW p \in Operators, Process(p)
      PROVE  (pc'[o] = pc[o] /\ w'[o] = w[o]) \/ pc'[o] = "idle"
  BY <1>1, <1>3 DEF Process, Launch, Crash, Retire, Stop, Deliver, DeliverSecret,
     TypeInv, WorkerTyped
<1>4. \/ \E p \in Operators : Call(p) \/ Process(p) \/ \E k \in KD : Begin(p, k)
      \/ UNCHANGED <<pc, w>>
  BY DEF Next, Worker, ReadFails, Users, PodsRoll, NamespaceEnds, Tampering, inside, vars
<1> QED
  BY <1>2, <1>3, <1>4

\* While Secrets stand, a lookup finds the cluster the Secret leads to, or there
\* is none to be found, or the read of the Secret fails.
LEMMA LookupEffect ==
    ASSUME FreshInv, HandlesTrue, NEW o \in Operators, GetCluster(o) \/ DelCluster(o)
    PROVE  LET s == ResolveTarget(w[o].obj.spec)
           IN  /\ s \in Secrets
               /\ w'[o].key = w[o].key /\ w'[o].obj = w[o].obj
               /\ \/ /\ w'[o].cluster = secret[s] /\ Readable(s)
                     /\ pc'[o] = IF pc[o] = "getCluster" THEN "nsGet" ELSE "delHistory"
                  \/ /\ secret[s] = NoCluster \/ ~Readable(s) \/ "secret" \in FaultSites
                     /\ \/ /\ pc[o] = "getCluster" /\ pc'[o] = "status"
                           /\ w'[o].reason = "EdgeUnavailable"
                        \/ pc[o] = "delCluster" /\ pc'[o] = "removeFinalizer"
<1> DEFINE s == ResolveTarget(w[o].obj.spec)
<1>1. /\ WorkerTyped /\ pc[o] # "idle" /\ w[o].obj \in Object /\ proc[o] = "up"
      /\ pc[o] \in {"getCluster", "delCluster"}
  BY DEF GetCluster, DelCluster, FreshInv, LockInv, TypeInv, WorkerTyped, WorkOK, Running
<1>2. s \in Secrets
  BY <1>1, TargetIsSecret DEF Object
<1>3. /\ HandleFor(o, s) # NoCluster => HandleFor(o, s) = secret[s] /\ Readable(s)
      /\ known[o][s] = NoCluster => secret[s] = NoCluster \/ ~Readable(s)
  BY <1>1, <1>2 DEF HandlesTrue, HandleFor
<1> HIDE DEF s
<1>4. CASE GetCluster(o)
  <2>1. \/ /\ HandleFor(o, s) # NoCluster
           /\ Step(o, "nsGet", [w[o] EXCEPT !.cluster = HandleFor(o, s)])
        \/ /\ known[o][s] = NoCluster \/ "secret" \in FaultSites
           /\ Report(o, "EdgeUnavailable")
    BY <1>4 DEF GetCluster, Lookup, Fault, s
  <2>2. pc[o] = "getCluster"
    BY <1>4 DEF GetCluster
  <2> QED
    BY <1>1, <1>2, <1>3, <2>1, <2>2, StepGoes DEF Goes, s
<1>5. CASE DelCluster(o)
  <2>1. \/ /\ HandleFor(o, s) # NoCluster
           /\ Step(o, "delHistory", [w[o] EXCEPT !.cluster = HandleFor(o, s)])
        \/ /\ known[o][s] = NoCluster \/ "secret" \in FaultSites
           /\ Goto(o, "removeFinalizer")
    BY <1>5 DEF DelCluster, Lookup, Fault, SkipEdge, s
  <2>2. pc[o] = "delCluster"
    BY <1>5 DEF DelCluster
  <2> QED
    BY <1>1, <1>2, <1>3, <2>1, <2>2, StepGoes DEF Goes, s
<1> QED
  BY <1>4, <1>5

\* The ways a site changes, field by field.
LEMMA RecordedEffect ==
    ASSUME NEW site \in Site, NEW status \in RelStatus
    PROVE  LET new == Recorded(site, status)
           IN  /\ new \in Site /\ new.rel = status /\ new.ns = site.ns
               /\ new.res = site.res /\ new.pods = site.pods
  BY DEF Recorded, Site

\* One object of the manifest is applied.
LEMMA AppliedEffect ==
    ASSUME NEW site \in Site, NEW r \in Resources, NEW c \in Charts
    PROVE  LET new == Applied(site, r, c)
           IN  /\ new \in Site /\ new.rel = site.rel /\ new.ns = site.ns
               /\ new.pods = site.pods /\ new.res[r] = c
               /\ \A q \in Resources \ {r} : new.res[q] = site.res[q]
  BY DEF Applied, Site

\* Objects are removed.
LEMMA WithoutEffect ==
    ASSUME NEW site \in Site, NEW R
    PROVE  LET new == Without(site, R)
           IN  /\ new \in Site /\ new.rel = site.rel /\ new.ns = site.ns
               /\ \A q \in Resources :
                     new.res[q] = IF q \in R THEN NoChart ELSE site.res[q]
  BY DEF Without, Site

\* The namespace changes its phase.
LEMMA NamespaceEffect ==
    ASSUME NEW site \in Site, NEW x \in {"absent", "active", "terminating"}
    PROVE  LET new == [site EXCEPT !.ns = x]
           IN  /\ new \in Site /\ new.ns = x /\ new.rel = site.rel
               /\ new.res = site.res /\ new.pods = site.pods
  BY DEF Site

\* The pods change.
LEMMA PodsEffect ==
    ASSUME NEW site \in Site, NEW c \in Charts \cup {NoChart}
    PROVE  LET new == [site EXCEPT !.pods = c]
           IN  /\ new \in Site /\ new.ns = site.ns /\ new.rel = site.rel
               /\ new.res = site.res /\ new.pods = c
  BY DEF Site

\* The namespace is gone with what was in it.
LEMMA WipedEffect ==
    ASSUME NEW site \in Site
    PROVE  LET new == Wiped(site)
           IN  /\ new \in Site /\ new.ns = "absent" /\ new.rel = "none"
               /\ \A r \in ClusterScoped : new.res[r] = site.res[r]
<1> DEFINE left == Without(site, Resources \ ClusterScoped)
<1>1. left \in Site /\ \A q \in ClusterScoped : left.res[q] = site.res[q]
  BY WithoutEffect, EdgeAssumption
<1>2. Wiped(site) = [left EXCEPT !.ns = "absent", !.rel = "none"]
  BY DEF Wiped
<1> HIDE DEF left
<1> QED
  BY <1>1, <1>2 DEF Site, RelStatus

\* Sites change by a call to the edge cluster, or there.
LEMMA WhoMovesSites ==
    ASSUME [Next]_vars
    PROVE  \/ UNCHANGED edge
           \/ \E o \in Operators : EdgeCall(o)
           \/ \E e \in Edges, n \in Names :
                 PodsRoll(e, n) \/ NamespaceEnds(e, n) \/ Tampering(e, n)
<1>1. ASSUME NEW o \in Operators, Call(o) PROVE EdgeCall(o) \/ UNCHANGED edge
  BY <1>1, OtherCalls DEF AddFinalizer, GetCluster, DelCluster, WriteStatus, RemoveFinalizer
<1>2. ASSUME NEW o \in Operators, NEW k \in KD, Begin(o, k) \/ ReadFails(o, k)
      PROVE  UNCHANGED edge
  BY <1>2 DEF Begin, ReadFails
<1>3. ASSUME NEW o \in Operators, Process(o) PROVE UNCHANGED edge
  BY <1>3 DEF Process, Launch, Crash, Retire, Stop, Deliver, DeliverSecret
<1> QED
  BY <1>1, <1>2, <1>3 DEF Next, Worker, Users, vars
=============================================================================
