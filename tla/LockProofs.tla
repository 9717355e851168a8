----------------------------- MODULE LockProofs -----------------------------
(***************************************************************************)
(* Proofs about Reconciler: what the optimistic lock of the home cluster   *)
(* buys an operator that works from stale copies.                          *)
(***************************************************************************)
EXTENDS ReconcilerProofs

\* A write leaves an object alone or gives it the next resourceVersion.
Stamped(k) ==
    \/ kd'[k] = kd[k] /\ rv'[k] = rv[k]
    \/ rv'[k] = rv[k] + 1 /\ (kd'[k] = Gone \/ kd'[k].rv = rv[k] + 1)

\* Two objects that differ in the resourceVersion at most.
SameContent(a, b) ==
    /\ a.spec = b.spec /\ a.gen = b.gen /\ a.deleting = b.deleting
    /\ a.fins = b.fins /\ a.status = b.status

\* What storing new does to k, and that it does nothing else.
LEMMA StoreShape ==
    ASSUME HomeTypeOK, NEW k \in KD, NEW new \in Object, Store(k, new)
    PROVE  /\ \A j \in KD : Stamped(j)
           /\ \A j \in KD \ {k} : kd'[j] = kd[j]
           /\ kd'[k] # Gone => SameContent(kd'[k], new)
<1> DEFINE stamped == [new EXCEPT !.rv = rv[k] + 1]
<1>1. /\ rv[k] + 1 \in Nat
      /\ kd \in [KD -> Object \cup {Gone}] /\ rv \in [KD -> Nat]
  BY DEF HomeTypeOK
<1>2. /\ stamped \in Object /\ stamped.rv = rv[k] + 1
      /\ SameContent(stamped, new)
  BY <1>1 DEF Object, SameContent
<1>3. CASE kd[k] = new /\ UNCHANGED <<kd, rv>>
  BY <1>3 DEF Stamped, SameContent
<1>4. CASE /\ rv' = [rv EXCEPT ![k] = @ + 1]
           /\ kd' = [kd EXCEPT ![k] = Gone]
  BY <1>1, <1>4 DEF Stamped
<1>5. CASE /\ rv' = [rv EXCEPT ![k] = @ + 1]
           /\ kd' = [kd EXCEPT ![k] = stamped]
  <2> HIDE DEF stamped
  <2> QED
    BY <1>1, <1>2, <1>5 DEF Stamped
<1> QED
  BY <1>3, <1>4, <1>5 DEF Store

\* The lock works: a copy with the stored resourceVersion is the stored object.
LEMMA LockedMeansCurrent ==
    ASSUME TypeInv, CopiesAgree, NEW o \in Operators, pc[o] # "idle",
           Locked(w[o].key, w[o].obj)
    PROVE  kd[w[o].key] = w[o].obj
<1> DEFINE k == w[o].key
<1>1. k \in KD /\ w[o].obj \in Object /\ kd[k] # Gone /\ kd[k].rv = w[o].obj.rv
  BY DEF TypeInv, WorkerTyped, WorkOK, Locked
<1>2. w[o].obj # Gone
  BY <1>1, GoneAssumption
<1>3. kd[k] \in Copies(k) /\ w[o].obj \in Copies(k)
  BY DEF Copies
<1> QED
  BY <1>1, <1>2, <1>3 DEF CopiesAgree

-----------------------------------------------------------------------------
(* What a step may do to the stored objects.                                *)

\* Spec and foreign finalizers change by a user's hand, the generation never
\* goes back, and the status is left alone or about the present generation.
Legitimate(k) ==
    /\ kd[k] # Gone /\ kd'[k] # Gone =>
         /\ kd'[k].spec = kd[k].spec \/ budget'["edit"] < budget["edit"]
         /\ \/ (Foreign \in kd'[k].fins) = (Foreign \in kd[k].fins)
            \/ budget'["foreign"] < budget["foreign"]
         /\ kd'[k].gen >= kd[k].gen
         /\ kd'[k].status.obs \in {kd[k].status.obs, kd[k].gen}
    /\ kd[k] = Gone /\ kd'[k] # Gone => kd'[k].status.obs <= kd'[k].gen

HomeStep == \A k \in KD : Stamped(k) /\ Legitimate(k)

\* Steps that leave the stored objects alone.
LEMMA NothingStored ==
    ASSUME HomeTypeOK, UNCHANGED <<kd, rv>>
    PROVE  HomeStep
<1> SUFFICES ASSUME NEW k \in KD PROVE Stamped(k) /\ Legitimate(k)
  BY DEF HomeStep
<1>1. kd[k] # Gone => kd[k] \in Object
  BY DEF HomeTypeOK
<1>2. kd[k] # Gone => kd[k].gen \in Nat
  BY <1>1 DEF Object
<1> QED
  BY <1>2 DEF Stamped, Legitimate

\* What becomes of the object if the worker's writes find their lock.
LEMMA WorkerWrites ==
    ASSUME TypeInv, CopiesAgree, NEW o \in Operators,
           AddFinalizer(o) \/ WriteStatus(o) \/ RemoveFinalizer(o)
    PROVE  HomeStep
<1> DEFINE k == w[o].key
           obj == w[o].obj
<1>1. k \in KD /\ obj \in Object /\ pc[o] # "idle" /\ HomeTypeOK
  BY DEF AddFinalizer, WriteStatus, RemoveFinalizer, TypeInv, WorkerTyped, WorkOK
<1>2. CASE UNCHANGED <<kd, rv>>
  BY <1>1, <1>2, NothingStored
<1>3. CASE Locked(k, obj)
  <2>1. kd[k] = obj
    BY <1>1, <1>3, LockedMeansCurrent
  <2>2. ASSUME NEW new \in Object, Store(k, new), new.spec = obj.spec, new.gen = obj.gen,
               (Foreign \in new.fins) = (Foreign \in obj.fins),
               new.status.obs \in {obj.status.obs, obj.gen}
        PROVE  HomeStep
    <3>1. /\ \A j \in KD : Stamped(j)
          /\ \A j \in KD \ {k} : kd'[j] = kd[j]
          /\ kd'[k] # Gone => SameContent(kd'[k], new)
      BY <1>1, <2>2, StoreShape
    <3>2. \A j \in KD : kd[j] # Gone => kd[j].gen \in Nat
      BY <1>1 DEF HomeTypeOK, Object
    <3>3. \A j \in KD \ {k} : Legitimate(j)
      BY <3>1, <3>2 DEF Legitimate
    <3>4. Legitimate(k)
      <4>1. kd[k] # Gone
        BY <1>3 DEF Locked
      <4> QED
        BY <1>1, <2>1, <2>2, <3>1, <3>2, <4>1 DEF Legitimate, SameContent
    <3> QED
      BY <3>1, <3>3, <3>4 DEF HomeStep
  <2>3. \A fins \in SUBSET Finalizers :
          LET new == [obj EXCEPT !.fins = fins]
          IN  /\ Updated(k, new) \in Object /\ Updated(k, new).spec = obj.spec
              /\ Updated(k, new).gen = obj.gen /\ Updated(k, new).fins = fins
              /\ Updated(k, new).status = obj.status
    BY <1>1, <2>1 DEF Updated, Object
  <2>4. Ours # Foreign /\ obj.fins \in SUBSET Finalizers
    BY <1>1, HomeAssumption DEF Ours, Object
  <2>5. CASE Store(k, Updated(k, [obj EXCEPT !.fins = @ \cup {Ours}]))
    <3> DEFINE fins == obj.fins \cup {Ours}
    <3>1. fins \in SUBSET Finalizers /\ (Foreign \in fins) = (Foreign \in obj.fins)
      BY <2>4 DEF Finalizers
    <3>2. Store(k, Updated(k, [obj EXCEPT !.fins = fins]))
      BY <2>5
    <3> HIDE DEF fins
    <3> QED
      BY <2>2, <2>3, <3>1, <3>2
  <2>6. CASE Store(k, Updated(k, [obj EXCEPT !.fins = @ \ {Ours}]))
    <3> DEFINE fins == obj.fins \ {Ours}
    <3>1. fins \in SUBSET Finalizers /\ (Foreign \in fins) = (Foreign \in obj.fins)
      BY <2>4
    <3>2. Store(k, Updated(k, [obj EXCEPT !.fins = fins]))
      BY <2>6
    <3> HIDE DEF fins
    <3> QED
      BY <2>2, <2>3, <3>1, <3>2
  <2>7. CASE WriteStatus(o) /\ Store(k, StatusUpdated(k, Outcome(o, obj, w[o].reason)))
    <3> DEFINE status == Outcome(o, obj, w[o].reason)
    <3>1. status \in Status /\ status.obs = obj.gen
      <4>1. w[o].reason \in Reasons /\ ChartOf[o] \in Charts
        BY OperatorAssumption DEF TypeInv, WorkerTyped, Work
      <4>2. obj.gen \in Nat /\ obj.status.chart \in Charts \cup {NoChart}
        BY <1>1 DEF Object, Status
      <4> QED
        BY <4>1, <4>2 DEF Outcome, Status
    <3>2. /\ StatusUpdated(k, status) \in Object
          /\ SameContent(StatusUpdated(k, status), [obj EXCEPT !.status = status])
      BY <1>1, <2>1, <3>1 DEF StatusUpdated, Object, SameContent
    <3>3. /\ StatusUpdated(k, status).spec = obj.spec
          /\ StatusUpdated(k, status).gen = obj.gen
          /\ StatusUpdated(k, status).fins = obj.fins
          /\ StatusUpdated(k, status).status = status
      BY <1>1, <2>1 DEF StatusUpdated, Object
    <3>4. Store(k, StatusUpdated(k, status))
      BY <2>7
    <3> HIDE DEF status
    <3> QED
      BY <2>2, <3>1, <3>2, <3>3, <3>4
  <2> QED
    BY <1>2, <2>5, <2>6, <2>7 DEF AddFinalizer, WriteStatus, RemoveFinalizer
<1> QED
  BY <1>2, <1>3 DEF AddFinalizer, WriteStatus, RemoveFinalizer

\* What becomes of the objects in the users' hands.
LEMMA UserWrites ==
    ASSUME TypeInv, Users
    PROVE  HomeStep
<1>1. HomeTypeOK /\ budget \in [Kinds -> Nat]
  BY DEF TypeInv, BudgetTyped
<1>2. \A j \in KD : kd[j] # Gone =>
         /\ kd[j] \in Object /\ kd[j].gen \in Nat /\ kd[j].status.obs \in Nat
         /\ kd[j].fins \in SUBSET Finalizers
  BY <1>1 DEF HomeTypeOK, Object, Status
<1>3. ASSUME NEW k \in KD, NEW new \in Object, Store(k, new),
             kd[k] # Gone => /\ new.spec = kd[k].spec \/ budget'["edit"] < budget["edit"]
                             /\ \/ (Foreign \in new.fins) = (Foreign \in kd[k].fins)
                                \/ budget'["foreign"] < budget["foreign"]
                             /\ new.gen \in {kd[k].gen, kd[k].gen + 1}
                             /\ new.status = kd[k].status,
             kd[k] = Gone => new.status.obs <= new.gen
      PROVE  HomeStep
  <2>1. /\ \A j \in KD : Stamped(j)
        /\ \A j \in KD \ {k} : kd'[j] = kd[j]
        /\ kd'[k] # Gone => SameContent(kd'[k], new)
    BY <1>1, <1>3, StoreShape
  <2>2. \A j \in KD \ {k} : Legitimate(j)
    BY <1>2, <2>1 DEF Legitimate
  <2>3. Legitimate(k)
    <3>1. CASE kd[k] = Gone
      BY <1>3, <2>1, <3>1 DEF Legitimate, SameContent
    <3>2. CASE kd[k] # Gone
      BY <1>2, <1>3, <2>1, <3>2 DEF Legitimate, SameContent
    <3> QED
      BY <3>1, <3>2
  <2> QED
    BY <2>1, <2>2, <2>3 DEF HomeStep
<1>4. ASSUME NEW k \in KD, NEW spec \in Specs, Create(k, spec) PROVE HomeStep
  <2> DEFINE new == [rv |-> 0, gen |-> 1, spec |-> spec, deleting |-> FALSE,
                     fins |-> {}, status |-> NoStatus]
  <2>1. new \in Object /\ new.status.obs <= new.gen
    BY SpecsAssumption DEF Object, NoStatus, Status, Reasons
  <2>2. Store(k, new) /\ kd[k] = Gone
    BY <1>4 DEF Create
  <2> HIDE DEF new
  <2> QED
    BY <1>3, <2>1, <2>2
<1>5. ASSUME NEW k \in KD, NEW spec \in Specs, Edit(k, spec), Spend("edit") PROVE HomeStep
  <2> DEFINE new == [kd[k] EXCEPT !.spec = spec, !.gen = @ + 1]
  <2>1. kd[k] # Gone /\ Store(k, new)
    BY <1>5 DEF Edit
  <2>2. kd[k].gen + 1 \in Nat /\ spec \in KDSpec
    BY <1>2, <2>1, SpecsAssumption
  <2>3. /\ new \in Object /\ new.gen = kd[k].gen + 1
        /\ new.fins = kd[k].fins /\ new.status = kd[k].status
    BY <1>2, <2>1, <2>2 DEF Object
  <2>4. budget'["edit"] < budget["edit"]
    BY <1>1, <1>5 DEF Spend, Kinds
  <2> HIDE DEF new
  <2> QED
    BY <1>3, <2>1, <2>3, <2>4
<1>6. ASSUME NEW k \in KD, Delete(k) PROVE HomeStep
  <2> DEFINE new == [kd[k] EXCEPT !.deleting = TRUE, !.gen = @ + 1]
  <2>1. kd[k] # Gone /\ Store(k, new)
    BY <1>6 DEF Delete
  <2>2. kd[k].gen + 1 \in Nat
    BY <1>2, <2>1
  <2>3. /\ new \in Object /\ new.gen = kd[k].gen + 1 /\ new.spec = kd[k].spec
        /\ new.fins = kd[k].fins /\ new.status = kd[k].status
    BY <1>2, <2>1, <2>2 DEF Object
  <2> HIDE DEF new
  <2> QED
    BY <1>3, <2>1, <2>3
<1>7. ASSUME NEW k \in KD, ToggleForeign(k), Spend("foreign") PROVE HomeStep
  <2>1. budget'["foreign"] < budget["foreign"] /\ kd[k] # Gone
    BY <1>1, <1>7 DEF Spend, Kinds, ToggleForeign
  <2>2. ASSUME NEW fins \in SUBSET Finalizers, Store(k, [kd[k] EXCEPT !.fins = fins])
        PROVE  HomeStep
    <3> DEFINE new == [kd[k] EXCEPT !.fins = fins]
    <3>1. /\ new \in Object /\ new.gen = kd[k].gen /\ new.spec = kd[k].spec
          /\ new.status = kd[k].status
      BY <1>2, <2>1 DEF Object
    <3>2. Store(k, new)
      BY <2>2
    <3> HIDE DEF new
    <3> QED
      BY <1>3, <2>1, <3>1, <3>2
  <2>3. /\ kd[k].fins \ {Foreign} \in SUBSET Finalizers
        /\ kd[k].fins \cup {Foreign} \in SUBSET Finalizers
    BY <1>2, <2>1 DEF Finalizers
  <2>4. \/ Store(k, [kd[k] EXCEPT !.fins = kd[k].fins \ {Foreign}])
        \/ Store(k, [kd[k] EXCEPT !.fins = kd[k].fins \cup {Foreign}])
    BY <1>7 DEF ToggleForeign
  <2> QED
    BY <2>2, <2>3, <2>4
<1>8. CASE UNCHANGED <<kd, rv>>
  BY <1>1, <1>8, NothingStored
<1> QED
  BY <1>4, <1>5, <1>6, <1>7, <1>8 DEF Users, RotateSecret

\* Every other call of a worker is about the edge or the Secrets.
LEMMA CallsStore ==
    ASSUME TypeInv, CopiesAgree, NEW o \in Operators, Worker(o)
    PROVE  HomeStep
<1>1. CASE AddFinalizer(o) \/ WriteStatus(o) \/ RemoveFinalizer(o)
  BY <1>1, WorkerWrites
<1>2. CASE UNCHANGED <<kd, rv>>
  BY <1>2, NothingStored DEF TypeInv
<1>3. \/ AddFinalizer(o) \/ WriteStatus(o) \/ RemoveFinalizer(o)
      \/ UNCHANGED <<kd, rv>>
  BY DEF Worker, Call, Begin, ReadFails, GetCluster, NsGet, NsCreate, History, GetRelease,
     FetchChart, ChooseOp, Install, Upgrade, Start, CheckOne, ApplyOne, RemoveOne,
     CloseRecord, FailRecord, ApplyFails, Health, DelCluster, DelHistory, Uninstall,
     UninstallEnd, UninstallFails, DelNamespace, home
<1> QED
  BY <1>1, <1>2, <1>3

\* What a step of the system may do to the stored objects.
LEMMA HomeSteps ==
    ASSUME TypeInv, CopiesAgree, [Next]_vars
    PROVE  HomeStep
<1>1. CASE Users
  BY <1>1, UserWrites
<1>2. ASSUME NEW o \in Operators, Worker(o) PROVE HomeStep
  BY <1>2, CallsStore
<1>3. CASE UNCHANGED <<kd, rv>>
  BY <1>3, NothingStored DEF TypeInv
<1>4. ASSUME NEW o \in Operators, Process(o) PROVE UNCHANGED <<kd, rv>>
  BY <1>4 DEF Process, Launch, Crash, Retire, Stop, Deliver, DeliverSecret, home
<1>5. ASSUME NEW e \in Edges, NEW n \in Names,
             PodsRoll(e, n) \/ NamespaceEnds(e, n) \/ Tampering(e, n)
      PROVE  UNCHANGED <<kd, rv>>
  BY <1>5 DEF PodsRoll, NamespaceEnds, Tampering, home
<1>6. CASE UNCHANGED vars
  BY <1>3, <1>6 DEF vars
<1> QED
  BY <1>1, <1>2, <1>3, <1>4, <1>5, <1>6 DEF Next

-----------------------------------------------------------------------------
(* What a call may do to the worker that makes it.                          *)

\* It goes on with the same object, as it is or as it has just stored it;
KeepsGoing(o) ==
    /\ pc'[o] # "idle" /\ queue'[o] = queue[o]
    /\ w'[o].key = w[o].key
    /\ \/ w'[o].obj = w[o].obj
       \/ AddFinalizer(o) /\ w'[o].obj = kd'[w[o].key]

\* it returns and asks to be called again;
ComesBack(o) ==
    /\ pc'[o] = "idle" /\ w'[o] = NoWork
    /\ queue'[o] = queue[o] \cup {w[o].key}

\* or it returns for good, leaving an object that is gone or need not be seen to.
LetsGo(o) ==
    /\ pc'[o] = "idle" /\ w'[o] = NoWork /\ queue'[o] = queue[o]
    /\ LET k == w[o].key
       IN  kd'[k] # Gone => kd'[k].deleting /\ Ours \notin kd'[k].fins

OthersRest(o) ==
    \A p \in Operators \ {o} : pc'[p] = pc[p] /\ w'[p] = w[p] /\ queue'[p] = queue[p]

Moves(o) ==
    /\ UNCHANGED <<proc, cache>> /\ OthersRest(o)
    /\ KeepsGoing(o) \/ ComesBack(o) \/ LetsGo(o)

\* A step to another label with the object as it was.
LEMMA StepMoves ==
    ASSUME WorkerTyped, NEW o \in Operators, NEW l, l # "idle", NEW work,
           work.key = w[o].key, work.obj = w[o].obj, Step(o, l, work)
    PROVE  OthersRest(o) /\ KeepsGoing(o)
  BY DEF Step, WorkerTyped, OthersRest, KeepsGoing

\* The steps of a worker in the course of a reconcile, by what they carry on.
LEMMA CarryOn ==
    ASSUME WorkerTyped, NEW o \in Operators
    PROVE  LET Carries == OthersRest(o) /\ KeepsGoing(o)
           IN  /\ \A l \in Labels \ {"idle"} : Goto(o, l) => Carries
               /\ \A reason \in Reasons : Report(o, reason) => Carries
               /\ DeployFailed(o) \/ DeployDone(o) => Carries
               /\ \A b \in BOOLEAN : Step(o, "chart", [w[o] EXCEPT !.repair = b]) => Carries
               /\ \A l \in Labels \ {"idle"} : \A c :
                     Step(o, l, [w[o] EXCEPT !.cluster = c]) => Carries
               /\ \A l \in Labels \ {"idle"} : \A todo :
                     Step(o, l, [w[o] EXCEPT !.todo = todo]) => Carries
               /\ \A l \in Labels \ {"idle"} : \A todo :
                     Step(o, l, [w[o] EXCEPT !.todo = todo, !.repair = TRUE]) => Carries
               /\ \A l \in Labels \ {"idle"} : \A todo, op :
                     Step(o, l, [w[o] EXCEPT !.todo = todo, !.op = op]) => Carries
<1> DEFINE Carries == OthersRest(o) /\ KeepsGoing(o)
<1>1. w[o] \in Work
  BY DEF WorkerTyped
<1>2. ASSUME NEW l \in Labels \ {"idle"}, Goto(o, l) PROVE Carries
  BY <1>2, StepMoves DEF Goto
<1>3. ASSUME NEW reason, Report(o, reason) PROVE Carries
  <2> DEFINE new == [w[o] EXCEPT !.reason = reason]
  <2>1. new.key = w[o].key /\ new.obj = w[o].obj /\ Step(o, "status", new)
    BY <1>1, <1>3 DEF Work, Report
  <2> QED
    BY <2>1, StepMoves
<1>4. ASSUME DeployFailed(o) \/ DeployDone(o) PROVE Carries
  <2>1. "health" \in Labels \ {"idle"}
    BY DEF Labels
  <2> QED
    BY <1>2, <1>3, <1>4, <2>1 DEF DeployFailed, DeployDone
<1>5. ASSUME NEW b \in BOOLEAN, Step(o, "chart", [w[o] EXCEPT !.repair = b]) PROVE Carries
  <2>1. /\ [w[o] EXCEPT !.repair = b].key = w[o].key
        /\ [w[o] EXCEPT !.repair = b].obj = w[o].obj
    BY <1>1 DEF Work
  <2> QED
    BY <1>5, <2>1, StepMoves
<1>6. ASSUME NEW l \in Labels \ {"idle"}, NEW c, Step(o, l, [w[o] EXCEPT !.cluster = c])
      PROVE  Carries
  <2>1. /\ [w[o] EXCEPT !.cluster = c].key = w[o].key
        /\ [w[o] EXCEPT !.cluster = c].obj = w[o].obj
    BY <1>1 DEF Work
  <2> QED
    BY <1>6, <2>1, StepMoves
<1>7. ASSUME NEW l \in Labels \ {"idle"}, NEW todo, Step(o, l, [w[o] EXCEPT !.todo = todo])
      PROVE  Carries
  <2>1. /\ [w[o] EXCEPT !.todo = todo].key = w[o].key
        /\ [w[o] EXCEPT !.todo = todo].obj = w[o].obj
    BY <1>1 DEF Work
  <2> QED
    BY <1>7, <2>1, StepMoves
<1>8. ASSUME NEW l \in Labels \ {"idle"}, NEW todo, NEW op,
             \/ Step(o, l, [w[o] EXCEPT !.todo = todo, !.repair = TRUE])
             \/ Step(o, l, [w[o] EXCEPT !.todo = todo, !.op = op])
      PROVE  Carries
  <2>1. /\ [w[o] EXCEPT !.todo = todo, !.repair = TRUE].key = w[o].key
        /\ [w[o] EXCEPT !.todo = todo, !.repair = TRUE].obj = w[o].obj
        /\ [w[o] EXCEPT !.todo = todo, !.op = op].key = w[o].key
        /\ [w[o] EXCEPT !.todo = todo, !.op = op].obj = w[o].obj
    BY <1>1 DEF Work
  <2> QED
    BY <1>8, <2>1, StepMoves
<1> QED
  BY <1>2, <1>3, <1>4, <1>5, <1>6, <1>7, <1>8

\* A reconcile that is to be repeated.
LEMMA RequeueMoves ==
    ASSUME WorkerTyped, NEW o \in Operators, Requeue(o)
    PROVE  OthersRest(o) /\ ComesBack(o)
  BY DEF Requeue, After, Return, WorkerTyped, OthersRest, ComesBack

\* The calls to the edge cluster and the chart repository.
LEMMA EdgeCallsMove ==
    ASSUME TypeInv, NEW o \in Operators,
           \/ NsGet(o) \/ NsCreate(o) \/ History(o) \/ GetRelease(o) \/ FetchChart(o)
           \/ ChooseOp(o) \/ Install(o) \/ Upgrade(o)
           \/ CloseRecord(o) \/ FailRecord(o) \/ ApplyFails(o) \/ Health(o) \/ DelHistory(o) \/ Uninstall(o) \/ UninstallEnd(o)
           \/ UninstallFails(o) \/ DelNamespace(o)
           \/ \E r \in Resources : CheckOne(o, r) \/ ApplyOne(o, r) \/ RemoveOne(o, r)
    PROVE  Moves(o)
<1> USE DEF TypeInv
<1>1. UNCHANGED <<proc, cache>>
  BY DEF NsGet, NsCreate, History, GetRelease, FetchChart, ChooseOp, Install, Upgrade, Start,
     CheckOne, ApplyOne, RemoveOne, CloseRecord, FailRecord, ApplyFails, Health, DelHistory,
     Uninstall, UninstallEnd, UninstallFails, DelNamespace, local
<1>2. CASE NsGet(o) \/ NsCreate(o)
  BY <1>1, <1>2, CarryOn, RequeueMoves, LabelsKnown DEF NsGet, NsCreate, Moves
<1>3. CASE History(o) \/ GetRelease(o)
  <2>1. "HealthCheckFailed" \in Reasons
    BY DEF Reasons
  <2> QED
    BY <1>1, <1>3, <2>1, CarryOn, LabelsKnown DEF History, GetRelease, Repair, Moves
<1>4. CASE FetchChart(o) \/ ChooseOp(o) \/ CloseRecord(o) \/ FailRecord(o)
  BY <1>1, <1>4, CarryOn, LabelsKnown DEF FetchChart, ChooseOp, HelmOp, CloseRecord,
     Unrecorded, FailRecord, Moves
<1>5. CASE Install(o) \/ Upgrade(o) \/ ApplyFails(o)
  BY <1>1, <1>5, CarryOn, LabelsKnown DEF Install, Upgrade, Start, ApplyFails, Moves
<1>6. CASE Health(o) \/ DelHistory(o) \/ DelNamespace(o)
  <2>1. {"Deployed", "NotReady"} \subseteq Reasons
    BY DEF Reasons
  <2>2. {"delNamespace", "uninstall", "removeFinalizer"} \subseteq Labels \ {"idle"}
    BY DEF Labels
  <2> QED
    BY <1>1, <1>6, <2>1, <2>2, CarryOn DEF Health, DelHistory, DelNamespace, Moves
<1>7. CASE Uninstall(o) \/ UninstallEnd(o) \/ UninstallFails(o)
  <2>1. {"delNamespace", "remove"} \subseteq Labels \ {"idle"}
    BY DEF Labels
  <2> QED
    BY <1>1, <1>7, <2>1, CarryOn DEF Uninstall, UninstallEnd, UninstallFails, Moves
<1>8. ASSUME NEW r \in Resources, CheckOne(o, r) \/ ApplyOne(o, r) \/ RemoveOne(o, r)
      PROVE  Moves(o)
  <2>1. {"check", "chart", "apply", "remove"} \subseteq Labels \ {"idle"}
    BY DEF Labels
  <2> QED
    BY <1>1, <1>8, <2>1, CarryOn DEF CheckOne, ApplyOne, RemoveOne, Moves
<1> QED
  BY <1>2, <1>3, <1>4, <1>5, <1>6, <1>7, <1>8

\* The lookup of the edge cluster and the calls to the home cluster.  Only here
\* does the lock matter: the copy that lets go of an object is the stored one.
LEMMA HomeCallsMove ==
    ASSUME TypeInv, CopiesAgree, NEW o \in Operators,
           \/ GetCluster(o) \/ DelCluster(o) \/ AddFinalizer(o) \/ WriteStatus(o)
           \/ RemoveFinalizer(o)
    PROVE  Moves(o)
<1>1. /\ WorkerTyped /\ HomeTypeOK /\ pc[o] # "idle"
      /\ w[o] \in Work /\ w[o].key \in KD /\ w[o].obj \in Object
  BY DEF TypeInv, WorkerTyped, WorkOK, GetCluster, DelCluster, AddFinalizer, WriteStatus,
     RemoveFinalizer
<1>2. UNCHANGED <<proc, cache>>
  BY DEF GetCluster, DelCluster, AddFinalizer, WriteStatus, RemoveFinalizer, local
<1>3. CASE GetCluster(o) \/ DelCluster(o)
  <2>1. /\ {"nsGet", "delHistory", "removeFinalizer"} \subseteq Labels \ {"idle"}
        /\ "EdgeUnavailable" \in Reasons
    BY DEF Labels, Reasons
  <2> QED
    BY <1>1, <1>2, <1>3, <2>1, CarryOn DEF GetCluster, DelCluster, Lookup, SkipEdge, Moves
<1>4. CASE Requeue(o)
  BY <1>1, <1>2, <1>4, RequeueMoves DEF Moves
<1>5. CASE AddFinalizer(o) /\ ~Requeue(o)
  <2> DEFINE new == [w[o] EXCEPT !.obj = Refreshed(w[o].key)]
  <2>1. new.key = w[o].key /\ new.obj = kd'[w[o].key]
    BY <1>1 DEF Work, Refreshed
  <2>2. Step(o, "getCluster", new)
    BY <1>5 DEF AddFinalizer
  <2> HIDE DEF new
  <2> QED
    BY <1>1, <1>2, <1>5, <2>1, <2>2 DEF Step, WorkerTyped, Moves, OthersRest, KeepsGoing
<1>6. CASE RemoveFinalizer(o) /\ ~Requeue(o)
  <2> DEFINE k == w[o].key
             obj == w[o].obj
             copy == [obj EXCEPT !.fins = @ \ {Ours}]
             new == Updated(k, copy)
  <2>1. Locked(k, obj) /\ Store(k, new) /\ Return(o, queue[o])
    BY <1>6 DEF RemoveFinalizer
  <2>2. kd[k] = obj /\ obj.deleting
    BY <1>1, <1>6, <2>1, LockedMeansCurrent
       DEF RemoveFinalizer, TypeInv, WorkerTyped, WorkOK, DeletePCs
  <2>3. copy \in Object /\ Ours \notin copy.fins
    <3>1. obj.fins \ {Ours} \in SUBSET Finalizers
      BY <1>1 DEF Object
    <3> QED
      BY <1>1, <3>1 DEF Object
  <2>4. new \in Object
    BY <1>1, <2>2, <2>3, GoneAssumption, UpdatedTyped
  <2>5. new.deleting /\ Ours \notin new.fins
    <3>1. new.deleting = kd[k].deleting /\ new.fins = copy.fins
      BY <1>1, <2>2, <2>3 DEF Updated, Object
    <3> QED
      BY <2>2, <2>3, <3>1
  <2>6. kd'[k] # Gone => kd'[k].deleting /\ Ours \notin kd'[k].fins
    <3> HIDE DEF new
    <3> QED
      BY <1>1, <2>1, <2>4, <2>5, StoreShape DEF SameContent
  <2> QED
    BY <1>1, <1>2, <2>1, <2>6 DEF Return, WorkerTyped, Moves, OthersRest, LetsGo
<1> QED
  BY <1>3, <1>4, <1>5, <1>6 DEF WriteStatus

-----------------------------------------------------------------------------
(* The lock is sound.                                                       *)

\* A step that keeps copies or takes new ones from the API server.
CopiesMove ==
    /\ \A o \in Operators, k \in KD : cache'[o][k] \in {cache[o][k], kd[k], Gone}
    /\ \A o \in Operators : w'[o].key \in KD =>
          w'[o].obj \in Copies(w'[o].key) \cup {kd'[w'[o].key], Gone}

\* Copies agree after a step that stamps what it writes.
LEMMA CopiesKept ==
    ASSUME TypeInv, CopiesAgree, HomeStep, CopiesMove
    PROVE  CopiesAgree'
<1> SUFFICES ASSUME NEW k \in KD, NEW a \in Copies(k)' \ {Gone}, NEW b \in Copies(k)' \ {Gone}
             PROVE  a.rv <= rv'[k] /\ (a.rv = b.rv => a = b)
  BY DEF CopiesAgree
<1>1. {a, b} \subseteq (Copies(k) \cup {kd'[k]}) \ {Gone}
  <2>1. /\ \A o \in Operators : cache'[o][k] \in Copies(k) \cup {Gone}
        /\ \A o \in Operators : w'[o].key = k => w'[o].obj \in Copies(k) \cup {kd'[k], Gone}
    BY DEF CopiesMove, Copies
  <2> QED
    BY <2>1 DEF Copies
<1>2. \A c \in Copies(k) \ {Gone} : c.rv \in Nat
  <2>1. Copies(k) \subseteq Object \cup {Gone}
    BY DEF Copies, TypeInv, HomeTypeOK, LocalTyped, WorkerTyped, Work
  <2> QED
    BY <2>1 DEF Object
<1>3. \A c, d \in Copies(k) \ {Gone} : c.rv <= rv[k] /\ (c.rv = d.rv => c = d)
  BY DEF CopiesAgree
<1>4. rv[k] \in Nat /\ kd[k] \in Copies(k)
  BY DEF TypeInv, HomeTypeOK, Copies
<1>5. CASE kd'[k] = kd[k] /\ rv'[k] = rv[k]
  BY <1>1, <1>3, <1>4, <1>5
<1>6. CASE rv'[k] = rv[k] + 1 /\ (kd'[k] = Gone \/ kd'[k].rv = rv[k] + 1)
  BY <1>1, <1>2, <1>3, <1>4, <1>6
<1> QED
  BY <1>5, <1>6 DEF HomeStep, Stamped

\* A call of a worker keeps to copies it has or gets.
LEMMA CallsMove ==
    ASSUME TypeInv, CopiesAgree, NEW o \in Operators, Call(o)
    PROVE  Moves(o)
  BY EdgeCallsMove, HomeCallsMove DEF Call

\* Nobody makes up a copy.
LEMMA StepsMoveCopies ==
    ASSUME TypeInv, CopiesAgree, [Next]_vars
    PROVE  CopiesMove
<1> USE DEF CopiesMove
<1>1. /\ \A o \in Operators : w[o].obj \in Copies(w[o].key)
      /\ \A o \in Operators, k \in KD : cache[o][k] \in Copies(k)
      /\ cache \in [Operators -> [KD -> Object \cup {Gone}]]
      /\ w \in [Operators -> Work]
  BY DEF Copies, TypeInv, LocalTyped, WorkerTyped
<1>2. NoWork.key \notin KD /\ NoWork.obj = Gone
  BY OperatorAssumption DEF NoWork
<1>3. CASE UNCHANGED <<cache, w>>
  BY <1>1, <1>3
<1>4. ASSUME NEW o \in Operators, Call(o) PROVE CopiesMove
  BY <1>1, <1>2, <1>4, CallsMove DEF Moves, OthersRest, KeepsGoing, ComesBack, LetsGo
<1>5. ASSUME NEW o \in Operators, NEW k \in KD, Begin(o, k) PROVE CopiesMove
  <2>1. CASE UNCHANGED <<pc, w>>
    BY <1>1, <1>5, <2>1 DEF Begin, local
  <2>2. CASE cache[o][k] # Gone
    <3> DEFINE new == [NoWork EXCEPT !.key = k, !.obj = cache[o][k],
                         !.reason = IF cache[o][k].spec.account THEN "none"
                                    ELSE "AccountMissing"]
    <3>1. new.key = k /\ new.obj = cache[o][k]
      BY DEF NoWork
    <3>2. w' = [w EXCEPT ![o] = new] /\ UNCHANGED cache
      BY <1>5, <2>2 DEF Begin, local
    <3> HIDE DEF new
    <3> QED
      BY <1>1, <3>1, <3>2
  <2> QED
    BY <1>5, <2>1, <2>2 DEF Begin
<1>6. ASSUME NEW o \in Operators, Process(o) PROVE CopiesMove
  <2>1. CASE Launch(o)
    BY <1>1, <2>1 DEF Launch
  <2>2. ASSUME NEW k \in KD, Deliver(o, k) PROVE CopiesMove
    BY <1>1, <2>2 DEF Deliver
  <2>3. ASSUME NEW state, Stop(o, state) PROVE CopiesMove
    BY <1>1, <1>2, <2>3 DEF Stop
  <2>4. ASSUME NEW s \in Secrets, DeliverSecret(o, s) PROVE CopiesMove
    BY <1>3, <2>4 DEF DeliverSecret
  <2> QED
    BY <1>6, <2>1, <2>2, <2>3, <2>4 DEF Process, Crash, Retire
<1>7. ASSUME NEW o \in Operators, NEW k \in KD, ReadFails(o, k) PROVE UNCHANGED <<cache, w>>
  BY <1>7 DEF ReadFails, inside
<1>8. ASSUME NEW e \in Edges, NEW n \in Names,
             PodsRoll(e, n) \/ NamespaceEnds(e, n) \/ Tampering(e, n)
      PROVE  UNCHANGED <<cache, w>>
  BY <1>8 DEF PodsRoll, NamespaceEnds, Tampering, inside
<1>9. Users \/ UNCHANGED vars => UNCHANGED <<cache, w>>
  BY DEF Users, inside, vars
<1> QED
  BY <1>3, <1>4, <1>5, <1>6, <1>7, <1>8, <1>9 DEF Next, Worker

\* What a reachable state satisfies: its type and the agreement of copies.
LockInv == TypeInv /\ CopiesAgree

\* LockInv is inductive.
LEMMA LockStep == LockInv /\ [Next]_vars => LockInv'
  BY TypeStep, HomeSteps, StepsMoveCopies, CopiesKept DEF LockInv

\* LockInv holds at the start: there are no objects.
LEMMA LockInit == Init => LockInv
<1> SUFFICES ASSUME Init PROVE LockInv
  OBVIOUS
<1>1. \A k \in KD : Copies(k) = {Gone}
  BY OperatorAssumption DEF Init, HomeInit, Copies, NoWork
<1> QED
  BY <1>1, InitTyped DEF LockInv, CopiesAgree

\* Copies of an object with one resourceVersion are equal, whoever holds them,
\* and none is ahead of the API server.
THEOREM CopiesAlwaysAgree == Spec => []CopiesAgree
<1>1. LockInv => CopiesAgree
  BY DEF LockInv
<1> QED
  BY <1>1, LockInit, LockStep, PTL DEF Spec

-----------------------------------------------------------------------------
(* No object is forgotten.                                                  *)

\* Process o has, or will have, work with k, or k needs none.
Safe(o, k) ==
    \/ proc[o] # "up"
    \/ k \in queue[o]
    \/ pc[o] # "idle" /\ w[o].key = k
    \/ cache[o][k] # kd[k]
    \/ kd[k] = Gone
    \/ kd[k].deleting /\ Ours \notin kd[k].fins

\* An object that changed while the cache did not has an event on its way.
LEMMA ChangeIsNoticed ==
    ASSUME LockInv, HomeStep, NEW o \in Operators, NEW k \in KD,
           kd'[k] # kd[k], cache'[o][k] = cache[o][k]
    PROVE  Safe(o, k)'
<1>1. cache[o][k] # Gone => cache[o][k].rv <= rv[k] /\ cache[o][k].rv \in Nat
  <2>1. cache[o][k] \in Copies(k) /\ cache[o][k] \in Object \cup {Gone}
    BY DEF Copies, LockInv, TypeInv, LocalTyped
  <2> QED
    BY <2>1 DEF LockInv, CopiesAgree, Object
<1>2. rv[k] \in Nat
  BY DEF LockInv, TypeInv, HomeTypeOK
<1>3. kd'[k] = Gone \/ kd'[k].rv = rv[k] + 1
  BY DEF HomeStep, Stamped
<1> QED
  BY <1>1, <1>2, <1>3 DEF Safe

\* An object in a process that does not take part in the step.
LEMMA BystanderSafe ==
    ASSUME LockInv, HomeStep, NEW o \in Operators, NEW k \in KD, Safe(o, k),
           pc'[o] = pc[o], w'[o] = w[o], queue'[o] = queue[o], proc'[o] = proc[o],
           cache'[o][k] = cache[o][k]
    PROVE  Safe(o, k)'
<1>1. CASE kd'[k] = kd[k]
  BY <1>1 DEF Safe
<1>2. CASE kd'[k] # kd[k]
  BY <1>2, ChangeIsNoticed
<1> QED
  BY <1>1, <1>2

\* A call keeps the key, puts it back, or lets go of an object for good.
LEMMA CallSafe ==
    ASSUME LockInv, HomeStep, NEW o \in Operators, NEW k \in KD, NEW p \in Operators,
           Call(p), Safe(o, k)
    PROVE  Safe(o, k)'
<1>1. Moves(p)
  BY CallsMove DEF LockInv
<1>2. CASE o # p
  BY <1>1, <1>2, BystanderSafe DEF Moves, OthersRest
<1>3. CASE o = p /\ kd'[k] # kd[k]
  BY <1>1, <1>3, ChangeIsNoticed DEF Moves
<1>4. CASE o = p /\ kd'[k] = kd[k]
  <2>1. CASE KeepsGoing(p)
    BY <1>1, <1>4, <2>1 DEF Moves, KeepsGoing, Safe
  <2>2. CASE ComesBack(p)
    BY <1>1, <1>4, <2>2 DEF Moves, ComesBack, Safe
  <2>3. CASE LetsGo(p)
    BY <1>1, <1>4, <2>3 DEF Moves, LetsGo, Safe
  <2> QED
    BY <1>1, <2>1, <2>2, <2>3 DEF Moves
<1> QED
  BY <1>2, <1>3, <1>4

\* A worker that takes a key has it in its hands or finds the object gone.
LEMMA BeginSafe ==
    ASSUME LockInv, HomeStep, NEW o \in Operators, NEW k \in KD, NEW p \in Operators,
           NEW j \in KD, Begin(p, j), Safe(o, k)
    PROVE  Safe(o, k)'
<1>1. /\ pc \in [Operators -> Labels] /\ w \in [Operators -> Work]
      /\ queue \in [Operators -> SUBSET KD]
  BY DEF LockInv, TypeInv, WorkerTyped
<1>2. UNCHANGED <<kd, proc, cache>> /\ queue' = [queue EXCEPT ![p] = @ \ {j}]
  BY DEF Begin, home, local
<1>3. CASE cache[p][j] = Gone /\ UNCHANGED <<pc, w>>
  BY <1>1, <1>2, <1>3 DEF Safe
<1>4. CASE cache[p][j] # Gone
  <2> DEFINE new == [NoWork EXCEPT !.key = j, !.obj = cache[p][j],
                       !.reason = IF cache[p][j].spec.account THEN "none"
                                  ELSE "AccountMissing"]
  <2>1. new.key = j
    BY DEF NoWork
  <2>2. FirstStep(cache[p][j]) # "idle" /\ pc[p] = "idle"
    BY DEF FirstStep, Begin
  <2>3. w' = [w EXCEPT ![p] = new] /\ pc' = [pc EXCEPT ![p] = FirstStep(cache[p][j])]
    BY <1>4 DEF Begin
  <2> HIDE DEF new
  <2> QED
    BY <1>1, <1>2, <2>1, <2>2, <2>3 DEF Safe
<1> QED
  BY <1>3, <1>4 DEF Begin

\* A process starts with all objects queued, and an event queues its object.
LEMMA ProcessSafe ==
    ASSUME LockInv, HomeStep, NEW o \in Operators, NEW k \in KD, NEW p \in Operators,
           Process(p), Safe(o, k)
    PROVE  Safe(o, k)'
<1>1. /\ pc \in [Operators -> Labels] /\ w \in [Operators -> Work]
      /\ queue \in [Operators -> SUBSET KD]
      /\ proc \in [Operators -> {"down", "up", "retired"}]
      /\ cache \in [Operators -> [KD -> Object \cup {Gone}]]
  BY DEF LockInv, TypeInv, WorkerTyped, LocalTyped
<1>2. CASE Launch(p)
  BY <1>1, <1>2 DEF Launch, Listed, home, Safe
<1>3. ASSUME NEW j \in KD, Deliver(p, j) PROVE Safe(o, k)'
  <2>1. CASE o = p /\ k = j
    BY <1>1, <1>3, <2>1 DEF Deliver, Safe
  <2>2. CASE ~(o = p /\ k = j)
    <3>1. cache'[o][k] = cache[o][k] /\ queue[o] \subseteq queue'[o]
      BY <1>1, <1>3, <2>2 DEF Deliver
    <3> QED
      BY <1>3, <3>1 DEF Deliver, home, Safe
  <2> QED
    BY <2>1, <2>2
<1>4. ASSUME NEW state \in {"down", "retired"}, Stop(p, state) PROVE Safe(o, k)'
  <2>1. CASE o = p
    BY <1>1, <1>4, <2>1 DEF Stop, Safe
  <2>2. CASE o # p
    BY <1>1, <1>4, <2>2 DEF Stop, home, Safe
  <2> QED
    BY <2>1, <2>2
<1>5. ASSUME NEW s \in Secrets, DeliverSecret(p, s) PROVE Safe(o, k)'
  BY <1>5 DEF DeliverSecret, home, Safe
<1> QED
  BY <1>2, <1>3, <1>4, <1>5 DEF Process, Crash, Retire

\* NeverForgotten is preserved, given the agreement of copies.
LEMMA ForgottenStep == LockInv /\ NeverForgotten /\ [Next]_vars => NeverForgotten'
<1> SUFFICES ASSUME LockInv, NeverForgotten, [Next]_vars,
                    NEW o \in Operators, NEW k \in KD
             PROVE  Safe(o, k)'
  BY DEF NeverForgotten, Safe
<1>1. HomeStep /\ Safe(o, k)
  BY HomeSteps DEF LockInv, NeverForgotten, Safe
<1>2. ASSUME NEW p \in Operators, Worker(p) PROVE Safe(o, k)'
  <2>1. CASE Call(p)
    BY <1>1, <2>1, CallSafe
  <2>2. ASSUME NEW j \in KD, Begin(p, j) PROVE Safe(o, k)'
    BY <1>1, <2>2, BeginSafe
  <2>3. ASSUME NEW j \in KD, ReadFails(p, j) PROVE Safe(o, k)'
    BY <1>1, <2>3, BystanderSafe DEF ReadFails, inside
  <2> QED
    BY <1>2, <2>1, <2>2, <2>3 DEF Worker
<1>3. ASSUME NEW p \in Operators, Process(p) PROVE Safe(o, k)'
  BY <1>1, <1>3, ProcessSafe
<1>4. CASE Users
  BY <1>1, <1>4, BystanderSafe DEF Users, inside
<1>5. ASSUME NEW e \in Edges, NEW n \in Names,
             PodsRoll(e, n) \/ NamespaceEnds(e, n) \/ Tampering(e, n)
      PROVE  Safe(o, k)'
  BY <1>1, <1>5, BystanderSafe DEF PodsRoll, NamespaceEnds, Tampering, inside
<1>6. CASE UNCHANGED vars
  BY <1>1, <1>6, BystanderSafe DEF vars
<1> QED
  BY <1>2, <1>3, <1>4, <1>5, <1>6 DEF Next

\* No running process ever loses an object it still has work with: every return
\* of a reconcile puts the key back, except the one that has removed the
\* finalizer of an object that is being deleted.
THEOREM NothingForgotten == Spec => []NeverForgotten
<1>1. Init => NeverForgotten
  BY DEF Init, NeverForgotten
<1> QED
  BY <1>1, LockInit, LockStep, ForgottenStep, PTL DEF Spec

-----------------------------------------------------------------------------
(* What a step may never do to an object.                                   *)

\* Users' fields change by users' hands only, however stale the copies are that
\* the operators send back to the API server.
THEOREM FieldsAreTheUsers == Spec => UsersOwnTheirFields
<1>1. LockInv /\ [Next]_vars =>
        [\A k \in KD : kd[k] # Gone /\ kd'[k] # Gone =>
            /\ kd'[k].spec # kd[k].spec => budget'["edit"] < budget["edit"]
            /\ (Foreign \in kd'[k].fins) # (Foreign \in kd[k].fins)
                  => budget'["foreign"] < budget["foreign"]]_vars
  <2> SUFFICES ASSUME LockInv, [Next]_vars, NEW k \in KD, kd[k] # Gone, kd'[k] # Gone
               PROVE  /\ kd'[k].spec # kd[k].spec => budget'["edit"] < budget["edit"]
                      /\ (Foreign \in kd'[k].fins) # (Foreign \in kd[k].fins)
                            => budget'["foreign"] < budget["foreign"]
    OBVIOUS
  <2> QED
    BY HomeSteps DEF LockInv, HomeStep, Legitimate
<1> QED
  BY <1>1, LockInit, LockStep, PTL DEF Spec, UsersOwnTheirFields

\* No status is about a generation the object does not have yet.
StatusFollows == \A k \in KD : kd[k] # Gone => kd[k].status.obs <= kd[k].gen

\* StatusFollows is preserved, given the agreement of copies.
LEMMA StatusStep == LockInv /\ StatusFollows /\ [Next]_vars => StatusFollows'
<1> SUFFICES ASSUME LockInv, StatusFollows, [Next]_vars, NEW k \in KD, kd'[k] # Gone
             PROVE  kd'[k].status.obs <= kd'[k].gen
  BY DEF StatusFollows
<1>1. Legitimate(k)
  BY HomeSteps DEF LockInv, HomeStep
<1>2. CASE kd[k] = Gone
  BY <1>1, <1>2 DEF Legitimate
<1>3. CASE kd[k] # Gone
  <2>1. TypeInv'
    BY TypeStep DEF LockInv
  <2>2. kd[k] \in Object /\ kd'[k] \in Object
    BY <1>3, <2>1 DEF LockInv, TypeInv, HomeTypeOK
  <2>3. /\ kd[k].gen \in Nat /\ kd[k].status.obs \in Nat
        /\ kd'[k].gen \in Nat /\ kd'[k].status.obs \in Nat
    BY <2>2 DEF Object, Status
  <2> QED
    BY <1>1, <1>3, <2>3 DEF Legitimate, StatusFollows
<1> QED
  BY <1>2, <1>3

\* A report never gives way to one about an older generation, whichever process
\* writes it and however old the copy it reconciled from.
THEOREM StatusAdvances == Spec => StatusNeverRegresses
<1>1. LockInv /\ StatusFollows /\ [Next]_vars =>
        [\A k \in KD : kd[k] # Gone /\ kd'[k] # Gone =>
            kd'[k].status.obs >= kd[k].status.obs]_vars
  <2> SUFFICES ASSUME LockInv, StatusFollows, [Next]_vars,
                      NEW k \in KD, kd[k] # Gone, kd'[k] # Gone
               PROVE  kd'[k].status.obs >= kd[k].status.obs
    OBVIOUS
  <2>1. kd[k] \in Object
    BY DEF LockInv, TypeInv, HomeTypeOK
  <2>2. kd[k].gen \in Nat /\ kd[k].status.obs \in Nat
    BY <2>1 DEF Object, Status
  <2> QED
    BY <2>2, HomeSteps DEF LockInv, HomeStep, Legitimate, StatusFollows
<1>2. Init => StatusFollows
  BY DEF Init, HomeInit, StatusFollows
<1> QED
  BY <1>1, <1>2, LockInit, LockStep, StatusStep, PTL DEF Spec, StatusNeverRegresses
=============================================================================
