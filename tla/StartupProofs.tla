--------------------------- MODULE StartupProofs ---------------------------
(***************************************************************************)
(* Startup, for any number of processes, settings and errors.              *)
(***************************************************************************)
EXTENDS Startup, TLAPS

\* What the loop of EnsureKryptonDeploymentCRD knows: each transient error has
\* cost one attempt.
Counting ==
    /\ crd \in BOOLEAN /\ other \subseteq Processes
    /\ pc \in [Processes -> {"get", "create"} \cup Outcomes]
    /\ attempt \in [Processes -> 0..(Attempts - 1)]
    /\ lastErr \in [Processes -> BOOLEAN]
    /\ seen \in [Processes -> 0..MaxSeen]
    /\ \A p \in Processes : pc[p] \in {"get", "create"} => seen[p] = attempt[p]

EInv == Counting /\ NilMeansPresent /\ GivesUpOnlyWhenEntitled

\* What the loop knows holds before it.
LEMMA EnsureStarts == Init => EInv
<1> SUFFICES ASSUME Init PROVE EInv
  OBVIOUS
<1>1. other \subseteq Processes /\ attempt \in [Processes -> 0..4] /\ seen \in [Processes -> 0..6]
  BY DEF Init
<1>b. crd \in BOOLEAN
  BY DEF Init
<1>l. lastErr \in [Processes -> BOOLEAN]
  BY DEF Init
<1>2. pc \in [Processes -> {"get", "create"} \cup Outcomes]
  BY DEF Init
<1>3. \A p \in Processes : pc[p] = "get" /\ seen[p] = 0 /\ attempt[p] = 0
  BY DEF Init
<1> QED BY <1>1, <1>b, <1>l, <1>2, <1>3 DEF EInv, Counting, NilMeansPresent,
      GivesUpOnlyWhenEntitled, Attempts, MaxSeen

\* A step of one process between two states, as far as the others are concerned.
LEMMA EnsureMoves ==
    ASSUME EInv, NEW p \in Processes,
           NEW l \in {"get", "create"} \cup Outcomes, Goto(p, l),
           crd' \in BOOLEAN, crd => crd', other' \subseteq Processes, other \subseteq other',
           pc[p] \in {"get", "create"},
           l = "nil" => crd', l = "fatal" => p \in other',
           l \notin {"transient", "exhausted"}
    PROVE  EInv'
  BY DEF EInv, Counting, NilMeansPresent, GivesUpOnlyWhenEntitled, Goto, Outcomes,
     Attempts, MaxSeen

\* A transient error costs one attempt; after the last the loop is left.
LEMMA EnsureRetries ==
    ASSUME EInv, NEW p \in Processes, Transient(p), pc[p] \in {"get", "create"},
           crd' \in BOOLEAN, crd => crd', UNCHANGED other
    PROVE  EInv'
<1>1. /\ seen[p] = attempt[p] /\ attempt[p] \in 0..4 /\ seen[p] < MaxSeen
  BY DEF EInv, Counting, Attempts, MaxSeen
<1>2. seen' = [seen EXCEPT ![p] = attempt[p] + 1] /\ lastErr' = [lastErr EXCEPT ![p] = TRUE]
  BY <1>1 DEF Transient
<1>3. CASE attempt[p] + 1 < 5
  <2>1. /\ attempt' = [attempt EXCEPT ![p] = attempt[p] + 1]
        /\ pc' = [pc EXCEPT ![p] = "get"]
    BY <1>3 DEF Transient, NextAttempt, Limit, Attempts
  <2> QED BY <1>1, <1>2, <1>3, <2>1 DEF EInv, Counting, NilMeansPresent,
        GivesUpOnlyWhenEntitled, Outcomes, Attempts, MaxSeen
<1>4. CASE ~(attempt[p] + 1 < 5)
  <2>1. attempt[p] = 4
    BY <1>1, <1>4
  <2>2. lastErr'[p]
    BY <1>2 DEF EInv, Counting
  <2>3. pc' = [pc EXCEPT ![p] = "transient"] /\ attempt' = attempt
    BY <1>4, <2>2 DEF Transient, NextAttempt, Limit, Attempts, AfterLoop
  <2> QED BY <1>1, <1>2, <2>1, <2>3 DEF EInv, Counting, NilMeansPresent,
        GivesUpOnlyWhenEntitled, Outcomes, Attempts, MaxSeen
<1> QED BY <1>3, <1>4

\* The read of the CRD (line 36).
LEMMA GetKeeps == ASSUME EInv, NEW p \in Processes, Get(p) PROVE EInv'
<1>0. crd \in BOOLEAN /\ other \subseteq Processes /\ crd' = crd /\ pc[p] = "get"
  BY DEF EInv, Counting, Get
<1>1. CASE Goto(p, IF crd THEN "nil" ELSE "create") /\ UNCHANGED other
  BY <1>0, <1>1, EnsureMoves DEF Outcomes
<1>2. CASE Transient(p) /\ UNCHANGED other
  BY <1>0, <1>2, EnsureRetries
<1>3. CASE Fatal(p)
  BY <1>0, <1>3, EnsureMoves DEF Fatal, Outcomes
<1> QED BY <1>1, <1>2, <1>3 DEF Get

\* The create of the CRD (line 59), whatever becomes of its answer.
LEMMA CreateKeeps == ASSUME EInv, NEW p \in Processes, Create(p) PROVE EInv'
<1>0. crd \in BOOLEAN /\ other \subseteq Processes /\ pc[p] = "create"
  BY DEF EInv, Counting, Create
<1>1. CASE ServerCreates /\ UNCHANGED other /\ Goto(p, IF crd THEN OnAlreadyExists ELSE "nil")
  <2>1. Goto(p, "nil") /\ crd' = TRUE
    BY <1>1 DEF OnAlreadyExists, ServerCreates
  <2> QED BY <1>0, <1>1, <2>1, EnsureMoves DEF Outcomes
<1>2. CASE ServerCreates /\ UNCHANGED other /\ Transient(p)
  BY <1>0, <1>2, EnsureRetries DEF ServerCreates
<1>3. CASE Transient(p) /\ UNCHANGED <<crd, created, other>>
  BY <1>0, <1>3, EnsureRetries
<1>4. CASE Fatal(p) /\ UNCHANGED <<crd, created>>
  BY <1>0, <1>4, EnsureMoves DEF Fatal, Outcomes
<1> QED BY <1>1, <1>2, <1>3, <1>4 DEF Create

\* Steps that are not about the CRD.
LEMMA EnsureRests == EInv /\ UNCHANGED vars => EInv'
  BY DEF EInv, Counting, NilMeansPresent, GivesUpOnlyWhenEntitled, vars
-----------------------------------------------------------------------------
\* Why a process may exit with an error.
Reason(p) ==
    \/ Told(p) \/ p \in trouble \/ p \in other \/ seen[p] = Attempts
    \/ ~Ensures(env[p])
    \/ /\ Source(env[p]) = "secret"
       /\ FirstSet(<<env[p].watchSecretNs, Namespace(env[p])>>) \notin SecretIn

\* What is known of one process: beyond the ensure stage the CRD is there, a
\* manager runs only in the last stage, and ends only for a reason.
Orderly(p) ==
    /\ stage[p] \in {"register", "managers"} /\ Ensures(env[p]) => crd
    /\ \A m \in Managers :
        /\ manager[p][m] # "off" => stage[p] = "managers"
        /\ manager[p][m] = "error" => Told(p) \/ p \in trouble \/ ~Ensures(env[p])
        /\ manager[p][m] = "nil" => Told(p)
        /\ m \in received[p] => Told(p)
    /\ stage[p] = "exit0" => Told(p) /\ received[p] = Managers
    /\ stage[p] = "exit1" => Reason(p)

Shape ==
    /\ stage \in [Processes -> {"config", "home", "mc", "health", "ensure",
                                "register", "managers"} \cup Exits]
    /\ signals \in [Processes -> Nat]
    /\ manager \in [Processes -> [Managers -> {"off", "syncing", "running", "nil", "error"}]]
    /\ received \in [Processes -> SUBSET Managers]
    /\ trouble \subseteq Processes

SInv == EInv /\ Shape /\ \A p \in Processes : Orderly(p)

\* A process that starts is orderly.
LEMMA StartsOrderly == StartupInit => SInv
<1> SUFFICES ASSUME StartupInit PROVE SInv
  OBVIOUS
<1>1. EInv
  BY EnsureStarts DEF StartupInit
<1>2. Shape
  BY DEF StartupInit, Shape, Off, Exits
<1>3. ASSUME NEW p \in Processes PROVE Orderly(p)
  <2>1. stage[p] = "config" /\ received[p] = {} /\ \A m \in Managers : manager[p][m] = "off"
    BY DEF StartupInit, Off
  <2> QED BY <2>1 DEF Orderly
<1> QED BY <1>1, <1>2, <1>3 DEF SInv

\* What process p does is no matter to the others.
LEMMA OthersOrderly ==
    ASSUME SInv, Shape', EInv', NEW p \in Processes, env' = env,
           crd => crd', trouble \subseteq trouble', other \subseteq other',
           \A q \in Processes \ {p} :
               /\ stage'[q] = stage[q] /\ signals'[q] = signals[q]
               /\ manager'[q] = manager[q] /\ received'[q] = received[q]
               /\ seen'[q] = seen[q],
           Orderly(p)'
    PROVE  SInv'
<1>1. /\ trouble \subseteq Processes /\ trouble' \subseteq Processes
      /\ other \subseteq Processes /\ other' \subseteq Processes
  BY DEF SInv, Shape, EInv, Counting
<1>2. ASSUME NEW q \in Processes, q # p PROVE Orderly(q)'
  <2>1. /\ stage'[q] = stage[q] /\ signals'[q] = signals[q] /\ manager'[q] = manager[q]
        /\ received'[q] = received[q] /\ seen'[q] = seen[q]
    BY <1>2
  <2>2. Told(q)' = Told(q) /\ (Reason(q) => Reason(q)')
    BY <1>1, <2>1 DEF Told, Reason
  <2>3. q \in trouble => q \in trouble'
    BY <1>1
  <2>4. Orderly(q)
    BY DEF SInv
  <2> QED BY <2>1, <2>2, <2>3, <2>4 DEF Orderly
<1> QED BY <1>2 DEF SInv

-----------------------------------------------------------------------------
(* One lemma for each action.                                              *)

\* Enter and Exit keep the shape and leave the other processes alone.
LEMMA EnterKeeps ==
    ASSUME Shape, NEW p \in Processes,
           NEW s \in {"config", "home", "mc", "health", "ensure",
                      "register", "managers"} \cup Exits, Enter(p, s),
           signals' \in [Processes -> Nat],
           received' \in [Processes -> SUBSET Managers], trouble' \subseteq Processes
    PROVE  /\ Shape' /\ stage'[p] = s
           /\ manager'[p] = IF s \in Exits THEN Off ELSE manager[p]
           /\ \A q \in Processes \ {p} : stage'[q] = stage[q] /\ manager'[q] = manager[q]
  BY DEF Shape, Enter, Off

\* Managers that are off.
LEMMA OffIsOff == \A m \in Managers : Off[m] = "off"
  BY DEF Off

\* The stages before the CRD is looked after.
LEMMA SetUpKeeps == ASSUME SInv, NEW p \in Processes, SetUp(p) PROVE SInv'
<1>0. /\ Shape /\ EInv /\ Orderly(p) /\ trouble \subseteq Processes
      /\ vars' = vars /\ env' = env /\ signals' = signals /\ received' = received
  BY DEF SInv, SetUp, Shape
<1>e. EInv' /\ crd' = crd /\ other' = other /\ seen' = seen
  BY <1>0, EnsureRests DEF vars
<1>o. other \subseteq Processes
  BY <1>0 DEF EInv, Counting
<1>1. CASE Enter(p, Following(p)) /\ UNCHANGED trouble
  <2>1. /\ Following(p) \in {"home", "mc", "health", "ensure", "register"}
        /\ Following(p) = "register" => ~Ensures(env[p])
        /\ stage[p] \notin Exits /\ stage[p] # "managers"
    BY DEF SetUp, Following, AfterHealth, Exits
  <2>2. /\ Shape' /\ stage'[p] = Following(p) /\ manager'[p] = manager[p]
        /\ \A q \in Processes \ {p} : stage'[q] = stage[q] /\ manager'[q] = manager[q]
    BY <1>0, <1>1, <2>1, EnterKeeps DEF Shape, Exits
  <2>3. Orderly(p)'
    BY <1>0, <1>e, <1>1, <2>1, <2>2 DEF Orderly, Told
  <2> QED BY <1>0, <1>e, <1>o, <1>1, <2>2, <2>3, OthersOrderly
<1>2. ASSUME Exit(p, "exit1"), trouble' \subseteq Processes, trouble \subseteq trouble',
             p \in trouble' \/ ~HasConfig(p)
      PROVE  SInv'
  <2>2. /\ Shape' /\ stage'[p] = "exit1" /\ manager'[p] = Off
        /\ \A q \in Processes \ {p} : stage'[q] = stage[q] /\ manager'[q] = manager[q]
    BY <1>0, <1>2, EnterKeeps DEF Shape, Exit, Exits
  <2>3. Reason(p)'
    BY <1>0, <1>2 DEF Reason, HasConfig, WatchSecretNs
  <2>4. Orderly(p)'
    BY <1>0, <1>e, <2>2, <2>3, OffIsOff DEF Orderly, Told
  <2> QED BY <1>0, <1>e, <1>o, <1>2, <2>2, <2>4, OthersOrderly
<1>3. CASE stage[p] = "config" /\ ~HasConfig(p) /\ Exit(p, "exit1") /\ UNCHANGED trouble
  BY <1>0, <1>2, <1>3
<1>4. CASE Exit(p, "exit1") /\ Trouble(p)
  <2>1. trouble' \subseteq Processes /\ trouble \subseteq trouble' /\ p \in trouble'
    BY <1>0, <1>4 DEF Trouble
  <2>2. Exit(p, "exit1")
    BY <1>4
  <2> QED BY <1>2, <2>1, <2>2
<1> QED BY <1>1, <1>3, <1>4 DEF SetUp

\* A call of EnsureKryptonDeploymentCRD.
LEMMA EnsureKeeps == ASSUME SInv, NEW p \in Processes, Ensure(p) PROVE SInv'
<1>0. /\ Shape /\ EInv /\ Orderly(p) /\ stage[p] = "ensure" /\ processVars' = processVars
  BY DEF SInv, Ensure
<1>1. EInv'
  BY <1>0, GetKeeps, CreateKeeps DEF Ensure
<1>2. Shape' /\ env' = env /\ trouble' = trouble /\ stage' = stage /\ signals' = signals
      /\ manager' = manager /\ received' = received
  BY <1>0 DEF processVars, Shape
<1>c. crd => crd'
  BY DEF Ensure, Get, Create, ServerCreates
<1>3. other \subseteq other' /\ \A q \in Processes \ {p} : seen'[q] = seen[q]
  <2>1. other \subseteq Processes /\ seen \in [Processes -> 0..MaxSeen]
    BY <1>0 DEF EInv, Counting
  <2>2. CASE Get(p)
    BY <2>1, <2>2 DEF Get, Goto, Transient, Fatal
  <2>3. CASE Create(p)
    BY <2>1, <2>3 DEF Create, ServerCreates, Goto, Transient, Fatal
  <2> QED BY <2>2, <2>3 DEF Ensure
<1>4. Orderly(p)'
  BY <1>0, <1>2 DEF Orderly, Told
<1>5. trouble \subseteq trouble'
  BY <1>0, <1>2 DEF Shape
<1>6. \A q \in Processes \ {p} :
        /\ stage'[q] = stage[q] /\ signals'[q] = signals[q]
        /\ manager'[q] = manager[q] /\ received'[q] = received[q]
        /\ seen'[q] = seen[q]
  BY <1>2, <1>3
<1>7. Shape'
  BY <1>2
<1>8. other \subseteq other' /\ env' = env
  BY <1>2, <1>3
<1> QED BY <1>1, <1>4, <1>5, <1>6, <1>7, <1>8, <1>c, OthersOrderly

\* Its return (line 178).
LEMMA EnsuredKeeps == ASSUME SInv, NEW p \in Processes, Ensured(p) PROVE SInv'
<1>0. /\ Shape /\ EInv /\ Orderly(p) /\ trouble \subseteq Processes /\ other \subseteq Processes
      /\ vars' = vars /\ env' = env /\ signals' = signals /\ received' = received
      /\ trouble' = trouble /\ stage[p] = "ensure" /\ pc[p] \in Outcomes
  BY DEF SInv, Ensured, Shape, EInv, Counting
<1>e. EInv' /\ crd' = crd /\ other' = other /\ seen' = seen
  BY <1>0, EnsureRests DEF vars
<1>1. CASE pc[p] = "nil"
  <2>1. Enter(p, "register") /\ crd
    BY <1>0, <1>1 DEF Ensured, EInv, NilMeansPresent
  <2>2. /\ Shape' /\ stage'[p] = "register" /\ manager'[p] = manager[p]
        /\ \A q \in Processes \ {p} : stage'[q] = stage[q] /\ manager'[q] = manager[q]
    BY <1>0, <2>1, EnterKeeps DEF Shape, Exits
  <2>3. Orderly(p)'
    BY <1>0, <1>e, <2>1, <2>2 DEF Orderly, Told
  <2> QED BY <1>0, <1>e, <2>2, <2>3, OthersOrderly
<1>2. CASE pc[p] # "nil"
  <2>2. /\ Shape' /\ stage'[p] = "exit1" /\ manager'[p] = Off
        /\ \A q \in Processes \ {p} : stage'[q] = stage[q] /\ manager'[q] = manager[q]
    BY <1>0, <1>2, EnterKeeps DEF Ensured, Shape, Exit, Exits
  <2>3. Reason(p)'
    BY <1>0, <1>e, <1>2 DEF Reason, EInv, GivesUpOnlyWhenEntitled, Outcomes
  <2>4. Orderly(p)'
    BY <1>0, <1>e, <2>2, <2>3, OffIsOff DEF Orderly, Told
  <2> QED BY <1>0, <1>e, <2>2, <2>4, OthersOrderly
<1> QED BY <1>1, <1>2

\* The controller is registered and the managers start.
LEMMA RegisterKeeps == ASSUME SInv, NEW p \in Processes, Register(p) PROVE SInv'
<1>0. /\ Shape /\ EInv /\ Orderly(p) /\ trouble \subseteq Processes /\ other \subseteq Processes
      /\ vars' = vars /\ env' = env /\ signals' = signals /\ received' = received
      /\ stage[p] = "register"
  BY DEF SInv, Register, Shape, EInv, Counting
<1>e. EInv' /\ crd' = crd /\ other' = other /\ seen' = seen
  BY <1>0, EnsureRests DEF vars
<1>1. CASE /\ stage' = [stage EXCEPT ![p] = "managers"]
           /\ manager' = [manager EXCEPT ![p] = [home |-> "syncing", mc |-> "running"]]
           /\ UNCHANGED trouble
  <2>m. /\ [home |-> "syncing", mc |-> "running"]
              \in [Managers -> {"off", "syncing", "running", "nil", "error"}]
        /\ \A m \in Managers : [home |-> "syncing", mc |-> "running"][m] \in {"syncing", "running"}
    <3>1. \A m \in Managers : m = "home" \/ m = "mc"
      BY DEF Managers
    <3>2. DOMAIN [home |-> "syncing", mc |-> "running"] = Managers
      BY DEF Managers
    <3> QED BY <3>1, <3>2
  <2>1. stage' \in [Processes -> {"config", "home", "mc", "health", "ensure",
                                 "register", "managers"} \cup Exits]
    BY <1>0, <1>1 DEF Shape
  <2>2. manager' \in [Processes -> [Managers -> {"off", "syncing", "running", "nil", "error"}]]
    BY <1>0, <1>1, <2>m DEF Shape
  <2>3. /\ stage'[p] = "managers"
        /\ manager'[p] = [home |-> "syncing", mc |-> "running"]
        /\ \A q \in Processes \ {p} : stage'[q] = stage[q] /\ manager'[q] = manager[q]
    BY <1>0, <1>1 DEF Shape
  <2>4. Shape'
    BY <1>0, <1>1, <2>1, <2>2 DEF Shape
  <2>5. Orderly(p)'
    BY <1>0, <1>e, <2>m, <2>3 DEF Orderly, Told
  <2> QED BY <1>0, <1>e, <1>1, <2>3, <2>4, <2>5, OthersOrderly
<1>2. CASE Exit(p, "exit1") /\ Trouble(p)
  <2>1. trouble' \subseteq Processes /\ trouble \subseteq trouble' /\ p \in trouble'
    BY <1>0, <1>2 DEF Trouble
  <2>2. /\ Shape' /\ stage'[p] = "exit1" /\ manager'[p] = Off
        /\ \A q \in Processes \ {p} : stage'[q] = stage[q] /\ manager'[q] = manager[q]
    BY <1>0, <1>2, <2>1, EnterKeeps DEF Shape, Exit, Exits
  <2>3. Orderly(p)'
    BY <1>0, <1>e, <2>1, <2>2, OffIsOff DEF Orderly, Told, Reason
  <2> QED BY <1>0, <1>e, <2>1, <2>2, <2>3, OthersOrderly
<1> QED BY <1>1, <1>2 DEF Register

\* A manager ends, or its informer is in sync.
LEMMA EndsKeeps ==
    ASSUME SInv, NEW p \in Processes, NEW m \in Managers,
           NEW r \in {"running", "nil", "error"}, Ends(p, m, r),
           manager[p][m] \in {"syncing", "running"},
           trouble' \subseteq Processes, trouble \subseteq trouble',
           r = "nil" => Told(p),
           r = "error" => Told(p) \/ p \in trouble' \/ ~Ensures(env[p])
    PROVE  SInv'
<1>0. /\ Shape /\ EInv /\ Orderly(p) /\ trouble \subseteq Processes /\ other \subseteq Processes
      /\ vars' = vars /\ env' = env /\ signals' = signals /\ received' = received
      /\ stage' = stage /\ stage[p] = "managers"
  BY DEF SInv, Ends, Shape, EInv, Counting, Orderly
<1>e. EInv' /\ crd' = crd /\ other' = other /\ seen' = seen
  BY <1>0, EnsureRests DEF vars
<1>1. /\ manager' = [manager EXCEPT ![p] = [@ EXCEPT ![m] = r]]
      /\ manager \in [Processes -> [Managers -> {"off", "syncing", "running", "nil", "error"}]]
  BY <1>0 DEF Ends, Shape
<1>2. /\ manager' \in [Processes -> [Managers -> {"off", "syncing", "running", "nil", "error"}]]
      /\ manager'[p][m] = r
      /\ \A n \in Managers \ {m} : manager'[p][n] = manager[p][n]
      /\ \A q \in Processes \ {p} : manager'[q] = manager[q]
  BY <1>1
<1>3. Shape'
  BY <1>0, <1>2 DEF Shape
<1>4. p \in trouble => p \in trouble'
  BY <1>0
<1>5. Orderly(p)'
  BY <1>0, <1>e, <1>2, <1>4 DEF Orderly, Told, Exits
<1> QED BY <1>0, <1>e, <1>2, <1>3, <1>5, OthersOrderly

\* The loop over the channel takes a result (line 297).
LEMMA ReceiveKeeps ==
    ASSUME SInv, NEW p \in Processes, NEW m \in Managers, Receive(p, m) PROVE SInv'
<1>0. /\ Shape /\ EInv /\ Orderly(p) /\ trouble \subseteq Processes /\ other \subseteq Processes
      /\ vars' = vars /\ env' = env /\ signals' = signals /\ trouble' = trouble
      /\ stage[p] = "managers" /\ manager[p][m] \in {"nil", "error"}
  BY DEF SInv, Receive, Shape, EInv, Counting
<1>e. EInv' /\ crd' = crd /\ other' = other /\ seen' = seen
  BY <1>0, EnsureRests DEF vars
<1>1. CASE manager[p][m] = "error"
  <2>1. Exit(p, "exit1") /\ received' = received
    BY <1>1 DEF Receive, StopsAt
  <2>2. /\ Shape' /\ stage'[p] = "exit1" /\ manager'[p] = Off
        /\ \A q \in Processes \ {p} : stage'[q] = stage[q] /\ manager'[q] = manager[q]
    BY <1>0, <2>1, EnterKeeps DEF Shape, Exit, Exits
  <2>3. Reason(p)'
    BY <1>0, <1>1 DEF Reason, Orderly, Told
  <2>4. Orderly(p)'
    BY <1>0, <1>e, <2>1, <2>2, <2>3, OffIsOff DEF Orderly, Told
  <2> QED BY <1>0, <1>e, <2>1, <2>2, <2>4, OthersOrderly
<1>2. CASE manager[p][m] # "error"
  <2>1. /\ received' = [received EXCEPT ![p] = @ \cup {m}] /\ Told(p)
        /\ IF received[p] \cup {m} = Managers THEN Exit(p, "exit0")
           ELSE UNCHANGED <<stage, manager>>
    BY <1>0, <1>2 DEF Receive, StopsAt, EnoughWith, Orderly
  <2>2. /\ received' \in [Processes -> SUBSET Managers]
        /\ received'[p] = received[p] \cup {m}
        /\ \A q \in Processes \ {p} : received'[q] = received[q]
    BY <1>0, <2>1 DEF Shape
  <2>3. CASE received[p] \cup {m} = Managers
    <3>1. /\ Shape' /\ stage'[p] = "exit0" /\ manager'[p] = Off
          /\ \A q \in Processes \ {p} : stage'[q] = stage[q] /\ manager'[q] = manager[q]
      BY <1>0, <2>1, <2>2, <2>3, EnterKeeps DEF Shape, Exit, Exits
    <3>2. Orderly(p)'
      BY <1>0, <1>e, <2>1, <2>2, <2>3, <3>1, OffIsOff DEF Orderly, Told
    <3> QED BY <1>0, <1>e, <2>2, <3>1, <3>2, OthersOrderly
  <2>4. CASE received[p] \cup {m} # Managers
    <3>1. stage' = stage /\ manager' = manager
      BY <2>1, <2>4
    <3>2. Shape' /\ Orderly(p)'
      BY <1>0, <1>e, <2>1, <2>2, <3>1 DEF Shape, Orderly, Told
    <3> QED BY <1>0, <1>e, <2>2, <3>1, <3>2, OthersOrderly
  <2> QED BY <2>3, <2>4
<1> QED BY <1>1, <1>2

\* A signal, the second of which ends the process.
LEMMA SignalKeeps == ASSUME SInv, NEW p \in Processes, Signal(p) PROVE SInv'
<1>0. /\ Shape /\ EInv /\ Orderly(p) /\ trouble \subseteq Processes /\ other \subseteq Processes
      /\ vars' = vars /\ env' = env /\ received' = received /\ trouble' = trouble
  BY DEF SInv, Signal, Shape, EInv, Counting
<1>e. EInv' /\ crd' = crd /\ other' = other /\ seen' = seen
  BY <1>0, EnsureRests DEF vars
<1>1. /\ signals' \in [Processes -> Nat] /\ Told(p)'
      /\ \A q \in Processes \ {p} : signals'[q] = signals[q]
  BY <1>0 DEF Signal, Shape, Told
<1>2. CASE Told(p)
  <2>2. /\ Shape' /\ stage'[p] = "exit1" /\ manager'[p] = Off
        /\ \A q \in Processes \ {p} : stage'[q] = stage[q] /\ manager'[q] = manager[q]
    BY <1>0, <1>1, <1>2, EnterKeeps DEF Signal, Shape, Exit, Exits
  <2>4. Orderly(p)'
    BY <1>0, <1>e, <1>1, <2>2, OffIsOff DEF Orderly, Reason
  <2> QED BY <1>0, <1>e, <1>1, <2>2, <2>4, OthersOrderly
<1>3. CASE ~Told(p)
  <2>1. stage' = stage /\ manager' = manager
    BY <1>3 DEF Signal
  <2>2. Shape' /\ Orderly(p)'
    BY <1>0, <1>e, <1>1, <2>1 DEF Shape, Orderly, Reason
  <2> QED BY <1>0, <1>e, <1>1, <2>1, <2>2, OthersOrderly
<1> QED BY <1>2, <1>3

-----------------------------------------------------------------------------
\* Every step keeps all processes orderly.
LEMMA StepsOrderly == SInv /\ [StartupNext]_startupVars => SInv'
<1> SUFFICES ASSUME SInv, [StartupNext]_startupVars PROVE SInv'
  OBVIOUS
<1>t. trouble \subseteq Processes
  BY DEF SInv, Shape
<1>1. ASSUME NEW p \in Processes, Main(p) PROVE SInv'
  BY <1>1, SetUpKeeps, EnsureKeeps, EnsuredKeeps, RegisterKeeps, ReceiveKeeps DEF Main
<1>2. ASSUME NEW p \in Processes, Sync(p) PROVE SInv'
  <2>1. "home" \in Managers
    BY DEF Managers
  <2>2. stage[p] = "managers" /\ (~crd => ~Ensures(env[p]))
    BY <1>2, <2>1 DEF Sync, SInv, Orderly
  <2>3. Ends(p, "home", IF crd THEN "running" ELSE "error") /\ trouble' = trouble
    BY <1>2 DEF Sync
  <2>4. manager[p]["home"] \in {"syncing", "running"}
    BY <1>2 DEF Sync
  <2> QED BY <1>t, <2>1, <2>2, <2>3, <2>4, EndsKeeps
<1>3. ASSUME NEW p \in Processes, Signal(p) PROVE SInv'
  BY <1>3, SignalKeeps
<1>4. ASSUME NEW p \in Processes, NEW m \in Managers, Finish(p, m) PROVE SInv'
  BY <1>t, <1>4, EndsKeeps DEF Finish, Active, Canceled
<1>5. ASSUME NEW p \in Processes, NEW m \in Managers, Break(p, m) PROVE SInv'
  <2>1. trouble' \subseteq Processes /\ trouble \subseteq trouble' /\ p \in trouble'
    BY <1>t, <1>5 DEF Break, Trouble
  <2> QED BY <1>5, <2>1, EndsKeeps DEF Break, Active
<1>6. CASE UNCHANGED startupVars
  <2>1. EInv' /\ Shape'
    BY <1>6, EnsureRests DEF SInv, startupVars, processVars, vars, Shape
  <2>2. ASSUME NEW p \in Processes PROVE Orderly(p)'
    BY <1>6 DEF SInv, startupVars, processVars, vars, Orderly, Reason, Told
  <2> QED BY <2>1, <2>2 DEF SInv
<1> QED BY <1>1, <1>2, <1>3, <1>4, <1>5, <1>6 DEF StartupNext

\* So they are always orderly.
LEMMA AlwaysOrderly == StartupSpec => []SInv
  BY StartsOrderly, StepsOrderly, PTL DEF StartupSpec

\* EnsureKryptonDeploymentCRD returns nil only with the CRD in place, whoever
\* created it, for any number of processes and lost answers.
THEOREM NilIsTrue == StartupSpec => []NilMeansPresent
<1>1. SInv => NilMeansPresent
  BY DEF SInv, EInv
<1> QED BY <1>1, AlwaysOrderly, PTL

\* It returns an error only after one that is not transient, or five that are,
\* and its last return is dead code.
THEOREM NoEarlyEnd == StartupSpec => []GivesUpOnlyWhenEntitled
<1>1. SInv => GivesUpOnlyWhenEntitled
  BY DEF SInv, EInv
<1> QED BY <1>1, AlwaysOrderly, PTL

\* startManagers returns nil only after a signal and with both managers done.
THEOREM ZeroMeansDone == StartupSpec => []ZeroIsGraceful
<1>1. SInv => ZeroIsGraceful
  BY DEF SInv, Orderly, ZeroIsGraceful
<1> QED BY <1>1, AlwaysOrderly, PTL

\* A process that ensures the CRD never ends for want of it: the order of the
\* stages is right for any number of processes racing through them.
THEOREM NeverForNothing == StartupSpec => []ExitsForAReason
<1>1. SInv => ExitsForAReason
  BY DEF SInv, Orderly, Reason, ExitsForAReason
<1> QED BY <1>1, AlwaysOrderly, PTL

-----------------------------------------------------------------------------
(* Limits, and the check interval.                                          *)

\* The second signal ends a process, so a living one has got at most one.
Limits ==
    /\ created \in Nat
    /\ env \in [Processes -> Environments]
    /\ \A p \in Processes : signals[p] <= IF Alive(p) THEN 1 ELSE 2

\* Only living processes take steps that end in another stage, and none is
\* revived.
LEMMA NoneRevived ==
    ASSUME SInv, [StartupNext]_startupVars, NEW p \in Processes, Alive(p)'
    PROVE  Alive(p)
<1> SUFFICES ASSUME ~Alive(p) PROVE FALSE
  OBVIOUS
<1>1. stage \in [Processes -> {"config", "home", "mc", "health", "ensure",
                               "register", "managers"} \cup Exits] /\ stage[p] \in Exits
  BY DEF SInv, Shape, Alive
<1>2. \A q \in Processes : \A s : Enter(q, s) => \A r \in Processes \ {q} : stage'[r] = stage[r]
  BY <1>1 DEF Enter
<1>3. stage'[p] = stage[p]
  <2>1. ASSUME NEW q \in Processes, SetUp(q) \/ Ensured(q) \/ Register(q)
        PROVE  stage'[p] = stage[p]
    <3>1. q # p
      BY <1>1, <2>1 DEF SetUp, Ensured, Register, Exits
    <3> QED
      BY <1>1, <1>2, <2>1, <3>1 DEF SetUp, Ensured, Register, Exit
  <2>2. ASSUME NEW q \in Processes, NEW m \in Managers, Receive(q, m)
        PROVE  stage'[p] = stage[p]
    <3>1. q # p
      BY <1>1, <2>2 DEF Receive, Exits
    <3> QED
      BY <1>1, <1>2, <2>2, <3>1 DEF Receive, Exit
  <2>3. ASSUME NEW q \in Processes, Signal(q) PROVE stage'[p] = stage[p]
    <3>1. q # p
      BY <1>1, <2>3 DEF Signal, Alive
    <3> QED
      BY <1>1, <1>2, <2>3, <3>1 DEF Signal, Exit
  <2>4. ASSUME NEW q \in Processes, \/ Ensure(q) \/ Sync(q)
                                   \/ \E m \in Managers : Finish(q, m) \/ Break(q, m)
        PROVE  stage'[p] = stage[p]
    BY <2>4 DEF Ensure, processVars, Sync, Finish, Break, Ends
  <2> QED
    BY <2>1, <2>2, <2>3, <2>4 DEF StartupNext, Main, startupVars, processVars
<1> QED
  BY <1>1, <1>3 DEF Alive

\* What the API server has created is counted, and the settings stay.
LEMMA CountingStays ==
    ASSUME SInv, Limits, [StartupNext]_startupVars
    PROVE  created' \in Nat /\ env' = env
<1>1. ServerCreates => created' \in Nat
  BY DEF Limits, ServerCreates
<1>2. ASSUME NEW p \in Processes, Ensure(p) PROVE created' \in Nat /\ env' = env
  <2>1. Get(p) => created' = created
    BY DEF Get
  <2>2. Create(p) => created' = created \/ ServerCreates
    BY DEF Create
  <2> QED
    BY <1>1, <1>2, <2>1, <2>2 DEF Ensure, processVars, Limits
<1>3. ASSUME NEW p \in Processes,
             \/ SetUp(p) \/ Ensured(p) \/ Register(p) \/ Sync(p) \/ Signal(p)
             \/ \E m \in Managers : Receive(p, m) \/ Finish(p, m) \/ Break(p, m)
      PROVE  created' = created /\ env' = env
  BY <1>3 DEF SetUp, Ensured, Register, Sync, Signal, Receive, Finish, Break, Ends, vars
<1>4. CASE UNCHANGED startupVars
  BY <1>4 DEF startupVars, processVars, vars, Limits
<1> QED
  BY <1>2, <1>3, <1>4 DEF StartupNext, Main, Limits

\* A process is signalled while it lives, and by the second signal for the last time.
LEMMA SignalsLimited ==
    ASSUME SInv, Limits, [StartupNext]_startupVars, NEW p \in Processes
    PROVE  signals'[p] <= IF Alive(p)' THEN 1 ELSE 2
<1>1. /\ signals \in [Processes -> Nat] /\ (Alive(p)' => Alive(p))
      /\ signals[p] <= 2 /\ (Alive(p) => signals[p] <= 1)
  BY NoneRevived DEF SInv, Shape, Limits
<1>2. CASE signals'[p] = signals[p]
  BY <1>1, <1>2
<1>3. CASE Signal(p)
  <2>1. signals'[p] = signals[p] + 1 /\ Alive(p)
    BY <1>1, <1>3 DEF Signal
  <2>2. CASE Told(p)
    <3>1. stage' = [stage EXCEPT ![p] = "exit1"]
      BY <1>3, <2>2 DEF Signal, Exit, Enter
    <3>2. ~Alive(p)'
      BY <3>1 DEF SInv, Shape, Alive, Exits
    <3> QED
      BY <1>1, <2>1, <3>2
  <2>3. CASE ~Told(p)
    BY <1>1, <2>1, <2>3 DEF Told
  <2> QED
    BY <2>2, <2>3
<1>4. ASSUME NEW q \in Processes \ {p}, Signal(q) PROVE signals'[p] = signals[p]
  BY <1>1, <1>4 DEF Signal
<1>5. ASSUME NEW q \in Processes,
             Main(q) \/ Sync(q) \/ \E m \in Managers : Finish(q, m) \/ Break(q, m)
      PROVE  signals'[p] = signals[p]
  BY <1>5 DEF Main, SetUp, Ensure, Ensured, Register, Receive, processVars, Sync, Finish,
     Break, Ends
<1> QED
  BY <1>2, <1>3, <1>4, <1>5 DEF StartupNext, startupVars, processVars

\* The types of Startup, for any number of processes; a process that lives has got
\* at most one signal.
THEOREM StartupTyped == StartupSpec => []StartupTypeOK
<1>1. StartupInit => Limits
  BY DEF StartupInit, Init, Limits, Alive, Exits
<1>2. SInv /\ Limits /\ [StartupNext]_startupVars => Limits'
  BY CountingStays, SignalsLimited DEF Limits
<1>3. SInv /\ Limits => StartupTypeOK
  <2> SUFFICES ASSUME SInv, Limits PROVE StartupTypeOK
    OBVIOUS
  <2>1. TypeOK
    BY DEF SInv, EInv, Counting, Limits, TypeOK
  <2>2. signals \in [Processes -> 0..2]
    <3>1. signals \in [Processes -> Nat]
      BY DEF SInv, Shape
    <3>2. ASSUME NEW p \in Processes PROVE signals[p] \in 0..2
      <4>1. signals[p] \in Nat /\ signals[p] <= IF Alive(p) THEN 1 ELSE 2
        BY <3>1 DEF Limits
      <4>2. signals[p] <= 2
        BY <4>1
      <4> QED
        BY <4>1, <4>2
    <3> QED
      BY <3>1, <3>2
  <2> QED
    BY <2>1, <2>2 DEF SInv, Shape, Limits, StartupTypeOK
<1> QED
  BY <1>1, <1>2, <1>3, StartsOrderly, StepsOrderly, PTL DEF StartupSpec

\* A product that fits is not changed by the width of time.Duration.
LEMMA FitsUnchanged == ASSUME NEW n \in 0..Largest PROVE Wrapped(n) = n
<1>1. \A m \in Nat, a \in Nat : a < m => a % m = a
  OBVIOUS
<1>2. n + Largest + 1 < 2 * (Largest + 1)
  BY DurationAssumption
<1>3. (n + Largest + 1) % (2 * (Largest + 1)) = n + Largest + 1
  BY <1>1, <1>2, DurationAssumption
<1> QED
  BY <1>3, DurationAssumption DEF Wrapped

\* getCheckInterval (line 763) gives the interval asked for, and a positive one, for
\* every setting but integers that do not fit, whatever the width of time.Duration.
THEOREM EveryIntervalServes == StartupSpec => []IntervalIsUsable
<1>1. EveryIntervalIsUsable
  <2> SUFFICES ASSUME NEW v \in Intervals, ~(v[1] = "integer" /\ v[2] * Second > Largest)
               PROVE  LET i == CheckInterval(v)
                      IN  i > 0 /\ (v[2] > 0 => i = IF v[1] = "duration" THEN v[2]
                                                    ELSE v[2] * Second)
    BY DEF EveryIntervalIsUsable
  <2>1. Default > 0
    BY DurationAssumption DEF Default
  <2>2. v[1] \in {"duration", "integer", "neither"} /\ v[2] \in Int
        /\ (v[1] = "neither" => v[2] = 0)
    BY DurationAssumption DEF Intervals, Integer
  <2>3. CASE v[1] = "integer" /\ v[2] > 0
    <3>1. v[2] * Second \in 1..Largest
      BY <2>2, <2>3, DurationAssumption
    <3>2. Wrapped(v[2] * Second) = v[2] * Second
      BY <3>1, FitsUnchanged, DurationAssumption
    <3> QED
      BY <2>2, <2>3, <3>1, <3>2, DurationAssumption DEF CheckInterval, IsDuration, IsSeconds
  <2> QED
    BY <2>1, <2>2, <2>3 DEF CheckInterval, IsDuration, IsSeconds
<1>2. IntervalIsUsable
  BY <1>1 DEF IntervalIsUsable
<1> QED
  BY <1>2, PTL
=============================================================================
