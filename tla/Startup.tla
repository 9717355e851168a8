------------------------------ MODULE Startup ------------------------------
(***************************************************************************)
(* RunKryptonOperator from its first call that can fail to the exit of the *)
(* process, for several operator processes that start against one home     *)
(* cluster.  EnsureCRD is one of the stages; what the two managers do while *)
(* they run is the subject of Reconciler.                                  *)
(***************************************************************************)
EXTENDS EnsureCRD, Configuration

CONSTANTS
    Environments,  \* settings a process may be started with
    SecretIn       \* namespaces with a Secret for the watched cluster

Managers == {"home", "mc"}
Exits == {"exit0", "exit1"}

VARIABLES
    env,       \* the settings of each process
    stage,     \* how far RunKryptonOperator has come
    signals,   \* signals a process has got
    manager,   \* the two goroutines of startManagers
    received,  \* managers whose nil has been received from the channel
    trouble    \* processes that have met an error which is nobody's fault

processVars == <<env, stage, signals, manager, received, trouble>>
startupVars == <<vars, processVars>>

StartupTypeOK ==
    /\ TypeOK
    /\ env \in [Processes -> Environments]
    /\ stage \in [Processes -> {"config", "home", "mc", "health", "ensure",
                                "register", "managers"} \cup Exits]
    /\ signals \in [Processes -> 0..2]
    /\ manager \in [Processes -> [Managers -> {"off", "syncing", "running", "nil", "error"}]]
    /\ received \in [Processes -> SUBSET Managers]
    /\ trouble \subseteq Processes

Off == [m \in Managers |-> "off"]

StartupInit ==
    /\ Init
    /\ env \in [Processes -> Environments]
    /\ stage = [p \in Processes |-> "config"]
    /\ signals = [p \in Processes |-> 0]
    /\ manager = [p \in Processes |-> Off]
    /\ received = [p \in Processes |-> {}]
    /\ trouble = {}

Alive(p) == stage[p] \notin Exits
Told(p) == signals[p] > 0

Enter(p, s) ==
    /\ stage' = [stage EXCEPT ![p] = s]
    /\ manager' = [manager EXCEPT ![p] = IF s \in Exits THEN Off ELSE @]

\* os.Exit: whatever the goroutines are doing ends with the process.
Exit(p, status) == Enter(p, status)

Trouble(p) == trouble' = trouble \cup {p}

-----------------------------------------------------------------------------
\* Mutation: the controller is registered before the CRD is looked after.
WithoutEnsure(p) == "register"

AfterHealth(p) == IF Ensures(env[p]) THEN "ensure" ELSE "register"

Following(p) ==
    CASE stage[p] = "config" -> "home"
      [] stage[p] = "home" -> "mc"
      [] stage[p] = "mc" -> "health"
      [] stage[p] = "health" -> AfterHealth(p)

HasConfig(p) == Source(env[p]) = "secret" => WatchSecretNs(env[p]) \in SecretIn

\* buildWatchConfig, createHomeManager, createMCManager, setupProviderAndHealth.
SetUp(p) ==
    /\ stage[p] \in {"config", "home", "mc", "health"}
    /\ \/ /\ stage[p] = "config" => HasConfig(p)
          /\ Enter(p, Following(p)) /\ UNCHANGED trouble
       \/ stage[p] = "config" /\ ~HasConfig(p) /\ Exit(p, "exit1") /\ UNCHANGED trouble
       \/ Exit(p, "exit1") /\ Trouble(p)
    /\ UNCHANGED <<vars, env, signals, received>>

\* ensureWatchCRDsIfRequested; a canceled context only makes errors.
Ensure(p) ==
    /\ stage[p] = "ensure"
    /\ Get(p) \/ Create(p)
    /\ UNCHANGED processVars

Ensured(p) ==
    /\ stage[p] = "ensure" /\ pc[p] \in Outcomes
    /\ IF pc[p] = "nil" THEN Enter(p, "register") ELSE Exit(p, "exit1")
    /\ UNCHANGED <<vars, env, signals, received, trouble>>

\* registerHomeController, and startManagers up to its loop.
Register(p) ==
    /\ stage[p] = "register"
    /\ \/ /\ stage' = [stage EXCEPT ![p] = "managers"]
          /\ manager' = [manager EXCEPT ![p] = [home |-> "syncing", mc |-> "running"]]
          /\ UNCHANGED trouble
       \/ Exit(p, "exit1") /\ Trouble(p)
    /\ UNCHANGED <<vars, env, signals, received>>

-----------------------------------------------------------------------------
(* The two managers of a process.                                           *)

Ends(p, m, result) ==
    /\ manager' = [manager EXCEPT ![p][m] = result]
    /\ UNCHANGED <<vars, env, stage, signals, received>>

Active(p, m) == manager[p][m] \in {"syncing", "running"}

\* The informer of the home controller finds the CRD, or gives up in time.
Sync(p) ==
    /\ manager[p]["home"] = "syncing"
    /\ Ends(p, "home", IF crd THEN "running" ELSE "error") /\ UNCHANGED trouble

\* Mutation: the managers do not hear of the signal.
Background(p) == FALSE
\* ctx, which both managers are started with, is canceled by the first signal.
Canceled(p) == Told(p)

\* The manager waits for what it runs; it may be too slow.
Finish(p, m) ==
    /\ Active(p, m) /\ Canceled(p)
    /\ \E result \in {"nil", "error"} : Ends(p, m, result) /\ UNCHANGED trouble

Break(p, m) == Active(p, m) /\ Ends(p, m, "error") /\ Trouble(p)

\* Mutations: the loop does not look at the error; one manager is enough.
NeverStops(p, m) == FALSE
FirstAnswer(p, m) == TRUE
StopsAt(p, m) == manager[p][m] = "error"
EnoughWith(p, m) == received[p] \cup {m} = Managers

\* The loop over the channel: an error ends the process, the other manager being
\* what it may; so does the second nil.
Receive(p, m) ==
    /\ stage[p] = "managers" /\ m \notin received[p]
    /\ manager[p][m] \in {"nil", "error"}
    /\ IF StopsAt(p, m) THEN Exit(p, "exit1") /\ UNCHANGED received
       ELSE /\ received' = [received EXCEPT ![p] = @ \cup {m}]
            /\ IF EnoughWith(p, m) THEN Exit(p, "exit0") ELSE UNCHANGED <<stage, manager>>
    /\ UNCHANGED <<vars, env, signals, trouble>>

\* SetupSignalHandler: the second signal is os.Exit(1).
Signal(p) ==
    /\ Alive(p) /\ signals' = [signals EXCEPT ![p] = @ + 1]
    /\ IF Told(p) THEN Exit(p, "exit1") ELSE UNCHANGED <<stage, manager>>
    /\ UNCHANGED <<vars, env, received, trouble>>

-----------------------------------------------------------------------------
Main(p) ==
    \/ SetUp(p) \/ Ensure(p) \/ Ensured(p) \/ Register(p)
    \/ \E m \in Managers : Receive(p, m)

StartupNext ==
    \E p \in Processes :
        \/ Main(p) \/ Sync(p) \/ Signal(p)
        \/ \E m \in Managers : Finish(p, m) \/ Break(p, m)

StartupSpec == StartupInit /\ [][StartupNext]_startupVars

\* The main goroutine goes on, an informer syncs or times out, and a manager
\* that is told to stop does.
FairStartup ==
    /\ StartupSpec
    /\ \A p \in Processes :
        /\ WF_startupVars(Main(p))
        /\ WF_startupVars(Sync(p))
        /\ \A m \in Managers : WF_startupVars(Finish(p, m))

-----------------------------------------------------------------------------
\* Status 0 means that both managers have finished what they were doing after a
\* signal: no reconcile was cut off, no manager had failed.
ZeroIsGraceful ==
    \A p \in Processes : stage[p] = "exit0" => Told(p) /\ received[p] = Managers

\* A process that is told to ensure the CRD, and whose Secret is where the others
\* are unless it was told otherwise, exits with an error for a reason of its own
\* only: never for a missing CRD or for what befalls another process.
ExitsForAReason ==
    \A p \in Processes : stage[p] = "exit1" =>
        \/ Told(p) \/ p \in trouble \/ p \in other \/ seen[p] = Attempts
        \/ ~Ensures(env[p])
        \/ /\ Source(env[p]) = "secret"
           /\ FirstSet(<<env[p].watchSecretNs, Namespace(env[p])>>) \notin SecretIn

\* No process hangs in its setup: it comes to serve, or it ends.
Serving(p) == stage[p] = "managers" /\ \A m \in Managers : manager[p][m] = "running"
ServesOrExits == \A p \in Processes : <>(Serving(p) \/ ~Alive(p))

\* A process that serves looks at a Deployed object again, at the rate asked for
\* (a RequeueAfter of zero or less is no requeue), whatever KRYPTON_CHECK_INTERVAL
\* holds, unless the interval overflows.
IntervalIsUsable == \A p \in Processes : Serving(p) => EveryIntervalIsUsable

\* A manager never outlives the other: a process with only one of them goes.
EndsTogether ==
    \A p \in Processes : \A m \in Managers :
        manager[p][m] \in {"nil", "error"} ~> ~Alive(p)

\* A process that is asked to stop does, whatever it was at.
StopsWhenTold == \A p \in Processes : Told(p) ~> ~Alive(p)
=============================================================================
