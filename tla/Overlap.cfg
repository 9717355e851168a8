SPECIFICATION Spec
CONSTANTS
    k1 = k1
    k2 = k2
    e1 = e1
    e2 = e2
    oldPod = oldPod
    newPod = newPod
    Unset = Unset
    Gone = Gone
    NoChart = NoChart
    BadCreds = BadCreds
    NoCluster = NoCluster
    NoKD = NoKD
    Foreign = Foreign
    KD = {k1}
    Edges = {e1}
    Names = {"tenant"}
    NameOf <- OneName
    Operators = {oldPod, newPod}
    Latest = newPod
    Charts <- Charts2
    ChartOf <- ChartOf2
    Namespaces = {"krypton"}
    OperatorNs = "krypton"
    SecretNames = {"kc1"}
    Regions = {"r1"}
    DefaultSecret <- MCDefaultSecret
    Specs <- SoloSpecs
    InitialSecrets <- GoodSecrets
    Resources = {"deploy"}
    Checked = {"deploy"}
    ClusterScoped = {}
    Workload = "deploy"
    FaultSites <- AllSites
    Watched <- MCWatched
    GracefulStop = FALSE
    Budgets <- BudgetOverlap
INVARIANTS CopiesAgree NeverForgotten
PROPERTIES UsersOwnTheirFields StatusNeverRegresses
CHECK_DEADLOCK FALSE
