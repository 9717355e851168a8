SPECIFICATION Spec
CONSTANTS
    k1 = k1
    k2 = k2
    e1 = e1
    e2 = e2
    oldPod = oldPod
    newPod = newPod
    Unset = Unset
    Gone = Gone
    NoChart = NoChart
    BadCreds = BadCreds
    NoCluster = NoCluster
    NoKD = NoKD
    Foreign = Foreign
    KD = {k1}
    Edges = {e1}
    Names = {"tenant"}
    NameOf <- OneName
    Operators = {newPod}
    Latest = newPod
    Charts <- Charts1
    ChartOf <- ChartOf1
    Namespaces = {"krypton"}
    OperatorNs = "krypton"
    SecretNames = {"kc1"}
    Regions = {"r1"}
    DefaultSecret <- MCDefaultSecret
    Specs <- SoloSpecs
    InitialSecrets <- GoodSecrets
    Resources <- MCResources
    Checked = {"deploy"}
    ClusterScoped = {"role"}
    Workload = "deploy"
    FaultSites <- DeploySites
    Watched <- MCWatched
    GracefulStop = FALSE
    Budgets <- BudgetSolo
INVARIANTS TypeOK CopiesAgree NeverForgotten NothingOrphaned ReadyMeansServed
PROPERTIES UsersOwnTheirFields KeepsCustody
CHECK_DEADLOCK FALSE
