SPECIFICATION FairSpec
CONSTANTS
    k1 = k1
    k2 = k2
    e1 = e1
    e2 = e2
    oldPod = oldPod
    newPod = newPod
    Unset = Unset
    Gone = Gone
    NoChart = NoChart
    BadCreds = BadCreds
    NoCluster = NoCluster
    NoKD = NoKD
    Foreign = Foreign
    KD = {k1, k2}
    Edges = {e1}
    Names = {"tenant"}
    NameOf <- OneName
    Operators = {oldPod, newPod}
    Latest = newPod
    Charts <- Charts2
    ChartOf <- ChartOf2
    Namespaces = {"krypton"}
    OperatorNs = "krypton"
    SecretNames = {"kc1"}
    Regions = {"r1"}
    DefaultSecret <- MCDefaultSecret
    Specs <- PlainSpec
    InitialSecrets <- GoodSecrets
    Resources <- MCResources
    Checked = {"deploy"}
    ClusterScoped = {"role"}
    Workload = "deploy"
    FaultSites <- RecordedSites
    Watched <- MCWatched
    GracefulStop = TRUE
    Budgets <- BudgetConverge
PROPERTIES Converges KeepsCustody
CHECK_DEADLOCK FALSE
