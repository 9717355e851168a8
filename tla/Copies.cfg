SPECIFICATION Spec
CONSTANTS
    Nil = Nil
    Kubeconfigs = {"kc1", "kc2"}
    Reports = {"NotReady", "Deployed"}
    MaxVersions = 5
INVARIANTS TypeOK OnlyKubeconfigShared StoreIntact CopyIntact
CHECK_DEADLOCK FALSE
