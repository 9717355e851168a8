SPECIFICATION Spec
CONSTANTS
    Nil = Nil
    Kubeconfigs = {"kc1", "kc2"}
    Reports = {"NotReady", "Deployed"}
    MaxVersions = 5
INVARIANT DeepCopySharesNothing
CHECK_DEADLOCK FALSE
