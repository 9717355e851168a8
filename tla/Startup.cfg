SPECIFICATION FairStartup
CONSTANTS
    Processes = {p1, p2}
    Environments <- MCEnvironments
    SecretIn = {"krypton"}
    Largest = 1023
    Second = 12
INVARIANTS StartupTypeOK NilMeansPresent GivesUpOnlyWhenEntitled ZeroIsGraceful ExitsForAReason IntervalIsUsable
PROPERTIES ServesOrExits EndsTogether StopsWhenTold
CHECK_DEADLOCK FALSE
