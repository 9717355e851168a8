SPECIFICATION FairSpec
CONSTANTS
    Callers = {g1, g2}
    Free = Free
    Parts = {"krypton", "team", "kc"}
    Empty = Empty
    Namespace = "krypton"
    Contents = {good}
    Broken = Broken
    NoSecret = NoSecret
    Asked <- MCAsked
    MaxHandles = 3
    MaxChanges = 2
INVARIANTS TypeOK OneHandlePerName HandleMatchesName
PROPERTIES EveryCallReturns ActsLikeATable
