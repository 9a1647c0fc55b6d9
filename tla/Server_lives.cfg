SPECIFICATION FairSpec
CONSTANTS
    Deployments <- AllDeployments
    Traffic <- Crowd
    MaxItems = 1
    r1 = r1
    r2 = r2
    Calls = {r1, r2}
    Kinds = {"put", "get", "delete", "unnamed", "stray"}
    Filters = {"default", "any", "throws"}
    Times = 2
    None = None
INVARIANTS
    TypeOK
    NoneLost
    ScrapeableWorkers
    NoImmortal
    LifetimeOfWriter
PROPERTIES
    Ends
    StartsOrEnds
    Composes
    Answered
CHECK_DEADLOCK FALSE
