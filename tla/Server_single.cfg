SPECIFICATION Spec
CONSTANTS
    Deployments <- OneSingle
    Traffic <- ReadsOfSingle
    MaxItems = 1
    r1 = r1
    r2 = r2
    Calls = {r1, r2}
    Kinds = {"get", "stray"}
    Filters = {"default"}
    Times = 1
    None = None
INVARIANTS
    ResponsesCounted
CHECK_DEADLOCK FALSE
