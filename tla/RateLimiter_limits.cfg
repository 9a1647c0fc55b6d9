SPECIFICATION Spec
CONSTANTS
    Workers = {w1, w2}
    Requests = {r1, r2, r3}
    Ids = {"x"}
    Routes <- RouteNames
    Params <- RouteParams
    Default <- Defaults
    MaxLost = 1
SYMMETRY Symmetry
INVARIANTS
    TypeOK
    BurstBound
    SharedLimit
    AdmittedByAll
    HeadersTightest
