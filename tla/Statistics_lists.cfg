SPECIFICATION FairSpec
CONSTANTS
    Procs = {p1, p2}
    Jobs = {j1}
    Stalled = 1
    MaxRestarts = 1
INVARIANTS
    TypeOK
    ThisRunOnly
PROPERTIES
    ForgetsDead
    WorkersListed
