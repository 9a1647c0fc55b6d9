SPECIFICATION Spec
CONSTANTS
    c1 = c1
    c2 = c2
    c3 = c3
    N = 2
    MaxFailures = 1
    Conns = {c1, c2}
    Fingerprint <- Addresses
    Configs <- EveryConfig
    CleanExits = FALSE
INVARIANTS
    TypeOK
    OneSlotEach
    StrandedByRespawn
    OneOwner
    Sticky
    Balanced
PROPERTIES
    BootedOnce
CHECK_DEADLOCK FALSE
