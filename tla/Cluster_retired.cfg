SPECIFICATION Spec
CONSTANTS
    c1 = c1
    c2 = c2
    c3 = c3
    N = 2
    MaxFailures = 1
    Conns = {c1, c2}
    Fingerprint <- Addresses
    Configs <- Rotating
    CleanExits = TRUE
PROPERTIES
    SentToLiving
CHECK_DEADLOCK FALSE
