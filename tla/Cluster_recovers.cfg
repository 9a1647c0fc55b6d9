SPECIFICATION FairSpec
CONSTANTS
    c1 = c1
    c2 = c2
    c3 = c3
    N = 2
    MaxFailures = 2
    Conns = {}
    Fingerprint <- Addresses
    Configs <- Monitored
    CleanExits = TRUE
PROPERTIES
    FleetRecovers
    SelectionHeals
CHECK_DEADLOCK FALSE
