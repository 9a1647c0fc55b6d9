SPECIFICATION FairSpec
CONSTANTS
    w1 = w1
    w2 = w2
    Workers = {w1, w2}
    MaxRequests = 1
PROPERTIES
    ScrapeSettles
CHECK_DEADLOCK FALSE
