SPECIFICATION FairSpec
CONSTANTS
    w1 = w1
    w2 = w2
    Workers = {w1, w2}
    MaxRequests = 2
INVARIANTS
    TypeOK
    CompleteScrape
    PendingIsOutstanding
    AnswerHasRequest
    OpenHasTimer
PROPERTIES
    SettledOnce
    Implements
CHECK_DEADLOCK FALSE
