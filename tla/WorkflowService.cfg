CONSTANTS
    Clients = {c1, c2, c3}
    NoClient = NoClient
    Threads = 2
    MaxRequests = 2
SPECIFICATION FairSpec
INVARIANTS OneOperation AnsweredOnce AcceptsAlone
PROPERTIES LostOnlyByReset ClosingRearms
CHECK_DEADLOCK FALSE
