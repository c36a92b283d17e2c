\* The requester of operations: every fetch returns, under fair scheduling.
CONSTANTS
    Key = {k1}
    Peer = {p1, p2}
    NoPeer = NoPeer
    Fetcher = {f1}
    SyncDisk = TRUE
    Unsolicited = FALSE
    QueueBound = 2
SPECIFICATION LiveSpec
PROPERTY FetchReturns
