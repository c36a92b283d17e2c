\* The requester of block headers: the disk is awaited.
CONSTANTS
    Key = {k1}
    Peer = {p1, p2}
    NoPeer = NoPeer
    Fetcher = {f1, f2}
    SyncDisk = FALSE
    Unsolicited = TRUE
    QueueBound = 2
SYMMETRY Symmetry
SPECIFICATION Spec
INVARIANTS WaitersExact NoOrphanRequest
PROPERTY GivenUpOnlyWhenDeserted
