SPECIFICATION Spec
CONSTANTS
    Attempt = {a1, a2, a3}
    Point = {p1, p2}
    Peer = {q1, q2}
    MaxConnections = 1
    MaxIncoming = 2
SYMMETRY Symmetry
INVARIANTS
    StatesAwaitAttempt
    OneConnectionEach
    TakenByTheLiving
    TablesExact
