\* A pipe that is never closed, read with pop_all as well.
SPECIFICATION Spec
CONSTANTS
    Writer = {w1, w2}
    Reader = {r1, r2}
    Drainer = {d1}
    Sizes = {1, 3}
    MaxSize = 3
    ReadOp = {"pop", "pop_with_timeout", "pop_all", "pop_all_now"}
    Closable = FALSE
    MaxPush = 3
INVARIANTS NoLostWakeup FifoExactlyOnce WithinMaxSize SizeExact
