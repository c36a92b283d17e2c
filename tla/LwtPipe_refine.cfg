\* The pipe implements the channel, liveness included.
SPECIFICATION LiveSpec
CONSTANTS
    Writer = {w1, w2}
    Reader = {r1, r2}
    Drainer = {}
    Sizes = {1, 3}
    MaxSize = 3
    ReadOp = {"pop", "pop_with_timeout", "pop_now", "values_available"}
    Closable = TRUE
    MaxPush = 2
PROPERTY ImplementsChannel
