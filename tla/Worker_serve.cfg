\* Three requests to a worker of each kind.
SPECIFICATION LiveSpec
CONSTANTS
    Caller = {c1, c2, c3}
    Branch = {c1, c2}
    Kinds = {"Queue", "Bounded", "Dropbox"}
    Size = 2
INVARIANTS NoneForgotten ClosedLeavesNobody HandlersFindState
PROPERTIES BranchKept Answered ShutdownCompletes
CHECK_DEADLOCK FALSE
