CONSTANTS
    KLen <- MCKLen
    DLen <- MCDLen
    Pmax = 12
    CURSOR_STACK = 5
    c1 = c1
    c2 = c2
    Cursors <- MCCursors
    Trees <- MCTrees
    GetKeys <- MCGetKeys
    DelKeys <- MCDelKeys
    PutItems <- MCPutItems
    MaxMods = 2
    MaxGets = 1
SPECIFICATION Spec
SYMMETRY Alike
INVARIANTS TreeSound CursorsOnTrack AnswersRight
CHECK_DEADLOCK FALSE
