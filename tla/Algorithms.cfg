SPECIFICATION MCSpec
CONSTANTS
    uECC_WORD_BITS = 2
    uECC_WORD_SIZE = 2
    uECC_RNG_MAX_TRIES = 2
    UM_MAX = 3
    SMALL = 2
    INT_BITS = 5
    MAX_ID = 8
    Calls <- MCCalls
CHECK_DEADLOCK FALSE
INVARIANTS ListsRight ArithmeticExact CurvesExact EcdsaExact
