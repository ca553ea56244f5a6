CONSTANTS
    NumBlocks = 2
    TuplesPerBlock = 2
    TupleLength = 2
    BlockAddr <- MCBlockAddr
    IndexWidth = 3
    Codes = {0, 5}
    CharSigned = FALSE
    AssertsEnabled = FALSE
SPECIFICATION Spec
INVARIANT IteratorExact
