CONSTANTS
    NumBlocks = 2
    TuplesPerBlock = 2
    TupleLength = 2
    BlockAddr <- MCBlockAddr
    IndexWidth = 3
    Codes = {0, 5}
    CharSigned = TRUE
    AssertsEnabled = TRUE
SPECIFICATION Spec
INVARIANT AddressRoundTrip
