CONSTANTS
    a = a
    NONE = NONE
    NUM_TERMS = 2
    BUFFER_SIZE = 3
    Chars <- MCChars
    NBytes <- MCNBytes
    NUM_COLS = 3
    NUM_ROWS = 2
    Writes <- MCWrites
SPECIFICATION Spec
INVARIANT
    LineDeliveredIntact
