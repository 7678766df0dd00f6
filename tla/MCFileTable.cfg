CONSTANTS
    d = d
    r = r
    f = f
    x = x
    m = m
    EMPTY = EMPTY
    NONE = NONE
    Names = {d, r, f, x}
    Missing = m
    Beyond = x
    NUM_FILES = 3
    BLOCK_SIZE = 4
    MAX_NAME_SIZE = 4
    UINT32 = 256
    NBytes <- MCNBytes
    Freqs = {2, 3, 4, 8, 16, 32, 64, 128, 256, 512, 1024}
    Dir <- MCFullDir
    FNAME_SIZE = 2
    ARG_BYTES = 5
    Programs <- MCPrograms
    Commands <- MCCommands
    ArgNBytes <- MCArgNBytes
    FileType <- MCFileType
    Size <- MCSize
    NameLen <- MCNameLen
SPECIFICATION Spec
INVARIANTS
    TypeOK
    PosWithinFile
    ListingComplete
    RateMatchesFreq
    GetArgsReturnsArgument
