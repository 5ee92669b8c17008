SPECIFICATION PgSpec
CONSTANTS
    NAME_LENGTH_MAX = 2
    DATA_LENGTH = 2
    FILE_LIMIT = 5
    WORD = 512
    EXEC_HEAD <- Head12
    dentries <- GoodDentries
    inodes <- GoodInodes
    blocks <- GoodBlocks
    Names <- GoodNames
    Counts <- ReadCounts
    PARAM_LENGTH = 6
    DOT <- Dot
    RTC_NAME <- R
    BUFSIZE = 4
    SBUFSIZE = 3
    SCREENWIDTH = 6
    STARTCHAR = 65
    ENDCHAR = 67
    EXIT_WORD <- Exit
    TypedLines <- Lines
    ArgCounts <- ArgSizes
    HaltStatuses <- Statuses
    NEG_FD <- NegFd
    BIG_FD <- BigFd
    TOO_LONG <- TTT
    TOO_SHORT <- T
    WAIT = 3
    FRAME_LENGTH = 2
    I_LENGTH = 1
    M_LENGTH = 2
    BITS = 8
    HEX_DIGITS = 2
    Addresses <- Memory
    Arrays <- CharArrays
    Values <- Numbers
    Formats <- FormatPairs
    Tasks <- AllTasks
CHECK_DEADLOCK FALSE
INVARIANTS
    FTypeOK ReadsFit UtilitiesExact ArgumentsDelivered SysErrPasses FishShowsFrames RoutinesExact
PROPERTIES ImplementsStreams ProgramsEnd
