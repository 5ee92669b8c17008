SPECIFICATION CSpec
CONSTANTS
    MAX_TERMINAL_NUM = 2
    KB_BUF_SIZE = 3
    TAB_SPACE = 2
    Scancodes <- TypingKeys
    Nbytes <- ReadLengths
    NUM_ROWS = 2
    NUM_COLS = 2
    PAGE = 5
    Texts <- OneText
    Interactive = {0}
    MaxOutput = 1
INVARIANTS EchoMatchesLine
