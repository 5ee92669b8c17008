SPECIFICATION CHaltSpec
CONSTANTS
    MAX_TERMINAL_NUM = 2
    KB_BUF_SIZE = 2
    TAB_SPACE = 2
    Scancodes <- SwitchingKeys
    Nbytes <- ReadLengths
    NUM_ROWS = 2
    NUM_COLS = 1
    PAGE = 3
    Texts <- Prompts
    Interactive = {0, 1}
    MaxOutput = 0
INVARIANTS EchoMatchesLine
