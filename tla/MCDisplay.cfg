SPECIFICATION DSpec
CONSTANTS
    MAX_TERMINAL_NUM = 2
    NUM_ROWS = 2
    NUM_COLS = 2
    PAGE = 5
    Texts <- SmallTexts
INVARIANTS DTypeOK NoGapBeforeCursor
PROPERTIES ImplementsScreens
