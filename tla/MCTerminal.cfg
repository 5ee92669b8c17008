SPECIFICATION TFairSpec
CONSTANTS
    MAX_TERMINAL_NUM = 2
    KB_BUF_SIZE = 3
    TAB_SPACE = 2
    Scancodes <- Keys
    Nbytes <- ReadLengths
INVARIANTS TTypeOK LineComplete ReadFitsBuffer
PROPERTIES ImplementsLineInput EnteredLineReturns
