SPECIFICATION RFairSpec
CONSTANTS
    MAX_TERMINAL_NUM = 3
    MAX_RTC_FREQ = 64
    COUNTER_BITS = 6
    Quanta = {8, 9}
    Clients = {0, 1}
    Freqs = {0, 1, 3, 64, 128}
    NbytesWritten = {1, 4}
INVARIANTS RTypeOK TickUsedOnce
PROPERTIES ReadsReturn
