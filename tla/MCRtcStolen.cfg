SPECIFICATION RSpec
CONSTANTS
    MAX_TERMINAL_NUM = 2
    MAX_RTC_FREQ = 16
    COUNTER_BITS = 4
    Quanta = {1, 2}
    Clients = {0, 1}
    Freqs = {16}
    NbytesWritten = {4}
INVARIANTS TickWakesWaiter
