SPECIFICATION FairSpec
CONSTANTS
    MAX_TERMINAL_NUM = 3
    MAX_PROG_NUM_PER_TERM = 2
    MAX_PID = 3
    MAX_PROGRAM_COUNT = 4
    FILE_LIMIT = 2
    Statuses = {0, 7}
    EarlyExecute = FALSE
    BaseMayFault = TRUE
INVARIANTS TypeOK PcbsExclusive CountersAgree ContextCoherent SavedContexts
PROPERTIES TerminalsStayAlive TickMapsVideo VideoComesBack EveryTerminalRuns
