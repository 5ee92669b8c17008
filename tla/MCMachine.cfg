SPECIFICATION MFairSpec
CONSTANTS
    MAX_TERMINAL_NUM = 2
    MAX_PROG_NUM_PER_TERM = 2
    MAX_PID = 2
    MAX_PROGRAM_COUNT = 3
    FILE_LIMIT = 2
    Statuses = {0}
    EarlyExecute = FALSE
    BaseMayFault = FALSE
INVARIANTS TranslationsCurrent FramesIntact ServiceInStep NoEdgeLost ProgramsInterruptible
PROPERTIES FaultEndsFaulter EveryTerminalRuns
