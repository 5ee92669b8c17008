SPECIFICATION Spec
CONSTANTS
    MAX_TERMINAL_NUM = 2
    MAX_PROG_NUM_PER_TERM = 3
    MAX_PID = 3
    MAX_PROGRAM_COUNT = 4
    FILE_LIMIT = 3
    Statuses = {7}
    EarlyExecute = FALSE
    BaseMayFault = FALSE
INVARIANTS ParentChain HaltStatusDelivered
PROPERTIES DescriptorsPrivate
