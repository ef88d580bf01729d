\* A line of the frontend: nothing fails, nobody interrupts it, everything is answered.
SPECIFICATION FairSpec
CONSTANTS
    MaxChunks = 2
    a = a
    b = b
    cwd = cwd
    Pid = {a, b, cwd}
    State <- MCState
    Pipe <- MCPipe
    AnyPid = TRUE
    Capacity = 1
    Conditions <- FrontendConditions
    Inboxes <- FrontendInboxes
    Cancellable <- NoPids
    Faults = FALSE
CHECK_DEADLOCK FALSE
PROPERTIES EveryCommandAnswered EveryReadEnds
