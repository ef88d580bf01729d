\* Ctrl-C while a command runs and the GetDirectory after it waits.
SPECIFICATION Spec
CONSTANTS
    MaxChunks = 2
    a = a
    b = b
    cwd = cwd
    Pid = {a, b, cwd}
    State <- MCState
    Pipe <- MCPipe
    AnyPid = TRUE
    Capacity = 1
    Conditions <- FrontendConditions
    Inboxes <- OneCommand
    Cancellable <- CtrlC
    Faults = FALSE
CHECK_DEADLOCK FALSE
INVARIANTS CancelsWhatHasStatus
