\* A command that cannot be spawned.
SPECIFICATION Spec
CONSTANTS
    MaxChunks = 2
    a = a
    b = b
    cwd = cwd
    Pid = {a, b, cwd}
    State <- MCState
    Pipe <- MCPipe
    AnyPid = TRUE
    Capacity = 1
    Conditions <- FrontendConditions
    Inboxes <- OneCommand
    Cancellable <- NoPids
    Faults = TRUE
CHECK_DEADLOCK FALSE
INVARIANTS WriteSideFree
