\* Requests the interface allows, with failures, conditions and cancels; a crash ends a behaviour.
SPECIFICATION Spec
CONSTANTS
    MaxChunks = 2
    a = a
    b = b
    cwd = cwd
    Pid = {a, b, cwd}
    State <- MCState
    Pipe <- MCPipe
    AnyPid = TRUE
    Capacity = 1
    Conditions <- AllConditions
    Inboxes <- InterfaceInboxes
    Cancellable <- CtrlC
    Faults = TRUE
CHECK_DEADLOCK FALSE
INVARIANTS ExecTypeOK AnsweredOnce MachineInStep ReportedAsExited
    AnsweredInOrder EndsAreFree NothingIsLost
PROPERTIES ImplementsBackend
