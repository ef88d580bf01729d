\* A line interrupted up to twice; one of the Ctrl-Cs may be too early.
SPECIFICATION Spec
CONSTANTS
    Pid <- MCIds
    Pipe <- MCIds
    MaxChunks = 1
    MayFail = TRUE
    Plans <- AnyPlans
    MaxLines = 1
    MaxInFlight = 2
    Interrupts = 2
CHECK_DEADLOCK FALSE
INVARIANTS SessionTypeOK  MessagesExpected NothingPending
