\* The output of the last command against the exit.
SPECIFICATION Spec
CONSTANTS
    Pid <- MCIds
    Pipe <- MCIds
    MaxChunks = 1
    MayFail = FALSE
    Plans <- CommandPlans
    MaxLines = 1
    MaxInFlight = 1
    Interrupts = 0
CHECK_DEADLOCK FALSE
INVARIANT ExitsAfterOutput
