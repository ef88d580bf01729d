\* Two lines, and the exit at every prompt.
SPECIFICATION FairSpec
CONSTANTS
    Pid <- MCIds
    Pipe <- MCIds
    MaxChunks = 1
    MayFail = FALSE
    Plans <- CommandPlans
    MaxLines = 2
    MaxInFlight = 1
    Interrupts = 0
CHECK_DEADLOCK FALSE
INVARIANTS MessagesExpected PromptIsCurrent
PROPERTIES DirectoryAfterCommands PromptReturns
