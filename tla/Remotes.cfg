\* Lines, remotes on the root and on one another, and deaths, with ten ids.
SPECIFICATION FairSpec
CONSTANTS
    MaxId = 9
    Faults = TRUE
CHECK_DEADLOCK FALSE
INVARIANTS RemotesTypeOK ResponsesExpected StackIsConnected
PROPERTIES ImplementsLinks StackPromptReturns OrphansEnd
