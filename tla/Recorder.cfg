\* One byte typed and four printed, a buffer of two, terminals that hold one, and every way to stop.
SPECIFICATION FairSpec
CONSTANTS
    BufSize = 2
    Room = 1
    MaxBytes <- MCMaxBytes
    Faults = TRUE
CHECK_DEADLOCK FALSE
INVARIANTS RecorderTypeOK RecordedAsWritten OnlyRefusedIsLost ReplayShowsWhatWasShown
PROPERTIES RecordingEnds
