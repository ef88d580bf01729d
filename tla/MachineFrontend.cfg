\* Only the conditions the frontend sends: wait for the exit, whatever the status.
SPECIFICATION MachineFairSpec
CONSTANTS
    Pid = {p1, p2, p3, p4}
    State = {st}
    AnyPid = FALSE
    Conditions <- FrontendConditions
CHECK_DEADLOCK FALSE
INVARIANTS NeverPanics
PROPERTIES EveryJobFinishes
