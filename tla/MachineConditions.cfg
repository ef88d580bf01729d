\* Every condition and every pid that the interface takes; an assertion that fails ends a behaviour.
SPECIFICATION MachineSpec
CONSTANTS
    Pid = {p1, p2, p3}
    State = {st}
    AnyPid = TRUE
    Conditions <- AllConditions
SYMMETRY MCSymmetry
CHECK_DEADLOCK FALSE
INVARIANTS TypeOK Bookkeeping NoneStartsEarly NoDeadlock
PROPERTIES ImplementsJobGraph
