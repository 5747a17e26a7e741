\* Every command, every way its checks and its call may end, on every kind of machine.
SPECIFICATION Spec
INVARIANTS TypeOK ChecksComeFirst ExitTellsOutcome
CHECK_DEADLOCK FALSE
