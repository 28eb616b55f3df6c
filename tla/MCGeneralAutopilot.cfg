SPECIFICATION FairSpec
CONSTANTS
    Cycles = {c1}
    Processes = {p1, p2}
    Runner = p1
    None = None
    Modes = {"GENERAL_AUTOPILOT"}
    Durations = {1, 2}
    RoleLimit = 1
    CycleLimit = 8
    MaxIterations = 3
    MaxRoleCalls = 10
CHECK_DEADLOCK FALSE
INVARIANTS TypeOK FailsClosed ReportIsEarned
PROPERTIES RunEnds
