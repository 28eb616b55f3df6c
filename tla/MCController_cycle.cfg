SPECIFICATION FairSpec
CONSTANTS
    Cycles = {c1}
    Processes = {p1}
    None = None
    Modes = {"SIMULATED", "OFFLINE_FIXTURE", "GENERAL_AUTOPILOT"}
    Durations = {1, 2}
    RoleLimit = 1
    CycleLimit = 8
    MaxIterations = 3
CHECK_DEADLOCK FALSE
INVARIANTS AcceptedOnMerit WithinLimits IterationsChain OneFinalSummary

PROPERTIES CycleSettles
