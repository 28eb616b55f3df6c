SPECIFICATION Spec
CONSTANTS
    Cycles = {c1}
    Processes = {p1}
    None = None
    Modes = {"SIMULATED", "GENERAL_AUTOPILOT"}
    Durations = {1}
    RoleLimit = 1
    CycleLimit = 8
    MaxIterations = 1
CHECK_DEADLOCK FALSE
INVARIANT HeldAfterDisposition
