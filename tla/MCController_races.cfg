SPECIFICATION Spec
CONSTANTS
    Cycles = {c1, c2}
    Processes = {p1, p2}
    None = None
    Modes = {"SIMULATED", "GENERAL_AUTOPILOT"}
    Durations = {1}
    RoleLimit = 1
    CycleLimit = 8
    MaxIterations = 1
SYMMETRY Symmetry
CHECK_DEADLOCK FALSE
INVARIANTS TypeOK ValidState OneReceiptPerCommit UnsettledIntentHolds TargetMovesOnce AdvancedOrHeld
PROPERTIES ClosedForGood
