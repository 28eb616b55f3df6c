SPECIFICATION FairSpec
CONSTANTS
    Cycles = {c1}
    Processes = {p1, p2}
    Runner = p1
    OperatorIterations = {2}
    OperatorVerdicts = {"PLANNED", "BUILT", "PASS", "REVISE", "ACCEPT", "BLOCKED"}
    None = None
    Modes = {"OFFLINE_FIXTURE"}
    Durations = {1}
    RoleLimit = 1
    CycleLimit = 7
    MaxIterations = 2
CHECK_DEADLOCK FALSE
INVARIANTS TypeOK JournalTellsState AbortedRoleIsClosed FilesAgree OwnCandidatesConfined
PROPERTIES RunEnds
