SPECIFICATION Spec
CONSTANTS
    c1 = c1
    c2 = c2
    a1 = a1
    b1 = b1
    a2 = a2
    Cycles = {c1, c2}
    Grants = {a1, b1, a2}
    RequestOf <- MCRequestOf
    Processes = {p1, p2}
    None = None
    Modes = {"HUMAN_ASSISTED"}
    Durations = {1}
    RoleLimit = 1
    CycleLimit = 8
    MaxIterations = 1
SYMMETRY Symmetry
CHECK_DEADLOCK FALSE
PROPERTIES AdmissionUnheld
