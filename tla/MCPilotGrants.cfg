SPECIFICATION GrantSpec
CONSTANTS
    r1 = r1
    r2 = r2
    r3 = r3
    a1 = a1
    b1 = b1
    a2 = a2
    a3 = a3
    Grants = {a1, b1, a2, a3}
    Requests = {r1, r2, r3}
    RequestOf <- MCRequestOf
    None = None
CHECK_DEADLOCK FALSE
INVARIANTS GrantsUsedOnce TargetUnderGrant
