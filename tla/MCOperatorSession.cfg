SPECIFICATION Spec
CONSTANTS
    h = h
    s = s
    t = t
    Processes = {p1, p2}
    Requests = {h, s, t}
    Human = {h}
    Submitted <- MCSubmitted
    Grants = {g1, g2}
    AdmissionLock = "state"
    None = None
    Free = Free
    Stale = Stale
    Expected <- MCExpected
    Chunks <- MCChunks
    MaxHeard = 3
    Bundles <- MCBundles
    MaxIterations = 3
    MaxCommands = 4
    MaxPowerLosses = 1
SYMMETRY Symmetry
CHECK_DEADLOCK FALSE
INVARIANTS TypeOK GrantsAreConfirmed EvidenceKept BundlesWhole
PROPERTIES OneLineage
