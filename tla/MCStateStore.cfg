SPECIFICATION FairSpec
CONSTANTS
    Writers = {w1, w2, w3}
    Free = Free
    Stale = Stale
    MaxVersion = 4
INVARIANTS TypeOK OwnsTheLock NothingOverwritten ConfirmedSurvives
PROPERTIES LockGivenBack ImplementsLedger
