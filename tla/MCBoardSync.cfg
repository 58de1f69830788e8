SPECIFICATION FairSpec
CONSTANTS
    Browsers = {b1}
    Cli = cli
    Nobody = nobody
    MaxEdits = 2
    MaxMishaps = 2
INVARIANTS
    TypeOK
    OneBoardPerRevision
PROPERTIES
    StaleSavesAreRefused
    VisiblePagesCatchUp
CHECK_DEADLOCK FALSE
