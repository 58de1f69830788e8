SPECIFICATION Spec
CONSTANTS
    Browsers = {b1}
    Cli = cli
    Nobody = nobody
    MaxEdits = 2
    MaxMishaps = 0
PROPERTIES
    ConflictSyncsThePage
CHECK_DEADLOCK FALSE
