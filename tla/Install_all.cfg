SPECIFICATION ExitSpec
CONSTANTS
    MaxTries = 3
    MaxUpsets = 2
    MaxSent = 3
INVARIANTS
    RecordedRuns
    TotalsRight
PROPERTIES
    DoneMeansInstalled
    KeysSurvive
CHECK_DEADLOCK FALSE
