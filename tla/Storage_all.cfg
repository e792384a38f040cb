SPECIFICATION Spec
CONSTANTS
    Id = {i1, i2}
    Host = {h1, h2}
    Version = {1, 2}
    Absent = Absent
    None = None
    MaxBackups = 1
    MaxFailures = 2
SYMMETRY StorageSymmetry
INVARIANTS ReportedIsLoaded FiledHasSecret GoneIsForgotten
PROPERTY PreviousKept
