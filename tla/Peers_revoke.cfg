SPECIFICATION Spec
CONSTANTS
    Key = {k1}
    Foreign = {}
    Hosts = 2
    HasTable = TRUE
    NoKey = NoKey
    MaxFailures = 1
INVARIANT RevokedHasNoAccess
