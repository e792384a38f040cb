SPECIFICATION VaultSpec
CONSTANTS
    Profile = {a, b, c}
    Server = {s, t}
    Password = {p1, p2}
    Config = Config
    None = None
    NotLoaded = NotLoaded
    MaxFailures = 2
SYMMETRY Symmetry
INVARIANT ListedHasConf
PROPERTIES SavedIsKept NothingOverwritten
