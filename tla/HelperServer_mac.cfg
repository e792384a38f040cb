SPECIFICATION Spec
CONSTANTS
    Platform = "macos"
    Client = {c1, c2}
    Network = Network
    Domains = Domains
    Nobody = Nobody
    MaxUps = 2
    MaxRestarts = 1
SYMMETRY Symmetry
INVARIANTS
    CachedStatusTrue
    DownEndsEarlierUps
    CancelHeard
    OnlyOwnRoutes
PROPERTY CrashKeepsProtection KeepsPromise
