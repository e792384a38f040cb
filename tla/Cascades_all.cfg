SPECIFICATION Spec
CONSTANTS
    p1 = p1
    e1 = e1
    h1 = h1
    h2 = h2
    l1 = l1
    Id = {i1, i2}
    Exit = {e1, e2}
    Port = {p1, p2}
    Host = {h1, h2}
    Home <- AtHome
    Listen = {l1, l2}
    Foreign <- OneForeign
    NoPort = NoPort
    NoAwg = NoAwg
    MaxFailures = 1
    MaxMoves = 1
SYMMETRY IdSymmetry
INVARIANTS ForwardsMatch StatusTrue PortsDistinct
PROPERTY ForwardsKept
