SPECIFICATION Spec
CONSTANTS
    Dest = {d0, d1, d2, d3}
    Known = {d1}
    Late = {d2, d3}
    MaxUps = 3
    MaxDeaths = 2
INVARIANTS StatusTrue NothingLeft RoutesMatch
PROPERTY StartKeepsProtection
