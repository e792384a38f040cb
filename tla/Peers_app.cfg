SPECIFICATION Spec
CONSTANTS
    Key = {k1, k2, k3}
    Foreign = {f1}
    Hosts = 2
    HasTable = TRUE
    NoKey = NoKey
    MaxFailures = 3
SYMMETRY KeySymmetry
INVARIANTS ListedWorks RevokedIsGone DistinctAddresses
