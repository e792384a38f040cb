SPECIFICATION Spec
CONSTANTS
    Service = {wifi}
    Known = {n1}
    Late = {n2, n3}
    Gateway = {g1, g2}
    NoGateway = NoGateway
    Batch = 2
    Faults <- AllFaults
    MaxUps = 2
    MaxCrashes = 2
    MaxMoves = 1
SYMMETRY BothSymmetry
INVARIANTS Recorded FileSuffices BlockedIsBlocked OneGateway
PROPERTY LiftedOnRequest
