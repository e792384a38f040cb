SPECIFICATION PanelSpec
CONSTANTS
    Request = {q1, q2}
    Proxy = proxy
    Server = {proxy, e1, e2}
    Port = {p1, p2}
    CascadeId = {i1, i2}
    Key = {k1, k2}
    Address = {h1, h2}
    Listen = {l1, l2}
    NoAwg = NoAwg
    MaxRequests = 3
SYMMETRY Interchangeable
INVARIANTS FileIsConsistent AloneAgrees
