SPECIFICATION RepositorySpec
INVARIANT NoLateCallback
CONSTANTS
    ProxyObjs = {p1, p2, p3}
    ConnObjs = {c1, c2, c3}
    Names = {n1}
    Addrs = {a1, a2}
    Ports = {t1}
    Null = Null
SYMMETRY Symmetry
CHECK_DEADLOCK FALSE
