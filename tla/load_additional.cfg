SPECIFICATION LoadSpec
INVARIANT EveryConnectionLoaded
CONSTANTS
    ProxyObjs = {p1, p2, p3}
    ConnObjs = {c1, c2, c3, c4, c5}
    Names = {n1, n2}
    Addrs = {a1, a2, a3}
    Ports = {t1, t2}
    Null = Null
    Files <- MCFiles
    n1 = n1
    n2 = n2
    a1 = a1
    a2 = a2
    a3 = a3
    t1 = t1
    t2 = t2
CHECK_DEADLOCK FALSE
