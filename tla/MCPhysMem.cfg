CONSTANTS
    e1 = e1
    e2 = e2
    e3 = e3
    p1 = p1
    p2 = p2
    p3 = p3
    p4 = p4
    p5 = p5
    va0 = va0
    va1 = va1
    va2 = va2
    pt1 = pt1
    pt2 = pt2
    dir = dir
    Null = Null
    Env = {e1, e2, e3}
    Page = {p1, p2, p3, p4, p5}
    NASID = 2
    Uva = {va0, va1}
    Pt = {pt1}
    Dir = dir
    PDX <- MCPDX1
    ZeroVa = va0
    Perms <- MCPerms
    RefMod = 4
SPECIFICATION Spec
SYMMETRY Interchangeable
INVARIANTS
    TypeOK
    FreeListSound
    RefExact
    TlbCoherent
CHECK_DEADLOCK FALSE
