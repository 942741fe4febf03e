SPECIFICATION Spec
CONSTANTS
    p1 = p1
    p2 = p2
    p3 = p3
    a = a
    b = b
    h1 = h1
    h2 = h2
    s1 = s1
    Procs = {p1, p2, p3}
    Names = {a, b, head}
    HEAD = head
    Hashes = {h1, h2}
    Syms = {s1}
    Inodes = {i1, i2, i3, i4, i5}
    PInodes = {k1, k2, k3, k4, k5, k6, k7}
    None = None
    Empty = Empty
    Garbage = Garbage
    Ok = Ok
    Err = Err
    Uses <- McRemoving
INVARIANTS
    LockedIsCurrent
