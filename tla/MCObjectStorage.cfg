SPECIFICATION FairSpec
CONSTANTS
    p1 = p1
    p2 = p2
    Procs = {p1, p2}
    Objects = {a, b}
    Reach = {a}
    Nil = Nil
    Uses <- McUses
INVARIANTS
    TypeOK
    Durable
    DurableAtRest
    PackIsIndexed
    LookupFinds
    IndexComplete
PROPERTIES
    OperationsReturn
