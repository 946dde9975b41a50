SPECIFICATION Spec
CONSTANTS
    Actors = {a1, a2}
    Server = a1
    a1 = a1
    a2 = a2
    Reqs = {q1}
    q1 = q1
    Slots = 1
    MaxOps = 1
INVARIANTS OrphanTold
