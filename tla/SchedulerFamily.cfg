SPECIFICATION Spec
CONSTANTS
    MaxActors = 3
    MaxRefs = 2
    HWM = 1
    Quantum = 1
    MaxEnsure = 0
    Names = {n}
    Msgs = {}
    Reasons = {"stop"}
    Limited = {}
    Port = "silent"
    n = n
    Ops <- FamilyOps
CONSTRAINT FewTies
INVARIANTS NoDangling
PROPERTIES ChildrenFall WatchesAnswered
