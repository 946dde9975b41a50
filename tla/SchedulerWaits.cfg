SPECIFICATION Spec
CONSTANTS
    MaxActors = 2
    MaxRefs = 2
    HWM = 2
    Quantum = 2
    MaxEnsure = 0
    Names = {}
    Msgs = {m}
    Reasons = {"stop"}
    Limited = {1}
    Port = "none"
    m = m
    Ops <- WaitOps
INVARIANTS TypeOK ReadyOnce NoLostWakeup SleeperHasTimer
