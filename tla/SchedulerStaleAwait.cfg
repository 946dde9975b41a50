SPECIFICATION Spec
CONSTANTS
    MaxActors = 2
    MaxRefs = 1
    HWM = 1
    Quantum = 2
    MaxEnsure = 1
    Names = {}
    Msgs = {m}
    Reasons = {"stop"}
    Limited = {}
    Port = "none"
    m = m
    Ops <- UnwindWaitOps
INVARIANTS RecvWakes
