SPECIFICATION FairSpec
CONSTANTS
    MaxActors = 3
    MaxRefs = 0
    HWM = 1
    Quantum = 1
    MaxEnsure = 1
    Names = {}
    Msgs = {}
    Reasons = {"stop", "kill"}
    Limited = {}
    Port = "live"
    Ops <- SignalOps
INVARIANTS SignalAwake
PROPERTIES SignalsStand NoStarvation KillLands
