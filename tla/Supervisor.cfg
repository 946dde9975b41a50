SPECIFICATION Spec
CONSTANTS
  Count = 2
  Transient = {2}
  MaxRestarts = 1
  Within = 2
  Clients = {c1}
  HWM = 1
  MaxPids = 4
  MaxTime = 2
INVARIANTS NobodyFallsUnnoticed StopIsOrderly RestartsAreBounded
PROPERTY StopEnds
