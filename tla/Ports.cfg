SPECIFICATION FairSpec
CONSTANTS
    Actors = {a1, a2}
    Main = a1
    a1 = a1
    a2 = a2
    MaxPorts = 1
    Kinds = {"read", "write", "signal"}
    HWM = 2
    Sizes = {1, 2}
    MaxRequests = 2
    MaxWrites = 3
    MaxSignals = 2
INVARIANTS OneAnswerPerRequest PromiseMeansFull LiveWhileOwed PortsOfTheLiving AcceptedIsWritten
PROPERTIES ClosedIsSilent OwedIsAnswered EndsAll
