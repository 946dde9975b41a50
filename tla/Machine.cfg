SPECIFICATION PartsSpec
CONSTANTS
  Programs <- AssembledPrograms
  Lanes = 64
  Ids = {i1, i2}
  PathPrefixes = {{"app"}, {"fail", "app"}, {"hwm", "send", "recv", "down", "crash"}}
  MaxAttach = 3
  MaxEvents = 2
  MaxDepth = 3
  MaxKills = 1
  Actors = {a1, a2}
  MaxSends = 2
  MaxArmings = 3
  MaxNow = 1
  Waits = {0, 1}
  IntBits = 4
  Keys <- TableKeys
  Vals = {1, 2}
  MaxPairs = 4
  LeafWidth = 2
  MaxLen = 11
  Odd = {2, 7, 8, 9}
  MaxOdd = 1
  LowerIdents = {"x", "y", "f"}
  UpperIdents = {"A", "B", "List", "Map"}
  IntLits = {"1"}
  StrLits = {"s"}
  AtomLits = {"a"}
INVARIANTS AcceptedIsSafe
PROPERTIES MeansTheSame  ServesInOrder CollectionsHold ValueLaws ReadsBack NamesAgree
