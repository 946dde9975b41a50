SPECIFICATION PartsSpec
CONSTANTS
  Jobs = {j1, j2}
  Nobody = Nobody
  MaxInterrupts = 1
  MaxEvents = 1
  Files = {"A", "B"}
  Text <- Say
  Texts = {1, 2, 3}
  Aliases = {"N"}
  MaxEdits = 2
  MaxHeld = 1
  MaxLoads = 3
INVARIANTS CodeIsWhole OneResult QueuedForItsInput
PROPERTY InterruptLands
