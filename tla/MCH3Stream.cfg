\* One layer more than the slots can keep, four steps, two faults.
SPECIFICATION LiveSpec
CONSTANTS
  s0 = s0
  s1 = s1
  Text = Text
  Ref = Ref
  NoModel = NoModel
  NoSlot = NoSlot
  NoBlock = NoBlock
  Torn = Torn
  Models <- Transformers
  Depth = 3
  Slots <- TwoSlots
  Usable <- FirstTwo
  Capacity = 1
  Steps = 4
  Requests <- Mixed
  MaxFaults = 2
INVARIANTS
  PinsAreTheLayer
  ModulationIsOfTheLayer
  ModulatedWhereUsable
  ReaderIsAlone
  ReuseIsTheLatest
PROPERTIES
  HeldBlockIsStable
  KeepsPromise
  GenerationsEnd
