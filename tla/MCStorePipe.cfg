SPECIFICATION LiveSpec
CONSTANTS
  NExperts = 4
  MaxRound = 3
  NoExpert = NoExpert
  NoSlot = NoSlot
  Torn = Torn
  Slots = {s1, s2}
  Experts <- MCExperts
  Registered <- MCPacked
  Rounds <- MCRounds
  Pipe = TRUE
  Grouped = TRUE
  MaxFaults = 2
INVARIANTS PinsAreLeases UnlockedLoadIsAlone PrefetchPaysOff NeverOutOfSlots
PROPERTIES LeasedSlotIsStable KeepsPromise RoundsEnd
