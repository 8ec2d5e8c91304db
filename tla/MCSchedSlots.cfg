\* Slot ownership, accounting, order and progress: three jobs over two slots, no data.
SPECIFICATION FairSpec
CONSTANTS
  s0 = s0
  s1 = s1
  s2 = s2
  Slots <- TwoSlots
  Tokens = {1}
  Prompts <- WithEmptyPrompt
  Budgets = {2}
  Reuses = {0}
  MaxQueue = 2
  MaxJobs = 3
  MaxRejects = 1
  Stepwise = TRUE
  StepMayFail = TRUE
  MinCap = 8
  MaxSeq = 0
  Slack = 2
  Chunk = 1
INVARIANTS
  SlotOwnership
  RunningIsLive
  NoOrphanGeneration
  Accounting
PROPERTIES
  KeepsPromise
  StoppedEndsDone
  EveryJobEnds
