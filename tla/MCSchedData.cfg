\* One conversation slot, prompts that extend or contradict its history.
SPECIFICATION Spec
CONSTANTS
  s0 = s0
  s1 = s1
  s2 = s2
  Slots <- OneSlot
  Tokens = {1, 2}
  Prompts <- Turns
  Budgets = {0, 2}
  Reuses = {0, 3}
  MaxQueue = 2
  MaxJobs = 3
  MaxRejects = 0
  Stepwise = TRUE
  StepMayFail = FALSE
  MinCap = 3
  MaxSeq = 0
  Slack = 1
  Chunk = 1
INVARIANTS
  ContextIsTranscript
PROPERTIES
  HistoryByCompletion
