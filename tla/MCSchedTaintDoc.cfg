\* A forward step of Kimi K3 may fail half way.
SPECIFICATION Spec
CONSTANTS
  s0 = s0
  s1 = s1
  s2 = s2
  Slots <- OneSlot
  Tokens = {1, 2}
  Prompts <- Turns
  Budgets = {0, 2}
  Reuses = {0, 3}
  MaxQueue = 2
  MaxJobs = 3
  MaxRejects = 0
  Stepwise = TRUE
  StepMayFail = TRUE
  MinCap = 3
  MaxSeq = 0
  Slack = 1
  Chunk = 1
INVARIANTS
  ContextIsTranscript
