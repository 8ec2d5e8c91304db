\* A family without begin_generate: every admission runs a whole generation.
SPECIFICATION Spec
CONSTANTS
  s0 = s0
  s1 = s1
  s2 = s2
  Slots <- ThreeSlots
  Tokens = {1}
  Prompts <- OnePrompt
  Budgets = {0, 2}
  Reuses = {0}
  MaxQueue = 2
  MaxJobs = 3
  MaxRejects = 1
  Stepwise = FALSE
  StepMayFail = TRUE
  MinCap = 8
  MaxSeq = 0
  Slack = 2
  Chunk = 1
INVARIANTS
  SchedulerInv
  QueueBound
