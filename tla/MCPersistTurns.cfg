SPECIFICATION Spec
CONSTANTS
  Slots = {s1}
  Home = s1
  Tokens <- MCTokens
  Reuses <- MCReuses
  OneConversation = TRUE
  MaxLen = 4
  MaxFaults = 1
  Chunk = 1
  MinCap = 2
  MaxSeq = 1
  Slack = 1
INVARIANTS
  FileIsTranscript
  
  OnlyTheFileMisleads
