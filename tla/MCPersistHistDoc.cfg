SPECIFICATION Spec
CONSTANTS
  Slots = {s1, s2}
  Home = s1
  Tokens <- MCTokens
  Reuses <- MCReuses
  OneConversation = FALSE
  MaxLen = 3
  MaxFaults = 0
  Chunk = 1
  MinCap = 2
  MaxSeq = 1
  Slack = 1
INVARIANT ReopenFindsHist
