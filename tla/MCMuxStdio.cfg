\* Two ids over two slots, two scheduled requests, one or two places in the queue.
SPECIFICATION FairSpec
CONSTANTS
  s0 = s0
  s1 = s1
  a = a
  b = b
  Slots <- TwoSlots
  Ids <- TwoIds
  Requests = {1, 2}
  Tokens = {1}
  Budget = 2
  MaxQueue = 2
  NoRequest = 0
INVARIANTS
  JobsHaveFlights
PROPERTIES
  StashKept
  CancelledIsSilent
  KeepsProtocol
  DrainsAtEof
CHECK_DEADLOCK FALSE
