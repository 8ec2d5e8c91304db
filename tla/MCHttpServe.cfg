\* Two connections over two slots, two tokens each.
SPECIFICATION FairSpec
CONSTANTS
  s0 = s0
  s1 = s1
  h1 = h1
  h2 = h2
  Slots <- TwoSlots
  Handlers <- TwoHandlers
  Requests = {1, 2}
  Tokens = {1}
  Budget = 2
  MaxQueue = 2
  NoRequest = 0
  Nobody = Nobody
INVARIANTS
  JobsHaveHandlers
PROPERTIES
  KeepsExchange
  HandlersEnd
CHECK_DEADLOCK FALSE
