\* Two agents; a split of the commission that rounding does not exhaust.
SPECIFICATION Spec
CONSTANTS
  a1 = a1
  a2 = a2
  Agents = {a1, a2}
  Terms <- MCTerms
  PlatformBps = 1333
  AgentBps = 8001
SYMMETRY Symmetry
INVARIANTS
  TypeOK
  HeldMatches
  WaitingIsUnmarked
  FundedMeansReceived
  SharesAddUp
CHECK_DEADLOCK FALSE
