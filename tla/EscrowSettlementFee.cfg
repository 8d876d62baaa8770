\* Every way to settle an agent's operation, two requests at a time, one failure.
SPECIFICATION Spec
CONSTANTS
  r1 = r1
  r2 = r2
  d1 = d1
  Requests = {r1, r2}
  Handlers <- SettlementHandlers
  FundingMode = "AGENT_FEE_ONLY"
  HoldCents = 4
  SellerNet = 3
  AgentFee = 2
  DisputeIds = {d1}
  MaxNotices = 1
  MaxFailures = 1
SYMMETRY Symmetry
INVARIANTS
  TypeOK
  CompletedIsSettled
CHECK_DEADLOCK FALSE
