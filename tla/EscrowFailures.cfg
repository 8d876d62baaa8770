\* All handlers of an agent's operation, one request at a time, one of which may die half-way.
SPECIFICATION Spec
CONSTANTS
  r1 = r1
  d1 = d1
  Requests = {r1}
  Handlers <- AllHandlers
  FundingMode = "AGENT_FEE_ONLY"
  HoldCents = 4
  SellerNet = 3
  AgentFee = 2
  DisputeIds = {d1}
  MaxNotices = 2
  MaxFailures = 1
INVARIANTS
  CompletedIsDelivered
PROPERTIES
  StatusFollowsTable
  DecisionIsFinal
CHECK_DEADLOCK FALSE
