\* All handlers of a full escrow, one request at a time.
SPECIFICATION Spec
CONSTANTS
  r1 = r1
  d1 = d1
  d2 = d2
  Requests = {r1}
  Handlers <- AllHandlers
  FundingMode = "ESCROW_FULL"
  HoldCents = 4
  SellerNet = 3
  AgentFee = 2
  DisputeIds = {d1, d2}
  MaxNotices = 2
  MaxFailures = 0
INVARIANTS
  AgentBalancesMatch
  DisputedCanBeResolved
PROPERTIES
  ImplementsIdealEscrow
  NoReleaseWhileDisputed
CHECK_DEADLOCK FALSE
