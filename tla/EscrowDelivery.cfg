\* The delivery handlers and timer jobs, two requests at a time, with fair scheduling.
SPECIFICATION FairSpec
CONSTANTS
  r1 = r1
  r2 = r2
  d1 = d1
  Requests = {r1, r2}
  Handlers <- DeliveryHandlers
  FundingMode = "AGENT_FEE_ONLY"
  HoldCents = 4
  SellerNet = 3
  AgentFee = 2
  DisputeIds = {d1}
  MaxNotices = 1
  MaxFailures = 0
PROPERTIES
  ImplementsIdealEscrow
  PaidGetsFunded
  OneConfirmationCompletes
CHECK_DEADLOCK FALSE
