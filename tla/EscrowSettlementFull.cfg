\* Checkouts, notices, releases, rejections and disputes about a full escrow, two requests
\* at a time, one failure.
SPECIFICATION Spec
CONSTANTS
  r1 = r1
  r2 = r2
  d1 = d1
  Requests = {r1, r2}
  Handlers <- FullEscrowHandlers
  FundingMode = "ESCROW_FULL"
  HoldCents = 4
  SellerNet = 3
  AgentFee = 2
  DisputeIds = {d1}
  MaxNotices = 2
  MaxFailures = 1
SYMMETRY Symmetry
INVARIANTS
  PaidAtMostOnce
  NothingUnpaid
CHECK_DEADLOCK FALSE
