SPECIFICATION Spec
CONSTANTS
  a1 = a1
  a2 = a2
  c1 = c1
  c2 = c2
  c3 = c3
  r1 = r1
  r2 = r2
  Requests = {r1, r2}
  Agents = {a1, a2}
  Commissions = {c1, c2}
  Owner <- MCOwnerOfTwo
  Share <- MCShareOfTwo
  Sales = 1
  Amounts = {1}
  Disputed = {c1}
  PromptDispute = FALSE
  PromptResume = FALSE
  MaxBatches = 2
  MaxWithdrawals = 0
  MaxFailures = 1
INVARIANTS
  TypeOK
  OnePayoutEach
  PaidHasPayout
  PayoutsAreReserved
PROPERTIES
  EarningsMature
CHECK_DEADLOCK FALSE
