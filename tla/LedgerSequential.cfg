SPECIFICATION Spec
CONSTANTS
  a1 = a1
  a2 = a2
  c1 = c1
  c2 = c2
  c3 = c3
  r1 = r1
  Requests = {r1}
  Agents = {a1, a2}
  Commissions = {c1, c2, c3}
  Owner <- MCOwner
  Share <- MCShare
  Sales = 3
  Amounts = {1, 2}
  Disputed = {c1}
  PromptDispute = TRUE
  PromptResume = TRUE
  MaxBatches = 2
  MaxWithdrawals = 2
  MaxFailures = 0
INVARIANTS
  WalletMatches
  OnlySalesAreWithdrawn
  Reconciled
  BatchesTellTheirPayouts
CHECK_DEADLOCK FALSE
