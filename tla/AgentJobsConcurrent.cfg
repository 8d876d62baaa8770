SPECIFICATION Spec
CONSTANTS
  r1 = r1
  r2 = r2
  a1 = a1
  a2 = a2
  p1 = p1
  p2 = p2
  Requests = {r1, r2}
  Timer = r2
  Agents = {a1, a2}
  PartyAgents = {}
  Silent = {a2}
  Proofs = {p1, p2}
  Parties = 2
  Limit = 3
  Reached = {"FUNDED"}
  MaxRequests = 2
  MaxFailures = 1
INVARIANTS
  TypeOK
  ProofSpentOnce
PROPERTIES
  MediatorsAreKept
  NoOfferPendsForever
CHECK_DEADLOCK FALSE
