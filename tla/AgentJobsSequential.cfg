SPECIFICATION Spec
CONSTANTS
  r1 = r1
  a1 = a1
  a2 = a2
  p1 = p1
  p2 = p2
  Requests = {r1}
  Timer = r1
  Agents = {a1, a2}
  PartyAgents = {}
  Silent = {a2}
  Proofs = {p1, p2}
  Parties = 2
  Limit = 3
  Reached = {"FUNDED", "COMPLETED"}
  MaxRequests = 5
  MaxFailures = 1
INVARIANTS
  NobodyIsAskedTwice
  AcceptedOfferHasAgent
CHECK_DEADLOCK FALSE
