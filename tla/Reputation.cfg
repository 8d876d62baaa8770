\* Three people in two operations, two requests in flight, three reviews.
SPECIFICATION Spec
CONSTANTS
  r1 = r1
  r2 = r2
  o1 = o1
  o2 = o2
  p1 = p1
  p2 = p2
  p3 = p3
  Requests = {r1, r2}
  People = {p1, p2, p3}
  Operations = {o1, o2}
  Party <- MCParty
  Ratings = {2, 5}
  Asked <- MCAsked
  RapidFire = 1
  Past = {o1}
  OneAtATime = TRUE
  MaxReviews = 3
SYMMETRY Symmetry
INVARIANT ReputationTellsHistory
CHECK_DEADLOCK FALSE
