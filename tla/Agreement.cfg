\* Two people hold the link, two requests in flight, two of everything a sale may vary in.
SPECIFICATION Spec
CONSTANTS
  r1 = r1
  r2 = r2
  p1 = p1
  p2 = p2
  creator = creator
  asked = asked
  varied = varied
  cheap = cheap
  dear = dear
  buyer = buyer
  seller = seller
  Requests = {r1, r2}
  People = {p1, p2}
  Creator = creator
  Terms = {asked, varied}
  Prices = {cheap, dear}
  Payers = {buyer, seller}
  Proposal <- MCProposal
INVARIANTS
  TypeOK
  ConsentToTerms
  PendingShowsChanges
  AgreementIsComplete
PROPERTY JoinedStay
SYMMETRY Symmetry
CHECK_DEADLOCK FALSE
