-------------------------- MODULE AgreementProofs --------------------------
(***************************************************************************)
(* Theorems about OperationAgreement, for any number of people who hold    *)
(* the link, of requests in flight, of terms and of prices.                *)
(***************************************************************************)
EXTENDS OperationAgreement, TLAPS

----------------------------------------------------------------------------
(* The invariant behind the agreement.                                     *)

\* Nobody has answered the invitation yet.
Waiting == tx.status \in {"none", "WAITING_PARTICIPANT"}

\* A product, its owner, the instructions and the deadline are all there.
Complete ==
  /\ tx.product \in Products
  /\ tx.product.owner \in listed
  /\ tx.product.owner = Creator \/ Joined(tx.product.owner)
  /\ Joined(tx.side)
  /\ tx.deadline # "none"

\* What the buyer who has created the operation proposed.
Asked == Under(tx.mode, Proposal)

\* What the stored operation guarantees by itself.
Settled ==
  /\ tx.status = "none" => tx = NoOperation
  /\ Waiting => overtaken = {}
  /\ tx.status # "none" /\ tx.by = "BUYER" =>
       /\ Asked \in agreed
       /\ Waiting => tx.price = Asked.price /\ tx.payer = Asked.payer
  /\ tx.status # "none" /\ tx.by = "SELLER" =>
       /\ tx.product \in Products /\ tx.product.owner = Creator /\ Creator \in listed
       /\ tx.status # "PENDING_BUYER_CONFIRM" /\ overtaken = {}
  /\ ~Waiting => Complete

\* A buyer who accepts has agreed to what is offered, but for who pays the
\* commission; if that changes, it is to what another buyer has agreed to.
KnowsOffer(r) ==
  /\ tx.by = "SELLER"
  /\ req[r].offer \in agreed
  /\ req[r].offer.terms = tx.product.terms /\ req[r].offer.price = tx.price
  /\ req[r].payer = tx.payer \/ OnOffer \in agreed

\* A seller who confirms has a copy with the price the buyer proposed.
KnowsProposal(r) ==
  /\ tx.by = "BUYER"
  /\ req[r].version = tx.version => Waiting
  /\ req[r].price = Asked.price /\ req[r].payer = Asked.payer

\* What a request in flight knows about the operation when it saves.
Knows(r) ==
  /\ req[r].version <= tx.version
  /\ \A p \in People : In(req[r].parties, p) => Joined(p)
  /\ req[r].pc \notin {"idle", "create.tx"} => tx.status # "none"
  /\ req[r].pc = "create.tx" => Creator \in listed
  /\ req[r].pc \in {"join.save", "accept.mode", "accept.save", "sale.product", "sale.save"} =>
       req[r].who \in People
  /\ req[r].pc \in {"accept.mode", "accept.save"} => KnowsOffer(r)
  /\ req[r].pc \in {"sale.product", "sale.save"} => KnowsProposal(r)
  /\ req[r].pc = "sale.save" => req[r].who \in listed
  /\ req[r].pc \in {"confirm.save", "reject.save"} => ~Waiting
  /\ req[r].pc = "confirm.save" => BuyerAgrees

AgreementInv ==
  /\ TypeOK
  /\ Settled
  /\ ConsentToTerms
  /\ PendingShowsChanges
  /\ \A r \in Requests : Knows(r)

----------------------------------------------------------------------------
(* Participants.                                                           *)

\* Appending a person adds that person and drops nobody.
LEMMA AppendParty ==
  ASSUME NEW parties \in Seq(People), NEW p \in People
  PROVE  /\ Append(parties, p) \in Seq(People)
         /\ In(Append(parties, p), p)
         /\ \A q : In(parties, q) => In(Append(parties, p), q)
<1> DEFINE longer == Append(parties, p)
<1>1. longer \in Seq(People) /\ DOMAIN longer = 1..Len(parties) + 1
  OBVIOUS
<1>2. longer[Len(parties) + 1] = p /\ \A i \in 1..Len(parties) : longer[i] = parties[i]
  OBVIOUS
<1>3. DOMAIN parties = 1..Len(parties) /\ Len(parties) \in Nat
  OBVIOUS
<1>4. QED
  BY <1>1, <1>2, <1>3 DEF In

\* Whoever saves takes part afterwards, and whoever took part still does.
LEMMA PartyJoins ==
  ASSUME TypeOK, NEW r \in Requests, Knows(r), req[r].who \in People
  PROVE  /\ WithParty(r) \in Seq(People)
         /\ In(WithParty(r), req[r].who)
         /\ \A q : Joined(q) => In(WithParty(r), q)
<1>1. tx.parties \in Seq(People)
  BY DEF TypeOK, Operations
<1>2. CASE In(req[r].parties, req[r].who)
  BY <1>1, <1>2 DEF WithParty, Knows, Joined
<1>3. CASE ~In(req[r].parties, req[r].who)
  BY <1>1, <1>3, AppendParty DEF WithParty, Joined
<1>4. QED
  BY <1>2, <1>3

----------------------------------------------------------------------------
(* What no step undoes, and why the requests that do not move still know   *)
(* what they knew.                                                         *)

Grows ==
  /\ tx.version <= tx'.version
  /\ \A p : Joined(p) => Joined(p)'
  /\ listed \subseteq listed' /\ agreed \subseteq agreed'
  /\ tx.status # "none" => tx'.status # "none" /\ tx'.by = tx.by
  /\ ~Waiting => ~Waiting'
  /\ Waiting /\ ~Waiting' => tx.version < tx'.version
  /\ tx.status # "none" /\ tx.by = "BUYER" => tx'.mode = tx.mode
  /\ tx.status # "none" /\ tx.by = "SELLER" =>
       /\ tx'.product.terms = tx.product.terms /\ tx'.price = tx.price
       /\ tx'.payer = tx.payer \/ OnOffer' \in agreed'
  /\ ~Waiting /\ BuyerAgrees => BuyerAgrees'

\* An offer that somebody has agreed to is agreed to in every part.
LEMMA OfferAgreed ==
  ASSUME OnOffer \in agreed
  PROVE  BuyerAgrees
BY DEF BuyerAgrees, AgreedOn

\* What the buyer has agreed to stays agreed to while the offer stays the same.
LEMMA SameOffer ==
  ASSUME tx'.product.terms = tx.product.terms, tx'.price = tx.price,
         tx'.payer = tx.payer, agreed \subseteq agreed', overtaken' = overtaken
  PROVE  /\ OnOffer' = OnOffer
         /\ BuyerAgrees => BuyerAgrees'
<1>1. OnOffer' = OnOffer
  BY DEF OnOffer
<1>2. QED
  BY <1>1 DEF BuyerAgrees, AgreedOn

\* A request that does not move keeps its knowledge.
LEMMA StillKnows ==
  ASSUME TypeOK, TypeOK', Grows, NEW s \in Requests, Knows(s), req'[s] = req[s]
  PROVE  Knows(s)'
<1>1. tx.version \in Nat /\ tx'.version \in Nat /\ req[s].version \in Nat
  BY DEF TypeOK, Operations, RequestStates
<1>2. (req[s].version <= tx.version)'
  BY <1>1 DEF Knows, Grows
<1>3. (\A p \in People : In(req[s].parties, p) => Joined(p))'
  BY DEF Knows, Grows
<1>4. (/\ req[s].pc \notin {"idle", "create.tx"} => tx.status # "none"
       /\ req[s].pc = "create.tx" => Creator \in listed)'
  BY DEF Knows, Grows
<1>5. (req[s].pc \in {"accept.mode", "accept.save"} => KnowsOffer(s))'
  <2>1. SUFFICES ASSUME req[s].pc \in {"accept.mode", "accept.save"}
                 PROVE  KnowsOffer(s)'
    OBVIOUS
  <2>2. KnowsOffer(s) /\ tx.status # "none"
    BY <2>1 DEF Knows
  <2>3. /\ tx'.by = "SELLER" /\ agreed \subseteq agreed'
        /\ tx'.product.terms = tx.product.terms /\ tx'.price = tx.price
        /\ tx'.payer = tx.payer \/ OnOffer' \in agreed'
    BY <2>2 DEF KnowsOffer, Grows
  <2>4. tx'.payer = tx.payer => OnOffer' = OnOffer
    BY <2>3 DEF OnOffer
  <2>5. QED
    BY <2>2, <2>3, <2>4 DEF KnowsOffer
<1>6. (req[s].pc \in {"sale.product", "sale.save"} => KnowsProposal(s))'
  <2>1. SUFFICES ASSUME req[s].pc \in {"sale.product", "sale.save"}
                 PROVE  KnowsProposal(s)'
    OBVIOUS
  <2>2. KnowsProposal(s) /\ tx.status # "none" /\ req[s].version <= tx.version
    BY <2>1 DEF Knows
  <2>3. tx'.by = "BUYER" /\ tx'.mode = tx.mode
    BY <2>2 DEF KnowsProposal, Grows
  <2>4. req[s].version = tx'.version => Waiting'
    BY <1>1, <2>2 DEF KnowsProposal, Grows
  <2>5. QED
    BY <2>2, <2>3, <2>4 DEF KnowsProposal, Asked
<1>7. (req[s].pc = "sale.save" => req[s].who \in listed)'
  BY DEF Knows, Grows
<1>8. (/\ req[s].pc \in {"confirm.save", "reject.save"} => ~Waiting
       /\ req[s].pc = "confirm.save" => BuyerAgrees)'
  BY DEF Knows, Grows
<1>9. QED
  BY <1>2, <1>3, <1>4, <1>5, <1>6, <1>7, <1>8 DEF Knows

\* A free slot needs no knowledge.
LEMMA IdleKnows ==
  ASSUME TypeOK', NEW r \in Requests, req'[r] = IdleRequest
  PROVE  Knows(r)'
<1>1. tx'.version \in Nat /\ 0 <= tx'.version
  BY DEF TypeOK, Operations
<1>2. QED
  BY <1>1 DEF Knows, IdleRequest, In

\* A free slot is a well-formed request.
LEMMA IdleType == IdleRequest \in RequestStates
<1>1. <<>> \in Seq(People)
  OBVIOUS
<1>2. QED
  BY <1>1, ProposalAssumption
  DEF IdleRequest, RequestStates, Steps, Everybody, Modes, Answers, Offers

\* Putting a well-formed request in a slot keeps the slots well-formed and
\* leaves the others alone.
LEMMA SlotType ==
  ASSUME TypeOK, NEW r \in Requests, NEW request \in RequestStates,
         req' = [req EXCEPT ![r] = request]
  PROVE  /\ req' \in [Requests -> RequestStates]
         /\ req'[r] = request
         /\ \A s \in Requests : s # r => req'[s] = req[s]
  BY DEF TypeOK

\* A request that goes to its next step changes in nothing else.
LEMMA GotoType ==
  ASSUME TypeOK, NEW r \in Requests, NEW step \in Steps, Goto(r, step)
  PROVE  /\ req' \in [Requests -> RequestStates]
         /\ req'[r].pc = step
         /\ req'[r].who = req[r].who /\ req'[r].parties = req[r].parties
         /\ req'[r].version = req[r].version /\ req'[r].offer = req[r].offer
         /\ req'[r].price = req[r].price /\ req'[r].payer = req[r].payer
         /\ \A s \in Requests : s # r => req'[s] = req[s]
  BY DEF TypeOK, Goto, RequestStates

\* A handler that returns frees its slot and leaves the others alone.
LEMMA FinishType ==
  ASSUME TypeOK, NEW r \in Requests, Finish(r)
  PROVE  /\ req' \in [Requests -> RequestStates]
         /\ req'[r] = IdleRequest
         /\ \A s \in Requests : s # r => req'[s] = req[s]
  BY IdleType, SlotType DEF Finish

\* A step that stores nothing undoes nothing.
LEMMA NothingStored ==
  ASSUME TypeOK, tx' = tx, listed \subseteq listed', agreed \subseteq agreed',
         overtaken' = overtaken
  PROVE  /\ Grows
         /\ Settled => Settled'
         /\ ConsentToTerms => ConsentToTerms'
         /\ PendingShowsChanges => PendingShowsChanges'
<1>1. tx.version <= tx'.version
  BY DEF TypeOK, Operations
<1>2. Waiting' <=> Waiting
  BY DEF Waiting
<1>3. OnOffer' = OnOffer /\ Asked' = Asked /\ (BuyerAgrees => BuyerAgrees')
  BY SameOffer DEF Asked
<1>4. Grows
  BY <1>1, <1>2, <1>3 DEF Grows, Joined
<1>5. Settled => Settled'
  BY <1>2, <1>3 DEF Settled, Complete, Joined
<1>6. QED
  BY <1>3, <1>4, <1>5 DEF ConsentToTerms, PendingShowsChanges, Asked

\* The others still know what they knew; the rest is up to the request that moves.
LEMMA StepInv ==
  ASSUME AgreementInv, NEW r \in Requests, TypeOK', Grows, Knows(r)', Settled',
         ConsentToTerms', PendingShowsChanges',
         \A s \in Requests : s # r => req'[s] = req[s]
  PROVE  AgreementInv'
<1>1. \A s \in Requests : Knows(s)'
  BY StillKnows DEF AgreementInv
<1>2. QED
  BY <1>1 DEF AgreementInv

\* A step that stores nothing need only say what its request knows.
LEMMA ReadInv ==
  ASSUME AgreementInv, NEW r \in Requests, TypeOK', Knows(r)', tx' = tx,
         listed \subseteq listed', agreed \subseteq agreed', overtaken' = overtaken,
         \A s \in Requests : s # r => req'[s] = req[s]
  PROVE  AgreementInv'
<1>1. /\ Grows /\ Settled' /\ ConsentToTerms' /\ PendingShowsChanges'
  BY NothingStored DEF AgreementInv
<1>2. QED
  BY <1>1, StepInv

\* A step without a request of its own.
LEMMA WorldInv ==
  ASSUME AgreementInv, TypeOK', Grows, Settled', ConsentToTerms', PendingShowsChanges',
         req' = req
  PROVE  AgreementInv'
<1>1. \A s \in Requests : Knows(s)'
  BY StillKnows DEF AgreementInv
<1>2. QED
  BY <1>1 DEF AgreementInv

\* What the operation says changes in the link, the deadline or the reminder
\* only, or in the way a buyer who accepts will pay.
LEMMA SideFieldInv ==
  ASSUME AgreementInv, tx.status # "none", tx' \in Operations,
         tx'.status = tx.status, tx'.by = tx.by, tx'.parties = tx.parties,
         tx'.side = tx.side, tx'.product = tx.product, tx'.changes = tx.changes,
         tx'.version = tx.version, tx.deadline # "none" => tx'.deadline # "none",
         tx'.price = tx.price, tx'.payer = tx.payer,
         tx'.mode = tx.mode \/ tx.by = "SELLER",
         UNCHANGED <<listed, agreed, overtaken>>
  PROVE  Grows /\ Settled' /\ ConsentToTerms' /\ PendingShowsChanges'
<1>1. tx.version <= tx'.version
  BY DEF AgreementInv, TypeOK, Operations
<1>2. (Waiting' <=> Waiting) /\ \A p : Joined(p)' <=> Joined(p)
  BY DEF Waiting, Joined
<1>3. OnOffer' = OnOffer /\ (BuyerAgrees => BuyerAgrees')
  BY SameOffer
<1>4. tx.by = "SELLER" \/ Asked' = Asked
  BY DEF Asked
<1>5. tx.by \in {"BUYER", "SELLER"}
  BY DEF AgreementInv, TypeOK, Operations, Initiators
<1>6. Grows
  BY <1>1, <1>2, <1>3, <1>5 DEF Grows
<1>7. Settled'
  BY <1>2, <1>4, <1>5 DEF AgreementInv, Settled, Complete
<1>8. PendingShowsChanges'
  BY <1>3, <1>4 DEF AgreementInv, Settled, PendingShowsChanges, Asked
<1>9. QED
  BY <1>3, <1>6, <1>7, <1>8 DEF AgreementInv, ConsentToTerms

----------------------------------------------------------------------------
(* Creation and invitation.                                                *)

\* Before creation there is a well-formed operation without status.
LEMMA NoOperationType == NoOperation \in Operations
<1>1. <<>> \in Seq(People)
  OBVIOUS
<1>2. QED
  BY <1>1 DEF NoOperation, Operations, Initiators, Modes

\* What a sale offers under a mode is well-formed.
LEMMA UnderType ==
  ASSUME NEW mode \in Modes, NEW offer \in FullOffers
  PROVE  Under(mode, offer) \in Offers
BY DEF Under, FullOffers, Offers

\* What create stores is well-formed.
LEMMA CreatedType ==
  ASSUME NEW by \in Initiators, NEW mode \in Modes,
         NEW product \in Products \cup {NoProduct}, NEW offer \in Offers
  PROVE  /\ Created(by, mode, product, offer) \in Operations
         /\ Created(by, mode, product, offer).status = "WAITING_PARTICIPANT"
         /\ Created(by, mode, product, offer).by = by
         /\ Created(by, mode, product, offer).mode = mode
         /\ Created(by, mode, product, offer).product = product
         /\ Created(by, mode, product, offer).price = offer.price
         /\ Created(by, mode, product, offer).payer = offer.payer
         /\ Created(by, mode, product, offer).version = 0
         /\ Created(by, mode, product, offer).parties = <<>>
<1>1. offer.price \in Prices \cup {"none"} /\ offer.payer \in Payers \cup {"none"}
  BY DEF Offers
<1>2. "WAITING_PARTICIPANT" \in Machine!Statuses \cup {"none"}
  BY DEF Machine!Statuses
<1>3. NoOperation.version = 0 /\ NoOperation.parties = <<>>
  BY DEF NoOperation
<1>4. QED
  BY <1>1, <1>2, <1>3, NoOperationType DEF Created, Operations

\* A buyer's operation starts with the buyer's own proposal agreed.
LEMMA BuyerCreates ==
  ASSUME AgreementInv, NEW mode \in Modes, CreateAsBuyer(mode)
  PROVE  AgreementInv'
<1> DEFINE offer == Under(mode, Proposal)
<1>1. offer \in Offers
  BY ProposalAssumption, UnderType DEF FullOffers
<1>2. tx' = Created("BUYER", mode, NoProduct, offer) /\ agreed' = agreed \cup {offer}
      /\ UNCHANGED <<listed, ask, overtaken, req>>
  BY DEF CreateAsBuyer
<1>3. offer = Under(mode, Proposal)
  OBVIOUS
<1> HIDE DEF offer
<1>4. /\ tx' \in Operations
      /\ tx'.status = "WAITING_PARTICIPANT" /\ tx'.by = "BUYER" /\ tx'.mode = mode
      /\ tx'.price = offer.price /\ tx'.payer = offer.payer
      /\ tx'.version = 0 /\ tx'.parties = <<>>
  BY <1>1, <1>2, CreatedType DEF Initiators
<1>5. TypeOK'
  BY <1>1, <1>2, <1>4 DEF AgreementInv, TypeOK
<1>6. tx = NoOperation /\ overtaken = {}
  BY DEF AgreementInv, Settled, CreateAsBuyer, Waiting
<1>7. Grows
  BY <1>2, <1>4, <1>6 DEF Grows, NoOperation, Joined, In, Waiting
<1>8. Asked' = offer
  BY <1>3, <1>4 DEF Asked
<1>9. Settled' /\ ConsentToTerms' /\ PendingShowsChanges'
  BY <1>2, <1>4, <1>6, <1>8 DEF Settled, Waiting, ConsentToTerms, PendingShowsChanges
<1>10. QED
  BY <1>2, <1>5, <1>7, <1>9, WorldInv

\* A seller's product is listed before the operation exists.
LEMMA SellerLists ==
  ASSUME AgreementInv, NEW r \in Requests, NEW mode \in Modes, NEW offer \in FullOffers,
         StartCreateAsSeller(r, mode, offer)
  PROVE  AgreementInv'
<1> DEFINE shown == Under(mode, offer)
           request == [IdleRequest EXCEPT !.pc = "create.tx", !.offer = shown, !.mode = mode]
<1>1. shown \in Offers
  BY UnderType
<1>2. Begin(r, request)
  BY DEF StartCreateAsSeller
<1> HIDE DEF shown
<1>3. request \in RequestStates /\ request.pc = "create.tx" /\ request.version = 0
      /\ request.parties = <<>>
  BY <1>1, IdleType DEF RequestStates, Steps, IdleRequest
<1>4. /\ req' \in [Requests -> RequestStates] /\ req'[r] = request
      /\ \A s \in Requests : s # r => req'[s] = req[s]
  BY <1>2, <1>3, SlotType DEF AgreementInv, Begin
<1>5. TypeOK'
  BY <1>4 DEF AgreementInv, TypeOK, StartCreateAsSeller, Everybody
<1>6. Knows(r)'
  BY <1>3, <1>4, <1>5 DEF Knows, StartCreateAsSeller, In, TypeOK, Operations
<1>7. QED
  BY <1>4, <1>5, <1>6, ReadInv DEF StartCreateAsSeller

\* A seller's operation sells the seller's own product.
LEMMA SellerCreates ==
  ASSUME AgreementInv, NEW r \in Requests, CreateSellerTx(r)
  PROVE  AgreementInv'
<1> DEFINE product == [owner |-> Creator, terms |-> req[r].offer.terms]
<1>1. req[r].offer \in Offers /\ req[r].mode \in Modes /\ Creator \in listed
  BY DEF AgreementInv, TypeOK, RequestStates, CreateSellerTx, At, Knows
<1>2. product \in Products /\ product.owner = Creator
  BY <1>1 DEF Products, Everybody, Offers
<1>3. tx' = Created("SELLER", req[r].mode, product, req[r].offer)
  BY DEF CreateSellerTx
<1> HIDE DEF product
<1>4. /\ tx' \in Operations
      /\ tx'.status = "WAITING_PARTICIPANT" /\ tx'.by = "SELLER" /\ tx'.version = 0
      /\ tx'.parties = <<>> /\ tx'.product = product
  BY <1>1, <1>2, <1>3, CreatedType DEF Initiators
<1>5. /\ req' \in [Requests -> RequestStates] /\ req'[r] = IdleRequest
      /\ \A s \in Requests : s # r => req'[s] = req[s]
  BY FinishType DEF AgreementInv, CreateSellerTx
<1>6. TypeOK'
  BY <1>4, <1>5 DEF AgreementInv, TypeOK, CreateSellerTx
<1>7. tx = NoOperation /\ overtaken = {}
  BY DEF AgreementInv, Settled, CreateSellerTx, Waiting
<1>8. Grows
  BY <1>4, <1>7 DEF Grows, NoOperation, Joined, In, Waiting, CreateSellerTx
<1>9. Settled' /\ ConsentToTerms' /\ PendingShowsChanges'
  BY <1>1, <1>2, <1>4, <1>7
  DEF Settled, Waiting, ConsentToTerms, PendingShowsChanges, CreateSellerTx
<1>10. QED
  BY <1>5, <1>6, <1>8, <1>9, StepInv, IdleKnows

\* Expiry of the link or of the deadline tells the requests nothing new.
LEMMA TimePasses ==
  ASSUME AgreementInv, LinkExpires \/ DeadlinePasses
  PROVE  AgreementInv'
<1>1. tx \in Operations
  BY DEF AgreementInv, TypeOK
<1>2. /\ tx' \in Operations
      /\ tx'.status = tx.status /\ tx'.by = tx.by /\ tx'.parties = tx.parties
      /\ tx'.side = tx.side /\ tx'.product = tx.product /\ tx'.changes = tx.changes
      /\ tx'.version = tx.version /\ (tx.deadline # "none" => tx'.deadline # "none")
      /\ tx'.price = tx.price /\ tx'.payer = tx.payer /\ tx'.mode = tx.mode
  BY <1>1 DEF LinkExpires, DeadlinePasses, Operations
<1>3. UNCHANGED <<listed, ask, agreed, overtaken, req>> /\ tx.status # "none"
  BY DEF LinkExpires, DeadlinePasses, AgreementInv, Settled, NoOperation
<1>4. TypeOK'
  BY <1>2, <1>3 DEF AgreementInv, TypeOK
<1>5. QED
  BY <1>2, <1>3, <1>4, SideFieldInv, WorldInv

----------------------------------------------------------------------------
(* The handlers after creation: one lemma per handler, one step per action. *)

\* What a request that starts needs: a well-formed copy, nothing newer than
\* what is stored.
LEMMA BeginInv ==
  ASSUME AgreementInv, NEW r \in Requests, NEW request \in RequestStates,
         Begin(r, request), tx' = tx, listed' = listed, ask' = ask,
         agreed \subseteq agreed', agreed' \subseteq Offers, overtaken' = overtaken,
         req' \in [Requests -> RequestStates] /\ req'[r] = request => Knows(r)'
  PROVE  AgreementInv'
<1>1. /\ req' \in [Requests -> RequestStates] /\ req'[r] = request
      /\ \A s \in Requests : s # r => req'[s] = req[s]
  BY SlotType DEF AgreementInv, Begin
<1>2. TypeOK'
  BY <1>1 DEF AgreementInv, TypeOK
<1>3. QED
  BY <1>1, <1>2, ReadInv

\* A request that goes on without a change of the operation knows what it knew
\* about its own copy.
LEMMA GotoKnows ==
  ASSUME TypeOK, TypeOK', NEW r \in Requests, NEW step \in Steps, Goto(r, step),
         tx'.version = tx.version, tx'.parties = tx.parties, Knows(r)
  PROVE  /\ (req[r].version <= tx.version)'
         /\ (\A p \in People : In(req[r].parties, p) => Joined(p))'
BY GotoType DEF Knows, Joined

\* The invitation is renewed.
LEMMA RefreshInv ==
  ASSUME AgreementInv, NEW r \in Requests, StartRefresh(r) \/ RefreshInvite(r)
  PROVE  AgreementInv'
<1>1. CASE StartRefresh(r)
  <2> DEFINE request == [IdleRequest EXCEPT !.pc = "refresh.save"]
  <2>1. /\ request \in RequestStates /\ request.pc = "refresh.save"
        /\ request.parties = <<>> /\ request.version = 0
    BY IdleType DEF RequestStates, Steps, IdleRequest
  <2>2. tx'.version \in Nat /\ tx'.status # "none"
    BY <1>1 DEF AgreementInv, TypeOK, Operations, StartRefresh
  <2>3. req'[r] = request => Knows(r)'
    BY <2>1, <2>2 DEF Knows, In
  <2>4. QED
    BY <1>1, <2>1, <2>3, BeginInv DEF StartRefresh, AgreementInv, TypeOK
<1>2. CASE RefreshInvite(r)
  <2>1. /\ req' \in [Requests -> RequestStates] /\ req'[r] = IdleRequest
        /\ \A s \in Requests : s # r => req'[s] = req[s]
    BY <1>2, FinishType DEF AgreementInv, RefreshInvite
  <2>2. tx \in Operations /\ tx.status # "none"
    BY <1>2 DEF AgreementInv, TypeOK, Knows, RefreshInvite, At
  <2>3. /\ tx' \in Operations
        /\ tx'.status = tx.status /\ tx'.by = tx.by /\ tx'.parties = tx.parties
        /\ tx'.side = tx.side /\ tx'.product = tx.product /\ tx'.changes = tx.changes
        /\ tx'.version = tx.version /\ tx'.deadline = tx.deadline
        /\ tx'.price = tx.price /\ tx'.payer = tx.payer /\ tx'.mode = tx.mode
    BY <1>2, <2>2 DEF RefreshInvite, Operations
  <2>4. TypeOK'
    BY <1>2, <2>1, <2>3 DEF AgreementInv, TypeOK, RefreshInvite
  <2>5. Grows /\ Settled' /\ ConsentToTerms' /\ PendingShowsChanges'
    BY <1>2, <2>2, <2>3, SideFieldInv DEF RefreshInvite
  <2>6. QED
    BY <2>1, <2>4, <2>5, IdleKnows, StepInv
<1>3. QED
  BY <1>1, <1>2

\* The reminder of a deadline that has passed.
LEMMA RemindInv ==
  ASSUME AgreementInv, NEW r \in Requests, StartRemind(r) \/ RemindSave(r)
  PROVE  AgreementInv'
<1>1. CASE StartRemind(r)
  <2> DEFINE request == [IdleRequest EXCEPT !.pc = "remind.save"]
  <2>1. /\ request \in RequestStates /\ request.pc = "remind.save"
        /\ request.parties = <<>> /\ request.version = 0
    BY IdleType DEF RequestStates, Steps, IdleRequest
  <2>2. tx'.version \in Nat /\ tx'.status # "none"
    BY <1>1 DEF AgreementInv, TypeOK, Operations, StartRemind
  <2>3. req'[r] = request => Knows(r)'
    BY <2>1, <2>2 DEF Knows, In
  <2>4. QED
    BY <1>1, <2>1, <2>3, BeginInv DEF StartRemind, AgreementInv, TypeOK
<1>2. CASE RemindSave(r)
  <2>1. /\ req' \in [Requests -> RequestStates] /\ req'[r] = IdleRequest
        /\ \A s \in Requests : s # r => req'[s] = req[s]
    BY <1>2, FinishType DEF AgreementInv, RemindSave
  <2>2. tx \in Operations /\ tx.status # "none"
    BY <1>2 DEF AgreementInv, TypeOK, Knows, RemindSave, At
  <2>3. /\ tx' \in Operations
        /\ tx'.status = tx.status /\ tx'.by = tx.by /\ tx'.parties = tx.parties
        /\ tx'.side = tx.side /\ tx'.product = tx.product /\ tx'.changes = tx.changes
        /\ tx'.version = tx.version /\ tx'.deadline = tx.deadline
        /\ tx'.price = tx.price /\ tx'.payer = tx.payer /\ tx'.mode = tx.mode
    BY <1>2, <2>2 DEF RemindSave, Operations
  <2>4. TypeOK'
    BY <1>2, <2>1, <2>3 DEF AgreementInv, TypeOK, RemindSave
  <2>5. Grows /\ Settled' /\ ConsentToTerms' /\ PendingShowsChanges'
    BY <1>2, <2>2, <2>3, SideFieldInv DEF RemindSave
  <2>6. QED
    BY <2>1, <2>4, <2>5, IdleKnows, StepInv
<1>3. QED
  BY <1>1, <1>2

\* A seller joins a buyer's operation.
LEMMA JoinInv ==
  ASSUME AgreementInv, NEW r \in Requests,
         JoinSave(r) \/ \E p \in People : StartJoin(r, p)
  PROVE  AgreementInv'
<1>1. ASSUME NEW p \in People, StartJoin(r, p) PROVE AgreementInv'
  <2> DEFINE request == [IdleRequest EXCEPT !.pc = "join.save", !.who = p]
  <2>1. /\ request \in RequestStates /\ request.pc = "join.save" /\ request.who = p
        /\ request.parties = <<>> /\ request.version = 0
    BY IdleType DEF RequestStates, Steps, IdleRequest, Everybody
  <2>2. tx'.version \in Nat /\ tx'.status # "none"
    BY <1>1 DEF AgreementInv, TypeOK, Operations, StartJoin
  <2>3. req'[r] = request => Knows(r)'
    BY <2>1, <2>2 DEF Knows, In
  <2>4. QED
    BY <1>1, <2>1, <2>3, BeginInv DEF StartJoin, AgreementInv, TypeOK
<1>2. CASE JoinSave(r)
  <2>1. /\ req' \in [Requests -> RequestStates] /\ req'[r] = IdleRequest
        /\ \A s \in Requests : s # r => req'[s] = req[s]
    BY <1>2, FinishType DEF AgreementInv, JoinSave
  <2>2. tx \in Operations /\ tx.status # "none" /\ req[r].who \in People
    BY <1>2 DEF AgreementInv, TypeOK, Knows, JoinSave, At
  <2>3. tx.parties \in Seq(People) /\ tx.version \in Nat
    BY <2>2 DEF Operations
  <2>4. /\ tx'.status = tx.status /\ tx'.by = tx.by /\ tx'.side = tx.side
        /\ tx'.product = tx.product /\ tx'.changes = tx.changes
        /\ tx'.version = tx.version + 1 /\ tx'.deadline = tx.deadline
        /\ tx'.parties = Append(tx.parties, req[r].who)
        /\ tx'.price = tx.price /\ tx'.payer = tx.payer /\ tx'.mode = tx.mode
    BY <1>2, <2>2 DEF JoinSave, Operations
  <2>5. tx' \in Operations
    <3> DEFINE parties == Append(tx.parties, req[r].who)
               version == tx.version + 1
    <3>1. parties \in Seq(People) /\ version \in Nat
      BY <2>2, <2>3, AppendParty
    <3>2. tx' = [tx EXCEPT !.parties = parties, !.version = version]
      BY <1>2 DEF JoinSave
    <3> HIDE DEF parties, version
    <3>3. QED
      BY <2>2, <3>1, <3>2 DEF Operations
  <2>6. TypeOK'
    BY <1>2, <2>1, <2>5 DEF AgreementInv, TypeOK, JoinSave
  <2>7. \A p : Joined(p) => Joined(p)'
    BY <2>2, <2>3, <2>4, AppendParty DEF Joined
  <2>8. (Waiting' <=> Waiting) /\ tx.version <= tx'.version
    BY <2>3, <2>4 DEF Waiting
  <2>9. OnOffer' = OnOffer /\ Asked' = Asked /\ (BuyerAgrees => BuyerAgrees')
    BY <1>2, <2>4, SameOffer DEF JoinSave, Asked
  <2>10. Grows
    BY <1>2, <2>2, <2>4, <2>7, <2>8, <2>9 DEF Grows, JoinSave
  <2>11. Settled'
    BY <1>2, <2>2, <2>4, <2>7, <2>8, <2>9 DEF AgreementInv, Settled, Complete, JoinSave
  <2>12. ConsentToTerms' /\ PendingShowsChanges'
    BY <2>4, <2>9 DEF AgreementInv, ConsentToTerms, PendingShowsChanges, Asked
  <2>13. QED
    BY <2>1, <2>6, <2>10, <2>11, <2>12, IdleKnows, StepInv
<1>3. QED
  BY <1>1, <1>2

\* A buyer accepts the offer of a seller.
LEMMA AcceptInv ==
  ASSUME AgreementInv, NEW r \in Requests,
         \/ AcceptMode(r) \/ AcceptSave(r)
         \/ \E p \in People, mode \in Modes, payer \in Payers \cup {"none"} :
              StartAccept(r, p, mode, payer)
  PROVE  AgreementInv'
<1>1. ASSUME NEW p \in People, NEW mode \in Modes, NEW payer \in Payers \cup {"none"},
             StartAccept(r, p, mode, payer)
      PROVE  AgreementInv'
  <2> DEFINE step == IF mode = tx.mode THEN "accept.save" ELSE "accept.mode"
             offer == [OnOffer EXCEPT !.payer = payer]
             request == [IdleRequest EXCEPT !.pc = step, !.who = p, !.parties = tx.parties,
                                            !.mode = mode, !.payer = tx.payer,
                                            !.offer = offer]
  <2>1. /\ tx.parties \in Seq(People) /\ tx.version \in Nat
        /\ tx.status = "WAITING_PARTICIPANT" /\ tx.by = "SELLER" /\ tx' = tx
        /\ tx.product \in Products /\ tx.price \in Prices \cup {"none"}
        /\ tx.payer \in Payers \cup {"none"}
    BY <1>1 DEF AgreementInv, TypeOK, Operations, StartAccept, Settled
  <2>2. step \in {"accept.save", "accept.mode"}
    OBVIOUS
  <2>3. /\ offer \in Offers /\ offer.terms = tx.product.terms
        /\ offer.price = tx.price
    BY <2>1 DEF OnOffer, Offers, Products
  <2>4. Begin(r, request) /\ agreed' = agreed \cup {offer}
        /\ UNCHANGED <<tx, listed, ask, overtaken>>
    BY <1>1 DEF StartAccept
  <2> HIDE DEF step, offer
  <2>5. /\ request \in RequestStates /\ request.pc = step /\ request.who = p
        /\ request.parties = tx.parties /\ request.version = 0
        /\ request.offer = offer /\ request.payer = tx.payer
    BY <2>1, <2>2, <2>3, IdleType DEF RequestStates, Steps, IdleRequest, Everybody
  <2>6. agreed \subseteq agreed' /\ agreed' \subseteq Offers
    BY <2>3, <2>4 DEF AgreementInv, TypeOK
  <2>7. req'[r] = request => Knows(r)'
    <3> HIDE DEF request
    <3>1. req'[r] = request => KnowsOffer(r)'
      BY <2>1, <2>3, <2>4, <2>5 DEF KnowsOffer
    <3>2. QED
      BY <2>1, <2>2, <2>5, <3>1 DEF Knows, Joined
  <2>8. QED
    BY <2>4, <2>5, <2>6, <2>7, BeginInv
<1>2. CASE AcceptMode(r)
  <2>1. /\ req[r].mode \in Modes /\ tx \in Operations /\ Knows(r) /\ "accept.save" \in Steps
    BY DEF AgreementInv, TypeOK, RequestStates, Steps
  <2>2. /\ req' \in [Requests -> RequestStates] /\ req'[r].pc = "accept.save"
        /\ req'[r].who = req[r].who /\ req'[r].offer = req[r].offer
        /\ req'[r].payer = req[r].payer
        /\ \A s \in Requests : s # r => req'[s] = req[s]
    BY <1>2, <2>1, GotoType DEF AgreementInv, AcceptMode
  <2>3. /\ tx' \in Operations
        /\ tx'.status = tx.status /\ tx'.by = tx.by /\ tx'.parties = tx.parties
        /\ tx'.side = tx.side /\ tx'.product = tx.product /\ tx'.changes = tx.changes
        /\ tx'.version = tx.version /\ tx'.deadline = tx.deadline
        /\ tx'.price = tx.price /\ tx'.payer = tx.payer
    BY <1>2, <2>1 DEF AcceptMode, Operations
  <2>4. TypeOK'
    BY <1>2, <2>2, <2>3 DEF AgreementInv, TypeOK, AcceptMode
  <2>5. tx.status # "none" /\ KnowsOffer(r) /\ tx.by = "SELLER"
    BY <1>2, <2>1 DEF Knows, KnowsOffer, AcceptMode, At
  <2>6. Grows /\ Settled' /\ ConsentToTerms' /\ PendingShowsChanges'
    BY <1>2, <2>3, <2>5, SideFieldInv DEF AcceptMode
  <2>7. Knows(r)'
    <3>1. /\ (req[r].version <= tx.version)'
          /\ (\A p \in People : In(req[r].parties, p) => Joined(p))'
      BY <1>2, <2>1, <2>3, <2>4, GotoKnows DEF AgreementInv, AcceptMode
    <3>2. OnOffer' = OnOffer
      BY <2>3 DEF OnOffer
    <3>3. KnowsOffer(r)'
      BY <1>2, <2>2, <2>3, <2>5, <3>2 DEF KnowsOffer, AcceptMode
    <3>4. QED
      BY <1>2, <2>1, <2>2, <2>3, <2>5, <3>1, <3>3 DEF Knows, AcceptMode, At
  <2>8. QED
    BY <2>2, <2>4, <2>6, <2>7, StepInv
<1>3. CASE AcceptSave(r)
  <2>1. /\ req' \in [Requests -> RequestStates] /\ req'[r] = IdleRequest
        /\ \A s \in Requests : s # r => req'[s] = req[s]
    BY <1>3, FinishType DEF AgreementInv, AcceptSave
  <2>2. /\ tx \in Operations /\ tx.version \in Nat /\ tx.status # "none" /\ tx.by = "SELLER"
        /\ req[r].who \in People /\ KnowsOffer(r) /\ req[r].offer \in Offers
        /\ tx.product \in Products /\ tx.product.owner = Creator /\ Creator \in listed
        /\ overtaken = {} /\ tx.payer \in Payers \cup {"none"}
    BY <1>3
    DEF AgreementInv, TypeOK, Knows, KnowsOffer, AcceptSave, At, Operations, RequestStates,
        Settled
  <2> DEFINE parties == WithParty(r)
             version == tx.version + 1
             payer == Kept(tx.payer, req[r].payer, req[r].offer.payer)
  <2>3. /\ parties \in Seq(People) /\ version \in Nat /\ In(parties, req[r].who)
        /\ \A q : Joined(q) => In(parties, q)
    BY <1>3, <2>2, PartyJoins DEF AgreementInv
  <2>4. /\ tx' = [tx EXCEPT !.parties = parties, !.side = req[r].who, !.payer = payer,
                            !.deadline = "set", !.status = "ACCEPTED", !.version = version]
        /\ version > tx.version /\ UNCHANGED <<listed, ask, agreed, overtaken>>
    BY <1>3, <2>2 DEF AcceptSave
  <2>5. /\ payer \in Payers \cup {"none"}
        /\ \/ payer = tx.payer /\ req[r].payer = req[r].offer.payer
           \/ payer = req[r].offer.payer
    BY <2>2 DEF Kept, Offers
  <2> HIDE DEF parties, version, payer
  <2>6. tx' \in Operations
    BY <2>2, <2>3, <2>4, <2>5 DEF Operations, Machine!Statuses
  <2>7. /\ tx'.status = "ACCEPTED" /\ tx'.by = tx.by /\ tx'.parties = parties
        /\ tx'.side = req[r].who /\ tx'.product = tx.product /\ tx'.deadline = "set"
        /\ tx'.version = version /\ tx'.price = tx.price /\ tx'.payer = payer
    BY <2>2, <2>4 DEF Operations
  <2>8. TypeOK'
    BY <2>1, <2>4, <2>6 DEF AgreementInv, TypeOK
  <2>9. \A p : Joined(p) => Joined(p)'
    BY <2>3, <2>7 DEF Joined
  <2>10. tx.version < tx'.version /\ tx.version <= tx'.version
    BY <2>2, <2>3, <2>4, <2>7
  <2>11. ~Waiting'
    BY <2>7 DEF Waiting
  <2>12. OnOffer' \in agreed'
    <3>1. CASE payer = req[r].offer.payer
      <4>1. OnOffer' = req[r].offer
        BY <2>2, <2>7, <3>1 DEF OnOffer, KnowsOffer, Offers
      <4>2. QED
        BY <2>2, <2>4, <4>1 DEF KnowsOffer
    <3>2. CASE payer = tx.payer /\ tx.payer # req[r].payer
      <4>1. OnOffer' = OnOffer
        BY <2>7, <3>2 DEF OnOffer
      <4>2. QED
        BY <2>2, <2>4, <3>2, <4>1 DEF KnowsOffer
    <3>3. QED
      BY <2>5, <3>1, <3>2
  <2>13. BuyerAgrees'
    BY <2>12 DEF BuyerAgrees, AgreedOn
  <2>14. Grows
    BY <2>2, <2>4, <2>7, <2>9, <2>10, <2>11, <2>12, <2>13 DEF Grows
  <2>15. Complete'
    BY <2>2, <2>3, <2>4, <2>7 DEF Complete, Joined
  <2>16. Settled' /\ ConsentToTerms' /\ PendingShowsChanges'
    BY <2>2, <2>4, <2>7, <2>11, <2>13, <2>15
    DEF Settled, ConsentToTerms, PendingShowsChanges
  <2>17. QED
    BY <2>1, <2>8, <2>14, <2>16, IdleKnows, StepInv
<1>4. QED
  BY <1>1, <1>2, <1>3

\* A seller confirms the sale, with a product of the seller's own.
LEMMA SaleInv ==
  ASSUME AgreementInv, NEW r \in Requests,
         \/ SaleProduct(r) \/ SaleSave(r) \/ SaleAsk(r)
         \/ \E p \in People, offer \in FullOffers : StartSale(r, p, offer)
  PROVE  AgreementInv'
<1>1. ASSUME NEW p \in People, NEW offer \in FullOffers, StartSale(r, p, offer)
      PROVE  AgreementInv'
  <2> DEFINE shown == Under(tx.mode, offer)
             request == [IdleRequest EXCEPT !.pc = "sale.product", !.who = p,
                                            !.parties = tx.parties,
                                            !.version = tx.version, !.price = tx.price,
                                            !.payer = tx.payer, !.offer = shown]
  <2>1. /\ tx.parties \in Seq(People) /\ tx.version \in Nat /\ tx.mode \in Modes
        /\ tx.status = "WAITING_PARTICIPANT" /\ tx.by = "BUYER" /\ tx' = tx
        /\ tx.price \in Prices \cup {"none"} /\ tx.payer \in Payers \cup {"none"}
        /\ tx.price = Asked.price /\ tx.payer = Asked.payer /\ Waiting
    BY <1>1 DEF AgreementInv, TypeOK, Operations, StartSale, Settled, Waiting
  <2>2. Begin(r, request) /\ UNCHANGED <<tx, listed, ask, agreed, overtaken>>
    BY <1>1 DEF StartSale
  <2>3. shown \in Offers
    BY <2>1, UnderType
  <2> HIDE DEF shown
  <2>4. /\ request \in RequestStates /\ request.pc = "sale.product" /\ request.who = p
        /\ request.parties = tx.parties /\ request.version = tx.version
        /\ request.price = tx.price /\ request.payer = tx.payer
    BY <2>1, <2>3, IdleType DEF RequestStates, Steps, IdleRequest, Everybody
  <2>5. req'[r] = request => Knows(r)'
    <3> HIDE DEF request
    <3>1. Asked' = Asked /\ Waiting'
      BY <2>1 DEF Asked, Waiting
    <3>2. req'[r] = request => KnowsProposal(r)'
      BY <2>1, <2>4, <3>1 DEF KnowsProposal
    <3>3. QED
      BY <2>1, <2>4, <3>2 DEF Knows, Joined
  <2>6. QED
    BY <2>2, <2>4, <2>5, BeginInv DEF AgreementInv, TypeOK
<1>2. CASE SaleProduct(r)
  <2>1. Knows(r) /\ "sale.save" \in Steps /\ req[r].who \in People
    BY <1>2 DEF AgreementInv, Steps, Knows, SaleProduct, At
  <2>2. /\ req' \in [Requests -> RequestStates] /\ req'[r].pc = "sale.save"
        /\ req'[r].who = req[r].who /\ req'[r].version = req[r].version
        /\ req'[r].price = req[r].price /\ req'[r].payer = req[r].payer
        /\ \A s \in Requests : s # r => req'[s] = req[s]
    BY <1>2, <2>1, GotoType DEF AgreementInv, SaleProduct
  <2>3. TypeOK'
    BY <1>2, <2>1, <2>2 DEF AgreementInv, TypeOK, SaleProduct, Everybody
  <2>4. Knows(r)'
    <3>1. /\ (req[r].version <= tx.version)'
          /\ (\A p \in People : In(req[r].parties, p) => Joined(p))'
      BY <1>2, <2>1, <2>3, GotoKnows DEF AgreementInv, SaleProduct
    <3>2. KnowsProposal(r) /\ tx' = tx /\ Asked' = Asked /\ (Waiting' <=> Waiting)
      BY <1>2, <2>1 DEF Knows, SaleProduct, At, Asked, Waiting
    <3>3. KnowsProposal(r)'
      BY <2>2, <3>2 DEF KnowsProposal
    <3>4. QED
      BY <1>2, <2>1, <2>2, <3>1, <3>2, <3>3 DEF Knows, SaleProduct, At
  <2>5. QED
    BY <1>2, <2>2, <2>3, <2>4, ReadInv DEF SaleProduct
<1>3. CASE SaleSave(r)
  <2>1. CASE Stale(r) /\ Finish(r) /\ UNCHANGED <<tx, overtaken>>
    <3>1. /\ req' \in [Requests -> RequestStates] /\ req'[r] = IdleRequest
          /\ \A s \in Requests : s # r => req'[s] = req[s]
      BY <2>1, FinishType DEF AgreementInv
    <3>2. TypeOK'
      BY <1>3, <2>1, <3>1 DEF AgreementInv, TypeOK, SaleSave
    <3>3. QED
      BY <1>3, <2>1, <3>1, <3>2, IdleKnows, ReadInv DEF SaleSave
  <2>2. CASE ~Stale(r)
    <3>1. /\ tx \in Operations /\ tx.version \in Nat /\ tx.status # "none" /\ tx.by = "BUYER"
          /\ req[r].who \in People /\ req[r].who \in listed /\ req[r].offer \in Offers
          /\ tx.price \in Prices \cup {"none"} /\ tx.payer \in Payers \cup {"none"}
          /\ Knows(r) /\ KnowsProposal(r) /\ Asked \in agreed
      BY <1>3
      DEF AgreementInv, TypeOK, Settled, Knows, KnowsProposal, SaleSave, At, Operations,
          RequestStates
    <3> DEFINE parties == WithParty(r)
               version == tx.version + 1
               product == [owner |-> req[r].who, terms |-> req[r].offer.terms]
               price == Kept(tx.price, req[r].price, req[r].offer.price)
               payer == Kept(tx.payer, req[r].payer, req[r].offer.payer)
               varies == Varies(r)
               status == IF varies THEN "PENDING_BUYER_CONFIRM" ELSE "ACCEPTED"
               changes == IF varies THEN TRUE ELSE tx.changes
    <3>2. /\ parties \in Seq(People) /\ version \in Nat /\ In(parties, req[r].who)
          /\ \A q : Joined(q) => In(parties, q)
      BY <3>1, PartyJoins DEF AgreementInv
    <3>3. /\ product \in Products /\ product.owner = req[r].who
          /\ product.terms = req[r].offer.terms
          /\ price \in Prices \cup {"none"} /\ payer \in Payers \cup {"none"}
      BY <3>1 DEF Products, Everybody, Offers, Kept
    <3>4. /\ varies \in BOOLEAN
          /\ varies <=> req[r].offer # [terms |-> Proposal.terms, price |-> req[r].price,
                                        payer |-> req[r].payer]
      BY DEF Varies
    <3>5. /\ tx' = [tx EXCEPT !.parties = parties, !.side = req[r].who, !.product = product,
                              !.price = price, !.payer = payer,
                              !.changes = changes, !.status = status, !.deadline = "set",
                              !.version = version]
          /\ version > tx.version
          /\ overtaken' = overtaken \cup ({tx.status} \ {"WAITING_PARTICIPANT"})
      BY <1>3, <2>2, <3>1 DEF SaleSave
    <3>6. changes \in BOOLEAN /\ status \in {"PENDING_BUYER_CONFIRM", "ACCEPTED"}
      BY <3>1 DEF Operations
    <3>7. /\ varies => status = "PENDING_BUYER_CONFIRM" /\ changes
          /\ ~varies => status = "ACCEPTED"
      OBVIOUS
    <3>8. varies => Waiting
      BY <1>3, <2>2, <3>1 DEF Stale, KnowsProposal
    <3>9. IF varies THEN Goto(r, "sale.ask") ELSE Finish(r)
      BY <1>3, <2>2 DEF SaleSave
    <3>money. /\ ~varies => (price = tx.price /\ payer = tx.payer)
              /\ Waiting => (price = req[r].offer.price /\ payer = req[r].offer.payer)
      <4>1. ~varies => req[r].offer.price = req[r].price /\ req[r].offer.payer = req[r].payer
        BY <3>4
      <4>2. Waiting => tx.price = req[r].price /\ tx.payer = req[r].payer
        BY <3>1 DEF KnowsProposal, AgreementInv, Settled
      <4>3. QED
        BY <4>1, <4>2 DEF Kept
    <3> HIDE DEF parties, version, product, price, payer, varies, status, changes
    <3>10. tx' \in Operations
      <4>1. /\ status \in Machine!Statuses \cup {"none"} /\ "set" \in {"none", "set", "past"}
            /\ req[r].who \in People \cup {"none"} /\ product \in Products \cup {NoProduct}
        BY <3>1, <3>3, <3>6 DEF Machine!Statuses
      <4>2. [tx EXCEPT !.parties = parties, !.side = req[r].who, !.product = product,
                       !.price = price, !.payer = payer] \in Operations
        BY <3>1, <3>2, <3>3, <4>1 DEF Operations
      <4> DEFINE dealt == [tx EXCEPT !.parties = parties, !.side = req[r].who,
                                     !.product = product, !.price = price, !.payer = payer]
      <4>3. tx' = [dealt EXCEPT !.changes = changes, !.status = status, !.deadline = "set",
                                !.version = version]
        BY <3>5
      <4> HIDE DEF dealt
      <4>4. dealt \in Operations
        BY <4>2 DEF dealt
      <4>5. QED
        BY <3>2, <3>6, <4>1, <4>3, <4>4 DEF Operations
    <3>11. /\ tx'.status = status /\ tx'.by = tx.by /\ tx'.parties = parties
           /\ tx'.side = req[r].who /\ tx'.product = product /\ tx'.deadline = "set"
           /\ tx'.version = version /\ tx'.changes = changes /\ tx'.mode = tx.mode
           /\ tx'.price = price /\ tx'.payer = payer
      BY <3>1, <3>5 DEF Operations
    <3>12. /\ req' \in [Requests -> RequestStates]
           /\ \A s \in Requests : s # r => req'[s] = req[s]
           /\ \/ req'[r] = IdleRequest
              \/ /\ req'[r].pc = "sale.ask" /\ req'[r].version = req[r].version
                 /\ req'[r].parties = req[r].parties
      BY <3>9, GotoType, FinishType DEF AgreementInv, Steps
    <3>past. overtaken' \subseteq Machine!Statuses
      BY <3>1, <3>5 DEF AgreementInv, TypeOK, Operations
    <3>13. TypeOK'
      BY <1>3, <3>10, <3>12, <3>past DEF AgreementInv, TypeOK, SaleSave
    <3>14. \A p : Joined(p) => Joined(p)'
      BY <3>2, <3>11 DEF Joined
    <3>15. tx.version < tx'.version /\ tx.version <= tx'.version
      BY <3>1, <3>2, <3>5, <3>11
    <3>16. ~Waiting' /\ tx'.status # "none"
      BY <3>6, <3>11 DEF Waiting
    <3>17. UNCHANGED <<listed, ask, agreed>> /\ Asked' = Asked
      BY <1>3, <3>11 DEF SaleSave, Asked
    <3>18. ~varies => BuyerAgrees'
      <4>1. SUFFICES ASSUME ~varies PROVE BuyerAgrees'
        OBVIOUS
      <4>2. req[r].offer.terms = Proposal.terms /\ Proposal.terms = Asked.terms
        BY <3>4, <4>1 DEF Asked, Under
      <4>3. OnOffer' = [terms |-> Asked.terms, price |-> tx.price, payer |-> tx.payer]
        <5>1. tx'.product.terms = Asked.terms /\ tx'.price = tx.price /\ tx'.payer = tx.payer
          <6>1. price = tx.price /\ payer = tx.payer
            BY <3>money, <4>1, Zenon
          <6>2. product.terms = Asked.terms
            BY <3>3, <4>2
          <6>3. QED
            BY <3>11, <6>1, <6>2
        <5>2. QED
          BY <5>1 DEF OnOffer
      <4>4. AgreedOn("terms")'
        BY <3>1, <3>17, <4>3 DEF AgreedOn
      <4>5. CASE Waiting
        <5>1. OnOffer' = [terms |-> Asked.terms, price |-> Asked.price,
                          payer |-> Asked.payer]
          BY <3>1, <4>3, <4>5 DEF AgreementInv, Settled
        <5>2. Asked \in Offers
          BY <3>1 DEF AgreementInv, TypeOK
        <5>3. OnOffer' = Asked
          BY <5>1, <5>2 DEF Offers
        <5>4. QED
          BY <3>1, <3>17, <5>3 DEF BuyerAgrees, AgreedOn
      <4>6. CASE ~Waiting
        <5>1. tx.status \in overtaken' /\ overtaken \subseteq overtaken'
          BY <3>5, <4>6 DEF Waiting
        <5>2. CASE tx.status = "ACCEPTED"
          <6>1. overtaken' \subseteq {"ACCEPTED"} => AgreedOn("price") /\ AgreedOn("payer")
            BY <5>1, <5>2 DEF AgreementInv, ConsentToTerms, BuyerAgrees
          <6>2. OnOffer'["price"] = OnOffer["price"] /\ OnOffer'["payer"] = OnOffer["payer"]
            BY <4>3 DEF OnOffer
          <6>3. /\ AgreedOn("price") => AgreedOn("price")'
                /\ AgreedOn("payer") => AgreedOn("payer")'
            BY <3>17, <6>2 DEF AgreedOn
          <6>4. QED
            BY <4>4, <5>1, <6>1, <6>3 DEF BuyerAgrees
        <5>3. CASE tx.status # "ACCEPTED"
          BY <4>4, <5>1, <5>3 DEF BuyerAgrees
        <5>4. QED
          BY <5>2, <5>3
      <4>7. QED
        BY <4>5, <4>6
    <3>19. Grows
      BY <3>1, <3>8, <3>11, <3>14, <3>15, <3>16, <3>17, <3>18 DEF Grows
    <3>20. Complete'
      BY <3>1, <3>2, <3>3, <3>11, <3>17 DEF Complete, Joined
    <3>21. Settled' /\ ConsentToTerms' /\ PendingShowsChanges'
      <4>1. ConsentToTerms' /\ Settled'
        BY <3>1, <3>7, <3>11, <3>16, <3>17, <3>18, <3>20 DEF Settled, ConsentToTerms
      <4>2. ASSUME varies PROVE OnOffer' # Asked
        <5>1. OnOffer' = [terms |-> req[r].offer.terms, price |-> req[r].offer.price,
                          payer |-> req[r].offer.payer]
          BY <3>3, <3>8, <3>money, <3>11, <4>2 DEF OnOffer
        <5>2. /\ req[r].offer = [terms |-> req[r].offer.terms,
                                 price |-> req[r].offer.price,
                                 payer |-> req[r].offer.payer]
              /\ Asked = [terms |-> Asked.terms, price |-> Asked.price,
                          payer |-> Asked.payer]
          BY <3>1 DEF Offers, AgreementInv, TypeOK
        <5>3. Asked = [terms |-> Proposal.terms, price |-> req[r].price,
                       payer |-> req[r].payer]
          <6>1. Asked.terms = Proposal.terms
            BY DEF Asked, Under
          <6>2. QED
            BY <3>1, <5>2, <6>1 DEF KnowsProposal
        <5>4. QED
          BY <3>4, <4>2, <5>1, <5>2, <5>3
      <4>3. PendingShowsChanges'
        BY <3>7, <3>11, <3>17, <4>2 DEF PendingShowsChanges, Asked
      <4>4. QED
        BY <4>1, <4>3
    <3>22. Knows(r)'
      <4>1. CASE req'[r] = IdleRequest
        BY <3>13, <4>1, IdleKnows
      <4>2. CASE req'[r].pc = "sale.ask" /\ req'[r].version = req[r].version
                 /\ req'[r].parties = req[r].parties
        <5>1. req[r].version \in Nat
          BY DEF AgreementInv, TypeOK, RequestStates
        <5>2. (req[r].version <= tx.version)'
          BY <3>1, <3>2, <3>11, <3>15, <4>2, <5>1 DEF Knows
        <5>3. (\A p \in People : In(req[r].parties, p) => Joined(p))'
          BY <3>1, <3>14, <4>2 DEF Knows
        <5>4. QED
          BY <3>16, <4>2, <5>2, <5>3 DEF Knows
      <4>3. QED
        BY <3>12, <4>1, <4>2
    <3>23. QED
      BY <3>12, <3>13, <3>19, <3>21, <3>22, StepInv
  <2>3. QED
    BY <1>3, <2>1, <2>2 DEF SaleSave
<1>4. CASE SaleAsk(r)
  <2>1. /\ req' \in [Requests -> RequestStates] /\ req'[r] = IdleRequest
        /\ \A s \in Requests : s # r => req'[s] = req[s]
    BY <1>4, FinishType DEF AgreementInv, SaleAsk
  <2>2. TypeOK'
    BY <1>4, <2>1 DEF AgreementInv, TypeOK, SaleAsk
  <2>3. QED
    BY <1>4, <2>1, <2>2, IdleKnows, ReadInv DEF SaleAsk
<1>5. QED
  BY <1>1, <1>2, <1>3, <1>4

\* The buyer's answer is stored.
LEMMA AnsweredInv ==
  ASSUME AgreementInv, NEW r \in Requests, NEW status \in {"ACCEPTED", "CANCELLED"},
         ~Waiting, status = "ACCEPTED" => BuyerAgrees,
         Answered(status), Goto(r, "answer.find"), UNCHANGED <<listed, ask, agreed, overtaken>>
  PROVE  AgreementInv'
<1>1. tx \in Operations /\ tx.version \in Nat /\ Knows(r) /\ tx.status # "none"
  BY DEF AgreementInv, TypeOK, Operations, Waiting
<1> DEFINE version == tx.version + 1
<1>2. version \in Nat /\ tx.version < version /\ tx.version <= version
  BY <1>1
<1>3. tx' = [tx EXCEPT !.status = status, !.changes = FALSE, !.version = version]
  BY DEF Answered
<1> HIDE DEF version
<1>4. tx' \in Operations
  BY <1>1, <1>2, <1>3 DEF Operations, Machine!Statuses
<1>5. /\ tx'.status = status /\ tx'.by = tx.by /\ tx'.parties = tx.parties
      /\ tx'.side = tx.side /\ tx'.product = tx.product /\ tx'.deadline = tx.deadline
      /\ tx'.version = version /\ tx'.mode = tx.mode
      /\ tx'.price = tx.price /\ tx'.payer = tx.payer
  BY <1>1, <1>3 DEF Operations
<1>6. /\ req' \in [Requests -> RequestStates] /\ req'[r].pc = "answer.find"
      /\ req'[r].version = req[r].version /\ req'[r].parties = req[r].parties
      /\ \A s \in Requests : s # r => req'[s] = req[s]
  BY GotoType DEF AgreementInv, Steps
<1>7. TypeOK'
  BY <1>4, <1>6 DEF AgreementInv, TypeOK
<1>8. ~Waiting' /\ tx'.status # "none" /\ \A p : Joined(p)' <=> Joined(p)
  BY <1>5 DEF Waiting, Joined
<1>same. OnOffer' = OnOffer /\ Asked' = Asked /\ (BuyerAgrees => BuyerAgrees')
  BY <1>5, SameOffer DEF Asked
<1>9. Grows
  BY <1>2, <1>5, <1>8, <1>same DEF Grows
<1>10. Complete'
  BY <1>5, <1>8 DEF AgreementInv, Settled, Complete
<1>11. Settled' /\ ConsentToTerms' /\ PendingShowsChanges'
  BY <1>1, <1>5, <1>8, <1>same, <1>10
  DEF AgreementInv, Settled, ConsentToTerms, PendingShowsChanges
<1>12. req[r].version \in Nat
  BY DEF AgreementInv, TypeOK, RequestStates
<1>13. Knows(r)'
  BY <1>1, <1>2, <1>5, <1>6, <1>8, <1>12 DEF Knows
<1>14. QED
  BY <1>6, <1>7, <1>9, <1>11, <1>13, StepInv

\* The buyer confirms or rejects the changes, and the notification is answered.
LEMMA AnswerInv ==
  ASSUME AgreementInv, NEW r \in Requests,
         \/ StartConfirmChanges(r) \/ ConfirmChanges(r)
         \/ StartRejectChanges(r) \/ RejectChanges(r)
         \/ AnswerFind(r) \/ AnswerSave(r)
  PROVE  AgreementInv'
<1>1. CASE StartConfirmChanges(r)
  <2> DEFINE request == [IdleRequest EXCEPT !.pc = "confirm.save", !.answer = "ACCEPTED"]
  <2>1. /\ request \in RequestStates /\ request.pc = "confirm.save"
        /\ request.parties = <<>> /\ request.version = 0
    BY IdleType DEF RequestStates, Steps, IdleRequest, Answers
  <2>2. tx'.version \in Nat /\ tx'.status = "PENDING_BUYER_CONFIRM" /\ tx' = tx
    BY <1>1 DEF AgreementInv, TypeOK, Operations, StartConfirmChanges
  <2>3. /\ OnOffer' \in agreed' /\ OnOffer \in Offers
        /\ agreed \subseteq agreed' /\ agreed' \subseteq Offers
    BY <1>1, <2>2
    DEF StartConfirmChanges, AgreementInv, TypeOK, Settled, Complete, Waiting, Products,
        OnOffer, Offers, Operations
  <2>agrees. BuyerAgrees'
    BY <2>3 DEF BuyerAgrees, AgreedOn
  <2>4. req'[r] = request => Knows(r)'
    BY <2>1, <2>2, <2>agrees DEF Knows, In, Waiting
  <2>5. QED
    BY <1>1, <2>1, <2>3, <2>4, BeginInv DEF StartConfirmChanges
<1>2. CASE StartRejectChanges(r)
  <2> DEFINE request == [IdleRequest EXCEPT !.pc = "reject.save", !.answer = "REJECTED"]
  <2>1. /\ request \in RequestStates /\ request.pc = "reject.save"
        /\ request.parties = <<>> /\ request.version = 0
    BY IdleType DEF RequestStates, Steps, IdleRequest, Answers
  <2>2. tx'.version \in Nat /\ tx'.status = "PENDING_BUYER_CONFIRM" /\ tx' = tx
    BY <1>2 DEF AgreementInv, TypeOK, Operations, StartRejectChanges
  <2>3. req'[r] = request => Knows(r)'
    BY <2>1, <2>2 DEF Knows, In, Waiting
  <2>4. QED
    BY <1>2, <2>1, <2>3, BeginInv DEF StartRejectChanges, AgreementInv, TypeOK
<1>3. CASE ConfirmChanges(r)
  BY <1>3, AnsweredInv DEF ConfirmChanges, At, AgreementInv, Knows
<1>4. CASE RejectChanges(r)
  BY <1>4, AnsweredInv DEF RejectChanges, At, AgreementInv, Knows
<1>5. CASE AnswerFind(r)
  <2>1. CASE Goto(r, "answer.save")
    <3>1. /\ req' \in [Requests -> RequestStates] /\ req'[r].pc = "answer.save"
          /\ \A s \in Requests : s # r => req'[s] = req[s]
      BY <2>1, GotoType DEF AgreementInv, Steps
    <3>2. TypeOK'
      BY <1>5, <3>1 DEF AgreementInv, TypeOK, AnswerFind
    <3>3. Knows(r) /\ "answer.save" \in Steps
      BY DEF AgreementInv, Steps
    <3>4. /\ (req[r].version <= tx.version)'
          /\ (\A p \in People : In(req[r].parties, p) => Joined(p))'
      BY <1>5, <2>1, <3>2, <3>3, GotoKnows DEF AgreementInv, AnswerFind
    <3>5. Knows(r)'
      BY <1>5, <3>1, <3>3, <3>4 DEF Knows, AnswerFind, At
    <3>6. QED
      BY <1>5, <3>1, <3>2, <3>5, ReadInv DEF AnswerFind
  <2>2. CASE Finish(r)
    <3>1. /\ req' \in [Requests -> RequestStates] /\ req'[r] = IdleRequest
          /\ \A s \in Requests : s # r => req'[s] = req[s]
      BY <2>2, FinishType DEF AgreementInv
    <3>2. TypeOK'
      BY <1>5, <3>1 DEF AgreementInv, TypeOK, AnswerFind
    <3>3. QED
      BY <1>5, <3>1, <3>2, IdleKnows, ReadInv DEF AnswerFind
  <2>3. QED
    BY <1>5, <2>1, <2>2 DEF AnswerFind
<1>6. CASE AnswerSave(r)
  <2>1. /\ req' \in [Requests -> RequestStates] /\ req'[r] = IdleRequest
        /\ \A s \in Requests : s # r => req'[s] = req[s]
    BY <1>6, FinishType DEF AgreementInv, AnswerSave
  <2>2. TypeOK'
    BY <1>6, <2>1 DEF AgreementInv, TypeOK, AnswerSave, RequestStates, Answers
  <2>3. QED
    BY <1>6, <2>1, <2>2, IdleKnows, ReadInv DEF AnswerSave
<1>7. QED
  BY <1>1, <1>2, <1>3, <1>4, <1>5, <1>6

\* A handler that dies leaves what it stored.
LEMMA AbandonInv ==
  ASSUME AgreementInv, NEW r \in Requests, Abandon(r)
  PROVE  AgreementInv'
<1>1. /\ req' \in [Requests -> RequestStates] /\ req'[r] = IdleRequest
      /\ \A s \in Requests : s # r => req'[s] = req[s]
  BY FinishType DEF AgreementInv, Abandon
<1>2. TypeOK'
  BY <1>1 DEF AgreementInv, TypeOK, Abandon
<1>3. QED
  BY <1>1, <1>2, IdleKnows, ReadInv DEF Abandon

----------------------------------------------------------------------------
(* The theorems.                                                           *)

\* The invariant holds before anything is created.
LEMMA AgreementInit == Init => AgreementInv
<1> SUFFICES ASSUME Init PROVE AgreementInv
  OBVIOUS
<1>1. TypeOK
  BY IdleType, NoOperationType DEF Init, TypeOK
<1>2. tx = NoOperation /\ overtaken = {} /\ \A r \in Requests : req[r] = IdleRequest
  BY DEF Init
<1>3. tx.status = "none" /\ tx.version = 0
  BY <1>2 DEF NoOperation
<1>4. \A r \in Requests : Knows(r)
  BY <1>2, <1>3 DEF Knows, IdleRequest, In
<1>5. Settled /\ ConsentToTerms /\ PendingShowsChanges
  BY <1>2, <1>3 DEF Settled, Waiting, ConsentToTerms, PendingShowsChanges
<1>6. QED
  BY <1>1, <1>4, <1>5 DEF AgreementInv

\* Every step of every handler keeps the invariant.
LEMMA AgreementStep == AgreementInv /\ [Next]_vars => AgreementInv'
<1> SUFFICES ASSUME AgreementInv, [Next]_vars PROVE AgreementInv'
  OBVIOUS
<1>1. ASSUME NEW mode \in Modes, CreateAsBuyer(mode) PROVE AgreementInv'
  BY <1>1, BuyerCreates
<1>2. CASE LinkExpires \/ DeadlinePasses
  BY <1>2, TimePasses
<1>3. ASSUME NEW r \in Requests, Handlers(r) PROVE AgreementInv'
  BY <1>3, SellerCreates, RefreshInv, JoinInv, AcceptInv, SaleInv, AnswerInv, RemindInv,
     AbandonInv
  DEF Handlers
<1>4. ASSUME NEW r \in Requests, Requested(r) PROVE AgreementInv'
  BY <1>4, SellerLists, JoinInv, AcceptInv, SaleInv DEF Requested
<1>5. CASE UNCHANGED vars
  <2>1. /\ TypeOK' /\ req' = req /\ tx' = tx
        /\ listed' = listed /\ agreed' = agreed /\ overtaken' = overtaken
    BY <1>5 DEF vars, AgreementInv, TypeOK
  <2>2. Grows /\ Settled' /\ ConsentToTerms' /\ PendingShowsChanges'
    BY <2>1, NothingStored DEF AgreementInv
  <2>3. QED
    BY <2>1, <2>2, WorldInv
<1>6. QED
  BY <1>1, <1>2, <1>3, <1>4, <1>5 DEF Next

\* The stored operation and every request in flight keep their shape.
THEOREM AgreementTypeCorrect == Spec => []TypeOK
<1>1. AgreementInv => TypeOK
  BY DEF AgreementInv
<1>2. QED
  BY <1>1, AgreementInit, AgreementStep, PTL DEF Spec

\* However many sellers and buyers answer at once, an operation that reads
\* ACCEPTED sells under terms its buyer has proposed or accepted, and at a price
\* and commission agreed to, unless a sale was saved over another one's waiting
\* or rejected changes.
THEOREM BuyerConsents == Spec => []ConsentToTerms
<1>1. AgreementInv => ConsentToTerms
  BY DEF AgreementInv
<1>2. QED
  BY <1>1, AgreementInit, AgreementStep, PTL DEF Spec

\* A buyer who is asked to confirm changes is asked about real ones.
THEOREM ChangesAreShown == Spec => []PendingShowsChanges
<1>1. AgreementInv => PendingShowsChanges
  BY DEF AgreementInv
<1>2. QED
  BY <1>1, AgreementInit, AgreementStep, PTL DEF Spec

\* An operation that has left the invitation has a product, its owner, the
\* counterparty's instructions and a deadline.
THEOREM AgreedIsComplete == Spec => []AgreementIsComplete
<1>1. AgreementInv => AgreementIsComplete
  BY DEF AgreementInv, Settled, Waiting, Complete, AgreementIsComplete
<1>2. QED
  BY <1>1, AgreementInit, AgreementStep, PTL DEF Spec

\* No step takes a counterparty away.
LEMMA PartiesGrow ==
  ASSUME AgreementInv, [Next]_vars, NEW p, Joined(p)
  PROVE  Joined(p)'
<1>1. tx \in Operations /\ tx.parties \in Seq(People) /\ tx.status # "none"
  BY DEF AgreementInv, TypeOK, Operations, Settled, NoOperation, Joined, In
<1>2. ASSUME NEW r \in Requests, JoinSave(r) PROVE Joined(p)'
  <2>1. tx'.parties = Append(tx.parties, req[r].who) /\ req[r].who \in People
    BY <1>1, <1>2 DEF JoinSave, Operations, AgreementInv, Knows, At
  <2>2. QED
    BY <1>1, <2>1, AppendParty DEF Joined
<1>3. ASSUME NEW r \in Requests, AcceptSave(r) \/ (SaleSave(r) /\ ~Stale(r))
      PROVE  Joined(p)'
  <2>1. tx'.parties = WithParty(r) /\ req[r].who \in People /\ Knows(r)
    BY <1>1, <1>3 DEF AcceptSave, SaleSave, Operations, AgreementInv, Knows, At
  <2>2. QED
    BY <2>1, PartyJoins DEF Joined, AgreementInv
<1>4. CASE tx'.parties = tx.parties
  BY <1>4 DEF Joined
<1>5. ASSUME NEW r \in Requests, Handlers(r) \/ Requested(r)
      PROVE  tx'.parties = tx.parties \/ JoinSave(r) \/ AcceptSave(r)
             \/ (SaleSave(r) /\ ~Stale(r))
  BY <1>1, <1>5
  DEF Handlers, Requested, CreateSellerTx, StartRefresh, RefreshInvite, AcceptMode,
      SaleProduct, SaleSave, SaleAsk, StartConfirmChanges, ConfirmChanges,
      StartRejectChanges, RejectChanges, Answered, AnswerFind, AnswerSave, StartRemind,
      RemindSave, Abandon, StartCreateAsSeller, StartJoin, StartAccept, StartSale,
      Operations
<1>6. CASE \/ LinkExpires \/ DeadlinePasses \/ UNCHANGED vars
           \/ \E mode \in Modes : CreateAsBuyer(mode)
  BY <1>1, <1>4, <1>6 DEF LinkExpires, DeadlinePasses, CreateAsBuyer, vars, Operations
<1>7. QED
  BY <1>2, <1>3, <1>4, <1>5, <1>6 DEF Next

\* Whoever has joined an operation stays in it, whoever else saves meanwhile.
THEOREM NobodyIsDropped == Spec => JoinedStay
<1>1. AgreementInv /\ [Next]_vars => [\A p \in People : Joined(p) => Joined(p)']_vars
  BY PartiesGrow
<1>2. QED
  BY <1>1, AgreementInit, AgreementStep, PTL DEF Spec, JoinedStay

=============================================================================
