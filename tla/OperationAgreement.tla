------------------------- MODULE OperationAgreement -------------------------
(***************************************************************************)
(* How two parties come to an agreement (transactions/service.ts, from     *)
(* create to buyerRejectChanges): one creates the operation and shares an  *)
(* invitation link, the other joins, accepts the purchase or confirms the  *)
(* sale, and the buyer answers to what the seller has changed.  It ends    *)
(* with the operation ACCEPTED, where Escrow begins.                       *)
(*                                                                         *)
(* Several people may hold the link and every handler works on the copy it *)
(* loaded.  mongoose's save() writes the paths whose value differs from    *)
(* the loaded copy's; a push to an array raises the version of the         *)
(* document without testing it, and only a save that replaces an array     *)
(* (pendingBuyerChanges) tests it.                                         *)
(***************************************************************************)
EXTENDS Naturals, Sequences, FiniteSets

CONSTANTS
  Requests,  \* slots for requests in flight at the same time
  People,    \* who may hold the link, other than the creator
  Creator,   \* who creates the operation
  Terms,     \* what a product is sold as: its title and description
  Prices,    \* amountCents
  Payers,    \* feePayer: who pays the commission
  Proposal   \* what a buyer who creates the operation asks for

ASSUME CreatorAssumption == Creator \notin People
ASSUME ProposalAssumption == Proposal \in [terms : Terms, price : Prices, payer : Payers]

VARIABLES
  tx,       \* the stored operation
  listed,   \* who has created a product for it
  ask,      \* the notification that asks the buyer about the changes
  agreed,   \* history: the offers somebody has agreed to buy under
  overtaken, \* history: the statuses a sale was saved over that did not know them
  req       \* the requests in flight

vars == <<tx, listed, ask, agreed, overtaken, req>>

Machine == INSTANCE OperationStates WITH status <- tx.status

----------------------------------------------------------------------------
Modes == {"AGENT_FEE_ONLY", "ESCROW_FULL"}

Initiators == {"BUYER", "SELLER"}

Everybody == People \cup {Creator}

FullOffers == [terms : Terms, price : Prices, payer : Payers]

\* The price and who pays the commission are agreed on in ESCROW_FULL only.
Offers ==
  [terms : Terms, price : Prices \cup {"none"}, payer : Payers \cup {"none"}]

Under(mode, offer) ==
  IF mode = "ESCROW_FULL" THEN offer ELSE [offer EXCEPT !.price = "none", !.payer = "none"]

Products == [owner : Everybody, terms : Terms]

NoProduct == [owner |-> "none", terms |-> "none"]

Operations ==
  [status : Machine!Statuses \cup {"none"}, by : Initiators, mode : Modes,
   price : Prices \cup {"none"},      \* amountCents
   payer : Payers \cup {"none"},      \* feePayer
   parties : Seq(People),            \* the accepted counterparties, in order
   side : People \cup {"none"},      \* whose instructions party keeps for them
   product : Products \cup {NoProduct},
   changes : BOOLEAN,                \* pendingBuyerChanges is set
   expired : BOOLEAN,                \* the link has expired
   deadline : {"none", "set", "past"}, reminded : BOOLEAN,
   version : Nat]                    \* __v

NoOperation ==
  [status |-> "none", by |-> "BUYER", mode |-> "AGENT_FEE_ONLY",
   price |-> "none", payer |-> "none", parties |-> <<>>, side |-> "none",
   product |-> NoProduct, changes |-> FALSE, expired |-> FALSE,
   deadline |-> "none", reminded |-> FALSE, version |-> 0]

Steps ==
  {"idle", "create.tx", "create.product", "refresh.save", "join.save",
   "accept.mode", "accept.save", "sale.product", "sale.save", "sale.ask",
   "confirm.save", "reject.save", "answer.find", "answer.save", "remind.save"}

Answers == {"none", "ACCEPTED", "REJECTED"}

IdleRequest ==
  [pc |-> "idle", who |-> Creator, parties |-> <<>>, version |-> 0, price |-> "none",
   payer |-> "none", offer |-> Proposal, mode |-> "AGENT_FEE_ONLY", answer |-> "none"]

RequestStates ==
  [pc : Steps, who : Everybody,
   parties : Seq(People), version : Nat,  \* of the copy it has loaded
   price : Prices \cup {"none"}, payer : Payers \cup {"none"},  \* of that copy, too
   offer : Offers, mode : Modes, answer : Answers]

Init ==
  /\ tx = NoOperation
  /\ listed = {}
  /\ ask = "none"
  /\ agreed = {}
  /\ overtaken = {}
  /\ req = [r \in Requests |-> IdleRequest]

----------------------------------------------------------------------------
(* A request moving through its handler.                                   *)

At(r, step) == req[r].pc = step

Goto(r, step) == req' = [req EXCEPT ![r].pc = step]

\* A handler starts in a free slot.
Begin(r, request) == req[r].pc = "idle" /\ req' = [req EXCEPT ![r] = request]

\* The handler returned, threw, or died with the process.
Finish(r) == req' = [req EXCEPT ![r] = IdleRequest]

Abandon(r) ==
  /\ req[r].pc # "idle"
  /\ Finish(r)
  /\ UNCHANGED <<tx, listed, ask, agreed, overtaken>>

In(parties, p) == \E i \in DOMAIN parties : parties[i] = p

Joined(p) == In(tx.parties, p)

\* participants.push, unless the loaded copy has the person already.
WithParty(r) ==
  IF In(req[r].parties, req[r].who) THEN tx.parties ELSE Append(tx.parties, req[r].who)

\* What the buyer sees of the operation.
OnOffer == [terms |-> tx.product.terms, price |-> tx.price, payer |-> tx.payer]

\* A path of its own: it is written only if it differs from the loaded copy's.
Kept(stored, copy, new) == IF new = copy THEN stored ELSE new

\* Nobody but the person has joined.
OpenTo(p) == Joined(p) \/ tx.parties = <<>>

----------------------------------------------------------------------------
(* create and createAsSeller.  The operation is stored WAITING_PARTICIPANT *)
(* at once: CREATED appears in its history only.  A price and who pays the *)
(* commission are stored exactly if the payment goes through the platform. *)

Created(by, mode, product, offer) ==
  [NoOperation EXCEPT !.status = "WAITING_PARTICIPANT", !.by = by, !.mode = mode,
                      !.price = offer.price, !.payer = offer.payer, !.product = product]

CreateAsBuyer(mode) ==
  /\ tx.status = "none"
  /\ tx' = Created("BUYER", mode, NoProduct, Under(mode, Proposal))
  /\ agreed' = agreed \cup {Under(mode, Proposal)}
  /\ UNCHANGED <<listed, ask, overtaken, req>>

\* ProductModel.create; the operation and the product's link to it follow.
StartCreateAsSeller(r, mode, offer) ==
  /\ tx.status = "none"
  /\ listed' = listed \cup {Creator}
  /\ Begin(r, [IdleRequest EXCEPT !.pc = "create.tx", !.offer = Under(mode, offer),
                                   !.mode = mode])
  /\ UNCHANGED <<tx, ask, agreed, overtaken>>

CreateSellerTx(r) ==
  /\ At(r, "create.tx")
  /\ tx.status = "none"
  /\ tx' = Created("SELLER", req[r].mode,
                   [owner |-> Creator, terms |-> req[r].offer.terms], req[r].offer)
  /\ Finish(r)
  /\ UNCHANGED <<listed, ask, agreed, overtaken>>

----------------------------------------------------------------------------
(* The invitation.                                                         *)

LinkExpires ==
  /\ tx.status # "none" /\ ~tx.expired
  /\ tx' = [tx EXCEPT !.expired = TRUE]
  /\ UNCHANGED <<listed, ask, agreed, overtaken, req>>

StartRefresh(r) ==
  /\ tx.status = "WAITING_PARTICIPANT"
  /\ tx.parties = <<>>
  /\ Begin(r, [IdleRequest EXCEPT !.pc = "refresh.save"])
  /\ UNCHANGED <<tx, listed, ask, agreed, overtaken>>

RefreshInvite(r) ==
  /\ At(r, "refresh.save")
  /\ tx' = [tx EXCEPT !.expired = FALSE]
  /\ Finish(r)
  /\ UNCHANGED <<listed, ask, agreed, overtaken>>

\* joinInvite: a seller joins the operation of a buyer, without a sale yet.
StartJoin(r, p) ==
  /\ tx.status = "WAITING_PARTICIPANT"
  /\ tx.by = "BUYER"
  /\ ~tx.expired
  /\ tx.parties = <<>>
  /\ Begin(r, [IdleRequest EXCEPT !.pc = "join.save", !.who = p])
  /\ UNCHANGED <<tx, listed, ask, agreed, overtaken>>

\* Mutant: participants is written back as the copy has it.
JoinOverwrites(r) ==
  /\ At(r, "join.save")
  /\ tx' = [tx EXCEPT !.parties = Append(req[r].parties, req[r].who), !.version = @ + 1]
  /\ Finish(r)
  /\ UNCHANGED <<listed, ask, agreed, overtaken>>

JoinSave(r) ==
  /\ At(r, "join.save")
  /\ tx' = [tx EXCEPT !.parties = Append(@, req[r].who), !.version = @ + 1]
  /\ Finish(r)
  /\ UNCHANGED <<listed, ask, agreed, overtaken>>

----------------------------------------------------------------------------
(* acceptPurchase: a buyer accepts what the seller offers, and may choose  *)
(* how the payment goes, which is saved first, by itself; and, if it goes  *)
(* through the platform, who pays the commission.                          *)

StartAccept(r, p, mode, payer) ==
  /\ tx.status = "WAITING_PARTICIPANT"
  /\ tx.by = "SELLER"
  /\ ~tx.expired
  /\ OpenTo(p)
  /\ mode = "AGENT_FEE_ONLY" => payer = tx.payer
  /\ agreed' = agreed \cup {[OnOffer EXCEPT !.payer = payer]}
  /\ Begin(r, [IdleRequest EXCEPT !.pc = IF mode = tx.mode THEN "accept.save" ELSE "accept.mode",
                                   !.who = p, !.parties = tx.parties, !.mode = mode,
                                   !.payer = tx.payer,
                                   !.offer = [OnOffer EXCEPT !.payer = payer]])
  /\ UNCHANGED <<tx, listed, ask, overtaken>>

AcceptMode(r) ==
  /\ At(r, "accept.mode")
  /\ tx' = [tx EXCEPT !.mode = req[r].mode]
  /\ Goto(r, "accept.save")
  /\ UNCHANGED <<listed, ask, agreed, overtaken>>

\* Mutant: the deadline is left out.
AcceptWithoutDeadline(r) ==
  /\ At(r, "accept.save")
  /\ tx' = [tx EXCEPT !.parties = WithParty(r), !.side = req[r].who,
                      !.payer = Kept(@, req[r].payer, req[r].offer.payer),
                      !.status = "ACCEPTED", !.version = @ + 1]
  /\ Finish(r)
  /\ UNCHANGED <<listed, ask, agreed, overtaken>>

\* Mutant: the instructions are kept for the seller.
AcceptAsOwner(r) ==
  /\ At(r, "accept.save")
  /\ tx' = [tx EXCEPT !.parties = WithParty(r), !.side = tx.product.owner,
                      !.payer = Kept(@, req[r].payer, req[r].offer.payer),
                      !.deadline = "set", !.status = "ACCEPTED", !.version = @ + 1]
  /\ Finish(r)
  /\ UNCHANGED <<listed, ask, agreed, overtaken>>

AcceptSave(r) ==
  /\ At(r, "accept.save")
  /\ tx' = [tx EXCEPT !.parties = WithParty(r), !.side = req[r].who,
                      !.payer = Kept(@, req[r].payer, req[r].offer.payer),
                      !.deadline = "set", !.status = "ACCEPTED", !.version = @ + 1]
  /\ Finish(r)
  /\ UNCHANGED <<listed, ask, agreed, overtaken>>

----------------------------------------------------------------------------
(* confirmSale: a seller confirms the sale a buyer asked for, with the     *)
(* product as it really is.                                                *)

\* Mutant: only the product is compared.
VariesInProduct(r) == req[r].offer.terms # Proposal.terms

\* diffBuyerProposalVsSellerConfirm finds something: the buyer's side of it is
\* the proposal and the money of the loaded copy.
Varies(r) ==
  req[r].offer # [terms |-> Proposal.terms, price |-> req[r].price, payer |-> req[r].payer]

StartSale(r, p, offer) ==
  /\ tx.status = "WAITING_PARTICIPANT"
  /\ tx.by = "BUYER"
  /\ ~tx.expired
  /\ tx.product = NoProduct
  /\ OpenTo(p)
  /\ Begin(r, [IdleRequest EXCEPT !.pc = "sale.product", !.who = p,
                                   !.parties = tx.parties, !.version = tx.version,
                                   !.price = tx.price, !.payer = tx.payer,
                                   !.offer = Under(tx.mode, offer)])
  /\ UNCHANGED <<tx, listed, ask, agreed, overtaken>>

SaleProduct(r) ==
  /\ At(r, "sale.product")
  /\ listed' = listed \cup {req[r].who}
  /\ Goto(r, "sale.save")
  /\ UNCHANGED <<tx, ask, agreed, overtaken>>

\* The save replaces pendingBuyerChanges and so fails on a stale copy.
Stale(r) == Varies(r) /\ req[r].version # tx.version

SaleSave(r) ==
  /\ At(r, "sale.save")
  /\ \/ Stale(r) /\ Finish(r) /\ UNCHANGED <<tx, overtaken>>
     \/ /\ ~Stale(r)
        /\ tx' = [tx EXCEPT
                    !.parties = WithParty(r), !.side = req[r].who,
                    !.product = [owner |-> req[r].who, terms |-> req[r].offer.terms],
                    !.price = Kept(@, req[r].price, req[r].offer.price),
                    !.payer = Kept(@, req[r].payer, req[r].offer.payer),
                    !.changes = IF Varies(r) THEN TRUE ELSE @,
                    !.status = IF Varies(r) THEN "PENDING_BUYER_CONFIRM" ELSE "ACCEPTED",
                    !.deadline = "set", !.version = @ + 1]
        /\ overtaken' = overtaken \cup ({tx.status} \ {"WAITING_PARTICIPANT"})
        /\ IF Varies(r) THEN Goto(r, "sale.ask") ELSE Finish(r)
  /\ UNCHANGED <<listed, ask, agreed>>

\* The buyer is notified, and the notification waits for an answer.
SaleAsk(r) ==
  /\ At(r, "sale.ask")
  /\ ask' = "PENDING"
  /\ Finish(r)
  /\ UNCHANGED <<tx, listed, agreed, overtaken>>

----------------------------------------------------------------------------
(* buyerConfirmChanges and buyerRejectChanges.                             *)

\* The buyer answers to what the operation shows.
StartConfirmChanges(r) ==
  /\ tx.status = "PENDING_BUYER_CONFIRM"
  /\ agreed' = agreed \cup {OnOffer}
  /\ Begin(r, [IdleRequest EXCEPT !.pc = "confirm.save", !.answer = "ACCEPTED"])
  /\ UNCHANGED <<tx, listed, ask, overtaken>>

StartRejectChanges(r) ==
  /\ tx.status = "PENDING_BUYER_CONFIRM"
  /\ Begin(r, [IdleRequest EXCEPT !.pc = "reject.save", !.answer = "REJECTED"])
  /\ UNCHANGED <<tx, listed, ask, agreed, overtaken>>

\* transitionStatus, which also clears pendingBuyerChanges.
Answered(status) ==
  tx' = [tx EXCEPT !.status = status, !.changes = FALSE, !.version = @ + 1]

\* Mutant: the changes are cleared before the status moves on.
ConfirmChangesClears(r) ==
  /\ At(r, "confirm.save")
  /\ \/ ~tx.changes /\ Answered("ACCEPTED") /\ Goto(r, "answer.find")
     \/ tx.changes /\ tx' = [tx EXCEPT !.changes = FALSE] /\ UNCHANGED req
  /\ UNCHANGED <<listed, ask, agreed, overtaken>>

ConfirmChanges(r) ==
  /\ At(r, "confirm.save")
  /\ Answered("ACCEPTED")
  /\ Goto(r, "answer.find")
  /\ UNCHANGED <<listed, ask, agreed, overtaken>>

RejectChanges(r) ==
  /\ At(r, "reject.save")
  /\ Answered("CANCELLED")
  /\ Goto(r, "answer.find")
  /\ UNCHANGED <<listed, ask, agreed, overtaken>>

\* resolvePendingBuyerConfirmNotifications.
AnswerFind(r) ==
  /\ At(r, "answer.find")
  /\ IF ask = "PENDING" THEN Goto(r, "answer.save") ELSE Finish(r)
  /\ UNCHANGED <<tx, listed, ask, agreed, overtaken>>

AnswerSave(r) ==
  /\ At(r, "answer.save")
  /\ ask' = req[r].answer
  /\ Finish(r)
  /\ UNCHANGED <<tx, listed, agreed, overtaken>>

----------------------------------------------------------------------------
(* expireOperationalDeadlines: after 21 days a reminder, never more.       *)

DeadlinePasses ==
  /\ tx.deadline = "set"
  /\ tx' = [tx EXCEPT !.deadline = "past"]
  /\ UNCHANGED <<listed, ask, agreed, overtaken, req>>

StartRemind(r) ==
  /\ tx.deadline = "past" /\ ~tx.reminded
  /\ tx.status \in {"PENDING_BUYER_CONFIRM", "ACCEPTED"}
  /\ Begin(r, [IdleRequest EXCEPT !.pc = "remind.save"])
  /\ UNCHANGED <<tx, listed, ask, agreed, overtaken>>

RemindSave(r) ==
  /\ At(r, "remind.save")
  /\ tx' = [tx EXCEPT !.reminded = TRUE]
  /\ Finish(r)
  /\ UNCHANGED <<listed, ask, agreed, overtaken>>

----------------------------------------------------------------------------
Handlers(r) ==
  \/ CreateSellerTx(r) \/ StartRefresh(r) \/ RefreshInvite(r)
  \/ JoinSave(r) \/ AcceptMode(r) \/ AcceptSave(r)
  \/ SaleProduct(r) \/ SaleSave(r) \/ SaleAsk(r)
  \/ StartConfirmChanges(r) \/ ConfirmChanges(r)
  \/ StartRejectChanges(r) \/ RejectChanges(r)
  \/ AnswerFind(r) \/ AnswerSave(r)
  \/ StartRemind(r) \/ RemindSave(r) \/ Abandon(r)

Requested(r) ==
  \/ \E mode \in Modes, offer \in FullOffers : StartCreateAsSeller(r, mode, offer)
  \/ \E p \in People : StartJoin(r, p)
  \/ \E p \in People, mode \in Modes, payer \in Payers \cup {"none"} :
       /\ mode = "ESCROW_FULL" => payer \in Payers
       /\ StartAccept(r, p, mode, payer)
  \/ \E p \in People, offer \in FullOffers : StartSale(r, p, offer)

Next ==
  \/ \E mode \in Modes : CreateAsBuyer(mode)
  \/ LinkExpires
  \/ DeadlinePasses
  \/ \E r \in Requests : Handlers(r) \/ Requested(r)

Spec == Init /\ [][Next]_vars

----------------------------------------------------------------------------
TypeOK ==
  /\ tx \in Operations
  /\ listed \subseteq Everybody
  /\ ask \in {"none", "PENDING", "ACCEPTED", "REJECTED"}
  /\ agreed \subseteq Offers
  /\ overtaken \subseteq Machine!Statuses
  /\ req \in [Requests -> RequestStates]

\* Somebody has agreed to this part of what the operation offers now.
AgreedOn(part) == \E offer \in agreed : offer[part] = OnOffer[part]

(***************************************************************************)
(* The buyer has agreed to what is sold: an accepted operation sells its   *)
(* product under an offer the buyer proposed, accepted, or was shown as    *)
(* changes and confirmed, whichever of several sellers or buyers saved     *)
(* last.  A sale as proposed that was loaded before another one was        *)
(* answered brings its product, but no price that equals the loaded one:   *)
(* the product is still the proposed one, and the price and the commission *)
(* are still agreed to if the operation was ACCEPTED already.              *)
(***************************************************************************)
BuyerAgrees ==
  /\ AgreedOn("terms")
  /\ overtaken \subseteq {"ACCEPTED"} => AgreedOn("price") /\ AgreedOn("payer")
  /\ overtaken = {} => OnOffer \in agreed

ConsentToTerms == tx.status = "ACCEPTED" => BuyerAgrees

(***************************************************************************)
(* While the buyer is asked to confirm, the operation has the changes to   *)
(* show, and what it offers is indeed other than what the buyer proposed.  *)
(***************************************************************************)
PendingShowsChanges ==
  tx.status = "PENDING_BUYER_CONFIRM" => tx.changes /\ OnOffer # Under(tx.mode, Proposal)

(***************************************************************************)
(* An agreement is about something and between somebody: it has a product  *)
(* that was created and whose owner takes part, the instructions of a      *)
(* counterparty that takes part, and a deadline.                           *)
(***************************************************************************)
AgreementIsComplete ==
  tx.status \in {"PENDING_BUYER_CONFIRM", "ACCEPTED"} =>
    /\ tx.product.owner \in listed
    /\ tx.product.owner = Creator \/ Joined(tx.product.owner)
    /\ Joined(tx.side)
    /\ tx.deadline # "none"

(***************************************************************************)
(* Nobody who has joined is dropped by somebody else's save.               *)
(***************************************************************************)
JoinedStay ==
  [][\A p \in People : Joined(p) => Joined(p)']_vars

=============================================================================
