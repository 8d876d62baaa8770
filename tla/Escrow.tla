------------------------------- MODULE Escrow -------------------------------
(***************************************************************************)
(* The protected payment of one operation, from the moment both parties    *)
(* have accepted it: checkout, the provider's notices, the hold, delivery, *)
(* release, refund, disputes and the agent's commission.                   *)
(*                                                                         *)
(* Every HTTP handler, webhook and timer job runs in a request.  The API   *)
(* is a Node process over MongoDB without transactions, so a handler is    *)
(* cut at every await that reads or writes shared state: each database     *)
(* call is one action, and between two of them any other request may run.  *)
(* A handler works on the document it LOADED (req[r].doc, req[r].seen);    *)
(* save() writes back only the paths the handler changed.                  *)
(***************************************************************************)
EXTENDS Integers, FiniteSets

CONSTANTS
  Requests,     \* slots for requests in flight at the same time
  Handlers,     \* the handlers that run
  FundingMode,  \* "AGENT_FEE_ONLY" (the default) or "ESCROW_FULL"
  HoldCents,    \* what the buyer pays
  SellerNet,    \* what the seller gets in ESCROW_FULL
  AgentFee,     \* the agent's share of the fee
  DisputeIds,   \* the disputes that may be opened (a bound)
  MaxNotices,   \* bound on the news of the approved payment
  MaxFailures   \* bound on requests that die half-way and refunds refused

AllHandlers ==
  {"checkout", "sync", "webhook", "release", "reject", "openDispute",
   "RESUME", "CANCEL", "COMPLETE_WITH_REFUND", "finalize", "acceptProduct",
   "confirmArrival", "confirmDelivery", "autoComplete", "remind", "heal",
   "agentAccept", "agentWithdraw", "releaseDue"}

ASSUME HandlersAssumption == Handlers \subseteq AllHandlers
ASSUME FundingModeAssumption == FundingMode \in {"AGENT_FEE_ONLY", "ESCROW_FULL"}
ASSUME AmountsAssumption ==
  /\ HoldCents \in Nat \ {0}
  /\ SellerNet \in Nat \ {0}
  /\ AgentFee \in Nat \ {0}
ASSUME BoundsAssumption == MaxNotices \in Nat /\ MaxFailures \in Nat
ASSUME DisputeIdsAssumption == "none" \notin DisputeIds

VARIABLES
  tx,         \* the stored operation
  hold,       \* status of its ESCROW_HOLD payment, "none" before checkout
  docs,       \* the other payments, by the prefix of their idempotency key
  commission, \* status of the agent's commission, "none" before release
  matured,    \* the commission's 14 days have passed
  wallet,     \* balances of the seller (held, sold) and of the agent
  world,      \* Mercado Pago's side, the notices and the failures so far
  disputes,   \* status of every dispute, "none" before it is opened
  req         \* the requests in flight

vars == <<tx, hold, docs, commission, matured, wallet, world, disputes, req>>

Machine == INSTANCE OperationStates WITH status <- tx.status

AgentFeeOnly == FundingMode = "AGENT_FEE_ONLY"

----------------------------------------------------------------------------
(* Types.                                                                  *)

Statuses == {"ACCEPTED", "FUNDED", "IN_PROGRESS", "COMPLETED", "CANCELLED",
             "DISPUTED"}

\* The statuses in which money is protected and can be settled.
Active == {"FUNDED", "IN_PROGRESS"}

\* "FAILED" stands for FAILED and CANCELLED: no handler tells them apart.
HoldStatuses == {"none", "PENDING", "REQUIRES_ACTION", "CAPTURED", "RELEASED",
                 "REFUNDED", "FAILED"}

CommissionStatuses == {"none", "PENDING", "AVAILABLE", "BLOCKED", "REVERSED"}

\* Where the 72 hours since the last confirmation stand; "closing" is the
\* last 24 of them, when the reminder is sent.
Clocks == {"unset", "running", "closing", "passed"}

Operations ==
  [status : Statuses, agent : BOOLEAN, verified : BOOLEAN,
   decision : {"none", "ACCEPTED", "REJECTED"},
   arrival : BOOLEAN, delivery : BOOLEAN, clock : Clocks, reminded : BOOLEAN]

NewOperation ==
  [status |-> "ACCEPTED", agent |-> FALSE, verified |-> FALSE,
   decision |-> "none", arrival |-> FALSE, delivery |-> FALSE,
   clock |-> "unset", reminded |-> FALSE]

Wallets == [held : Int, sold : Int, pend : Int, avail : Int, earned : Int]

Worlds == [open : BOOLEAN, paid : BOOLEAN, rejected : BOOLEAN,
           refunded : BOOLEAN, notices : Nat, failures : Nat]

PaymentKeys == {"fee", "agent", "release"}

\* Labels of the steps of releaseEscrow from its first insert on.
SettlingSteps ==
  {"release.fee", "release.agent", "release.commission", "release.credit",
   "release.release", "release.seller", "release.holdSave", "release.txSave"}

Steps ==
  SettlingSteps \cup
  {"idle", "checkout.find", "checkout.create", "checkout.preference",
   "checkout.save", "sync.lookup", "confirm.load", "confirm.tx",
   "confirm.save", "confirm.wallet", "confirm.status", "release.load",
   "release.hold", "release.check", "reject.load", "reject.hold",
   "reject.check", "reject.provider", "reject.wallet", "reject.save",
   "reject.decide", "dispute.find", "dispute.tx", "dispute.create",
   "dispute.block", "resolve.tx", "resolve.save", "resume.tx",
   "resume.unblock", "refund.hold", "refund.provider", "refund.save",
   "reverse.find", "reverse.wallet", "reverse.save", "cancel.tx",
   "finalize.save", "acceptProduct.save", "arrival.save", "delivery.save",
   "auto.save", "remind.save", "heal.save", "agent.save", "due.wallet"}

\* Why a request cancels or reverses, when it does.
Causes == {"none", "REJECT", "RESUME", "CANCEL", "COMPLETE_WITH_REFUND"}

\* What a request remembers of the hold or of the commission it has read.
SeenStatuses == HoldStatuses \cup CommissionStatuses

MaybeDispute == DisputeIds \cup {"none"}

RequestStates ==
  [pc : Steps, cause : Causes, doc : Operations, seen : SeenStatuses,
   dispute : MaybeDispute]

IdleRequest ==
  [pc |-> "idle", cause |-> "none", doc |-> NewOperation, seen |-> "none",
   dispute |-> "none"]

----------------------------------------------------------------------------
(* A request moving through its handler.                                   *)

At(r, step) == req[r].pc = step

\* The first database call of handler h, in a free slot.
Idle(r, h) == h \in Handlers /\ req[r].pc = "idle"

Goto(r, step) == req' = [req EXCEPT ![r].pc = step]

\* The handler reads the operation and goes on with the copy.
Load(r, step) == req' = [req EXCEPT ![r].pc = step, ![r].doc = tx]

\* The handler reads another document, of which only the status matters.
See(r, status, step) == req' = [req EXCEPT ![r].pc = step, ![r].seen = status]

\* The handler returned or threw.
Finish(r) == req' = [req EXCEPT ![r] = IdleRequest]

\* tx.status = s; await tx.save(): mongoose writes a path only if it changed.
SetStatus(doc, s) == IF doc.status = s THEN tx.status ELSE s

\* Handlers that find the operation still FUNDED move it on; the others
\* leave the stored status alone.
AdvanceFunded(doc) == IF doc.status = "FUNDED" THEN "IN_PROGRESS" ELSE tx.status

\* One of the failures a run allows.
Fail ==
  /\ world.failures < MaxFailures
  /\ world' = [world EXCEPT !.failures = @ + 1]

----------------------------------------------------------------------------
Init ==
  /\ tx = NewOperation
  /\ hold = "none"
  /\ docs = {}
  /\ commission = "none"
  /\ matured = FALSE
  /\ wallet = [held |-> 0, sold |-> 0, pend |-> 0, avail |-> 0, earned |-> 0]
  /\ world = [open |-> FALSE, paid |-> FALSE, rejected |-> FALSE,
           refunded |-> FALSE, notices |-> 0, failures |-> 0]
  /\ disputes = [d \in DisputeIds |-> "none"]
  /\ req = [r \in Requests |-> IdleRequest]

----------------------------------------------------------------------------
(* createBuyerCheckout and createAgentFeeOnlyCheckout.                     *)

StartCheckout(r) ==
  /\ Idle(r, "checkout")
  /\ tx.status = "ACCEPTED"
  /\ AgentFeeOnly => tx.agent
  /\ Goto(r, "checkout.find")
  /\ UNCHANGED <<tx, hold, docs, commission, matured, wallet, world, disputes>>

\* An unpaid hold is reused; a captured one ends the checkout; a failed,
\* refunded or released one is not found, and a new one is tried.
CheckoutFindHold(r) ==
  /\ At(r, "checkout.find")
  /\ \/ hold \in {"PENDING", "REQUIRES_ACTION"} /\ See(r, hold, "checkout.preference")
     \/ hold = "CAPTURED" /\ Finish(r)
     \/ hold \notin {"PENDING", "REQUIRES_ACTION", "CAPTURED"} /\ Goto(r, "checkout.create")
  /\ UNCHANGED <<tx, hold, docs, commission, matured, wallet, world, disputes>>

\* The idempotency key of the hold is unique: a second insert throws.
CheckoutCreateHold(r) ==
  /\ At(r, "checkout.create")
  /\ \/ hold = "none" /\ hold' = "PENDING" /\ See(r, "PENDING", "checkout.preference")
     \/ hold # "none" /\ Finish(r) /\ UNCHANGED hold
  /\ UNCHANGED <<tx, docs, commission, matured, wallet, world, disputes>>

CheckoutPreference(r) ==
  /\ At(r, "checkout.preference")
  /\ world' = [world EXCEPT !.open = TRUE]
  /\ Goto(r, "checkout.save")
  /\ UNCHANGED <<tx, hold, docs, commission, matured, wallet, disputes>>

CheckoutSaveHold(r) ==
  /\ At(r, "checkout.save")
  /\ hold' = IF req[r].seen = "REQUIRES_ACTION" THEN hold ELSE "REQUIRES_ACTION"
  /\ Finish(r)
  /\ UNCHANGED <<tx, docs, commission, matured, wallet, world, disputes>>

Checkout(r) ==
  \/ StartCheckout(r) \/ CheckoutFindHold(r) \/ CheckoutCreateHold(r)
  \/ CheckoutPreference(r) \/ CheckoutSaveHold(r)

----------------------------------------------------------------------------
(* Mercado Pago (external) and the notices it sends: in any order, late,   *)
(* and more than once.                                                     *)

BuyerPays ==
  /\ world.open /\ ~world.paid
  /\ world' = [world EXCEPT !.paid = TRUE]
  /\ UNCHANGED <<tx, hold, docs, commission, matured, wallet, disputes, req>>

\* A card is declined; the buyer may try again with the same preference.
AttemptFails ==
  /\ world.open /\ ~world.paid /\ ~world.rejected
  /\ world' = [world EXCEPT !.rejected = TRUE]
  /\ UNCHANGED <<tx, hold, docs, commission, matured, wallet, disputes, req>>

Approved == world.paid /\ ~world.refunded

\* The news of an approved payment reaches the API once more.
Notice == world' = [world EXCEPT !.notices = @ + 1]

\* Mutant: any notice counts as an approval.
WebhookUnchecked(r) ==
  /\ Idle(r, "webhook")
  /\ world.notices < MaxNotices
  /\ Notice
  /\ Goto(r, "confirm.load")
  /\ UNCHANGED <<tx, hold, docs, commission, matured, wallet, disputes>>

\* handleMercadoPagoWebhook, payment approved: confirmHold follows.
WebhookApproved(r) ==
  /\ Idle(r, "webhook")
  /\ Approved
  /\ world.notices < MaxNotices
  /\ Notice
  /\ Goto(r, "confirm.load")
  /\ UNCHANGED <<tx, hold, docs, commission, matured, wallet, disputes>>

\* handleMercadoPagoWebhook, payment rejected or cancelled: one updateOne,
\* whatever the hold's status.
WebhookRejected ==
  /\ "webhook" \in Handlers
  /\ world.rejected
  /\ hold # "none"
  /\ hold' = "FAILED"
  /\ UNCHANGED <<tx, docs, commission, matured, wallet, world, disputes, req>>

\* syncCheckoutReturn: the buyer comes back from the checkout page.
StartSync(r) ==
  /\ Idle(r, "sync")
  /\ hold \notin {"none", "CAPTURED", "RELEASED"}
  /\ world.notices < MaxNotices
  /\ Goto(r, "sync.lookup")
  /\ UNCHANGED <<tx, hold, docs, commission, matured, wallet, world, disputes>>

\* Mutant: the provider's answer is not looked at.
SyncLookupUnchecked(r) ==
  /\ At(r, "sync.lookup")
  /\ Notice /\ Goto(r, "confirm.load")
  /\ UNCHANGED <<tx, hold, docs, commission, matured, wallet, disputes>>

SyncLookup(r) ==
  /\ At(r, "sync.lookup")
  /\ \/ Approved /\ Notice /\ Goto(r, "confirm.load")
     \/ ~Approved /\ Finish(r) /\ UNCHANGED world
  /\ UNCHANGED <<tx, hold, docs, commission, matured, wallet, disputes>>

----------------------------------------------------------------------------
(* confirmHold.                                                            *)

\* Mutant: only a hold still PENDING is confirmed.
ConfirmLoadPendingHold(r) ==
  /\ At(r, "confirm.load")
  /\ \/ hold # "PENDING" /\ Finish(r)
     \/ hold = "PENDING" /\ Goto(r, "confirm.tx")
  /\ UNCHANGED <<tx, hold, docs, commission, matured, wallet, world, disputes>>

ConfirmLoadHold(r) ==
  /\ At(r, "confirm.load")
  /\ \/ hold \in {"CAPTURED", "RELEASED"} /\ Finish(r)
     \/ hold \notin {"CAPTURED", "RELEASED"} /\ Goto(r, "confirm.tx")
  /\ UNCHANGED <<tx, hold, docs, commission, matured, wallet, world, disputes>>

ConfirmLoadTx(r) ==
  /\ At(r, "confirm.tx")
  /\ Load(r, "confirm.save")
  /\ UNCHANGED <<tx, hold, docs, commission, matured, wallet, world, disputes>>

ConfirmSaveHold(r) ==
  /\ At(r, "confirm.save")
  /\ hold' = "CAPTURED"
  /\ Goto(r, IF AgentFeeOnly THEN "confirm.status" ELSE "confirm.wallet")
  /\ UNCHANGED <<tx, docs, commission, matured, wallet, world, disputes>>

\* Only in ESCROW_FULL: the price is held in the seller's wallet.
ConfirmWallet(r) ==
  /\ At(r, "confirm.wallet")
  /\ wallet' = [wallet EXCEPT !.held = @ + HoldCents]
  /\ Goto(r, "confirm.status")
  /\ UNCHANGED <<tx, hold, docs, commission, matured, world, disputes>>

ConfirmSaveTx(r) ==
  /\ At(r, "confirm.status")
  /\ \/ /\ req[r].doc.status = "ACCEPTED"
        /\ tx' = [tx EXCEPT !.status = IF req[r].doc.agent THEN "IN_PROGRESS" ELSE "FUNDED"]
     \/ req[r].doc.status # "ACCEPTED" /\ UNCHANGED tx
  /\ Finish(r)
  /\ UNCHANGED <<hold, docs, commission, matured, wallet, world, disputes>>

ConfirmHold(r) ==
  \/ WebhookApproved(r) \/ StartSync(r) \/ SyncLookup(r)
  \/ ConfirmLoadHold(r) \/ ConfirmLoadTx(r) \/ ConfirmSaveHold(r)
  \/ ConfirmWallet(r) \/ ConfirmSaveTx(r)

----------------------------------------------------------------------------
(* releaseEscrow, from its own route or at the end of a delivery handler.  *)

\* Mutant: the status is not asserted.
ReleasableInAnyStatus(doc) ==
  /\ doc.decision = "ACCEPTED" => doc.arrival /\ doc.delivery
  /\ doc.verified => doc.decision # "none"

\* Mutant: one delivery confirmation is enough.
ReleasableHalfDelivered(doc) ==
  /\ doc.status \in Active
  /\ doc.decision = "ACCEPTED" => doc.arrival \/ doc.delivery
  /\ doc.verified => doc.decision # "none"

\* Guards on the loaded document, assertNotPastDeadline being a no-op.
Releasable(doc) ==
  /\ doc.status \in Active
  /\ doc.decision = "ACCEPTED" => doc.arrival /\ doc.delivery
  /\ doc.verified => doc.decision # "none"

StartRelease(r) ==
  /\ Idle(r, "release")
  /\ Releasable(tx)
  /\ Load(r, "release.hold")
  /\ UNCHANGED <<tx, hold, docs, commission, matured, wallet, world, disputes>>

\* The delivery handlers call releaseEscrow, which reads the operation anew.
ReleaseLoad(r) ==
  /\ At(r, "release.load")
  /\ \/ Releasable(tx) /\ Load(r, "release.hold")
     \/ ~Releasable(tx) /\ Finish(r)
  /\ UNCHANGED <<tx, hold, docs, commission, matured, wallet, world, disputes>>

ReleaseFindHold(r) ==
  /\ At(r, "release.hold")
  /\ \/ hold = "CAPTURED" /\ Goto(r, "release.check")
     \/ hold # "CAPTURED" /\ Finish(r)
  /\ UNCHANGED <<tx, hold, docs, commission, matured, wallet, world, disputes>>

\* alreadyReleased, and in AGENT_FEE_ONLY an agent to be paid.
MaySettle(doc) == "release" \notin docs /\ (AgentFeeOnly => doc.agent)

ReleaseCheck(r) ==
  /\ At(r, "release.check")
  /\ \/ /\ MaySettle(req[r].doc)
        /\ Goto(r, IF AgentFeeOnly THEN "release.fee" ELSE "release.release")
     \/ ~MaySettle(req[r].doc) /\ Finish(r)
  /\ UNCHANGED <<tx, hold, docs, commission, matured, wallet, world, disputes>>

\* Mutant: the idempotency key is not unique.
InsertAgain(r, key, step) ==
  /\ docs' = docs \cup {key} /\ Goto(r, step)
  /\ UNCHANGED <<tx, hold, commission, matured, wallet, world, disputes>>

\* PaymentModel.create with a unique idempotency key: inserted, or E11000.
Insert(r, key, step) ==
  /\ \/ key \notin docs /\ docs' = docs \cup {key} /\ Goto(r, step)
     \/ key \in docs /\ UNCHANGED docs /\ Finish(r)
  /\ UNCHANGED <<tx, hold, commission, matured, wallet, world, disputes>>

ReleaseInsertFee(r) ==
  /\ At(r, "release.fee")
  /\ Insert(r, "fee", IF AgentFeeOnly \/ req[r].doc.agent THEN "release.agent"
                      ELSE "release.seller")

ReleaseInsertAgent(r) ==
  /\ At(r, "release.agent")
  /\ Insert(r, "agent", "release.commission")

ReleaseInsertRelease(r) ==
  /\ At(r, "release.release")
  /\ Insert(r, "release", IF AgentFeeOnly THEN "release.holdSave" ELSE "release.fee")

\* recordOnCompleted: a duplicate commission is found, not credited again.
AfterCommission == IF AgentFeeOnly THEN "release.release" ELSE "release.seller"

\* Mutant: the commission is recorded and not credited.
RecordCommissionOnly(r) ==
  /\ At(r, "release.commission")
  /\ commission' = IF commission = "none" THEN "PENDING" ELSE commission
  /\ Goto(r, AfterCommission)
  /\ UNCHANGED <<tx, hold, docs, matured, wallet, world, disputes>>

RecordCommission(r) ==
  /\ At(r, "release.commission")
  /\ commission' = IF commission = "none" THEN "PENDING" ELSE commission
  /\ Goto(r, IF commission = "none" THEN "release.credit" ELSE AfterCommission)
  /\ UNCHANGED <<tx, hold, docs, matured, wallet, world, disputes>>

CreditAgent(r) ==
  /\ At(r, "release.credit")
  /\ wallet' = [wallet EXCEPT !.pend = @ + AgentFee, !.earned = @ + AgentFee]
  /\ Goto(r, AfterCommission)
  /\ UNCHANGED <<tx, hold, docs, commission, matured, world, disputes>>

CreditSeller(r) ==
  /\ At(r, "release.seller")
  /\ wallet' = [wallet EXCEPT !.held = @ - HoldCents, !.sold = @ + SellerNet]
  /\ Goto(r, "release.holdSave")
  /\ UNCHANGED <<tx, hold, docs, commission, matured, world, disputes>>

\* Mutant: the hold is given the operation's status.
ReleaseSaveHoldCompleted(r) ==
  /\ At(r, "release.holdSave")
  /\ hold' = "COMPLETED"
  /\ Goto(r, "release.txSave")
  /\ UNCHANGED <<tx, docs, commission, matured, wallet, world, disputes>>

ReleaseSaveHold(r) ==
  /\ At(r, "release.holdSave")
  /\ hold' = "RELEASED"
  /\ Goto(r, "release.txSave")
  /\ UNCHANGED <<tx, docs, commission, matured, wallet, world, disputes>>

\* The transition is asserted on the document loaded at the start.
ReleaseSaveTx(r) ==
  /\ At(r, "release.txSave")
  /\ tx' = [tx EXCEPT !.status = "COMPLETED"]
  /\ Finish(r)
  /\ UNCHANGED <<hold, docs, commission, matured, wallet, world, disputes>>

ReleaseEscrow(r) ==
  \/ StartRelease(r) \/ ReleaseLoad(r) \/ ReleaseFindHold(r) \/ ReleaseCheck(r)
  \/ ReleaseInsertFee(r) \/ ReleaseInsertAgent(r) \/ ReleaseInsertRelease(r)
  \/ RecordCommission(r) \/ CreditAgent(r) \/ CreditSeller(r)
  \/ ReleaseSaveHold(r) \/ ReleaseSaveTx(r)

----------------------------------------------------------------------------
(* reverseForTransaction and the cancellation that follows or precedes it. *)

Live == {"PENDING", "AVAILABLE", "BLOCKED"}

AfterReverse(r) ==
  IF req[r].cause = "CANCEL" THEN Finish(r) ELSE Goto(r, "cancel.tx")

ReverseFind(r) ==
  /\ At(r, "reverse.find")
  /\ \/ commission \in Live /\ See(r, commission, "reverse.wallet")
     \/ commission \notin Live /\ AfterReverse(r)
  /\ UNCHANGED <<tx, hold, docs, commission, matured, wallet, world, disputes>>

\* The balance debited is the one of the status read, not of the status now.
ReverseWallet(r) ==
  /\ At(r, "reverse.wallet")
  /\ wallet' = IF req[r].seen = "AVAILABLE"
               THEN [wallet EXCEPT !.avail = @ - AgentFee]
               ELSE [wallet EXCEPT !.pend = @ - AgentFee]
  /\ Goto(r, "reverse.save")
  /\ UNCHANGED <<tx, hold, docs, commission, matured, world, disputes>>

ReverseSave(r) ==
  /\ At(r, "reverse.save")
  /\ commission' = "REVERSED"
  /\ AfterReverse(r)
  /\ UNCHANGED <<tx, hold, docs, matured, wallet, world, disputes>>

\* Mutant: the cancelled operation is not saved.
CancelTxUnsaved(r) ==
  /\ At(r, "cancel.tx")
  /\ CASE req[r].cause = "REJECT" -> Goto(r, "reject.decide")
       [] req[r].cause = "CANCEL" -> Goto(r, "reverse.find")
       [] OTHER -> Finish(r)
  /\ UNCHANGED <<tx, hold, docs, commission, matured, wallet, world, disputes>>

CancelTx(r) ==
  /\ At(r, "cancel.tx")
  /\ IF Machine!CanTransition(req[r].doc.status, "CANCELLED")
     THEN /\ tx' = [tx EXCEPT !.status = SetStatus(req[r].doc, "CANCELLED")]
          /\ CASE req[r].cause = "REJECT" -> Goto(r, "reject.decide")
               [] req[r].cause = "CANCEL" -> Goto(r, "reverse.find")
               [] OTHER -> Finish(r)
     ELSE Finish(r) /\ UNCHANGED tx
  /\ UNCHANGED <<hold, docs, commission, matured, wallet, world, disputes>>

Cancellation(r) == ReverseFind(r) \/ ReverseWallet(r) \/ ReverseSave(r) \/ CancelTx(r)

----------------------------------------------------------------------------
(* buyerRejectProduct and the refundEscrowAndCancel it calls.              *)

Undecided(doc) == doc.verified /\ doc.decision = "none" /\ doc.status \in Active

StartReject(r) ==
  /\ Idle(r, "reject")
  /\ Undecided(tx)
  /\ req' = [req EXCEPT ![r].pc = "reject.load", ![r].cause = "REJECT"]
  /\ UNCHANGED <<tx, hold, docs, commission, matured, wallet, world, disputes>>

RejectLoadTx(r) ==
  /\ At(r, "reject.load")
  /\ \/ tx.status \in Active /\ Load(r, "reject.hold")
     \/ tx.status \notin Active /\ Finish(r)
  /\ UNCHANGED <<tx, hold, docs, commission, matured, wallet, world, disputes>>

RejectFindHold(r) ==
  /\ At(r, "reject.hold")
  /\ \/ hold = "CAPTURED" /\ Goto(r, "reject.check")
     \/ hold # "CAPTURED" /\ Finish(r)
  /\ UNCHANGED <<tx, hold, docs, commission, matured, wallet, world, disputes>>

RejectCheck(r) ==
  /\ At(r, "reject.check")
  /\ \/ "release" \notin docs /\ Goto(r, "reject.provider")
     \/ "release" \in docs /\ Finish(r)
  /\ UNCHANGED <<tx, hold, docs, commission, matured, wallet, world, disputes>>

\* refundPayment succeeds (again, if it already did: its key is the payment)
\* or throws, and the handler with it.
Refund(r, step) ==
  \/ world' = [world EXCEPT !.refunded = TRUE] /\ Goto(r, step)
  \/ Fail /\ Finish(r)

RejectRefund(r) ==
  /\ At(r, "reject.provider")
  /\ Refund(r, "reject.wallet")
  /\ UNCHANGED <<tx, hold, docs, commission, matured, wallet, disputes>>

\* In both funding modes, although only ESCROW_FULL ever credited it.
RejectWallet(r) ==
  /\ At(r, "reject.wallet")
  /\ wallet' = [wallet EXCEPT !.held = @ - HoldCents]
  /\ Goto(r, "reject.save")
  /\ UNCHANGED <<tx, hold, docs, commission, matured, world, disputes>>

RejectSaveHold(r) ==
  /\ At(r, "reject.save")
  /\ hold' = "REFUNDED"
  /\ Goto(r, "reverse.find")
  /\ UNCHANGED <<tx, docs, commission, matured, wallet, world, disputes>>

\* An error of reverseForTransaction is logged and swallowed here.
RejectReverseFails(r) ==
  /\ Fail
  /\ req[r].cause = "REJECT"
  /\ req[r].pc \in {"reverse.find", "reverse.wallet", "reverse.save"}
  /\ Goto(r, "cancel.tx")
  /\ UNCHANGED <<tx, hold, docs, commission, matured, wallet, disputes>>

RejectDecide(r) ==
  /\ At(r, "reject.decide")
  /\ tx' = [tx EXCEPT !.decision = "REJECTED"]
  /\ Finish(r)
  /\ UNCHANGED <<hold, docs, commission, matured, wallet, world, disputes>>

BuyerRejectProduct(r) ==
  \/ StartReject(r) \/ RejectLoadTx(r) \/ RejectFindHold(r) \/ RejectCheck(r)
  \/ RejectRefund(r) \/ RejectWallet(r) \/ RejectSaveHold(r)
  \/ RejectReverseFails(r) \/ RejectDecide(r)

----------------------------------------------------------------------------
(* openDispute.                                                            *)

Unused(d) == disputes[d] = "none" /\ \A s \in Requests : req[s].dispute # d

\* Mutant: a completed operation may be disputed too.
StartDisputeLate(r) ==
  /\ Idle(r, "openDispute")
  /\ tx.status \in Active \cup {"COMPLETED"}
  /\ \E d \in DisputeIds :
       /\ Unused(d)
       /\ req' = [req EXCEPT ![r].pc = "dispute.find", ![r].doc = tx, ![r].dispute = d]
  /\ UNCHANGED <<tx, hold, docs, commission, matured, wallet, world, disputes>>

StartDispute(r) ==
  /\ Idle(r, "openDispute")
  /\ tx.status \in Active
  /\ \E d \in DisputeIds :
       /\ Unused(d)
       /\ req' = [req EXCEPT ![r].pc = "dispute.find", ![r].doc = tx, ![r].dispute = d]
  /\ UNCHANGED <<tx, hold, docs, commission, matured, wallet, world, disputes>>

OpenDisputes == {d \in DisputeIds : disputes[d] = "OPEN"}

DisputeFindActive(r) ==
  /\ At(r, "dispute.find")
  /\ \/ OpenDisputes = {} /\ Goto(r, "dispute.tx")
     \/ OpenDisputes # {} /\ Finish(r)
  /\ UNCHANGED <<tx, hold, docs, commission, matured, wallet, world, disputes>>

DisputeSaveTx(r) ==
  /\ At(r, "dispute.tx")
  /\ tx' = [tx EXCEPT !.status = "DISPUTED"]
  /\ Goto(r, "dispute.create")
  /\ UNCHANGED <<hold, docs, commission, matured, wallet, world, disputes>>

DisputeCreate(r) ==
  /\ At(r, "dispute.create")
  /\ disputes' = [disputes EXCEPT ![req[r].dispute] = "OPEN"]
  /\ Goto(r, "dispute.block")
  /\ UNCHANGED <<tx, hold, docs, commission, matured, wallet, world>>

\* setDisputeBlocked(true).
DisputeBlock(r) ==
  /\ At(r, "dispute.block")
  /\ commission' = IF commission \in {"PENDING", "AVAILABLE"} THEN "BLOCKED" ELSE commission
  /\ Finish(r)
  /\ UNCHANGED <<tx, hold, docs, matured, wallet, world, disputes>>

OpenDispute(r) ==
  \/ StartDispute(r) \/ DisputeFindActive(r) \/ DisputeSaveTx(r)
  \/ DisputeCreate(r) \/ DisputeBlock(r)

----------------------------------------------------------------------------
(* resolveDispute.                                                         *)

Outcomes == {"RESUME", "CANCEL", "COMPLETE_WITH_REFUND"}

StartResolve(r) ==
  \E outcome \in Outcomes, d \in OpenDisputes :
    /\ Idle(r, outcome)
    /\ req' = [req EXCEPT ![r].pc = "resolve.tx", ![r].cause = outcome, ![r].dispute = d]
    /\ UNCHANGED <<tx, hold, docs, commission, matured, wallet, world, disputes>>

ResolveLoadTx(r) ==
  /\ At(r, "resolve.tx")
  /\ Load(r, "resolve.save")
  /\ UNCHANGED <<tx, hold, docs, commission, matured, wallet, world, disputes>>

ResolveSaveDispute(r) ==
  /\ At(r, "resolve.save")
  /\ disputes' = [disputes EXCEPT ![req[r].dispute] = "RESOLVED"]
  /\ Goto(r, CASE req[r].cause = "RESUME" -> "resume.tx"
               [] req[r].cause = "CANCEL" -> "cancel.tx"
               [] OTHER -> "refund.hold")
  /\ UNCHANGED <<tx, hold, docs, commission, matured, wallet, world>>

ResumeSaveTx(r) ==
  /\ At(r, "resume.tx")
  /\ IF Machine!CanTransition(req[r].doc.status, "IN_PROGRESS")
     THEN /\ tx' = [tx EXCEPT !.status = SetStatus(req[r].doc, "IN_PROGRESS")]
          /\ Goto(r, "resume.unblock")
     ELSE Finish(r) /\ UNCHANGED tx
  /\ UNCHANGED <<hold, docs, commission, matured, wallet, world, disputes>>

\* setDisputeBlocked(false): by the commission's date, the wallet untouched.
ResumeUnblock(r) ==
  /\ At(r, "resume.unblock")
  /\ commission' = IF commission # "BLOCKED" THEN commission
                   ELSE IF matured THEN "AVAILABLE" ELSE "PENDING"
  /\ Finish(r)
  /\ UNCHANGED <<tx, hold, docs, matured, wallet, world, disputes>>

RefundFindHold(r) ==
  /\ At(r, "refund.hold")
  /\ IF hold = "none" THEN Goto(r, "reverse.find") ELSE See(r, hold, "refund.provider")
  /\ UNCHANGED <<tx, hold, docs, commission, matured, wallet, world, disputes>>

RefundProvider(r) ==
  /\ At(r, "refund.provider")
  /\ Refund(r, "refund.save")
  /\ UNCHANGED <<tx, hold, docs, commission, matured, wallet, disputes>>

RefundSaveHold(r) ==
  /\ At(r, "refund.save")
  /\ hold' = IF req[r].seen = "REFUNDED" THEN hold ELSE "REFUNDED"
  /\ Goto(r, "reverse.find")
  /\ UNCHANGED <<tx, docs, commission, matured, wallet, world, disputes>>

ResolveDispute(r) ==
  \/ StartResolve(r) \/ ResolveLoadTx(r) \/ ResolveSaveDispute(r)
  \/ ResumeSaveTx(r) \/ ResumeUnblock(r)
  \/ RefundFindHold(r) \/ RefundProvider(r) \/ RefundSaveHold(r)

----------------------------------------------------------------------------
(* Verification and delivery.                                              *)

\* Mutant: the agent may finish the verification again.
StartFinalizeAgain(r) ==
  /\ Idle(r, "finalize")
  /\ tx.agent /\ tx.status \in Active
  /\ Load(r, "finalize.save")
  /\ UNCHANGED <<tx, hold, docs, commission, matured, wallet, world, disputes>>

StartFinalize(r) ==
  /\ Idle(r, "finalize")
  /\ tx.agent /\ ~tx.verified /\ tx.status \in Active
  /\ Load(r, "finalize.save")
  /\ UNCHANGED <<tx, hold, docs, commission, matured, wallet, world, disputes>>

\* agentVerification is replaced as a whole: a decision in it is dropped.
FinalizeSave(r) ==
  /\ At(r, "finalize.save")
  /\ tx' = [tx EXCEPT !.verified = TRUE, !.decision = "none",
                      !.status = AdvanceFunded(req[r].doc)]
  /\ Finish(r)
  /\ UNCHANGED <<hold, docs, commission, matured, wallet, world, disputes>>

StartAcceptProduct(r) ==
  /\ Idle(r, "acceptProduct")
  /\ Undecided(tx)
  /\ Load(r, "acceptProduct.save")
  /\ UNCHANGED <<tx, hold, docs, commission, matured, wallet, world, disputes>>

AcceptProductSave(r) ==
  /\ At(r, "acceptProduct.save")
  /\ tx' = [tx EXCEPT !.decision = "ACCEPTED", !.status = AdvanceFunded(req[r].doc)]
  /\ Finish(r)
  /\ UNCHANGED <<hold, docs, commission, matured, wallet, world, disputes>>

InDelivery(doc) == doc.decision = "ACCEPTED" /\ doc.status \in Active

\* deliveryConfirmation is replaced as a whole by the loaded one, changed;
\* the status is only advanced when the loaded one was FUNDED.
SaveDelivery(r, arrival, delivery, clock, reminded) ==
  tx' = [tx EXCEPT !.arrival = arrival, !.delivery = delivery, !.clock = clock,
                   !.reminded = reminded, !.status = AdvanceFunded(req[r].doc)]

StartConfirmArrival(r) ==
  /\ Idle(r, "confirmArrival")
  /\ InDelivery(tx) /\ ~tx.arrival
  /\ Load(r, "arrival.save")
  /\ UNCHANGED <<tx, hold, docs, commission, matured, wallet, world, disputes>>

\* The deadline starts again: firstConfirmedAt does not survive the spread
\* of a subdocument, so stampFirstDeliveryConfirmationDeadline stamps it.
ConfirmArrivalSave(r) ==
  /\ At(r, "arrival.save")
  /\ SaveDelivery(r, TRUE, req[r].doc.delivery, "running", req[r].doc.reminded)
  /\ \/ req[r].doc.delivery /\ Goto(r, "release.load")
     \/ ~req[r].doc.delivery /\ Finish(r)
  /\ UNCHANGED <<hold, docs, commission, matured, wallet, world, disputes>>

StartConfirmDelivery(r) ==
  /\ Idle(r, "confirmDelivery")
  /\ tx.agent /\ InDelivery(tx) /\ ~tx.delivery
  /\ Load(r, "delivery.save")
  /\ UNCHANGED <<tx, hold, docs, commission, matured, wallet, world, disputes>>

ConfirmDeliverySave(r) ==
  /\ At(r, "delivery.save")
  /\ SaveDelivery(r, req[r].doc.arrival, TRUE, "running", req[r].doc.reminded)
  /\ \/ req[r].doc.arrival /\ Goto(r, "release.load")
     \/ ~req[r].doc.arrival /\ Finish(r)
  /\ UNCHANGED <<hold, docs, commission, matured, wallet, world, disputes>>

Delivery(r) ==
  \/ StartFinalize(r) \/ FinalizeSave(r)
  \/ StartAcceptProduct(r) \/ AcceptProductSave(r)
  \/ StartConfirmArrival(r) \/ ConfirmArrivalSave(r)
  \/ StartConfirmDelivery(r) \/ ConfirmDeliverySave(r)

----------------------------------------------------------------------------
(* autoCompleteStaleDeliveries, a timer job: the reminder and, 72 hours    *)
(* after one confirmation, the other one and the release.                  *)

OneConfirmation(doc) == InDelivery(doc) /\ doc.arrival # doc.delivery

StartRemind(r) ==
  /\ Idle(r, "remind")
  /\ OneConfirmation(tx) /\ tx.clock = "closing" /\ ~tx.reminded
  /\ Load(r, "remind.save")
  /\ UNCHANGED <<tx, hold, docs, commission, matured, wallet, world, disputes>>

\* The reminder writes back the confirmations and the deadline it loaded.
RemindSave(r) ==
  /\ At(r, "remind.save")
  /\ LET doc == req[r].doc IN
     tx' = [tx EXCEPT !.arrival = doc.arrival, !.delivery = doc.delivery, !.reminded = TRUE,
                      !.clock = IF tx.clock = "passed" THEN "passed" ELSE doc.clock]
  /\ Finish(r)
  /\ UNCHANGED <<hold, docs, commission, matured, wallet, world, disputes>>

StartAutoComplete(r) ==
  /\ Idle(r, "autoComplete")
  /\ OneConfirmation(tx) /\ tx.clock = "passed"
  /\ Load(r, "auto.save")
  /\ UNCHANGED <<tx, hold, docs, commission, matured, wallet, world, disputes>>

\* Mutant: the job adds the confirmation and releases nothing.
AutoCompleteSaveOnly(r) ==
  /\ At(r, "auto.save")
  /\ SaveDelivery(r, TRUE, TRUE, "passed", req[r].doc.reminded)
  /\ Finish(r)
  /\ UNCHANGED <<hold, docs, commission, matured, wallet, world, disputes>>

AutoCompleteSave(r) ==
  /\ At(r, "auto.save")
  /\ SaveDelivery(r, TRUE, TRUE, "passed", req[r].doc.reminded)
  /\ Goto(r, "release.load")
  /\ UNCHANGED <<hold, docs, commission, matured, wallet, world, disputes>>

AutoComplete(r) ==
  \/ StartRemind(r) \/ RemindSave(r) \/ StartAutoComplete(r) \/ AutoCompleteSave(r)

----------------------------------------------------------------------------
(* The agent comes and goes; reading an operation heals its status.        *)

\* acceptOffer and acceptOpenJob: no accepted agent yet.
StartAgentAccept(r) ==
  /\ Idle(r, "agentAccept")
  /\ ~tx.agent
  /\ Load(r, "agent.save")
  /\ UNCHANGED <<tx, hold, docs, commission, matured, wallet, world, disputes>>

AgentAcceptSave(r) ==
  /\ At(r, "agent.save")
  /\ tx' = [tx EXCEPT !.agent = TRUE, !.status = AdvanceFunded(req[r].doc)]
  /\ Finish(r)
  /\ UNCHANGED <<hold, docs, commission, matured, wallet, world, disputes>>

\* withdrawFromJob changes one participant in place, so mongoose checks the
\* version and the save fails if any other save intervened: one action.
AgentWithdraw ==
  /\ "agentWithdraw" \in Handlers
  /\ tx.agent
  /\ tx.status \in {"ACCEPTED", "FUNDED", "IN_PROGRESS", "DISPUTED"}
  /\ tx' = [tx EXCEPT !.agent = FALSE]
  /\ UNCHANGED <<hold, docs, commission, matured, wallet, world, disputes, req>>

\* getByCode.
StartHeal(r) ==
  /\ Idle(r, "heal")
  /\ tx.agent /\ tx.status = "FUNDED"
  /\ Goto(r, "heal.save")
  /\ UNCHANGED <<tx, hold, docs, commission, matured, wallet, world, disputes>>

HealSave(r) ==
  /\ At(r, "heal.save")
  /\ tx' = [tx EXCEPT !.status = "IN_PROGRESS"]
  /\ Finish(r)
  /\ UNCHANGED <<hold, docs, commission, matured, wallet, world, disputes>>

Agents(r) == StartAgentAccept(r) \/ AgentAcceptSave(r) \/ StartHeal(r) \/ HealSave(r)

----------------------------------------------------------------------------
(* releaseDue, a timer job: a matured commission becomes available.  The   *)
(* claim is one findOneAndUpdate that tests the status again.              *)

ClaimDue(r) ==
  /\ Idle(r, "releaseDue")
  /\ commission = "PENDING" /\ matured
  /\ commission' = "AVAILABLE"
  /\ Goto(r, "due.wallet")
  /\ UNCHANGED <<tx, hold, docs, matured, wallet, world, disputes>>

\* Mutant: the matured commission is not taken out of the pending balance.
DueWalletTwice(r) ==
  /\ At(r, "due.wallet")
  /\ wallet' = [wallet EXCEPT !.avail = @ + AgentFee]
  /\ Finish(r)
  /\ UNCHANGED <<tx, hold, docs, commission, matured, world, disputes>>

DueWallet(r) ==
  /\ At(r, "due.wallet")
  /\ wallet' = [wallet EXCEPT !.pend = @ - AgentFee, !.avail = @ + AgentFee]
  /\ Finish(r)
  /\ UNCHANGED <<tx, hold, docs, commission, matured, world, disputes>>

ReleaseDue(r) == ClaimDue(r) \/ DueWallet(r)

----------------------------------------------------------------------------
(* Time, and a process that dies or a database call that throws.           *)

DeadlineNears ==
  /\ tx.clock \in {"running", "closing"}
  /\ tx' = [tx EXCEPT !.clock = IF tx.clock = "running" THEN "closing" ELSE "passed"]
  /\ UNCHANGED <<hold, docs, commission, matured, wallet, world, disputes, req>>

CommissionMatures ==
  /\ commission # "none" /\ ~matured
  /\ matured' = TRUE
  /\ UNCHANGED <<tx, hold, docs, commission, wallet, world, disputes, req>>

Abort(r) ==
  /\ Fail
  /\ req[r].pc # "idle"
  /\ Finish(r)
  /\ UNCHANGED <<tx, hold, docs, commission, matured, wallet, disputes>>

Request(r) ==
  \/ Checkout(r) \/ ConfirmHold(r) \/ ReleaseEscrow(r) \/ Cancellation(r)
  \/ BuyerRejectProduct(r) \/ OpenDispute(r) \/ ResolveDispute(r)
  \/ Delivery(r) \/ AutoComplete(r) \/ Agents(r) \/ ReleaseDue(r)

Environment ==
  \/ BuyerPays \/ AttemptFails \/ WebhookRejected \/ AgentWithdraw
  \/ DeadlineNears \/ CommissionMatures

Next == Environment \/ \E r \in Requests : Request(r) \/ Abort(r)

Spec == Init /\ [][Next]_vars

----------------------------------------------------------------------------
(* Fairness: the event loop carries every started handler on, the timer    *)
(* job runs again and again, deadlines pass, and Mercado Pago notifies an  *)
(* approved payment until the bound on notices.                            *)

Continue(r) == req[r].pc # "idle" /\ Request(r)

FairSpec ==
  /\ Spec
  /\ \A r \in Requests : WF_vars(Continue(r))
  /\ SF_vars(\E r \in Requests : StartAutoComplete(r))
  /\ SF_vars(\E r \in Requests : WebhookApproved(r))
  /\ WF_vars(DeadlineNears)

----------------------------------------------------------------------------
(* Safety with any number of requests, any interleaving and any failure.   *)

\* Every document and request has the shape the handlers rely on.
TypeOK ==
  /\ tx \in Operations
  /\ hold \in HoldStatuses
  /\ docs \subseteq PaymentKeys
  /\ commission \in CommissionStatuses
  /\ matured \in BOOLEAN
  /\ wallet \in Wallets
  /\ world \in Worlds
  /\ disputes \in [DisputeIds -> {"none", "OPEN", "RESOLVED"}]
  /\ req \in [Requests -> RequestStates]

\* However many releases run, retry or die, the seller is credited at most
\* one net price and the agent at most one fee.
PaidAtMostOnce ==
  /\ wallet.sold \in {0, SellerNet}
  /\ wallet.earned \in {0, AgentFee}

\* The payments of a finished settlement, and the balances they stand for.
Settled ==
  /\ {"fee", "release"} \subseteq docs
  /\ ~AgentFeeOnly => wallet.sold = SellerNet
  /\ AgentFeeOnly \/ "agent" \in docs => wallet.earned = AgentFee

\* An operation reads COMPLETED, or its hold RELEASED, only when everybody
\* it pays has been paid, even if other requests overwrite either of them.
CompletedIsSettled == tx.status = "COMPLETED" \/ hold = "RELEASED" => Settled

\* An operation past ACCEPTED, a hold that was captured and any payment out
\* of it are backed by a payment the provider really collected: no order of
\* notices, checkouts and stale saves funds an operation by itself.
NothingUnpaid ==
  \/ tx.status # "ACCEPTED"
  \/ hold \in {"CAPTURED", "RELEASED", "REFUNDED"}
  \/ docs # {}
  => world.paid

----------------------------------------------------------------------------
(* Why payment happens at most once: the first payment a release inserts   *)
(* has a unique key, so one release at most gets past it, ever.            *)

FirstKey == IF AgentFeeOnly THEN "fee" ELSE "release"
FirstStep == IF AgentFeeOnly THEN "release.fee" ELSE "release.release"

Settling(r) == req[r].pc \in SettlingSteps \ {FirstStep}

\* What a release past its first insert knows at each of its steps.
SettlerKnows(r) ==
  /\ FirstKey \in docs
  /\ req[r].pc \in {"release.fee", "release.agent"} => "agent" \notin docs
  /\ req[r].pc \in {"release.fee", "release.agent", "release.commission"} =>
       commission = "none"
  /\ req[r].pc \in {"release.fee", "release.agent", "release.commission", "release.credit"} =>
       wallet.earned = 0 /\ wallet.sold = 0
  /\ req[r].pc # "release.fee" => "fee" \in docs
  /\ req[r].pc = "release.release" => wallet.earned = AgentFee
  /\ req[r].pc = "release.seller" =>
       /\ ~AgentFeeOnly
       /\ wallet.sold = 0
       /\ "agent" \in docs => wallet.earned = AgentFee
  /\ req[r].pc \in {"release.holdSave", "release.txSave"} => Settled

\* A release past its first insert is alone and knows what is still unpaid;
\* before the first insert of all, nothing has been paid; and a commission is
\* only reversed once there is one.
SettlementInv ==
  /\ \A r \in Requests : Settling(r) => SettlerKnows(r)
  /\ \A r \in Requests : req[r].pc \in {"reverse.wallet", "reverse.save"} => commission # "none"
  /\ \A r, s \in Requests : Settling(r) /\ Settling(s) => r = s
  /\ FirstKey \notin docs =>
       docs = {} /\ commission = "none" /\ wallet.sold = 0 /\ wallet.earned = 0

----------------------------------------------------------------------------
(* What holds as long as handlers do not run into one another.             *)

Parties == {"seller", "agent", "platform"}

Given ==
  {p \in Parties \cup {"buyer"} :
     \/ p = "buyer" /\ world.refunded
     \/ p = "seller" /\ wallet.sold # 0
     \/ p = "agent" /\ wallet.earned # 0
     \/ p = "platform" /\ "fee" \in docs}

Ideal == INSTANCE IdealEscrow WITH collected <- world.paid, given <- Given

\* The handlers implement the ideal escrow: the buyer's money is shared out
\* or returned, never both.
ImplementsIdealEscrow == Ideal!Spec

\* The stored status, not only the loaded one, moves along the table of
\* state-machine.ts.
StatusFollowsTable == Machine!Spec

\* The buyer decides on the product once.
DecisionIsFinal == [][tx.decision # "none" => tx'.decision = tx.decision]_vars

\* An accepted product completes the operation only after the two delivery
\* confirmations, which no later save of the operation takes back.
CompletedIsDelivered ==
  tx.status = "COMPLETED" /\ tx.decision = "ACCEPTED" => tx.arrival /\ tx.delivery

AllIdle == \A r \in Requests : req[r].pc = "idle"

\* Between handlers, the agent's balances in the wallet are those that
\* getAgentBalances works out from the status of the commission, a blocked one
\* still pending (finance/commission.service.ts:394-424).
AgentBalancesMatch ==
  AllIdle =>
    /\ wallet.pend = IF commission \in {"PENDING", "BLOCKED"} THEN AgentFee ELSE 0
    /\ wallet.avail = IF commission = "AVAILABLE" THEN AgentFee ELSE 0

\* A disputed operation has a dispute an administrator can resolve, unless a
\* handler is still at work on it.
DisputedCanBeResolved == AllIdle /\ tx.status = "DISPUTED" => OpenDisputes # {}

\* While a dispute is open nobody is credited: "La liberacion de fondos quedo
\* pausada" (disputes/service.ts).
NoReleaseWhileDisputed ==
  [][OpenDisputes # {} =>
       wallet'.sold = wallet.sold /\ wallet'.earned = wallet.earned]_vars

----------------------------------------------------------------------------
(* Liveness.                                                               *)

\* What the buyer has paid reaches the operation.
PaidGetsFunded == world.paid ~> tx.status # "ACCEPTED"

\* One delivery confirmation is enough: after 72 hours the job adds the
\* other one and releases the money, if it is still protected.
OneConfirmationCompletes ==
  OneConfirmation(tx) ~>
    tx.status = "COMPLETED" \/ hold # "CAPTURED" \/ tx.decision # "ACCEPTED"

============================================================================
