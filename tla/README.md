# A formal model of ConfiApp

ConfiApp mediates purchases between strangers: buyer and seller agree on an
operation, the buyer pays through ConfiApp (Mercado Pago or a PREX transfer), an agent
may check and deliver the product, and the money is then released to those who earned
it or returned. These TLA+ modules model that program at the level at which it can go
wrong: the order in which HTTP handlers, provider notices, administrators and timer
jobs read and write the shared documents. TLC checks them on small instances and
TLAPS proves every invariant, action property and refinement that the runs check for every
instance, some under one request at a time.

Paths below are relative to `src/apps/api/src/modules/` unless they start with `src/`.

## 1. Inventory

The API is one or more Node processes over MongoDB. It uses neither database
transactions nor locks: a handler loads a document, awaits other calls, changes
its copy and saves it. Three facts follow and shape every module: between two awaits
any other request may run; what a handler decides on may be stale when it writes; and a
process that dies, or a call that throws, leaves the writes made so far.

What `save()` writes is modelled as mongoose does it: the paths the handler changed and
nothing else. A push to an array raises the version of the document without testing it;
a save that replaces an array, or changes an element in place, fails if the version has
moved; a subdocument assigned as a whole is written as a whole. `findOneAndUpdate` with
a condition, `$inc` and unique indexes are the only atomic steps there are.

| Component | State | Operations | What is hard | What makes it correct |
| --- | --- | --- | --- | --- |
| Agreement, `transactions/service.ts` | the operation before ACCEPTED, `pendingBuyerChanges`, the question to the buyer | create, invite, join, accept, confirm the sale, answer the changes, remind | several holders of one link, each on a copy | the buyer has agreed to what is sold; nobody is dropped |
| Protected payment, `payments/service.ts` | `payments` (hold, fee, agent payout, release), seller's `wallet.heldCents` | checkout, return from checkout, webhook, `confirmHold`, `releaseEscrow`, `refundEscrowAndCancel` | 4 to 9 writes in a row without a transaction; duplicated, late and reordered notices; unique keys as the only mutual exclusion | nobody paid twice, nothing paid out of nothing, released or refunded and not both |
| Manual PREX transfer, `payments/service.ts` | the same hold, its receipt and the mark of the administrator | submit a receipt, confirm, unconfirm | a confirmation is six writes and can be taken back, while agents and disputes go on | the held balance is what was received |
| Fees, `payments/split.ts`, `src/packages/shared/` | none | tiers, percentages, who pays | rounding, boundaries of tiers | the parts add up to the whole |
| Verification and delivery, `transactions/service.ts` | `transactions.status`, `agentVerification`, `deliveryConfirmation` | finalize, accept, reject, confirm arrival, confirm delivery | subdocuments replaced as a whole from a stale copy; transitions asserted on the loaded status | status moves along the table; a decision is final; completed means delivered |
| Disputes, `disputes/service.ts` | `disputes.status`, and the operation's | open; resolve by RESUME, CANCEL, COMPLETE_WITH_REFUND | two documents saved one after the other; dispute against release | a disputed operation can be resolved; no release meanwhile |
| Agent assignment, `agents/` | agents among the participants, offers as notifications, proofs of identity | offer, accept, reject, expire, reassign, open jobs, withdraw | two agents accept; a sweep against an acceptance | a proof buys one job; every offer ends; nobody is lost |
| Commissions, `finance/commission.service.ts` | `agentcommissions.status`, agent's pending and available balances | record, release after 14 days, block, unblock, reverse | timer job against disputes; balances moved apart from the status | balances are what the statuses say |
| Payouts and withdrawals, `finance/payout.service.ts`, `wallet/service.ts` | batches, payouts, withdrawals | create and confirm batches, request and complete withdrawals | a batch reserves one by one; one balance changed by `$inc` and by read-modify-write | a commission leaves once |
| Reputation, `reviews/` | reviews, ratings and counters of users | review, count a completed operation | totals kept beside the reviews, updated later on a copy | totals tell the history |
| Timer jobs, `src/apps/api/src/server.ts` | none | auto-complete (15 min), commissions (15 min), offers (15 s), deadlines (1 h) | run against handlers and against themselves | an abandoned delivery completes, offers expire, earnings mature |

Interactions. The agreement ends where the payment begins, with the operation ACCEPTED.
The delivery handlers and the auto-complete job call `releaseEscrow`;
`buyerRejectProduct` calls `refundEscrowAndCancel`; `releaseEscrow` calls
`recordOnCompleted`, which creates the commission that the payouts later pay, and
the completion counts in the reputation of the parties; disputes call `setDisputeBlocked`,
`reverseForTransaction` and the provider; the webhook, the return from the checkout and
the administrator all call `confirmHold`. They meet in the same operation, hold,
commission and wallets.

The remaining parts (authentication, agent onboarding, Mercado Pago account linking, chats,
evidence, audit, realtime, web client) do not decide anything of the above;
`PROJECT.json` lists each with the reason it is left out.

## 2. Modules

| Module | What it is | Instance for TLC | Proofs |
| --- | --- | --- | --- |
| `OperationStates` | the statuses and the transition table, and the abstract machine in which the status follows it | | |
| `IdealEscrow` | the abstract promise: money is collected once, then shared among the parties or given back whole | | |
| `Escrow` | the life of one operation's payment and delivery, every handler cut at its database and provider calls | `MCEscrow` | `EscrowProofs` |
| `OperationAgreement` | how the operation comes to be ACCEPTED | `MCAgreement` | `AgreementProofs` |
| `AgentJobs` | offers, open jobs and agents of one operation | `MCAgentJobs` | `AgentJobsProofs` |
| `AgentLedger` | commissions of several operations, their payouts, and withdrawals | `MCAgentLedger` | `AgentLedgerProofs`, `AgentBalanceProofs` |
| `FeeRules` | tiers, rounding and who pays, as operators on cents | | `ManualTransferProofs` |
| `ManualTransfer` | the PREX transfer, with `FeeRules` for its amounts | `MCManualTransfer` | `ManualTransferProofs` |
| `Reputation` | reviews and the totals kept of them | `MCReputation` | `ReputationProofs` |
| `SumTheorems` | sums over finite sets, for the two proof modules that add up money and ratings | | itself |

`Escrow`, `OperationAgreement` and `AgentJobs` take the transition table from
`OperationStates`; `Escrow` also has it as an abstract specification of its `tx.status`, and
implements `IdealEscrow` under `collected <- world.paid`, `given <- Given`. The
modules overlap where the code does: `AgentLedger` begins with the commissions that `Escrow`
creates, `ManualTransfer` lets agents, disputes, the release and the rejection act on the hold as atomic steps
that `AgentJobs` and `Escrow` model in detail.

In every module `req` holds the requests in flight: the step the handler has reached (`pc`),
the copy it loaded and what it has read or decided. An action is the code from one
database or provider call to the next: it reads the stored state only if the code reads the
database there, and decides on the copy where the code does. A handler that throws
frees its slot with its writes left as they are; `Abort` and `Abandon` are the death of the
process at any step. A handler whose guards fail immediately, having written nothing,
is not started. Text, histories, the audit log and e-mail are dropped.

### Escrow

State. `tx` is the stored operation: its status, whether an agent is accepted,
`agentVerification` (`verified`, `decision`), `deliveryConfirmation` (`arrival`,
`delivery`, the 72-hour `clock`, `reminded`). `hold` is the status of the
`ESCROW_HOLD` payment. `docs` holds the other payments by the prefix of their
unique idempotency key (`fee:`, `agent:`, `release:`). `commission` is the status of
the agent's commission and `matured` whether its 14 days have passed. `wallet` has
the seller's `held` balance, what was credited to the seller (`sold`) and the
agent (`earned`) in all, and the agent's `pend` and `avail` balances. `world` is
the provider: a preference exists, the buyer has paid, an attempt was declined,
the payment was refunded; and the two counters that bound the environment.

`req` is the new ingredient: one slot per request in flight, with the step its
handler has reached (`pc`), the copy of the operation it loaded (`doc`), the hold
or commission status it read (`seen`), why it cancels (`cause`) and the dispute it
is about. An action is the code from one database or provider call to the next:
it reads the stored state only if the code reads the database there, and decides on
`req[r].doc` where the code decides on a loaded document. A call that returns a
document on which the handler throws is the disjunct ending in `Finish`.

Abstractions. Amounts are constants; histories, notes, notifications and the audit
log are dropped. A handler whose guards fail immediately, having written nothing, is
not started. Consecutive reads whose results depend on immutable data are one
action. `heal` stands for the status repair of `getByCode`. `withdrawFromJob` is one
action because it modifies an element of an array in place, for which mongoose
checks the version. `assertNotPastDeadline` is a no-op in the code and in the model.
The caller of a handler is always the party it is meant for. One operation
is modelled, since nothing in the payment of one reads another.

The 72 hours are a clock with four values: `unset`, `running`, `closing` (the last
24 hours, when the reminder goes out), `passed`. A second confirmation starts it
anew, as `stampFirstDeliveryConfirmationDeadline` does when the spread of the
stored subdocument loses `firstConfirmedAt`.


### OperationAgreement

`tx` is the operation (status, who created it, funding mode, price, who pays the commission, the accepted
counterparties, the product and its terms, whether there are changes for the buyer, the link, the
deadline, `__v`), `listed` the people who have created a product for it, `ask` the notification
`PENDING_BUYER_CONFIRM`. Terms, prices and payers are opaque values, of which the record `Proposal` is what a
buyer asks for. A counterparty is anybody of `People` who holds the link. The diff of proposal and sale
(`buyer-proposal-diff.ts`) is whether they differ (`Varies`): the buyer's side of it is the proposed product and the
price and payer of the loaded copy.

`amountCents` and `feePayer` are paths of their own beside `product`, and mongoose writes a path only if its value
differs from the loaded copy's (`Kept`). A request that is about to save therefore carries the price and the payer of
its copy. In AGENT_FEE_ONLY neither is part of the agreement (`Under`). The currency is always UYU.

Two variables are history: `agreed`, the offers somebody has agreed to buy under (the buyer's own proposal, what a
buyer accepts, what is on offer when the buyer confirms), and `overtaken`, the statuses over which a sale was saved by
a seller whose copy was older than they.

### AgentJobs

`tx` is the operation's status and its agents, with those who have left; `offers` are the
notifications, each with its agent, answer, remaining queue and whether two minutes have passed;
`proof` the proofs of identity, `accepted` the history of what they were used for. Search results are
any agents the filters let through (`Hits`). Most handlers begin with the sweep that the timer also
runs, so `StartSweep` and its steps are shared. REJECTED, EXPIRED and REASSIGNED are one answer, CLOSED.

### AgentLedger

`com` are the commissions, `wallet` the two balances of each agent, `batches`, `payouts` and
`withdrawals` the other documents, `reversed` the history of what disputes took back. `Increment` is
`$inc`; `requestWithdrawal` works on a copy instead, as the code does. `Due` and `OwedTo` are the
filters of the searches. The operations of `Disputed` may be disputed at any time: a dispute blocks the
commission if it is not reserved yet (`Block`), and one that was open before the commission was recorded has
not blocked it (`Init`). The operation then goes on and may be disputed again (`Resume`), or the commission is taken
back (`StartReverse`). `BatchPayout` stores the payout, `BatchLink` its number on the commissions (`payout`).
The list of wallet movements, written and never read, is left out.

### ManualTransfer and FeeRules

`terms` is the sale, `op` the operation, `hold` the payment with its receipt and mark, `held` the seller's held
balance, `paid` the payments of the release. The buyer's request, the administrator's and each agent's have a slot of
their own. The release, with an agent or without, the rejection of the product and the outcomes of a dispute are one
step each, at any time. Two histories say what they leave behind: `stranded`, the cents that a refund after a dispute
leaves in the held balance, and `overlapped`, that one of them ran while a request of the buyer or of the
administrator was at work. `FeeRules` are the operators of the shared package on cents; the percentages are constants
between 0 and 10000, as the environment's schema demands. UYU is the only currency the program enables.

### Reputation

`operations` says which are completed and which still take reviews, `reviews` are the documents,
`users` the ratings overall and by role and the counters. A review has an age in three steps, which
is what the rules of reciprocal and rapid reviews look at.

## 3. Runs

| Run | What acts, requests at a time | Shows |
| --- | --- | --- |
| `EscrowSettlementFee` | settlement, 2, one failure, AGENT_FEE_ONLY | `TypeOK`, `CompletedIsSettled` |
| `EscrowSettlementFull` | checkout to release, refund or dispute, 2, two notices, one failure, ESCROW_FULL | `PaidAtMostOnce`, `NothingUnpaid` |
| `EscrowDelivery` | verification, delivery and timer jobs, 2, fair, AGENT_FEE_ONLY | `ImplementsIdealEscrow`, `PaidGetsFunded`, `OneConfirmationCompletes` |
| `EscrowSequential` | all, 1, two disputes, ESCROW_FULL | `AgentBalancesMatch`, `DisputedCanBeResolved`, `ImplementsIdealEscrow`, `NoReleaseWhileDisputed` |
| `EscrowFailures` | all, 1, one of them dying, AGENT_FEE_ONLY | `CompletedIsDelivered`, `StatusFollowsTable`, `DecisionIsFinal` |
| `Agreement` | creator and two holders of the link, 2, dying at will | `TypeOK`, `ConsentToTerms`, `PendingShowsChanges`, `AgreementIsComplete`, `JoinedStay` |
| `AgentJobsConcurrent` | parties, two agents, the sweep, 2, one failure, fair | `TypeOK`, `ProofSpentOnce`, `MediatorsAreKept`, `NoOfferPendsForever` |
| `AgentJobsSequential` | the same, 1, five requests of people | `NobodyIsAskedTwice`, `AcceptedOfferHasAgent` |
| `LedgerConcurrent` | two commissions, releases, disputes, batches, 2, one failure, fair | `TypeOK`, `OnePayoutEach`, `PaidHasPayout`, `PayoutsAreReserved`, `EarningsMature` |
| `LedgerSequential` | three commissions, two withdrawals, 1 | `WalletMatches`, `OnlySalesAreWithdrawn`, `Reconciled`, `BatchesTellTheirPayouts` |
| `ManualTransfer` | buyer, administrator, two agents, release, rejection, disputes | `TypeOK`, `HeldMatches`, `WaitingIsUnmarked`, `FundedMeansReceived`, `SharesAddUp` |
| `Reputation` | reviews and completions of two operations, 2 | `ReputationTellsHistory` |

### Bounds

Two requests in flight suffice for every race found: each involves two handlers, one of which is
overtaken. Section 5 says of which properties the theorems remove the bound, and which they prove of one
request at a time, for any amounts, agents, disputes and documents.

- `Escrow`: `MaxNotices` is 2 where duplicates matter, `MaxFailures` (requests that die at an
  arbitrary step, or refunds refused) 1 where failures matter. Two disputes, where the slots are few,
  let one be opened after another was resolved. The amounts are 4, 3 and 2 cents, so that no two
  sums of them coincide by accident.
- `Agreement`: two holders are the least that can get in each other's way; two terms, two
  prices and two payers let a sale differ in any part of it. Nothing else is bounded.
- `AgentJobs`: two agents, one of whom may turn notifications off; a place for one agent
  (`Parties` 2, `Limit` 3). `MaxRequests` bounds the requests of people, the sweep runs without bound,
  and `Reached` limits the statuses to which the rest of the program moves the operation.
- `AgentLedger`: one commission per agent where two requests overlap; two commissions of one agent, of
  unequal worth, where the sums matter. `PromptDispute` says that no operation is disputed once its commission
  is available, `PromptResume` that a disputed one only goes on within the 14 days; both are TRUE for the balances
  and FALSE for the payouts. One operation may be disputed, any number of times. Withdrawals take no
  part in `LedgerConcurrent`, because nothing checked there depends on them.
- `ManualTransfer`: prices one cent below and at the start of a tier, one that cannot pay the
  commission, one that can by one cent after halving, every payer, with tips and without; percentages
  whose roundings leave a cent over. The buyer and the administrator each make one request at a time.
  `OneOverlap`: once money has left the hold under a request, none is returned any more, or the
  balance could drift without end.
- `Reputation`: the same two people as buyer and seller in both operations, with the roles changed over;
  one operation is completed from the start. `RapidFire` is 1 instead of the code's number, so that three
  reviews reach it. `OneAtATime` keeps two updates of the same user's totals from overlapping.

Symmetry: requests (and disputes, people, agents where a run's module defines `Symmetry`
over them) are interchangeable, since only equality is tested of them. It is used in runs of
invariants and of the action property `JoinedStay` alone, never with liveness or refinement.

All runs set `CHECK_DEADLOCK FALSE`: an operation ends, and with the bounds used up
nothing is left to do.

Each property of a passing run has a mutant in the module itself (the operators
commented `Mutant`), a plausible bug, which breaks it under the same configuration.

### Fairness

`FairSpec` of `Escrow` assumes: weak fairness of `Continue(r)`, since the event loop carries on every
handler it has begun; strong fairness of the start of the auto-complete job, which the
process repeats every 15 minutes (`src/apps/api/src/server.ts`), so that it runs if
it has work again and again; strong fairness of `WebhookApproved`,
because the provider repeats its notices, up to `MaxNotices`; and weak fairness of
`DeadlineNears`, that is, time passes. `AgentJobs` assumes the same of its handlers' steps, of
the sweep (every 15 seconds) and of the two minutes of an offer; `AgentLedger` of its handlers, of
`releaseDue` (every 15 minutes) and of the 14 days. No fairness is assumed of any person: buyer,
seller, agent and administrator may never act again.

### What one request at a time keeps and two do not

The sequential runs separate what the handlers keep by themselves from what they lose to an
interleaving or a crash. The following happen in the code as modelled, and are seen by changing a
constant of a configuration (with fewer `Handlers`, the search is shorter):

- `NoReleaseWhileDisputed` and `StatusFollowsTable` with two `Requests`: a dispute opened while a
  release runs does not stop the seller's credit, and its save puts DISPUTED over COMPLETED
  (`disputes/service.ts:112`, on a stale copy).
- `CompletedIsDelivered` with two `Requests`: a release judges the copy it has read before a verification, and completes
  the operation while the buyer accepts the product.
- `AgentBalancesMatch` with two `Requests`: a dispute opened beside a release is cancelled twice at once, and both
  cancellations debit the commission (`finance/commission.service.ts:303`);
  with `MaxFailures = 1`: a release dies between the commission and the agent's balance.
- `ImplementsIdealEscrow` with every handler and two `Requests`: a rejection refunds the price and a release beside it
  pays it out; with `MaxFailures = 1`: a release dies half-way, and a dispute then refunds the whole price.
- `DisputedCanBeResolved` with `MaxFailures = 1`: `openDispute` dies between saving the
  operation and creating the dispute, or a refund is refused after the dispute was saved RESOLVED.
- `DecisionIsFinal` with two `Requests`: of two `finalizeVerification` in flight the
  second drops the decision made after the first (`transactions/service.ts:1055`).
- `PaidGetsFunded` with `MaxFailures = 1`: `confirmHold` dies between the hold and the operation, and
  every retry finds the hold confirmed (`payments/service.ts:1093`).
- `NobodyIsAskedTwice` with two `Requests`: two sweeps pass on the same offer.
- `WalletMatches` with two `Requests`: a withdrawal saves a balance computed before a release's `$inc`
  (`wallet/service.ts:507`); with `PromptResume = FALSE`: a RESUME after the 14 days makes the commission
  AVAILABLE and leaves its worth in the pending balance (`finance/commission.service.ts:258`).
- `WalletMatches`, `OnlySalesAreWithdrawn` and `Reconciled` with `PromptDispute = FALSE`: a dispute blocks a commission
  whose worth is in the available balance already (`finance/commission.service.ts:242`), where `getAgentBalances`
  no longer counts it and the agent may withdraw it; or it blocks one between `createBatch`'s search and its
  reservation, which is then given up with the others of that agent reserved and no payout.
- `BatchesTellTheirPayouts` with two `Requests`: of two confirmations the one that read first saves last; with
  `MaxFailures = 1` a confirmation dies between a payout and its batch.
- `OnlySalesAreWithdrawn` with `MaxFailures = 1`: `createBatch` dies before it debits the wallet, and the agent
  withdraws what is then paid out too; `WalletMatches`: a reversal dies between the balance and the commission.
- `Reconciled` with `MaxFailures = 1`: `createBatch` dies between reserving and creating the payout, and the
  commissions stay RESERVED without one.
- `ReputationTellsHistory` with `OneAtATime = FALSE`: one of two updates of a user is lost.

## 4. Behaviour of the code worth knowing

Seen while modelling; the modules have it as it is.

Payment. Rejecting a product in AGENT_FEE_ONLY subtracts from `heldCents` a price that was never added
(`payments/service.ts:2098`). A dispute resolved with a refund leaves the price in the seller's held balance
(`disputes/service.ts:274`). A late notice of a declined attempt turns a captured hold FAILED
(`payments/service.ts:1482`). Two notices of one payment credit the held balance twice
(`payments/service.ts:1093`). With the agent gone, the 72-hour job confirms delivery, cannot release, and
never looks at the operation again (`payments/service.ts:1562`). A rejection may refund a payment that was
released after its check (`payments/service.ts:2082`).

Agreement. Two holders of a link can both become counterparties (`transactions/service.ts:1614`), after which the list
of participants has no room for an agent. A sale confirmed on a copy loaded before the buyer's rejection revives the
cancelled operation. A seller who confirms exactly what was proposed, on a copy loaded before another seller's changed
price was stored, makes the operation ACCEPTED without writing `amountCents`, which does not differ from that copy's
(`transactions/repository.ts:373`): it is agreed at the other seller's price, which the buyer has never accepted, or
has rejected; `docs/OPERATION_FLOWS.md:72` has a varied sale wait for the buyer. `ConsentToTerms` says what is left of
the agreement then. `acceptPurchase` can switch an unpriced operation to ESCROW_FULL. A buyer who answers before
`SaleAsk` leaves the question pending.

Agents. Two agents can both be accepted if there is room (`agents/assignment.service.ts:262`). A sweep's stale save
turns an accepted offer into an expired one. An exception while passing an offer on ends the whole sweep. An agent who
withdraws stays among the participants, and as `src/apps/api/src/database/schemas/transaction.schema.ts:185` allows
three of them, nobody else can join. An agent may accept an offer whatever the status of the operation,
and after closing the agency, whose count of active jobs (`agents/service.ts:326`) does not look at pending offers.

Ledger. `createBatch` stores the payout before it writes its number on the commissions
(`finance/payout.service.ts:164`, `:175`): if it dies in between and the payout is confirmed, they are PAID without a
payout, the PAID_WITHOUT_PAYOUT of `finance/reconcile.service.ts:98`, which `PaidHasPayout` allows only
then, or while the batch is about to write the number. Blocking
an available commission does not move the balances, and reversing it then takes from the pending one
(`finance/commission.service.ts:242`). `requestWithdrawal` subtracts reserved commissions that have already left the
available balance. A commission reversed while RESERVED reads PAID again once its payout is confirmed. Refunding
reverses the commission before the transition is asserted (`disputes/service.ts:278`).

Transfer. Two receipts in flight and a confirmation, or two confirmations, credit the seller twice; overlapping
decisions can leave a hold waiting that cannot be confirmed; a confirmation that dies half-way is not completed by a
retry, which is answered as unchanged. Hence the bound of one request at a time for buyer and administrator, and no
deaths in `ManualTransfer` but the buyer's. A rejection or a refund between the steps of an unconfirmation takes the
amount from the held balance twice, and one while a receipt is sent lets the receipt bring the returned hold back,
marked as confirmed: `HeldMatches`, `WaitingIsUnmarked` and `FundedMeansReceived` speak of what was never
`overlapped`. An agent who accepts while a confirmation is taken back leaves the operation going on without received
money. `releaseEscrow` needs no agent (`payments/service.ts:1774`): without one the agent's part is paid to nobody,
which `SharesAddUp` states. Nobody being on the operation, the administrator may then still unconfirm the released
transfer (`:971-986`), and the held balance goes below zero by its amount; and COMPLETE_WITH_REFUND leaves the amount
in it (`disputes/service.ts:267-276`). `HeldMatches` counts both, so it says where every cent of the held balance
comes from, not that the balance is right then. A hold that was refunded unmarked can be confirmed again. The tip is
collected and paid to nobody.

## 5. Proofs

Eight modules hold the theorems. Together they state every invariant, action property and refinement that a run
checks; only liveness is left to TLC alone. In each, the inductive invariant says what a request in flight may still
rely on when it gets to its next step (`Knows`; in `Escrow` `SettlerKnows`, `KnowsOperation`, `MoneyKnown`): the
property alone is not inductive, because a request that has passed its check and not yet written would break it.

What they assume. Constants have the types the modules state; `Commissions` and `Past` are finite, since MongoDB holds
finitely many documents and a sum over them is only then defined. Most theorems hold of any number of requests in
flight and of failures. The others name the condition without which section 3 shows how the property fails:

- `OneRequest`, of `Escrow` and `AgentJobs`: one slot, in which handlers follow each other without end; they may die;
- the same with `MaxFailures = 0` (in `AgentBalanceProofs`, `OneAndNoneDies`): none dies and no refund is refused;
- `PromptDispute`: no operation is disputed once its commission is available;
- `PromptResume`: a disputed operation goes on, if it does, within the 14 days;
- `OneAtATime`: no two updates of the same user overlap; everything else does.

| Theorem | Statement |
| --- | --- |
| `TypeCorrect`, `AgreementTypeCorrect`, `JobsTypeCorrect`, `LedgerTyped`, `TransferTypeCorrect` | `Spec => []TypeOK` |
| `SettlementCorrect`, `SettlementIsExclusive` | `Spec => []IInv`, `Spec => []SettlementInv` |
| `NobodyIsPaidTwice` | `Spec => []PaidAtMostOnce` |
| `CompletedMeansSettled` | `Spec => []CompletedIsSettled` |
| `NothingWithoutPayment` | `Spec => []NothingUnpaid` |
| `DeliveredBeforeCompleted`, `DecisionStands`, `DisputePausesRelease`, `StatusMovesAlongTable` | one request: `CompletedIsDelivered`, `DecisionIsFinal`, `NoReleaseWhileDisputed`, `StatusFollowsTable` (refines `OperationStates`) |
| `AgentIsReconciled`, `DisputesCanEnd`, `EscrowIsIdeal` | one request, no failures: `AgentBalancesMatch`, `DisputedCanBeResolved`, `ImplementsIdealEscrow` (refines `IdealEscrow`) |
| `BuyerConsents`, `ChangesAreShown`, `AgreedIsComplete`, `NobodyIsDropped` | `ConsentToTerms`, `PendingShowsChanges`, `AgreementIsComplete`, `JoinedStay` |
| `JobsCorrect`, `ProofsAreSpentOnce`, `AcceptedAgentsAreThere`, `MediatorsAreNeverLost` | `Spec => []JobsInv`, `ProofSpentOnce`, `AcceptedOfferHasAgent`, `MediatorsAreKept` |
| `NobodyIsEverAskedTwice` | one request: `NobodyIsAskedTwice` |
| `LedgerCorrect`, `PaidOutOnce`, `PaidMeansPayout`, `PayoutsHaveReserved` | `Spec => []LedgerInv`, `OnePayoutEach`, `PaidHasPayout`, `PayoutsAreReserved` |
| `BatchesReadRight` | one request, no failures: `BatchesTellTheirPayouts` |
| `LedgerReconciled`, `OnlySoldWithdrawn` | the same and `PromptDispute`: `Reconciled`, `OnlySalesAreWithdrawn` |
| `BalancesAreKept` | the same, `PromptDispute` and `PromptResume`: `WalletMatches` |
| `CountersAreKept` | `OneAtATime`: `ReputationTellsHistory` |
| `FeesAddUp`, `FilterAgrees` | for every price, payer and percentages: the parts of a sale add up; the filter of a minimum commission is exact |
| `TransferCorrect`, `HeldIsReceived`, `WaitingCanBeConfirmed`, `FundedIsReceived`, `ReleasesAddUp` | `Spec => []TransferInv`, `HeldMatches`, `WaitingIsUnmarked`, `FundedMeansReceived`, `SharesAddUp` |

**Settlement.** `PaidAtMostOnce` is not inductive: a second request about to credit the
seller would break it. `IInv` adds `SettlementInv`, which says why there is none. The first
payment a release inserts has a unique key, so the request whose insert succeeds is
the only one ever to get past it, even if it then dies. `SettlerKnows` records, label by
label, what that request may rely on: which payments are inserted, that nothing has been
credited yet, that the commission is still absent, and at the end that everything has
been paid, which gives `CompletedIsSettled`. All other steps are *quiet*: they insert
no payment, credit nobody and take no request into a settlement. `QuietKeeps` shows once that a
quiet step keeps `IInv`; one lemma per handler shows its steps are quiet; only the
steps of `releaseEscrow` need their own argument (`SettlerStep`, `InsertSettles`,
`ReleaseEscrowKeeps`).

**No payment, no funds.** `NothingUnpaid` is strengthened to `PaidInv`: as long as the
provider has not collected, the operation is ACCEPTED, the hold unpaid, and
every request is idle or in one of the few steps reachable then (`BeforePayment`).

**One copy of the operation.** `LoneInv` says what a handler that runs alone knows. The copy it has loaded is the
stored operation until it saves it (`KnowsOperation`), except for what may happen beside it: an agent withdraws, time
passes. It adds that a decision comes after a verification. So what a handler asserts of its copy is true of what it
overwrites, which is all that `CompletedIsDelivered`, `DecisionIsFinal` and the refinement of `OperationStates` need,
even if it dies on the way. `PauseInv` adds where the disputes stand: at most one is open, the operation is DISPUTED
as long as it is, and it is over before its outcome is carried out; whatever dies, an open dispute therefore keeps
every release out (`NoReleaseWhileDisputed`). With a second request the copy is stale and each of the four fails.

**Disputes, balances, ideal escrow.** Without failures `SmoothInv` adds two parts to `IInv`, `LoneInv` and `PaidInv`.
`DisputesKnown`: an open dispute goes with a DISPUTED operation, except at the named steps between the two saves of a
handler. `MoneyKnown`: where the money is at each step of a release, a rejection, a refund and a dispute, so that a
handler about to refund knows that nobody has been paid, and one about to pay knows that nothing was refunded. The
refinement of `IdealEscrow` then is a case analysis: the buyer's payment at the provider is `Collect`, the two credits of
`releaseEscrow` and the insert of the fee are `Pay`, the refunds are `GiveBack`, and every other step leaves
`collected` and `given` alone (`SmoothStep`, one lemma per handler).

**Agreement.** `AgreementInv` adds what the stored operation guarantees by itself (`Settled`: it has its product,
parties and deadline as soon as somebody has answered the invitation) and what a request knows. The argument for
`ConsentToTerms` turns on the version: a sale with changes replaces `pendingBuyerChanges` and so is refused if
anybody has pushed a participant since; a sale without changes that comes late replaces the product by the proposed
one and leaves the price (`KnowsProposal`), which is agreed to if the operation was ACCEPTED; a buyer's confirmation
has added what is on offer to `agreed` before it saves; and of two buyers who accept, the one who saves last leaves
either the commission as it is or as that buyer chose it (`KnowsOffer`).

**Agents.** `Carried` says that a request holding a proof is the only one and that the proof is spent but not used.
It follows from the one atomic step there is, `findOneAndUpdate` on the proof. `AcceptedOfferHasAgent` needs that
the list of agents only grows (`MediatorsAreKept`), which every step keeps because the code pushes to it or changes
an element in place with a check of the version. It holds of overlapping requests too, although the run shows it for
one at a time.

`NobodyIsAskedTwice` takes one request at a time. `AskedInv` says that only the last offer can be pending, that its
queue lists every agent once and nobody who has had an offer (`OffersInv`), and that a sweep in flight still has the
right offer in hand (`KnowsOffers`), wherever an earlier one has died.

**Payouts.** A commission, once reserved, never becomes available again (`Taken`), and its batch never changes. Each
reservation is conditional in the database and each batch is filled by the one request that created it
(`OwnBatches`); so two payouts of different batches, or of different agents in one, share nothing. `PaidHasPayout`
rests on `LinkInv` besides: a number once written stays, and what is listed in a payout has one, unless the request
that filled the batch is about to write it or some request has died.

**Balances.** A balance is the worth of a set of commissions, and a step moves one of them from set to set. How a sum
changes when an element comes or goes is proved in `SumTheorems`: the induction on the size of the set is carried by a
smallest counterexample, as the least element of a set of numbers, because an induction theorem with an operator as a
parameter cannot be instantiated. `FlowInv` says which commissions are on their way through the request in flight
(reserved, and not in a payout yet; paid, and not marked yet); `MoneyInv` corrects the equation of `WalletMatches` by
what that request has written to one side only, and keeps what is withdrawn within the sales. Without `PromptResume`
only half of the equation is left, the wallet has at most what the commissions say is available; that half is enough
for `OnlySalesAreWithdrawn`.

**Reputation.** The property itself leaves out what the requests in flight have stored and not yet counted (`Counted`,
`Given`, `CompletedBy`), so that it holds at every step. `RepInv` adds that stored reviews are unique, that a copy about
to be saved is fresh in the fields it changes, and that no two requests count the same review or completion (`OwnWork`),
the former by the unique index and the freshness by `OneAtATime`. Totals, like the balances, are sums and cardinalities
of sets that grow by one element.

**Transfer.** `FeesAddUp` is a case split on the five commissions and three payers, with the percentages left
symbolic; the rounding of the two parts is closed by giving the agent what is left. `TransferInv` has two parts. `PaidInv`
holds always: the amount of the hold is what the terms say, and the payments of a release are the split of it; with
`FeesAddUp` it gives `SharesAddUp`. `CalmInv` holds while nothing has `overlapped`, and says what each step of a
decision has already done to the hold, the balance and the operation, and what its copies still say of them.

Only model-checked: liveness (`PaidGetsFunded`, `OneConfirmationCompletes`, `NoOfferPendsForever`, `EarningsMature`),
since TLAPS reasons neither about fairness nor about ENABLED; and, of the properties proved with one request at a time,
what holds of two in restricted runs, as `ImplementsIdealEscrow` does in `EscrowDelivery`, where no dispute or checkout
takes part.

## 6. Plan

1. Agencies: suspension, resumption and closing of an agency against acceptances of jobs (`agents/service.ts`), as a
   status of each agent in `AgentJobs`. `closeAgency` counts the active jobs and then saves; that no closed
   agency has a job does not hold even of one request at a time, since offers outlive the agency.
2. Proofs: that `Escrow` implements `IdealEscrow` with any number of requests whenever no rejection, refund or dispute
   overlaps a release, and how far the batches and the reconciliation survive overlapping requests.
3. Several payments of one operation in `Escrow`: two preferences of one hold, both paid.
4. Review of identity documents and unread counters of chats, if they come to matter to the rest.

## 7. Not modelled

See `components` in `PROJECT.json`. Within the modelled parts: several operations at a time, which share nothing but
balances (`AgentLedger`, `Reputation`); two payments of one operation; e-mail and the audit log; the weights of
reviews and the score; whether the provider accepts the identifier with which a refund is asked for. The web client
renders what the API answers and keeps no state that counts. Sessions, profiles and documents of identity concern no
operation, except for the proof an agent spends on a job.
