---------------------------- MODULE EscrowProofs ----------------------------
(***************************************************************************)
(* Theorems about Escrow, for every choice of handlers, both funding modes *)
(* and all amounts.  Those on types, settlement and payment hold for any   *)
(* number of requests in flight and of failures.  Those on what a handler  *)
(* decides from its copy of the operation, and on what an open dispute     *)
(* pauses, take one request at a time (OneRequest); those on the end of    *)
(* disputes, balances and the ideal escrow also take it that no request    *)
(* dies (MaxFailures = 0).                                                 *)
(***************************************************************************)
EXTENDS Escrow, TLAPS

----------------------------------------------------------------------------
(* A request that moves keeps its shape.                                   *)

\* Goto changes the step of one request only.
LEMMA GotoType ==
  ASSUME TypeOK, NEW r \in Requests, NEW step \in Steps, Goto(r, step)
  PROVE  req' \in [Requests -> RequestStates]
  BY DEF TypeOK, Goto, RequestStates

\* A request that reads the operation holds a well-formed copy of it.
LEMMA LoadType ==
  ASSUME TypeOK, NEW r \in Requests, NEW step \in Steps, Load(r, step)
  PROVE  req' \in [Requests -> RequestStates]
  BY DEF TypeOK, Load, RequestStates

\* A request that reads a hold or a commission remembers a status of it.
LEMMA SeeType ==
  ASSUME TypeOK, NEW r \in Requests, NEW step \in Steps,
         NEW status \in SeenStatuses, See(r, status, step)
  PROVE  req' \in [Requests -> RequestStates]
  BY DEF TypeOK, See, RequestStates

\* A free slot is a well-formed request.
LEMMA IdleType == IdleRequest \in RequestStates
  BY DEF IdleRequest, RequestStates, NewOperation, Operations, Statuses, Clocks,
         Steps, Causes, SeenStatuses, HoldStatuses, MaybeDispute

\* A handler that returns frees its slot.
LEMMA FinishType ==
  ASSUME TypeOK, NEW r \in Requests, Finish(r)
  PROVE  req' \in [Requests -> RequestStates]
  BY IdleType DEF TypeOK, Finish

\* A save of the delivery confirmations keeps the shape of the operation.
LEMMA SaveType ==
  ASSUME TypeOK, NEW r \in Requests,
         NEW arrival \in BOOLEAN, NEW delivery \in BOOLEAN, NEW clock \in Clocks,
         SaveDelivery(r, arrival, delivery, clock, req[r].doc.reminded)
  PROVE  tx' \in Operations
<1>1. req[r].doc \in Operations
  BY DEF TypeOK, RequestStates
<1>2. QED
  BY <1>1 DEF TypeOK, SaveDelivery, AdvanceFunded, Operations, Statuses

\* The amounts are integers.
LEMMA AmountsType == HoldCents \in Int /\ SellerNet \in Int /\ AgentFee \in Int
  BY AmountsAssumption

\* A request that starts with a dispute or a cause keeps its shape.
LEMMA StartType ==
  ASSUME TypeOK, NEW r \in Requests, NEW request \in RequestStates,
         req' = [req EXCEPT ![r] = request]
  PROVE  req' \in [Requests -> RequestStates]
  BY DEF TypeOK

\* One more failure is counted.
LEMMA FailType ==
  ASSUME TypeOK, Fail
  PROVE  world' \in Worlds
<1>1. world \in Worlds
  BY DEF TypeOK
<1>2. world.failures + 1 \in Nat
  BY <1>1 DEF Worlds
<1>3. QED
  BY <1>1, <1>2, Zenon DEF Fail, Worlds

\* The provider refunds, or refuses once more.
LEMMA RefundType ==
  ASSUME TypeOK, NEW r \in Requests, NEW step \in Steps, Refund(r, step)
  PROVE  world' \in Worlds /\ req' \in [Requests -> RequestStates]
<1>1. world \in Worlds
  BY DEF TypeOK
<1>2. CASE world' = [world EXCEPT !.refunded = TRUE] /\ Goto(r, step)
  <2>1. world' \in Worlds
    BY <1>1, <1>2, Zenon DEF Worlds
  <2>2. QED
    BY <1>2, <2>1, GotoType
<1>3. CASE Fail /\ Finish(r)
  <2>1. world' \in Worlds
    BY <1>1, <1>3, FailType
  <2>2. QED
    BY <1>3, <2>1, FinishType
<1>4. QED
  BY <1>2, <1>3 DEF Refund

----------------------------------------------------------------------------
(* Each handler keeps every shape: one lemma per handler, one step per     *)
(* action of it.                                                           *)

\* The steps of createBuyerCheckout keep every document well-formed.
LEMMA CheckoutType ==
  ASSUME TypeOK, NEW r \in Requests, Checkout(r)
  PROVE  TypeOK'
<1>1. CASE StartCheckout(r)
  BY <1>1, GotoType DEF StartCheckout, TypeOK, Steps
<1>2. CASE CheckoutFindHold(r)
  BY <1>2, GotoType, SeeType, FinishType
  DEF CheckoutFindHold, TypeOK, Steps, SeenStatuses
<1>3. CASE CheckoutCreateHold(r)
  BY <1>3, SeeType, FinishType
  DEF CheckoutCreateHold, TypeOK, Steps, SeenStatuses, HoldStatuses
<1>4. CASE CheckoutPreference(r)
  <2>1. world' \in Worlds
    BY <1>4, Zenon DEF CheckoutPreference, TypeOK, Worlds
  <2>2. QED
    BY <1>4, <2>1, GotoType DEF CheckoutPreference, TypeOK, Steps
<1>5. CASE CheckoutSaveHold(r)
  BY <1>5, FinishType DEF CheckoutSaveHold, TypeOK, HoldStatuses
<1>6. QED
  BY <1>1, <1>2, <1>3, <1>4, <1>5 DEF Checkout

\* The steps of the notices and of confirmHold keep every document well-formed.
LEMMA ConfirmHoldType ==
  ASSUME TypeOK, NEW r \in Requests, ConfirmHold(r)
  PROVE  TypeOK'
<1>1. CASE WebhookApproved(r)
  BY <1>1, GotoType DEF WebhookApproved, TypeOK, Notice, Worlds, Steps
<1>2. CASE StartSync(r)
  BY <1>2, GotoType DEF StartSync, TypeOK, Steps
<1>3. CASE SyncLookup(r)
  BY <1>3, GotoType, FinishType DEF SyncLookup, TypeOK, Notice, Worlds, Steps
<1>4. CASE ConfirmLoadHold(r)
  BY <1>4, GotoType, FinishType DEF ConfirmLoadHold, TypeOK, Steps
<1>5. CASE ConfirmLoadTx(r)
  BY <1>5, LoadType DEF ConfirmLoadTx, TypeOK, Steps
<1>6. CASE ConfirmSaveHold(r)
  BY <1>6, GotoType DEF ConfirmSaveHold, TypeOK, Steps, HoldStatuses
<1>7. CASE ConfirmWallet(r)
  BY <1>7, GotoType, AmountsType DEF ConfirmWallet, TypeOK, Wallets, Steps
<1>8. CASE ConfirmSaveTx(r)
  BY <1>8, FinishType DEF ConfirmSaveTx, TypeOK, Operations, Statuses
<1>9. QED
  BY <1>1, <1>2, <1>3, <1>4, <1>5, <1>6, <1>7, <1>8 DEF ConfirmHold

\* The steps of releaseEscrow keep every document well-formed.
LEMMA ReleaseEscrowType ==
  ASSUME TypeOK, NEW r \in Requests, ReleaseEscrow(r)
  PROVE  TypeOK'
<1>1. CASE StartRelease(r)
  BY <1>1, LoadType DEF StartRelease, TypeOK, Steps
<1>2. CASE ReleaseLoad(r)
  BY <1>2, LoadType, FinishType DEF ReleaseLoad, TypeOK, Steps
<1>3. CASE ReleaseFindHold(r)
  BY <1>3, GotoType, FinishType DEF ReleaseFindHold, TypeOK, Steps
<1>4. CASE ReleaseCheck(r)
  BY <1>4, GotoType, FinishType DEF ReleaseCheck, TypeOK, Steps, SettlingSteps
<1>5. CASE ReleaseInsertFee(r)
  BY <1>5, GotoType, FinishType
  DEF ReleaseInsertFee, TypeOK, Insert, PaymentKeys, Steps, SettlingSteps
<1>6. CASE ReleaseInsertAgent(r)
  BY <1>6, GotoType, FinishType
  DEF ReleaseInsertAgent, TypeOK, Insert, PaymentKeys, Steps, SettlingSteps
<1>7. CASE ReleaseInsertRelease(r)
  BY <1>7, GotoType, FinishType
  DEF ReleaseInsertRelease, TypeOK, Insert, PaymentKeys, Steps, SettlingSteps
<1>8. CASE RecordCommission(r)
  BY <1>8, GotoType
  DEF RecordCommission, TypeOK, AfterCommission, CommissionStatuses, Steps,
      SettlingSteps
<1>9. CASE CreditAgent(r)
  <2>1. wallet' \in Wallets
    <3>1. wallet.pend + AgentFee \in Int /\ wallet.earned + AgentFee \in Int
      BY AmountsType DEF TypeOK, Wallets
    <3>2. QED
      BY <1>9, <3>1, Zenon DEF CreditAgent, TypeOK, Wallets
  <2>2. req' \in [Requests -> RequestStates]
    BY <1>9, GotoType DEF CreditAgent, AfterCommission, Steps, SettlingSteps
  <2>3. QED
    BY <1>9, <2>1, <2>2 DEF CreditAgent, TypeOK
<1>10. CASE CreditSeller(r)
  <2>1. wallet' \in Wallets
    <3>1. wallet.held - HoldCents \in Int /\ wallet.sold + SellerNet \in Int
      BY AmountsType DEF TypeOK, Wallets
    <3>2. QED
      BY <1>10, <3>1, Zenon DEF CreditSeller, TypeOK, Wallets
  <2>2. req' \in [Requests -> RequestStates]
    BY <1>10, GotoType DEF CreditSeller, Steps, SettlingSteps
  <2>3. QED
    BY <1>10, <2>1, <2>2 DEF CreditSeller, TypeOK
<1>11. CASE ReleaseSaveHold(r)
  BY <1>11, GotoType DEF ReleaseSaveHold, TypeOK, Steps, SettlingSteps, HoldStatuses
<1>12. CASE ReleaseSaveTx(r)
  BY <1>12, FinishType DEF ReleaseSaveTx, TypeOK, Operations, Statuses
<1>13. QED
  BY <1>1, <1>2, <1>3, <1>4, <1>5, <1>6, <1>7, <1>8, <1>9, <1>10, <1>11, <1>12
  DEF ReleaseEscrow

\* The steps of the reversal and the cancellation keep every document well-formed.
LEMMA CancellationType ==
  ASSUME TypeOK, NEW r \in Requests, Cancellation(r)
  PROVE  TypeOK'
<1>1. CASE ReverseFind(r)
  BY <1>1, SeeType, GotoType, FinishType
  DEF ReverseFind, TypeOK, AfterReverse, SeenStatuses, Steps
<1>2. CASE ReverseWallet(r)
  BY <1>2, GotoType, AmountsType DEF ReverseWallet, TypeOK, Wallets, Steps
<1>3. CASE ReverseSave(r)
  BY <1>3, GotoType, FinishType
  DEF ReverseSave, TypeOK, AfterReverse, CommissionStatuses, Steps
<1>4. CASE CancelTx(r)
  BY <1>4, GotoType, FinishType
  DEF CancelTx, TypeOK, SetStatus, Operations, Statuses, Steps
<1>5. QED
  BY <1>1, <1>2, <1>3, <1>4 DEF Cancellation

\* The steps of buyerRejectProduct keep every document well-formed.
LEMMA BuyerRejectProductType ==
  ASSUME TypeOK, NEW r \in Requests, BuyerRejectProduct(r)
  PROVE  TypeOK'
<1>1. CASE StartReject(r)
  <2>1. [req[r] EXCEPT !.pc = "reject.load", !.cause = "REJECT"] \in RequestStates
    <3>1. "reject.load" \in Steps /\ "REJECT" \in Causes
      BY DEF Steps, Causes
    <3>2. QED
      BY <3>1, Zenon DEF TypeOK, RequestStates
  <2>2. req' = [req EXCEPT ![r] = [req[r] EXCEPT !.pc = "reject.load", !.cause = "REJECT"]]
    BY <1>1 DEF StartReject, TypeOK
  <2>3. QED
    BY <1>1, <2>1, <2>2, StartType DEF StartReject, TypeOK
<1>2. CASE RejectLoadTx(r)
  BY <1>2, LoadType, FinishType DEF RejectLoadTx, TypeOK, Steps
<1>3. CASE RejectFindHold(r)
  BY <1>3, GotoType, FinishType DEF RejectFindHold, TypeOK, Steps
<1>4. CASE RejectCheck(r)
  BY <1>4, GotoType, FinishType DEF RejectCheck, TypeOK, Steps
<1>5. CASE RejectRefund(r)
  <2>1. "reject.wallet" \in Steps
    BY DEF Steps
  <2>2. QED
    BY <1>5, <2>1, RefundType DEF RejectRefund, TypeOK
<1>6. CASE RejectWallet(r)
  BY <1>6, GotoType, AmountsType DEF RejectWallet, TypeOK, Wallets, Steps
<1>7. CASE RejectSaveHold(r)
  BY <1>7, GotoType DEF RejectSaveHold, TypeOK, HoldStatuses, Steps
<1>8. CASE RejectReverseFails(r)
  BY <1>8, GotoType DEF RejectReverseFails, TypeOK, Fail, Worlds, Steps
<1>9. CASE RejectDecide(r)
  BY <1>9, FinishType DEF RejectDecide, TypeOK, Operations
<1>10. QED
  BY <1>1, <1>2, <1>3, <1>4, <1>5, <1>6, <1>7, <1>8, <1>9 DEF BuyerRejectProduct

\* The steps of openDispute keep every document well-formed.
LEMMA OpenDisputeType ==
  ASSUME TypeOK, NEW r \in Requests, OpenDispute(r)
  PROVE  TypeOK'
<1>1. CASE StartDispute(r)
  <2>1. PICK d \in DisputeIds :
          req' = [req EXCEPT ![r].pc = "dispute.find", ![r].doc = tx, ![r].dispute = d]
    BY <1>1 DEF StartDispute
  <2> DEFINE request == [req[r] EXCEPT !.pc = "dispute.find", !.doc = tx, !.dispute = d]
  <2>2. request \in RequestStates
    <3>1. "dispute.find" \in Steps /\ d \in MaybeDispute
      BY DEF Steps, MaybeDispute
    <3>2. QED
      BY <3>1, Zenon DEF TypeOK, RequestStates
  <2>3. req' = [req EXCEPT ![r] = request]
    BY <2>1 DEF TypeOK
  <2>4. req' \in [Requests -> RequestStates]
    BY <2>2, <2>3 DEF TypeOK
  <2>5. QED
    BY <1>1, <2>4 DEF StartDispute, TypeOK
<1>2. CASE DisputeFindActive(r)
  BY <1>2, GotoType, FinishType DEF DisputeFindActive, TypeOK, Steps
<1>3. CASE DisputeSaveTx(r)
  BY <1>3, GotoType DEF DisputeSaveTx, TypeOK, Operations, Statuses, Steps
<1>4. CASE DisputeCreate(r)
  BY <1>4, GotoType DEF DisputeCreate, TypeOK, Steps
<1>5. CASE DisputeBlock(r)
  BY <1>5, FinishType DEF DisputeBlock, TypeOK, CommissionStatuses
<1>6. QED
  BY <1>1, <1>2, <1>3, <1>4, <1>5 DEF OpenDispute

\* The steps of resolveDispute keep every document well-formed.
LEMMA ResolveDisputeType ==
  ASSUME TypeOK, NEW r \in Requests, ResolveDispute(r)
  PROVE  TypeOK'
<1>1. CASE StartResolve(r)
  <2>1. PICK outcome \in Outcomes, d \in OpenDisputes :
          /\ req' = [req EXCEPT ![r].pc = "resolve.tx", ![r].cause = outcome, ![r].dispute = d]
          /\ UNCHANGED <<tx, hold, docs, commission, matured, wallet, world, disputes>>
    BY <1>1 DEF StartResolve
  <2> DEFINE request == [req[r] EXCEPT !.pc = "resolve.tx", !.cause = outcome, !.dispute = d]
  <2>2. request \in RequestStates
    <3>1. "resolve.tx" \in Steps /\ outcome \in Causes /\ d \in MaybeDispute
      BY DEF Steps, Causes, Outcomes, OpenDisputes, MaybeDispute
    <3>2. QED
      BY <3>1, Zenon DEF TypeOK, RequestStates
  <2>3. req' = [req EXCEPT ![r] = request]
    BY <2>1 DEF TypeOK
  <2>4. req' \in [Requests -> RequestStates]
    BY <2>2, <2>3 DEF TypeOK
  <2>5. QED
    BY <2>1, <2>4 DEF TypeOK
<1>2. CASE ResolveLoadTx(r)
  BY <1>2, LoadType DEF ResolveLoadTx, TypeOK, Steps
<1>3. CASE ResolveSaveDispute(r)
  BY <1>3, GotoType DEF ResolveSaveDispute, TypeOK, Steps
<1>4. CASE ResumeSaveTx(r)
  BY <1>4, GotoType, FinishType
  DEF ResumeSaveTx, TypeOK, SetStatus, Operations, Statuses, Steps
<1>5. CASE ResumeUnblock(r)
  BY <1>5, FinishType DEF ResumeUnblock, TypeOK, CommissionStatuses
<1>6. CASE RefundFindHold(r)
  BY <1>6, GotoType, SeeType DEF RefundFindHold, TypeOK, SeenStatuses, Steps
<1>7. CASE RefundProvider(r)
  <2>1. "refund.save" \in Steps
    BY DEF Steps
  <2>2. QED
    BY <1>7, <2>1, RefundType DEF RefundProvider, TypeOK
<1>8. CASE RefundSaveHold(r)
  BY <1>8, GotoType DEF RefundSaveHold, TypeOK, HoldStatuses, Steps
<1>9. QED
  BY <1>1, <1>2, <1>3, <1>4, <1>5, <1>6, <1>7, <1>8 DEF ResolveDispute

\* The verification and delivery handlers keep every document well-formed.
LEMMA DeliveryType ==
  ASSUME TypeOK, NEW r \in Requests, Delivery(r)
  PROVE  TypeOK'
<1>1. CASE StartFinalize(r)
  BY <1>1, LoadType DEF StartFinalize, TypeOK, Steps
<1>2. CASE FinalizeSave(r)
  BY <1>2, FinishType DEF FinalizeSave, TypeOK, AdvanceFunded, Operations, Statuses
<1>3. CASE StartAcceptProduct(r)
  BY <1>3, LoadType DEF StartAcceptProduct, TypeOK, Steps
<1>4. CASE AcceptProductSave(r)
  BY <1>4, FinishType DEF AcceptProductSave, TypeOK, AdvanceFunded, Operations, Statuses
<1>5. CASE StartConfirmArrival(r)
  BY <1>5, LoadType DEF StartConfirmArrival, TypeOK, Steps
<1>6. CASE ConfirmArrivalSave(r)
  <2>1. req[r].doc.delivery \in BOOLEAN /\ "running" \in Clocks
    BY DEF TypeOK, RequestStates, Operations, Clocks
  <2>2. tx' \in Operations
    BY <1>6, <2>1, SaveType DEF ConfirmArrivalSave
  <2>3. "release.load" \in Steps
    BY DEF Steps
  <2>4. QED
    BY <1>6, <2>2, <2>3, GotoType, FinishType DEF ConfirmArrivalSave, TypeOK
<1>7. CASE StartConfirmDelivery(r)
  BY <1>7, LoadType DEF StartConfirmDelivery, TypeOK, Steps
<1>8. CASE ConfirmDeliverySave(r)
  <2>1. req[r].doc.arrival \in BOOLEAN /\ "running" \in Clocks
    BY DEF TypeOK, RequestStates, Operations, Clocks
  <2>2. tx' \in Operations
    BY <1>8, <2>1, SaveType DEF ConfirmDeliverySave
  <2>3. "release.load" \in Steps
    BY DEF Steps
  <2>4. QED
    BY <1>8, <2>2, <2>3, GotoType, FinishType DEF ConfirmDeliverySave, TypeOK
<1>9. QED
  BY <1>1, <1>2, <1>3, <1>4, <1>5, <1>6, <1>7, <1>8 DEF Delivery

\* The delivery timer job keeps every document well-formed.
LEMMA AutoCompleteType ==
  ASSUME TypeOK, NEW r \in Requests, AutoComplete(r)
  PROVE  TypeOK'
<1>1. CASE StartRemind(r)
  BY <1>1, LoadType DEF StartRemind, TypeOK, Steps
<1>2. CASE RemindSave(r)
  BY <1>2, FinishType DEF RemindSave, TypeOK, RequestStates, Operations, Clocks
<1>3. CASE StartAutoComplete(r)
  BY <1>3, LoadType DEF StartAutoComplete, TypeOK, Steps
<1>4. CASE AutoCompleteSave(r)
  BY <1>4, SaveType, GotoType DEF AutoCompleteSave, TypeOK, Clocks, Steps
<1>5. QED
  BY <1>1, <1>2, <1>3, <1>4 DEF AutoComplete

\* The agent's handlers keep every document well-formed.
LEMMA AgentsType ==
  ASSUME TypeOK, NEW r \in Requests, Agents(r)
  PROVE  TypeOK'
<1>1. CASE StartAgentAccept(r)
  BY <1>1, LoadType DEF StartAgentAccept, TypeOK, Steps
<1>2. CASE AgentAcceptSave(r)
  BY <1>2, FinishType DEF AgentAcceptSave, TypeOK, AdvanceFunded, Operations, Statuses
<1>3. CASE StartHeal(r)
  BY <1>3, GotoType DEF StartHeal, TypeOK, Steps
<1>4. CASE HealSave(r)
  BY <1>4, FinishType DEF HealSave, TypeOK, Operations, Statuses
<1>5. QED
  BY <1>1, <1>2, <1>3, <1>4 DEF Agents

\* The commission timer job keeps every document well-formed.
LEMMA ReleaseDueType ==
  ASSUME TypeOK, NEW r \in Requests, ReleaseDue(r)
  PROVE  TypeOK'
<1>1. CASE ClaimDue(r)
  BY <1>1, GotoType DEF ClaimDue, TypeOK, CommissionStatuses, Steps
<1>2. CASE DueWallet(r)
  <2>1. wallet' \in Wallets
    <3>1. wallet.pend - AgentFee \in Int /\ wallet.avail + AgentFee \in Int
      BY AmountsType DEF TypeOK, Wallets
    <3>2. QED
      BY <1>2, <3>1, Zenon DEF DueWallet, TypeOK, Wallets
  <2>2. QED
    BY <1>2, <2>1, FinishType DEF DueWallet, TypeOK
<1>3. QED
  BY <1>1, <1>2 DEF ReleaseDue

\* The provider, the passing of time and the single-step handlers keep every
\* document well-formed.
LEMMA EnvironmentType ==
  ASSUME TypeOK, Environment
  PROVE  TypeOK'
<1>1. CASE BuyerPays
  BY <1>1 DEF BuyerPays, TypeOK, Worlds
<1>2. CASE AttemptFails
  BY <1>2 DEF AttemptFails, TypeOK, Worlds
<1>3. CASE WebhookRejected
  BY <1>3 DEF WebhookRejected, TypeOK, HoldStatuses
<1>4. CASE AgentWithdraw
  BY <1>4 DEF AgentWithdraw, TypeOK, Operations
<1>5. CASE DeadlineNears
  BY <1>5 DEF DeadlineNears, TypeOK, Operations, Clocks
<1>6. CASE CommissionMatures
  BY <1>6 DEF CommissionMatures, TypeOK
<1>7. QED
  BY <1>1, <1>2, <1>3, <1>4, <1>5, <1>6 DEF Environment

\* A request that dies keeps every document well-formed.
LEMMA AbortType ==
  ASSUME TypeOK, NEW r \in Requests, Abort(r)
  PROVE  TypeOK'
  BY FinishType, FailType DEF Abort, TypeOK

----------------------------------------------------------------------------

\* The operation both parties have accepted is well-formed.
LEMMA InitType ==
  ASSUME Init
  PROVE  TypeOK
<1>1. tx \in Operations
  BY DEF Init, NewOperation, Operations, Statuses, Clocks
<1>2. wallet \in Wallets /\ world \in Worlds
  BY DEF Init, Wallets, Worlds
<1>3. req \in [Requests -> RequestStates]
  BY IdleType DEF Init
<1>4. QED
  BY <1>1, <1>2, <1>3 DEF Init, TypeOK, HoldStatuses, CommissionStatuses

\* Every step keeps every document well-formed.
LEMMA NextType ==
  ASSUME TypeOK, [Next]_vars
  PROVE  TypeOK'
<1>1. CASE Environment
  BY <1>1, EnvironmentType
<1>2. ASSUME NEW r \in Requests, Request(r) PROVE TypeOK'
  BY <1>2, CheckoutType, ConfirmHoldType, ReleaseEscrowType, CancellationType,
     BuyerRejectProductType, OpenDisputeType, ResolveDisputeType, DeliveryType,
     AutoCompleteType, AgentsType, ReleaseDueType DEF Request
<1>3. ASSUME NEW r \in Requests, Abort(r) PROVE TypeOK'
  BY <1>3, AbortType
<1>4. CASE UNCHANGED vars
  BY <1>4 DEF vars, TypeOK
<1>5. QED
  BY <1>1, <1>2, <1>3, <1>4 DEF Next

\* Type correctness: whatever requests run, interleave or die half-way,
\* every stored document keeps the shape its readers rely on.
THEOREM TypeCorrect == Spec => []TypeOK
<1>1. Init => TypeOK
  BY InitType
<1>2. TypeOK /\ [Next]_vars => TypeOK'
  BY NextType
<1>3. QED
  BY <1>1, <1>2, PTL DEF Spec

----------------------------------------------------------------------------
(* Nobody is paid twice.  Most steps are quiet: they insert no payment,    *)
(* credit nobody and take no request into a settlement, and a quiet step   *)
(* keeps the invariant.  Only the steps of a release past its first insert *)
(* need an argument of their own.                                          *)

IInv == TypeOK /\ PaidAtMostOnce /\ CompletedIsSettled /\ SettlementInv

Reversing(r) == req[r].pc \in {"reverse.wallet", "reverse.save"}

\* A request that changes its label starts no settlement and no reversal
\* that has nothing to reverse.
QuietMove ==
  \A s \in Requests :
    \/ req'[s].pc = req[s].pc
    \/ ~Settling(s)' /\ (Reversing(s)' => commission # "none")

Quiet ==
  /\ docs' = docs
  /\ wallet'.sold = wallet.sold /\ wallet'.earned = wallet.earned
  /\ commission' = "none" <=> commission = "none"
  /\ tx'.status = "COMPLETED" => tx.status = "COMPLETED"
  /\ hold' = "RELEASED" => hold = "RELEASED"
  /\ QuietMove

\* A quiet step, one that pays nobody and settles nothing, keeps the invariant.
LEMMA QuietKeeps ==
  ASSUME IInv, Quiet, TypeOK'
  PROVE  IInv'
<1>1. PaidAtMostOnce'
  BY DEF IInv, Quiet, PaidAtMostOnce
<1>2. Settled => Settled'
  BY DEF Quiet, Settled
<1>3. CompletedIsSettled'
  BY <1>2 DEF IInv, Quiet, CompletedIsSettled
<1>4. \A s \in Requests : Settling(s)' => Settling(s) /\ req'[s].pc = req[s].pc
  BY DEF Quiet, QuietMove, Settling
<1>5. ASSUME NEW s \in Requests, Settling(s)'
      PROVE  SettlerKnows(s)'
  <2>1. SettlerKnows(s) /\ req'[s].pc = req[s].pc
    BY <1>4, <1>5 DEF IInv, SettlementInv
  <2>2. QED
    BY <1>2, <2>1 DEF SettlerKnows, Quiet
<1>6. \A s \in Requests : Reversing(s)' => commission' # "none"
  BY DEF IInv, SettlementInv, Quiet, QuietMove, Reversing
<1>7. \A s, t \in Requests : Settling(s)' /\ Settling(t)' => s = t
  BY <1>4 DEF IInv, SettlementInv
<1>8. (FirstKey \notin docs =>
        docs = {} /\ commission = "none" /\ wallet.sold = 0 /\ wallet.earned = 0)'
  BY DEF IInv, SettlementInv, Quiet
<1>9. SettlementInv'
  BY <1>5, <1>6, <1>7, <1>8 DEF SettlementInv, Reversing
<1>10. QED
  BY <1>1, <1>3, <1>9 DEF IInv

----------------------------------------------------------------------------
(* Where a request goes.                                                   *)

\* Request r goes to step, and nobody else moves.
MovesTo(r, step) ==
  \A s \in Requests : req'[s].pc = IF s = r THEN step ELSE req[s].pc

\* What the ways a request moves leave of the other requests.
LEMMA Moves ==
  ASSUME TypeOK, NEW r \in Requests, NEW step
  PROVE  /\ Goto(r, step) => MovesTo(r, step)
         /\ Load(r, step) => MovesTo(r, step)
         /\ \A status : See(r, status, step) => MovesTo(r, step)
         /\ Finish(r) => MovesTo(r, "idle")
<1>1. Goto(r, step) => MovesTo(r, step)
  BY DEF Goto, MovesTo, TypeOK, RequestStates
<1>2. Load(r, step) => MovesTo(r, step)
  BY DEF Load, MovesTo, TypeOK, RequestStates
<1>3. ASSUME NEW status, See(r, status, step) PROVE MovesTo(r, step)
  BY <1>3 DEF See, MovesTo, TypeOK, RequestStates
<1>4. Finish(r) => MovesTo(r, "idle")
  BY DEF Finish, MovesTo, TypeOK, IdleRequest
<1>5. QED
  BY <1>1, <1>2, <1>3, <1>4

\* The labels outside a settlement and outside a reversal.
Harmless(step) ==
  step \notin (SettlingSteps \ {FirstStep}) \cup {"reverse.wallet", "reverse.save"}

\* A request moving outside the settlement is no settler before or after.
LEMMA HarmlessIsQuiet ==
  ASSUME NEW r \in Requests, NEW step, Harmless(step), MovesTo(r, step)
  PROVE  QuietMove
  BY DEF Harmless, MovesTo, QuietMove, Settling, Reversing

----------------------------------------------------------------------------
(* Handlers that never settle.                                             *)

\* No step of createBuyerCheckout pays anybody.
LEMMA CheckoutQuiet ==
  ASSUME IInv, NEW r \in Requests, Checkout(r)
  PROVE  Quiet
<1> TypeOK
  BY DEF IInv
<1>1. CASE StartCheckout(r)
  BY <1>1, Moves, HarmlessIsQuiet
  DEF StartCheckout, Quiet, Harmless, SettlingSteps, FirstStep
<1>2. CASE CheckoutFindHold(r)
  BY <1>2, Moves, HarmlessIsQuiet
  DEF CheckoutFindHold, Quiet, Harmless, SettlingSteps, FirstStep
<1>3. CASE CheckoutCreateHold(r)
  BY <1>3, Moves, HarmlessIsQuiet
  DEF CheckoutCreateHold, Quiet, Harmless, SettlingSteps, FirstStep
<1>4. CASE CheckoutPreference(r)
  BY <1>4, Moves, HarmlessIsQuiet
  DEF CheckoutPreference, Quiet, Harmless, SettlingSteps, FirstStep
<1>5. CASE CheckoutSaveHold(r)
  BY <1>5, Moves, HarmlessIsQuiet
  DEF CheckoutSaveHold, Quiet, Harmless, SettlingSteps, FirstStep
<1>6. QED
  BY <1>1, <1>2, <1>3, <1>4, <1>5 DEF Checkout

\* No step of the notices and of confirmHold pays anybody.
LEMMA ConfirmHoldQuiet ==
  ASSUME IInv, NEW r \in Requests, ConfirmHold(r)
  PROVE  Quiet
<1> TypeOK
  BY DEF IInv
<1>1. CASE WebhookApproved(r)
  BY <1>1, Moves, HarmlessIsQuiet
  DEF WebhookApproved, Quiet, Harmless, SettlingSteps, FirstStep
<1>2. CASE StartSync(r)
  BY <1>2, Moves, HarmlessIsQuiet
  DEF StartSync, Quiet, Harmless, SettlingSteps, FirstStep
<1>3. CASE SyncLookup(r)
  BY <1>3, Moves, HarmlessIsQuiet
  DEF SyncLookup, Quiet, Harmless, SettlingSteps, FirstStep
<1>4. CASE ConfirmLoadHold(r)
  BY <1>4, Moves, HarmlessIsQuiet
  DEF ConfirmLoadHold, Quiet, Harmless, SettlingSteps, FirstStep
<1>5. CASE ConfirmLoadTx(r)
  BY <1>5, Moves, HarmlessIsQuiet
  DEF ConfirmLoadTx, Quiet, Harmless, SettlingSteps, FirstStep
<1>6. CASE ConfirmSaveHold(r)
  BY <1>6, Moves, HarmlessIsQuiet
  DEF ConfirmSaveHold, Quiet, Harmless, SettlingSteps, FirstStep
<1>7. CASE ConfirmWallet(r)
  BY <1>7, Moves, HarmlessIsQuiet
  DEF ConfirmWallet, Quiet, Harmless, SettlingSteps, FirstStep, TypeOK, Wallets
<1>8. CASE ConfirmSaveTx(r)
  BY <1>8, Moves, HarmlessIsQuiet
  DEF ConfirmSaveTx, Quiet, Harmless, SettlingSteps, FirstStep, TypeOK, Operations
<1>9. QED
  BY <1>1, <1>2, <1>3, <1>4, <1>5, <1>6, <1>7, <1>8 DEF ConfirmHold

\* The reversal and the cancellation take back from the balances, and pay nobody.
LEMMA CancellationQuiet ==
  ASSUME IInv, NEW r \in Requests, Cancellation(r)
  PROVE  Quiet
<1> TypeOK
  BY DEF IInv
<1>1. CASE ReverseFind(r)
  <2>1. CASE commission \in Live /\ See(r, commission, "reverse.wallet")
    <3>1. MovesTo(r, "reverse.wallet") /\ commission # "none"
      BY <2>1, Moves DEF Live
    <3>2. QuietMove
      BY <3>1 DEF QuietMove, MovesTo, Settling, SettlingSteps
    <3>3. QED
      BY <1>1, <3>2 DEF ReverseFind, Quiet
  <2>2. CASE AfterReverse(r)
    BY <1>1, <2>2, Moves, HarmlessIsQuiet
    DEF ReverseFind, AfterReverse, Quiet, Harmless, SettlingSteps, FirstStep
  <2>3. QED
    BY <1>1, <2>1, <2>2 DEF ReverseFind
<1>2. CASE ReverseWallet(r)
  BY <1>2, Moves
  DEF ReverseWallet, Quiet, TypeOK, Wallets, Harmless, SettlingSteps, FirstStep,
      QuietMove, MovesTo, Settling, Reversing, At, IInv, SettlementInv
<1>3. CASE ReverseSave(r)
  BY <1>3, Moves, HarmlessIsQuiet
  DEF ReverseSave, AfterReverse, Quiet, Harmless, SettlingSteps, FirstStep, At, IInv,
      SettlementInv
<1>4. CASE CancelTx(r)
  BY <1>4, Moves, HarmlessIsQuiet
  DEF CancelTx, SetStatus, Quiet, Harmless, SettlingSteps, FirstStep, TypeOK,
      Operations
<1>5. QED
  BY <1>1, <1>2, <1>3, <1>4 DEF Cancellation

\* No step of buyerRejectProduct pays the seller or the agent.
LEMMA BuyerRejectProductQuiet ==
  ASSUME IInv, NEW r \in Requests, BuyerRejectProduct(r)
  PROVE  Quiet
<1> TypeOK
  BY DEF IInv
<1>1. CASE StartReject(r)
  <2>1. MovesTo(r, "reject.load")
    BY <1>1 DEF StartReject, MovesTo, TypeOK, RequestStates
  <2>2. QuietMove
    BY <2>1, HarmlessIsQuiet DEF Harmless, SettlingSteps
  <2>3. QED
    BY <1>1, <2>2 DEF StartReject, Quiet
<1>2. CASE RejectLoadTx(r)
  BY <1>2, Moves, HarmlessIsQuiet
  DEF RejectLoadTx, Quiet, Harmless, SettlingSteps, FirstStep
<1>3. CASE RejectFindHold(r)
  BY <1>3, Moves, HarmlessIsQuiet
  DEF RejectFindHold, Quiet, Harmless, SettlingSteps, FirstStep
<1>4. CASE RejectCheck(r)
  BY <1>4, Moves, HarmlessIsQuiet
  DEF RejectCheck, Quiet, Harmless, SettlingSteps, FirstStep
<1>5. CASE RejectRefund(r)
  BY <1>5, Moves, HarmlessIsQuiet
  DEF RejectRefund, Quiet, Harmless, SettlingSteps, FirstStep, TypeOK, Refund
<1>6. CASE RejectWallet(r)
  BY <1>6, Moves, HarmlessIsQuiet
  DEF RejectWallet, Quiet, Harmless, SettlingSteps, FirstStep, TypeOK, Wallets
<1>7. CASE RejectSaveHold(r)
  BY <1>7, Moves, HarmlessIsQuiet
  DEF RejectSaveHold, Quiet, Harmless, SettlingSteps, FirstStep
<1>8. CASE RejectReverseFails(r)
  BY <1>8, Moves, HarmlessIsQuiet
  DEF RejectReverseFails, Quiet, Harmless, SettlingSteps, FirstStep
<1>9. CASE RejectDecide(r)
  BY <1>9, Moves, HarmlessIsQuiet
  DEF RejectDecide, Quiet, Harmless, SettlingSteps, FirstStep, TypeOK, Operations
<1>10. QED
  BY <1>1, <1>2, <1>3, <1>4, <1>5, <1>6, <1>7, <1>8, <1>9 DEF BuyerRejectProduct

\* No step of openDispute pays anybody.
LEMMA OpenDisputeQuiet ==
  ASSUME IInv, NEW r \in Requests, OpenDispute(r)
  PROVE  Quiet
<1> TypeOK
  BY DEF IInv
<1>1. CASE StartDispute(r)
  <2>1. MovesTo(r, "dispute.find")
    BY <1>1 DEF StartDispute, MovesTo, TypeOK, RequestStates
  <2>2. QuietMove
    BY <2>1, HarmlessIsQuiet DEF Harmless, SettlingSteps
  <2>3. QED
    BY <1>1, <2>2 DEF StartDispute, Quiet
<1>2. CASE DisputeFindActive(r)
  BY <1>2, Moves, HarmlessIsQuiet
  DEF DisputeFindActive, Quiet, Harmless, SettlingSteps, FirstStep
<1>3. CASE DisputeSaveTx(r)
  BY <1>3, Moves, HarmlessIsQuiet
  DEF DisputeSaveTx, Quiet, Harmless, SettlingSteps, FirstStep, TypeOK, Operations
<1>4. CASE DisputeCreate(r)
  BY <1>4, Moves, HarmlessIsQuiet
  DEF DisputeCreate, Quiet, Harmless, SettlingSteps, FirstStep
<1>5. CASE DisputeBlock(r)
  BY <1>5, Moves, HarmlessIsQuiet
  DEF DisputeBlock, Quiet, Harmless, SettlingSteps, FirstStep
<1>6. QED
  BY <1>1, <1>2, <1>3, <1>4, <1>5 DEF OpenDispute

\* No step of resolveDispute pays the seller or the agent.
LEMMA ResolveDisputeQuiet ==
  ASSUME IInv, NEW r \in Requests, ResolveDispute(r)
  PROVE  Quiet
<1> TypeOK
  BY DEF IInv
<1>1. CASE StartResolve(r)
  <2>1. MovesTo(r, "resolve.tx")
    BY <1>1 DEF StartResolve, MovesTo, TypeOK, RequestStates
  <2>2. QuietMove
    BY <2>1, HarmlessIsQuiet DEF Harmless, SettlingSteps
  <2>3. QED
    BY <1>1, <2>2 DEF StartResolve, Quiet
<1>2. CASE ResolveLoadTx(r)
  BY <1>2, Moves, HarmlessIsQuiet
  DEF ResolveLoadTx, Quiet, Harmless, SettlingSteps, FirstStep
<1>3. CASE ResolveSaveDispute(r)
  BY <1>3, Moves, HarmlessIsQuiet
  DEF ResolveSaveDispute, Quiet, Harmless, SettlingSteps, FirstStep
<1>4. CASE ResumeSaveTx(r)
  BY <1>4, Moves, HarmlessIsQuiet
  DEF ResumeSaveTx, Quiet, Harmless, SettlingSteps, FirstStep, TypeOK, SetStatus,
      Operations
<1>5. CASE ResumeUnblock(r)
  BY <1>5, Moves, HarmlessIsQuiet
  DEF ResumeUnblock, Quiet, Harmless, SettlingSteps, FirstStep
<1>6. CASE RefundFindHold(r)
  BY <1>6, Moves, HarmlessIsQuiet
  DEF RefundFindHold, Quiet, Harmless, SettlingSteps, FirstStep
<1>7. CASE RefundProvider(r)
  BY <1>7, Moves, HarmlessIsQuiet
  DEF RefundProvider, Quiet, Harmless, SettlingSteps, FirstStep, TypeOK, Refund
<1>8. CASE RefundSaveHold(r)
  BY <1>8, Moves, HarmlessIsQuiet
  DEF RefundSaveHold, Quiet, Harmless, SettlingSteps, FirstStep
<1>9. QED
  BY <1>1, <1>2, <1>3, <1>4, <1>5, <1>6, <1>7, <1>8 DEF ResolveDispute

\* The delivery handlers pay nobody before they call releaseEscrow.
LEMMA DeliveryQuiet ==
  ASSUME IInv, NEW r \in Requests, Delivery(r)
  PROVE  Quiet
<1> TypeOK
  BY DEF IInv
<1>1. CASE StartFinalize(r)
  BY <1>1, Moves, HarmlessIsQuiet
  DEF StartFinalize, Quiet, Harmless, SettlingSteps, FirstStep
<1>2. CASE FinalizeSave(r)
  BY <1>2, Moves, HarmlessIsQuiet
  DEF FinalizeSave, Quiet, Harmless, SettlingSteps, FirstStep, TypeOK, AdvanceFunded,
      Operations
<1>3. CASE StartAcceptProduct(r)
  BY <1>3, Moves, HarmlessIsQuiet
  DEF StartAcceptProduct, Quiet, Harmless, SettlingSteps, FirstStep
<1>4. CASE AcceptProductSave(r)
  BY <1>4, Moves, HarmlessIsQuiet
  DEF AcceptProductSave, Quiet, Harmless, SettlingSteps, FirstStep, TypeOK,
      AdvanceFunded, Operations
<1>5. CASE StartConfirmArrival(r)
  BY <1>5, Moves, HarmlessIsQuiet
  DEF StartConfirmArrival, Quiet, Harmless, SettlingSteps, FirstStep
<1>6. CASE ConfirmArrivalSave(r)
  BY <1>6, Moves, HarmlessIsQuiet
  DEF ConfirmArrivalSave, Quiet, Harmless, SettlingSteps, FirstStep, TypeOK,
      SaveDelivery, AdvanceFunded, Operations
<1>7. CASE StartConfirmDelivery(r)
  BY <1>7, Moves, HarmlessIsQuiet
  DEF StartConfirmDelivery, Quiet, Harmless, SettlingSteps, FirstStep
<1>8. CASE ConfirmDeliverySave(r)
  BY <1>8, Moves, HarmlessIsQuiet
  DEF ConfirmDeliverySave, Quiet, Harmless, SettlingSteps, FirstStep, TypeOK,
      SaveDelivery, AdvanceFunded, Operations
<1>9. QED
  BY <1>1, <1>2, <1>3, <1>4, <1>5, <1>6, <1>7, <1>8 DEF Delivery

\* The delivery timer job pays nobody before it calls releaseEscrow.
LEMMA AutoCompleteQuiet ==
  ASSUME IInv, NEW r \in Requests, AutoComplete(r)
  PROVE  Quiet
<1> TypeOK
  BY DEF IInv
<1>1. CASE StartRemind(r)
  BY <1>1, Moves, HarmlessIsQuiet
  DEF StartRemind, Quiet, Harmless, SettlingSteps, FirstStep
<1>2. CASE RemindSave(r)
  BY <1>2, Moves, HarmlessIsQuiet
  DEF RemindSave, Quiet, Harmless, SettlingSteps, FirstStep, TypeOK, Operations
<1>3. CASE StartAutoComplete(r)
  BY <1>3, Moves, HarmlessIsQuiet
  DEF StartAutoComplete, Quiet, Harmless, SettlingSteps, FirstStep
<1>4. CASE AutoCompleteSave(r)
  BY <1>4, Moves, HarmlessIsQuiet
  DEF AutoCompleteSave, Quiet, Harmless, SettlingSteps, FirstStep, TypeOK,
      SaveDelivery, AdvanceFunded, Operations
<1>5. QED
  BY <1>1, <1>2, <1>3, <1>4 DEF AutoComplete

\* The agent's handlers pay nobody.
LEMMA AgentsQuiet ==
  ASSUME IInv, NEW r \in Requests, Agents(r)
  PROVE  Quiet
<1> TypeOK
  BY DEF IInv
<1>1. CASE StartAgentAccept(r)
  BY <1>1, Moves, HarmlessIsQuiet
  DEF StartAgentAccept, Quiet, Harmless, SettlingSteps, FirstStep
<1>2. CASE AgentAcceptSave(r)
  BY <1>2, Moves, HarmlessIsQuiet
  DEF AgentAcceptSave, Quiet, Harmless, SettlingSteps, FirstStep, TypeOK,
      AdvanceFunded, Operations
<1>3. CASE StartHeal(r)
  BY <1>3, Moves, HarmlessIsQuiet
  DEF StartHeal, Quiet, Harmless, SettlingSteps, FirstStep
<1>4. CASE HealSave(r)
  BY <1>4, Moves, HarmlessIsQuiet
  DEF HealSave, Quiet, Harmless, SettlingSteps, FirstStep, TypeOK, Operations
<1>5. QED
  BY <1>1, <1>2, <1>3, <1>4 DEF Agents

\* The commission timer job moves what was earned, and pays nobody.
LEMMA ReleaseDueQuiet ==
  ASSUME IInv, NEW r \in Requests, ReleaseDue(r)
  PROVE  Quiet
<1> TypeOK
  BY DEF IInv
<1>1. CASE ClaimDue(r)
  BY <1>1, Moves, HarmlessIsQuiet
  DEF ClaimDue, Quiet, Harmless, SettlingSteps, FirstStep
<1>2. CASE DueWallet(r)
  BY <1>2, Moves, HarmlessIsQuiet
  DEF DueWallet, Quiet, Harmless, SettlingSteps, FirstStep, TypeOK, Wallets
<1>3. QED
  BY <1>1, <1>2 DEF ReleaseDue

----------------------------------------------------------------------------
(* The steps of releaseEscrow.                                             *)

\* A settling release, or the first one to insert its first payment, has
\* only itself to look after: nobody else is settling.
LEMMA SettlerStep ==
  ASSUME IInv, TypeOK', NEW r \in Requests, NEW step, MovesTo(r, step),
         Settling(r) \/ FirstKey \notin docs,
         step \notin {"reverse.wallet", "reverse.save"},
         PaidAtMostOnce', CompletedIsSettled', FirstKey \in docs',
         commission # "none" => commission' # "none",
         Settling(r)' => SettlerKnows(r)'
  PROVE  IInv'
<1>1. ASSUME NEW s \in Requests, Settling(s)' PROVE s = r
  <2>1. s # r => Settling(s)
    BY <1>1 DEF MovesTo, Settling
  <2>2. QED
    BY <2>1 DEF IInv, SettlementInv, SettlerKnows
<1>2. ASSUME NEW s \in Requests, Reversing(s)' PROVE commission' # "none"
  <2>1. s # r /\ Reversing(s)
    BY <1>2 DEF MovesTo, Reversing
  <2>2. QED
    BY <2>1 DEF IInv, SettlementInv, Reversing
<1>3. SettlementInv'
  BY <1>1, <1>2 DEF SettlementInv, Reversing
<1>4. QED
  BY <1>3 DEF IInv

\* The inserts of releaseEscrow keep the invariant: the unique key of the first
\* one lets a single release past it.
LEMMA InsertSettles ==
  ASSUME IInv, TypeOK', NEW r \in Requests, ReleaseInsertFee(r) \/ ReleaseInsertAgent(r)
                                        \/ ReleaseInsertRelease(r)
  PROVE  IInv'
<1> TypeOK
  BY DEF IInv
<1> USE DEF ReleaseInsertFee, ReleaseInsertAgent, ReleaseInsertRelease, Insert
<1>1. CASE Finish(r) /\ docs' = docs
  <2>1. Quiet
    BY <1>1, Moves, HarmlessIsQuiet DEF Quiet, Harmless, SettlingSteps
  <2>2. QED
    BY <2>1, QuietKeeps
<1>2. CASE ReleaseInsertFee(r) /\ "fee" \notin docs
  <2> DEFINE step == IF AgentFeeOnly \/ req[r].doc.agent THEN "release.agent" ELSE "release.seller"
  <2>1. Goto(r, step) /\ docs' = docs \cup {"fee"}
    BY <1>2
  <2>2. MovesTo(r, step)
    BY <2>1, Moves
  <2>3. FirstKey = "fee" \/ Settling(r)
    BY <1>2 DEF At, Settling, SettlingSteps, FirstKey, FirstStep
  <2>4. ~Settled /\ FirstKey \in docs'
    <3>1. Settling(r) => FirstKey \in docs
      BY DEF IInv, SettlementInv, SettlerKnows
    <3>2. QED
      BY <1>2, <2>1, <2>3, <3>1 DEF Settled
  <2>5. PaidAtMostOnce' /\ CompletedIsSettled'
    BY <1>2, <2>4 DEF IInv, PaidAtMostOnce, CompletedIsSettled
  <2>6. SettlerKnows(r)'
    BY <1>2, <2>1, <2>2, <2>3, <2>4
    DEF IInv, SettlementInv, SettlerKnows, MovesTo, Settling, SettlingSteps, FirstKey,
        FirstStep, At
  <2>7. QED
    BY <1>2, <2>2, <2>3, <2>4, <2>5, <2>6, SettlerStep
<1>3. CASE ReleaseInsertAgent(r) /\ "agent" \notin docs
  <2>1. Goto(r, "release.commission") /\ docs' = docs \cup {"agent"}
    BY <1>3
  <2>2. MovesTo(r, "release.commission")
    BY <2>1, Moves
  <2>3. Settling(r) /\ SettlerKnows(r) /\ At(r, "release.agent")
    BY <1>3 DEF At, Settling, SettlingSteps, FirstStep, IInv, SettlementInv
  <2>4. ~Settled /\ FirstKey \in docs'
    BY <2>1, <2>3, AmountsAssumption DEF SettlerKnows, Settled, At
  <2>5. PaidAtMostOnce' /\ CompletedIsSettled'
    BY <1>3, <2>4 DEF IInv, PaidAtMostOnce, CompletedIsSettled
  <2>6. SettlerKnows(r)'
    BY <1>3, <2>1, <2>2, <2>3, <2>4 DEF SettlerKnows, MovesTo, At
  <2>7. QED
    BY <1>3, <2>2, <2>3, <2>4, <2>5, <2>6, SettlerStep
<1>4. CASE ReleaseInsertRelease(r) /\ "release" \notin docs
  <2> DEFINE step == IF AgentFeeOnly THEN "release.holdSave" ELSE "release.fee"
  <2>1. Goto(r, step) /\ docs' = docs \cup {"release"}
    BY <1>4
  <2>2. MovesTo(r, step)
    BY <2>1, Moves
  <2>3. FirstKey = "release" \/ Settling(r)
    BY <1>4 DEF At, Settling, SettlingSteps, FirstKey, FirstStep
  <2>4. ~Settled /\ FirstKey \in docs'
    <3>1. Settling(r) => FirstKey \in docs
      BY DEF IInv, SettlementInv, SettlerKnows
    <3>2. QED
      BY <1>4, <2>1, <2>3, <3>1 DEF Settled
  <2>5. PaidAtMostOnce' /\ CompletedIsSettled'
    BY <1>4, <2>4 DEF IInv, PaidAtMostOnce, CompletedIsSettled
  <2>6. SettlerKnows(r)'
    <3>1. CASE AgentFeeOnly
      <4>1. Settling(r) /\ SettlerKnows(r)
        BY <1>4, <3>1 DEF At, Settling, SettlingSteps, FirstStep, IInv, SettlementInv
      <4>2. QED
        BY <1>4, <2>1, <2>2, <2>4, <3>1, <4>1 DEF SettlerKnows, MovesTo, Settled, At
    <3>2. CASE ~AgentFeeOnly
      <4>1. docs = {} /\ commission = "none" /\ wallet.sold = 0 /\ wallet.earned = 0
        BY <1>4, <3>2 DEF IInv, SettlementInv, FirstKey
      <4>2. QED
        BY <1>4, <2>1, <2>2, <2>4, <3>2, <4>1 DEF SettlerKnows, MovesTo
    <3>3. QED
      BY <3>1, <3>2
  <2>7. QED
    BY <1>4, <2>2, <2>3, <2>4, <2>5, <2>6, SettlerStep
<1>5. QED
  BY <1>1, <1>2, <1>3, <1>4

\* Every step of releaseEscrow keeps the invariant.
LEMMA ReleaseEscrowKeeps ==
  ASSUME IInv, NEW r \in Requests, ReleaseEscrow(r)
  PROVE  IInv'
<1> TypeOK
  BY DEF IInv
<1> TypeOK'
  BY ReleaseEscrowType
<1>1. CASE StartRelease(r)
  <2>1. Quiet
    BY <1>1, Moves, HarmlessIsQuiet
    DEF StartRelease, Quiet, Harmless, SettlingSteps, FirstStep
  <2>2. QED
    BY <2>1, QuietKeeps
<1>2. CASE ReleaseLoad(r)
  <2>1. Quiet
    BY <1>2, Moves, HarmlessIsQuiet
    DEF ReleaseLoad, Quiet, Harmless, SettlingSteps, FirstStep
  <2>2. QED
    BY <2>1, QuietKeeps
<1>3. CASE ReleaseFindHold(r)
  <2>1. Quiet
    BY <1>3, Moves, HarmlessIsQuiet
    DEF ReleaseFindHold, Quiet, Harmless, SettlingSteps, FirstStep
  <2>2. QED
    BY <2>1, QuietKeeps
<1>4. CASE ReleaseCheck(r)
  <2>1. Quiet
    BY <1>4, Moves, HarmlessIsQuiet
    DEF ReleaseCheck, Quiet, Harmless, SettlingSteps, FirstStep
  <2>2. QED
    BY <2>1, QuietKeeps
<1>5. CASE ReleaseInsertFee(r) \/ ReleaseInsertAgent(r) \/ ReleaseInsertRelease(r)
  BY <1>5, InsertSettles
<1>6. CASE RecordCommission(r)
  <2>1. Settling(r) /\ SettlerKnows(r) /\ commission = "none"
    BY <1>6
    DEF RecordCommission, SettlerKnows, At, Settling, SettlingSteps, FirstStep, IInv,
        SettlementInv
  <2>2. MovesTo(r, "release.credit") /\ commission' = "PENDING"
    BY <1>6, <2>1, Moves DEF RecordCommission
  <2>3. PaidAtMostOnce' /\ CompletedIsSettled'
    BY <1>6 DEF RecordCommission, IInv, PaidAtMostOnce, CompletedIsSettled, Settled
  <2>4. SettlerKnows(r)' /\ FirstKey \in docs'
    BY <1>6, <2>1, <2>2 DEF RecordCommission, SettlerKnows, MovesTo, At
  <2>5. QED
    BY <2>1, <2>2, <2>3, <2>4, SettlerStep
<1>7. CASE CreditAgent(r)
  <2>1. /\ Settling(r) /\ SettlerKnows(r) /\ "fee" \in docs
        /\ wallet.earned = 0 /\ wallet.sold = 0
    BY <1>7
    DEF CreditAgent, SettlerKnows, At, Settling, SettlingSteps, FirstStep, IInv,
        SettlementInv
  <2>2. MovesTo(r, AfterCommission)
    BY <1>7, Moves DEF CreditAgent
  <2>3. wallet'.earned = AgentFee /\ wallet'.sold = 0
    BY <1>7, <2>1, AmountsType DEF CreditAgent, TypeOK, Wallets
  <2>4. ~Settled
    BY <1>7, <2>1, AmountsAssumption DEF Settled
  <2>5. PaidAtMostOnce' /\ CompletedIsSettled'
    BY <1>7, <2>3, <2>4 DEF CreditAgent, IInv, PaidAtMostOnce, CompletedIsSettled
  <2>6. SettlerKnows(r)' /\ FirstKey \in docs'
    BY <1>7, <2>1, <2>2, <2>3 DEF CreditAgent, SettlerKnows, MovesTo, AfterCommission
  <2>7. QED
    BY <1>7, <2>1, <2>2, <2>5, <2>6, SettlerStep DEF CreditAgent, AfterCommission
<1>8. CASE CreditSeller(r)
  <2>1. Settling(r) /\ SettlerKnows(r) /\ "fee" \in docs /\ wallet.sold = 0 /\ ~AgentFeeOnly
    BY <1>8
    DEF CreditSeller, SettlerKnows, At, Settling, SettlingSteps, FirstStep, IInv,
        SettlementInv
  <2>2. MovesTo(r, "release.holdSave")
    BY <1>8, Moves DEF CreditSeller
  <2>3. wallet'.sold = SellerNet /\ wallet'.earned = wallet.earned
    BY <1>8, <2>1, AmountsType DEF CreditSeller, TypeOK, Wallets
  <2>4. Settled'
    BY <1>8, <2>1, <2>3 DEF CreditSeller, Settled, SettlerKnows, FirstKey, At
  <2>5. PaidAtMostOnce' /\ CompletedIsSettled'
    BY <2>3, <2>4 DEF IInv, PaidAtMostOnce, CompletedIsSettled
  <2>6. SettlerKnows(r)' /\ FirstKey \in docs'
    BY <1>8, <2>1, <2>2, <2>4 DEF CreditSeller, SettlerKnows, MovesTo
  <2>7. QED
    BY <1>8, <2>1, <2>2, <2>5, <2>6, SettlerStep DEF CreditSeller
<1>9. CASE ReleaseSaveHold(r)
  <2>1. Settling(r) /\ SettlerKnows(r) /\ Settled
    BY <1>9
    DEF ReleaseSaveHold, SettlerKnows, At, Settling, SettlingSteps, FirstStep, IInv,
        SettlementInv
  <2>2. MovesTo(r, "release.txSave")
    BY <1>9, Moves DEF ReleaseSaveHold
  <2>3. Settled'
    BY <1>9, <2>1 DEF ReleaseSaveHold, Settled
  <2>4. PaidAtMostOnce' /\ CompletedIsSettled'
    BY <1>9, <2>3 DEF ReleaseSaveHold, IInv, PaidAtMostOnce, CompletedIsSettled
  <2>5. SettlerKnows(r)' /\ FirstKey \in docs'
    BY <1>9, <2>1, <2>2, <2>3 DEF ReleaseSaveHold, SettlerKnows, MovesTo, At
  <2>6. QED
    BY <1>9, <2>1, <2>2, <2>4, <2>5, SettlerStep DEF ReleaseSaveHold
<1>10. CASE ReleaseSaveTx(r)
  <2>1. Settling(r) /\ SettlerKnows(r) /\ Settled
    BY <1>10
    DEF ReleaseSaveTx, SettlerKnows, At, Settling, SettlingSteps, FirstStep, IInv,
        SettlementInv
  <2>2. MovesTo(r, "idle")
    BY <1>10, Moves DEF ReleaseSaveTx
  <2>3. Settled'
    BY <1>10, <2>1 DEF ReleaseSaveTx, Settled
  <2>4. PaidAtMostOnce' /\ CompletedIsSettled'
    BY <1>10, <2>3 DEF ReleaseSaveTx, IInv, PaidAtMostOnce, CompletedIsSettled
  <2>5. ~Settling(r)' /\ FirstKey \in docs'
    BY <1>10, <2>1, <2>2
    DEF ReleaseSaveTx, SettlerKnows, MovesTo, Settling, SettlingSteps
  <2>6. QED
    BY <1>10, <2>1, <2>2, <2>4, <2>5, SettlerStep DEF ReleaseSaveTx
<1>11. QED
  BY <1>1, <1>2, <1>3, <1>4, <1>5, <1>6, <1>7, <1>8, <1>9, <1>10 DEF ReleaseEscrow

\* The provider, the passing of time and the single-step handlers pay nobody.
LEMMA EnvironmentQuiet ==
  ASSUME IInv, Environment
  PROVE  Quiet
<1> TypeOK
  BY DEF IInv
<1> USE DEF Quiet, QuietMove
<1>1. CASE BuyerPays
  BY <1>1 DEF BuyerPays
<1>2. CASE AttemptFails
  BY <1>2 DEF AttemptFails
<1>3. CASE WebhookRejected
  BY <1>3 DEF WebhookRejected
<1>4. CASE AgentWithdraw
  BY <1>4 DEF AgentWithdraw, TypeOK, Operations
<1>5. CASE DeadlineNears
  BY <1>5 DEF DeadlineNears, TypeOK, Operations
<1>6. CASE CommissionMatures
  BY <1>6 DEF CommissionMatures
<1>7. QED
  BY <1>1, <1>2, <1>3, <1>4, <1>5, <1>6 DEF Environment

\* A request that dies pays nobody.
LEMMA AbortQuiet ==
  ASSUME IInv, NEW r \in Requests, Abort(r)
  PROVE  Quiet
  BY Moves, HarmlessIsQuiet DEF Abort, Quiet, Harmless, SettlingSteps, IInv

----------------------------------------------------------------------------

\* The inductive invariant of the settlement.
THEOREM SettlementCorrect == Spec => []IInv
<1>1. Init => IInv
  <2> SUFFICES ASSUME Init PROVE IInv
    OBVIOUS
  <2>1. TypeOK
    BY InitType
  <2>2. \A r \in Requests : req[r].pc = "idle"
    BY DEF Init, IdleRequest
  <2>3. SettlementInv
    BY <2>2 DEF Init, SettlementInv, Settling, SettlingSteps
  <2>4. PaidAtMostOnce /\ CompletedIsSettled
    BY DEF Init, NewOperation, PaidAtMostOnce, CompletedIsSettled
  <2>5. QED
    BY <2>1, <2>3, <2>4 DEF IInv
<1>2. IInv /\ [Next]_vars => IInv'
  <2> SUFFICES ASSUME IInv, [Next]_vars PROVE IInv'
    OBVIOUS
  <2>1. TypeOK'
    BY NextType DEF IInv
  <2>2. CASE Environment
    BY <2>1, <2>2, EnvironmentQuiet, QuietKeeps
  <2>3. ASSUME NEW r \in Requests, Request(r) PROVE IInv'
    BY <2>1, <2>3, ReleaseEscrowKeeps, QuietKeeps, CheckoutQuiet, ConfirmHoldQuiet,
       CancellationQuiet, BuyerRejectProductQuiet, OpenDisputeQuiet, ResolveDisputeQuiet,
       DeliveryQuiet, AutoCompleteQuiet, AgentsQuiet, ReleaseDueQuiet DEF Request
  <2>4. ASSUME NEW r \in Requests, Abort(r) PROVE IInv'
    BY <2>1, <2>4, AbortQuiet, QuietKeeps
  <2>5. CASE UNCHANGED vars
    <3>1. Quiet
      BY <2>5 DEF vars, Quiet, QuietMove
    <3>2. QED
      BY <2>1, <3>1, QuietKeeps
  <2>6. QED
    BY <2>2, <2>3, <2>4, <2>5 DEF Next
<1>3. QED
  BY <1>1, <1>2, PTL DEF Spec

\* A release past its first insert is alone, whatever else runs.
THEOREM SettlementIsExclusive == Spec => []SettlementInv
<1>1. IInv => SettlementInv
  BY DEF IInv
<1>2. QED
  BY <1>1, SettlementCorrect, PTL

\* Nobody is paid twice: not by concurrent releases, not by one that died
\* half-way and is tried again, not by a refund that races with it.
THEOREM NobodyIsPaidTwice == Spec => []PaidAtMostOnce
<1>1. IInv => PaidAtMostOnce
  BY DEF IInv
<1>2. QED
  BY <1>1, SettlementCorrect, PTL

\* Nothing reads COMPLETED or RELEASED before everybody it pays is paid.
THEOREM CompletedMeansSettled == Spec => []CompletedIsSettled
<1>1. IInv => CompletedIsSettled
  BY DEF IInv
<1>2. QED
  BY <1>1, SettlementCorrect, PTL

----------------------------------------------------------------------------
(* Nothing is paid out before the buyer pays.  Until then only checkouts,  *)
(* returns from the checkout page and agents' acceptances are under way.   *)

UnpaidSteps ==
  {"idle", "checkout.find", "checkout.create", "checkout.preference",
   "checkout.save", "sync.lookup", "agent.save", "due.wallet"}

BeforePayment ==
  /\ tx.status = "ACCEPTED"
  /\ hold \in {"none", "PENDING", "REQUIRES_ACTION", "FAILED"}
  /\ docs = {}
  /\ OpenDisputes = {}
  /\ \A r \in Requests :
       /\ req[r].pc \in UnpaidSteps
       /\ req[r].pc = "agent.save" => req[r].doc.status = "ACCEPTED"

PaidInv == TypeOK /\ (~world.paid => BeforePayment)

\* A request that goes on, nothing else of BeforePayment being touched.
LEMMA UnpaidMove ==
  ASSUME TypeOK, BeforePayment, NEW r \in Requests, NEW step \in UnpaidSteps \ {"agent.save"},
         Goto(r, step) \/ Finish(r) \/ \E status : See(r, status, step)
  PROVE  \A s \in Requests :
           /\ req'[s].pc \in UnpaidSteps
           /\ req'[s].pc = "agent.save" => req'[s].doc.status = "ACCEPTED"
<1>1. ASSUME NEW s \in Requests, s # r PROVE req'[s] = req[s]
  BY <1>1 DEF TypeOK, Goto, Finish, See
<1>2. req'[r].pc \in UnpaidSteps \ {"agent.save"}
  BY DEF TypeOK, RequestStates, Goto, Finish, See, IdleRequest, UnpaidSteps
<1>3. QED
  BY <1>1, <1>2 DEF BeforePayment

\* The handlers that need a protected payment cannot run.
LEMMA UnpaidExcludes ==
  ASSUME BeforePayment, NEW r \in Requests
  PROVE  /\ ~ReleaseEscrow(r) /\ ~Cancellation(r) /\ ~BuyerRejectProduct(r)
         /\ ~OpenDispute(r) /\ ~ResolveDispute(r) /\ ~Delivery(r) /\ ~AutoComplete(r)
<1> tx.status = "ACCEPTED" /\ OpenDisputes = {} /\ req[r].pc \in UnpaidSteps
  BY DEF BeforePayment
<1> USE DEF At, UnpaidSteps, Active
<1>1. ~ReleaseEscrow(r)
  BY
  DEF ReleaseEscrow, StartRelease, Releasable, ReleaseLoad, ReleaseFindHold,
      ReleaseCheck,
         ReleaseInsertFee, ReleaseInsertAgent, ReleaseInsertRelease, RecordCommission,
         CreditAgent, CreditSeller, ReleaseSaveHold, ReleaseSaveTx
<1>2. ~Cancellation(r)
  BY DEF Cancellation, ReverseFind, ReverseWallet, ReverseSave, CancelTx
<1>3. ~BuyerRejectProduct(r)
  BY
  DEF BuyerRejectProduct, StartReject, Undecided, RejectLoadTx, RejectFindHold,
      RejectCheck,
         RejectRefund, RejectWallet, RejectSaveHold, RejectReverseFails, RejectDecide
<1>4. ~OpenDispute(r)
  BY
  DEF OpenDispute, StartDispute, DisputeFindActive, DisputeSaveTx, DisputeCreate,
      DisputeBlock
<1>5. ~ResolveDispute(r)
  BY DEF ResolveDispute, StartResolve, ResolveLoadTx, ResolveSaveDispute, ResumeSaveTx,
         ResumeUnblock, RefundFindHold, RefundProvider, RefundSaveHold
<1>6. ~Delivery(r)
  BY
  DEF Delivery, StartFinalize, FinalizeSave, StartAcceptProduct, Undecided,
      AcceptProductSave,
         StartConfirmArrival, InDelivery, ConfirmArrivalSave, StartConfirmDelivery,
         ConfirmDeliverySave
<1>7. ~AutoComplete(r)
  BY DEF AutoComplete, StartRemind, OneConfirmation, InDelivery, RemindSave,
         StartAutoComplete, AutoCompleteSave
<1>8. QED
  BY <1>1, <1>2, <1>3, <1>4, <1>5, <1>6, <1>7

\* A checkout captures nothing.
LEMMA UnpaidCheckout ==
  ASSUME TypeOK, BeforePayment, NEW r \in Requests, Checkout(r)
  PROVE  BeforePayment'
<1> USE UnpaidMove DEF UnpaidSteps, OpenDisputes
<1>1. CASE StartCheckout(r)
  BY <1>1 DEF StartCheckout, BeforePayment
<1>2. CASE CheckoutFindHold(r)
  BY <1>2 DEF CheckoutFindHold, BeforePayment
<1>3. CASE CheckoutCreateHold(r)
  BY <1>3 DEF CheckoutCreateHold, BeforePayment
<1>4. CASE CheckoutPreference(r)
  BY <1>4 DEF CheckoutPreference, BeforePayment
<1>5. CASE CheckoutSaveHold(r)
  BY <1>5 DEF CheckoutSaveHold, BeforePayment
<1>6. QED
  BY <1>1, <1>2, <1>3, <1>4, <1>5 DEF Checkout

\* Before the provider collects, no notice reaches confirmHold.
LEMMA UnpaidConfirm ==
  ASSUME TypeOK, ~world.paid, BeforePayment, NEW r \in Requests, ConfirmHold(r)
  PROVE  BeforePayment'
<1>1. CASE StartSync(r)
  BY <1>1, UnpaidMove DEF StartSync, BeforePayment, UnpaidSteps, OpenDisputes
<1>2. CASE SyncLookup(r)
  BY <1>2, UnpaidMove DEF SyncLookup, Approved, BeforePayment, UnpaidSteps, OpenDisputes
<1>3. ~WebhookApproved(r)
  BY DEF WebhookApproved, Approved
<1>4. req[r].pc \in UnpaidSteps
  BY DEF BeforePayment
<1>5. ~(ConfirmLoadHold(r) \/ ConfirmLoadTx(r) \/ ConfirmSaveHold(r) \/ ConfirmWallet(r)
        \/ ConfirmSaveTx(r))
  BY <1>4
  DEF ConfirmLoadHold, ConfirmLoadTx, ConfirmSaveHold, ConfirmWallet, ConfirmSaveTx,
              At, UnpaidSteps
<1>6. QED
  BY <1>1, <1>2, <1>3, <1>5 DEF ConfirmHold

\* An agent who accepts before the payment leaves the operation ACCEPTED.
LEMMA UnpaidAgents ==
  ASSUME TypeOK, BeforePayment, NEW r \in Requests, Agents(r)
  PROVE  BeforePayment'
<1>1. CASE StartAgentAccept(r)
  <2>1. \A s \in Requests : s # r => req'[s] = req[s]
    BY <1>1 DEF StartAgentAccept, Load, TypeOK
  <2>2. req'[r].pc = "agent.save" /\ req'[r].doc = tx
    BY <1>1 DEF StartAgentAccept, Load, TypeOK, RequestStates
  <2>3. QED
    BY <1>1, <2>1, <2>2 DEF StartAgentAccept, BeforePayment, UnpaidSteps, OpenDisputes
<1>2. CASE AgentAcceptSave(r)
  <2>1. tx'.status = "ACCEPTED"
    BY <1>2 DEF AgentAcceptSave, At, AdvanceFunded, BeforePayment, TypeOK, Operations
  <2>2. QED
    BY <1>2, <2>1, UnpaidMove
    DEF AgentAcceptSave, BeforePayment, UnpaidSteps, OpenDisputes
<1>3. ~StartHeal(r) /\ ~HealSave(r)
  BY DEF StartHeal, HealSave, At, BeforePayment, UnpaidSteps
<1>4. QED
  BY <1>1, <1>2, <1>3 DEF Agents

\* Until the provider collects, every step leaves the operation unfunded.
LEMMA UnpaidStep ==
  ASSUME TypeOK, ~world.paid, ~world'.paid, BeforePayment, [Next]_vars
  PROVE  BeforePayment'
<1>1. CASE Environment
  BY <1>1
  DEF Environment, BuyerPays, AttemptFails, WebhookRejected, AgentWithdraw,
      DeadlineNears,
              CommissionMatures, BeforePayment, OpenDisputes, TypeOK, Operations, Worlds
<1>2. ASSUME NEW r \in Requests, ReleaseDue(r) PROVE BeforePayment'
  BY <1>2, UnpaidMove
  DEF ReleaseDue, ClaimDue, DueWallet, BeforePayment, UnpaidSteps, OpenDisputes
<1>3. ASSUME NEW r \in Requests, Request(r) PROVE BeforePayment'
  BY <1>2, <1>3, UnpaidExcludes, UnpaidCheckout, UnpaidConfirm, UnpaidAgents DEF Request
<1>4. ASSUME NEW r \in Requests, Abort(r) PROVE BeforePayment'
  BY <1>4, UnpaidMove DEF Abort, BeforePayment, UnpaidSteps, OpenDisputes
<1>5. CASE UNCHANGED vars
  BY <1>5 DEF vars, BeforePayment, OpenDisputes
<1>6. QED
  BY <1>1, <1>3, <1>4, <1>5 DEF Next

\* The provider never takes back that the buyer paid.
LEMMA PaidStays ==
  ASSUME TypeOK, [Next]_vars, world.paid
  PROVE  world'.paid
<1> USE DEF TypeOK, Worlds
<1>1. CASE Environment
  BY <1>1 DEF Environment, BuyerPays, AttemptFails, WebhookRejected, AgentWithdraw,
              DeadlineNears, CommissionMatures
<1>2. ASSUME NEW r \in Requests, Request(r) \/ Abort(r)
      PROVE  world' = world \/ world' = [world EXCEPT !.open = TRUE]
             \/ world' = [world EXCEPT !.refunded = TRUE]
             \/ world' = [world EXCEPT !.notices = @ + 1]
             \/ world' = [world EXCEPT !.failures = @ + 1]
  <2>1. CASE Checkout(r)
    BY <2>1 DEF Checkout, StartCheckout, CheckoutFindHold, CheckoutCreateHold,
                CheckoutPreference, CheckoutSaveHold
  <2>2. CASE ConfirmHold(r)
    BY <2>2
    DEF ConfirmHold, WebhookApproved, StartSync, SyncLookup, Notice, ConfirmLoadHold,
                ConfirmLoadTx, ConfirmSaveHold, ConfirmWallet, ConfirmSaveTx
  <2>3. CASE ReleaseEscrow(r)
    BY <2>3 DEF ReleaseEscrow, StartRelease, ReleaseLoad, ReleaseFindHold, ReleaseCheck,
                ReleaseInsertFee, ReleaseInsertAgent, ReleaseInsertRelease, Insert,
                RecordCommission, CreditAgent, CreditSeller, ReleaseSaveHold, ReleaseSaveTx
  <2>4. CASE Cancellation(r)
    BY <2>4 DEF Cancellation, ReverseFind, ReverseWallet, ReverseSave, CancelTx
  <2>5. CASE BuyerRejectProduct(r)
    BY <2>5
    DEF BuyerRejectProduct, StartReject, RejectLoadTx, RejectFindHold, RejectCheck,
                RejectRefund, Refund, Fail, RejectWallet, RejectSaveHold, RejectReverseFails,
                RejectDecide
  <2>6. CASE OpenDispute(r)
    BY <2>6
    DEF OpenDispute, StartDispute, DisputeFindActive, DisputeSaveTx, DisputeCreate,
                DisputeBlock
  <2>7. CASE ResolveDispute(r)
    BY <2>7
    DEF ResolveDispute, StartResolve, ResolveLoadTx, ResolveSaveDispute, ResumeSaveTx,
                ResumeUnblock, RefundFindHold, RefundProvider, Refund, Fail, RefundSaveHold
  <2>8. CASE Delivery(r) \/ AutoComplete(r)
    BY <2>8
    DEF Delivery, StartFinalize, FinalizeSave, StartAcceptProduct, AcceptProductSave,
                StartConfirmArrival, ConfirmArrivalSave, StartConfirmDelivery,
                ConfirmDeliverySave, AutoComplete, StartRemind, RemindSave,
                StartAutoComplete, AutoCompleteSave
  <2>9. CASE Agents(r) \/ ReleaseDue(r) \/ Abort(r)
    BY <2>9
    DEF Agents, StartAgentAccept, AgentAcceptSave, StartHeal, HealSave, ReleaseDue,
                ClaimDue, DueWallet, Abort, Fail
  <2>10. QED
    BY <1>2, <2>1, <2>2, <2>3, <2>4, <2>5, <2>6, <2>7, <2>8, <2>9 DEF Request
<1>3. QED
  BY <1>1, <1>2 DEF Next, vars

\* Until the provider collects, nothing has moved, with any number of requests.
LEMMA PaidCorrect == Spec => []PaidInv
<1>1. Init => PaidInv
  <2> SUFFICES ASSUME Init PROVE PaidInv
    OBVIOUS
  <2>1. BeforePayment
    BY DEF Init, NewOperation, IdleRequest, BeforePayment, OpenDisputes, UnpaidSteps
  <2>2. QED
    BY <2>1, InitType DEF PaidInv
<1>2. PaidInv /\ [Next]_vars => PaidInv'
  BY NextType, UnpaidStep, PaidStays DEF PaidInv
<1>3. QED
  BY <1>1, <1>2, PTL DEF Spec

\* No order of notices, checkouts, aborted requests and stale saves funds an
\* operation, captures a hold or pays anybody before the provider collects.
THEOREM NothingWithoutPayment == Spec => []NothingUnpaid
<1>1. PaidInv => NothingUnpaid
  BY DEF PaidInv, BeforePayment, NothingUnpaid
<1>2. QED
  BY <1>1, PaidCorrect, PTL

----------------------------------------------------------------------------
(* One request at a time, some of which die half-way: the copy that a      *)
(* handler has loaded is the stored operation until it saves it, but for   *)
(* what the agent and the clock change.                                    *)

OneRequest == \E r : Requests = {r}

SameOperation(doc) ==
  /\ doc.status = tx.status /\ doc.verified = tx.verified /\ doc.decision = tx.decision
  /\ doc.arrival = tx.arrival /\ doc.delivery = tx.delivery

\* From the loading of the operation to its saving.
ReleaseSteps == {"release.hold", "release.check"} \cup SettlingSteps

RejectSteps == {"reject.hold", "reject.check", "reject.provider", "reject.wallet", "reject.save"}

ReverseSteps == {"reverse.find", "reverse.wallet", "reverse.save"}

DeliverySteps == {"arrival.save", "delivery.save", "auto.save", "remind.save"}

LoadedSteps ==
  {"confirm.save", "confirm.wallet", "confirm.status", "dispute.find", "dispute.tx",
   "resolve.save", "resume.tx", "refund.hold", "refund.provider", "refund.save", "cancel.tx",
   "finalize.save", "acceptProduct.save", "agent.save"}
  \cup ReleaseSteps \cup RejectSteps \cup DeliverySteps

\* What the handler of request q knows of the stored operation.
KnowsOperation(q) ==
  /\ q.pc \in LoadedSteps => SameOperation(q.doc)
  /\ q.pc \in ReverseSteps /\ q.cause # "CANCEL" => SameOperation(q.doc)
  /\ q.pc \in ReleaseSteps => Releasable(tx)
  /\ q.pc \in RejectSteps \cup {"reject.load"} => q.cause = "REJECT" /\ Undecided(tx)
  /\ q.pc \in ReverseSteps \cup {"cancel.tx"} /\ q.cause = "REJECT" => Undecided(tx)
  /\ q.pc = "reject.decide" => tx.decision = "none" /\ tx.verified
  /\ q.pc \in {"resolve.tx", "resolve.save", "refund.hold", "refund.provider", "refund.save"} =>
       q.cause \in Outcomes
  /\ q.pc \in {"dispute.find", "dispute.tx"} => tx.status \in Active
  /\ q.pc = "finalize.save" => ~tx.verified /\ tx.status \in Active
  /\ q.pc = "acceptProduct.save" => Undecided(tx)
  /\ q.pc \in DeliverySteps => InDelivery(tx)
  /\ q.pc = "heal.save" => tx.status = "FUNDED"

LoneInv ==
  /\ TypeOK
  /\ \A r \in Requests : KnowsOperation(req[r])
  /\ tx.decision # "none" => tx.verified
  /\ CompletedIsDelivered

\* Where request r goes, with which copy of the operation.
GoesOn(r, step, doc) ==
  /\ req'[r].pc = step /\ req'[r].doc = doc
  /\ req'[r].cause = req[r].cause /\ req'[r].dispute = req[r].dispute

\* The ways a request goes on.
LEMMA GoingOn ==
  ASSUME TypeOK, NEW r \in Requests, NEW step
  PROVE  /\ Goto(r, step) => GoesOn(r, step, req[r].doc)
         /\ Load(r, step) => GoesOn(r, step, tx)
         /\ \A status : See(r, status, step) => GoesOn(r, step, req[r].doc)
         /\ Finish(r) => req'[r].pc = "idle"
<1>1. Goto(r, step) => GoesOn(r, step, req[r].doc)
  BY DEF Goto, GoesOn, TypeOK, RequestStates
<1>2. Load(r, step) => GoesOn(r, step, tx)
  BY DEF Load, GoesOn, TypeOK, RequestStates
<1>3. ASSUME NEW status, See(r, status, step) PROVE GoesOn(r, step, req[r].doc)
  BY <1>3 DEF See, GoesOn, TypeOK, RequestStates
<1>4. Finish(r) => req'[r].pc = "idle"
  BY DEF Finish, TypeOK, IdleRequest
<1>5. QED
  BY <1>1, <1>2, <1>3, <1>4

\* What a step of the only request, or around it, keeps and does not do.
LoneStep(r) ==
  /\ KnowsOperation(req[r])'
  /\ tx'.decision # "none" => tx'.verified
  /\ CompletedIsDelivered'
  /\ tx'.status = tx.status \/ Machine!Next
  /\ tx.decision # "none" => tx'.decision = tx.decision

\* A step that leaves the stored operation alone.
LEMMA LoneQuiet ==
  ASSUME LoneInv, NEW r \in Requests, tx' = tx, KnowsOperation(req[r])'
  PROVE  LoneStep(r)
BY DEF LoneInv, LoneStep, CompletedIsDelivered

\* The checkout copies nothing.
LEMMA LoneCheckout ==
  ASSUME LoneInv, NEW r \in Requests, Checkout(r)
  PROVE  LoneStep(r)
<1> USE GoingOn DEF KnowsOperation, GoesOn, LoadedSteps, ReleaseSteps, SettlingSteps, RejectSteps,
                    ReverseSteps, DeliverySteps, LoneInv
<1>1. CASE StartCheckout(r)
  BY <1>1, LoneQuiet DEF StartCheckout
<1>2. CASE CheckoutFindHold(r)
  <2>1. /\ See(r, hold, "checkout.preference") => req'[r].pc = "checkout.preference"
        /\ Goto(r, "checkout.create") => req'[r].pc = "checkout.create"
    BY DEF See, Goto, TypeOK, RequestStates
  <2>2. req'[r].pc \in {"checkout.preference", "checkout.create", "idle"} /\ tx' = tx
    BY <1>2, <2>1 DEF CheckoutFindHold
  <2>3. QED
    BY <2>2, LoneQuiet
<1>3. CASE CheckoutCreateHold(r)
  <2>1. See(r, "PENDING", "checkout.preference") => GoesOn(r, "checkout.preference", req[r].doc)
    BY GoingOn DEF LoneInv
  <2>2. req'[r].pc \in {"checkout.preference", "idle"} /\ tx' = tx
    BY <1>3, <2>1 DEF CheckoutCreateHold
  <2>3. QED
    BY <2>2, LoneQuiet
<1>4. CASE CheckoutPreference(r)
  BY <1>4, LoneQuiet DEF CheckoutPreference
<1>5. CASE CheckoutSaveHold(r)
  BY <1>5, LoneQuiet DEF CheckoutSaveHold
<1>6. QED
  BY <1>1, <1>2, <1>3, <1>4, <1>5 DEF Checkout

\* confirmHold moves on the operation that it has loaded.
LEMMA LoneConfirm ==
  ASSUME LoneInv, NEW r \in Requests, ConfirmHold(r)
  PROVE  LoneStep(r)
<1> USE GoingOn DEF KnowsOperation, GoesOn, LoadedSteps, ReleaseSteps, SettlingSteps, RejectSteps,
                    ReverseSteps, DeliverySteps, SameOperation, LoneInv
<1>1. CASE WebhookApproved(r)
  BY <1>1, LoneQuiet DEF WebhookApproved
<1>2. CASE StartSync(r)
  BY <1>2, LoneQuiet DEF StartSync
<1>3. CASE SyncLookup(r)
  BY <1>3, LoneQuiet DEF SyncLookup
<1>4. CASE ConfirmLoadHold(r)
  BY <1>4, LoneQuiet DEF ConfirmLoadHold
<1>5. CASE ConfirmLoadTx(r)
  BY <1>5, LoneQuiet DEF ConfirmLoadTx
<1>6. CASE ConfirmSaveHold(r)
  BY <1>6, LoneQuiet DEF ConfirmSaveHold, At
<1>7. CASE ConfirmWallet(r)
  BY <1>7, LoneQuiet DEF ConfirmWallet, At
<1>8. CASE ConfirmSaveTx(r)
  <2>1. req'[r].pc = "idle" /\ req[r].doc.status = tx.status
    BY <1>8 DEF ConfirmSaveTx, At
  <2>2. \/ tx' = tx
        \/ /\ tx.status = "ACCEPTED" /\ tx'.status \in {"FUNDED", "IN_PROGRESS"}
           /\ tx'.decision = tx.decision /\ tx'.verified = tx.verified
    BY <1>8, <2>1 DEF ConfirmSaveTx, TypeOK, Operations
  <2>3. tx'.status = tx.status \/ Machine!Next
    BY <2>2 DEF Machine!Next, Machine!Move, Machine!FundAndStart, Machine!ALLOWED, Machine!Statuses
  <2>4. CompletedIsDelivered'
    BY <2>2 DEF CompletedIsDelivered
  <2>5. QED
    BY <2>1, <2>2, <2>3, <2>4 DEF LoneStep
<1>9. QED
  BY <1>1, <1>2, <1>3, <1>4, <1>5, <1>6, <1>7, <1>8 DEF ConfirmHold

\* A release completes an operation that it may release.
LEMMA LoneRelease ==
  ASSUME LoneInv, NEW r \in Requests, ReleaseEscrow(r)
  PROVE  LoneStep(r)
<1> USE GoingOn DEF KnowsOperation, GoesOn, LoadedSteps, ReleaseSteps, SettlingSteps, RejectSteps,
                    ReverseSteps, DeliverySteps, SameOperation, LoneInv
<1>1. CASE StartRelease(r)
  BY <1>1, LoneQuiet DEF StartRelease
<1>2. CASE ReleaseLoad(r)
  BY <1>2, LoneQuiet DEF ReleaseLoad
<1>3. CASE ReleaseFindHold(r)
  BY <1>3, LoneQuiet DEF ReleaseFindHold, At
<1>4. CASE ReleaseCheck(r)
  BY <1>4, LoneQuiet DEF ReleaseCheck, At
<1>5. CASE ReleaseInsertFee(r)
  BY <1>5, LoneQuiet DEF ReleaseInsertFee, Insert, At
<1>6. CASE ReleaseInsertAgent(r)
  BY <1>6, LoneQuiet DEF ReleaseInsertAgent, Insert, At
<1>7. CASE ReleaseInsertRelease(r)
  BY <1>7, LoneQuiet DEF ReleaseInsertRelease, Insert, At
<1>8. CASE RecordCommission(r)
  BY <1>8, LoneQuiet DEF RecordCommission, AfterCommission, At
<1>9. CASE CreditAgent(r)
  BY <1>9, LoneQuiet DEF CreditAgent, AfterCommission, At
<1>10. CASE CreditSeller(r)
  BY <1>10, LoneQuiet DEF CreditSeller, At
<1>11. CASE ReleaseSaveHold(r)
  BY <1>11, LoneQuiet DEF ReleaseSaveHold, At
<1>12. CASE ReleaseSaveTx(r)
  <2>1. req'[r].pc = "idle" /\ Releasable(tx)
    BY <1>12 DEF ReleaseSaveTx, At
  <2>2. /\ tx'.status = "COMPLETED" /\ tx'.decision = tx.decision /\ tx'.verified = tx.verified
        /\ tx'.arrival = tx.arrival /\ tx'.delivery = tx.delivery
    BY <1>12 DEF ReleaseSaveTx, TypeOK, Operations
  <2>3. tx'.status = tx.status \/ Machine!Next
    BY <2>1, <2>2 DEF Releasable, Active, Machine!Next, Machine!Move, Machine!ALLOWED, Machine!Statuses
  <2>4. CompletedIsDelivered'
    BY <2>1, <2>2 DEF CompletedIsDelivered, Releasable
  <2>5. QED
    BY <2>1, <2>2, <2>3, <2>4 DEF LoneStep
<1>13. QED
  BY <1>1, <1>2, <1>3, <1>4, <1>5, <1>6, <1>7, <1>8, <1>9, <1>10, <1>11, <1>12
  DEF ReleaseEscrow

\* A cancellation cancels the operation that it has loaded.
LEMMA LoneCancellation ==
  ASSUME LoneInv, NEW r \in Requests, Cancellation(r)
  PROVE  LoneStep(r)
<1> USE GoingOn DEF KnowsOperation, GoesOn, LoadedSteps, ReleaseSteps, SettlingSteps, RejectSteps,
                    ReverseSteps, DeliverySteps, SameOperation, LoneInv
<1>1. CASE ReverseFind(r)
  <2>1. See(r, commission, "reverse.wallet") => GoesOn(r, "reverse.wallet", req[r].doc)
    BY GoingOn DEF LoneInv
  <2>2. KnowsOperation(req[r])' /\ tx' = tx
    BY <1>1, <2>1 DEF ReverseFind, AfterReverse, At
  <2>3. QED
    BY <2>2, LoneQuiet
<1>2. CASE ReverseWallet(r)
  BY <1>2, LoneQuiet DEF ReverseWallet, At
<1>3. CASE ReverseSave(r)
  BY <1>3, LoneQuiet DEF ReverseSave, AfterReverse, At
<1>4. CASE CancelTx(r)
  <2>1. CASE Machine!CanTransition(req[r].doc.status, "CANCELLED")
    <3>1. /\ tx'.status = "CANCELLED" /\ tx'.decision = tx.decision /\ tx'.verified = tx.verified
      BY <1>4, <2>1 DEF CancelTx, At, SetStatus, TypeOK, Operations
    <3>2. tx'.status = tx.status \/ Machine!Next
      BY <1>4, <2>1, <3>1 DEF CancelTx, At, Machine!CanTransition, Machine!Next, Machine!Move
    <3>3. CompletedIsDelivered'
      BY <3>1 DEF CompletedIsDelivered
    <3>4. KnowsOperation(req[r])'
      <4>1. CASE req[r].cause = "REJECT"
        <5>1. req'[r].pc = "reject.decide" /\ tx.decision = "none" /\ tx.verified
          BY <1>4, <2>1, <4>1 DEF CancelTx, At, Undecided
        <5>2. QED
          BY <3>1, <5>1
      <4>2. CASE req[r].cause = "CANCEL"
        <5>1. req'[r].pc = "reverse.find" /\ req'[r].cause = "CANCEL"
          BY <1>4, <2>1, <4>2 DEF CancelTx
        <5>2. QED
          BY <5>1
      <4>3. CASE req[r].cause \notin {"REJECT", "CANCEL"}
        <5>1. req'[r].pc = "idle"
          BY <1>4, <2>1, <4>3 DEF CancelTx
        <5>2. QED
          BY <5>1
      <4>4. QED
        BY <4>1, <4>2, <4>3
    <3>5. QED
      BY <3>1, <3>2, <3>3, <3>4 DEF LoneStep
  <2>2. CASE ~Machine!CanTransition(req[r].doc.status, "CANCELLED")
    BY <1>4, <2>2, LoneQuiet DEF CancelTx
  <2>3. QED
    BY <2>1, <2>2
<1>5. QED
  BY <1>1, <1>2, <1>3, <1>4 DEF Cancellation

\* A rejection is decided on an operation that nobody has decided on.
LEMMA LoneReject ==
  ASSUME LoneInv, NEW r \in Requests, BuyerRejectProduct(r)
  PROVE  LoneStep(r)
<1> USE GoingOn DEF KnowsOperation, GoesOn, LoadedSteps, ReleaseSteps, SettlingSteps, RejectSteps,
                    ReverseSteps, DeliverySteps, SameOperation, LoneInv
<1>1. CASE StartReject(r)
  <2>1. req'[r].pc = "reject.load" /\ req'[r].cause = "REJECT"
    BY <1>1 DEF StartReject, TypeOK, RequestStates
  <2>2. QED
    BY <1>1, <2>1, LoneQuiet DEF StartReject
<1>2. CASE RejectLoadTx(r)
  BY <1>2, LoneQuiet DEF RejectLoadTx, At
<1>3. CASE RejectFindHold(r)
  BY <1>3, LoneQuiet DEF RejectFindHold, At
<1>4. CASE RejectCheck(r)
  BY <1>4, LoneQuiet DEF RejectCheck, At
<1>5. CASE RejectRefund(r)
  BY <1>5, LoneQuiet DEF RejectRefund, Refund, At
<1>6. CASE RejectWallet(r)
  BY <1>6, LoneQuiet DEF RejectWallet, At
<1>7. CASE RejectSaveHold(r)
  BY <1>7, LoneQuiet DEF RejectSaveHold, At
<1>8. CASE RejectReverseFails(r)
  BY <1>8, LoneQuiet DEF RejectReverseFails
<1>9. CASE RejectDecide(r)
  <2>1. req'[r].pc = "idle" /\ tx.decision = "none" /\ tx.verified
    BY <1>9 DEF RejectDecide, At
  <2>2. /\ tx'.decision = "REJECTED" /\ tx'.status = tx.status /\ tx'.verified = tx.verified
    BY <1>9 DEF RejectDecide, TypeOK, Operations
  <2>3. QED
    BY <2>1, <2>2 DEF LoneStep, CompletedIsDelivered
<1>10. QED
  BY <1>1, <1>2, <1>3, <1>4, <1>5, <1>6, <1>7, <1>8, <1>9 DEF BuyerRejectProduct

\* A dispute is opened of an active operation.
LEMMA LoneOpenDispute ==
  ASSUME LoneInv, NEW r \in Requests, OpenDispute(r)
  PROVE  LoneStep(r)
<1> USE GoingOn DEF KnowsOperation, GoesOn, LoadedSteps, ReleaseSteps, SettlingSteps, RejectSteps,
                    ReverseSteps, DeliverySteps, SameOperation, LoneInv
<1>1. CASE StartDispute(r)
  <2>1. req'[r].pc = "dispute.find" /\ req'[r].doc = tx
    BY <1>1 DEF StartDispute, TypeOK, RequestStates
  <2>2. QED
    BY <1>1, <2>1, LoneQuiet DEF StartDispute
<1>2. CASE DisputeFindActive(r)
  BY <1>2, LoneQuiet DEF DisputeFindActive, At
<1>3. CASE DisputeSaveTx(r)
  <2>1. req'[r].pc = "dispute.create" /\ tx.status \in Active
    BY <1>3 DEF DisputeSaveTx, At
  <2>2. tx'.status = "DISPUTED" /\ tx'.decision = tx.decision /\ tx'.verified = tx.verified
    BY <1>3 DEF DisputeSaveTx, TypeOK, Operations
  <2>3. Machine!Next
    BY <2>1, <2>2 DEF Active, Machine!Next, Machine!Move, Machine!ALLOWED, Machine!Statuses
  <2>4. QED
    BY <2>1, <2>2, <2>3 DEF LoneStep, CompletedIsDelivered
<1>4. CASE DisputeCreate(r)
  BY <1>4, LoneQuiet DEF DisputeCreate
<1>5. CASE DisputeBlock(r)
  BY <1>5, LoneQuiet DEF DisputeBlock
<1>6. QED
  BY <1>1, <1>2, <1>3, <1>4, <1>5 DEF OpenDispute

\* A dispute is resolved on the operation that the resolution has loaded.
LEMMA LoneResolve ==
  ASSUME LoneInv, NEW r \in Requests, ResolveDispute(r)
  PROVE  LoneStep(r)
<1> USE GoingOn DEF KnowsOperation, GoesOn, LoadedSteps, ReleaseSteps, SettlingSteps, RejectSteps,
                    ReverseSteps, DeliverySteps, SameOperation, Outcomes, LoneInv
<1>1. CASE StartResolve(r)
  <2>1. req'[r].pc = "resolve.tx" /\ req'[r].cause \in Outcomes /\ tx' = tx
    BY <1>1 DEF StartResolve, TypeOK, RequestStates
  <2>2. QED
    BY <2>1, LoneQuiet
<1>2. CASE ResolveLoadTx(r)
  BY <1>2, LoneQuiet DEF ResolveLoadTx, At
<1>3. CASE ResolveSaveDispute(r)
  <2>1. CASE req[r].cause = "RESUME"
    BY <1>3, <2>1, LoneQuiet DEF ResolveSaveDispute, At
  <2>2. CASE req[r].cause = "CANCEL"
    BY <1>3, <2>2, LoneQuiet DEF ResolveSaveDispute, At
  <2>3. CASE req[r].cause \notin {"RESUME", "CANCEL"}
    BY <1>3, <2>3, LoneQuiet DEF ResolveSaveDispute, At
  <2>4. QED
    BY <2>1, <2>2, <2>3
<1>4. CASE ResumeSaveTx(r)
  <2>1. CASE Machine!CanTransition(req[r].doc.status, "IN_PROGRESS")
    <3>1. tx'.status = "IN_PROGRESS" /\ tx'.decision = tx.decision /\ tx'.verified = tx.verified
      BY <1>4, <2>1 DEF ResumeSaveTx, At, SetStatus, TypeOK, Operations
    <3>2. tx'.status = tx.status \/ Machine!Next
      BY <1>4, <2>1, <3>1 DEF ResumeSaveTx, At, Machine!CanTransition, Machine!Next, Machine!Move
    <3>3. req'[r].pc = "resume.unblock"
      BY <1>4, <2>1 DEF ResumeSaveTx
    <3>4. QED
      BY <3>1, <3>2, <3>3 DEF LoneStep, CompletedIsDelivered
  <2>2. CASE ~Machine!CanTransition(req[r].doc.status, "IN_PROGRESS")
    BY <1>4, <2>2, LoneQuiet DEF ResumeSaveTx
  <2>3. QED
    BY <2>1, <2>2
<1>5. CASE ResumeUnblock(r)
  BY <1>5, LoneQuiet DEF ResumeUnblock
<1>6. CASE RefundFindHold(r)
  <2>1. See(r, hold, "refund.provider") => GoesOn(r, "refund.provider", req[r].doc)
    BY GoingOn DEF LoneInv
  <2>2. QED
    BY <1>6, <2>1, LoneQuiet DEF RefundFindHold, At
<1>7. CASE RefundProvider(r)
  BY <1>7, LoneQuiet DEF RefundProvider, Refund, At
<1>8. CASE RefundSaveHold(r)
  BY <1>8, LoneQuiet DEF RefundSaveHold, At
<1>9. QED
  BY <1>1, <1>2, <1>3, <1>4, <1>5, <1>6, <1>7, <1>8 DEF ResolveDispute

\* The verification and the delivery go on from what they have loaded.
LEMMA LoneDelivery ==
  ASSUME LoneInv, NEW r \in Requests, Delivery(r) \/ AutoComplete(r)
  PROVE  LoneStep(r)
<1> USE GoingOn DEF KnowsOperation, GoesOn, LoadedSteps, ReleaseSteps, SettlingSteps, RejectSteps,
                    ReverseSteps, DeliverySteps, SameOperation, LoneInv
<1> DEFINE doc == req[r].doc
           Advanced == IF doc.status = "FUNDED" THEN "IN_PROGRESS" ELSE tx.status
<1>1. ASSUME tx'.status = Advanced, doc.status = tx.status
      PROVE  tx'.status = tx.status \/ Machine!Next
  BY <1>1 DEF Machine!Next, Machine!Move, Machine!ALLOWED, Machine!Statuses
<1>2. ASSUME NEW step \in DeliverySteps, At(r, step), tx'.decision = tx.decision,
             tx'.verified = tx.verified, tx'.status \in Active, req'[r].pc \in {"idle", "release.load"},
             tx'.status = tx.status \/ Machine!Next
      PROVE  LoneStep(r)
  BY <1>2 DEF LoneStep, CompletedIsDelivered, Active
<1>3. ASSUME NEW step \in DeliverySteps, At(r, step), NEW a, NEW b, NEW c, NEW d,
             SaveDelivery(r, a, b, c, d), req'[r].pc \in {"idle", "release.load"}
      PROVE  LoneStep(r)
  <2>1. doc.status = tx.status /\ tx.status \in Active
    BY <1>3 DEF At, InDelivery
  <2>2. tx'.status = Advanced /\ tx'.decision = tx.decision /\ tx'.verified = tx.verified
    BY <1>3 DEF SaveDelivery, AdvanceFunded, TypeOK, Operations
  <2>3. tx'.status \in Active
    BY <2>1, <2>2 DEF Active
  <2>4. QED
    BY <1>1, <1>2, <1>3, <2>1, <2>2, <2>3
<1>4. CASE StartFinalize(r)
  BY <1>4, LoneQuiet DEF StartFinalize
<1>5. CASE FinalizeSave(r)
  <2>1. /\ doc.status = tx.status /\ tx.status \in Active /\ tx.decision = "none"
        /\ req'[r].pc = "idle"
    BY <1>5 DEF FinalizeSave, At
  <2>2. tx'.status = Advanced /\ tx'.decision = "none"
    BY <1>5 DEF FinalizeSave, AdvanceFunded, TypeOK, Operations
  <2>3. tx'.status = tx.status \/ Machine!Next
    BY <1>1, <2>1, <2>2
  <2>4. QED
    BY <2>1, <2>2, <2>3 DEF LoneStep, CompletedIsDelivered
<1>6. CASE StartAcceptProduct(r)
  BY <1>6, LoneQuiet DEF StartAcceptProduct
<1>7. CASE AcceptProductSave(r)
  <2>1. doc.status = tx.status /\ Undecided(tx) /\ req'[r].pc = "idle"
    BY <1>7 DEF AcceptProductSave, At
  <2>2. tx'.status = Advanced /\ tx'.decision = "ACCEPTED" /\ tx'.verified = tx.verified
    BY <1>7 DEF AcceptProductSave, AdvanceFunded, TypeOK, Operations
  <2>3. tx'.status = tx.status \/ Machine!Next
    BY <1>1, <2>1, <2>2
  <2>4. QED
    BY <2>1, <2>2, <2>3 DEF LoneStep, CompletedIsDelivered, Undecided, Active
<1>8. CASE StartConfirmArrival(r)
  BY <1>8, LoneQuiet DEF StartConfirmArrival
<1>9. CASE ConfirmArrivalSave(r)
  BY <1>3, <1>9 DEF ConfirmArrivalSave
<1>10. CASE StartConfirmDelivery(r)
  BY <1>10, LoneQuiet DEF StartConfirmDelivery
<1>11. CASE ConfirmDeliverySave(r)
  BY <1>3, <1>11 DEF ConfirmDeliverySave
<1>12. CASE StartRemind(r)
  BY <1>12, LoneQuiet DEF StartRemind, OneConfirmation
<1>13. CASE RemindSave(r)
  <2>1. InDelivery(tx) /\ req'[r].pc = "idle"
    BY <1>13 DEF RemindSave, At
  <2>2. tx'.status = tx.status /\ tx'.decision = tx.decision /\ tx'.verified = tx.verified
    BY <1>13 DEF RemindSave, TypeOK, Operations
  <2>3. QED
    BY <2>1, <2>2 DEF LoneStep, CompletedIsDelivered, InDelivery, Active
<1>14. CASE StartAutoComplete(r)
  BY <1>14, LoneQuiet DEF StartAutoComplete, OneConfirmation
<1>15. CASE AutoCompleteSave(r)
  BY <1>3, <1>15 DEF AutoCompleteSave
<1>16. QED
  BY <1>4, <1>5, <1>6, <1>7, <1>8, <1>9, <1>10, <1>11, <1>12, <1>13, <1>14, <1>15
  DEF Delivery, AutoComplete

\* An agent comes, a read heals the status, the timer job makes a commission available.
LEMMA LoneAgents ==
  ASSUME LoneInv, NEW r \in Requests, Agents(r) \/ ReleaseDue(r)
  PROVE  LoneStep(r)
<1> USE GoingOn DEF KnowsOperation, GoesOn, LoadedSteps, ReleaseSteps, SettlingSteps, RejectSteps,
                    ReverseSteps, DeliverySteps, SameOperation, LoneInv
<1>1. CASE StartAgentAccept(r)
  BY <1>1, LoneQuiet DEF StartAgentAccept
<1>2. CASE AgentAcceptSave(r)
  <2>1. req[r].doc.status = tx.status /\ req'[r].pc = "idle"
    BY <1>2 DEF AgentAcceptSave, At
  <2>2. /\ tx'.status = IF tx.status = "FUNDED" THEN "IN_PROGRESS" ELSE tx.status
        /\ tx'.decision = tx.decision /\ tx'.verified = tx.verified
        /\ tx'.arrival = tx.arrival /\ tx'.delivery = tx.delivery
    BY <1>2, <2>1 DEF AgentAcceptSave, AdvanceFunded, TypeOK, Operations
  <2>3. tx'.status = tx.status \/ Machine!Next
    BY <2>2 DEF Machine!Next, Machine!Move, Machine!ALLOWED, Machine!Statuses
  <2>4. CompletedIsDelivered'
    BY <2>2 DEF CompletedIsDelivered
  <2>5. QED
    BY <2>1, <2>2, <2>3, <2>4 DEF LoneStep
<1>3. CASE StartHeal(r)
  BY <1>3, LoneQuiet DEF StartHeal
<1>4. CASE HealSave(r)
  <2>1. tx.status = "FUNDED" /\ req'[r].pc = "idle"
    BY <1>4 DEF HealSave, At
  <2>2. tx'.status = "IN_PROGRESS" /\ tx'.decision = tx.decision /\ tx'.verified = tx.verified
    BY <1>4 DEF HealSave, TypeOK, Operations
  <2>3. Machine!Next
    BY <2>1, <2>2 DEF Machine!Next, Machine!Move, Machine!ALLOWED, Machine!Statuses
  <2>4. QED
    BY <2>1, <2>2, <2>3 DEF LoneStep, CompletedIsDelivered
<1>5. CASE ClaimDue(r)
  BY <1>5, LoneQuiet DEF ClaimDue
<1>6. CASE DueWallet(r)
  BY <1>6, LoneQuiet DEF DueWallet
<1>7. QED
  BY <1>1, <1>2, <1>3, <1>4, <1>5, <1>6 DEF Agents, ReleaseDue

\* What happens around the request changes no part of the copy that the handler uses.
LEMMA LoneEnvironment ==
  ASSUME LoneInv, NEW r \in Requests, Environment
  PROVE  LoneStep(r)
<1>1. /\ req' = req
      /\ tx'.status = tx.status /\ tx'.decision = tx.decision /\ tx'.verified = tx.verified
      /\ tx'.arrival = tx.arrival /\ tx'.delivery = tx.delivery
  BY DEF Environment, BuyerPays, AttemptFails, WebhookRejected, AgentWithdraw, DeadlineNears,
         CommissionMatures, LoneInv, TypeOK, Operations
<1>2. KnowsOperation(req[r])
  BY DEF LoneInv
<1>3. KnowsOperation(req[r])'
  BY <1>1, <1>2 DEF KnowsOperation, SameOperation, Releasable, Undecided, InDelivery
<1>4. CompletedIsDelivered'
  BY <1>1 DEF LoneInv, CompletedIsDelivered
<1>5. QED
  BY <1>1, <1>3, <1>4 DEF LoneStep, LoneInv

\* Every step, with one request at a time.
LEMMA LoneNext ==
  ASSUME OneRequest, LoneInv, [Next]_vars
  PROVE  \A r \in Requests : LoneStep(r)
<1> SUFFICES ASSUME NEW r \in Requests PROVE LoneStep(r)
  OBVIOUS
<1>1. Requests = {r}
  BY DEF OneRequest
<1>2. CASE Environment
  BY <1>2, LoneEnvironment
<1>3. CASE Request(r)
  BY <1>3, LoneCheckout, LoneConfirm, LoneRelease, LoneCancellation, LoneReject, LoneOpenDispute,
     LoneResolve, LoneDelivery, LoneAgents DEF Request
<1>4. CASE Abort(r)
  <2>1. req'[r].pc = "idle" /\ tx' = tx
    BY <1>4, GoingOn DEF Abort, LoneInv
  <2>2. KnowsOperation(req[r])'
    BY <2>1 DEF KnowsOperation, LoadedSteps, ReleaseSteps, SettlingSteps, RejectSteps, ReverseSteps,
                DeliverySteps
  <2>3. QED
    BY <2>1, <2>2, LoneQuiet
<1>5. CASE UNCHANGED vars
  <2>1. tx' = tx /\ req' = req /\ KnowsOperation(req[r])
    BY <1>5 DEF vars, LoneInv
  <2>2. KnowsOperation(req[r])'
    BY <2>1 DEF KnowsOperation, SameOperation
  <2>3. QED
    BY <2>1, <2>2, LoneQuiet
<1>6. QED
  BY <1>1, <1>2, <1>3, <1>4, <1>5 DEF Next

\* The invariant, for handlers that run one after the other.
LEMMA LoneCorrect ==
  ASSUME OneRequest
  PROVE  Spec => []LoneInv
<1>1. Init => LoneInv
  <2> SUFFICES ASSUME Init PROVE LoneInv
    OBVIOUS
  <2>1. \A r \in Requests : req[r].pc = "idle"
    BY DEF Init, IdleRequest
  <2>2. \A r \in Requests : KnowsOperation(req[r])
    BY <2>1 DEF KnowsOperation, LoadedSteps, ReleaseSteps, SettlingSteps, RejectSteps, ReverseSteps,
                DeliverySteps
  <2>3. tx.decision = "none" /\ tx.status = "ACCEPTED"
    BY DEF Init, NewOperation
  <2>4. QED
    BY <2>2, <2>3, InitType DEF LoneInv, CompletedIsDelivered
<1>2. LoneInv /\ [Next]_vars => LoneInv'
  <2> SUFFICES ASSUME LoneInv, [Next]_vars PROVE LoneInv'
    OBVIOUS
  <2>1. TypeOK'
    BY NextType DEF LoneInv
  <2>2. PICK r \in Requests : Requests = {r}
    BY DEF OneRequest
  <2>3. LoneStep(r)
    BY LoneNext
  <2>4. QED
    BY <2>1, <2>2, <2>3 DEF LoneStep, LoneInv
<1>3. QED
  BY <1>1, <1>2, PTL DEF Spec

\* With one request at a time, some of which die half-way: whoever accepted the product
\* sees the operation completed only after both delivery confirmations
\* (payments/service.ts:1525-1533, transactions/delivery.service.ts).
THEOREM DeliveredBeforeCompleted ==
  ASSUME OneRequest
  PROVE  Spec => []CompletedIsDelivered
<1>1. LoneInv => CompletedIsDelivered
  BY DEF LoneInv
<1>2. QED
  BY <1>1, LoneCorrect, PTL

\* With one request at a time, some of which die half-way: the stored status moves along
\* the table of transactions/state-machine.ts, as the loaded one does.
THEOREM StatusMovesAlongTable ==
  ASSUME OneRequest
  PROVE  Spec => StatusFollowsTable
<1>1. Init => Machine!Init
  BY DEF Init, NewOperation, Machine!Init
<1>2. LoneInv /\ [Next]_vars => [Machine!Next]_(tx.status)
  <2>1. Requests # {}
    BY DEF OneRequest
  <2>2. QED
    BY <2>1, LoneNext DEF LoneStep
<1>3. QED
  BY <1>1, <1>2, LoneCorrect, PTL DEF Spec, StatusFollowsTable, Machine!Spec

\* With one request at a time, some of which die half-way: what the buyer has decided on
\* the product is never decided again, nor dropped by a verification that ends later.
THEOREM DecisionStands ==
  ASSUME OneRequest
  PROVE  Spec => DecisionIsFinal
<1>1. LoneInv /\ [Next]_vars => [tx.decision # "none" => tx'.decision = tx.decision]_vars
  <2>1. Requests # {}
    BY DEF OneRequest
  <2>2. QED
    BY <2>1, LoneNext DEF LoneStep
<1>2. QED
  BY <1>1, LoneCorrect, PTL DEF Spec, DecisionIsFinal

----------------------------------------------------------------------------
(* One request at a time: what a dispute pauses, even where a handler that *)
(* opens or resolves one dies half-way.                                    *)

\* From the end of a dispute, or from a rejection, to the cancellation.
ClosingSteps ==
  ReverseSteps \cup {"resume.tx", "refund.hold", "refund.provider", "refund.save", "cancel.tx"}

\* The steps at which a handler relies on how the disputes stand.
DisputeSteps ==
  ClosingSteps \cup {"dispute.find", "dispute.tx", "dispute.create", "resolve.tx", "resolve.save"}

\* How the disputes stand while the handler of request q runs.
PauseKnown(q) ==
  /\ \A d, e \in OpenDisputes : d = e
  /\ OpenDisputes # {} => tx.status = "DISPUTED"
  /\ q.pc \in {"dispute.find", "dispute.tx", "dispute.create"} => q.dispute \in DisputeIds
  /\ q.pc = "dispute.create" => tx.status = "DISPUTED" /\ OpenDisputes = {}
  /\ q.pc \in {"resolve.tx", "resolve.save"} => OpenDisputes = {q.dispute}
  /\ q.pc \in ClosingSteps => OpenDisputes = {}

PauseInv ==
  /\ IInv /\ LoneInv
  /\ \A r \in Requests : PauseKnown(req[r])

\* A step that neither opens nor closes a dispute.
Aside(r) ==
  /\ disputes' = disputes
  /\ req'[r].pc \notin DisputeSteps
  /\ tx'.status # tx.status => tx.status \in {"ACCEPTED"} \cup Active

\* The operation is not disputed as long as it can move on by itself.
LEMMA AsideKeeps ==
  ASSUME PauseInv, NEW r \in Requests, Aside(r)
  PROVE  PauseKnown(req[r])'
<1>1. PauseKnown(req[r]) /\ OpenDisputes' = OpenDisputes
  BY DEF PauseInv, Aside, OpenDisputes
<1>2. tx'.status # tx.status => OpenDisputes = {}
  BY <1>1 DEF PauseKnown, Aside, Active
<1>3. QED
  BY <1>1, <1>2 DEF PauseKnown, Aside, DisputeSteps, ClosingSteps

\* Where no dispute is open, none is at the next step of a handler that opens none.
LEMMA ClosedStays ==
  ASSUME NEW r \in Requests, OpenDisputes = {}, disputes' = disputes,
         req'[r].pc \in ClosingSteps \cup {"idle", "reject.decide", "resume.unblock"}
  PROVE  PauseKnown(req[r])'
<1>1. OpenDisputes' = {}
  BY DEF OpenDisputes
<1>2. QED
  BY <1>1 DEF PauseKnown, ClosingSteps, ReverseSteps

\* The checkout and the notices of the provider.
LEMMA PauseCheckout ==
  ASSUME PauseInv, NEW r \in Requests, Checkout(r) \/ ConfirmHold(r)
  PROVE  PauseKnown(req[r])'
<1> TypeOK
  BY DEF PauseInv, IInv
<1>1. disputes' = disputes
  BY DEF Checkout, StartCheckout, CheckoutFindHold, CheckoutCreateHold, CheckoutPreference,
         CheckoutSaveHold, ConfirmHold, WebhookApproved, StartSync, SyncLookup, ConfirmLoadHold,
         ConfirmLoadTx, ConfirmSaveHold, ConfirmWallet, ConfirmSaveTx
<1>2. req'[r].pc \notin DisputeSteps
  <2> USE GoingOn DEF GoesOn, DisputeSteps, ClosingSteps, ReverseSteps
  <2>1. CASE Checkout(r)
    <3>1. /\ See(r, hold, "checkout.preference") => GoesOn(r, "checkout.preference", req[r].doc)
          /\ See(r, "PENDING", "checkout.preference") => GoesOn(r, "checkout.preference", req[r].doc)
      BY GoingOn
    <3>2. QED
      BY <2>1, <3>1 DEF Checkout, StartCheckout, CheckoutFindHold, CheckoutCreateHold,
                        CheckoutPreference, CheckoutSaveHold
  <2>2. CASE ConfirmHold(r)
    BY <2>2 DEF ConfirmHold, WebhookApproved, StartSync, SyncLookup, ConfirmLoadHold,
                ConfirmLoadTx, ConfirmSaveHold, ConfirmWallet, ConfirmSaveTx
  <2>3. QED
    BY <2>1, <2>2
<1>3. tx'.status # tx.status => tx.status = "ACCEPTED"
  <2>1. At(r, "confirm.status") => req[r].doc.status = tx.status
    BY DEF At, PauseInv, LoneInv, KnowsOperation, LoadedSteps, SameOperation
  <2>2. QED
    BY <2>1 DEF Checkout, StartCheckout, CheckoutFindHold, CheckoutCreateHold, CheckoutPreference,
         CheckoutSaveHold, ConfirmHold, WebhookApproved, StartSync, SyncLookup, ConfirmLoadHold,
         ConfirmLoadTx, ConfirmSaveHold, ConfirmWallet, ConfirmSaveTx
<1>4. QED
  BY <1>1, <1>2, <1>3, AsideKeeps DEF Aside

\* A release starts on an operation that is not disputed, and is alone to its end.
LEMMA PauseRelease ==
  ASSUME PauseInv, NEW r \in Requests, ReleaseEscrow(r)
  PROVE  /\ PauseKnown(req[r])'
         /\ OpenDisputes # {} => wallet'.sold = wallet.sold /\ wallet'.earned = wallet.earned
<1> TypeOK
  BY DEF PauseInv, IInv
<1>1. disputes' = disputes
  BY DEF ReleaseEscrow, StartRelease, ReleaseLoad, ReleaseFindHold, ReleaseCheck, ReleaseInsertFee,
         ReleaseInsertAgent, ReleaseInsertRelease, Insert, RecordCommission, CreditAgent, CreditSeller,
         ReleaseSaveHold, ReleaseSaveTx
<1>2. req'[r].pc \notin DisputeSteps
  BY GoingOn
  DEF GoesOn, DisputeSteps, ClosingSteps, ReverseSteps, ReleaseEscrow, StartRelease, ReleaseLoad,
      ReleaseFindHold, ReleaseCheck, ReleaseInsertFee, ReleaseInsertAgent, ReleaseInsertRelease,
      Insert, RecordCommission, AfterCommission, CreditAgent, CreditSeller, ReleaseSaveHold,
      ReleaseSaveTx
<1>3. req[r].pc \in SettlingSteps => tx.status \in Active /\ OpenDisputes = {}
  BY DEF PauseInv, LoneInv, KnowsOperation, ReleaseSteps, Releasable, PauseKnown, Active
<1>4. tx' # tx \/ wallet' # wallet => req[r].pc \in SettlingSteps
  BY DEF ReleaseEscrow, StartRelease, ReleaseLoad, ReleaseFindHold, ReleaseCheck, ReleaseInsertFee,
         ReleaseInsertAgent, ReleaseInsertRelease, Insert, RecordCommission, CreditAgent, CreditSeller,
         ReleaseSaveHold, ReleaseSaveTx, At, SettlingSteps
<1>5. PauseKnown(req[r])'
  BY <1>1, <1>2, <1>3, <1>4, AsideKeeps DEF Aside
<1>6. QED
  BY <1>3, <1>4, <1>5

\* A cancellation comes after the dispute that has decided it.
LEMMA PauseCancellation ==
  ASSUME PauseInv, NEW r \in Requests, Cancellation(r)
  PROVE  PauseKnown(req[r])'
<1> TypeOK
  BY DEF PauseInv, IInv
<1>1. disputes' = disputes /\ req[r].pc \in ClosingSteps
  BY DEF Cancellation, ReverseFind, ReverseWallet, ReverseSave, CancelTx, At, ClosingSteps, ReverseSteps
<1>2. OpenDisputes = {}
  BY <1>1 DEF PauseInv, PauseKnown
<1>3. AfterReverse(r) => req'[r].pc \in {"idle", "cancel.tx"}
  BY GoingOn DEF AfterReverse, GoesOn
<1>4. See(r, commission, "reverse.wallet") => GoesOn(r, "reverse.wallet", req[r].doc)
  BY GoingOn
<1>5. CASE ReverseFind(r)
  BY <1>1, <1>2, <1>3, <1>4, <1>5, ClosedStays DEF ReverseFind, GoesOn, ClosingSteps, ReverseSteps
<1>6. CASE ReverseWallet(r)
  BY <1>1, <1>2, <1>6, GoingOn, ClosedStays DEF ReverseWallet, GoesOn, ClosingSteps, ReverseSteps
<1>7. CASE ReverseSave(r)
  BY <1>1, <1>2, <1>3, <1>7, ClosedStays DEF ReverseSave, ClosingSteps
<1>8. CASE CancelTx(r)
  <2>1. \/ Goto(r, "reject.decide") \/ Goto(r, "reverse.find") \/ Finish(r)
    <3>1. CASE req[r].cause = "REJECT"
      BY <1>8, <3>1 DEF CancelTx
    <3>2. CASE req[r].cause = "CANCEL"
      BY <1>8, <3>2 DEF CancelTx
    <3>3. CASE req[r].cause \notin {"REJECT", "CANCEL"}
      BY <1>8, <3>3 DEF CancelTx
    <3>4. QED
      BY <3>1, <3>2, <3>3
  <2>2. req'[r].pc \in {"reject.decide", "reverse.find", "idle"}
    BY <2>1, GoingOn DEF GoesOn
  <2>3. QED
    BY <1>1, <1>2, <2>2, ClosedStays DEF ClosingSteps, ReverseSteps
<1>9. QED
  BY <1>5, <1>6, <1>7, <1>8 DEF Cancellation

\* A rejection starts on an operation that is not disputed.
LEMMA PauseReject ==
  ASSUME PauseInv, NEW r \in Requests, BuyerRejectProduct(r)
  PROVE  PauseKnown(req[r])'
<1> TypeOK
  BY DEF PauseInv, IInv
<1>1. disputes' = disputes /\ tx'.status = tx.status
  BY DEF BuyerRejectProduct, StartReject, RejectLoadTx, RejectFindHold, RejectCheck, RejectRefund,
         RejectWallet, RejectSaveHold, RejectReverseFails, RejectDecide, TypeOK, Operations
<1>2. PauseKnown(req[r]) /\ KnowsOperation(req[r])
  BY DEF PauseInv, LoneInv
<1>a. CASE StartReject(r) \/ RejectLoadTx(r) \/ RejectFindHold(r) \/ RejectCheck(r) \/ RejectDecide(r)
  <2>1. StartReject(r) => req'[r].pc = "reject.load"
    BY DEF StartReject, TypeOK, RequestStates
  <2>2. req'[r].pc \in {"reject.load", "reject.hold", "reject.check", "reject.provider", "idle"}
    BY <1>a, <2>1, GoingOn DEF GoesOn, RejectLoadTx, RejectFindHold, RejectCheck, RejectDecide
  <2>3. QED
    BY <1>1, <2>2, AsideKeeps DEF Aside, DisputeSteps, ClosingSteps, ReverseSteps
<1>b. CASE RejectRefund(r) \/ RejectWallet(r)
  <2>1. req'[r].pc \in {"reject.wallet", "reject.save", "idle"}
    BY <1>b, GoingOn DEF GoesOn, RejectRefund, Refund, RejectWallet
  <2>2. QED
    BY <1>1, <2>1, AsideKeeps DEF Aside, DisputeSteps, ClosingSteps, ReverseSteps
<1>c. CASE RejectSaveHold(r)
  <2>1. req[r].pc = "reject.save" /\ req'[r].pc = "reverse.find"
    BY <1>c, GoingOn DEF GoesOn, RejectSaveHold, At
  <2>2. OpenDisputes = {}
    BY <1>2, <2>1 DEF KnowsOperation, RejectSteps, Undecided, Active, PauseKnown
  <2>3. QED
    BY <1>1, <2>1, <2>2, ClosedStays DEF ClosingSteps, ReverseSteps
<1>d. CASE RejectReverseFails(r)
  <2>1. req[r].pc \in ReverseSteps /\ req'[r].pc = "cancel.tx"
    BY <1>d, GoingOn DEF GoesOn, RejectReverseFails, ReverseSteps
  <2>2. OpenDisputes = {}
    BY <1>2, <2>1 DEF PauseKnown, ClosingSteps
  <2>3. QED
    BY <1>1, <2>1, <2>2, ClosedStays DEF ClosingSteps
<1>e. QED
  BY <1>a, <1>b, <1>c, <1>d DEF BuyerRejectProduct

\* A dispute opens on an operation that has none.
LEMMA PauseOpenDispute ==
  ASSUME PauseInv, NEW r \in Requests, OpenDispute(r)
  PROVE  PauseKnown(req[r])'
<1> TypeOK
  BY DEF PauseInv, IInv
<1>1. PauseKnown(req[r]) /\ KnowsOperation(req[r])
  BY DEF PauseInv, LoneInv
<1>a. ASSUME disputes' = disputes, tx.status \in Active,
             \/ req'[r].pc = "idle"
             \/ req'[r].pc \in {"dispute.find", "dispute.tx"} /\ req'[r].dispute \in DisputeIds
             \/ /\ req'[r].pc = "dispute.create" /\ req'[r].dispute \in DisputeIds
                /\ tx'.status = "DISPUTED"
      PROVE  PauseKnown(req[r])'
  <2>1. OpenDisputes' = {}
    BY <1>1, <1>a DEF PauseKnown, Active, OpenDisputes
  <2>2. QED
    BY <1>a, <2>1 DEF PauseKnown, ClosingSteps, ReverseSteps
<1>2. CASE StartDispute(r)
  <2>1. PICK d \in DisputeIds :
          req' = [req EXCEPT ![r].pc = "dispute.find", ![r].doc = tx, ![r].dispute = d]
    BY <1>2 DEF StartDispute
  <2>2. req'[r].pc = "dispute.find" /\ req'[r].dispute = d
    BY <2>1 DEF TypeOK, RequestStates
  <2>3. QED
    BY <1>2, <1>a, <2>2 DEF StartDispute
<1>3. CASE DisputeFindActive(r)
  <2>1. \/ req'[r].pc = "dispute.tx" /\ req'[r].dispute = req[r].dispute
        \/ req'[r].pc = "idle"
    BY <1>3, GoingOn DEF DisputeFindActive, GoesOn
  <2>2. req[r].pc = "dispute.find" /\ disputes' = disputes
    BY <1>3 DEF DisputeFindActive, At
  <2>3. tx.status \in Active /\ req[r].dispute \in DisputeIds
    BY <1>1, <2>2 DEF KnowsOperation, PauseKnown
  <2>4. QED
    BY <1>a, <2>1, <2>2, <2>3
<1>4. CASE DisputeSaveTx(r)
  <2>1. req'[r].pc = "dispute.create" /\ req'[r].dispute = req[r].dispute
    BY <1>4, GoingOn DEF DisputeSaveTx, GoesOn
  <2>2. req[r].pc = "dispute.tx" /\ disputes' = disputes /\ tx'.status = "DISPUTED"
    BY <1>4 DEF DisputeSaveTx, At, TypeOK, Operations
  <2>3. tx.status \in Active /\ req[r].dispute \in DisputeIds
    BY <1>1, <2>2 DEF KnowsOperation, PauseKnown
  <2>4. QED
    BY <1>a, <2>1, <2>2, <2>3
<1>5. CASE DisputeCreate(r)
  <2>1. req[r].pc = "dispute.create" /\ tx' = tx
        /\ disputes' = [disputes EXCEPT ![req[r].dispute] = "OPEN"]
    BY <1>5 DEF DisputeCreate, At
  <2>2. req'[r].pc = "dispute.block"
    BY <1>5, GoingOn DEF DisputeCreate, GoesOn
  <2>3. OpenDisputes = {} /\ req[r].dispute \in DisputeIds /\ tx.status = "DISPUTED"
    BY <1>1, <2>1 DEF PauseKnown
  <2>4. OpenDisputes' = {req[r].dispute}
    BY <2>1, <2>3 DEF OpenDisputes, TypeOK
  <2>5. QED
    BY <2>1, <2>2, <2>3, <2>4 DEF PauseKnown, ClosingSteps, ReverseSteps
<1>6. CASE DisputeBlock(r)
  <2>1. req'[r].pc = "idle" /\ disputes' = disputes /\ tx' = tx
    BY <1>6, GoingOn DEF DisputeBlock
  <2>2. QED
    BY <2>1, AsideKeeps DEF Aside, DisputeSteps, ClosingSteps, ReverseSteps
<1>7. QED
  BY <1>2, <1>3, <1>4, <1>5, <1>6 DEF OpenDispute

\* A dispute is over before what was decided is carried out.
LEMMA PauseResolve ==
  ASSUME PauseInv, NEW r \in Requests, ResolveDispute(r)
  PROVE  PauseKnown(req[r])'
<1> TypeOK
  BY DEF PauseInv, IInv
<1>1. PauseKnown(req[r]) /\ KnowsOperation(req[r])
  BY DEF PauseInv, LoneInv
<1>2. CASE StartResolve(r)
  <2>1. PICK outcome \in Outcomes, d \in OpenDisputes :
          /\ req' = [req EXCEPT ![r].pc = "resolve.tx", ![r].cause = outcome, ![r].dispute = d]
          /\ tx' = tx /\ disputes' = disputes
    BY <1>2 DEF StartResolve
  <2>2. req'[r].pc = "resolve.tx" /\ req'[r].dispute = d
    BY <2>1 DEF TypeOK, RequestStates
  <2>3. tx.status = "DISPUTED" /\ OpenDisputes = {d}
    BY <1>1, <2>1 DEF PauseKnown
  <2>4. OpenDisputes' = OpenDisputes
    BY <2>1 DEF OpenDisputes
  <2>5. QED
    BY <2>1, <2>2, <2>3, <2>4 DEF PauseKnown, ClosingSteps, ReverseSteps
<1>3. CASE ResolveLoadTx(r)
  <2>1. req[r].pc = "resolve.tx" /\ tx' = tx /\ disputes' = disputes
    BY <1>3 DEF ResolveLoadTx, At
  <2>2. req'[r].pc = "resolve.save" /\ req'[r].dispute = req[r].dispute
    BY <1>3, GoingOn DEF ResolveLoadTx, GoesOn
  <2>3. OpenDisputes' = OpenDisputes
    BY <2>1 DEF OpenDisputes
  <2>4. QED
    BY <1>1, <2>1, <2>2, <2>3 DEF PauseKnown, ClosingSteps, ReverseSteps
<1>4. CASE ResolveSaveDispute(r)
  <2>1. req[r].pc = "resolve.save" /\ disputes' = [disputes EXCEPT ![req[r].dispute] = "RESOLVED"]
    BY <1>4 DEF ResolveSaveDispute, At
  <2>2. OpenDisputes = {req[r].dispute} /\ req[r].cause \in Outcomes
    BY <1>1, <2>1 DEF PauseKnown, KnowsOperation
  <2>3. OpenDisputes' = {}
    BY <2>1, <2>2 DEF OpenDisputes, TypeOK
  <2>4. Goto(r, "resume.tx") \/ Goto(r, "cancel.tx") \/ Goto(r, "refund.hold")
    <3>1. CASE req[r].cause = "RESUME"
      BY <1>4, <3>1 DEF ResolveSaveDispute
    <3>2. CASE req[r].cause = "CANCEL"
      BY <1>4, <3>2 DEF ResolveSaveDispute
    <3>3. CASE req[r].cause = "COMPLETE_WITH_REFUND"
      BY <1>4, <3>3 DEF ResolveSaveDispute
    <3>4. QED
      BY <2>2, <3>1, <3>2, <3>3 DEF Outcomes
  <2>5. req'[r].pc \in {"resume.tx", "cancel.tx", "refund.hold"}
    BY <2>4, GoingOn DEF GoesOn
  <2>6. QED
    BY <2>3, <2>5 DEF PauseKnown, ClosingSteps, ReverseSteps
<1>5. CASE ResumeUnblock(r)
  <2>1. req'[r].pc = "idle" /\ disputes' = disputes /\ tx' = tx
    BY <1>5, GoingOn DEF ResumeUnblock
  <2>2. QED
    BY <2>1, AsideKeeps DEF Aside, DisputeSteps, ClosingSteps, ReverseSteps
<1>6. CASE ResumeSaveTx(r) \/ RefundFindHold(r) \/ RefundProvider(r) \/ RefundSaveHold(r)
  <2>1. req[r].pc \in ClosingSteps /\ disputes' = disputes
    BY <1>6 DEF ResumeSaveTx, RefundFindHold, RefundProvider, RefundSaveHold, At, ClosingSteps
  <2>2. OpenDisputes = {}
    BY <1>1, <2>1 DEF PauseKnown
  <2>3. See(r, hold, "refund.provider") => GoesOn(r, "refund.provider", req[r].doc)
    BY GoingOn
  <2>4. req'[r].pc \in {"resume.unblock", "idle", "reverse.find", "refund.provider", "refund.save"}
    BY <1>6, <2>3, GoingOn DEF GoesOn, ResumeSaveTx, RefundFindHold, RefundProvider, Refund, RefundSaveHold
  <2>5. QED
    BY <2>1, <2>2, <2>4, ClosedStays DEF ClosingSteps, ReverseSteps
<1>7. QED
  BY <1>2, <1>3, <1>4, <1>5, <1>6 DEF ResolveDispute

\* The verification, the delivery, the agent and the maturing commissions.
LEMMA PauseDelivery ==
  ASSUME PauseInv, NEW r \in Requests, Delivery(r) \/ AutoComplete(r) \/ Agents(r) \/ ReleaseDue(r)
  PROVE  PauseKnown(req[r])'
<1> TypeOK
  BY DEF PauseInv, IInv
<1>1. disputes' = disputes
  BY DEF Delivery, StartFinalize, FinalizeSave, StartAcceptProduct, AcceptProductSave,
         StartConfirmArrival, ConfirmArrivalSave, StartConfirmDelivery, ConfirmDeliverySave,
         AutoComplete, StartRemind, RemindSave, StartAutoComplete, AutoCompleteSave,
         Agents, StartAgentAccept, AgentAcceptSave, StartHeal, HealSave, ReleaseDue, ClaimDue, DueWallet
<1>a. req'[r].pc \in {"idle", "finalize.save", "acceptProduct.save", "agent.save", "heal.save",
                      "release.load", "due.wallet"} \cup DeliverySteps
  <2> USE GoingOn DEF GoesOn, DeliverySteps
  <2>1. CASE Delivery(r)
    BY <2>1 DEF Delivery, StartFinalize, FinalizeSave, StartAcceptProduct, AcceptProductSave,
                StartConfirmArrival, ConfirmArrivalSave, StartConfirmDelivery, ConfirmDeliverySave
  <2>2. CASE AutoComplete(r)
    BY <2>2 DEF AutoComplete, StartRemind, RemindSave, StartAutoComplete, AutoCompleteSave
  <2>3. CASE Agents(r)
    BY <2>3 DEF Agents, StartAgentAccept, AgentAcceptSave, StartHeal, HealSave
  <2>4. CASE ReleaseDue(r)
    BY <2>4 DEF ReleaseDue, ClaimDue, DueWallet
  <2>5. QED
    BY <2>1, <2>2, <2>3, <2>4
<1>2. req'[r].pc \notin DisputeSteps
  BY <1>a DEF DisputeSteps, ClosingSteps, ReverseSteps, DeliverySteps
<1>3. tx'.status # tx.status => tx.status = "FUNDED"
  <2>1. req[r].pc \in {"finalize.save", "acceptProduct.save", "agent.save"} \cup DeliverySteps =>
          req[r].doc.status = tx.status
    BY DEF PauseInv, LoneInv, KnowsOperation, LoadedSteps, SameOperation
  <2>2. req[r].pc = "heal.save" => tx.status = "FUNDED"
    BY DEF PauseInv, LoneInv, KnowsOperation
  <2>3. CASE Delivery(r)
    BY <2>1, <2>3 DEF Delivery, StartFinalize, FinalizeSave, StartAcceptProduct, AcceptProductSave,
         StartConfirmArrival, ConfirmArrivalSave, StartConfirmDelivery, ConfirmDeliverySave,
         SaveDelivery, AdvanceFunded, At, DeliverySteps, TypeOK, Operations
  <2>4. CASE AutoComplete(r)
    BY <2>1, <2>4 DEF AutoComplete, StartRemind, RemindSave, StartAutoComplete, AutoCompleteSave,
         SaveDelivery, AdvanceFunded, At, DeliverySteps, TypeOK, Operations
  <2>5. CASE Agents(r)
    BY <2>1, <2>2, <2>5 DEF Agents, StartAgentAccept, AgentAcceptSave, StartHeal, HealSave,
         AdvanceFunded, At, TypeOK, Operations
  <2>6. CASE ReleaseDue(r)
    BY <2>6 DEF ReleaseDue, ClaimDue, DueWallet
  <2>7. QED
    BY <2>3, <2>4, <2>5, <2>6
<1>4. QED
  BY <1>1, <1>2, <1>3, AsideKeeps DEF Aside, Active

\* The provider and the passing of time open and close no dispute.
LEMMA PauseEnvironment ==
  ASSUME PauseInv, NEW r \in Requests, Environment
  PROVE  PauseKnown(req[r])'
<1>1. req' = req /\ disputes' = disputes /\ tx'.status = tx.status
  BY DEF PauseInv, IInv, Environment, BuyerPays, AttemptFails, WebhookRejected, AgentWithdraw,
         DeadlineNears, CommissionMatures, TypeOK, Operations
<1>2. PauseKnown(req[r]) /\ OpenDisputes' = OpenDisputes
  BY <1>1 DEF PauseInv, OpenDisputes
<1>3. QED
  BY <1>1, <1>2 DEF PauseKnown

\* Every step keeps what is known of the disputes, and pays nobody while one is open.
LEMMA PauseNext ==
  ASSUME OneRequest, PauseInv, [Next]_vars
  PROVE  /\ \A r \in Requests : PauseKnown(req[r])'
         /\ OpenDisputes # {} => wallet'.sold = wallet.sold /\ wallet'.earned = wallet.earned
<1> IInv
  BY DEF PauseInv
<1>1. PICK r \in Requests : Requests = {r}
  BY DEF OneRequest
<1> SUFFICES /\ PauseKnown(req[r])'
             /\ OpenDisputes # {} => wallet'.sold = wallet.sold /\ wallet'.earned = wallet.earned
  BY <1>1
<1>2. CASE Environment
  BY <1>2, PauseEnvironment, EnvironmentQuiet DEF Quiet
<1>3. CASE ReleaseEscrow(r)
  BY <1>3, PauseRelease
<1>4. CASE Checkout(r) \/ ConfirmHold(r)
  BY <1>4, PauseCheckout, CheckoutQuiet, ConfirmHoldQuiet DEF Quiet
<1>5. CASE Cancellation(r)
  BY <1>5, PauseCancellation, CancellationQuiet DEF Quiet
<1>6. CASE BuyerRejectProduct(r)
  BY <1>6, PauseReject, BuyerRejectProductQuiet DEF Quiet
<1>7. CASE OpenDispute(r)
  BY <1>7, PauseOpenDispute, OpenDisputeQuiet DEF Quiet
<1>8. CASE ResolveDispute(r)
  BY <1>8, PauseResolve, ResolveDisputeQuiet DEF Quiet
<1>9. CASE Delivery(r) \/ AutoComplete(r) \/ Agents(r) \/ ReleaseDue(r)
  BY <1>9, PauseDelivery, DeliveryQuiet, AutoCompleteQuiet, AgentsQuiet, ReleaseDueQuiet DEF Quiet
<1>10. CASE Abort(r)
  <2>1. req'[r].pc = "idle" /\ disputes' = disputes /\ tx' = tx
    BY <1>10, GoingOn DEF Abort, IInv
  <2>2. PauseKnown(req[r])'
    BY <2>1, AsideKeeps DEF Aside, DisputeSteps, ClosingSteps, ReverseSteps
  <2>3. QED
    BY <1>10, <2>2, AbortQuiet DEF Quiet
<1>11. CASE UNCHANGED vars
  <2>1. PauseKnown(req[r]) /\ OpenDisputes' = OpenDisputes
    BY <1>11 DEF PauseInv, OpenDisputes, vars
  <2>2. QED
    BY <1>11, <2>1 DEF PauseKnown, vars
<1>12. QED
  BY <1>1, <1>2, <1>3, <1>4, <1>5, <1>6, <1>7, <1>8, <1>9, <1>10, <1>11 DEF Next, Request

\* With one request at a time, some of which die half-way: while a dispute is open nobody
\* is credited (disputes/service.ts, "La liberacion de fondos quedo pausada").
THEOREM DisputePausesRelease ==
  ASSUME OneRequest
  PROVE  Spec => NoReleaseWhileDisputed
<1> DEFINE Base == IInv /\ LoneInv
           Paused == OpenDisputes # {} => wallet'.sold = wallet.sold /\ wallet'.earned = wallet.earned
<1>1. Spec => []Base
  BY SettlementCorrect, LoneCorrect, PTL
<1>2. Init /\ Base => PauseInv
  <2> SUFFICES ASSUME Init, Base, NEW r \in Requests PROVE PauseKnown(req[r])
    BY DEF PauseInv
  <2>1. req[r].pc = "idle" /\ OpenDisputes = {}
    BY DEF Init, IdleRequest, OpenDisputes
  <2>2. QED
    BY <2>1 DEF PauseKnown, ClosingSteps, ReverseSteps
<1>3. PauseInv /\ [Next]_vars /\ Base' => PauseInv'
  BY PauseNext DEF PauseInv
<1>4. PauseInv /\ [Next]_vars => [Paused]_vars
  BY PauseNext
<1> HIDE DEF Base
<1>5. QED
  BY <1>1, <1>2, <1>3, <1>4, PTL DEF Spec, NoReleaseWhileDisputed

----------------------------------------------------------------------------
(* One request at a time, none of which dies.                              *)

\* The dispute is over and its outcome has still to be carried out.
CarryingOut(q) ==
  \/ q.pc \in {"resume.tx", "refund.hold", "refund.provider", "refund.save"}
  \/ q.pc = "cancel.tx" /\ q.cause # "REJECT"
  \/ q.pc \in ReverseSteps /\ q.cause = "COMPLETE_WITH_REFUND"

\* Where the disputes stand.
DisputesKnown(q) ==
  /\ \A d, e \in OpenDisputes : d = e
  /\ OpenDisputes # {} => tx.status = "DISPUTED"
  /\ tx.status = "DISPUTED" => OpenDisputes # {} \/ q.pc = "dispute.create" \/ CarryingOut(q)
  /\ q.pc \in {"dispute.find", "dispute.tx", "dispute.create"} => q.dispute \in DisputeIds
  /\ q.pc = "dispute.create" => tx.status = "DISPUTED" /\ OpenDisputes = {}
  /\ q.pc = "dispute.block" => tx.status = "DISPUTED"
  /\ q.pc \in {"resolve.tx", "resolve.save"} =>
       OpenDisputes = {q.dispute} /\ q.cause \in Outcomes
  /\ CarryingOut(q) => tx.status = "DISPUTED" /\ OpenDisputes = {} /\ q.cause \in Outcomes
  /\ q.pc \in {"refund.hold", "refund.provider", "refund.save"} => q.cause = "COMPLETE_WITH_REFUND"
  /\ q.pc = "resume.unblock" => tx.status = "IN_PROGRESS"
  /\ q.pc \in ReverseSteps /\ q.cause = "CANCEL" => tx.status = "CANCELLED"
  /\ q.pc \in ReverseSteps => q.cause \in {"REJECT", "CANCEL", "COMPLETE_WITH_REFUND"}

\* Where the money is.
MoneyKnown(q) ==
  /\ FirstKey \in docs => tx.status = "COMPLETED" \/ q.pc \in SettlingSteps \ {FirstStep}
  /\ ~AgentFeeOnly /\ q.pc = "release.fee" => "fee" \notin docs
  /\ AgentFeeOnly /\ q.pc \in {"release.agent", "release.commission", "release.credit", "release.release"} =>
       "release" \notin docs
  /\ q.pc = "due.wallet" => commission = "AVAILABLE"
  /\ q.pc = "release.credit" => commission = "PENDING"
  /\ q.pc \notin {"reverse.wallet", "reverse.save"}
  /\ commission \in {"none", "PENDING", "AVAILABLE"}
  /\ wallet.pend = IF (commission = "PENDING" /\ q.pc # "release.credit") \/ q.pc = "due.wallet"
                   THEN AgentFee ELSE 0
  /\ wallet.avail = IF commission = "AVAILABLE" /\ q.pc # "due.wallet" THEN AgentFee ELSE 0
  /\ commission = "AVAILABLE" => tx.status = "COMPLETED"
  /\ world.refunded =>
       \/ tx.status = "CANCELLED"
       \/ q.pc \in {"reject.wallet", "reject.save", "refund.save"}
       \/ q.pc \in ReverseSteps \cup {"cancel.tx"} /\ q.cause \in {"REJECT", "COMPLETE_WITH_REFUND"}

SmoothInv ==
  /\ IInv /\ LoneInv /\ PaidInv
  /\ \A r \in Requests : DisputesKnown(req[r]) /\ MoneyKnown(req[r])

IdealStep == Ideal!Next \/ (world'.paid = world.paid /\ Given' = Given)

\* What a step of the only request, or around it, keeps and does not do.
SmoothStep(r) ==
  /\ DisputesKnown(req[r])' /\ MoneyKnown(req[r])'
  /\ OpenDisputes # {} => wallet'.sold = wallet.sold /\ wallet'.earned = wallet.earned
  /\ IdealStep

\* The steps at which a handler knows more than what is stored.
BusySteps ==
  (SettlingSteps \ {FirstStep}) \cup ReverseSteps \cup
  {"due.wallet", "reject.wallet", "reject.save", "cancel.tx", "dispute.find", "dispute.tx",
   "dispute.create", "dispute.block", "resolve.tx", "resolve.save", "resume.tx", "resume.unblock",
   "refund.hold", "refund.provider", "refund.save"}

\* What the money and the disputes say is left alone.
SameMoney ==
  /\ docs' = docs /\ commission' = commission
  /\ wallet'.pend = wallet.pend /\ wallet'.avail = wallet.avail
  /\ wallet'.sold = wallet.sold /\ wallet'.earned = wallet.earned
  /\ world'.refunded = world.refunded /\ world'.paid = world.paid

\* A step between steps at which a handler knows no more than what is stored.
PlainStep(r) ==
  /\ SameMoney /\ disputes' = disputes
  /\ req[r].pc \notin BusySteps /\ req'[r].pc \notin BusySteps
  /\ tx'.status # tx.status =>
       tx.status \in {"ACCEPTED", "FUNDED"} /\ tx'.status \in {"FUNDED", "IN_PROGRESS"}

\* Who has been given what depends on the money alone.
LEMMA SameGiven ==
  ASSUME SameMoney
  PROVE  Given' = Given /\ IdealStep
<1>1. Given' = Given
  BY DEF SameMoney, Given
<1>2. QED
  BY <1>1 DEF SameMoney, IdealStep

\* Where nobody has been paid.
LEMMA NobodyPaid ==
  ASSUME SmoothInv, NEW r \in Requests, tx.status # "COMPLETED",
         req[r].pc \notin SettlingSteps \ {FirstStep}
  PROVE  docs = {} /\ commission = "none" /\ wallet.sold = 0 /\ wallet.earned = 0
BY DEF SmoothInv, MoneyKnown, IInv, SettlementInv

\* Steps that neither pay nor dispute.
LEMMA PlainIsSmooth ==
  ASSUME SmoothInv, NEW r \in Requests, PlainStep(r)
  PROVE  SmoothStep(r)
<1>1. DisputesKnown(req[r]) /\ MoneyKnown(req[r])
  BY DEF SmoothInv
<1>2. /\ disputes' = disputes /\ req[r].pc \notin BusySteps /\ req'[r].pc \notin BusySteps
      /\ tx'.status # tx.status =>
           tx.status \in {"ACCEPTED", "FUNDED"} /\ tx'.status \in {"FUNDED", "IN_PROGRESS"}
  BY DEF PlainStep
<1>3. OpenDisputes' = OpenDisputes
  BY <1>2 DEF OpenDisputes
<1>4. DisputesKnown(req[r])'
  <2>1. req[r].pc # "dispute.create" /\ ~CarryingOut(req[r])
    BY <1>2 DEF BusySteps, CarryingOut
  <2>2. ~CarryingOut(req'[r])
    BY <1>2 DEF BusySteps, CarryingOut
  <2>3. req'[r].pc \notin {"dispute.find", "dispute.tx", "dispute.create", "dispute.block", "resolve.tx",
                           "resolve.save", "refund.hold", "refund.provider", "refund.save",
                           "resume.unblock"} \cup ReverseSteps
    BY <1>2 DEF BusySteps
  <2>4. \A d, e \in OpenDisputes' : d = e
    BY <1>1, <1>3 DEF DisputesKnown
  <2>5. OpenDisputes' # {} => tx'.status = "DISPUTED"
    BY <1>1, <1>2, <1>3 DEF DisputesKnown
  <2>6. tx'.status = "DISPUTED" => OpenDisputes' # {}
    BY <1>1, <1>2, <1>3, <2>1 DEF DisputesKnown
  <2>7. CarryingOut(req[r])' <=> CarryingOut(req'[r])
    BY DEF CarryingOut
  <2>8. QED
    BY <2>2, <2>3, <2>4, <2>5, <2>6, <2>7 DEF DisputesKnown
<1>5. MoneyKnown(req[r])'
  <2>1. /\ req[r].pc \notin SettlingSteps \ {FirstStep} /\ req[r].pc \notin ReverseSteps
        /\ req[r].pc \notin {"due.wallet", "release.credit", "reject.wallet", "reject.save",
                             "refund.save", "cancel.tx"}
    BY <1>2 DEF BusySteps, SettlingSteps, FirstStep
  <2>2. /\ req'[r].pc \notin ReverseSteps
        /\ req'[r].pc \notin {"due.wallet", "release.credit"}
        /\ ~(~AgentFeeOnly /\ req'[r].pc = "release.fee")
        /\ ~(AgentFeeOnly /\ req'[r].pc \in {"release.agent", "release.commission", "release.credit",
                                             "release.release"})
    BY <1>2 DEF BusySteps, SettlingSteps, FirstStep
  <2>3. SameMoney
    BY DEF PlainStep
  <2>4. QED
    BY <1>1, <1>2, <2>1, <2>2, <2>3 DEF MoneyKnown, SameMoney, ReverseSteps
<1>6. SameMoney
  BY DEF PlainStep
<1>7. QED
  BY <1>4, <1>5, <1>6, SameGiven DEF SmoothStep, SameMoney

\* The checkout pays nobody.
LEMMA SmoothCheckout ==
  ASSUME SmoothInv, NEW r \in Requests, Checkout(r)
  PROVE  SmoothStep(r)
<1> TypeOK
  BY DEF SmoothInv, IInv
<1> SUFFICES PlainStep(r)
  BY PlainIsSmooth
<1> USE GoingOn DEF PlainStep, SameMoney, BusySteps, SettlingSteps, FirstStep, ReverseSteps, GoesOn, At
<1>1. CASE StartCheckout(r)
  BY <1>1 DEF StartCheckout, Idle
<1>2. CASE CheckoutFindHold(r)
  <2>1. See(r, hold, "checkout.preference") => GoesOn(r, "checkout.preference", req[r].doc)
    BY GoingOn
  <2>2. QED
    BY <1>2, <2>1 DEF CheckoutFindHold
<1>3. CASE CheckoutCreateHold(r)
  <2>1. See(r, "PENDING", "checkout.preference") => GoesOn(r, "checkout.preference", req[r].doc)
    BY GoingOn
  <2>2. QED
    BY <1>3, <2>1 DEF CheckoutCreateHold
<1>4. CASE CheckoutPreference(r)
  <2>1. world'.refunded = world.refunded /\ world'.paid = world.paid
    BY <1>4 DEF CheckoutPreference, TypeOK, Worlds
  <2>2. QED
    BY <1>4, <2>1 DEF CheckoutPreference
<1>5. CASE CheckoutSaveHold(r)
  BY <1>5 DEF CheckoutSaveHold
<1>6. QED
  BY <1>1, <1>2, <1>3, <1>4, <1>5 DEF Checkout

\* confirmHold holds the price, and pays nobody out of it.
LEMMA SmoothConfirm ==
  ASSUME SmoothInv, NEW r \in Requests, ConfirmHold(r)
  PROVE  SmoothStep(r)
<1> TypeOK
  BY DEF SmoothInv, IInv
<1> SUFFICES PlainStep(r)
  BY PlainIsSmooth
<1> USE GoingOn DEF PlainStep, SameMoney, BusySteps, SettlingSteps, FirstStep, ReverseSteps, GoesOn, At
<1>1. Notice => world'.refunded = world.refunded /\ world'.paid = world.paid
  BY DEF Notice, TypeOK, Worlds
<1>2. CASE WebhookApproved(r)
  BY <1>1, <1>2 DEF WebhookApproved, Idle
<1>3. CASE StartSync(r)
  BY <1>3 DEF StartSync, Idle
<1>4. CASE SyncLookup(r)
  BY <1>1, <1>4 DEF SyncLookup
<1>5. CASE ConfirmLoadHold(r)
  BY <1>5 DEF ConfirmLoadHold
<1>6. CASE ConfirmLoadTx(r)
  BY <1>6 DEF ConfirmLoadTx
<1>7. CASE ConfirmSaveHold(r)
  BY <1>7 DEF ConfirmSaveHold
<1>8. CASE ConfirmWallet(r)
  <2>1. /\ wallet'.pend = wallet.pend /\ wallet'.avail = wallet.avail
        /\ wallet'.sold = wallet.sold /\ wallet'.earned = wallet.earned
    BY <1>8 DEF ConfirmWallet, TypeOK, Wallets
  <2>2. QED
    BY <1>8, <2>1 DEF ConfirmWallet
<1>9. CASE ConfirmSaveTx(r)
  <2>1. req[r].doc.status = tx.status
    BY <1>9 DEF ConfirmSaveTx, SmoothInv, LoneInv, KnowsOperation, LoadedSteps, SameOperation
  <2>2. tx'.status # tx.status => tx.status = "ACCEPTED" /\ tx'.status \in {"FUNDED", "IN_PROGRESS"}
    BY <1>9, <2>1 DEF ConfirmSaveTx, TypeOK, Operations
  <2>3. QED
    BY <1>9, <2>2 DEF ConfirmSaveTx
<1>10. QED
  BY <1>2, <1>3, <1>4, <1>5, <1>6, <1>7, <1>8, <1>9 DEF ConfirmHold

\* The verification, the delivery and the agent pay nobody.
LEMMA SmoothDelivery ==
  ASSUME SmoothInv, NEW r \in Requests, Delivery(r) \/ AutoComplete(r) \/ Agents(r)
  PROVE  SmoothStep(r)
<1> TypeOK
  BY DEF SmoothInv, IInv
<1> SUFFICES PlainStep(r)
  BY PlainIsSmooth
<1>1. SameMoney /\ disputes' = disputes
  BY DEF SameMoney, Delivery, StartFinalize, FinalizeSave, StartAcceptProduct, AcceptProductSave,
         StartConfirmArrival, ConfirmArrivalSave, StartConfirmDelivery, ConfirmDeliverySave,
         AutoComplete, StartRemind, RemindSave, StartAutoComplete, AutoCompleteSave,
         Agents, StartAgentAccept, AgentAcceptSave, StartHeal, HealSave
<1>2. req[r].pc \in {"idle", "finalize.save", "acceptProduct.save", "agent.save", "heal.save"} \cup DeliverySteps
  BY DEF Delivery, StartFinalize, FinalizeSave, StartAcceptProduct, AcceptProductSave,
         StartConfirmArrival, ConfirmArrivalSave, StartConfirmDelivery, ConfirmDeliverySave,
         AutoComplete, StartRemind, RemindSave, StartAutoComplete, AutoCompleteSave,
         Agents, StartAgentAccept, AgentAcceptSave, StartHeal, HealSave, Idle, At, DeliverySteps
<1>3. req'[r].pc \in {"idle", "finalize.save", "acceptProduct.save", "agent.save", "heal.save",
                      "release.load"} \cup DeliverySteps
  <2> USE GoingOn DEF GoesOn, DeliverySteps
  <2>1. CASE Delivery(r)
    BY <2>1 DEF Delivery, StartFinalize, FinalizeSave, StartAcceptProduct, AcceptProductSave,
                StartConfirmArrival, ConfirmArrivalSave, StartConfirmDelivery, ConfirmDeliverySave
  <2>2. CASE AutoComplete(r)
    BY <2>2 DEF AutoComplete, StartRemind, RemindSave, StartAutoComplete, AutoCompleteSave
  <2>3. CASE Agents(r)
    BY <2>3 DEF Agents, StartAgentAccept, AgentAcceptSave, StartHeal, HealSave
  <2>4. QED
    BY <2>1, <2>2, <2>3
<1>4. tx'.status # tx.status => tx.status = "FUNDED" /\ tx'.status = "IN_PROGRESS"
  <2>1. req[r].pc \in {"finalize.save", "acceptProduct.save", "agent.save"} \cup DeliverySteps =>
          req[r].doc.status = tx.status
    BY DEF SmoothInv, LoneInv, KnowsOperation, LoadedSteps, SameOperation
  <2>2. req[r].pc = "heal.save" => tx.status = "FUNDED"
    BY DEF SmoothInv, LoneInv, KnowsOperation
  <2>3. CASE Delivery(r)
    BY <2>1, <2>3 DEF Delivery, StartFinalize, FinalizeSave, StartAcceptProduct, AcceptProductSave,
         StartConfirmArrival, ConfirmArrivalSave, StartConfirmDelivery, ConfirmDeliverySave,
         SaveDelivery, AdvanceFunded, At, DeliverySteps, TypeOK, Operations
  <2>4. CASE AutoComplete(r)
    BY <2>1, <2>4 DEF AutoComplete, StartRemind, RemindSave, StartAutoComplete, AutoCompleteSave,
         SaveDelivery, AdvanceFunded, At, DeliverySteps, TypeOK, Operations
  <2>5. CASE Agents(r)
    BY <2>1, <2>2, <2>5 DEF Agents, StartAgentAccept, AgentAcceptSave, StartHeal, HealSave,
         AdvanceFunded, At, TypeOK, Operations
  <2>6. QED
    BY <2>3, <2>4, <2>5
<1>5. req[r].pc \notin BusySteps /\ req'[r].pc \notin BusySteps
  BY <1>2, <1>3 DEF BusySteps, SettlingSteps, ReverseSteps, DeliverySteps
<1>6. QED
  BY <1>1, <1>4, <1>5 DEF PlainStep


\* Steps that leave the money alone, of a handler that does not settle.
LEMMA MoneyStays ==
  ASSUME SmoothInv, NEW r \in Requests, SameMoney, DisputesKnown(req[r])',
         req[r].pc \notin (SettlingSteps \ {FirstStep}) \cup {"due.wallet"},
         req'[r].pc \notin SettlingSteps \cup {"due.wallet", "reverse.wallet", "reverse.save"},
         tx.status = "COMPLETED" => tx'.status = "COMPLETED",
         world'.refunded =>
           \/ tx'.status = "CANCELLED"
           \/ req'[r].pc \in {"reject.wallet", "reject.save", "refund.save"}
           \/ req'[r].pc \in {"reverse.find", "cancel.tx"}
              /\ req'[r].cause \in {"REJECT", "COMPLETE_WITH_REFUND"}
  PROVE  SmoothStep(r)
<1>1. MoneyKnown(req[r])
  BY DEF SmoothInv
<1>2. req[r].pc # "release.credit" /\ req'[r].pc # "release.credit"
  BY DEF SettlingSteps, FirstStep
<1>3. ~(~AgentFeeOnly /\ req'[r].pc = "release.fee")
  BY DEF SettlingSteps
<1>4. ~(AgentFeeOnly /\ req'[r].pc \in {"release.agent", "release.commission", "release.credit",
                                        "release.release"})
  BY DEF SettlingSteps
<1>5. MoneyKnown(req[r])'
  BY <1>1, <1>2, <1>3, <1>4 DEF MoneyKnown, SameMoney, ReverseSteps
<1>6. QED
  BY <1>5, SameGiven DEF SmoothStep, SameMoney

\* What a release knows from its first insert on.
LEMMA SettlerFacts ==
  ASSUME SmoothInv, NEW r \in Requests, req[r].pc \in SettlingSteps
  PROVE  /\ tx.status \in Active /\ OpenDisputes = {} /\ world.paid /\ ~world.refunded
         /\ req[r].pc # FirstStep => SettlerKnows(r)
         /\ req[r].pc = FirstStep =>
              docs = {} /\ commission = "none" /\ wallet.sold = 0 /\ wallet.earned = 0
<1>1. tx.status \in Active
  BY DEF SmoothInv, LoneInv, KnowsOperation, ReleaseSteps, Releasable
<1>2. OpenDisputes = {}
  BY <1>1 DEF SmoothInv, DisputesKnown, Active
<1>3. world.paid
  BY <1>1 DEF SmoothInv, PaidInv, BeforePayment, Active
<1>4. ~world.refunded
  BY <1>1 DEF SmoothInv, MoneyKnown, Active, SettlingSteps, ReverseSteps
<1>5. req[r].pc # FirstStep => SettlerKnows(r)
  BY DEF SmoothInv, IInv, SettlementInv, Settling
<1>6. req[r].pc = FirstStep =>
        docs = {} /\ commission = "none" /\ wallet.sold = 0 /\ wallet.earned = 0
  BY <1>1, NobodyPaid DEF Active
<1>7. QED
  BY <1>1, <1>2, <1>3, <1>4, <1>5, <1>6

\* A release runs while nothing is disputed, and disputes nothing.
LEMMA SettlerDisputes ==
  ASSUME SmoothInv, NEW r \in Requests, req[r].pc \in SettlingSteps,
         disputes' = disputes, req'[r].pc \in SettlingSteps \cup {"idle"},
         tx'.status \in {tx.status, "COMPLETED"}
  PROVE  DisputesKnown(req[r])'
<1>1. OpenDisputes' = {} /\ tx'.status # "DISPUTED"
  BY SettlerFacts DEF OpenDisputes, Active
<1>2. ~CarryingOut(req[r])'
  BY DEF CarryingOut, SettlingSteps, ReverseSteps
<1>3. req'[r].pc \notin {"dispute.find", "dispute.tx", "dispute.create", "dispute.block", "resolve.tx",
                         "resolve.save", "refund.hold", "refund.provider", "refund.save",
                         "resume.unblock"} \cup ReverseSteps
  BY DEF SettlingSteps, ReverseSteps
<1>4. QED
  BY <1>1, <1>2, <1>3 DEF DisputesKnown

\* Who has been given what, by who it is.
LEMMA GivenTo ==
  /\ "buyer" \in Given <=> world.refunded
  /\ "seller" \in Given <=> wallet.sold # 0
  /\ "agent" \in Given <=> wallet.earned # 0
  /\ "platform" \in Given <=> "fee" \in docs
BY DEF Given, Parties

\* A release gives each party its part once, and before it ends.
LEMMA SmoothRelease ==
  ASSUME SmoothInv, NEW r \in Requests, ReleaseEscrow(r)
  PROVE  SmoothStep(r)
<1> TypeOK
  BY DEF SmoothInv, IInv
<1>a. CASE StartRelease(r) \/ ReleaseLoad(r) \/ ReleaseFindHold(r) \/ ReleaseCheck(r)
  <2>1. PlainStep(r)
    BY <1>a, GoingOn
    DEF PlainStep, SameMoney, BusySteps, SettlingSteps, FirstStep, ReverseSteps, GoesOn, At, Idle,
        StartRelease, ReleaseLoad, ReleaseFindHold, ReleaseCheck
  <2>2. QED
    BY <2>1, PlainIsSmooth
<1> DEFINE Later == ReleaseInsertFee(r) \/ ReleaseInsertAgent(r) \/ ReleaseInsertRelease(r)
                    \/ RecordCommission(r) \/ CreditAgent(r) \/ CreditSeller(r)
                    \/ ReleaseSaveHold(r) \/ ReleaseSaveTx(r)
<1>b. ASSUME Later
      PROVE  /\ req[r].pc \in SettlingSteps /\ req'[r].pc \in SettlingSteps \cup {"idle"}
             /\ disputes' = disputes /\ world' = world
             /\ tx'.status \in {tx.status, "COMPLETED"}
  <2>1. req[r].pc \in SettlingSteps
    BY <1>b DEF ReleaseInsertFee, ReleaseInsertAgent, ReleaseInsertRelease, RecordCommission,
       CreditAgent, CreditSeller, ReleaseSaveHold, ReleaseSaveTx, At, SettlingSteps
  <2>2. req'[r].pc \in SettlingSteps \cup {"idle"}
    BY <1>b, GoingOn DEF ReleaseInsertFee, ReleaseInsertAgent, ReleaseInsertRelease, Insert,
       RecordCommission, CreditAgent, CreditSeller, ReleaseSaveHold, ReleaseSaveTx, AfterCommission,
       GoesOn, SettlingSteps
  <2>3. disputes' = disputes /\ world' = world /\ tx'.status \in {tx.status, "COMPLETED"}
    BY <1>b DEF ReleaseInsertFee, ReleaseInsertAgent, ReleaseInsertRelease, Insert,
       RecordCommission, CreditAgent, CreditSeller, ReleaseSaveHold, ReleaseSaveTx, TypeOK, Operations
  <2>4. QED
    BY <2>1, <2>2, <2>3
<1>c. ASSUME Later, MoneyKnown(req[r])', IdealStep
      PROVE  SmoothStep(r)
  <2>1. DisputesKnown(req[r])' /\ OpenDisputes = {}
    BY <1>b, <1>c, SettlerDisputes, SettlerFacts
  <2>2. QED
    BY <1>c, <2>1 DEF SmoothStep
<1>d. ASSUME Later
      PROVE  /\ MoneyKnown(req[r]) /\ tx.status \in Active /\ world.paid /\ ~world.refunded
             /\ "buyer" \notin Given
             /\ ~world'.refunded /\ world'.paid = world.paid
             /\ req'[r].pc \notin {"reverse.wallet", "reverse.save", "due.wallet"}
             /\ req[r].pc # FirstStep => SettlerKnows(r)
             /\ req[r].pc = FirstStep =>
                  docs = {} /\ commission = "none" /\ wallet.sold = 0 /\ wallet.earned = 0
  BY <1>b, <1>d, SettlerFacts, GivenTo DEF SmoothInv, SettlingSteps
<1>1. CASE ReleaseInsertFee(r)
  <2>1. "fee" \notin docs /\ commission = "none"
    BY <1>1, <1>d DEF ReleaseInsertFee, At, FirstStep, MoneyKnown, SettlerKnows
  <2>2. Goto(r, IF AgentFeeOnly \/ req[r].doc.agent THEN "release.agent" ELSE "release.seller")
        /\ docs' = docs \cup {"fee"} /\ wallet' = wallet /\ commission' = commission /\ tx' = tx
    BY <1>1, <2>1 DEF ReleaseInsertFee, Insert
  <2>3. req'[r].pc = IF AgentFeeOnly \/ req[r].doc.agent THEN "release.agent" ELSE "release.seller"
    BY <2>2, GoingOn DEF GoesOn
  <2>4. "release" \notin docs \/ ~AgentFeeOnly
    BY <1>1, <1>d DEF ReleaseInsertFee, At, FirstStep
  <2>5. MoneyKnown(req[r])'
    BY <1>1, <1>d, <2>1, <2>2, <2>3, <2>4
    DEF MoneyKnown, ReleaseInsertFee, At, FirstStep, FirstKey, SettlingSteps, ReverseSteps
  <2>6. Ideal!Pay("platform")
    <3>1. Given' = Given \cup {"platform"}
      BY <1>1, <1>b, <2>2 DEF Given, Parties
    <3>2. QED
      BY <1>1, <1>d, <3>1 DEF Ideal!Pay
  <2>7. IdealStep
    BY <2>6 DEF IdealStep, Ideal!Next, Parties
  <2>8. QED
    BY <1>1, <1>c, <2>5, <2>7
<1>2. CASE ReleaseInsertAgent(r)
  <2>1. "agent" \notin docs /\ commission = "none" /\ SettlerKnows(r)
    BY <1>2, <1>d DEF ReleaseInsertAgent, At, FirstStep, SettlerKnows
  <2>2. Goto(r, "release.commission") /\ docs' = docs \cup {"agent"}
        /\ wallet' = wallet /\ commission' = commission /\ tx' = tx
    BY <1>2, <2>1 DEF ReleaseInsertAgent, Insert
  <2>3. req'[r].pc = "release.commission"
    BY <2>2, GoingOn DEF GoesOn
  <2>4. MoneyKnown(req[r])'
    BY <1>2, <1>d, <2>1, <2>2, <2>3
    DEF MoneyKnown, ReleaseInsertAgent, At, FirstStep, FirstKey, SettlingSteps, ReverseSteps
  <2>5. Given' = Given
    BY <1>2, <1>b, <2>2 DEF Given
  <2>6. QED
    BY <1>2, <1>c, <1>d, <2>4, <2>5 DEF IdealStep
<1>3. CASE ReleaseInsertRelease(r)
  <2>1. "release" \notin docs
    BY <1>3, <1>d DEF ReleaseInsertRelease, At, FirstStep, MoneyKnown
  <2>2. Goto(r, IF AgentFeeOnly THEN "release.holdSave" ELSE "release.fee")
        /\ docs' = docs \cup {"release"} /\ wallet' = wallet /\ commission' = commission /\ tx' = tx
    BY <1>3, <2>1 DEF ReleaseInsertRelease, Insert
  <2>3. req'[r].pc = IF AgentFeeOnly THEN "release.holdSave" ELSE "release.fee"
    BY <2>2, GoingOn DEF GoesOn
  <2>4. ~AgentFeeOnly => docs = {}
    BY <1>3, <1>d DEF ReleaseInsertRelease, At, FirstStep
  <2>5. MoneyKnown(req[r])'
    BY <1>3, <1>d, <2>1, <2>2, <2>3, <2>4
    DEF MoneyKnown, ReleaseInsertRelease, At, FirstStep, FirstKey, SettlingSteps, ReverseSteps
  <2>6. Given' = Given
    BY <1>3, <1>b, <2>2 DEF Given
  <2>7. QED
    BY <1>3, <1>c, <1>d, <2>5, <2>6 DEF IdealStep
<1>4. CASE RecordCommission(r)
  <2>1. commission = "none" /\ SettlerKnows(r)
    BY <1>4, <1>d DEF RecordCommission, At, FirstStep, SettlerKnows
  <2>2. Goto(r, "release.credit") /\ commission' = "PENDING" /\ docs' = docs /\ wallet' = wallet /\ tx' = tx
    BY <1>4, <2>1 DEF RecordCommission
  <2>3. req'[r].pc = "release.credit"
    BY <2>2, GoingOn DEF GoesOn
  <2>4. MoneyKnown(req[r])'
    BY <1>4, <1>d, <2>1, <2>2, <2>3
    DEF MoneyKnown, RecordCommission, At, FirstStep, SettlingSteps, ReverseSteps
  <2>5. Given' = Given
    BY <1>4, <1>b, <2>2 DEF Given
  <2>6. QED
    BY <1>4, <1>c, <1>d, <2>4, <2>5 DEF IdealStep
<1>5. CASE CreditAgent(r)
  <2>1. commission = "PENDING" /\ wallet.earned = 0 /\ wallet.sold = 0 /\ wallet.pend = 0 /\ wallet.avail = 0
    BY <1>5, <1>d DEF CreditAgent, At, FirstStep, SettlerKnows, MoneyKnown
  <2>2. Goto(r, AfterCommission) /\ commission' = commission /\ docs' = docs /\ tx' = tx
    BY <1>5 DEF CreditAgent
  <2>3. /\ wallet'.pend = AgentFee /\ wallet'.earned = AgentFee /\ wallet'.sold = 0 /\ wallet'.avail = 0
    BY <1>5, <2>1, AmountsAssumption DEF CreditAgent, TypeOK, Wallets
  <2>4. req'[r].pc = AfterCommission
    BY <2>2, GoingOn DEF GoesOn
  <2>5. MoneyKnown(req[r])'
    BY <1>5, <1>d, <2>1, <2>2, <2>3, <2>4
    DEF MoneyKnown, CreditAgent, At, FirstStep, SettlingSteps, ReverseSteps, AfterCommission
  <2>6. Ideal!Pay("agent")
    <3>1. Given' = Given \cup {"agent"}
      BY <1>5, <1>b, <2>1, <2>2, <2>3, AmountsAssumption DEF Given, Parties
    <3>2. QED
      BY <1>5, <1>d, <3>1 DEF Ideal!Pay
  <2>7. IdealStep
    BY <2>6 DEF IdealStep, Ideal!Next, Parties
  <2>8. QED
    BY <1>5, <1>c, <2>5, <2>7
<1>6. CASE CreditSeller(r)
  <2>1. wallet.sold = 0 /\ SettlerKnows(r) /\ ~AgentFeeOnly
    BY <1>6, <1>d DEF CreditSeller, At, FirstStep, SettlerKnows
  <2>2. Goto(r, "release.holdSave") /\ commission' = commission /\ docs' = docs /\ tx' = tx
    BY <1>6 DEF CreditSeller
  <2>3. /\ wallet'.pend = wallet.pend /\ wallet'.earned = wallet.earned /\ wallet'.sold = SellerNet
        /\ wallet'.avail = wallet.avail
    BY <1>6, <2>1, AmountsAssumption DEF CreditSeller, TypeOK, Wallets
  <2>4. req'[r].pc = "release.holdSave"
    BY <2>2, GoingOn DEF GoesOn
  <2>5. MoneyKnown(req[r])'
    BY <1>6, <1>d, <2>1, <2>2, <2>3, <2>4
    DEF MoneyKnown, CreditSeller, At, FirstStep, SettlingSteps, ReverseSteps
  <2>6. Ideal!Pay("seller")
    <3>1. Given' = Given \cup {"seller"}
      BY <1>6, <1>b, <2>1, <2>2, <2>3, AmountsAssumption DEF Given, Parties
    <3>2. QED
      BY <1>6, <1>d, <3>1 DEF Ideal!Pay
  <2>7. IdealStep
    BY <2>6 DEF IdealStep, Ideal!Next, Parties
  <2>8. QED
    BY <1>6, <1>c, <2>5, <2>7
<1>7. CASE ReleaseSaveHold(r) \/ ReleaseSaveTx(r)
  <2>1. /\ docs' = docs /\ wallet' = wallet /\ commission' = commission
        /\ \/ req'[r].pc = "release.txSave" /\ tx' = tx
           \/ req'[r].pc = "idle" /\ tx'.status = "COMPLETED"
    BY <1>7, GoingOn DEF ReleaseSaveHold, ReleaseSaveTx, GoesOn, TypeOK, Operations
  <2>2. req[r].pc \in {"release.holdSave", "release.txSave"}
    BY <1>7 DEF ReleaseSaveHold, ReleaseSaveTx, At
  <2>3. MoneyKnown(req[r])'
    BY <1>7, <1>d, <2>1, <2>2
    DEF MoneyKnown, FirstStep, SettlingSteps, ReverseSteps, Active
  <2>4. Given' = Given
    BY <1>7, <1>b, <2>1 DEF Given
  <2>5. QED
    BY <1>7, <1>c, <1>d, <2>3, <2>4 DEF IdealStep
<1>8. QED
  BY <1>a, <1>1, <1>2, <1>3, <1>4, <1>5, <1>6, <1>7 DEF ReleaseEscrow


\* With one request and no failures, a commission is never reversed: a cancelled
\* operation was never released.
LEMMA SmoothCancellation ==
  ASSUME SmoothInv, NEW r \in Requests, Cancellation(r)
  PROVE  SmoothStep(r)
<1> TypeOK
  BY DEF SmoothInv, IInv
<1>1. /\ DisputesKnown(req[r]) /\ MoneyKnown(req[r]) /\ KnowsOperation(req[r])
  BY DEF SmoothInv, LoneInv
<1>2. CASE ReverseFind(r)
  <2>1. /\ req[r].pc = "reverse.find" /\ req[r].cause \in {"REJECT", "CANCEL", "COMPLETE_WITH_REFUND"}
    BY <1>1, <1>2 DEF ReverseFind, At, DisputesKnown, ReverseSteps
  <2>2. /\ req[r].cause = "REJECT" => tx.status \in Active
        /\ req[r].cause = "CANCEL" => tx.status = "CANCELLED"
        /\ req[r].cause = "COMPLETE_WITH_REFUND" => tx.status = "DISPUTED"
    BY <1>1, <2>1 DEF KnowsOperation, DisputesKnown, CarryingOut, ReverseSteps, Undecided
  <2>3. commission = "none" /\ tx.status # "COMPLETED"
    BY <2>1, <2>2, NobodyPaid DEF Active, SettlingSteps
  <2>4. AfterReverse(r) /\ tx' = tx /\ disputes' = disputes /\ SameMoney
    BY <1>2, <2>3 DEF ReverseFind, Live, SameMoney
  <2>5. \/ req[r].cause = "CANCEL" /\ req'[r].pc = "idle"
        \/ req[r].cause # "CANCEL" /\ req'[r].pc = "cancel.tx" /\ req'[r].cause = req[r].cause
    BY <2>4, GoingOn DEF AfterReverse, GoesOn
  <2>6. OpenDisputes' = OpenDisputes
    BY <2>4 DEF OpenDisputes
  <2>7. DisputesKnown(req[r])'
    BY <1>1, <2>1, <2>2, <2>4, <2>5, <2>6
    DEF DisputesKnown, CarryingOut, ReverseSteps, Active, Outcomes
  <2>8. world'.refunded =>
           \/ tx'.status = "CANCELLED"
           \/ req'[r].pc \in {"reverse.find", "cancel.tx"}
              /\ req'[r].cause \in {"REJECT", "COMPLETE_WITH_REFUND"}
    BY <2>1, <2>2, <2>4, <2>5
  <2>9. QED
    BY <2>1, <2>3, <2>4, <2>5, <2>7, <2>8, MoneyStays DEF SettlingSteps
<1>3. CASE ReverseWallet(r) \/ ReverseSave(r)
  BY <1>1, <1>3 DEF MoneyKnown, ReverseWallet, ReverseSave, At
<1>4. CASE CancelTx(r)
  <2>1. req[r].pc = "cancel.tx" /\ req[r].doc.status = tx.status
    BY <1>1, <1>4 DEF CancelTx, At, KnowsOperation, LoadedSteps, SameOperation
  <2>2. /\ req[r].cause = "REJECT" => tx.status \in Active
        /\ req[r].cause # "REJECT" => tx.status = "DISPUTED" /\ OpenDisputes = {}
    BY <1>1, <2>1 DEF KnowsOperation, DisputesKnown, CarryingOut, Undecided
  <2>3. OpenDisputes = {} /\ tx.status \in Active \cup {"DISPUTED"}
    BY <1>1, <2>2 DEF DisputesKnown, Active
  <2>4. Machine!CanTransition(req[r].doc.status, "CANCELLED")
    BY <2>1, <2>3 DEF Machine!CanTransition, Machine!ALLOWED, Machine!Statuses, Active
  <2>5. tx'.status = "CANCELLED" /\ SameMoney /\ disputes' = disputes
    BY <1>4, <2>3, <2>4, <2>1 DEF CancelTx, SetStatus, TypeOK, Operations, SameMoney, Active
  <2>6. \/ req'[r].pc = "reject.decide"
        \/ req'[r].pc = "reverse.find" /\ req'[r].cause = "CANCEL"
        \/ req'[r].pc = "idle"
    <3>1. CASE req[r].cause = "REJECT"
      BY <1>4, <2>4, <3>1, GoingOn DEF CancelTx, GoesOn
    <3>2. CASE req[r].cause = "CANCEL"
      BY <1>4, <2>4, <3>2, GoingOn DEF CancelTx, GoesOn
    <3>3. CASE req[r].cause \notin {"REJECT", "CANCEL"}
      BY <1>4, <2>4, <3>3, GoingOn DEF CancelTx, GoesOn
    <3>4. QED
      BY <3>1, <3>2, <3>3
  <2>7. OpenDisputes' = {}
    BY <2>3, <2>5 DEF OpenDisputes
  <2>8. DisputesKnown(req[r])'
    BY <2>5, <2>6, <2>7 DEF DisputesKnown, CarryingOut, ReverseSteps
  <2>9. QED
    BY <2>1, <2>3, <2>5, <2>6, <2>8, MoneyStays DEF SettlingSteps, Active
<1>5. QED
  BY <1>2, <1>3, <1>4 DEF Cancellation

\* A refund gives everything back, before anybody has been given anything.
LEMMA GivesBack ==
  ASSUME SmoothInv, NEW r \in Requests, tx.status \in Active \cup {"DISPUTED"},
         req[r].pc \in {"reject.provider", "refund.provider"},
         world' = [world EXCEPT !.refunded = TRUE], docs' = docs, wallet' = wallet
  PROVE  IdealStep
<1>1. docs = {} /\ wallet.sold = 0 /\ wallet.earned = 0
  BY NobodyPaid DEF Active, SettlingSteps
<1>2. ~world.refunded
  BY DEF SmoothInv, MoneyKnown, Active, ReverseSteps
<1>3. world.paid
  BY DEF SmoothInv, PaidInv, BeforePayment, Active
<1>4. world'.refunded /\ world'.paid = world.paid
  BY DEF SmoothInv, IInv, TypeOK, Worlds
<1>5. Given = {} /\ Given' = {"buyer"}
  BY <1>1, <1>2, <1>4 DEF Given, Parties
<1>6. Ideal!GiveBack
  BY <1>3, <1>4, <1>5 DEF Ideal!GiveBack
<1>7. QED
  BY <1>6 DEF IdealStep, Ideal!Next

\* Where nothing is disputed, by a handler that disputes and resolves nothing.
LEMMA NotDisputed ==
  ASSUME SmoothInv, NEW r \in Requests, tx.status # "DISPUTED", disputes' = disputes,
         tx'.status # "DISPUTED",
         \/ req'[r].pc \in {"idle", "reject.wallet", "reject.save", "due.wallet"}
         \/ (req'[r].pc = "reverse.find" /\ req'[r].cause = "REJECT")
  PROVE  DisputesKnown(req[r])'
<1>1. OpenDisputes' = {}
  BY DEF SmoothInv, DisputesKnown, OpenDisputes
<1>2. ~CarryingOut(req[r])'
  BY DEF CarryingOut, ReverseSteps
<1>3. QED
  BY <1>1, <1>2 DEF DisputesKnown, ReverseSteps

\* A rejection refunds an operation nothing of which has been paid to anybody.
LEMMA SmoothReject ==
  ASSUME MaxFailures = 0, SmoothInv, NEW r \in Requests, BuyerRejectProduct(r)
  PROVE  SmoothStep(r)
<1> TypeOK
  BY DEF SmoothInv, IInv
<1>1. /\ DisputesKnown(req[r]) /\ MoneyKnown(req[r]) /\ KnowsOperation(req[r])
  BY DEF SmoothInv, LoneInv
<1>2. ~Fail
  BY DEF Fail, TypeOK, Worlds
<1>a. CASE StartReject(r) \/ RejectLoadTx(r) \/ RejectFindHold(r) \/ RejectCheck(r) \/ RejectDecide(r)
  <2>1. StartReject(r) => req'[r].pc = "reject.load"
    BY DEF StartReject, TypeOK, RequestStates
  <2>2. RejectDecide(r) => tx'.status = tx.status
    BY DEF RejectDecide, TypeOK, Operations
  <2>3. PlainStep(r)
    BY <1>a, <2>1, <2>2, GoingOn
    DEF PlainStep, SameMoney, BusySteps, SettlingSteps, FirstStep, ReverseSteps, GoesOn, At, Idle,
        StartReject, RejectLoadTx, RejectFindHold, RejectCheck, RejectDecide
  <2>4. QED
    BY <2>3, PlainIsSmooth
<1>b. ASSUME RejectRefund(r) \/ RejectWallet(r) \/ RejectSaveHold(r)
      PROVE  /\ req[r].pc \in {"reject.provider", "reject.wallet", "reject.save"}
             /\ req[r].cause = "REJECT" /\ tx.status \in Active /\ OpenDisputes = {}
             /\ tx' = tx /\ disputes' = disputes
  <2>1. /\ req[r].pc \in {"reject.provider", "reject.wallet", "reject.save"}
        /\ tx' = tx /\ disputes' = disputes
    BY <1>b DEF RejectRefund, RejectWallet, RejectSaveHold, At
  <2>2. req[r].cause = "REJECT" /\ tx.status \in Active
    BY <1>1, <2>1 DEF KnowsOperation, RejectSteps, Undecided
  <2>3. QED
    BY <1>1, <2>1, <2>2 DEF DisputesKnown, Active
<1>3. CASE RejectRefund(r)
  <2>1. world' = [world EXCEPT !.refunded = TRUE] /\ Goto(r, "reject.wallet")
        /\ docs' = docs /\ commission' = commission /\ wallet' = wallet
    BY <1>2, <1>3 DEF RejectRefund, Refund
  <2>2. req'[r].pc = "reject.wallet"
    BY <2>1, GoingOn DEF GoesOn
  <2>3. req[r].pc = "reject.provider"
    BY <1>3 DEF RejectRefund, At
  <2>4. IdealStep
    BY <1>3, <1>b, <2>1, <2>3, GivesBack
  <2>5. DisputesKnown(req[r])'
    BY <1>3, <1>b, <2>2, NotDisputed DEF Active
  <2>6. MoneyKnown(req[r])'
    BY <1>1, <1>3, <1>b, <2>1, <2>2, <2>3 DEF MoneyKnown, SettlingSteps, ReverseSteps
  <2>7. QED
    BY <2>1, <2>4, <2>5, <2>6 DEF SmoothStep
<1>4. CASE RejectWallet(r)
  <2>1. SameMoney
    BY <1>4 DEF RejectWallet, SameMoney, TypeOK, Wallets
  <2>2. req'[r].pc = "reject.save" /\ req[r].pc = "reject.wallet"
    BY <1>4, GoingOn DEF RejectWallet, GoesOn, At
  <2>3. DisputesKnown(req[r])'
    BY <1>4, <1>b, <2>2, NotDisputed DEF Active
  <2>4. QED
    BY <1>4, <1>b, <2>1, <2>2, <2>3, MoneyStays DEF SettlingSteps
<1>5. CASE RejectSaveHold(r)
  <2>1. SameMoney
    BY <1>5 DEF RejectSaveHold, SameMoney
  <2>2. req'[r].pc = "reverse.find" /\ req[r].pc = "reject.save" /\ req'[r].cause = "REJECT"
    BY <1>5, <1>b, GoingOn DEF RejectSaveHold, GoesOn, At
  <2>3. DisputesKnown(req[r])'
    BY <1>5, <1>b, <2>2, NotDisputed DEF Active
  <2>4. QED
    BY <1>5, <1>b, <2>1, <2>2, <2>3, MoneyStays DEF SettlingSteps
<1>6. CASE RejectReverseFails(r)
  BY <1>2, <1>6 DEF RejectReverseFails
<1>7. QED
  BY <1>a, <1>3, <1>4, <1>5, <1>6 DEF BuyerRejectProduct

\* A dispute opens on an operation that has none, and blocks nothing that was paid.
LEMMA SmoothOpenDispute ==
  ASSUME SmoothInv, NEW r \in Requests, OpenDispute(r)
  PROVE  SmoothStep(r)
<1> TypeOK
  BY DEF SmoothInv, IInv
<1>1. /\ DisputesKnown(req[r]) /\ MoneyKnown(req[r]) /\ KnowsOperation(req[r])
  BY DEF SmoothInv, LoneInv
<1>a. ASSUME \/ req[r].pc \in {"dispute.find", "dispute.tx"}
             \/ (req[r].pc = "idle" /\ tx.status \in Active)
      PROVE  tx.status \in Active /\ OpenDisputes = {} /\ ~world.refunded
  <2>1. tx.status \in Active
    BY <1>1, <1>a DEF KnowsOperation
  <2>2. QED
    BY <1>1, <1>a, <2>1 DEF DisputesKnown, MoneyKnown, Active, ReverseSteps
<1>b. ASSUME req[r].pc \in {"dispute.create", "dispute.block"}
      PROVE  tx.status = "DISPUTED" /\ commission = "none" /\ ~world.refunded
  <2>1. tx.status = "DISPUTED"
    BY <1>1, <1>b DEF DisputesKnown
  <2>2. commission = "none"
    BY <1>b, <2>1, NobodyPaid DEF SettlingSteps
  <2>3. ~world.refunded
    BY <1>1, <1>b, <2>1 DEF MoneyKnown, ReverseSteps
  <2>4. QED
    BY <2>1, <2>2, <2>3
<1>2. CASE StartDispute(r)
  <2>1. PICK d \in DisputeIds :
          req' = [req EXCEPT ![r].pc = "dispute.find", ![r].doc = tx, ![r].dispute = d]
    BY <1>2 DEF StartDispute
  <2>2. req'[r].pc = "dispute.find" /\ req'[r].dispute = d
    BY <2>1 DEF TypeOK, RequestStates
  <2>3. req[r].pc = "idle" /\ tx.status \in Active /\ tx' = tx /\ disputes' = disputes /\ SameMoney
    BY <1>2 DEF StartDispute, Idle, SameMoney
  <2>4. OpenDisputes' = {} /\ ~world'.refunded
    BY <1>a, <2>3 DEF OpenDisputes, SameMoney
  <2>5. DisputesKnown(req[r])'
    BY <2>2, <2>3, <2>4 DEF DisputesKnown, CarryingOut, ReverseSteps, Active
  <2>6. QED
    BY <2>2, <2>3, <2>4, <2>5, MoneyStays DEF SettlingSteps, Active
<1>3. CASE DisputeFindActive(r)
  <2>1. req[r].pc = "dispute.find" /\ tx' = tx /\ disputes' = disputes /\ SameMoney
    BY <1>3 DEF DisputeFindActive, At, SameMoney
  <2>2. \/ req'[r].pc = "dispute.tx" /\ req'[r].dispute = req[r].dispute
        \/ req'[r].pc = "idle"
    BY <1>3, GoingOn DEF DisputeFindActive, GoesOn
  <2>3. OpenDisputes' = {} /\ ~world'.refunded /\ tx.status \in Active
    BY <1>a, <2>1 DEF OpenDisputes, SameMoney
  <2>4. DisputesKnown(req[r])'
    BY <1>1, <2>1, <2>2, <2>3 DEF DisputesKnown, CarryingOut, ReverseSteps, Active
  <2>5. QED
    BY <2>1, <2>2, <2>3, <2>4, MoneyStays DEF SettlingSteps, Active
<1>4. CASE DisputeSaveTx(r)
  <2>1. req[r].pc = "dispute.tx" /\ tx'.status = "DISPUTED" /\ disputes' = disputes /\ SameMoney
    BY <1>4 DEF DisputeSaveTx, At, SameMoney, TypeOK, Operations
  <2>2. req'[r].pc = "dispute.create" /\ req'[r].dispute = req[r].dispute
    BY <1>4, GoingOn DEF DisputeSaveTx, GoesOn
  <2>3. OpenDisputes' = {} /\ ~world'.refunded /\ tx.status \in Active
    BY <1>a, <2>1 DEF OpenDisputes, SameMoney
  <2>4. DisputesKnown(req[r])'
    BY <1>1, <2>1, <2>2, <2>3 DEF DisputesKnown, CarryingOut, ReverseSteps, Active
  <2>5. QED
    BY <2>1, <2>2, <2>3, <2>4, MoneyStays DEF SettlingSteps, Active
<1>5. CASE DisputeCreate(r)
  <2>1. req[r].pc = "dispute.create" /\ tx' = tx /\ SameMoney
        /\ disputes' = [disputes EXCEPT ![req[r].dispute] = "OPEN"]
    BY <1>5 DEF DisputeCreate, At, SameMoney
  <2>2. req'[r].pc = "dispute.block"
    BY <1>5, GoingOn DEF DisputeCreate, GoesOn
  <2>3. OpenDisputes = {} /\ req[r].dispute \in DisputeIds
    BY <1>1, <2>1 DEF DisputesKnown
  <2>4. OpenDisputes' = {req[r].dispute}
    BY <2>1, <2>3 DEF OpenDisputes, TypeOK
  <2>5. tx.status = "DISPUTED" /\ ~world'.refunded
    BY <1>b, <2>1 DEF SameMoney
  <2>6. DisputesKnown(req[r])'
    BY <2>1, <2>2, <2>4, <2>5 DEF DisputesKnown, CarryingOut, ReverseSteps
  <2>7. QED
    BY <2>1, <2>2, <2>5, <2>6, MoneyStays DEF SettlingSteps
<1>6. CASE DisputeBlock(r)
  <2>1. req[r].pc = "dispute.block"
    BY <1>6 DEF DisputeBlock, At
  <2>2. tx' = tx /\ disputes' = disputes /\ SameMoney
    BY <1>6, <1>b, <2>1 DEF DisputeBlock, SameMoney
  <2>3. req'[r].pc = "idle"
    BY <1>6, GoingOn DEF DisputeBlock
  <2>4. OpenDisputes' = OpenDisputes /\ ~CarryingOut(req[r])
    BY <2>1, <2>2 DEF OpenDisputes, CarryingOut, ReverseSteps
  <2>5. DisputesKnown(req[r])'
    BY <1>1, <2>1, <2>2, <2>3, <2>4 DEF DisputesKnown, CarryingOut, ReverseSteps
  <2>6. ~world'.refunded
    BY <1>b, <2>1, <2>2 DEF SameMoney
  <2>7. QED
    BY <2>1, <2>2, <2>3, <2>5, <2>6, MoneyStays DEF SettlingSteps
<1>7. QED
  BY <1>2, <1>3, <1>4, <1>5, <1>6 DEF OpenDispute


\* A dispute is resolved, and what was decided is carried out before anything else happens.
LEMMA SmoothResolve ==
  ASSUME MaxFailures = 0, SmoothInv, NEW r \in Requests, ResolveDispute(r)
  PROVE  SmoothStep(r)
<1> TypeOK
  BY DEF SmoothInv, IInv
<1>1. /\ DisputesKnown(req[r]) /\ MoneyKnown(req[r]) /\ KnowsOperation(req[r])
  BY DEF SmoothInv, LoneInv
<1>2. ~Fail
  BY DEF Fail, TypeOK, Worlds
<1>a. ASSUME tx.status = "DISPUTED",
             req[r].pc \in {"idle", "resolve.tx", "resolve.save", "resume.tx", "refund.hold", "refund.provider"}
      PROVE  ~world.refunded
  BY <1>1, <1>a DEF MoneyKnown, ReverseSteps
<1>3. CASE StartResolve(r)
  <2>1. PICK outcome \in Outcomes, d \in OpenDisputes :
          /\ req[r].pc = "idle"
          /\ req' = [req EXCEPT ![r].pc = "resolve.tx", ![r].cause = outcome, ![r].dispute = d]
          /\ UNCHANGED <<tx, hold, docs, commission, matured, wallet, world, disputes>>
    BY <1>3 DEF StartResolve, Idle
  <2>2. req'[r].pc = "resolve.tx" /\ req'[r].cause = outcome /\ req'[r].dispute = d
    BY <2>1 DEF TypeOK, RequestStates
  <2>3. tx.status = "DISPUTED" /\ OpenDisputes = {d}
    BY <1>1, <2>1 DEF DisputesKnown
  <2>4. SameMoney /\ OpenDisputes' = OpenDisputes /\ ~world'.refunded
    BY <1>a, <2>1, <2>3 DEF SameMoney, OpenDisputes
  <2>5. DisputesKnown(req[r])'
    BY <1>1, <2>1, <2>2, <2>3, <2>4 DEF DisputesKnown, CarryingOut, ReverseSteps
  <2>6. QED
    BY <2>1, <2>2, <2>3, <2>4, <2>5, MoneyStays DEF SettlingSteps
<1>4. CASE ResolveLoadTx(r)
  <2>1. req[r].pc = "resolve.tx" /\ tx' = tx /\ disputes' = disputes /\ SameMoney
    BY <1>4 DEF ResolveLoadTx, At, SameMoney
  <2>2. req'[r].pc = "resolve.save" /\ req'[r].cause = req[r].cause /\ req'[r].dispute = req[r].dispute
    BY <1>4, GoingOn DEF ResolveLoadTx, GoesOn
  <2>3. tx.status = "DISPUTED" /\ OpenDisputes = {req[r].dispute}
    BY <1>1, <2>1 DEF DisputesKnown
  <2>4. OpenDisputes' = OpenDisputes /\ ~world'.refunded
    BY <1>a, <2>1, <2>3 DEF SameMoney, OpenDisputes
  <2>5. DisputesKnown(req[r])'
    BY <1>1, <2>1, <2>2, <2>3, <2>4 DEF DisputesKnown, CarryingOut, ReverseSteps
  <2>6. QED
    BY <2>1, <2>2, <2>3, <2>4, <2>5, MoneyStays DEF SettlingSteps
<1>5. CASE ResolveSaveDispute(r)
  <2>1. req[r].pc = "resolve.save" /\ tx' = tx /\ SameMoney
        /\ disputes' = [disputes EXCEPT ![req[r].dispute] = "RESOLVED"]
    BY <1>5 DEF ResolveSaveDispute, At, SameMoney
  <2>2. tx.status = "DISPUTED" /\ OpenDisputes = {req[r].dispute} /\ req[r].cause \in Outcomes
    BY <1>1, <2>1 DEF DisputesKnown
  <2>3. /\ req'[r].cause = req[r].cause
        /\ \/ (req'[r].pc = "resume.tx" /\ req[r].cause = "RESUME")
           \/ (req'[r].pc = "cancel.tx" /\ req[r].cause = "CANCEL")
           \/ (req'[r].pc = "refund.hold" /\ req[r].cause = "COMPLETE_WITH_REFUND")
    <3>1. CASE req[r].cause = "RESUME"
      BY <1>5, <3>1, GoingOn DEF ResolveSaveDispute, GoesOn
    <3>2. CASE req[r].cause = "CANCEL"
      BY <1>5, <3>2, GoingOn DEF ResolveSaveDispute, GoesOn
    <3>3. CASE req[r].cause = "COMPLETE_WITH_REFUND"
      BY <1>5, <3>3, GoingOn DEF ResolveSaveDispute, GoesOn
    <3>4. QED
      BY <2>2, <3>1, <3>2, <3>3 DEF Outcomes
  <2>4. OpenDisputes' = {} /\ ~world'.refunded
    BY <1>a, <2>1, <2>2 DEF SameMoney, OpenDisputes, TypeOK
  <2>5. DisputesKnown(req[r])'
    BY <2>1, <2>2, <2>3, <2>4 DEF DisputesKnown, CarryingOut, ReverseSteps
  <2>6. QED
    BY <2>1, <2>2, <2>3, <2>4, <2>5, MoneyStays DEF SettlingSteps
<1>6. CASE ResumeSaveTx(r)
  <2>1. req[r].pc = "resume.tx" /\ disputes' = disputes /\ SameMoney /\ req[r].doc.status = tx.status
    BY <1>1, <1>6 DEF ResumeSaveTx, At, SameMoney, KnowsOperation, LoadedSteps, SameOperation
  <2>2. tx.status = "DISPUTED" /\ OpenDisputes = {}
    BY <1>1, <2>1 DEF DisputesKnown, CarryingOut
  <2>3. Machine!CanTransition(req[r].doc.status, "IN_PROGRESS")
    BY <2>1, <2>2 DEF Machine!CanTransition, Machine!ALLOWED, Machine!Statuses
  <2>4. tx'.status = "IN_PROGRESS" /\ req'[r].pc = "resume.unblock"
    BY <1>6, <2>1, <2>2, <2>3, GoingOn DEF ResumeSaveTx, SetStatus, GoesOn, TypeOK, Operations
  <2>5. OpenDisputes' = {} /\ ~world'.refunded
    BY <1>a, <2>1, <2>2 DEF SameMoney, OpenDisputes
  <2>6. DisputesKnown(req[r])'
    BY <2>4, <2>5 DEF DisputesKnown, CarryingOut, ReverseSteps
  <2>7. QED
    BY <2>1, <2>2, <2>4, <2>5, <2>6, MoneyStays DEF SettlingSteps
<1>7. CASE ResumeUnblock(r)
  <2>1. req[r].pc = "resume.unblock" /\ tx' = tx /\ disputes' = disputes
    BY <1>7 DEF ResumeUnblock, At
  <2>2. SameMoney /\ req'[r].pc = "idle"
    BY <1>1, <1>7, GoingOn DEF ResumeUnblock, SameMoney, MoneyKnown
  <2>3. tx.status = "IN_PROGRESS"
    BY <1>1, <2>1 DEF DisputesKnown
  <2>4. OpenDisputes' = {} /\ ~world'.refunded
    BY <1>1, <2>1, <2>2, <2>3 DEF SameMoney, OpenDisputes, DisputesKnown, MoneyKnown, ReverseSteps
  <2>5. DisputesKnown(req[r])'
    BY <2>1, <2>2, <2>3, <2>4 DEF DisputesKnown, CarryingOut, ReverseSteps
  <2>6. QED
    BY <2>1, <2>2, <2>3, <2>4, <2>5, MoneyStays DEF SettlingSteps
<1>b. ASSUME req[r].pc \in {"refund.hold", "refund.provider", "refund.save"}
      PROVE  tx.status = "DISPUTED" /\ OpenDisputes = {} /\ req[r].cause = "COMPLETE_WITH_REFUND"
  BY <1>1, <1>b DEF DisputesKnown, CarryingOut
<1>c. ASSUME req[r].pc \in {"refund.hold", "refund.provider", "refund.save"},
             req'[r].pc \in {"refund.provider", "refund.save", "reverse.find"},
             req'[r].cause = req[r].cause, tx' = tx, disputes' = disputes
      PROVE  DisputesKnown(req[r])'
  <2>1. OpenDisputes' = {} /\ tx'.status = "DISPUTED" /\ req'[r].cause = "COMPLETE_WITH_REFUND"
    BY <1>b, <1>c DEF OpenDisputes
  <2>2. QED
    BY <1>c, <2>1 DEF DisputesKnown, CarryingOut, ReverseSteps, Outcomes
<1>8. CASE RefundFindHold(r)
  <2>1. req[r].pc = "refund.hold" /\ tx' = tx /\ disputes' = disputes /\ SameMoney
    BY <1>8 DEF RefundFindHold, At, SameMoney
  <2>2. See(r, hold, "refund.provider") => GoesOn(r, "refund.provider", req[r].doc)
    BY GoingOn
  <2>3. req'[r].pc \in {"refund.provider", "reverse.find"} /\ req'[r].cause = req[r].cause
    BY <1>8, <2>2, GoingOn DEF RefundFindHold, GoesOn
  <2>4. ~world'.refunded /\ tx.status = "DISPUTED"
    BY <1>a, <1>b, <2>1 DEF SameMoney
  <2>5. DisputesKnown(req[r])'
    BY <1>c, <2>1, <2>3
  <2>6. QED
    BY <2>1, <2>3, <2>4, <2>5, MoneyStays DEF SettlingSteps
<1>9. CASE RefundProvider(r)
  <2>1. world' = [world EXCEPT !.refunded = TRUE] /\ Goto(r, "refund.save")
        /\ tx' = tx /\ disputes' = disputes
        /\ docs' = docs /\ commission' = commission /\ wallet' = wallet
    BY <1>2, <1>9 DEF RefundProvider, Refund
  <2>2. req'[r].pc = "refund.save" /\ req'[r].cause = req[r].cause
    BY <2>1, GoingOn DEF GoesOn
  <2>3. req[r].pc = "refund.provider"
    BY <1>9 DEF RefundProvider, At
  <2>4. IdealStep
    BY <1>b, <2>1, <2>3, GivesBack
  <2>5. DisputesKnown(req[r])'
    BY <1>c, <2>1, <2>2, <2>3
  <2>6. MoneyKnown(req[r])'
    BY <1>1, <2>1, <2>2, <2>3 DEF MoneyKnown, SettlingSteps, ReverseSteps
  <2>7. QED
    BY <2>1, <2>4, <2>5, <2>6 DEF SmoothStep
<1>10. CASE RefundSaveHold(r)
  <2>1. req[r].pc = "refund.save" /\ tx' = tx /\ disputes' = disputes /\ SameMoney
    BY <1>10 DEF RefundSaveHold, At, SameMoney
  <2>2. req'[r].pc = "reverse.find" /\ req'[r].cause = req[r].cause
    BY <1>10, GoingOn DEF RefundSaveHold, GoesOn
  <2>3. DisputesKnown(req[r])'
    BY <1>c, <2>1, <2>2
  <2>4. req'[r].cause = "COMPLETE_WITH_REFUND" /\ tx.status = "DISPUTED"
    BY <1>b, <2>1, <2>2
  <2>5. QED
    BY <2>1, <2>2, <2>3, <2>4, MoneyStays DEF SettlingSteps
<1>11. QED
  BY <1>3, <1>4, <1>5, <1>6, <1>7, <1>8, <1>9, <1>10 DEF ResolveDispute

\* A commission matures after its operation has been completed, and is moved from one
\* balance to the other.
LEMMA SmoothDue ==
  ASSUME SmoothInv, NEW r \in Requests, ReleaseDue(r)
  PROVE  SmoothStep(r)
<1> TypeOK
  BY DEF SmoothInv, IInv
<1>1. DisputesKnown(req[r]) /\ MoneyKnown(req[r])
  BY DEF SmoothInv
<1>2. /\ tx' = tx /\ docs' = docs /\ world' = world /\ disputes' = disputes
      /\ wallet'.sold = wallet.sold /\ wallet'.earned = wallet.earned
  BY DEF ReleaseDue, ClaimDue, DueWallet, TypeOK, Wallets
<1>3. tx.status = "COMPLETED"
  <2>1. CASE ClaimDue(r)
    <3>1. req[r].pc = "idle" /\ FirstKey \in docs
      BY <2>1 DEF ClaimDue, Idle, SmoothInv, IInv, SettlementInv
    <3>2. QED
      BY <1>1, <3>1 DEF MoneyKnown, SettlingSteps
  <2>2. CASE DueWallet(r)
    BY <1>1, <2>2 DEF MoneyKnown, DueWallet, At
  <2>3. QED
    BY <2>1, <2>2 DEF ReleaseDue
<1>4. req'[r].pc \in {"due.wallet", "idle"}
  BY GoingOn DEF ReleaseDue, ClaimDue, DueWallet, GoesOn
<1>5. DisputesKnown(req[r])'
  BY <1>2, <1>3, <1>4, NotDisputed
<1>6. MoneyKnown(req[r])'
  <2>1. CASE ClaimDue(r)
    <3>1. req[r].pc = "idle" /\ commission = "PENDING" /\ commission' = "AVAILABLE" /\ wallet' = wallet
          /\ req'[r].pc = "due.wallet"
      BY <2>1, GoingOn DEF ClaimDue, Idle, GoesOn
    <3>2. QED
      BY <1>1, <1>2, <1>3, <3>1 DEF MoneyKnown, SettlingSteps, ReverseSteps
  <2>2. CASE DueWallet(r)
    <3>1. req[r].pc = "due.wallet" /\ commission' = commission /\ req'[r].pc = "idle"
      BY <2>2, GoingOn DEF DueWallet, At
    <3>2. commission = "AVAILABLE" /\ wallet.pend = AgentFee /\ wallet.avail = 0
      BY <1>1, <3>1 DEF MoneyKnown
    <3>3. wallet'.pend = 0 /\ wallet'.avail = AgentFee
      BY <2>2, <3>2, AmountsAssumption DEF DueWallet, TypeOK, Wallets
    <3>4. QED
      BY <1>1, <1>2, <1>3, <3>1, <3>2, <3>3 DEF MoneyKnown, SettlingSteps, ReverseSteps
  <2>3. QED
    BY <2>1, <2>2 DEF ReleaseDue
<1>7. Given' = Given
  BY <1>2 DEF Given
<1>8. QED
  BY <1>2, <1>5, <1>6, <1>7 DEF SmoothStep, IdealStep

\* The provider collects, and nothing around the handlers pays anybody.
LEMMA SmoothEnvironment ==
  ASSUME SmoothInv, NEW r \in Requests, Environment
  PROVE  SmoothStep(r)
<1> TypeOK
  BY DEF SmoothInv, IInv
<1>1. /\ req' = req /\ docs' = docs /\ commission' = commission /\ wallet' = wallet
      /\ disputes' = disputes /\ tx'.status = tx.status /\ world'.refunded = world.refunded
  BY DEF Environment, BuyerPays, AttemptFails, WebhookRejected, AgentWithdraw, DeadlineNears,
         CommissionMatures, TypeOK, Operations, Worlds
<1>2. DisputesKnown(req[r]) /\ MoneyKnown(req[r])
  BY DEF SmoothInv
<1>3. OpenDisputes' = OpenDisputes /\ CarryingOut(req[r])' = CarryingOut(req[r])
  BY <1>1 DEF OpenDisputes, CarryingOut
<1>4. DisputesKnown(req[r])' /\ MoneyKnown(req[r])'
  BY <1>1, <1>2, <1>3 DEF DisputesKnown, MoneyKnown
<1>5. Given' = Given
  BY <1>1 DEF Given
<1>6. Ideal!Collect \/ world'.paid = world.paid
  BY <1>5 DEF Environment, BuyerPays, AttemptFails, WebhookRejected, AgentWithdraw, DeadlineNears,
              CommissionMatures, TypeOK, Worlds, Ideal!Collect
<1>7. IdealStep
  BY <1>5, <1>6 DEF IdealStep, Ideal!Next
<1>8. QED
  BY <1>1, <1>4, <1>7 DEF SmoothStep

\* Every step, with one request at a time and no failures.
LEMMA SmoothNext ==
  ASSUME OneRequest, MaxFailures = 0, SmoothInv, [Next]_vars
  PROVE  \A r \in Requests : SmoothStep(r)
<1> SUFFICES ASSUME NEW r \in Requests PROVE SmoothStep(r)
  OBVIOUS
<1>1. Requests = {r}
  BY DEF OneRequest
<1>2. CASE Environment
  BY <1>2, SmoothEnvironment
<1>3. CASE Request(r)
  BY <1>3, SmoothCheckout, SmoothConfirm, SmoothRelease, SmoothCancellation, SmoothReject,
     SmoothOpenDispute, SmoothResolve, SmoothDelivery, SmoothDue DEF Request
<1>4. CASE Abort(r)
  BY <1>4 DEF Abort, Fail, SmoothInv, IInv, TypeOK, Worlds
<1>5. CASE UNCHANGED vars
  <2>1. DisputesKnown(req[r]) /\ MoneyKnown(req[r])
    BY DEF SmoothInv
  <2>2. /\ OpenDisputes' = OpenDisputes /\ CarryingOut(req[r])' = CarryingOut(req[r])
        /\ Given' = Given
    BY <1>5 DEF OpenDisputes, CarryingOut, Given, vars
  <2>3. DisputesKnown(req[r])' /\ MoneyKnown(req[r])'
    BY <1>5, <2>1, <2>2 DEF DisputesKnown, MoneyKnown, vars
  <2>4. QED
    BY <1>5, <2>2, <2>3 DEF SmoothStep, IdealStep, vars
<1>6. QED
  BY <1>1, <1>2, <1>3, <1>4, <1>5 DEF Next

\* The invariant, for handlers that run one after the other to their end.
LEMMA SmoothCorrect ==
  ASSUME OneRequest, MaxFailures = 0
  PROVE  Spec => []SmoothInv
<1> DEFINE Base == IInv /\ LoneInv /\ PaidInv
<1>1. Spec => []Base
  BY SettlementCorrect, LoneCorrect, PaidCorrect, PTL
<1>2. Init /\ Base => SmoothInv
  <2> SUFFICES ASSUME Init, Base, NEW r \in Requests
               PROVE  DisputesKnown(req[r]) /\ MoneyKnown(req[r])
    BY DEF SmoothInv
  <2>1. req[r].pc = "idle" /\ tx.status = "ACCEPTED" /\ OpenDisputes = {}
    BY DEF Init, IdleRequest, NewOperation, OpenDisputes
  <2>2. DisputesKnown(req[r])
    BY <2>1 DEF DisputesKnown, CarryingOut, ReverseSteps
  <2>3. MoneyKnown(req[r])
    BY <2>1 DEF MoneyKnown, Init, SettlingSteps, ReverseSteps
  <2>4. QED
    BY <2>2, <2>3
<1>3. SmoothInv /\ [Next]_vars /\ Base' => SmoothInv'
  BY SmoothNext DEF SmoothStep, SmoothInv
<1> HIDE DEF Base
<1>4. QED
  BY <1>1, <1>2, <1>3, PTL DEF Spec

\* With one request at a time, none of which dies: between handlers, the agent's balances
\* are what the commission's status says (finance/commission.service.ts:394-424).
THEOREM AgentIsReconciled ==
  ASSUME OneRequest, MaxFailures = 0
  PROVE  Spec => []AgentBalancesMatch
<1>1. SmoothInv => AgentBalancesMatch
  <2>1. Requests # {}
    BY DEF OneRequest
  <2>2. QED
    BY <2>1 DEF SmoothInv, MoneyKnown, AgentBalancesMatch, AllIdle
<1>2. QED
  BY <1>1, SmoothCorrect, PTL

\* With one request at a time, none of which dies: a disputed operation between handlers
\* has a dispute that an administrator can resolve (disputes/service.ts).
THEOREM DisputesCanEnd ==
  ASSUME OneRequest, MaxFailures = 0
  PROVE  Spec => []DisputedCanBeResolved
<1>1. SmoothInv => DisputedCanBeResolved
  <2>1. Requests # {}
    BY DEF OneRequest
  <2>2. QED
    BY <2>1 DEF SmoothInv, DisputesKnown, CarryingOut, ReverseSteps, DisputedCanBeResolved, AllIdle
<1>2. QED
  BY <1>1, SmoothCorrect, PTL

\* With one request at a time, none of which dies: the handlers implement the ideal
\* escrow.  The price is collected once; it is then shared out among the seller, the agent
\* and the platform, or goes back to the buyer whole, never both.
THEOREM EscrowIsIdeal ==
  ASSUME OneRequest, MaxFailures = 0
  PROVE  Spec => ImplementsIdealEscrow
<1>1. Init => Ideal!Init
  BY DEF Init, Ideal!Init, Given
<1>2. SmoothInv /\ [Next]_vars => [Ideal!Next]_(Ideal!vars)
  <2>1. Requests # {}
    BY DEF OneRequest
  <2>2. QED
    BY <2>1, SmoothNext DEF SmoothStep, IdealStep, Ideal!vars
<1>3. QED
  BY <1>1, <1>2, SmoothCorrect, PTL DEF Spec, ImplementsIdealEscrow, Ideal!Spec

=============================================================================
