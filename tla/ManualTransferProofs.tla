------------------------ MODULE ManualTransferProofs ------------------------
(***************************************************************************)
(* Theorems about FeeRules and ManualTransfer.                             *)
(***************************************************************************)
EXTENDS ManualTransfer, TLAPS

----------------------------------------------------------------------------
(* The fees.                                                               *)

\* The tier of a price is one of the five.
LEMMA TierReached ==
  ASSUME NEW price \in Nat
  PROVE  \E i \in 1..5 :
           /\ CommissionFor(price) = AGENT_FEE_TIERS[i].commission
           /\ i \in Reached(price)
           /\ \A j \in Reached(price) : j <= i
<1>1. Reached(price) \subseteq 1..5 /\ 1 \in Reached(price)
  BY DEF Reached, AGENT_FEE_TIERS, Tier
<1>2. \E i \in Reached(price) : \A j \in Reached(price) : j <= i
  <2>1. CASE 5 \in Reached(price)
    BY <1>1, <2>1
  <2>2. CASE 5 \notin Reached(price) /\ 4 \in Reached(price)
    BY <1>1, <2>2
  <2>3. CASE 5 \notin Reached(price) /\ 4 \notin Reached(price) /\ 3 \in Reached(price)
    BY <1>1, <2>3
  <2>4. CASE /\ 5 \notin Reached(price) /\ 4 \notin Reached(price)
             /\ 3 \notin Reached(price) /\ 2 \in Reached(price)
    BY <1>1, <2>4
  <2>5. CASE /\ 5 \notin Reached(price) /\ 4 \notin Reached(price)
             /\ 3 \notin Reached(price) /\ 2 \notin Reached(price)
    BY <1>1, <2>5
  <2> QED
    BY <2>1, <2>2, <2>3, <2>4, <2>5
<1> DEFINE top == CHOOSE i \in Reached(price) : \A j \in Reached(price) : j <= i
<1>3. top \in Reached(price) /\ \A j \in Reached(price) : j <= top
  BY <1>2
<1>4. CommissionFor(price) = AGENT_FEE_TIERS[top].commission
  BY DEF CommissionFor
<1> QED
  BY <1>1, <1>3, <1>4

\* A commission is one of five amounts.
LEMMA CommissionKnown ==
  ASSUME NEW price \in Nat
  PROVE  CommissionFor(price) \in {40000, 60000, 80000, 100000, 140000}
BY TierReached DEF AGENT_FEE_TIERS, Tier

\* The platform and the agent share a commission to the cent.
LEMMA CommissionIsShared ==
  ASSUME NEW commission \in {40000, 60000, 80000, 100000, 140000}
  PROVE  /\ PlatformFee(commission) \in Nat
         /\ AgentFee(commission) \in Nat
         /\ PlatformFee(commission) + AgentFee(commission) = commission
<1> DEFINE p == PlatformFee(commission)
           a == AgentFeeRounded(commission)
<1>1. p \in Nat /\ p <= commission /\ a \in Nat
  BY BpsAssumption DEF PlatformFee, AgentFeeRounded
<1>2. AgentFee(commission) =
        CASE p + a < commission -> a + (commission - (p + a))
          [] p + a > commission -> IF commission - p > 0 THEN commission - p ELSE 0
          [] OTHER -> a
  BY DEF AgentFee
<1> HIDE DEF p, a
<1>3. AgentFee(commission) = commission - p
  BY <1>1, <1>2
<1> QED
  BY <1>1, <1>3 DEF p

\* For every price and every way to pay the commission: what the buyer pays is
\* what the seller, the platform and the agent get, and nobody gets less than
\* nothing (intermediation-fees.ts:82-161).
THEOREM FeesAddUp ==
  ASSUME NEW price \in Nat, NEW payer \in FeePayers, Payable(price, payer)
  PROVE  /\ BuyerPays(price, payer) =
              SellerNet(price, payer) + PlatformFee(CommissionFor(price))
                + AgentFee(CommissionFor(price))
         /\ BuyerPays(price, payer) \in Nat
         /\ SellerNet(price, payer) \in Nat
         /\ PlatformFee(CommissionFor(price)) \in Nat
         /\ AgentFee(CommissionFor(price)) \in Nat
<1> DEFINE c == CommissionFor(price)
<1>1. c \in {40000, 60000, 80000, 100000, 140000}
  BY CommissionKnown
<1>2. c \in Nat
  BY <1>1
<1>3. /\ price >= SellerPart(c, payer)
      /\ BuyerPays(price, payer) = price + (c - SellerPart(c, payer))
      /\ SellerNet(price, payer) = price - SellerPart(c, payer)
  BY DEF Payable, BuyerPays, SellerNet
<1> HIDE DEF c
<1>4. SellerPart(c, payer) \in 0..c
  BY <1>1 DEF SellerPart, FeePayers
<1>5. /\ PlatformFee(c) \in Nat
      /\ AgentFee(c) \in Nat
      /\ PlatformFee(c) + AgentFee(c) = c
  BY <1>1, CommissionIsShared
<1> DEFINE s == SellerPart(c, payer)
           p == PlatformFee(c)
           a == AgentFee(c)
<1>6. s \in Nat /\ s <= c /\ s <= price /\ p \in Nat /\ a \in Nat /\ p + a = c
  BY <1>4, <1>5, <1>3, <1>2
<1>7. BuyerPays(price, payer) = price + (c - s) /\ SellerNet(price, payer) = price - s
  BY <1>3
<1> HIDE DEF s, p, a
<1>8. /\ price + (c - s) = (price - s) + p + a
      /\ price + (c - s) \in Nat
      /\ price - s \in Nat
  BY <1>2, <1>6
<1> QED
  BY <1>6, <1>7, <1>8 DEF c, s, p, a

\* The filter of the open jobs compares prices where the tariff compares
\* commissions, and finds the same jobs (agent-fee-tiers.ts:43-56,
\* open-jobs.service.ts:406-410).
THEOREM FilterAgrees ==
  ASSUME NEW price \in Nat, NEW commission \in Commissions
  PROVE  CommissionFor(price) >= commission <=> price >= MinProductFor(commission)
<1>1. PICK i \in 1..5 : /\ CommissionFor(price) = AGENT_FEE_TIERS[i].commission
                        /\ i \in Reached(price)
                        /\ \A j \in Reached(price) : j <= i
  BY TierReached
<1>2. PICK k \in 1..5 : commission = AGENT_FEE_TIERS[k].commission
  BY DEF Commissions, AGENT_FEE_TIERS, Tier
<1>3. \A j \in 1..5 : j \in Reached(price) <=> price >= AGENT_FEE_TIERS[j].from
  BY DEF Reached, AGENT_FEE_TIERS, Tier
<1>4. \A j \in 1..5 : AGENT_FEE_TIERS[j].commission = commission => j = k
  BY <1>2 DEF AGENT_FEE_TIERS, Tier
<1>5. DOMAIN AGENT_FEE_TIERS = 1..5
  BY DEF AGENT_FEE_TIERS
<1>6. MinProductFor(commission) = AGENT_FEE_TIERS[k].from
  BY <1>2, <1>4, <1>5 DEF MinProductFor
<1>7. k <= i => price >= AGENT_FEE_TIERS[k].from
  BY <1>1, <1>3 DEF AGENT_FEE_TIERS, Tier
<1>8. price >= AGENT_FEE_TIERS[k].from => k <= i
  BY <1>1, <1>3
<1>9. CommissionFor(price) >= commission <=> k <= i
  BY <1>1, <1>2 DEF AGENT_FEE_TIERS, Tier
<1> QED
  BY <1>6, <1>7, <1>8, <1>9

----------------------------------------------------------------------------
(* The inductive invariant of ManualTransfer.                              *)

\* What always holds: the amount of a hold, that a request has a hold to work on,
\* and what a release has paid.
PaidInv ==
  /\ hold.status # "none" => hold.amount = AmountDue
  /\ hold.receipt => hold.status # "none"
  /\ hold.status # "none" \/ submit.pc # "idle" => Payable(terms.price, terms.payer)
  /\ submit.pc = "save" \/ decide.pc # "idle" => hold.status # "none"
  /\ paid.released =>
       /\ hold.status # "none"
       /\ paid.seller = SellerNet(terms.price, terms.payer)
       /\ paid.platform = PlatformFee(CommissionFor(terms.price))
       /\ paid.agent = IF paid.mediated THEN AgentFee(CommissionFor(terms.price)) ELSE 0

\* What a hold says, whoever has it: a receipt is only on a hold that waits, has been
\* received or is returned, and none that waits is marked.
Sound(h) ==
  /\ h.status # "none" => h.amount = AmountDue
  /\ h.receipt => h.status \in {"REQUIRES_ACTION", "CAPTURED", "RELEASED", "REFUNDED"}
  /\ h.status \notin Protected \cup {"REFUNDED"} => ~h.confirmed

HoldInv ==
  /\ Sound(hold)
  /\ hold.status = "REFUNDED" => op.status \notin {"ACCEPTED", "FUNDED"}

\* The copy of the buyer.
SubmitInv ==
  /\ submit.pc # "idle" => hold.status # "REFUNDED"
  /\ submit.pc = "create" => hold.status = "none"
  /\ submit.pc = "save" =>
       /\ Sound(submit.hold)
       /\ submit.hold.status \in {"PENDING", "REQUIRES_ACTION"}
       /\ submit.hold.status = "PENDING" => hold.status = "PENDING"
       /\ submit.hold.status = "REQUIRES_ACTION" => hold.status \notin {"none", "PENDING"}

\* What the administrator's request knows at each of its steps.
DecideInv ==
  /\ decide.pc # "idle" => decide.hold.status # "none" /\ Sound(decide.hold)
  /\ decide.pc = "load" =>
       hold.status = decide.hold.status \/ decide.hold.status = "PENDING"
  /\ decide.pc \in {"hold", "tx", "save"} => hold.status \in {"REQUIRES_ACTION", "REFUNDED"}
  /\ decide.pc \in {"wallet", "fund", "refresh", "mark"} => hold.status = "CAPTURED"
  /\ decide.pc \in {"undo.wallet", "undo.hold"} => hold.status \in Protected
  /\ decide.pc = "undo.tx" => hold.status = "REQUIRES_ACTION"
  /\ decide.pc \in {"save", "wallet", "fund"} /\ op.status = "ACCEPTED" =>
       decide.op.status = "ACCEPTED"
  /\ decide.pc \in {"undo.wallet", "undo.hold", "undo.tx"} /\ op.status = "FUNDED" =>
       decide.op.status = "FUNDED"

\* The wallet has what a received transfer brought, less what a release took and with
\* what refunds left, but for a step in between.
MoneyInv ==
  held = (IF hold.status \in Protected /\ decide.pc \notin {"wallet", "undo.hold"}
            THEN hold.amount ELSE 0)
           - (IF paid.released THEN hold.amount ELSE 0) + stranded

OpInv ==
  /\ op.status = "FUNDED" => hold.status = "CAPTURED" \/ decide.pc = "undo.tx"
  /\ hold.status \in Protected /\ op.status = "ACCEPTED" => decide.pc \in {"wallet", "fund"}

\* While the money has not left the hold under a request.
CalmInv == HoldInv /\ SubmitInv /\ DecideInv /\ MoneyInv /\ OpInv

TransferInv ==
  /\ TypeOK
  /\ PaidInv
  /\ ~overlapped => CalmInv

\* What the buyer owes is an amount, once the price covers the commission.
LEMMA DueIsAnAmount ==
  ASSUME terms \in TermsOfSale, Payable(terms.price, terms.payer)
  PROVE  AmountDue \in Nat
<1>1. terms.price \in Nat /\ terms.payer \in FeePayers /\ terms.tip \in Nat
  BY DEF TermsOfSale
<1>2. BuyerPays(terms.price, terms.payer) \in Nat
  BY <1>1, FeesAddUp
<1> QED
  BY <1>1, <1>2 DEF AmountDue

\* It depends on nothing but the terms.
LEMMA DueStays ==
  ASSUME terms' = terms
  PROVE  /\ AmountDue' = AmountDue
         /\ Payable(terms.price, terms.payer)' = Payable(terms.price, terms.payer)
         /\ SellerNet(terms.price, terms.payer)' = SellerNet(terms.price, terms.payer)
         /\ CommissionFor(terms.price)' = CommissionFor(terms.price)
         /\ \A h : Sound(h)' = Sound(h)
<1>1. AmountDue' = AmountDue
  BY DEF AmountDue
<1>2. /\ Payable(terms.price, terms.payer)' = Payable(terms.price, terms.payer)
      /\ SellerNet(terms.price, terms.payer)' = SellerNet(terms.price, terms.payer)
      /\ CommissionFor(terms.price)' = CommissionFor(terms.price)
  OBVIOUS
<1> QED
  BY <1>1, <1>2 DEF Sound

\* It holds to begin with.
LEMMA InitSound == Init => TransferInv
<1> SUFFICES ASSUME Init PROVE TransferInv
  OBVIOUS
<1>1. TypeOK
  <2>1. NoHold \in Holds
    BY DEF NoHold, Holds
  <2>2. NewOperation \in Operations
    BY DEF NewOperation, Operations, Statuses
  <2>3. paid \in Shares
    BY DEF Init, Shares
  <2>4. /\ submit \in [pc : SubmitSteps, hold : Holds]
        /\ decide \in [pc : DecideSteps, confirmed : BOOLEAN, hold : Holds, op : Operations]
        /\ take \in [Agents -> [pc : {"idle", "found", "save"}, op : Operations]]
    BY <2>1, <2>2 DEF Init, IdleSubmit, IdleDecide, IdleTake, SubmitSteps, DecideSteps
  <2>5. terms \in TermsOfSale
    BY TermsAssumption DEF Init
  <2>6. op \in Operations /\ hold \in Holds
    BY <2>1, <2>2 DEF Init
  <2>7. held \in Int /\ stranded \in Nat
    BY DEF Init
  <2>8. overlapped \in BOOLEAN
    BY DEF Init
  <2> QED
    BY <2>3, <2>4, <2>5, <2>6, <2>7, <2>8 DEF TypeOK
<1> QED
  BY <1>1 DEF TransferInv, CalmInv, PaidInv, Init, HoldInv, SubmitInv, DecideInv, MoneyInv,
     OpInv, Sound, Protected, NoHold, IdleSubmit, IdleDecide, NewOperation

----------------------------------------------------------------------------
(* What always holds.                                                      *)

\* The steps of the buyer's request keep the types and the amounts.
LEMMA SubmitKeeps ==
  ASSUME TypeOK, PaidInv, Submit
  PROVE  TypeOK' /\ PaidInv'
<1>1. terms' = terms /\ UNCHANGED <<op, held, outcome, decide, take>>
  BY DEF Submit, StartSubmit, SubmitFind, SubmitCreate, SubmitSave, AbandonSubmit
<1>2. /\ AmountDue' = AmountDue
      /\ Payable(terms.price, terms.payer)' = Payable(terms.price, terms.payer)
      /\ SellerNet(terms.price, terms.payer)' = SellerNet(terms.price, terms.payer)
      /\ CommissionFor(terms.price)' = CommissionFor(terms.price)
  BY <1>1, DueStays
<1>3. CASE StartSubmit
  BY <1>3, <1>1, <1>2 DEF TypeOK, PaidInv, StartSubmit, SubmitSteps, outcome
<1>4. CASE SubmitFind
  BY <1>4, <1>1, <1>2 DEF TypeOK, PaidInv, SubmitFind, SubmitSteps, IdleSubmit, Holds, NoHold,
     Protected, outcome
<1>5. CASE SubmitCreate
  <2>1. AmountDue \in Nat
    BY <1>5, DueIsAnAmount DEF TypeOK, PaidInv, SubmitCreate
  <2>2. hold' = [status |-> "PENDING", amount |-> AmountDue, receipt |-> FALSE,
                 confirmed |-> FALSE]
    BY <1>5 DEF SubmitCreate, NoHold
  <2>3. submit' = [pc |-> "save", hold |-> hold']
    BY <1>5 DEF SubmitCreate
  <2>4. hold' \in Holds /\ submit' \in [pc : SubmitSteps, hold : Holds]
    BY <2>1, <2>2, <2>3 DEF Holds, SubmitSteps
  <2>5. hold'.status = "PENDING" /\ hold'.amount = AmountDue /\ submit.pc # "idle"
    BY <1>5, <2>2 DEF SubmitCreate
  <2>6. TypeOK'
    BY <1>1, <2>4 DEF TypeOK, outcome
  <2>7. PaidInv'
    BY <1>1, <1>2, <2>5 DEF PaidInv, outcome
  <2> QED
    BY <2>6, <2>7
<1>6. CASE SubmitSave
  <2>1. AmountDue \in Nat
    BY <1>6, DueIsAnAmount DEF TypeOK, PaidInv, SubmitSave
  <2>2. /\ hold' = [status |-> IF submit.hold.status = "REQUIRES_ACTION"
                                 THEN hold.status ELSE "REQUIRES_ACTION",
                    amount |-> AmountDue, receipt |-> TRUE,
                    confirmed |-> submit.hold.confirmed]
        /\ submit' = IdleSubmit /\ submit.pc = "save"
    BY <1>6 DEF SubmitSave
  <2> QED
    BY <1>1, <1>2, <2>1, <2>2 DEF TypeOK, PaidInv, Holds, SubmitSteps, IdleSubmit, NoHold,
       outcome
<1>7. CASE AbandonSubmit
  BY <1>7, <1>1, <1>2 DEF TypeOK, PaidInv, AbandonSubmit, SubmitSteps, IdleSubmit, Holds,
     NoHold, outcome
<1> QED
  BY <1>3, <1>4, <1>5, <1>6, <1>7 DEF Submit

\* The steps of a decision keep the types and the amounts.
LEMMA DecideKeeps ==
  ASSUME TypeOK, PaidInv, Decide
  PROVE  TypeOK' /\ PaidInv'
<1>1. terms' = terms /\ UNCHANGED <<outcome, submit, take>>
  BY DEF Decide, StartDecide, DecideLoad, ConfirmHold, ConfirmTx, ConfirmSave,
     ConfirmWallet, ConfirmFund, ConfirmRefresh, ConfirmMark, UndoWallet, UndoHold, UndoTx
<1>2. /\ AmountDue' = AmountDue
      /\ Payable(terms.price, terms.payer)' = Payable(terms.price, terms.payer)
      /\ SellerNet(terms.price, terms.payer)' = SellerNet(terms.price, terms.payer)
      /\ CommissionFor(terms.price)' = CommissionFor(terms.price)
  BY <1>1, DueStays
<1> USE DEF Goto
<1>3. CASE \E confirmed \in BOOLEAN : StartDecide(confirmed)
  BY <1>3, <1>1, <1>2 DEF TypeOK, PaidInv, StartDecide, DecideSteps, outcome
<1>4. CASE DecideLoad
  <2>1. UNCHANGED <<op, hold, held>> /\ decide.pc # "idle"
    BY <1>4 DEF DecideLoad
  <2>2. IdleDecide \in [pc : DecideSteps, confirmed : BOOLEAN, hold : Holds, op : Operations]
    BY DEF IdleDecide, DecideSteps, Holds, NoHold, Operations, NewOperation, Statuses
  <2>3. decide' \in [pc : DecideSteps, confirmed : BOOLEAN, hold : Holds, op : Operations]
    BY <1>4, <2>2 DEF DecideLoad, DecideSteps, TypeOK
  <2>4. TypeOK'
    BY <1>1, <2>1, <2>3 DEF TypeOK, outcome
  <2>5. PaidInv'
    BY <1>1, <1>2, <2>1 DEF PaidInv, outcome
  <2> QED
    BY <2>4, <2>5
<1>5. CASE ConfirmHold \/ ConfirmTx \/ ConfirmRefresh
  BY <1>5, <1>1, <1>2 DEF TypeOK, PaidInv, ConfirmHold, ConfirmTx, ConfirmRefresh, DecideSteps,
     outcome
<1>6. CASE ConfirmSave \/ UndoHold
  <2>1. /\ UNCHANGED <<op, held>> /\ decide.pc # "idle"
        /\ decide' \in [pc : DecideSteps, confirmed : BOOLEAN, hold : Holds, op : Operations]
    BY <1>6 DEF ConfirmSave, UndoHold, DecideSteps, TypeOK
  <2>2. /\ hold' \in Holds /\ hold'.amount = hold.amount
        /\ hold'.status \in {"CAPTURED", "REQUIRES_ACTION"}
    BY <1>6 DEF ConfirmSave, UndoHold, TypeOK, Holds
  <2>3. TypeOK'
    BY <1>1, <2>1, <2>2 DEF TypeOK, outcome
  <2>4. PaidInv'
    BY <1>1, <1>2, <2>1, <2>2 DEF PaidInv, outcome
  <2> QED
    BY <2>3, <2>4
<1>7. CASE ConfirmWallet \/ UndoWallet
  BY <1>7, <1>1, <1>2 DEF TypeOK, PaidInv, ConfirmWallet, UndoWallet, DecideSteps, Holds,
     outcome
<1>8. CASE ConfirmFund
  BY <1>8, <1>1, <1>2 DEF TypeOK, PaidInv, ConfirmFund, DecideSteps, Operations, Statuses,
     outcome
<1>9. CASE ConfirmMark
  BY <1>9, <1>1, <1>2 DEF TypeOK, PaidInv, ConfirmMark, DecideSteps, IdleDecide, Holds, NoHold,
     Operations, NewOperation, Statuses, outcome
<1>10. CASE UndoTx
  BY <1>10, <1>1, <1>2 DEF TypeOK, PaidInv, UndoTx, DecideSteps, IdleDecide, Holds, NoHold,
     Operations, NewOperation, Statuses, outcome
<1> QED
  BY <1>3, <1>4, <1>5, <1>6, <1>7, <1>8, <1>9, <1>10 DEF Decide

\* What the agents do to the operation, and what takes the money from the hold.
World ==
  \/ \E a \in Agents : Find(a) \/ TakeLoad(a) \/ TakeSave(a) \/ Leave(a)
  \/ Release \/ BuyerReject \/ OpenDispute \/ ResolveDispute \/ RefundDispute

\* These steps keep the types and the amounts.
LEMMA WorldKeeps ==
  ASSUME TypeOK, PaidInv, World
  PROVE  TypeOK' /\ PaidInv'
<1>1. terms' = terms /\ UNCHANGED <<submit, decide>>
  BY DEF World, Find, TakeLoad, TakeSave, Leave, Release, BuyerReject, OpenDispute,
     ResolveDispute, RefundDispute, Leaves
<1>2. /\ AmountDue' = AmountDue
      /\ Payable(terms.price, terms.payer)' = Payable(terms.price, terms.payer)
      /\ SellerNet(terms.price, terms.payer)' = SellerNet(terms.price, terms.payer)
      /\ CommissionFor(terms.price)' = CommissionFor(terms.price)
  BY <1>1, DueStays
<1>3. ASSUME NEW a \in Agents, Find(a) \/ TakeLoad(a) \/ TakeSave(a) \/ Leave(a)
      PROVE  TypeOK' /\ PaidInv'
  <2>1. UNCHANGED <<hold, held, outcome>>
    BY <1>3 DEF Find, TakeLoad, TakeSave, Leave
  <2>2. PaidInv'
    BY <1>1, <1>2, <2>1 DEF PaidInv, outcome
  <2>3. CASE Find(a) \/ TakeLoad(a)
    BY <1>1, <2>1, <2>2, <2>3 DEF TypeOK, Find, TakeLoad, IdleTake, NewOperation, Operations,
       Statuses, outcome
  <2>4. CASE TakeSave(a)
    BY <1>1, <2>1, <2>2, <2>4 DEF TypeOK, TakeSave, IdleTake, NewOperation, Operations,
       Statuses, outcome
  <2>5. CASE Leave(a)
    BY <1>1, <2>1, <2>2, <2>5 DEF TypeOK, Leave, Operations, outcome
  <2> QED
    BY <1>3, <2>3, <2>4, <2>5
<1>4. CASE Release
  <2>1. /\ hold.status = "CAPTURED"
        /\ hold' = [hold EXCEPT !.status = "RELEASED"]
        /\ op' = [op EXCEPT !.status = "COMPLETED"]
        /\ held' = held - hold.amount
        /\ stranded' = stranded
        /\ take' = take
        /\ overlapped' = (overlapped \/ submit.pc # "idle" \/ decide.pc # "idle")
    BY <1>4 DEF Release, Leaves
  <2>2. Payable(terms.price, terms.payer) /\ terms.price \in Nat /\ terms.payer \in FeePayers
    BY <2>1 DEF PaidInv, TypeOK, TermsOfSale
  <2>3. PICK mediated \in BOOLEAN :
          paid' = [released |-> TRUE, mediated |-> mediated,
                   seller |-> SellerNet(terms.price, terms.payer),
                   platform |-> PlatformFee(CommissionFor(terms.price)),
                   agent |-> IF mediated THEN AgentFee(CommissionFor(terms.price)) ELSE 0]
    BY <1>4 DEF Release
  <2>4. paid' \in Shares
    BY <2>2, <2>3, FeesAddUp DEF Shares
  <2>5. hold' \in Holds /\ hold'.amount = hold.amount /\ hold'.status = "RELEASED"
    BY <2>1 DEF TypeOK, Holds
  <2>6. op' \in Operations
    BY <2>1 DEF TypeOK, Operations, Statuses
  <2>7. held' \in Int
    BY <2>1 DEF TypeOK, Holds
  <2>8. TypeOK'
    BY <1>1, <2>1, <2>4, <2>5, <2>6, <2>7 DEF TypeOK
  <2>9. PaidInv'
    BY <1>1, <1>2, <2>1, <2>2, <2>3, <2>5 DEF PaidInv
  <2> QED
    BY <2>8, <2>9
<1>5. CASE BuyerReject
  BY <1>5, <1>1, <1>2 DEF TypeOK, PaidInv, BuyerReject, Leaves, Operations, Statuses, Holds
<1>6. CASE OpenDispute \/ ResolveDispute
  BY <1>6, <1>1, <1>2 DEF TypeOK, PaidInv, OpenDispute, ResolveDispute, outcome, Operations,
     Statuses
<1>7. CASE RefundDispute
  <2>1. /\ op' = [op EXCEPT !.status = "CANCELLED"]
        /\ hold' = IF hold.receipt THEN [hold EXCEPT !.status = "REFUNDED"] ELSE hold
        /\ stranded' = stranded + (IF hold.receipt /\ hold.status \in Protected
                                     THEN hold.amount ELSE 0)
        /\ held' = held /\ paid' = paid /\ take' = take
        /\ overlapped' = (overlapped \/ submit.pc # "idle" \/ decide.pc # "idle")
    BY <1>7 DEF RefundDispute, Leaves
  <2>2. hold' \in Holds /\ hold'.amount = hold.amount
    BY <2>1 DEF TypeOK, Holds
  <2>3. hold'.status = "none" <=> hold.status = "none" /\ ~hold.receipt
    BY <2>1 DEF TypeOK, Holds
  <2>4. op' \in Operations
    BY <2>1 DEF TypeOK, Operations, Statuses
  <2>5. stranded' \in Nat
    BY <2>1 DEF TypeOK, Holds
  <2>6. TypeOK'
    BY <1>1, <2>1, <2>2, <2>4, <2>5 DEF TypeOK
  <2>7. PaidInv'
    BY <1>1, <1>2, <2>1, <2>2, <2>3 DEF PaidInv
  <2> QED
    BY <2>6, <2>7
<1> QED
  BY <1>3, <1>4, <1>5, <1>6, <1>7 DEF World

----------------------------------------------------------------------------
(* What holds while the money has not left the hold under a request.       *)

\* The steps of the buyer's request keep it.
LEMMA SubmitCalm ==
  ASSUME TypeOK, PaidInv, CalmInv, Submit, TypeOK', PaidInv'
  PROVE  CalmInv'
<1>1. terms' = terms /\ UNCHANGED <<op, held, outcome, decide, take>>
  BY DEF Submit, StartSubmit, SubmitFind, SubmitCreate, SubmitSave, AbandonSubmit
<1>2. AmountDue' = AmountDue /\ \A h : Sound(h)' = Sound(h)
  BY <1>1, DueStays
<1> USE DEF CalmInv, outcome
<1>3. CASE StartSubmit
  BY <1>3, <1>1, <1>2 DEF TypeOK, StartSubmit, HoldInv, SubmitInv, DecideInv, MoneyInv, OpInv
<1>4. CASE SubmitFind
  BY <1>4, <1>1, <1>2 DEF TypeOK, SubmitFind, HoldInv, SubmitInv, DecideInv, MoneyInv, OpInv,
     Sound, Holds, Protected, IdleSubmit
<1>5. CASE SubmitCreate
  <2>1. hold' = [status |-> "PENDING", amount |-> AmountDue, receipt |-> FALSE,
                 confirmed |-> FALSE]
    BY <1>5 DEF SubmitCreate, NoHold
  <2>2. submit' = [pc |-> "save", hold |-> hold']
    BY <1>5 DEF SubmitCreate
  <2>3. hold.status = "none" /\ submit.pc = "create" /\ decide.pc = "idle" /\ ~paid.released
    BY <1>5 DEF PaidInv, SubmitInv, SubmitCreate
  <2> QED
    BY <1>1, <1>2, <2>1, <2>2, <2>3 DEF TypeOK, HoldInv, SubmitInv, DecideInv, MoneyInv, OpInv,
       Sound, Protected
<1>6. CASE SubmitSave
  <2>1. /\ hold' = [status |-> IF submit.hold.status = "REQUIRES_ACTION"
                                 THEN hold.status ELSE "REQUIRES_ACTION",
                    amount |-> AmountDue, receipt |-> TRUE, confirmed |-> FALSE]
        /\ submit' = IdleSubmit /\ submit.pc = "save"
    BY <1>6 DEF SubmitSave, SubmitInv, Sound, Protected, TypeOK, Holds
  <2>2. hold.amount = AmountDue /\ hold'.amount = hold.amount
    BY <2>1 DEF PaidInv
  <2>3. /\ submit.hold.status = "PENDING" =>
             hold.status = "PENDING" /\ hold'.status = "REQUIRES_ACTION"
        /\ submit.hold.status = "REQUIRES_ACTION" =>
             hold.status \notin {"none", "PENDING", "REFUNDED"} /\ hold'.status = hold.status
        /\ submit.hold.status \in {"PENDING", "REQUIRES_ACTION"}
    BY <2>1 DEF SubmitInv
  <2>4. HoldInv'
    BY <1>1, <1>2, <2>1, <2>3 DEF HoldInv, Sound, Protected, TypeOK, Holds
  <2>5. SubmitInv'
    BY <2>1 DEF SubmitInv, IdleSubmit
  <2>6. DecideInv'
    BY <1>1, <1>2, <2>3 DEF DecideInv, Protected
  <2>7. MoneyInv' /\ OpInv'
    BY <1>1, <2>2, <2>3 DEF MoneyInv, OpInv, Protected
  <2> QED
    BY <2>4, <2>5, <2>6, <2>7
<1>7. CASE AbandonSubmit
  BY <1>7, <1>1, <1>2 DEF TypeOK, AbandonSubmit, HoldInv, SubmitInv, DecideInv, MoneyInv, OpInv,
     IdleSubmit
<1> QED
  BY <1>3, <1>4, <1>5, <1>6, <1>7 DEF Submit

\* The steps of a decision keep it.
LEMMA DecideCalm ==
  ASSUME TypeOK, PaidInv, CalmInv, Decide, TypeOK', PaidInv'
  PROVE  CalmInv'
<1>1. terms' = terms /\ UNCHANGED <<outcome, submit, take>>
  BY DEF Decide, StartDecide, DecideLoad, ConfirmHold, ConfirmTx, ConfirmSave,
     ConfirmWallet, ConfirmFund, ConfirmRefresh, ConfirmMark, UndoWallet, UndoHold, UndoTx
<1>2. AmountDue' = AmountDue /\ \A h : Sound(h)' = Sound(h)
  BY <1>1, DueStays
<1>3. held \in Int /\ hold.amount \in Nat /\ stranded \in Nat
  BY DEF TypeOK, Holds
<1> USE DEF Goto, CalmInv, outcome
<1>4. CASE \E confirmed \in BOOLEAN : StartDecide(confirmed)
  <2> PICK confirmed \in BOOLEAN : StartDecide(confirmed)
    BY <1>4
  <2> QED
    BY <1>1, <1>2 DEF TypeOK, StartDecide, HoldInv, SubmitInv, DecideInv, MoneyInv, OpInv
<1>5. CASE DecideLoad
  <2>1. CASE ~Decidable(op)
    <3>1. decide' = IdleDecide
      BY <1>5, <2>1 DEF DecideLoad
    <3>2. decide'.pc = "idle"
      BY <3>1 DEF IdleDecide
    <3> QED
      BY <1>5, <1>1, <1>2, <3>2 DEF TypeOK, DecideLoad, HoldInv, SubmitInv, DecideInv,
         MoneyInv, OpInv
  <2>2. CASE Decidable(op) /\ decide.confirmed
    <3>1. decide' = [decide EXCEPT !.pc = "hold", !.op = op]
      BY <1>5, <2>2 DEF DecideLoad
    <3>2. decide.hold.receipt /\ decide.hold.status \notin Protected
      BY <2>2 DEF Decidable, Confirmed
    <3>3. hold.status \in {"REQUIRES_ACTION", "REFUNDED"}
      BY <1>5, <3>2 DEF DecideInv, DecideLoad, Sound, Protected
    <3> QED
      BY <1>5, <1>1, <1>2, <3>1, <3>3 DEF TypeOK, DecideLoad, HoldInv, SubmitInv, DecideInv,
         MoneyInv, OpInv
  <2>3. CASE Decidable(op) /\ ~decide.confirmed
    <3>1. decide' = [decide EXCEPT !.pc = "undo.wallet", !.op = op]
      BY <1>5, <2>3 DEF DecideLoad
    <3>2. decide.hold.status \in Protected
      BY <2>3 DEF Decidable
    <3>3. hold.status \in Protected
      BY <1>5, <3>2 DEF DecideInv, DecideLoad, Protected
    <3> QED
      BY <1>5, <1>1, <1>2, <3>1, <3>3 DEF TypeOK, DecideLoad, HoldInv, SubmitInv, DecideInv,
         MoneyInv, OpInv
  <2> QED
    BY <2>1, <2>2, <2>3
<1>6. CASE ConfirmHold
  <2>1. decide' = [decide EXCEPT !.pc = "tx", !.hold = hold]
    BY <1>6 DEF ConfirmHold, DecideInv, Protected
  <2> QED
    BY <1>6, <1>1, <1>2, <2>1 DEF TypeOK, ConfirmHold, HoldInv, SubmitInv, DecideInv, MoneyInv,
       OpInv
<1>7. CASE ConfirmTx
  BY <1>7, <1>1, <1>2 DEF TypeOK, ConfirmTx, HoldInv, SubmitInv, DecideInv, MoneyInv, OpInv
<1>8. CASE ConfirmSave
  BY <1>8, <1>1, <1>2 DEF TypeOK, ConfirmSave, HoldInv, SubmitInv, DecideInv, MoneyInv, OpInv,
     Sound, Holds, Protected
<1>9. CASE ConfirmWallet
  <2>1. hold.status = "CAPTURED" /\ held' = held + hold.amount /\ hold' = hold
    BY <1>9 DEF ConfirmWallet, DecideInv, HoldInv, Sound
  <2>2. MoneyInv'
    BY <1>9, <1>1, <1>3, <2>1 DEF ConfirmWallet, MoneyInv, Protected, TypeOK
  <2> QED
    BY <1>9, <1>1, <1>2, <2>2 DEF TypeOK, ConfirmWallet, HoldInv, SubmitInv, DecideInv, OpInv
<1>10. CASE ConfirmFund
  BY <1>10, <1>1, <1>2 DEF TypeOK, ConfirmFund, HoldInv, SubmitInv, DecideInv, MoneyInv, OpInv,
     Operations
<1>11. CASE ConfirmRefresh
  BY <1>11, <1>1, <1>2 DEF TypeOK, ConfirmRefresh, HoldInv, SubmitInv, DecideInv, MoneyInv, OpInv
<1>12. CASE ConfirmMark
  BY <1>12, <1>1, <1>2 DEF TypeOK, ConfirmMark, HoldInv, IdleDecide, SubmitInv, DecideInv,
     MoneyInv, OpInv, Sound, Holds, Protected
<1>13. CASE UndoWallet
  <2>1. hold.status \in Protected /\ held' = held - hold.amount /\ hold' = hold
    BY <1>13 DEF UndoWallet, DecideInv, HoldInv, Sound, Protected
  <2>2. MoneyInv'
    BY <1>13, <1>1, <1>3, <2>1 DEF UndoWallet, MoneyInv, TypeOK
  <2> QED
    BY <1>13, <1>1, <1>2, <2>2 DEF TypeOK, UndoWallet, HoldInv, SubmitInv, DecideInv, OpInv
<1>14. CASE UndoHold
  BY <1>14, <1>1, <1>2 DEF TypeOK, UndoHold, HoldInv, SubmitInv, DecideInv, MoneyInv, OpInv,
     Sound, Holds, Protected
<1>15. CASE UndoTx
  BY <1>15, <1>1, <1>2 DEF TypeOK, UndoTx, HoldInv, IdleDecide, SubmitInv, DecideInv, MoneyInv,
     OpInv, Protected, Operations
<1> QED
  BY <1>4, <1>5, <1>6, <1>7, <1>8, <1>9, <1>10, <1>11, <1>12, <1>13, <1>14, <1>15 DEF Decide

\* What the agents do, and money that leaves under no request, keep it.
LEMMA WorldCalm ==
  ASSUME TypeOK, PaidInv, CalmInv, ~overlapped', World, TypeOK', PaidInv'
  PROVE  CalmInv'
<1>1. terms' = terms /\ UNCHANGED <<submit, decide>>
  BY DEF World, Find, TakeLoad, TakeSave, Leave, Release, BuyerReject, OpenDispute,
     ResolveDispute, RefundDispute, Leaves
<1>2. AmountDue' = AmountDue /\ \A h : Sound(h)' = Sound(h)
  BY <1>1, DueStays
<1>3. held \in Int /\ hold.amount \in Nat /\ stranded \in Nat
  BY DEF TypeOK, Holds
<1> USE DEF CalmInv
<1>4. ASSUME NEW a \in Agents, Find(a) \/ TakeLoad(a)
      PROVE  CalmInv'
  BY <1>4, <1>1, <1>2 DEF Find, TakeLoad, HoldInv, SubmitInv, DecideInv, MoneyInv, OpInv,
     outcome
<1>5. ASSUME NEW a \in Agents, TakeSave(a) \/ Leave(a)
      PROVE  CalmInv'
  <2>1. op'.status \in {op.status, "IN_PROGRESS"} /\ UNCHANGED <<hold, held, outcome>>
    BY <1>5 DEF TakeSave, Leave, TypeOK, Operations
  <2> QED
    BY <1>1, <1>2, <2>1 DEF HoldInv, SubmitInv, DecideInv, MoneyInv, OpInv, outcome
<1>6. CASE OpenDispute \/ ResolveDispute
  <2>1. /\ op'.status \in {"DISPUTED", "IN_PROGRESS", "CANCELLED"}
        /\ UNCHANGED <<hold, held, outcome>>
    BY <1>6 DEF OpenDispute, ResolveDispute, TypeOK, Operations
  <2> QED
    BY <1>1, <1>2, <2>1 DEF HoldInv, SubmitInv, DecideInv, MoneyInv, OpInv, outcome
<1>7. CASE Release
  <2>1. /\ hold.status = "CAPTURED" /\ ~paid.released /\ paid'.released
        /\ hold' = [hold EXCEPT !.status = "RELEASED"]
        /\ op' = [op EXCEPT !.status = "COMPLETED"]
        /\ held' = held - hold.amount /\ stranded' = stranded
        /\ submit.pc = "idle" /\ decide.pc = "idle"
    BY <1>7 DEF Release, Leaves
  <2>2. /\ hold'.status = "RELEASED" /\ hold'.amount = hold.amount
        /\ hold'.receipt = hold.receipt /\ op'.status = "COMPLETED"
    BY <2>1 DEF TypeOK, Operations, Holds
  <2>3. HoldInv'
    BY <1>2, <2>1, <2>2 DEF HoldInv, Sound, Protected
  <2>4. MoneyInv'
    BY <1>1, <1>3, <2>1, <2>2 DEF MoneyInv, Protected
  <2> QED
    BY <1>1, <2>1, <2>2, <2>3, <2>4 DEF SubmitInv, DecideInv, OpInv
<1>8. CASE BuyerReject
  <2>1. /\ hold.status = "CAPTURED" /\ ~paid.released /\ paid' = paid
        /\ hold' = [hold EXCEPT !.status = "REFUNDED"]
        /\ op' = [op EXCEPT !.status = "CANCELLED"]
        /\ held' = held - hold.amount /\ stranded' = stranded
        /\ submit.pc = "idle" /\ decide.pc = "idle"
    BY <1>8 DEF BuyerReject, Leaves
  <2>2. /\ hold'.status = "REFUNDED" /\ hold'.amount = hold.amount
        /\ hold'.receipt = hold.receipt /\ op'.status = "CANCELLED"
    BY <2>1 DEF TypeOK, Operations, Holds
  <2>3. HoldInv'
    BY <1>2, <2>1, <2>2 DEF HoldInv, Sound, Protected
  <2>4. MoneyInv'
    BY <1>1, <1>3, <2>1, <2>2 DEF MoneyInv, Protected
  <2> QED
    BY <1>1, <2>1, <2>2, <2>3, <2>4 DEF SubmitInv, DecideInv, OpInv, Protected
<1>9. CASE RefundDispute
  <2>1. /\ op' = [op EXCEPT !.status = "CANCELLED"]
        /\ hold' = IF hold.receipt THEN [hold EXCEPT !.status = "REFUNDED"] ELSE hold
        /\ stranded' = stranded + (IF hold.receipt /\ hold.status \in Protected
                                     THEN hold.amount ELSE 0)
        /\ held' = held /\ paid' = paid
        /\ submit.pc = "idle" /\ decide.pc = "idle"
    BY <1>9 DEF RefundDispute, Leaves
  <2>2. /\ hold'.amount = hold.amount /\ hold'.receipt = hold.receipt
        /\ hold'.confirmed = hold.confirmed /\ op'.status = "CANCELLED"
        /\ hold'.status = IF hold.receipt THEN "REFUNDED" ELSE hold.status
    BY <2>1 DEF TypeOK, Operations, Holds
  <2>3. HoldInv'
    BY <1>2, <2>2 DEF HoldInv, Sound, Protected
  <2>4. MoneyInv'
    <3>1. CASE hold.receipt
      BY <1>1, <1>3, <2>1, <2>2, <3>1 DEF MoneyInv, Protected
    <3>2. CASE ~hold.receipt
      BY <1>1, <1>3, <2>1, <2>2, <3>2 DEF MoneyInv, Protected
    <3> QED
      BY <3>1, <3>2
  <2> QED
    BY <1>1, <2>1, <2>2, <2>3, <2>4 DEF SubmitInv, DecideInv, OpInv, Protected
<1> QED
  BY <1>4, <1>5, <1>6, <1>7, <1>8, <1>9 DEF World

----------------------------------------------------------------------------
(* The theorems.                                                           *)

\* The invariant holds of every state.
THEOREM TransferCorrect == Spec => []TransferInv
<1>1. TransferInv /\ [Next]_vars => TransferInv'
  <2> SUFFICES ASSUME TransferInv, [Next]_vars
               PROVE  TransferInv'
    OBVIOUS
  <2>1. CASE UNCHANGED vars
    <3>1. /\ AmountDue' = AmountDue
          /\ \A h : Sound(h)' = Sound(h)
          /\ UNCHANGED <<terms, op, hold, held, paid, stranded, overlapped, submit, decide, take>>
      BY <2>1, DueStays DEF vars
    <3>2. TypeOK' /\ PaidInv'
      BY <3>1 DEF TransferInv, TypeOK, PaidInv
    <3>3. CalmInv => CalmInv'
      BY <3>1 DEF CalmInv, HoldInv, SubmitInv, DecideInv, MoneyInv, OpInv
    <3> QED
      BY <3>1, <3>2, <3>3 DEF TransferInv
  <2>2. CASE Submit
    <3>1. overlapped' = overlapped
      BY <2>2 DEF Submit, StartSubmit, SubmitFind, SubmitCreate, SubmitSave, AbandonSubmit,
         outcome
    <3> QED
      BY <2>2, <3>1, SubmitKeeps, SubmitCalm DEF TransferInv
  <2>3. CASE Decide
    <3>1. overlapped' = overlapped
      BY <2>3 DEF Decide, StartDecide, DecideLoad, ConfirmHold, ConfirmTx, ConfirmSave,
         ConfirmWallet, ConfirmFund, ConfirmRefresh, ConfirmMark, UndoWallet, UndoHold,
         UndoTx, outcome
    <3> QED
      BY <2>3, <3>1, DecideKeeps, DecideCalm DEF TransferInv
  <2>4. CASE World
    <3>1. ~overlapped' => ~overlapped
      BY <2>4 DEF World, Find, TakeLoad, TakeSave, Leave, Release, BuyerReject, OpenDispute,
         ResolveDispute, RefundDispute, Leaves, outcome, TransferInv, TypeOK
    <3> QED
      BY <2>4, <3>1, WorldKeeps, WorldCalm DEF TransferInv
  <2> QED
    BY <2>1, <2>2, <2>3, <2>4 DEF Next, World
<1> QED
  BY <1>1, InitSound, PTL DEF Spec

\* TypeOK, for any agents, terms and rates of the platform and the agent.
THEOREM TransferTypeCorrect == Spec => []TypeOK
BY TransferCorrect, PTL DEF TransferInv

\* HeldMatches: the wallet of the seller follows the hold, its release and the refunds
\* that left money behind, however receipts, decisions, agents and disputes interleave.
THEOREM HeldIsReceived == Spec => []HeldMatches
<1>1. TransferInv => HeldMatches
  BY DEF TransferInv, CalmInv, MoneyInv, HeldMatches
<1> QED
  BY <1>1, TransferCorrect, PTL

\* WaitingIsUnmarked: no waiting transfer is beyond confirmation.
THEOREM WaitingCanBeConfirmed == Spec => []WaitingIsUnmarked
<1>1. TransferInv => WaitingIsUnmarked
  BY DEF TransferInv, CalmInv, HoldInv, Sound, Protected, WaitingIsUnmarked
<1> QED
  BY <1>1, TransferCorrect, PTL

\* FundedMeansReceived: the operation and its transfer agree.
THEOREM FundedIsReceived == Spec => []FundedMeansReceived
<1>1. TransferInv => FundedMeansReceived
  BY DEF TransferInv, CalmInv, OpInv, FundedMeansReceived
<1> QED
  BY <1>1, TransferCorrect, PTL

\* SharesAddUp: a release pays out what the buyer has transferred, but for the part of
\* an agent it does not have, whatever happens to the transfer afterwards.
THEOREM ReleasesAddUp == Spec => []SharesAddUp
<1>1. TransferInv => SharesAddUp
  <2> SUFFICES ASSUME TransferInv, paid.released
               PROVE  SharesAddUp
    BY DEF SharesAddUp
  <2>1. /\ hold.amount = AmountDue /\ Payable(terms.price, terms.payer)
        /\ paid.seller = SellerNet(terms.price, terms.payer)
        /\ paid.platform = PlatformFee(CommissionFor(terms.price))
        /\ paid.agent = IF paid.mediated THEN AgentFee(CommissionFor(terms.price)) ELSE 0
    BY DEF TransferInv, PaidInv
  <2>2. terms.price \in Nat /\ terms.payer \in FeePayers /\ terms.tip \in Nat
    BY DEF TransferInv, TypeOK, TermsOfSale
  <2> DEFINE seller == SellerNet(terms.price, terms.payer)
             platform == PlatformFee(CommissionFor(terms.price))
             agent == AgentFee(CommissionFor(terms.price))
             due == BuyerPays(terms.price, terms.payer)
             unpaid == IF paid.mediated THEN 0 ELSE agent
             tip == IF terms.initiatedBy = "BUYER" THEN terms.tip ELSE 0
  <2>3. /\ due = seller + platform + agent
        /\ due \in Nat /\ seller \in Nat /\ platform \in Nat /\ agent \in Nat
    BY <2>1, <2>2, FeesAddUp
  <2>4. hold.amount = due + tip
    BY <2>1 DEF AmountDue
  <2>5. tip \in Nat
    BY <2>2
  <2>6. SharesAddUp <=> hold.amount = paid.seller + paid.platform + paid.agent + unpaid + tip
    BY DEF SharesAddUp
  <2>7. paid.seller = seller /\ paid.platform = platform
        /\ paid.agent = IF paid.mediated THEN agent ELSE 0
    BY <2>1
  <2> HIDE DEF seller, platform, agent, due, tip
  <2> QED
    BY <2>3, <2>4, <2>5, <2>6, <2>7
<1> QED
  BY <1>1, TransferCorrect, PTL

=============================================================================
