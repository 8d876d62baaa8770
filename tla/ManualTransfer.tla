--------------------------- MODULE ManualTransfer ---------------------------
(***************************************************************************)
(* A full escrow paid by a transfer to a Prex account                      *)
(* (payments/service.ts: submitManualPrexTransfer,                         *)
(* setManualPrexAdminConfirmation, confirmHold; manual-prex-gate.ts).  The *)
(* buyer transfers the money and sends the receipt; an administrator       *)
(* checks it and confirms the transfer, or takes a confirmation back; only *)
(* then is the operation funded and shown to agents.                       *)
(*                                                                         *)
(* The buyer and the administrator make one request at a time; the agents, *)
(* the release, the rejection of the product and disputes go on in between *)
(* (Escrow has the steps of the last three, which are single steps here).  *)
(***************************************************************************)
EXTENDS FeeRules, FiniteSets

CONSTANTS
  Agents,
  Terms   \* what buyer and seller may have agreed on

TermsOfSale == [price : Nat, payer : FeePayers, tip : Nat, initiatedBy : {"BUYER", "SELLER"}]

ASSUME TermsAssumption == Terms \subseteq TermsOfSale

VARIABLES
  terms,    \* amountCents, feePayer, confiAnzaCents and initiatedBy of the operation
  op,       \* its status, and its agents that have accepted
  hold,     \* the escrow hold
  held,     \* wallet.heldCents of the seller
  paid,     \* the payments of a release: whether there is one, and one for an agent;
            \* the shares of the seller, the platform and the agent
  stranded, \* history: what refunds after a dispute have left in the held balance
  overlapped, \* history: the money left the hold under a request of the buyer or of
              \* the administrator
  submit,   \* the request of the buyer
  decide,   \* the request of the administrator
  take      \* what each agent is doing

vars == <<terms, op, hold, held, paid, stranded, overlapped, submit, decide, take>>

\* What the requests of the buyer and of the administrator leave alone.
outcome == <<paid, stranded, overlapped>>

----------------------------------------------------------------------------
Statuses == {"ACCEPTED", "FUNDED", "IN_PROGRESS", "COMPLETED", "CANCELLED", "DISPUTED"}

Operations == [status : Statuses, agents : SUBSET Agents]

\* metadata.receiptDataUrl and metadata.adminConfirmedAt are there or not.
Holds ==
  [status : {"none", "PENDING", "REQUIRES_ACTION", "CAPTURED", "RELEASED", "REFUNDED"},
   amount : Nat, receipt : BOOLEAN, confirmed : BOOLEAN]

NoHold == [status |-> "none", amount |-> 0, receipt |-> FALSE, confirmed |-> FALSE]

Protected == {"CAPTURED", "RELEASED"}

Shares ==
  [released : BOOLEAN, mediated : BOOLEAN, seller : Nat, platform : Nat, agent : Nat]

NewOperation == [status |-> "ACCEPTED", agents |-> {}]

IdleSubmit == [pc |-> "idle", hold |-> NoHold]

IdleDecide == [pc |-> "idle", confirmed |-> FALSE, hold |-> NoHold, op |-> NewOperation]

IdleTake == [pc |-> "idle", op |-> NewOperation]

SubmitSteps == {"idle", "find", "create", "save"}

DecideSteps ==
  {"idle", "load", "hold", "tx", "save", "wallet", "fund", "refresh", "mark",
   "undo.wallet", "undo.hold", "undo.tx"}

Init ==
  /\ terms \in Terms
  /\ op = NewOperation
  /\ hold = NoHold
  /\ held = 0
  /\ paid = [released |-> FALSE, mediated |-> FALSE, seller |-> 0, platform |-> 0, agent |-> 0]
  /\ stranded = 0
  /\ overlapped = FALSE
  /\ submit = IdleSubmit
  /\ decide = IdleDecide
  /\ take = [a \in Agents |-> IdleTake]

----------------------------------------------------------------------------
(* The receipt of the buyer.                                               *)

\* buyerAmountDueCents: a tip is added when the buyer has created the operation.
AmountDue ==
  BuyerPays(terms.price, terms.payer)
    + (IF terms.initiatedBy = "BUYER" THEN terms.tip ELSE 0)

\* A price that cannot pay the commission stops it before the hold is looked up.
StartSubmit ==
  /\ submit.pc = "idle"
  /\ op.status = "ACCEPTED"
  /\ Payable(terms.price, terms.payer)
  /\ submit' = [submit EXCEPT !.pc = "find"]
  /\ UNCHANGED <<terms, op, hold, held, outcome, decide, take>>

\* Mutant: an operation that is paid already is not turned away.
SubmitFindPaid ==
  /\ submit.pc = "find"
  /\ submit' = IF hold.status = "none"
                 THEN [submit EXCEPT !.pc = "create"]
                 ELSE [pc |-> "save", hold |-> hold]
  /\ UNCHANGED <<terms, op, hold, held, outcome, decide, take>>

\* Both lookups of a protected hold.
SubmitFind ==
  /\ submit.pc = "find"
  /\ submit' = CASE hold.status \in Protected -> IdleSubmit
                 [] hold.status = "none" -> [submit EXCEPT !.pc = "create"]
                 [] OTHER -> [pc |-> "save", hold |-> hold]
  /\ UNCHANGED <<terms, op, hold, held, outcome, decide, take>>

SubmitCreate ==
  /\ submit.pc = "create"
  /\ hold' = [NoHold EXCEPT !.status = "PENDING", !.amount = AmountDue]
  /\ submit' = [pc |-> "save", hold |-> hold']
  /\ UNCHANGED <<terms, op, held, outcome, decide, take>>

\* The status is only written when it is not that of the copy; the metadata of
\* the copy are written with the receipt added.
SubmitSave ==
  /\ submit.pc = "save"
  /\ hold' = [status |-> IF submit.hold.status = "REQUIRES_ACTION"
                           THEN hold.status ELSE "REQUIRES_ACTION",
              amount |-> AmountDue,
              receipt |-> TRUE,
              confirmed |-> submit.hold.confirmed]
  /\ submit' = IdleSubmit
  /\ UNCHANGED <<terms, op, held, outcome, decide, take>>

\* The request of the buyer dies.
AbandonSubmit ==
  /\ submit.pc # "idle"
  /\ submit' = IdleSubmit
  /\ UNCHANGED <<terms, op, hold, held, outcome, decide, take>>

Submit == StartSubmit \/ SubmitFind \/ SubmitCreate \/ SubmitSave \/ AbandonSubmit

----------------------------------------------------------------------------
(* The decision of the administrator.                                      *)

Goto(step) == decide' = [decide EXCEPT !.pc = step]

StartDecide(confirmed) ==
  /\ decide.pc = "idle"
  /\ hold.status # "none"
  /\ decide' = [decide EXCEPT !.pc = "load", !.confirmed = confirmed, !.hold = hold]
  /\ UNCHANGED <<terms, op, hold, held, outcome, submit, take>>

\* isManualPrexAdminConfirmed
Confirmed(h) == h.status \in Protected \/ h.confirmed

\* It needs a receipt and something to change, and nothing is taken back once
\* an agent has accepted.
Decidable(operation) ==
  /\ decide.hold.receipt
  /\ decide.confirmed # Confirmed(decide.hold)
  /\ ~decide.confirmed =>
       operation.agents = {} /\ decide.hold.status \in Protected

DecideLoad ==
  /\ decide.pc = "load"
  /\ decide' = IF ~Decidable(op) THEN IdleDecide
               ELSE [decide EXCEPT !.pc = IF decide.confirmed
                                           THEN "hold" ELSE "undo.wallet",
                                   !.op = op]
  /\ UNCHANGED <<terms, op, hold, held, outcome, submit, take>>

\* confirmHold loads the hold again, then the operation.
ConfirmHold ==
  /\ decide.pc = "hold"
  /\ decide' = IF hold.status \in Protected
                 THEN [decide EXCEPT !.pc = "refresh"]
                 ELSE [decide EXCEPT !.pc = "tx", !.hold = hold]
  /\ UNCHANGED <<terms, op, hold, held, outcome, submit, take>>

ConfirmTx ==
  /\ decide.pc = "tx"
  /\ decide' = [decide EXCEPT !.pc = "save", !.op = op]
  /\ UNCHANGED <<terms, op, hold, held, outcome, submit, take>>

ConfirmSave ==
  /\ decide.pc = "save"
  /\ hold' = [hold EXCEPT !.status = "CAPTURED", !.receipt = decide.hold.receipt,
                          !.confirmed = decide.hold.confirmed]
  /\ Goto("wallet")
  /\ UNCHANGED <<terms, op, held, outcome, submit, take>>

ConfirmWallet ==
  /\ decide.pc = "wallet"
  /\ held' = held + decide.hold.amount
  /\ Goto("fund")
  /\ UNCHANGED <<terms, op, hold, outcome, submit, take>>

\* Mutant: the operation waits for an agent.
ConfirmFundAgents ==
  /\ decide.pc = "fund"
  /\ op' = IF decide.op.status = "ACCEPTED" /\ decide.op.agents # {}
             THEN [op EXCEPT !.status = "IN_PROGRESS"] ELSE op
  /\ Goto("refresh")
  /\ UNCHANGED <<terms, hold, held, outcome, submit, take>>

ConfirmFund ==
  /\ decide.pc = "fund"
  /\ op' = IF decide.op.status = "ACCEPTED"
             THEN [op EXCEPT !.status =
                     IF decide.op.agents = {} THEN "FUNDED" ELSE "IN_PROGRESS"]
             ELSE op
  /\ Goto("refresh")
  /\ UNCHANGED <<terms, hold, held, outcome, submit, take>>

\* The hold is read again to mark it as confirmed.
ConfirmRefresh ==
  /\ decide.pc = "refresh"
  /\ decide' = [decide EXCEPT !.pc = "mark", !.hold = hold]
  /\ UNCHANGED <<terms, op, hold, held, outcome, submit, take>>

ConfirmMark ==
  /\ decide.pc = "mark"
  /\ hold' = [hold EXCEPT !.receipt = decide.hold.receipt, !.confirmed = TRUE]
  /\ decide' = IdleDecide
  /\ UNCHANGED <<terms, op, held, outcome, submit, take>>

UndoWallet ==
  /\ decide.pc = "undo.wallet"
  /\ held' = held - decide.hold.amount
  /\ Goto("undo.hold")
  /\ UNCHANGED <<terms, op, hold, outcome, submit, take>>

\* Mutant: the mark of the confirmation stays.
UndoHoldMarked ==
  /\ decide.pc = "undo.hold"
  /\ hold' = [hold EXCEPT !.status = "REQUIRES_ACTION", !.receipt = decide.hold.receipt,
                          !.confirmed = decide.hold.confirmed]
  /\ Goto("undo.tx")
  /\ UNCHANGED <<terms, op, held, outcome, submit, take>>

UndoHold ==
  /\ decide.pc = "undo.hold"
  /\ hold' = [hold EXCEPT !.status = "REQUIRES_ACTION", !.receipt = decide.hold.receipt,
                          !.confirmed = FALSE]
  /\ Goto("undo.tx")
  /\ UNCHANGED <<terms, op, held, outcome, submit, take>>

UndoTx ==
  /\ decide.pc = "undo.tx"
  /\ op' = IF decide.op.status = "FUNDED" THEN [op EXCEPT !.status = "ACCEPTED"] ELSE op
  /\ decide' = IdleDecide
  /\ UNCHANGED <<terms, hold, held, outcome, submit, take>>

Decide ==
  \/ \E confirmed \in BOOLEAN : StartDecide(confirmed)
  \/ DecideLoad
  \/ ConfirmHold \/ ConfirmTx \/ ConfirmSave \/ ConfirmWallet \/ ConfirmFund
  \/ ConfirmRefresh \/ ConfirmMark
  \/ UndoWallet \/ UndoHold \/ UndoTx

----------------------------------------------------------------------------
(* The agents: one that has found the operation, in a search or through an *)
(* offer, accepts it at any later time.                                    *)

\* isEscrowVisibleToAgents
Visible == hold.status \in Protected \cup {"none"}

Find(a) ==
  /\ take[a].pc = "idle"
  /\ op.status \notin {"CANCELLED", "COMPLETED"}
  /\ op.agents = {}
  /\ Visible
  /\ take' = [take EXCEPT ![a].pc = "found"]
  /\ UNCHANGED <<terms, op, hold, held, outcome, submit, decide>>

TakeLoad(a) ==
  /\ take[a].pc = "found"
  /\ take' = [take EXCEPT ![a] = IF op.agents = {} THEN [pc |-> "save", op |-> op]
                                                    ELSE IdleTake]
  /\ UNCHANGED <<terms, op, hold, held, outcome, submit, decide>>

TakeSave(a) ==
  /\ take[a].pc = "save"
  /\ op' = [status |-> IF take[a].op.status = "FUNDED" THEN "IN_PROGRESS" ELSE op.status,
            agents |-> op.agents \cup {a}]
  /\ take' = [take EXCEPT ![a] = IdleTake]
  /\ UNCHANGED <<terms, hold, held, outcome, submit, decide>>

Leave(a) ==
  /\ a \in op.agents
  /\ op.status \notin {"CANCELLED", "COMPLETED"}
  /\ op' = [op EXCEPT !.agents = @ \ {a}]
  /\ UNCHANGED <<terms, hold, held, outcome, submit, decide, take>>

----------------------------------------------------------------------------
(* The rest of the operation: how the money leaves the hold.               *)

\* The money leaves the hold, whatever the buyer and the administrator are at.
Leaves ==
  /\ overlapped' = (overlapped \/ submit.pc # "idle" \/ decide.pc # "idle")
  /\ UNCHANGED <<terms, submit, decide, take>>

\* Bound: once the money has left under a request, it is returned no more.
OneOverlap == ~overlapped

\* An agent who has accepted is paid, if there is one.
Release ==
  LET commission == CommissionFor(terms.price)
      mediated == op.agents # {} /\ AgentFee(commission) > 0
  IN /\ op.status \in {"FUNDED", "IN_PROGRESS"}
     /\ hold.status = "CAPTURED"
     /\ ~paid.released
     /\ paid' = [released |-> TRUE, mediated |-> mediated,
                 seller |-> SellerNet(terms.price, terms.payer),
                 platform |-> PlatformFee(commission),
                 agent |-> IF mediated THEN AgentFee(commission) ELSE 0]
     /\ held' = held - hold.amount
     /\ hold' = [hold EXCEPT !.status = "RELEASED"]
     /\ op' = [op EXCEPT !.status = "COMPLETED"]
     /\ Leaves
     /\ UNCHANGED stranded

\* After the report of an agent, who may have left since.  The provider is not
\* asked: the transfer is returned by hand.
BuyerReject ==
  /\ OneOverlap
  /\ op.status \in {"FUNDED", "IN_PROGRESS"}
  /\ hold.status = "CAPTURED"
  /\ ~paid.released
  /\ held' = held - hold.amount
  /\ hold' = [hold EXCEPT !.status = "REFUNDED"]
  /\ op' = [op EXCEPT !.status = "CANCELLED"]
  /\ Leaves
  /\ UNCHANGED <<paid, stranded>>

OpenDispute ==
  /\ op.status \in {"FUNDED", "IN_PROGRESS"}
  /\ op' = [op EXCEPT !.status = "DISPUTED"]
  /\ UNCHANGED <<terms, hold, held, outcome, submit, decide, take>>

\* RESUME and CANCEL, which leave the money where it is.
ResolveDispute ==
  /\ op.status = "DISPUTED"
  /\ \E status \in {"IN_PROGRESS", "CANCELLED"} : op' = [op EXCEPT !.status = status]
  /\ UNCHANGED <<terms, hold, held, outcome, submit, decide, take>>

\* COMPLETE_WITH_REFUND takes the hold whatever its status, if a receipt has given
\* it an external id, and nothing from the held balance.  A provider that refuses
\* leaves the operation disputed.
RefundDispute ==
  /\ OneOverlap
  /\ op.status = "DISPUTED"
  /\ op' = [op EXCEPT !.status = "CANCELLED"]
  /\ hold' = IF hold.receipt THEN [hold EXCEPT !.status = "REFUNDED"] ELSE hold
  /\ stranded' = stranded + (IF hold.receipt /\ hold.status \in Protected
                               THEN hold.amount ELSE 0)
  /\ Leaves
  /\ UNCHANGED <<held, paid>>

Next ==
  \/ Submit \/ Decide
  \/ \E a \in Agents : Find(a) \/ TakeLoad(a) \/ TakeSave(a) \/ Leave(a)
  \/ Release \/ BuyerReject \/ OpenDispute \/ ResolveDispute \/ RefundDispute

Spec == Init /\ [][Next]_vars

----------------------------------------------------------------------------
\* The documents, the requests and the money are what their schemas say.
TypeOK ==
  /\ terms \in TermsOfSale
  /\ op \in Operations
  /\ hold \in Holds
  /\ held \in Int
  /\ paid \in Shares
  /\ stranded \in Nat
  /\ overlapped \in BOOLEAN
  /\ submit \in [pc : SubmitSteps, hold : Holds]
  /\ decide \in [pc : DecideSteps, confirmed : BOOLEAN, hold : Holds, op : Operations]
  /\ take \in [Agents -> [pc : {"idle", "found", "save"}, op : Operations]]

\* Unless a decision is under way, and unless the money left the hold under one, the
\* wallet of the seller holds what the buyer has transferred while the transfer
\* counts as received, less what a release has taken and with what refunds after a
\* dispute have left there.  A release is not undone by unconfirming its transfer:
\* the balance is then below zero by the amount (payments/service.ts:971-999,
\* 1127-1134, 1821-1832, 2083-2089, disputes/service.ts:267-276).
HeldMatches ==
  decide.pc = "idle" /\ ~overlapped =>
    held = (IF hold.status \in Protected THEN hold.amount ELSE 0)
             - (IF paid.released THEN hold.amount ELSE 0) + stranded

\* A transfer that waits for an administrator carries no confirmation, so that it
\* can be confirmed, unless the money left under a request
\* (manual-prex-gate.ts:17, payments/service.ts:905).
WaitingIsUnmarked ==
  ~overlapped => (hold.status = "REQUIRES_ACTION" => ~hold.confirmed)

\* Unless a decision is under way, or the money left under one, an operation is
\* funded only with a received transfer, and a received transfer leaves none waiting
\* to be paid, whatever the agents and disputes did meanwhile
\* (payments/service.ts:1029, 1157).
FundedMeansReceived ==
  decide.pc = "idle" /\ ~overlapped =>
    /\ op.status = "FUNDED" => hold.status = "CAPTURED"
    /\ hold.status \in Protected => op.status # "ACCEPTED"

\* A release pays out what was transferred, to the cent, with the tip over; the part
\* of the agent is over as well when there is none to pay, whatever was confirmed or
\* taken back in between (intermediation-fees.ts:105-140, payments/service.ts:88-115,
\* 1774).
SharesAddUp ==
  paid.released =>
    LET tip == IF terms.initiatedBy = "BUYER" THEN terms.tip ELSE 0
        unpaid == IF paid.mediated THEN 0 ELSE AgentFee(CommissionFor(terms.price))
    IN hold.amount = paid.seller + paid.platform + paid.agent + unpaid + tip

=============================================================================
