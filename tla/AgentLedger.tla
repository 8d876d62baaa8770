---------------------------- MODULE AgentLedger ----------------------------
(***************************************************************************)
(* What agents have earned until it is transferred to them                 *)
(* (finance/commission.service.ts, finance/payout.service.ts), and what    *)
(* they withdraw themselves (wallet/service.ts).  A commission is PENDING  *)
(* for 14 days, then AVAILABLE; an administrator reserves the available    *)
(* ones in a batch with one payout per agent, transfers the money by hand  *)
(* and confirms each payout.  A dispute blocks a commission and may take   *)
(* it back.  The same balance of the agent has what was sold, which the    *)
(* agent may withdraw at any time.                                         *)
(*                                                                         *)
(* Escrow models how a commission comes to be; here they all exist.        *)
(***************************************************************************)
EXTENDS Integers, Sequences, FiniteSets, FiniteSetsExt

CONSTANTS
  Requests,        \* slots for requests in flight at the same time
  Agents,
  Commissions,
  Owner,           \* the agent of each commission
  Share,           \* agentShareCents of each commission
  Sales,           \* what each agent has got for sales
  Amounts,         \* what an agent may ask to withdraw
  Disputed,        \* bound: commissions whose operations may be disputed
  PromptDispute,   \* bound: whether none is disputed once its commission is available
  PromptResume,    \* bound: whether an operation only goes on within the 14 days
  MaxBatches,      \* bound: batches that are created
  MaxWithdrawals,  \* bound: withdrawals that are requested
  MaxFailures      \* bound: requests that die half-way

ASSUME CommissionsAssumption == IsFiniteSet(Commissions)
ASSUME OwnerAssumption == Owner \in [Commissions -> Agents]
ASSUME ShareAssumption == Share \in [Commissions -> Nat \ {0}]
ASSUME SalesAssumption == Sales \in Nat
ASSUME AmountsAssumption == Amounts \subseteq Nat \ {0}
ASSUME DisputedAssumption ==
  Disputed \subseteq Commissions /\ PromptDispute \in BOOLEAN /\ PromptResume \in BOOLEAN

VARIABLES
  com,          \* the commissions
  wallet,       \* availableCents and pendingCents of each agent
  batches,      \* the batches, in order of creation
  payouts,      \* the payouts, in order of creation
  withdrawals,  \* the withdrawals, in order of creation
  reversed,     \* history: the commissions a dispute has taken back
  req,          \* the requests in flight
  failures      \* how many requests have died

vars == <<com, wallet, batches, payouts, withdrawals, reversed, req, failures>>

----------------------------------------------------------------------------
Statuses == {"PENDING", "BLOCKED", "AVAILABLE", "RESERVED", "PAID", "REVERSED"}

\* The dispute of an operation: it may be open, or over and the operation cancelled.
Disputes == {"none", "open", "over"}

\* status, availableAt, payoutBatch and payout of a commission, and its operation's dispute.
CommissionStates ==
  [status : Statuses, due : BOOLEAN, batch : Nat, payout : Nat, dispute : Disputes]

Balances == [available : Int, pending : Int]

BatchStatuses == {"PENDING_TRANSFER", "PARTIALLY_PAID", "PAID"}

Payouts ==
  [batch : Nat, agent : Agents, commissions : SUBSET Commissions, paid : BOOLEAN]

Withdrawals == [agent : Agents, amount : Nat, completed : BOOLEAN]

\* What some commissions are worth.
Worth(commissions) == MapThenSumSet(LAMBDA c : Share[c], commissions)

Nothing == "none"

Steps ==
  {"idle", "release.claim", "release.wallet", "reverse.wallet", "reverse.save",
   "batch.create", "batch.reserve", "batch.payout", "batch.link", "batch.wallet",
   "confirm.save", "confirm.commissions", "refresh.read", "refresh.save",
   "withdraw.check", "withdraw.save", "withdraw.create",
   "complete.check", "complete.wallet", "complete.save"}

IdleRequest ==
  [pc |-> "idle", list |-> {}, commission |-> Nothing, status |-> Nothing, batch |-> 0,
   agent |-> Nothing, document |-> 0, amount |-> 0,
   copy |-> [available |-> 0, pending |-> 0]]

RequestStates ==
  [pc : Steps, list : SUBSET Commissions,        \* the commissions still to be done
   commission : Commissions \cup {Nothing},
   status : Statuses \cup BatchStatuses \cup {Nothing},  \* what it has read or worked out
   batch : Nat, agent : Agents \cup {Nothing},
   document : Nat, amount : Nat,                 \* its payout or withdrawal
   copy : Balances]                              \* its copy of the wallet

\* A commission that is recorded while a dispute is open is not blocked by it.
Init ==
  /\ \E open \in SUBSET Disputed :
       com = [c \in Commissions |->
               [status |-> "PENDING", due |-> FALSE, batch |-> 0, payout |-> 0,
                dispute |-> IF c \in open THEN "open" ELSE "none"]]
  /\ wallet = [a \in Agents |->
                [available |-> Sales,
                 pending |-> Worth({c \in Commissions : Owner[c] = a})]]
  /\ batches = <<>> /\ payouts = <<>> /\ withdrawals = <<>>
  /\ reversed = {}
  /\ req = [r \in Requests |-> IdleRequest]
  /\ failures = 0

----------------------------------------------------------------------------
(* A request moving through its handler.                                   *)

At(r, step) == req[r].pc = step

Goto(r, step) == req' = [req EXCEPT ![r].pc = step]

Begin(r, request) == req[r].pc = "idle" /\ req' = [req EXCEPT ![r] = request]

Finish(r) == req' = [req EXCEPT ![r] = IdleRequest]

\* The process dies, or a call of the database throws.
Abandon(r) ==
  /\ req[r].pc # "idle"
  /\ failures < MaxFailures
  /\ failures' = failures + 1
  /\ Finish(r)
  /\ UNCHANGED <<com, wallet, batches, payouts, withdrawals, reversed>>

WithStatus(status) == {c \in Commissions : com[c].status = status}

\* $inc of both balances, in the database.
Increment(agent, available, pending) ==
  wallet' = [wallet EXCEPT ![agent].available = @ + available,
                           ![agent].pending = @ + pending]

----------------------------------------------------------------------------
(* releaseDue, by the timer: PENDING becomes AVAILABLE after the 14 days.  *)

\* Mutant: what is disputed is left for later.
DueUndisputed == {c \in WithStatus("PENDING") : com[c].due /\ com[c].dispute # "open"}

Due == {c \in WithStatus("PENDING") : com[c].due}

StartRelease(r) ==
  /\ Due # {}
  /\ Begin(r, [IdleRequest EXCEPT !.pc = "release.claim", !.list = Due])
  /\ UNCHANGED <<com, wallet, batches, payouts, withdrawals, reversed, failures>>

\* The next commission of the list, if there is one.
ToNext(r, list) ==
  IF list = {} THEN IdleRequest ELSE [req[r] EXCEPT !.pc = "release.claim", !.list = list]

\* Mutant: what the list says is not looked at again.
ReleaseClaimListed(r) ==
  /\ At(r, "release.claim")
  /\ \E c \in req[r].list :
       /\ com' = [com EXCEPT ![c].status = "AVAILABLE"]
       /\ req' = [req EXCEPT ![r].pc = "release.wallet", ![r].commission = c]
  /\ UNCHANGED <<wallet, batches, payouts, withdrawals, reversed, failures>>

ReleaseClaim(r) ==
  /\ At(r, "release.claim")
  /\ \E c \in req[r].list :
       \/ /\ com[c].status # "PENDING"
          /\ req' = [req EXCEPT ![r] = ToNext(r, req[r].list \ {c})]
          /\ UNCHANGED com
       \/ /\ com[c].status = "PENDING"
          /\ com' = [com EXCEPT ![c].status = "AVAILABLE"]
          /\ req' = [req EXCEPT ![r].pc = "release.wallet", ![r].commission = c]
  /\ UNCHANGED <<wallet, batches, payouts, withdrawals, reversed, failures>>

ReleaseWallet(r) ==
  /\ At(r, "release.wallet")
  /\ LET c == req[r].commission IN
       /\ Increment(Owner[c], Share[c], -Share[c])
       /\ req' = [req EXCEPT ![r] = ToNext(r, req[r].list \ {c})]
  /\ UNCHANGED <<com, batches, payouts, withdrawals, reversed, failures>>

Release(r) == ReleaseClaim(r) \/ ReleaseWallet(r)

----------------------------------------------------------------------------
(* A dispute: setDisputeBlocked(true), when it is opened, and then either  *)
(* setDisputeBlocked(false), when the operation goes on and may be         *)
(* disputed again, or reverseForTransaction.                               *)

\* What is not reserved yet is blocked; nothing moves between the balances.
Block(c) ==
  /\ c \in Disputed /\ com[c].dispute = "none"
  /\ PromptDispute => com[c].status # "AVAILABLE"
  /\ com' = [com EXCEPT ![c].dispute = "open",
                        ![c].status = IF @ \in {"PENDING", "AVAILABLE"} THEN "BLOCKED" ELSE @]
  /\ UNCHANGED <<wallet, batches, payouts, withdrawals, reversed, req, failures>>

\* Neither of its updates moves anything between the balances.
Resume(c) ==
  /\ com[c].dispute = "open"
  /\ com[c].status = "BLOCKED" /\ PromptResume => ~com[c].due
  /\ com' = [com EXCEPT ![c].dispute = "none",
                        ![c].status = IF @ # "BLOCKED" THEN @
                                      ELSE IF com[c].due THEN "AVAILABLE" ELSE "PENDING"]
  /\ UNCHANGED <<wallet, batches, payouts, withdrawals, reversed, req, failures>>

StartReverse(r, c) ==
  /\ com[c].dispute = "open"
  /\ com' = [com EXCEPT ![c].dispute = "over"]
  /\ Begin(r, [IdleRequest EXCEPT !.pc = "reverse.wallet", !.commission = c,
                                  !.status = com[c].status])
  /\ UNCHANGED <<wallet, batches, payouts, withdrawals, reversed, failures>>

\* Mutant: what has been paid is not asked back.
ReverseWalletUnpaid(r) ==
  /\ At(r, "reverse.wallet")
  /\ LET c == req[r].commission IN
       \/ req[r].status \in {"PENDING", "BLOCKED"} /\ Increment(Owner[c], 0, -Share[c])
       \/ req[r].status \in {"AVAILABLE", "RESERVED"} /\ Increment(Owner[c], -Share[c], 0)
       \/ req[r].status = "PAID" /\ UNCHANGED wallet
  /\ Goto(r, "reverse.save")
  /\ UNCHANGED <<com, batches, payouts, withdrawals, reversed, failures>>

ReverseWallet(r) ==
  /\ At(r, "reverse.wallet")
  /\ LET c == req[r].commission IN
       \/ req[r].status \in {"PENDING", "BLOCKED"} /\ Increment(Owner[c], 0, -Share[c])
       \/ req[r].status \in {"AVAILABLE", "RESERVED", "PAID"} /\ Increment(Owner[c], -Share[c], 0)
  /\ Goto(r, "reverse.save")
  /\ UNCHANGED <<com, batches, payouts, withdrawals, reversed, failures>>

\* Mutant: the status of another collection.
ReverseSaveCancelled(r) ==
  /\ At(r, "reverse.save")
  /\ com' = [com EXCEPT ![req[r].commission].status = "CANCELLED"]
  /\ reversed' = reversed \cup {req[r].commission}
  /\ Finish(r)
  /\ UNCHANGED <<wallet, batches, payouts, withdrawals, failures>>

ReverseSave(r) ==
  /\ At(r, "reverse.save")
  /\ com' = [com EXCEPT ![req[r].commission].status = "REVERSED"]
  /\ reversed' = reversed \cup {req[r].commission}
  /\ Finish(r)
  /\ UNCHANGED <<wallet, batches, payouts, withdrawals, failures>>

Reverse(r) == ReverseWallet(r) \/ ReverseSave(r)

----------------------------------------------------------------------------
(* createBatchFromAvailable: a batch with one payout for each agent.       *)

\* The available commissions of the agents the administrator chooses.
StartBatch(r) ==
  /\ Len(batches) + Cardinality({s \in Requests : At(s, "batch.create")}) < MaxBatches
  /\ \E agents \in SUBSET Agents :
       LET list == {c \in WithStatus("AVAILABLE") : Owner[c] \in agents} IN
         list # {} /\ Begin(r, [IdleRequest EXCEPT !.pc = "batch.create", !.list = list])
  /\ UNCHANGED <<com, wallet, batches, payouts, withdrawals, reversed, failures>>

BatchCreate(r) ==
  /\ At(r, "batch.create")
  /\ batches' = Append(batches, "PENDING_TRANSFER")
  /\ req' = [req EXCEPT ![r].pc = "batch.reserve", ![r].batch = Len(batches) + 1]
  /\ UNCHANGED <<com, wallet, payouts, withdrawals, reversed, failures>>

\* The commissions of its list that are owed to an agent.
OwedTo(r, agent) == {c \in req[r].list : Owner[c] = agent}

\* Mutant: what could not be reserved is paid out with the rest.
BatchReserveSome(r) ==
  /\ At(r, "batch.reserve")
  /\ \E c \in req[r].list :
       LET reserved == OwedTo(r, Owner[c]) \cap WithStatus("AVAILABLE") IN
         /\ com' = [d \in Commissions |-> IF d \in reserved
                      THEN [com[d] EXCEPT !.status = "RESERVED", !.batch = req[r].batch]
                      ELSE com[d]]
         /\ req' = [req EXCEPT ![r].pc = "batch.payout", ![r].agent = Owner[c]]
  /\ UNCHANGED <<wallet, batches, payouts, withdrawals, reversed, failures>>

\* updateMany reserves those that are still available; if that is not all, the
\* batch is given up.
BatchReserve(r) ==
  /\ At(r, "batch.reserve")
  /\ \E c \in req[r].list :
       LET owed == OwedTo(r, Owner[c])
           reserved == owed \cap WithStatus("AVAILABLE") IN
         /\ com' = [d \in Commissions |-> IF d \in reserved
                      THEN [com[d] EXCEPT !.status = "RESERVED", !.batch = req[r].batch]
                      ELSE com[d]]
         /\ \/ reserved # owed /\ Finish(r)
            \/ /\ reserved = owed
               /\ req' = [req EXCEPT ![r].pc = "batch.payout", ![r].agent = Owner[c]]
  /\ UNCHANGED <<wallet, batches, payouts, withdrawals, reversed, failures>>

BatchPayout(r) ==
  /\ At(r, "batch.payout")
  /\ payouts' = Append(payouts, [batch |-> req[r].batch, agent |-> req[r].agent,
                                 commissions |-> OwedTo(r, req[r].agent), paid |-> FALSE])
  /\ req' = [req EXCEPT ![r].pc = "batch.link", ![r].document = Len(payouts) + 1]
  /\ UNCHANGED <<com, wallet, batches, withdrawals, reversed, failures>>

\* The number of the payout, on its commissions.
BatchLink(r) ==
  /\ At(r, "batch.link")
  /\ com' = [c \in Commissions |-> IF c \in OwedTo(r, req[r].agent)
               THEN [com[c] EXCEPT !.payout = req[r].document] ELSE com[c]]
  /\ Goto(r, "batch.wallet")
  /\ UNCHANGED <<wallet, batches, payouts, withdrawals, reversed, failures>>

BatchWallet(r) ==
  /\ At(r, "batch.wallet")
  /\ LET owed == OwedTo(r, req[r].agent) IN
       /\ Increment(req[r].agent, -Worth(owed), 0)
       /\ \/ req[r].list = owed /\ Finish(r)
          \/ req[r].list # owed
             /\ req' = [req EXCEPT ![r].pc = "batch.reserve", ![r].list = @ \ owed]
  /\ UNCHANGED <<com, batches, payouts, withdrawals, reversed, failures>>

Batch(r) ==
  BatchCreate(r) \/ BatchReserve(r) \/ BatchPayout(r) \/ BatchLink(r) \/ BatchWallet(r)

----------------------------------------------------------------------------
(* confirmPayout, once the administrator has transferred the money.        *)

StartConfirm(r, n) ==
  /\ ~payouts[n].paid
  /\ Begin(r, [IdleRequest EXCEPT !.pc = "confirm.save", !.document = n])
  /\ UNCHANGED <<com, wallet, batches, payouts, withdrawals, reversed, failures>>

\* Mutant: the commissions are marked before the payout is.
ConfirmSaveLater(r) ==
  /\ At(r, "confirm.save")
  /\ Goto(r, "confirm.commissions")
  /\ UNCHANGED <<com, wallet, batches, payouts, withdrawals, reversed, failures>>

ConfirmSave(r) ==
  /\ At(r, "confirm.save")
  /\ payouts' = [payouts EXCEPT ![req[r].document].paid = TRUE]
  /\ Goto(r, "confirm.commissions")
  /\ UNCHANGED <<com, wallet, batches, withdrawals, reversed, failures>>

\* Mutant: all that is reserved for the agent is marked as paid.
ConfirmCommissionsAll(r) ==
  /\ At(r, "confirm.commissions")
  /\ com' = [c \in Commissions |->
               IF Owner[c] = payouts[req[r].document].agent /\ com[c].status = "RESERVED"
               THEN [com[c] EXCEPT !.status = "PAID"] ELSE com[c]]
  /\ Goto(r, "refresh.read")
  /\ UNCHANGED <<wallet, batches, payouts, withdrawals, reversed, failures>>

\* Whatever their status is by now.
ConfirmCommissions(r) ==
  /\ At(r, "confirm.commissions")
  /\ com' = [c \in Commissions |-> IF c \in payouts[req[r].document].commissions
               THEN [com[c] EXCEPT !.status = "PAID"] ELSE com[c]]
  /\ Goto(r, "refresh.read")
  /\ UNCHANGED <<wallet, batches, payouts, withdrawals, reversed, failures>>

PayoutsOf(batch) == {n \in DOMAIN payouts : payouts[n].batch = batch}

PaidOf(batch) == {n \in PayoutsOf(batch) : payouts[n].paid}

\* Mutant: one paid payout is taken for all of them.
BatchStatusAny(batch) ==
  IF PaidOf(batch) # {} THEN "PAID" ELSE "PENDING_TRANSFER"

\* refreshBatchStatus; no payout is ever cancelled.
BatchStatus(batch) ==
  IF PaidOf(batch) = PayoutsOf(batch) THEN "PAID"
  ELSE IF PaidOf(batch) # {} THEN "PARTIALLY_PAID" ELSE "PENDING_TRANSFER"

RefreshRead(r) ==
  /\ At(r, "refresh.read")
  /\ LET batch == payouts[req[r].document].batch IN
       req' = [req EXCEPT ![r].pc = "refresh.save", ![r].batch = batch,
                          ![r].status = BatchStatus(batch)]
  /\ UNCHANGED <<com, wallet, batches, payouts, withdrawals, reversed, failures>>

RefreshSave(r) ==
  /\ At(r, "refresh.save")
  /\ batches' = [batches EXCEPT ![req[r].batch] = req[r].status]
  /\ Finish(r)
  /\ UNCHANGED <<com, wallet, payouts, withdrawals, reversed, failures>>

Confirm(r) == ConfirmSave(r) \/ ConfirmCommissions(r) \/ RefreshRead(r) \/ RefreshSave(r)

----------------------------------------------------------------------------
(* requestWithdrawal and completeWithdrawal: computed on a copy of the     *)
(* wallet, which is then saved.                                            *)

StartWithdrawal(r, a, amount) ==
  /\ Len(withdrawals) < MaxWithdrawals
  /\ Begin(r, [IdleRequest EXCEPT !.pc = "withdraw.check", !.agent = a, !.amount = amount,
                                  !.copy = wallet[a]])
  /\ UNCHANGED <<com, wallet, batches, payouts, withdrawals, reversed, failures>>

\* Mutant: what is reserved is the only thing out of the agent's reach.
LockedReserved(a) == Worth({c \in WithStatus("RESERVED") : Owner[c] = a})

\* availableCents and reservedCents of getAgentBalances.
Locked(a) ==
  Worth({c \in WithStatus("AVAILABLE") \cup WithStatus("RESERVED") : Owner[c] = a})

\* Only what comes from sales may be withdrawn.
WithdrawCheck(r) ==
  /\ At(r, "withdraw.check")
  /\ IF req[r].amount > req[r].copy.available - Locked(req[r].agent) THEN Finish(r)
     ELSE Goto(r, "withdraw.save")
  /\ UNCHANGED <<com, wallet, batches, payouts, withdrawals, reversed, failures>>

WithdrawSave(r) ==
  /\ At(r, "withdraw.save")
  /\ wallet' = [wallet EXCEPT ![req[r].agent] =
                  [available |-> req[r].copy.available - req[r].amount,
                   pending |-> req[r].copy.pending + req[r].amount]]
  /\ Goto(r, "withdraw.create")
  /\ UNCHANGED <<com, batches, payouts, withdrawals, reversed, failures>>

WithdrawCreate(r) ==
  /\ At(r, "withdraw.create")
  /\ withdrawals' = Append(withdrawals, [agent |-> req[r].agent, amount |-> req[r].amount,
                                         completed |-> FALSE])
  /\ Finish(r)
  /\ UNCHANGED <<com, wallet, batches, payouts, reversed, failures>>

StartComplete(r, n) ==
  /\ ~withdrawals[n].completed
  /\ Begin(r, [IdleRequest EXCEPT !.pc = "complete.check", !.document = n,
                                  !.agent = withdrawals[n].agent,
                                  !.amount = withdrawals[n].amount])
  /\ UNCHANGED <<com, wallet, batches, payouts, withdrawals, reversed, failures>>

CompleteCheck(r) ==
  /\ At(r, "complete.check")
  /\ LET copy == wallet[req[r].agent] IN
       IF copy.pending < req[r].amount THEN Finish(r)
       ELSE req' = [req EXCEPT ![r].pc = "complete.wallet", ![r].copy = copy]
  /\ UNCHANGED <<com, wallet, batches, payouts, withdrawals, reversed, failures>>

CompleteWallet(r) ==
  /\ At(r, "complete.wallet")
  /\ wallet' = [wallet EXCEPT ![req[r].agent].pending = req[r].copy.pending - req[r].amount]
  /\ Goto(r, "complete.save")
  /\ UNCHANGED <<com, batches, payouts, withdrawals, reversed, failures>>

CompleteSave(r) ==
  /\ At(r, "complete.save")
  /\ withdrawals' = [withdrawals EXCEPT ![req[r].document].completed = TRUE]
  /\ Finish(r)
  /\ UNCHANGED <<com, wallet, batches, payouts, reversed, failures>>

Withdrawing(r) ==
  \/ WithdrawCheck(r) \/ WithdrawSave(r) \/ WithdrawCreate(r)
  \/ CompleteCheck(r) \/ CompleteWallet(r) \/ CompleteSave(r)

----------------------------------------------------------------------------
\* The 14 days of a commission are over.
Matures(c) ==
  /\ ~com[c].due
  /\ com' = [com EXCEPT ![c].due = TRUE]
  /\ UNCHANGED <<wallet, batches, payouts, withdrawals, reversed, req, failures>>

Step(r) == Release(r) \/ Reverse(r) \/ Batch(r) \/ Confirm(r) \/ Withdrawing(r)

Requested(r) ==
  \/ StartRelease(r)
  \/ \E c \in Commissions : StartReverse(r, c)
  \/ StartBatch(r)
  \/ \E n \in DOMAIN payouts : StartConfirm(r, n)
  \/ \E a \in Agents, amount \in Amounts : StartWithdrawal(r, a, amount)
  \/ \E n \in DOMAIN withdrawals : StartComplete(r, n)

Next ==
  \/ \E c \in Commissions : Matures(c) \/ Block(c) \/ Resume(c)
  \/ \E r \in Requests : Requested(r) \/ Step(r) \/ Abandon(r)

\* Days pass, the timer fires every 15 minutes, and an await ends.
Fairness ==
  /\ \A c \in Commissions : WF_vars(Matures(c))
  /\ SF_vars(\E r \in Requests : StartRelease(r))
  /\ \A r \in Requests : WF_vars(Step(r))

Spec == Init /\ [][Next]_vars /\ Fairness

----------------------------------------------------------------------------
TypeOK ==
  /\ com \in [Commissions -> CommissionStates]
  /\ wallet \in [Agents -> Balances]
  /\ batches \in Seq(BatchStatuses)
  /\ payouts \in Seq(Payouts)
  /\ withdrawals \in Seq(Withdrawals)
  /\ reversed \subseteq Commissions
  /\ req \in [Requests -> RequestStates]
  /\ failures \in Nat

(***************************************************************************)
(* No commission is in two payouts, however many batches are created at    *)
(* the same time and wherever they die (docs: the same balance cannot be   *)
(* part of another payout).                                                *)
(***************************************************************************)
OnePayoutEach ==
  \A m, n \in DOMAIN payouts :
    m # n => payouts[m].commissions \cap payouts[n].commissions = {}

\* A batch has a payout for c and has not written its number on c yet.
Linking(c) == \E r \in Requests : At(r, "batch.link") /\ c \in OwedTo(r, req[r].agent)

(***************************************************************************)
(* A commission reads PAID only when a payout that lists it has been paid. *)
(* It then has the number of a payout, unless a request has died or the    *)
(* batch is about to write it: only so can reconcileOperation find         *)
(* PAID_WITHOUT_PAYOUT.                                                    *)
(***************************************************************************)
PaidHasPayout ==
  \A c \in WithStatus("PAID") :
    /\ \E n \in DOMAIN payouts : payouts[n].paid /\ c \in payouts[n].commissions
    /\ com[c].payout # 0 \/ failures > 0 \/ Linking(c)

(***************************************************************************)
(* A payout takes commissions of its own agent only, and each of them has  *)
(* been reserved for its batch and is not available any more.              *)
(***************************************************************************)
PayoutsAreReserved ==
  \A n \in DOMAIN payouts : \A c \in payouts[n].commissions :
    /\ Owner[c] = payouts[n].agent
    /\ com[c].batch = payouts[n].batch
    /\ com[c].status \in {"RESERVED", "PAID", "REVERSED"}

(***************************************************************************)
(* A commission does not stay PENDING for ever once its 14 days are over,  *)
(* although the timer job dies half-way and overlaps with itself.          *)
(***************************************************************************)
EarningsMature ==
  \A c \in Commissions :
    com[c].due /\ com[c].status = "PENDING" ~> com[c].status # "PENDING"

----------------------------------------------------------------------------
(* What holds between the handlers when they run one at a time.            *)

Quiet == \A r \in Requests : req[r].pc = "idle"

\* What has been asked of an agent's withdrawals, or of those in a state.
Asked(a, completed) ==
  SumFunctionOnSet([n \in DOMAIN withdrawals |-> withdrawals[n].amount],
    {n \in DOMAIN withdrawals : withdrawals[n].agent = a /\ withdrawals[n].completed \in completed})

OfAgent(a, commissions) == {c \in commissions : Owner[c] = a}

InPayouts == UNION {payouts[n].commissions : n \in DOMAIN payouts}

(***************************************************************************)
(* The agent's available balance is what has come from sales and has not   *)
(* been withdrawn, and the available commissions, less what was paid out   *)
(* or reserved before a dispute took it back; the pending balance is the   *)
(* commissions on their way and the withdrawals not yet completed.         *)
(***************************************************************************)
WalletMatches ==
  Quiet =>
    \A a \in Agents :
      /\ wallet[a].available =
           Sales - Asked(a, BOOLEAN) + Worth(OfAgent(a, WithStatus("AVAILABLE")))
             - Worth(OfAgent(a, reversed \cap InPayouts))
      /\ wallet[a].pending =
           Worth(OfAgent(a, WithStatus("PENDING") \cup WithStatus("BLOCKED"))) + Asked(a, {FALSE})

(***************************************************************************)
(* Agents withdraw what they have sold, never what they have earned by     *)
(* mediating: that is transferred by an administrator.                     *)
(***************************************************************************)
OnlySalesAreWithdrawn == \A a \in Agents : Asked(a, BOOLEAN) <= Sales

(***************************************************************************)
(* reconcileAgent has nothing to report, unless a dispute has taken back   *)
(* something that was reserved or paid: no commission is reserved without  *)
(* a payout, and the paid ones are worth what has been transferred.        *)
(***************************************************************************)
Reconciled ==
  Quiet =>
    /\ \A c \in WithStatus("RESERVED") : c \in InPayouts /\ com[c].payout # 0
    /\ reversed \cap InPayouts = {} =>
         \A a \in Agents :
           Worth(OfAgent(a, WithStatus("PAID"))) =
             SumFunctionOnSet([n \in DOMAIN payouts |-> Worth(payouts[n].commissions)],
               {n \in DOMAIN payouts : payouts[n].paid /\ payouts[n].agent = a})

(***************************************************************************)
(* A batch reads PAID exactly when each of its payouts has been paid.      *)
(***************************************************************************)
BatchesTellTheirPayouts ==
  Quiet =>
    \A b \in DOMAIN batches :
      batches[b] = "PAID" <=> PayoutsOf(b) # {} /\ PaidOf(b) = PayoutsOf(b)

=============================================================================
