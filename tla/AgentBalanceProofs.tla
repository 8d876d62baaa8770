------------------------- MODULE AgentBalanceProofs ------------------------
(***************************************************************************)
(* Theorems about the balances of AgentLedger.  Types hold whatever is in  *)
(* flight.  The rest takes it that requests run one at a time and none     *)
(* dies (OneAndNoneDies), and, but for what a batch reads, that no         *)
(* operation is disputed once its commission is available (PromptDispute); *)
(* that wallets match also takes it that a disputed operation goes on, if  *)
(* it does, within the 14 days (PromptResume).                             *)
(***************************************************************************)
EXTENDS AgentLedgerProofs, SumTheorems

----------------------------------------------------------------------------
(* What commissions are worth.                                             *)

\* Worth adds shares.
LEMMA WorthIsSum ==
  ASSUME NEW C
  PROVE  Worth(C) = SumFunctionOnSet(Share, C)
BY DEF Worth, MapThenSumSet, SumFunctionOnSet, FoldFunctionOnSet

\* There are finitely many commissions, and each has a share.
LEMMA WorthType ==
  ASSUME NEW C \in SUBSET Commissions
  PROVE  IsFiniteSet(C) /\ (\A c \in C : Share[c] \in Int) /\ Worth(C) \in Nat
<1>1. IsFiniteSet(C) /\ \A c \in C : Share[c] \in Nat
  BY CommissionsAssumption, ShareAssumption, FS_Subset
<1>2. QED
  BY <1>1, WorthIsSum, SumNat

\* A new commission adds its share.
LEMMA WorthAdd ==
  ASSUME NEW C \in SUBSET Commissions, NEW c \in Commissions \ C
  PROVE  Worth(C \cup {c}) = Worth(C) + Share[c]
<1>1. IsFiniteSet(C) /\ \A d \in C \cup {c} : Share[d] \in Int
  BY WorthType, ShareAssumption
<1>2. QED
  BY <1>1, WorthIsSum, SumAdd

\* Two parts add up.
LEMMA WorthUnion ==
  ASSUME NEW C \in SUBSET Commissions, NEW D \in SUBSET Commissions, C \cap D = {}
  PROVE  Worth(C \cup D) = Worth(C) + Worth(D)
<1>1. IsFiniteSet(C) /\ IsFiniteSet(D) /\ \A c \in C \cup D : Share[c] \in Int
  BY WorthType
<1>2. QED
  BY <1>1, WorthIsSum, SumUnion

----------------------------------------------------------------------------
(* Types.                                                                  *)

\* The steps that pay an agent out, and those of a withdrawal, know who the agent is.
Paying == {"batch.payout", "batch.link", "batch.wallet"}

Withdrawal ==
  {"withdraw.check", "withdraw.save", "withdraw.create",
   "complete.check", "complete.wallet", "complete.save"}

Typed(q) ==
  /\ q \in RequestStates
  /\ q.pc = "release.wallet" => q.commission \in Commissions
  /\ q.pc \in Paying \cup Withdrawal => q.agent \in Agents

TypeInv == TypeOK /\ \A r \in Requests : Typed(req[r])

\* A request at rest.
LEMMA IdleTyped == Typed(IdleRequest)
BY DEF Typed, IdleRequest, RequestStates, Paying, Withdrawal, Steps, Balances

\* A request moves on to q.
LEMMA RequestTyped ==
  ASSUME TypeInv, NEW r \in Requests, NEW q, Typed(q), req' = [req EXCEPT ![r] = q]
  PROVE  req' \in [Requests -> RequestStates] /\ \A s \in Requests : Typed(req'[s])
BY DEF TypeInv, TypeOK, Typed

\* It takes another step with what it has.
LEMMA GotoTyped ==
  ASSUME TypeInv, NEW r \in Requests, NEW pc \in Steps, Goto(r, pc),
         pc # "release.wallet",
         pc \in Paying \cup Withdrawal => req[r].pc \in Paying \cup Withdrawal
  PROVE  req' \in [Requests -> RequestStates] /\ \A s \in Requests : Typed(req'[s])
<1> DEFINE q == [req[r] EXCEPT !.pc = pc]
<1>1. req[r] \in RequestStates /\ Typed(req[r])
  BY DEF TypeInv, TypeOK
<1>2. Typed(q)
  BY <1>1 DEF Typed, RequestStates
<1>3. req' = [req EXCEPT ![r] = q]
  BY DEF Goto, TypeInv, TypeOK
<1> HIDE DEF q
<1>4. QED
  BY <1>2, <1>3, RequestTyped

\* It comes to its end.
LEMMA FinishTyped ==
  ASSUME TypeInv, NEW r \in Requests, Finish(r)
  PROVE  req' \in [Requests -> RequestStates] /\ \A s \in Requests : Typed(req'[s])
BY IdleTyped, RequestTyped DEF Finish

\* The balances after $inc.
LEMMA IncrementIs ==
  ASSUME wallet \in [Agents -> Balances], NEW a \in Agents, NEW available \in Int,
         NEW pending \in Int, Increment(a, available, pending)
  PROVE  /\ wallet' \in [Agents -> Balances]
         /\ wallet'[a].available = wallet[a].available + available
         /\ wallet'[a].pending = wallet[a].pending + pending
         /\ \A b \in Agents : b # a => wallet'[b] = wallet[b]
<1> DEFINE w == [wallet EXCEPT ![a].available = @ + available]
<1>1. wallet' = [w EXCEPT ![a].pending = @ + pending]
  BY DEF Increment
<1>2. wallet[a] \in Balances
  OBVIOUS
<1>3. w \in [Agents -> Balances] /\ w[a].available = wallet[a].available + available
        /\ w[a].pending = wallet[a].pending /\ \A b \in Agents : b # a => w[b] = wallet[b]
  BY <1>2 DEF Balances
<1> HIDE DEF w
<1>4. QED
  BY <1>1, <1>3 DEF Balances

\* What one request and its agents have to do with the types.
LEMMA ReleaseTyped ==
  ASSUME TypeInv, LedgerInv', NEW r \in Requests, StartRelease(r) \/ Release(r)
  PROVE  TypeInv'
<1>1. CASE StartRelease(r)
  <2> DEFINE q == [IdleRequest EXCEPT !.pc = "release.claim", !.list = Due]
  <2>1. Typed(q)
    BY IdleTyped DEF Typed, RequestStates, Paying, Withdrawal, Steps, Due, WithStatus
  <2>2. req' = [req EXCEPT ![r] = q]
    BY <1>1 DEF StartRelease, Begin
  <2> HIDE DEF q
  <2>3. QED
    BY <1>1, <2>1, <2>2, RequestTyped DEF StartRelease, TypeInv, TypeOK, LedgerInv
<1>2. ASSUME NEW c \in Commissions PROVE Typed(ToNext(r, req[r].list \ {c}))
  <2> DEFINE left == req[r].list \ {c}
             q == [req[r] EXCEPT !.pc = "release.claim", !.list = left]
  <2>1. Typed(q)
    BY DEF Typed, TypeInv, RequestStates, Paying, Withdrawal, Steps
  <2>2. QED
    BY <2>1, IdleTyped DEF ToNext
<1>3. req[r] \in RequestStates /\ req[r].list \subseteq Commissions
  BY DEF TypeInv, TypeOK, RequestStates
<1>4. CASE ReleaseClaim(r)
  <2>1. PICK c \in req[r].list :
          \/ req' = [req EXCEPT ![r] = ToNext(r, req[r].list \ {c})]
          \/ req' = [req EXCEPT ![r].pc = "release.wallet", ![r].commission = c]
    BY <1>4 DEF ReleaseClaim
  <2> DEFINE q == [req[r] EXCEPT !.pc = "release.wallet", !.commission = c]
  <2>2. Typed(q) /\ c \in Commissions
    BY <1>3 DEF Typed, TypeInv, RequestStates, Paying, Withdrawal, Steps
  <2>3. \/ req' = [req EXCEPT ![r] = ToNext(r, req[r].list \ {c})]
        \/ req' = [req EXCEPT ![r] = q]
    BY <2>1 DEF TypeInv, TypeOK
  <2> HIDE DEF q
  <2>4. req' \in [Requests -> RequestStates] /\ \A s \in Requests : Typed(req'[s])
    BY <1>2, <2>2, <2>3, RequestTyped
  <2>5. QED
    BY <1>4, <2>4 DEF ReleaseClaim, TypeInv, TypeOK, LedgerInv
<1>5. CASE ReleaseWallet(r)
  <2> DEFINE c == req[r].commission
  <2>1. c \in Commissions
    BY <1>5 DEF ReleaseWallet, At, TypeInv, Typed
  <2>2. Owner[c] \in Agents /\ Share[c] \in Int /\ -Share[c] \in Int
    BY <2>1, OwnerAssumption, ShareAssumption
  <2>3. Increment(Owner[c], Share[c], -Share[c]) /\ req' = [req EXCEPT ![r] = ToNext(r, req[r].list \ {c})]
    BY <1>5 DEF ReleaseWallet
  <2>4. wallet' \in [Agents -> Balances]
    BY <2>2, <2>3, IncrementIs DEF TypeInv, TypeOK
  <2>5. req' \in [Requests -> RequestStates] /\ \A s \in Requests : Typed(req'[s])
    BY <1>2, <2>1, <2>3, RequestTyped
  <2>6. QED
    BY <1>5, <2>4, <2>5 DEF ReleaseWallet, TypeInv, TypeOK, LedgerInv
<1>6. QED
  BY <1>1, <1>4, <1>5 DEF Release

\* A dispute that is lost.
LEMMA ReverseTyped ==
  ASSUME TypeInv, LedgerInv, LedgerInv', NEW r \in Requests,
         (\E c \in Commissions : StartReverse(r, c)) \/ Reverse(r)
  PROVE  TypeInv'
<1> DEFINE c == req[r].commission
<1>0. req[r].pc \in {"reverse.wallet", "reverse.save"} => c \in Commissions
  BY DEF LedgerInv, Knows
<1>1. ASSUME NEW d \in Commissions, StartReverse(r, d) PROVE TypeInv'
  <2> DEFINE q == [IdleRequest EXCEPT !.pc = "reverse.wallet", !.commission = d,
                                      !.status = com[d].status]
  <2>1. Typed(q)
    BY IdleTyped DEF Typed, RequestStates, Paying, Withdrawal, Steps, TypeInv, TypeOK, CommissionStates
  <2>2. req' = [req EXCEPT ![r] = q]
    BY <1>1 DEF StartReverse, Begin
  <2> HIDE DEF q
  <2>3. QED
    BY <1>1, <2>1, <2>2, RequestTyped DEF StartReverse, TypeInv, TypeOK, LedgerInv
<1>2. CASE ReverseWallet(r)
  <2>1. c \in Commissions
    BY <1>0, <1>2 DEF ReverseWallet, At
  <2>2. Owner[c] \in Agents /\ Share[c] \in Int /\ -Share[c] \in Int
    BY <2>1, OwnerAssumption, ShareAssumption
  <2>3. (Increment(Owner[c], 0, -Share[c]) \/ Increment(Owner[c], -Share[c], 0))
          /\ Goto(r, "reverse.save")
    BY <1>2 DEF ReverseWallet
  <2>4. wallet' \in [Agents -> Balances]
    BY <2>2, <2>3, IncrementIs DEF TypeInv, TypeOK
  <2>5. req' \in [Requests -> RequestStates] /\ \A s \in Requests : Typed(req'[s])
    BY <2>3, GotoTyped DEF Steps, Paying, Withdrawal
  <2>6. QED
    BY <1>2, <2>4, <2>5 DEF ReverseWallet, TypeInv, TypeOK, LedgerInv
<1>3. CASE ReverseSave(r)
  <2>1. c \in Commissions
    BY <1>0, <1>3 DEF ReverseSave, At
  <2>2. req' \in [Requests -> RequestStates] /\ \A s \in Requests : Typed(req'[s])
    BY <1>3, FinishTyped DEF ReverseSave
  <2>3. QED
    BY <1>3, <2>1, <2>2 DEF ReverseSave, TypeInv, TypeOK, LedgerInv
<1>4. QED
  BY <1>1, <1>2, <1>3 DEF Reverse

\* A batch begins with commissions that are available.
LEMMA BatchBegins ==
  ASSUME NEW r, StartBatch(r)
  PROVE  \E list \in SUBSET WithStatus("AVAILABLE") :
           /\ req' = [req EXCEPT ![r] = [IdleRequest EXCEPT !.pc = "batch.create", !.list = list]]
           /\ req[r].pc = "idle"
<1>1. PICK agents \in SUBSET Agents :
        LET list == {c \in WithStatus("AVAILABLE") : Owner[c] \in agents} IN
          list # {} /\ Begin(r, [IdleRequest EXCEPT !.pc = "batch.create", !.list = list])
  BY DEF StartBatch
<1> DEFINE list == {c \in WithStatus("AVAILABLE") : Owner[c] \in agents}
<1>2. list \in SUBSET WithStatus("AVAILABLE")
  OBVIOUS
<1>3. /\ req' = [req EXCEPT ![r] = [IdleRequest EXCEPT !.pc = "batch.create", !.list = list]]
      /\ req[r].pc = "idle"
  BY <1>1 DEF Begin
<1> HIDE DEF list
<1>4. QED
  BY <1>2, <1>3

\* A batch and its payouts.
LEMMA BatchTyped ==
  ASSUME TypeInv, LedgerInv', NEW r \in Requests, StartBatch(r) \/ Batch(r)
  PROVE  TypeInv'
<1>0. req[r] \in RequestStates /\ req[r].list \subseteq Commissions /\ Typed(req[r])
  BY DEF TypeInv, TypeOK, RequestStates
<1>1. CASE StartBatch(r)
  <2>0. PICK list \in SUBSET WithStatus("AVAILABLE") :
          req' = [req EXCEPT ![r] = [IdleRequest EXCEPT !.pc = "batch.create", !.list = list]]
    BY <1>1, BatchBegins
  <2> DEFINE q == [IdleRequest EXCEPT !.pc = "batch.create", !.list = list]
  <2>1. Typed(q)
    BY IdleTyped DEF Typed, RequestStates, Paying, Withdrawal, Steps, WithStatus
  <2>2. req' = [req EXCEPT ![r] = q]
    BY <2>0
  <2> HIDE DEF q
  <2>3. QED
    BY <1>1, <2>1, <2>2, RequestTyped DEF StartBatch, TypeInv, TypeOK, LedgerInv
<1>2. CASE BatchCreate(r)
  <2> DEFINE q == [req[r] EXCEPT !.pc = "batch.reserve", !.batch = Len(batches) + 1]
  <2>1. Len(batches) + 1 \in Nat
    BY DEF TypeInv, TypeOK
  <2>2. Typed(q)
    BY <1>0, <2>1 DEF Typed, RequestStates, Paying, Withdrawal, Steps
  <2>3. req' = [req EXCEPT ![r] = q]
    BY <1>2 DEF BatchCreate, TypeInv, TypeOK
  <2> HIDE DEF q
  <2>4. QED
    BY <1>2, <2>2, <2>3, RequestTyped DEF BatchCreate, TypeInv, TypeOK, LedgerInv
<1>3. CASE BatchReserve(r)
  <2>1. PICK c \in req[r].list :
          Finish(r) \/ req' = [req EXCEPT ![r].pc = "batch.payout", ![r].agent = Owner[c]]
    BY <1>3 DEF BatchReserve
  <2> DEFINE q == [req[r] EXCEPT !.pc = "batch.payout", !.agent = Owner[c]]
  <2>2. Typed(q)
    BY <1>0, OwnerAssumption DEF Typed, RequestStates, Paying, Withdrawal, Steps
  <2>3. Finish(r) \/ req' = [req EXCEPT ![r] = q]
    BY <2>1 DEF TypeInv, TypeOK
  <2> HIDE DEF q
  <2>4. req' \in [Requests -> RequestStates] /\ \A s \in Requests : Typed(req'[s])
    BY <2>2, <2>3, RequestTyped, FinishTyped
  <2>5. QED
    BY <1>3, <2>4 DEF BatchReserve, TypeInv, TypeOK, LedgerInv
<1>4. CASE BatchPayout(r)
  <2> DEFINE q == [req[r] EXCEPT !.pc = "batch.link", !.document = Len(payouts) + 1]
  <2>1. Len(payouts) + 1 \in Nat
    BY DEF TypeInv, TypeOK
  <2>2. req[r].agent \in Agents
    BY <1>0, <1>4 DEF BatchPayout, At, Typed, Paying
  <2>3. Typed(q)
    BY <1>0, <2>1, <2>2 DEF Typed, RequestStates, Paying, Withdrawal, Steps
  <2>4. req' = [req EXCEPT ![r] = q]
    BY <1>4 DEF BatchPayout, TypeInv, TypeOK
  <2> HIDE DEF q
  <2>5. QED
    BY <1>4, <2>3, <2>4, RequestTyped DEF BatchPayout, TypeInv, TypeOK, LedgerInv
<1>6. CASE BatchLink(r)
  <2>1. Goto(r, "batch.wallet") /\ req[r].pc = "batch.link"
    BY <1>6 DEF BatchLink, At
  <2>2. req' \in [Requests -> RequestStates] /\ \A s \in Requests : Typed(req'[s])
    BY <2>1, GotoTyped DEF Steps, Paying, Withdrawal
  <2>3. QED
    BY <1>6, <2>2 DEF BatchLink, TypeInv, TypeOK, LedgerInv
<1>5. CASE BatchWallet(r)
  <2> DEFINE owed == OwedTo(r, req[r].agent)
             q == [req[r] EXCEPT !.pc = "batch.reserve", !.list = @ \ owed]
  <2>1. req[r].agent \in Agents /\ Increment(req[r].agent, -Worth(owed), 0)
    BY <1>0, <1>5 DEF BatchWallet, At, Typed, Paying
  <2>2. owed \subseteq Commissions
    BY <1>0 DEF OwedTo
  <2>3. -Worth(owed) \in Int
    BY <2>2, WorthType
  <2>4. wallet' \in [Agents -> Balances]
    BY <2>1, <2>3, IncrementIs DEF TypeInv, TypeOK
  <2>5. Typed(q)
    BY <1>0 DEF Typed, RequestStates, Paying, Withdrawal, Steps
  <2>6. Finish(r) \/ req' = [req EXCEPT ![r] = q]
    BY <1>5 DEF BatchWallet, TypeInv, TypeOK
  <2> HIDE DEF q
  <2>7. req' \in [Requests -> RequestStates] /\ \A s \in Requests : Typed(req'[s])
    BY <2>5, <2>6, RequestTyped, FinishTyped
  <2>8. QED
    BY <1>5, <2>4, <2>7 DEF BatchWallet, TypeInv, TypeOK, LedgerInv
<1>7. QED
  BY <1>1, <1>2, <1>3, <1>4, <1>5, <1>6 DEF Batch

\* A payout that is confirmed.
LEMMA ConfirmTyped ==
  ASSUME TypeInv, LedgerInv, LedgerInv', NEW r \in Requests,
         (\E n \in DOMAIN payouts : StartConfirm(r, n)) \/ Confirm(r)
  PROVE  TypeInv'
<1>0. req[r] \in RequestStates /\ Typed(req[r]) /\ Knows(req[r])
  BY DEF TypeInv, TypeOK, LedgerInv
<1>1. ASSUME NEW n \in DOMAIN payouts, StartConfirm(r, n) PROVE TypeInv'
  <2> DEFINE q == [IdleRequest EXCEPT !.pc = "confirm.save", !.document = n]
  <2>1. n \in Nat
    BY DEF TypeInv, TypeOK
  <2>2. Typed(q)
    BY <2>1, IdleTyped DEF Typed, RequestStates, Paying, Withdrawal, Steps
  <2>3. req' = [req EXCEPT ![r] = q]
    BY <1>1 DEF StartConfirm, Begin
  <2> HIDE DEF q
  <2>4. QED
    BY <1>1, <2>2, <2>3, RequestTyped DEF StartConfirm, TypeInv, TypeOK, LedgerInv
<1>2. CASE ConfirmSave(r) \/ ConfirmCommissions(r)
  <2>1. Goto(r, "confirm.commissions") \/ Goto(r, "refresh.read")
    BY <1>2 DEF ConfirmSave, ConfirmCommissions
  <2>2. req' \in [Requests -> RequestStates] /\ \A s \in Requests : Typed(req'[s])
    BY <2>1, GotoTyped DEF Steps, Paying, Withdrawal
  <2>3. QED
    BY <1>2, <2>2 DEF ConfirmSave, ConfirmCommissions, TypeInv, TypeOK, LedgerInv
<1>3. CASE RefreshRead(r)
  <2> DEFINE batch == payouts[req[r].document].batch
             status == BatchStatus(batch)
             q == [req[r] EXCEPT !.pc = "refresh.save", !.batch = batch, !.status = status]
  <2>1. req[r].document \in DOMAIN payouts
    BY <1>0, <1>3 DEF RefreshRead, At, Knows, Confirming
  <2>2. payouts[req[r].document] \in Payouts
    BY <2>1 DEF TypeInv, TypeOK
  <2>3. batch \in Nat
    BY <2>2 DEF Payouts
  <2>4. status \in BatchStatuses
    BY DEF BatchStatus, BatchStatuses
  <2> HIDE DEF batch, status
  <2>5. Typed(q)
    BY <1>0, <2>3, <2>4 DEF Typed, RequestStates, Paying, Withdrawal, Steps
  <2>6. req' = [req EXCEPT ![r] = q]
    BY <1>3 DEF RefreshRead, TypeInv, TypeOK, batch, status
  <2> HIDE DEF q
  <2>7. QED
    BY <1>3, <2>5, <2>6, RequestTyped DEF RefreshRead, TypeInv, TypeOK, LedgerInv
<1>4. CASE RefreshSave(r)
  <2>1. req' \in [Requests -> RequestStates] /\ \A s \in Requests : Typed(req'[s])
    BY <1>4, FinishTyped DEF RefreshSave
  <2>2. QED
    BY <1>4, <2>1 DEF RefreshSave, TypeInv, TypeOK, LedgerInv
<1>5. QED
  BY <1>1, <1>2, <1>3, <1>4 DEF Confirm

\* An agent asks for a withdrawal.
LEMMA AskTyped ==
  ASSUME TypeInv, LedgerInv', NEW r \in Requests,
         \/ \E a \in Agents, amount \in Amounts : StartWithdrawal(r, a, amount)
         \/ WithdrawCheck(r) \/ WithdrawSave(r) \/ WithdrawCreate(r)
  PROVE  TypeInv'
<1>0. req[r] \in RequestStates /\ Typed(req[r])
  BY DEF TypeInv, TypeOK
<1>1. ASSUME NEW a \in Agents, NEW amount \in Amounts, StartWithdrawal(r, a, amount)
      PROVE  TypeInv'
  <2> DEFINE copy == wallet[a]
             q == [IdleRequest EXCEPT !.pc = "withdraw.check", !.agent = a, !.amount = amount,
                                      !.copy = copy]
  <2>1. amount \in Nat /\ copy \in Balances
    BY AmountsAssumption DEF TypeInv, TypeOK
  <2> HIDE DEF copy
  <2>2. Typed(q)
    BY <2>1, IdleTyped DEF Typed, RequestStates, Paying, Withdrawal, Steps
  <2>3. req' = [req EXCEPT ![r] = q]
    BY <1>1 DEF StartWithdrawal, Begin, copy
  <2> HIDE DEF q
  <2>4. QED
    BY <1>1, <2>2, <2>3, RequestTyped DEF StartWithdrawal, TypeInv, TypeOK, LedgerInv
<1>2. CASE WithdrawCheck(r)
  <2>1. (Finish(r) \/ Goto(r, "withdraw.save")) /\ req[r].pc = "withdraw.check"
    BY <1>2 DEF WithdrawCheck, At
  <2>2. req' \in [Requests -> RequestStates] /\ \A s \in Requests : Typed(req'[s])
    BY <2>1, GotoTyped, FinishTyped DEF Steps, Paying, Withdrawal
  <2>3. QED
    BY <1>2, <2>2 DEF WithdrawCheck, TypeInv, TypeOK, LedgerInv
<1>3. CASE WithdrawSave(r)
  <2>1. Goto(r, "withdraw.create") /\ req[r].pc = "withdraw.save"
    BY <1>3 DEF WithdrawSave, At
  <2>2. req' \in [Requests -> RequestStates] /\ \A s \in Requests : Typed(req'[s])
    BY <2>1, GotoTyped DEF Steps, Paying, Withdrawal
  <2>3. [available |-> req[r].copy.available - req[r].amount,
         pending |-> req[r].copy.pending + req[r].amount] \in Balances
    BY <1>0 DEF RequestStates, Balances
  <2>4. wallet' \in [Agents -> Balances]
    BY <1>3, <2>3 DEF WithdrawSave, TypeInv, TypeOK
  <2>5. QED
    BY <1>3, <2>2, <2>4 DEF WithdrawSave, TypeInv, TypeOK, LedgerInv
<1>4. CASE WithdrawCreate(r)
  <2>1. req' \in [Requests -> RequestStates] /\ \A s \in Requests : Typed(req'[s])
    BY <1>4, FinishTyped DEF WithdrawCreate
  <2>2. [agent |-> req[r].agent, amount |-> req[r].amount, completed |-> FALSE] \in Withdrawals
    BY <1>0, <1>4 DEF WithdrawCreate, At, Typed, RequestStates, Withdrawal, Withdrawals
  <2>3. withdrawals' \in Seq(Withdrawals)
    BY <1>4, <2>2 DEF WithdrawCreate, TypeInv, TypeOK
  <2>4. QED
    BY <1>4, <2>1, <2>3 DEF WithdrawCreate, TypeInv, TypeOK, LedgerInv
<1>5. QED
  BY <1>1, <1>2, <1>3, <1>4

\* A withdrawal is completed.
LEMMA CompleteTyped ==
  ASSUME TypeInv, LedgerInv', NEW r \in Requests,
         \/ \E n \in DOMAIN withdrawals : StartComplete(r, n)
         \/ CompleteCheck(r) \/ CompleteWallet(r) \/ CompleteSave(r)
  PROVE  TypeInv'
<1>0. req[r] \in RequestStates /\ Typed(req[r])
  BY DEF TypeInv, TypeOK
<1>1. ASSUME NEW n \in DOMAIN withdrawals, StartComplete(r, n) PROVE TypeInv'
  <2> DEFINE w == withdrawals[n]
             q == [IdleRequest EXCEPT !.pc = "complete.check", !.document = n,
                                      !.agent = w.agent, !.amount = w.amount]
  <2>1. n \in Nat /\ w \in Withdrawals
    BY DEF TypeInv, TypeOK
  <2>2. w.agent \in Agents /\ w.amount \in Nat
    BY <2>1 DEF Withdrawals
  <2> HIDE DEF w
  <2>3. Typed(q)
    BY <2>1, <2>2, IdleTyped DEF Typed, RequestStates, Paying, Withdrawal, Steps
  <2>4. req' = [req EXCEPT ![r] = q]
    BY <1>1 DEF StartComplete, Begin, w
  <2> HIDE DEF q
  <2>5. QED
    BY <1>1, <2>3, <2>4, RequestTyped DEF StartComplete, TypeInv, TypeOK, LedgerInv
<1>2. CASE CompleteCheck(r)
  <2> DEFINE copy == wallet[req[r].agent]
             q == [req[r] EXCEPT !.pc = "complete.wallet", !.copy = copy]
  <2>1. copy \in Balances
    BY <1>0, <1>2 DEF CompleteCheck, At, Typed, Withdrawal, TypeInv, TypeOK
  <2>2. Finish(r) \/ req' = [req EXCEPT ![r] = q]
    BY <1>2 DEF CompleteCheck, TypeInv, TypeOK
  <2>3. req[r].pc = "complete.check"
    BY <1>2 DEF CompleteCheck, At
  <2> HIDE DEF copy
  <2>4. Typed(q)
    BY <1>0, <2>1, <2>3 DEF Typed, RequestStates, Paying, Withdrawal, Steps
  <2> HIDE DEF q
  <2>5. req' \in [Requests -> RequestStates] /\ \A s \in Requests : Typed(req'[s])
    BY <2>2, <2>4, RequestTyped, FinishTyped
  <2>6. QED
    BY <1>2, <2>5 DEF CompleteCheck, TypeInv, TypeOK, LedgerInv
<1>3. CASE CompleteWallet(r)
  <2>1. Goto(r, "complete.save") /\ req[r].pc = "complete.wallet"
    BY <1>3 DEF CompleteWallet, At
  <2>2. req' \in [Requests -> RequestStates] /\ \A s \in Requests : Typed(req'[s])
    BY <2>1, GotoTyped DEF Steps, Paying, Withdrawal
  <2>3. req[r].copy.pending - req[r].amount \in Int
    BY <1>0 DEF RequestStates, Balances
  <2>4. wallet' \in [Agents -> Balances]
    BY <1>3, <2>3 DEF CompleteWallet, TypeInv, TypeOK, Balances
  <2>5. QED
    BY <1>3, <2>2, <2>4 DEF CompleteWallet, TypeInv, TypeOK, LedgerInv
<1>4. CASE CompleteSave(r)
  <2>1. req' \in [Requests -> RequestStates] /\ \A s \in Requests : Typed(req'[s])
    BY <1>4, FinishTyped DEF CompleteSave
  <2>2. withdrawals' \in Seq(Withdrawals)
    <3> DEFINE k == req[r].document
               w == [withdrawals[k] EXCEPT !.completed = TRUE]
    <3>1. withdrawals' = [withdrawals EXCEPT ![k] = w] /\ withdrawals \in Seq(Withdrawals)
      BY <1>4 DEF CompleteSave, TypeInv, TypeOK
    <3>2. CASE k \in DOMAIN withdrawals
      <4>1. withdrawals[k] \in Withdrawals
        BY <3>1, <3>2
      <4>2. w \in Withdrawals
        BY <4>1 DEF Withdrawals
      <4> HIDE DEF w, k
      <4>3. QED
        BY <3>1, <3>2, <4>2
    <3>3. CASE k \notin DOMAIN withdrawals
      <4> HIDE DEF w, k
      <4>1. withdrawals = [n \in DOMAIN withdrawals |-> withdrawals[n]]
        BY <3>1
      <4>2. [withdrawals EXCEPT ![k] = w] = withdrawals
        BY <3>3, <4>1, Zenon
      <4>3. QED
        BY <3>1, <4>2
    <3>4. QED
      BY <3>2, <3>3
  <2>3. QED
    BY <1>4, <2>1, <2>2 DEF CompleteSave, TypeInv, TypeOK, LedgerInv
<1>5. QED
  BY <1>1, <1>2, <1>3, <1>4

\* At the beginning.
LEMMA InitTyped == Init => TypeInv
<1> SUFFICES ASSUME Init PROVE TypeInv
  OBVIOUS
<1>1. LedgerInv
  BY InitLedger
<1>2. \A a \in Agents : Worth({c \in Commissions : Owner[c] = a}) \in Int
  BY WorthType
<1>3. wallet \in [Agents -> Balances]
  BY <1>2, SalesAssumption DEF Init, Balances
<1>4. \A r \in Requests : req[r] = IdleRequest
  BY DEF Init
<1>5. req \in [Requests -> RequestStates] /\ \A r \in Requests : Typed(req[r])
  BY <1>4, IdleTyped DEF Init, Typed
<1>6. QED
  BY <1>1, <1>3, <1>5 DEF Init, TypeInv, TypeOK, LedgerInv

\* Every step.
LEMMA NextTyped == TypeInv /\ LedgerInv /\ LedgerInv' /\ [Next]_vars => TypeInv'
<1> SUFFICES ASSUME TypeInv, LedgerInv, LedgerInv', [Next]_vars PROVE TypeInv'
  OBVIOUS
<1>1. CASE UNCHANGED vars
  BY <1>1 DEF vars, TypeInv, TypeOK
<1>2. ASSUME NEW c \in Commissions, Matures(c) \/ Block(c) \/ Resume(c)
      PROVE  TypeInv'
  BY <1>2 DEF Matures, Block, Resume, TypeInv, TypeOK, LedgerInv
<1>3. ASSUME NEW r \in Requests, Requested(r)
      PROVE  TypeInv'
  BY <1>3, ReleaseTyped, ReverseTyped, BatchTyped, ConfirmTyped, AskTyped, CompleteTyped
     DEF Requested
<1>4. ASSUME NEW r \in Requests, Step(r)
      PROVE  TypeInv'
  BY <1>4, ReleaseTyped, ReverseTyped, BatchTyped, ConfirmTyped, AskTyped, CompleteTyped
     DEF Step, Withdrawing
<1>5. ASSUME NEW r \in Requests, Abandon(r)
      PROVE  TypeInv'
  <2>1. req' \in [Requests -> RequestStates] /\ \A s \in Requests : Typed(req'[s])
    BY <1>5, FinishTyped DEF Abandon
  <2>2. QED
    BY <1>5, <2>1 DEF Abandon, TypeInv, TypeOK
<1>6. QED
  BY <1>1, <1>2, <1>3, <1>4, <1>5 DEF Next

\* What a request in flight needs of the types.
LEMMA TypesCorrect == Spec => []TypeInv
<1>1. Init => TypeInv
  BY InitTyped
<1>2. TypeInv /\ LedgerInv /\ LedgerInv' /\ [Next]_vars => TypeInv'
  BY NextTyped
<1>3. QED
  BY <1>1, <1>2, LedgerCorrect, PTL DEF Spec

\* The ledger keeps its types, whatever is in flight and wherever it dies: the balances are
\* integers, which may be negative.
THEOREM LedgerTyped == Spec => []TypeOK
<1>1. TypeInv => TypeOK
  BY DEF TypeInv
<1>2. QED
  BY <1>1, TypesCorrect, PTL

----------------------------------------------------------------------------
(* One request at a time, and none that dies: what the only request, q,    *)
(* has read is still so.                                                   *)

OneAndNoneDies == (\E r : Requests = {r}) /\ MaxFailures = 0

Reversing == {"reverse.wallet", "reverse.save"}

\* The commissions that q is paying out.
OwedBy(q) == {c \in q.list : Owner[c] = q.agent}

ListIsAvailable(q) ==
  /\ q.pc \in {"batch.create", "batch.reserve"} => q.list \subseteq WithStatus("AVAILABLE")
  /\ q.pc \in Paying => /\ OwedBy(q) \subseteq WithStatus("RESERVED")
                        /\ q.list \ OwedBy(q) \subseteq WithStatus("AVAILABLE")
  /\ q.pc = "batch.payout" => OwedBy(q) \cap InPayouts = {}
  /\ q.pc \in {"batch.link", "batch.wallet"} => OwedBy(q) \subseteq InPayouts

StatusIsCurrent(q) ==
  /\ q.pc = "release.wallet" => q.commission \in WithStatus("AVAILABLE")
  /\ q.pc \in Reversing => /\ q.commission \in Commissions \ reversed
                           /\ com[q.commission].dispute = "over"
                           /\ com[q.commission].status = q.status

\* Only on the way to their payout are commissions reserved without one.
ReservedInPayouts(q) ==
  WithStatus("RESERVED") \subseteq
    InPayouts \cup (IF q.pc = "batch.payout" THEN OwedBy(q) ELSE {})

\* Only while it is being confirmed is a payout paid and its commissions are not.
PaidWithPayout(q) ==
  \A n \in DOMAIN payouts :
    payouts[n].paid /\ ~(q.pc = "confirm.commissions" /\ q.document = n) =>
      payouts[n].commissions \subseteq WithStatus("PAID") \cup reversed

\* What a dispute has taken back is not taken back again.
ReversedOnce ==
  /\ reversed \subseteq Commissions
  /\ WithStatus("REVERSED") \subseteq reversed
  /\ \A c \in reversed : com[c].dispute = "over" /\ com[c].status \in {"REVERSED", "PAID"}

FlowInv ==
  /\ ReversedOnce
  /\ \A r \in Requests :
       /\ ListIsAvailable(req[r]) /\ StatusIsCurrent(req[r])
       /\ ReservedInPayouts(req[r]) /\ PaidWithPayout(req[r])

\* The request moves on to q and leaves commissions and payouts alone.
LEMMA FlowMoves ==
  ASSUME LedgerInv, FlowInv, UNCHANGED <<com, payouts, reversed>>,
         NEW r, Requests = {r}, NEW q, req' = [req EXCEPT ![r] = q],
         ListIsAvailable(q), StatusIsCurrent(q),
         req[r].pc \notin {"batch.payout", "confirm.commissions"}
  PROVE  FlowInv'
<1>1. req'[r] = q
  BY DEF LedgerInv
<1>2. WithStatus("REVERSED")' = WithStatus("REVERSED") /\ WithStatus("RESERVED")' = WithStatus("RESERVED")
        /\ WithStatus("PAID")' = WithStatus("PAID") /\ WithStatus("AVAILABLE")' = WithStatus("AVAILABLE")
        /\ InPayouts' = InPayouts
  BY DEF WithStatus, InPayouts
<1>3. ReversedOnce'
  BY <1>2 DEF FlowInv, ReversedOnce
<1>4. ListIsAvailable(req[r])' /\ StatusIsCurrent(req[r])'
  BY <1>1, <1>2 DEF ListIsAvailable, StatusIsCurrent, OwedBy
<1>5. ReservedInPayouts(req[r]) /\ PaidWithPayout(req[r])
  BY DEF FlowInv
<1>6. ReservedInPayouts(req[r])' /\ PaidWithPayout(req[r])'
  BY <1>2, <1>5 DEF ReservedInPayouts, PaidWithPayout
<1>7. QED
  BY <1>3, <1>4, <1>6 DEF FlowInv

\* It moves on to a step that has nothing to remember.
LEMMA FlowGoes ==
  ASSUME LedgerInv, FlowInv, UNCHANGED <<com, payouts, reversed>>,
         NEW r, Requests = {r}, NEW q, req' = [req EXCEPT ![r] = q],
         q.pc \notin {"batch.create", "batch.reserve", "release.wallet"} \cup Paying \cup Reversing,
         req[r].pc \notin {"batch.payout", "confirm.commissions"}
  PROVE  FlowInv'
BY FlowMoves DEF ListIsAvailable, StatusIsCurrent, Paying

\* A request at rest has nothing to remember.
LEMMA FlowFinishes ==
  ASSUME LedgerInv, FlowInv, UNCHANGED <<com, payouts, reversed>>,
         NEW r, Requests = {r}, Finish(r),
         req[r].pc \notin {"batch.payout", "confirm.commissions"}
  PROVE  FlowInv'
BY FlowGoes DEF Finish, IdleRequest, Paying, Reversing

\* The commissions of which one takes another status.
LEMMA StatusIs ==
  ASSUME com \in [Commissions -> CommissionStates], NEW c \in Commissions, NEW status,
         com' = [com EXCEPT ![c].status = status]
  PROVE  /\ com'[c].status = status /\ com'[c].dispute = com[c].dispute
         /\ \A d \in Commissions : d # c => com'[d] = com[d]
BY DEF CommissionStates

\* The number of a payout on its commissions.
LEMMA LinkIs ==
  ASSUME com \in [Commissions -> CommissionStates], NEW r, BatchLink(r)
  PROVE  \A c \in Commissions : com'[c].status = com[c].status /\ com'[c].dispute = com[c].dispute
<1>1. \A c \in Commissions : com[c] \in CommissionStates
  OBVIOUS
<1>2. \A c \in Commissions : com'[c] = com[c] \/ com'[c] = [com[c] EXCEPT !.payout = req[r].document]
  BY DEF BatchLink
<1>3. QED
  BY <1>1, <1>2 DEF CommissionStates

\* The timer job.
LEMMA FlowRelease ==
  ASSUME TypeInv, LedgerInv, FlowInv, NEW r, Requests = {r}, StartRelease(r) \/ Release(r)
  PROVE  FlowInv'
<1>0. req[r] \in RequestStates /\ com \in [Commissions -> CommissionStates] /\ r \in Requests
  BY DEF TypeInv, TypeOK
<1>1. CASE StartRelease(r)
  <2> DEFINE q == [IdleRequest EXCEPT !.pc = "release.claim", !.list = Due]
  <2>1. /\ req' = [req EXCEPT ![r] = q] /\ req[r].pc = "idle"
        /\ UNCHANGED <<com, payouts, reversed>>
    BY <1>1 DEF StartRelease, Begin
  <2>2. q.pc = "release.claim"
    BY DEF IdleRequest
  <2> HIDE DEF q
  <2>3. QED
    BY <2>1, <2>2, FlowGoes DEF Paying, Reversing
<1>2. ASSUME NEW c \in Commissions PROVE ToNext(r, req[r].list \ {c}).pc \in {"idle", "release.claim"}
  BY <1>0 DEF ToNext, IdleRequest, RequestStates
<1>3. ASSUME NEW c \in Commissions, req' = [req EXCEPT ![r] = ToNext(r, req[r].list \ {c})],
             UNCHANGED <<com, payouts, reversed>>, req[r].pc \in {"release.claim", "release.wallet"}
      PROVE  FlowInv'
  BY <1>2, <1>3, FlowGoes DEF Paying, Reversing
<1>4. CASE ReleaseClaim(r)
  <2>1. PICK c \in req[r].list :
          \/ /\ com[c].status # "PENDING"
             /\ req' = [req EXCEPT ![r] = ToNext(r, req[r].list \ {c})]
             /\ UNCHANGED com
          \/ /\ com[c].status = "PENDING"
             /\ com' = [com EXCEPT ![c].status = "AVAILABLE"]
             /\ req' = [req EXCEPT ![r].pc = "release.wallet", ![r].commission = c]
    BY <1>4 DEF ReleaseClaim
  <2>2. c \in Commissions
    BY <1>0 DEF RequestStates
  <2>3. req[r].pc = "release.claim" /\ UNCHANGED <<payouts, reversed>>
    BY <1>4 DEF ReleaseClaim, At
  <2>4. CASE /\ com[c].status = "PENDING"
             /\ com' = [com EXCEPT ![c].status = "AVAILABLE"]
             /\ req' = [req EXCEPT ![r].pc = "release.wallet", ![r].commission = c]
    <3>1. /\ com'[c].status = "AVAILABLE" /\ com'[c].dispute = com[c].dispute
          /\ \A d \in Commissions : d # c => com'[d] = com[d]
      BY <1>0, <2>2, <2>4, StatusIs
    <3>2. req'[r].pc = "release.wallet" /\ req'[r].commission = c
      BY <1>0, <2>4 DEF RequestStates, TypeInv, TypeOK
    <3>3. InPayouts' = InPayouts
      BY <2>3 DEF InPayouts
    <3>4. ReversedOnce'
      BY <2>3, <2>4, <3>1 DEF FlowInv, ReversedOnce, WithStatus
    <3>5. ListIsAvailable(req[r])' /\ StatusIsCurrent(req[r])'
      BY <2>2, <3>1, <3>2 DEF ListIsAvailable, StatusIsCurrent, WithStatus, Paying, Reversing
    <3>6. ReservedInPayouts(req[r])'
      BY <2>3, <3>1, <3>2, <3>3 DEF FlowInv, ReservedInPayouts, WithStatus
    <3>7. PaidWithPayout(req[r])'
      <4> SUFFICES ASSUME NEW n \in DOMAIN payouts, payouts[n].paid, NEW d \in payouts[n].commissions,
                          d \notin reversed
                   PROVE  d \in Commissions /\ com'[d].status = "PAID"
        BY <2>3 DEF PaidWithPayout, WithStatus
      <4>1. d \in Commissions /\ com[d].status = "PAID"
        BY <2>3 DEF FlowInv, PaidWithPayout, WithStatus
      <4>2. QED
        BY <2>4, <3>1, <4>1
    <3>8. QED
      BY <3>4, <3>5, <3>6, <3>7 DEF FlowInv
  <2>5. QED
    BY <1>3, <2>1, <2>2, <2>3, <2>4
<1>5. CASE ReleaseWallet(r)
  <2>1. req[r].commission \in Commissions /\ req[r].pc = "release.wallet"
    BY <1>5 DEF ReleaseWallet, At, TypeInv, Typed
  <2>2. QED
    BY <1>3, <1>5, <2>1 DEF ReleaseWallet
<1>6. QED
  BY <1>1, <1>4, <1>5 DEF Release

\* A dispute that is lost.
LEMMA FlowReverse ==
  ASSUME TypeInv, LedgerInv, FlowInv, NEW r, Requests = {r},
         (\E c \in Commissions : StartReverse(r, c)) \/ Reverse(r)
  PROVE  FlowInv'
<1>0. req[r] \in RequestStates /\ com \in [Commissions -> CommissionStates] /\ r \in Requests
        /\ req \in [Requests -> RequestStates]
  BY DEF TypeInv, TypeOK
<1>1. ASSUME NEW c \in Commissions, StartReverse(r, c) PROVE FlowInv'
  <2> DEFINE q == [IdleRequest EXCEPT !.pc = "reverse.wallet", !.commission = c,
                                      !.status = com[c].status]
  <2>1. /\ req' = [req EXCEPT ![r] = q] /\ req[r].pc = "idle" /\ com[c].dispute = "open"
        /\ UNCHANGED <<payouts, reversed>>
    BY <1>1 DEF StartReverse, Begin
  <2>2. q.pc = "reverse.wallet" /\ q.commission = c /\ q.status = com[c].status
    BY DEF IdleRequest
  <2>3. /\ com'[c].dispute = "over"
        /\ \A d \in Commissions : com'[d].status = com[d].status
        /\ \A d \in Commissions : d # c => com'[d] = com[d]
    BY <1>0, <1>1 DEF StartReverse, CommissionStates
  <2> HIDE DEF q
  <2>4. req'[r] = q
    BY <1>0, <2>1
  <2>5. \A status : WithStatus(status)' = WithStatus(status)
    BY <2>3 DEF WithStatus
  <2>6. InPayouts' = InPayouts
    BY <2>1 DEF InPayouts
  <2>7. ReversedOnce'
    BY <2>1, <2>3, <2>5 DEF FlowInv, ReversedOnce
  <2>8. c \notin reversed
    BY <2>1 DEF FlowInv, ReversedOnce
  <2>9. ListIsAvailable(req[r])' /\ StatusIsCurrent(req[r])'
    BY <2>1, <2>2, <2>3, <2>4, <2>8 DEF ListIsAvailable, StatusIsCurrent, Paying, Reversing
  <2>10. ReservedInPayouts(req[r]) /\ PaidWithPayout(req[r])
    BY DEF FlowInv
  <2>11. ReservedInPayouts(req[r])' /\ PaidWithPayout(req[r])'
    BY <2>1, <2>5, <2>6, <2>10 DEF ReservedInPayouts, PaidWithPayout
  <2>12. QED
    BY <2>7, <2>9, <2>11 DEF FlowInv
<1>2. CASE ReverseWallet(r)
  <2> DEFINE q == [req[r] EXCEPT !.pc = "reverse.save"]
  <2>1. /\ req' = [req EXCEPT ![r] = q] /\ req[r].pc = "reverse.wallet"
        /\ UNCHANGED <<com, payouts, reversed>>
    BY <1>0, <1>2 DEF ReverseWallet, Goto, At
  <2>2. q.pc = "reverse.save" /\ q.commission = req[r].commission /\ q.status = req[r].status
    BY <1>0 DEF RequestStates
  <2> HIDE DEF q
  <2>3. StatusIsCurrent(req[r])
    BY DEF FlowInv
  <2>4. ListIsAvailable(q) /\ StatusIsCurrent(q)
    BY <2>1, <2>2, <2>3 DEF ListIsAvailable, StatusIsCurrent, Paying, Reversing
  <2>5. QED
    BY <2>1, <2>4, FlowMoves
<1>3. CASE ReverseSave(r)
  <2> DEFINE c == req[r].commission
  <2>1. /\ req'[r].pc = "idle" /\ req[r].pc = "reverse.save"
        /\ com' = [com EXCEPT ![c].status = "REVERSED"]
        /\ reversed' = reversed \cup {c} /\ UNCHANGED payouts
    BY <1>0, <1>3 DEF ReverseSave, Finish, IdleRequest, At
  <2>2. c \in Commissions /\ com[c].dispute = "over"
    BY <2>1 DEF FlowInv, StatusIsCurrent, Reversing
  <2> HIDE DEF c
  <2>3. /\ com'[c].status = "REVERSED" /\ com'[c].dispute = com[c].dispute
        /\ \A d \in Commissions : d # c => com'[d] = com[d]
    BY <1>0, <2>1, <2>2, StatusIs
  <2>4. InPayouts' = InPayouts
    BY <2>1 DEF InPayouts
  <2>5. ReversedOnce'
    BY <2>1, <2>2, <2>3 DEF FlowInv, ReversedOnce, WithStatus
  <2>6. ListIsAvailable(req[r])' /\ StatusIsCurrent(req[r])'
    BY <2>1 DEF ListIsAvailable, StatusIsCurrent, Paying, Reversing
  <2>7. ReservedInPayouts(req[r])'
    BY <2>1, <2>3, <2>4 DEF FlowInv, ReservedInPayouts, WithStatus
  <2>8. PaidWithPayout(req[r])'
    <3> SUFFICES ASSUME NEW n \in DOMAIN payouts, payouts[n].paid, NEW d \in payouts[n].commissions,
                        d \notin reversed'
                 PROVE  d \in Commissions /\ com'[d].status = "PAID"
      BY <2>1 DEF PaidWithPayout, WithStatus
    <3>1. d \in Commissions /\ com[d].status = "PAID" /\ d # c
      BY <2>1 DEF FlowInv, PaidWithPayout, WithStatus
    <3>2. QED
      BY <2>3, <3>1
  <2>9. QED
    BY <2>5, <2>6, <2>7, <2>8 DEF FlowInv
<1>4. QED
  BY <1>1, <1>2, <1>3 DEF Reverse

\* A batch and its payouts.
LEMMA FlowBatch ==
  ASSUME TypeInv, LedgerInv, FlowInv, NEW r, Requests = {r}, StartBatch(r) \/ Batch(r)
  PROVE  FlowInv'
<1>0. req[r] \in RequestStates /\ com \in [Commissions -> CommissionStates] /\ r \in Requests
        /\ req \in [Requests -> RequestStates] /\ req[r].list \subseteq Commissions
  BY DEF TypeInv, TypeOK, RequestStates
<1>01. ListIsAvailable(req[r]) /\ ReservedInPayouts(req[r]) /\ PaidWithPayout(req[r])
  BY DEF FlowInv
<1>1. CASE StartBatch(r)
  <2>0. PICK list \in SUBSET WithStatus("AVAILABLE") :
          /\ req' = [req EXCEPT ![r] = [IdleRequest EXCEPT !.pc = "batch.create", !.list = list]]
          /\ req[r].pc = "idle"
    BY <1>1, BatchBegins
  <2> DEFINE q == [IdleRequest EXCEPT !.pc = "batch.create", !.list = list]
  <2>1. /\ req' = [req EXCEPT ![r] = q] /\ req[r].pc = "idle"
        /\ UNCHANGED <<com, payouts, reversed>>
    BY <1>1, <2>0 DEF StartBatch
  <2>2. q.pc = "batch.create" /\ q.list \subseteq WithStatus("AVAILABLE")
    BY DEF IdleRequest
  <2> HIDE DEF q
  <2>3. ListIsAvailable(q) /\ StatusIsCurrent(q)
    BY <2>2 DEF ListIsAvailable, StatusIsCurrent, Paying, Reversing
  <2>4. QED
    BY <2>1, <2>3, FlowMoves
<1>2. CASE BatchCreate(r)
  <2> DEFINE q == [req[r] EXCEPT !.pc = "batch.reserve", !.batch = Len(batches) + 1]
  <2>1. /\ req' = [req EXCEPT ![r] = q] /\ req[r].pc = "batch.create"
        /\ UNCHANGED <<com, payouts, reversed>>
    BY <1>0, <1>2 DEF BatchCreate, At
  <2>2. q.pc = "batch.reserve" /\ q.list = req[r].list
    BY <1>0 DEF RequestStates
  <2> HIDE DEF q
  <2>3. ListIsAvailable(q) /\ StatusIsCurrent(q)
    BY <1>01, <2>1, <2>2 DEF ListIsAvailable, StatusIsCurrent, Paying, Reversing
  <2>4. QED
    BY <2>1, <2>3, FlowMoves
<1>3. CASE BatchReserve(r)
  <2>1. PICK c \in req[r].list :
          LET owed == OwedTo(r, Owner[c])
              reserved == owed \cap WithStatus("AVAILABLE") IN
            /\ com' = [d \in Commissions |-> IF d \in reserved
                         THEN [com[d] EXCEPT !.status = "RESERVED", !.batch = req[r].batch]
                         ELSE com[d]]
            /\ \/ reserved # owed /\ Finish(r)
               \/ /\ reserved = owed
                  /\ req' = [req EXCEPT ![r].pc = "batch.payout", ![r].agent = Owner[c]]
    BY <1>3 DEF BatchReserve
  <2>2. req[r].pc = "batch.reserve" /\ UNCHANGED <<payouts, reversed>>
    BY <1>3 DEF BatchReserve, At
  <2> DEFINE owed == OwedTo(r, Owner[c])
  <2>3. req[r].list \subseteq WithStatus("AVAILABLE")
    BY <1>01, <2>2 DEF ListIsAvailable
  <2>4. owed \cap WithStatus("AVAILABLE") = owed /\ owed \subseteq Commissions
          /\ owed \subseteq req[r].list /\ owed \subseteq WithStatus("AVAILABLE")
    BY <1>0, <2>3 DEF OwedTo
  <2>5. /\ req' = [req EXCEPT ![r].pc = "batch.payout", ![r].agent = Owner[c]]
        /\ com' = [d \in Commissions |-> IF d \in owed
                     THEN [com[d] EXCEPT !.status = "RESERVED", !.batch = req[r].batch]
                     ELSE com[d]]
    BY <2>1, <2>4
  <2>6. req'[r].pc = "batch.payout" /\ OwedBy(req'[r]) = owed /\ req'[r].list = req[r].list
    BY <1>0, <2>5 DEF RequestStates, OwedBy, OwedTo
  <2> HIDE DEF owed
  <2>7. /\ \A d \in owed : com'[d].status = "RESERVED" /\ com'[d].dispute = com[d].dispute
        /\ \A d \in Commissions \ owed : com'[d] = com[d]
    BY <1>0, <2>4, <2>5 DEF CommissionStates
  <2>8. InPayouts' = InPayouts
    BY <2>2 DEF InPayouts
  <2>9. owed \cap InPayouts = {}
    BY <2>4 DEF LedgerInv, PayoutsAreReserved, InPayouts, WithStatus
  <2>10. ReversedOnce'
    BY <2>2, <2>4, <2>7 DEF FlowInv, ReversedOnce, WithStatus
  <2>11. ListIsAvailable(req[r])'
    <3>1. owed \subseteq WithStatus("RESERVED")'
      BY <2>4, <2>7 DEF WithStatus
    <3>2. req[r].list \ owed \subseteq WithStatus("AVAILABLE")'
      BY <1>0, <2>3, <2>7 DEF WithStatus
    <3>3. QED
      BY <2>6, <2>8, <2>9, <3>1, <3>2 DEF ListIsAvailable
  <2>12. StatusIsCurrent(req[r])'
    BY <2>6 DEF StatusIsCurrent, Reversing
  <2>13. ReservedInPayouts(req[r])'
    <3>1. WithStatus("RESERVED")' \subseteq WithStatus("RESERVED") \cup owed
      BY <2>7 DEF WithStatus
    <3>2. WithStatus("RESERVED") \subseteq InPayouts
      BY <1>01, <2>2 DEF ReservedInPayouts
    <3>3. QED
      BY <2>6, <2>8, <3>1, <3>2 DEF ReservedInPayouts
  <2>14. PaidWithPayout(req[r])'
    <3>1. WithStatus("PAID") \subseteq WithStatus("PAID")'
      BY <2>4, <2>7 DEF WithStatus
    <3>2. QED
      BY <1>01, <2>2, <3>1 DEF PaidWithPayout
  <2>15. QED
    BY <2>10, <2>11, <2>12, <2>13, <2>14 DEF FlowInv
<1>4. CASE BatchPayout(r)
  <2> DEFINE owed == OwedTo(r, req[r].agent)
             payout == [batch |-> req[r].batch, agent |-> req[r].agent,
                        commissions |-> owed, paid |-> FALSE]
  <2>1. /\ payouts' = Append(payouts, payout) /\ req[r].pc = "batch.payout"
        /\ UNCHANGED <<com, reversed>>
    BY <1>4 DEF BatchPayout, At
  <2>2. /\ req'[r].pc = "batch.link" /\ OwedBy(req'[r]) = owed /\ req'[r].list = req[r].list
        /\ OwedBy(req[r]) = owed
    BY <1>0, <1>4 DEF BatchPayout, RequestStates, OwedBy, OwedTo
  <2>3. payout.commissions = owed /\ payout.paid = FALSE
    OBVIOUS
  <2> HIDE DEF owed, payout
  <2>4. /\ DOMAIN payouts' = DOMAIN payouts \cup {Len(payouts) + 1}
        /\ \A n \in DOMAIN payouts : payouts'[n] = payouts[n]
        /\ payouts'[Len(payouts) + 1] = payout
    BY <2>1 DEF LedgerInv
  <2>5. InPayouts' = InPayouts \cup owed
    <3>1. ASSUME NEW d PROVE d \in InPayouts' <=> d \in InPayouts \cup owed
      BY <2>3, <2>4 DEF InPayouts
    <3>2. QED
      BY <3>1
  <2>6. \A status : WithStatus(status)' = WithStatus(status)
    BY <2>1 DEF WithStatus
  <2>7. ReversedOnce'
    BY <2>1, <2>6 DEF FlowInv, ReversedOnce
  <2>8. ListIsAvailable(req[r])'
    BY <1>01, <2>1, <2>2, <2>5, <2>6 DEF ListIsAvailable, Paying
  <2>9. StatusIsCurrent(req[r])'
    BY <2>2 DEF StatusIsCurrent, Reversing
  <2>10. ReservedInPayouts(req[r])'
    BY <1>01, <2>1, <2>2, <2>5, <2>6 DEF ReservedInPayouts
  <2>11. PaidWithPayout(req[r])'
    BY <1>01, <2>1, <2>3, <2>4, <2>6 DEF PaidWithPayout
  <2>12. QED
    BY <2>7, <2>8, <2>9, <2>10, <2>11 DEF FlowInv
<1>5. CASE BatchWallet(r)
  <2> DEFINE owed == OwedTo(r, req[r].agent)
             q == [req[r] EXCEPT !.pc = "batch.reserve", !.list = @ \ owed]
  <2>1. /\ Finish(r) \/ req' = [req EXCEPT ![r] = q]
        /\ req[r].pc = "batch.wallet" /\ UNCHANGED <<com, payouts, reversed>>
    BY <1>0, <1>5 DEF BatchWallet, At
  <2>2. q.pc = "batch.reserve" /\ q.list = req[r].list \ OwedBy(req[r])
    BY <1>0 DEF RequestStates, OwedBy, OwedTo
  <2> HIDE DEF q
  <2>3. ListIsAvailable(q) /\ StatusIsCurrent(q)
    BY <1>01, <2>1, <2>2 DEF ListIsAvailable, StatusIsCurrent, Paying, Reversing
  <2>4. QED
    BY <2>1, <2>3, FlowMoves, FlowFinishes
<1>6. CASE BatchLink(r)
  <2>1. /\ req[r].pc = "batch.link" /\ req'[r].pc = "batch.wallet" /\ req'[r].list = req[r].list
        /\ OwedBy(req'[r]) = OwedBy(req[r]) /\ UNCHANGED <<payouts, reversed>>
    BY <1>0, <1>6 DEF BatchLink, At, Goto, RequestStates, OwedBy
  <2>2. \A c \in Commissions : com'[c].status = com[c].status /\ com'[c].dispute = com[c].dispute
    BY <1>0, <1>6, LinkIs
  <2>3. (\A status : WithStatus(status)' = WithStatus(status)) /\ InPayouts' = InPayouts
    BY <2>1, <2>2 DEF WithStatus, InPayouts
  <2>4. ReversedOnce'
    BY <2>1, <2>2, <2>3 DEF FlowInv, ReversedOnce
  <2>5. ListIsAvailable(req[r])' /\ StatusIsCurrent(req[r])'
    BY <1>01, <2>1, <2>3 DEF ListIsAvailable, StatusIsCurrent, Paying, Reversing
  <2>6. ReservedInPayouts(req[r])' /\ PaidWithPayout(req[r])'
    BY <1>01, <2>1, <2>3 DEF ReservedInPayouts, PaidWithPayout
  <2>7. QED
    BY <2>4, <2>5, <2>6 DEF FlowInv
<1>7. QED
  BY <1>1, <1>2, <1>3, <1>4, <1>5, <1>6 DEF Batch

\* A payout that is confirmed.
LEMMA FlowConfirm ==
  ASSUME TypeInv, LedgerInv, FlowInv, NEW r, Requests = {r},
         (\E n \in DOMAIN payouts : StartConfirm(r, n)) \/ Confirm(r)
  PROVE  FlowInv'
<1>0. req[r] \in RequestStates /\ com \in [Commissions -> CommissionStates] /\ r \in Requests
        /\ req \in [Requests -> RequestStates] /\ Knows(req[r])
  BY DEF TypeInv, TypeOK, LedgerInv
<1>01. ListIsAvailable(req[r]) /\ ReservedInPayouts(req[r]) /\ PaidWithPayout(req[r])
  BY DEF FlowInv
<1> DEFINE k == req[r].document
<1>1. ASSUME NEW n \in DOMAIN payouts, StartConfirm(r, n) PROVE FlowInv'
  <2> DEFINE q == [IdleRequest EXCEPT !.pc = "confirm.save", !.document = n]
  <2>1. /\ req' = [req EXCEPT ![r] = q] /\ req[r].pc = "idle"
        /\ UNCHANGED <<com, payouts, reversed>>
    BY <1>1 DEF StartConfirm, Begin
  <2>2. q.pc = "confirm.save"
    BY DEF IdleRequest
  <2> HIDE DEF q
  <2>3. QED
    BY <2>1, <2>2, FlowGoes DEF Paying, Reversing
<1>2. CASE ConfirmSave(r)
  <2>1. /\ req'[r].pc = "confirm.commissions" /\ req'[r].document = k /\ req[r].pc = "confirm.save"
        /\ UNCHANGED <<com, reversed>>
    BY <1>0, <1>2 DEF ConfirmSave, Goto, At, RequestStates
  <2>2. k \in DOMAIN payouts /\ payouts[k] \in Payouts
    BY <1>0, <2>1 DEF Knows, Confirming, LedgerInv
  <2>3. payouts' = [payouts EXCEPT ![k] = [payouts[k] EXCEPT !.paid = TRUE]]
    BY <1>2, <2>2 DEF ConfirmSave
  <2> HIDE DEF k
  <2>4. /\ DOMAIN payouts' = DOMAIN payouts
        /\ \A n \in DOMAIN payouts : payouts'[n].commissions = payouts[n].commissions
        /\ \A n \in DOMAIN payouts : n # k => payouts'[n].paid = payouts[n].paid
    BY <2>2, <2>3 DEF LedgerInv, Payouts
  <2>5. InPayouts' = InPayouts
    BY <2>4 DEF InPayouts
  <2>6. \A status : WithStatus(status)' = WithStatus(status)
    BY <2>1 DEF WithStatus
  <2>7. ReversedOnce'
    BY <2>1, <2>6 DEF FlowInv, ReversedOnce
  <2>8. ListIsAvailable(req[r])' /\ StatusIsCurrent(req[r])'
    BY <2>1 DEF ListIsAvailable, StatusIsCurrent, Paying, Reversing
  <2>9. ReservedInPayouts(req[r])'
    BY <1>01, <2>1, <2>5, <2>6 DEF ReservedInPayouts
  <2>10. PaidWithPayout(req[r])'
    BY <1>01, <2>1, <2>4, <2>6 DEF PaidWithPayout
  <2>11. QED
    BY <2>7, <2>8, <2>9, <2>10 DEF FlowInv
<1>3. CASE ConfirmCommissions(r)
  <2>1. /\ req'[r].pc = "refresh.read" /\ req[r].pc = "confirm.commissions"
        /\ UNCHANGED <<payouts, reversed>>
        /\ com' = [c \in Commissions |-> IF c \in payouts[k].commissions
                     THEN [com[c] EXCEPT !.status = "PAID"] ELSE com[c]]
    BY <1>0, <1>3 DEF ConfirmCommissions, Goto, At, RequestStates
  <2>2. k \in DOMAIN payouts /\ payouts[k] \in Payouts
    BY <1>0, <2>1 DEF Knows, Confirming, LedgerInv
  <2> DEFINE paid == payouts[k].commissions
  <2>3. paid \subseteq Commissions
    BY <2>2 DEF Payouts
  <2>4. /\ \A c \in paid : com'[c].status = "PAID" /\ com'[c].dispute = com[c].dispute
        /\ \A c \in Commissions \ paid : com'[c] = com[c]
    BY <1>0, <2>1, <2>3 DEF CommissionStates
  <2> HIDE DEF k
  <2>5. InPayouts' = InPayouts
    BY <2>1 DEF InPayouts
  <2>6. ReversedOnce'
    BY <2>1, <2>3, <2>4 DEF FlowInv, ReversedOnce, WithStatus
  <2>7. ListIsAvailable(req[r])' /\ StatusIsCurrent(req[r])'
    BY <2>1 DEF ListIsAvailable, StatusIsCurrent, Paying, Reversing
  <2>8. ReservedInPayouts(req[r])'
    <3>1. WithStatus("RESERVED")' \subseteq WithStatus("RESERVED")
      BY <2>3, <2>4 DEF WithStatus
    <3>2. QED
      BY <1>01, <2>1, <2>5, <3>1 DEF ReservedInPayouts
  <2>9. PaidWithPayout(req[r])'
    <3>1. WithStatus("PAID")' = WithStatus("PAID") \cup paid
      BY <2>3, <2>4 DEF WithStatus
    <3>2. QED
      BY <1>01, <2>1, <3>1 DEF PaidWithPayout, k
  <2>10. QED
    BY <2>6, <2>7, <2>8, <2>9 DEF FlowInv
<1>4. CASE RefreshRead(r)
  <2> DEFINE batch == payouts[k].batch
             q == [req[r] EXCEPT !.pc = "refresh.save", !.batch = batch,
                                 !.status = BatchStatus(batch)]
  <2>1. /\ req' = [req EXCEPT ![r] = q] /\ req[r].pc = "refresh.read"
        /\ UNCHANGED <<com, payouts, reversed>>
    BY <1>0, <1>4 DEF RefreshRead, At
  <2>2. q.pc = "refresh.save"
    BY <1>0 DEF RequestStates
  <2> HIDE DEF q
  <2>3. QED
    BY <2>1, <2>2, FlowGoes DEF Paying, Reversing
<1>5. CASE RefreshSave(r)
  BY <1>5, FlowFinishes DEF RefreshSave, At
<1>6. QED
  BY <1>1, <1>2, <1>3, <1>4, <1>5 DEF Confirm

\* A withdrawal.
LEMMA FlowWithdrawing ==
  ASSUME TypeInv, LedgerInv, FlowInv, NEW r, Requests = {r},
         \/ \E a \in Agents, amount \in Amounts : StartWithdrawal(r, a, amount)
         \/ \E n \in DOMAIN withdrawals : StartComplete(r, n)
         \/ Withdrawing(r)
  PROVE  FlowInv'
<1>0. req[r] \in RequestStates /\ r \in Requests /\ req \in [Requests -> RequestStates]
  BY DEF TypeInv, TypeOK
<1>1. ASSUME NEW q, req' = [req EXCEPT ![r] = q], q.pc \in Withdrawal,
             req[r].pc \in Withdrawal \cup {"idle"}, UNCHANGED <<com, payouts, reversed>>
      PROVE  FlowInv'
  BY <1>1, FlowGoes DEF Withdrawal, Paying, Reversing
<1>2. ASSUME NEW pc \in Withdrawal, Goto(r, pc), req[r].pc \in Withdrawal,
             UNCHANGED <<com, payouts, reversed>>
      PROVE  FlowInv'
  <2> DEFINE q == [req[r] EXCEPT !.pc = pc]
  <2>1. req' = [req EXCEPT ![r] = q] /\ q.pc = pc
    BY <1>0, <1>2 DEF Goto, RequestStates
  <2> HIDE DEF q
  <2>2. QED
    BY <1>1, <1>2, <2>1
<1>3. ASSUME NEW a \in Agents, NEW amount \in Amounts, StartWithdrawal(r, a, amount)
      PROVE  FlowInv'
  <2> DEFINE q == [IdleRequest EXCEPT !.pc = "withdraw.check", !.agent = a, !.amount = amount,
                                      !.copy = wallet[a]]
  <2>1. req' = [req EXCEPT ![r] = q] /\ req[r].pc = "idle" /\ UNCHANGED <<com, payouts, reversed>>
    BY <1>3 DEF StartWithdrawal, Begin
  <2>2. q.pc \in Withdrawal
    BY DEF IdleRequest, Withdrawal
  <2> HIDE DEF q
  <2>3. QED
    BY <1>1, <2>1, <2>2
<1>4. ASSUME NEW n \in DOMAIN withdrawals, StartComplete(r, n) PROVE FlowInv'
  <2> DEFINE q == [IdleRequest EXCEPT !.pc = "complete.check", !.document = n,
                                      !.agent = withdrawals[n].agent,
                                      !.amount = withdrawals[n].amount]
  <2>1. req' = [req EXCEPT ![r] = q] /\ req[r].pc = "idle" /\ UNCHANGED <<com, payouts, reversed>>
    BY <1>4 DEF StartComplete, Begin
  <2>2. q.pc \in Withdrawal
    BY DEF IdleRequest, Withdrawal
  <2> HIDE DEF q
  <2>3. QED
    BY <1>1, <2>1, <2>2
<1>5. CASE WithdrawCheck(r)
  BY <1>2, <1>5, FlowFinishes DEF WithdrawCheck, At, Withdrawal
<1>6. CASE WithdrawSave(r)
  BY <1>2, <1>6 DEF WithdrawSave, At, Withdrawal
<1>7. CASE WithdrawCreate(r)
  BY <1>7, FlowFinishes DEF WithdrawCreate, At
<1>8. CASE CompleteCheck(r)
  <2> DEFINE copy == wallet[req[r].agent]
             q == [req[r] EXCEPT !.pc = "complete.wallet", !.copy = copy]
  <2>1. /\ Finish(r) \/ req' = [req EXCEPT ![r] = q]
        /\ req[r].pc = "complete.check" /\ UNCHANGED <<com, payouts, reversed>>
    BY <1>0, <1>8 DEF CompleteCheck, At
  <2>2. q.pc \in Withdrawal /\ req[r].pc \in Withdrawal
    BY <1>0, <2>1 DEF RequestStates, Withdrawal
  <2> HIDE DEF q
  <2>3. QED
    BY <1>1, <2>1, <2>2, FlowFinishes
<1>9. CASE CompleteWallet(r)
  BY <1>2, <1>9 DEF CompleteWallet, At, Withdrawal
<1>10. CASE CompleteSave(r)
  BY <1>10, FlowFinishes DEF CompleteSave, At
<1>11. QED
  BY <1>3, <1>4, <1>5, <1>6, <1>7, <1>8, <1>9, <1>10 DEF Withdrawing

\* The 14 days pass, the operation is disputed, or it goes on.
LEMMA FlowWorld ==
  ASSUME PromptDispute, TypeInv, LedgerInv, FlowInv, NEW c \in Commissions, Matures(c) \/ Block(c) \/ Resume(c)
  PROVE  FlowInv'
<1>0. com \in [Commissions -> CommissionStates]
  BY DEF LedgerInv
<1>1. /\ UNCHANGED <<payouts, reversed, req>>
      /\ \/ com'[c].status = com[c].status
         \/ com[c].status = "BLOCKED" /\ com'[c].status \in {"AVAILABLE", "PENDING"}
         \/ com[c].status = "PENDING" /\ com'[c].status = "BLOCKED"
      /\ com'[c].status # com[c].status => com[c].dispute # "over"
      /\ com[c].dispute = "over" => com'[c].dispute = "over"
      /\ \A d \in Commissions : d # c => com'[d] = com[d]
  <2>1. com[c] \in CommissionStates
    BY <1>0
  <2>2. CASE Matures(c)
    <3> DEFINE new == [com[c] EXCEPT !.due = TRUE]
    <3>1. com' = [com EXCEPT ![c] = new] /\ UNCHANGED <<payouts, reversed, req>>
      BY <1>0, <2>1, <2>2 DEF Matures, CommissionStates
    <3>2. new.status = com[c].status /\ new.dispute = com[c].dispute
      BY <2>1 DEF CommissionStates
    <3> HIDE DEF new
    <3>3. com'[c] = new /\ \A d \in Commissions : d # c => com'[d] = com[d]
      BY <1>0, <3>1
    <3>4. com'[c].status = com[c].status
      BY <3>2, <3>3
    <3>5. com'[c].dispute = com[c].dispute
      BY <3>2, <3>3
    <3>6. QED
      BY <3>1, <3>3, <3>4, <3>5
  <2>3. CASE Resume(c)
    <3> DEFINE status == IF com[c].status # "BLOCKED" THEN com[c].status
                         ELSE IF com[c].due THEN "AVAILABLE" ELSE "PENDING"
               new == [com[c] EXCEPT !.dispute = "none", !.status = status]
    <3>1. com' = [com EXCEPT ![c] = new] /\ com[c].dispute = "open" /\ UNCHANGED <<payouts, reversed, req>>
      BY <1>0, <2>1, <2>3 DEF Resume, CommissionStates
    <3>2. new.status = status
      BY <2>1 DEF CommissionStates
    <3> HIDE DEF new
    <3>3. com'[c] = new /\ \A d \in Commissions : d # c => com'[d] = com[d]
      BY <1>0, <3>1
    <3>4. com'[c].status = status
      BY <3>2, <3>3
    <3>5. \/ status = com[c].status
          \/ com[c].status = "BLOCKED" /\ status \in {"AVAILABLE", "PENDING"}
      OBVIOUS
    <3> HIDE DEF status
    <3>6. QED
      BY <3>1, <3>3, <3>4, <3>5
  <2>4. CASE Block(c)
    <3> DEFINE status == IF com[c].status \in {"PENDING", "AVAILABLE"} THEN "BLOCKED"
                         ELSE com[c].status
               new == [com[c] EXCEPT !.dispute = "open", !.status = status]
    <3>1. com' = [com EXCEPT ![c] = new] /\ com[c].dispute = "none" /\ UNCHANGED <<payouts, reversed, req>>
      BY <1>0, <2>1, <2>4 DEF Block, CommissionStates
    <3>2. new.status = status
      BY <2>1 DEF CommissionStates
    <3> HIDE DEF new
    <3>3. com'[c] = new /\ \A d \in Commissions : d # c => com'[d] = com[d]
      BY <1>0, <3>1
    <3>4. com'[c].status = status
      BY <3>2, <3>3
    <3>5. com[c].status # "AVAILABLE"
      BY <2>4 DEF Block
    <3>6. \/ status = com[c].status
          \/ com[c].status = "PENDING" /\ status = "BLOCKED"
      BY <3>5
    <3> HIDE DEF status
    <3>7. QED
      BY <3>1, <3>3, <3>4, <3>6
  <2>5. QED
    BY <2>2, <2>3, <2>4
<1>2. InPayouts' = InPayouts
  BY <1>1 DEF InPayouts
<1>3. /\ WithStatus("AVAILABLE") \subseteq WithStatus("AVAILABLE")'
      /\ \A status \in {"RESERVED", "PAID", "REVERSED"} : WithStatus(status)' = WithStatus(status)
  BY <1>1 DEF WithStatus
<1>4. ReversedOnce'
  BY <1>1, <1>3 DEF FlowInv, ReversedOnce
<1>5. ASSUME NEW r \in Requests
      PROVE  /\ ListIsAvailable(req[r])' /\ StatusIsCurrent(req[r])'
             /\ ReservedInPayouts(req[r])' /\ PaidWithPayout(req[r])'
  <2>1. /\ ListIsAvailable(req[r]) /\ StatusIsCurrent(req[r])
        /\ ReservedInPayouts(req[r]) /\ PaidWithPayout(req[r])
    BY DEF FlowInv
  <2>2. ListIsAvailable(req[r])'
    BY <1>1, <1>2, <1>3, <2>1 DEF ListIsAvailable, OwedBy, Paying
  <2>3. StatusIsCurrent(req[r])'
    BY <1>1, <1>3, <2>1 DEF StatusIsCurrent, Reversing
  <2>4. ReservedInPayouts(req[r])'
    BY <1>1, <1>2, <1>3, <2>1 DEF ReservedInPayouts, OwedBy
  <2>5. PaidWithPayout(req[r])'
    BY <1>1, <1>3, <2>1 DEF PaidWithPayout
  <2>6. QED
    BY <2>2, <2>3, <2>4, <2>5
<1>6. QED
  BY <1>1, <1>4, <1>5 DEF FlowInv

\* At the beginning nothing has been reserved, paid or taken back.
LEMMA InitFlow == Init => FlowInv
<1> SUFFICES ASSUME Init PROVE FlowInv
  OBVIOUS
<1>1. reversed = {} /\ DOMAIN payouts = {} /\ \A r \in Requests : req[r].pc = "idle"
  BY DEF Init, IdleRequest
<1>2. WithStatus("RESERVED") = {} /\ WithStatus("REVERSED") = {}
  BY DEF Init, WithStatus
<1>3. QED
  BY <1>1, <1>2 DEF FlowInv, ReversedOnce, ListIsAvailable, StatusIsCurrent,
                    ReservedInPayouts, PaidWithPayout, Paying, Reversing

\* Every step of the only request keeps it.
LEMMA NextFlow ==
  ASSUME OneAndNoneDies, PromptDispute, TypeInv, LedgerInv, FlowInv, [Next]_vars
  PROVE  FlowInv'
<1>1. PICK r : Requests = {r}
  BY DEF OneAndNoneDies
<1>2. CASE UNCHANGED vars
  BY <1>2 DEF vars, FlowInv, ReversedOnce, ListIsAvailable, StatusIsCurrent, ReservedInPayouts,
              PaidWithPayout, WithStatus, InPayouts, OwedBy
<1>3. ASSUME NEW c \in Commissions, Matures(c) \/ Block(c) \/ Resume(c)
      PROVE  FlowInv'
  BY <1>3, FlowWorld
<1>4. CASE Requested(r) \/ Step(r)
  BY <1>1, <1>4, FlowRelease, FlowReverse, FlowBatch, FlowConfirm, FlowWithdrawing
     DEF Requested, Step
<1>5. ~Abandon(r)
  BY DEF OneAndNoneDies, Abandon, TypeInv, TypeOK
<1>6. QED
  BY <1>1, <1>2, <1>3, <1>4, <1>5 DEF Next

\* FlowInv and the types hold together.
LEMMA FlowCorrect ==
  ASSUME OneAndNoneDies, PromptDispute
  PROVE  Spec => [](LedgerInv /\ TypeInv /\ FlowInv)
<1>1. Init => LedgerInv /\ TypeInv /\ FlowInv
  BY InitLedger, InitTyped, InitFlow
<1>2. LedgerInv /\ TypeInv /\ FlowInv /\ [Next]_vars => (LedgerInv /\ TypeInv /\ FlowInv)'
  BY NextKeeps, NextTyped, NextFlow
<1>3. QED
  BY <1>1, <1>2, PTL DEF Spec

----------------------------------------------------------------------------
(* What a batch reads.                                                     *)

Refreshing == {"confirm.commissions", "refresh.read", "refresh.save"}

Reads(b) == batches[b] = "PAID" <=> PayoutsOf(b) # {} /\ PaidOf(b) = PayoutsOf(b)

\* A batch that is being filled has nothing paid; one with a payout that is being confirmed may
\* not read so yet.
BatchReads(q) ==
  /\ \A b \in DOMAIN batches :
       Reads(b) \/ (q.pc \in Refreshing /\ b = payouts[q.document].batch)
  /\ q.pc \in Batching => PaidOf(q.batch) = {}
  /\ q.pc = "refresh.save" =>
       q.batch = payouts[q.document].batch /\ q.status = BatchStatus(q.batch)

BatchInv ==
  /\ \A n \in DOMAIN payouts : payouts[n].batch \in DOMAIN batches
  /\ \A r \in Requests : BatchReads(req[r])

\* The request moves on to q and leaves batches and payouts alone.
LEMMA BatchMoves ==
  ASSUME BatchInv, DOMAIN req = Requests, UNCHANGED <<batches, payouts>>,
         NEW r, Requests = {r}, NEW q, req' = [req EXCEPT ![r] = q], BatchReads(q)
  PROVE  BatchInv'
<1>1. req'[r] = q
  OBVIOUS
<1>2. \A b : Reads(b)' <=> Reads(b)
  BY DEF Reads, PayoutsOf, PaidOf
<1>3. \A b : PaidOf(b)' = PaidOf(b) /\ BatchStatus(b)' = BatchStatus(b)
  BY DEF PaidOf, PayoutsOf, BatchStatus
<1>4. BatchReads(req[r])'
  BY <1>1, <1>2, <1>3 DEF BatchReads
<1>5. QED
  BY <1>4 DEF BatchInv

\* It goes on to a step that says nothing of a batch.
LEMMA BatchGoes ==
  ASSUME BatchInv, UNCHANGED <<batches, payouts>>, NEW r, Requests = {r},
         req'[r].pc \notin Batching \cup {"refresh.save"}, req[r].pc \notin Refreshing
  PROVE  BatchInv'
<1>1. BatchReads(req[r])
  BY DEF BatchInv
<1>2. \A b : Reads(b)' <=> Reads(b)
  BY DEF Reads, PayoutsOf, PaidOf
<1>3. BatchReads(req[r])'
  BY <1>1, <1>2 DEF BatchReads
<1>4. QED
  BY <1>3 DEF BatchInv

\* A batch is filled.
LEMMA BatchKeepsReading ==
  ASSUME TypeInv, LedgerInv, BatchInv, NEW r, Requests = {r}, StartBatch(r) \/ Batch(r)
  PROVE  BatchInv'
<1>0. req[r] \in RequestStates /\ r \in Requests /\ req \in [Requests -> RequestStates]
        /\ DOMAIN req = Requests /\ BatchReads(req[r]) /\ Knows(req[r])
  BY DEF TypeInv, TypeOK, BatchInv, LedgerInv
<1>1. CASE StartBatch(r)
  <2>1. /\ req'[r].pc = "batch.create" /\ req[r].pc = "idle"
        /\ UNCHANGED <<batches, payouts>>
    <3>1. PICK list :
            /\ req' = [req EXCEPT ![r] = [IdleRequest EXCEPT !.pc = "batch.create", !.list = list]]
            /\ req[r].pc = "idle"
      BY <1>1, BatchBegins
    <3>2. req'[r].pc = "batch.create"
      BY <1>0, <3>1 DEF IdleRequest
    <3>3. QED
      BY <1>1, <3>1, <3>2 DEF StartBatch
  <2>2. QED
    BY <2>1, BatchGoes DEF Batching, Refreshing
<1>2. CASE BatchCreate(r)
  <2>1. /\ batches' = Append(batches, "PENDING_TRANSFER") /\ UNCHANGED payouts
        /\ req[r].pc = "batch.create"
        /\ req'[r].pc = "batch.reserve" /\ req'[r].batch = Len(batches) + 1
    BY <1>0, <1>2 DEF BatchCreate, At, RequestStates
  <2>2. /\ DOMAIN batches' = DOMAIN batches \cup {Len(batches) + 1}
        /\ Len(batches) + 1 \notin DOMAIN batches
        /\ \A b \in DOMAIN batches : batches'[b] = batches[b]
        /\ batches'[Len(batches) + 1] = "PENDING_TRANSFER"
    BY <2>1 DEF LedgerInv
  <2>3. \A b : PayoutsOf(b)' = PayoutsOf(b) /\ PaidOf(b)' = PaidOf(b)
    BY <2>1 DEF PayoutsOf, PaidOf
  <2>4. \A b \in DOMAIN batches : Reads(b)
    BY <1>0, <2>1 DEF BatchReads, Refreshing
  <2>5. PayoutsOf(Len(batches) + 1) = {} /\ PaidOf(Len(batches) + 1) = {}
    BY <2>2 DEF BatchInv, PayoutsOf, PaidOf
  <2>6. \A b \in DOMAIN batches' : Reads(b)'
    BY <2>2, <2>3, <2>4, <2>5 DEF Reads
  <2>7. BatchReads(req[r])'
    BY <2>1, <2>3, <2>5, <2>6 DEF BatchReads
  <2>8. \A n \in DOMAIN payouts' : payouts'[n].batch \in DOMAIN batches'
    BY <2>1, <2>2 DEF BatchInv
  <2>9. QED
    BY <2>7, <2>8 DEF BatchInv
<1>3. CASE BatchReserve(r)
  <2>1. PICK c \in req[r].list :
          Finish(r) \/ req' = [req EXCEPT ![r].pc = "batch.payout", ![r].agent = Owner[c]]
    BY <1>3 DEF BatchReserve
  <2> DEFINE q == [req[r] EXCEPT !.pc = "batch.payout", !.agent = Owner[c]]
  <2>2. /\ req' = [req EXCEPT ![r] = IdleRequest] \/ req' = [req EXCEPT ![r] = q]
        /\ req[r].pc = "batch.reserve" /\ UNCHANGED <<batches, payouts>>
    BY <1>0, <1>3, <2>1 DEF BatchReserve, Finish, At
  <2>3. q.pc = "batch.payout" /\ q.batch = req[r].batch
    BY <1>0 DEF RequestStates
  <2> HIDE DEF q
  <2>4. BatchReads(q)
    BY <1>0, <2>2, <2>3 DEF BatchReads, Batching, Refreshing
  <2>5. BatchReads(IdleRequest)
    BY <1>0, <2>2 DEF BatchReads, Batching, Refreshing, IdleRequest
  <2>6. QED
    BY <1>0, <2>2, <2>4, <2>5, BatchMoves
<1>4. CASE BatchPayout(r)
  <2> DEFINE payout == [batch |-> req[r].batch, agent |-> req[r].agent,
                        commissions |-> OwedTo(r, req[r].agent), paid |-> FALSE]
             k == req[r].batch
             n == Len(payouts) + 1
  <2>1. /\ payouts' = Append(payouts, payout) /\ UNCHANGED batches
        /\ req[r].pc = "batch.payout" /\ req'[r].pc = "batch.link" /\ req'[r].batch = k
    BY <1>0, <1>4 DEF BatchPayout, At, RequestStates
  <2>2. payout.batch = k /\ payout.paid = FALSE
    OBVIOUS
  <2> HIDE DEF payout
  <2>3. /\ DOMAIN payouts' = DOMAIN payouts \cup {n} /\ n \notin DOMAIN payouts
        /\ \A m \in DOMAIN payouts : payouts'[m] = payouts[m]
        /\ payouts'[n] = payout
    BY <2>1 DEF LedgerInv
  <2> HIDE DEF n
  <2>4. k \in DOMAIN batches /\ PaidOf(k) = {}
    BY <1>0, <2>1 DEF Knows, Batching, LedgerInv, BatchReads
  <2> HIDE DEF k
  <2>5. \A b : PaidOf(b)' = PaidOf(b)
    BY <2>2, <2>3 DEF PaidOf, PayoutsOf
  <2>6. /\ \A b : b # k => PayoutsOf(b)' = PayoutsOf(b)
        /\ \A b : b = k => n \in PayoutsOf(b)'
    <3>1. \A b, m : m \in PayoutsOf(b)' <=> m \in PayoutsOf(b) \/ (m = n /\ b = k)
      BY <2>2, <2>3 DEF PayoutsOf
    <3>2. ASSUME NEW b, b # k PROVE PayoutsOf(b)' = PayoutsOf(b)
      BY <3>1, <3>2
    <3>3. \A b : b = k => n \in PayoutsOf(b)'
      BY <3>1
    <3>4. QED
      BY <3>2, <3>3
  <2>7. \A b \in DOMAIN batches : Reads(b)
    BY <1>0, <2>1 DEF BatchReads, Refreshing
  <2>8. ASSUME NEW b \in DOMAIN batches PROVE Reads(b)'
    <3>1. CASE b = k
      <4>1. batches[b] # "PAID"
        BY <2>4, <2>7, <3>1 DEF Reads
      <4>2. QED
        BY <2>1, <2>4, <2>5, <2>6, <3>1, <4>1 DEF Reads
    <3>2. CASE b # k
      BY <2>1, <2>5, <2>6, <2>7, <3>2 DEF Reads
    <3>3. QED
      BY <3>1, <3>2
  <2>9. BatchReads(req[r])'
    BY <2>1, <2>4, <2>5, <2>8 DEF BatchReads
  <2>10. \A m \in DOMAIN payouts' : payouts'[m].batch \in DOMAIN batches'
    BY <2>1, <2>2, <2>3, <2>4 DEF BatchInv
  <2>11. QED
    BY <2>9, <2>10 DEF BatchInv
<1>5. CASE BatchWallet(r)
  <2> DEFINE q == [req[r] EXCEPT !.pc = "batch.reserve",
                                 !.list = @ \ OwedTo(r, req[r].agent)]
  <2>1. /\ req' = [req EXCEPT ![r] = IdleRequest] \/ req' = [req EXCEPT ![r] = q]
        /\ req[r].pc = "batch.wallet" /\ UNCHANGED <<batches, payouts>>
    BY <1>0, <1>5 DEF BatchWallet, Finish, At
  <2>2. q.pc = "batch.reserve" /\ q.batch = req[r].batch
    BY <1>0 DEF RequestStates
  <2> HIDE DEF q
  <2>3. BatchReads(q)
    BY <1>0, <2>1, <2>2 DEF BatchReads, Batching, Refreshing
  <2>4. BatchReads(IdleRequest)
    BY <1>0, <2>1 DEF BatchReads, Batching, Refreshing, IdleRequest
  <2>5. QED
    BY <1>0, <2>1, <2>3, <2>4, BatchMoves
<1>6. CASE BatchLink(r)
  <2> DEFINE q == [req[r] EXCEPT !.pc = "batch.wallet"]
  <2>1. /\ req' = [req EXCEPT ![r] = q] /\ req[r].pc = "batch.link"
        /\ UNCHANGED <<batches, payouts>>
    BY <1>0, <1>6 DEF BatchLink, Goto, At
  <2>2. q.pc = "batch.wallet" /\ q.batch = req[r].batch
    BY <1>0 DEF RequestStates
  <2> HIDE DEF q
  <2>3. BatchReads(q)
    BY <1>0, <2>1, <2>2 DEF BatchReads, Batching, Refreshing
  <2>4. QED
    BY <1>0, <2>1, <2>3, BatchMoves
<1>7. QED
  BY <1>1, <1>2, <1>3, <1>4, <1>5, <1>6 DEF Batch

\* A payout of it is confirmed.
LEMMA BatchConfirmed ==
  ASSUME TypeInv, LedgerInv, BatchInv, NEW r, Requests = {r},
         (\E n \in DOMAIN payouts : StartConfirm(r, n)) \/ Confirm(r)
  PROVE  BatchInv'
<1> DEFINE k == req[r].document
<1>0. req[r] \in RequestStates /\ r \in Requests /\ req \in [Requests -> RequestStates]
        /\ DOMAIN req = Requests /\ BatchReads(req[r]) /\ Knows(req[r])
  BY DEF TypeInv, TypeOK, BatchInv, LedgerInv
<1>01. /\ req[r].pc \in Confirming => k \in DOMAIN payouts
       /\ \A n \in DOMAIN payouts : payouts[n] \in Payouts
  BY <1>0 DEF Knows, LedgerInv
<1>1. ASSUME NEW n \in DOMAIN payouts, StartConfirm(r, n) PROVE BatchInv'
  <2>1. /\ req'[r].pc = "confirm.save" /\ req[r].pc = "idle"
        /\ UNCHANGED <<batches, payouts>>
    BY <1>0, <1>1 DEF StartConfirm, Begin, IdleRequest
  <2>2. QED
    BY <2>1, BatchGoes DEF Batching, Refreshing
<1>2. CASE ConfirmSave(r)
  <2>1. /\ req'[r].pc = "confirm.commissions" /\ req'[r].document = k
        /\ req[r].pc = "confirm.save" /\ UNCHANGED batches
    BY <1>0, <1>2 DEF ConfirmSave, Goto, At, RequestStates
  <2>2. k \in DOMAIN payouts
    BY <1>01, <2>1 DEF Confirming
  <2>3. payouts' = [payouts EXCEPT ![k] = [payouts[k] EXCEPT !.paid = TRUE]]
    BY <1>2, <2>2 DEF ConfirmSave
  <2>4. payouts' \in [DOMAIN payouts -> Payouts]
          /\ (\A n \in DOMAIN payouts : payouts'[n].batch = payouts[n].batch)
          /\ (\A n \in DOMAIN payouts : n # k => payouts'[n] = payouts[n])
    <3>1. [payouts[k] EXCEPT !.paid = TRUE] \in Payouts
            /\ [payouts[k] EXCEPT !.paid = TRUE].batch = payouts[k].batch
      BY <1>01, <2>2 DEF Payouts
    <3>2. QED
      BY <1>01, <2>2, <2>3, <3>1
  <2>5. DOMAIN payouts' = DOMAIN payouts
    BY <2>4
  <2>6. \A b \in DOMAIN batches : Reads(b)
    BY <1>0, <2>1 DEF BatchReads, Refreshing
  <2>7. ASSUME NEW b \in DOMAIN batches, b # payouts[k].batch PROVE Reads(b)'
    <3>1. PayoutsOf(b)' = PayoutsOf(b)
      BY <2>4, <2>5 DEF PayoutsOf
    <3>2. k \notin PayoutsOf(b)
      BY <2>7 DEF PayoutsOf
    <3>3. PayoutsOf(b) \subseteq DOMAIN payouts
      BY DEF PayoutsOf
    <3>4. PaidOf(b)' = PaidOf(b)
      BY <2>4, <3>1, <3>2, <3>3 DEF PaidOf
    <3>5. QED
      BY <2>1, <2>6, <3>1, <3>4 DEF Reads
  <2>8. BatchReads(req[r])'
    BY <2>1, <2>2, <2>4, <2>7 DEF BatchReads, Batching, Refreshing
  <2>9. \A n \in DOMAIN payouts' : payouts'[n].batch \in DOMAIN batches'
    BY <2>1, <2>4, <2>5 DEF BatchInv
  <2>10. QED
    BY <2>8, <2>9 DEF BatchInv
<1>3. CASE ConfirmCommissions(r)
  <2> DEFINE q == [req[r] EXCEPT !.pc = "refresh.read"]
  <2>1. /\ req' = [req EXCEPT ![r] = q] /\ req[r].pc = "confirm.commissions"
        /\ UNCHANGED <<batches, payouts>>
    BY <1>0, <1>3 DEF ConfirmCommissions, Goto, At
  <2>2. q.pc = "refresh.read" /\ q.document = k
    BY <1>0 DEF RequestStates
  <2> HIDE DEF q
  <2>3. BatchReads(q)
    BY <1>0, <2>1, <2>2 DEF BatchReads, Batching, Refreshing
  <2>4. QED
    BY <1>0, <2>1, <2>3, BatchMoves
<1>4. CASE RefreshRead(r)
  <2> DEFINE batch == payouts[k].batch
             status == BatchStatus(batch)
             q == [req[r] EXCEPT !.pc = "refresh.save", !.batch = batch, !.status = status]
  <2>1. /\ req' = [req EXCEPT ![r] = q] /\ req[r].pc = "refresh.read"
        /\ UNCHANGED <<batches, payouts>>
    BY <1>0, <1>4 DEF RefreshRead, At
  <2>2. q.pc = "refresh.save" /\ q.document = k /\ q.batch = batch /\ q.status = status
    BY <1>0 DEF RequestStates
  <2> HIDE DEF q
  <2>3. BatchReads(q)
    BY <1>0, <2>1, <2>2 DEF BatchReads, Batching, Refreshing
  <2>4. QED
    BY <1>0, <2>1, <2>3, BatchMoves
<1>5. CASE RefreshSave(r)
  <2> DEFINE batch == req[r].batch
  <2>1. /\ req'[r].pc = "idle" /\ req[r].pc = "refresh.save" /\ UNCHANGED payouts
        /\ batches' = [batches EXCEPT ![batch] = req[r].status]
    BY <1>0, <1>5 DEF RefreshSave, Finish, At, IdleRequest
  <2>2. k \in DOMAIN payouts /\ batch = payouts[k].batch /\ req[r].status = BatchStatus(batch)
    BY <1>0, <1>01, <2>1 DEF BatchReads, Confirming
  <2>3. batch \in DOMAIN batches /\ k \in PayoutsOf(batch)
    BY <2>2 DEF BatchInv, PayoutsOf
  <2>4. \A b : PayoutsOf(b)' = PayoutsOf(b) /\ PaidOf(b)' = PaidOf(b)
    BY <2>1 DEF PayoutsOf, PaidOf
  <2> HIDE DEF batch
  <2>5. DOMAIN batches' = DOMAIN batches
    BY <2>1
  <2>6. ASSUME NEW b \in DOMAIN batches PROVE Reads(b)'
    <3>1. CASE b = batch
      <4>1. batches'[b] = BatchStatus(b)
        BY <2>1, <2>2, <2>3, <3>1
      <4>2. BatchStatus(b) = "PAID" <=> PaidOf(b) = PayoutsOf(b)
        BY DEF BatchStatus
      <4>3. QED
        BY <2>3, <2>4, <3>1, <4>1, <4>2 DEF Reads
    <3>2. CASE b # batch
      <4>1. batches'[b] = batches[b] /\ Reads(b)
        BY <1>0, <2>1, <2>2, <3>2 DEF BatchReads
      <4>2. QED
        BY <2>4, <4>1 DEF Reads
    <3>3. QED
      BY <3>1, <3>2
  <2>7. BatchReads(req[r])'
    BY <2>1, <2>5, <2>6 DEF BatchReads, Batching
  <2>8. QED
    BY <2>1, <2>5, <2>7 DEF BatchInv
<1>6. QED
  BY <1>1, <1>2, <1>3, <1>4, <1>5 DEF Confirm

\* The other handlers say nothing of a batch.
LEMMA BatchUntouched ==
  ASSUME TypeInv, BatchInv, NEW r, Requests = {r},
         \/ StartRelease(r) \/ Release(r)
         \/ \E c \in Commissions : StartReverse(r, c)
         \/ Reverse(r)
         \/ \E a \in Agents, amount \in Amounts : StartWithdrawal(r, a, amount)
         \/ \E n \in DOMAIN withdrawals : StartComplete(r, n)
         \/ Withdrawing(r)
  PROVE  BatchInv'
<1>0. r \in Requests /\ req \in [Requests -> RequestStates] /\ req[r] \in RequestStates
  BY DEF TypeInv, TypeOK
<1>1. ASSUME NEW pc, Goto(r, pc) PROVE req'[r].pc = pc
  BY <1>0, <1>1 DEF Goto, RequestStates
<1>2. ASSUME Finish(r) PROVE req'[r].pc = "idle"
  BY <1>0, <1>2 DEF Finish, IdleRequest
<1>3. ASSUME NEW list, req' = [req EXCEPT ![r] = ToNext(r, list)]
      PROVE  req'[r].pc \in {"idle", "release.claim"}
  BY <1>0, <1>3 DEF ToNext, IdleRequest, RequestStates
<1>4. CASE StartRelease(r) \/ Release(r)
  <2>1. req'[r].pc \in {"idle", "release.claim", "release.wallet"}
    <3>1. CASE StartRelease(r)
      BY <1>0, <3>1 DEF StartRelease, Begin, IdleRequest
    <3>2. CASE ReleaseClaim(r)
      BY <1>0, <1>3, <3>2 DEF ReleaseClaim, RequestStates
    <3>3. CASE ReleaseWallet(r)
      BY <1>3, <3>3 DEF ReleaseWallet
    <3>4. QED
      BY <1>4, <3>1, <3>2, <3>3 DEF Release
  <2>2. req[r].pc \notin Refreshing /\ UNCHANGED <<batches, payouts>>
    BY <1>4 DEF StartRelease, Begin, Release, ReleaseClaim, ReleaseWallet, At, Refreshing
  <2>3. QED
    BY <2>1, <2>2, BatchGoes DEF Batching
<1>5. CASE (\E c \in Commissions : StartReverse(r, c)) \/ Reverse(r)
  <2>1. req'[r].pc \in {"idle", "reverse.wallet", "reverse.save"}
    <3>1. ASSUME NEW c \in Commissions, StartReverse(r, c) PROVE req'[r].pc = "reverse.wallet"
      BY <1>0, <3>1 DEF StartReverse, Begin, IdleRequest
    <3>2. CASE Reverse(r)
      BY <1>1, <1>2, <3>2 DEF Reverse, ReverseWallet, ReverseSave
    <3>3. QED
      BY <1>5, <3>1, <3>2
  <2>2. req[r].pc \notin Refreshing /\ UNCHANGED <<batches, payouts>>
    BY <1>5 DEF StartReverse, Begin, Reverse, ReverseWallet, ReverseSave, At, Refreshing
  <2>3. QED
    BY <2>1, <2>2, BatchGoes DEF Batching
<1>6. CASE \/ \E a \in Agents, amount \in Amounts : StartWithdrawal(r, a, amount)
           \/ \E n \in DOMAIN withdrawals : StartComplete(r, n)
  <2>1. /\ req'[r].pc \in {"withdraw.check", "complete.check"} /\ req[r].pc = "idle"
        /\ UNCHANGED <<batches, payouts>>
    BY <1>0, <1>6 DEF StartWithdrawal, StartComplete, Begin, IdleRequest
  <2>2. QED
    BY <2>1, BatchGoes DEF Batching, Refreshing
<1>7. CASE Withdrawing(r)
  <2>1. req'[r].pc \in {"idle", "withdraw.save", "withdraw.create", "complete.wallet", "complete.save"}
    BY <1>0, <1>1, <1>2, <1>7 DEF Withdrawing, WithdrawCheck, WithdrawSave, WithdrawCreate,
                                  CompleteCheck, CompleteWallet, CompleteSave, RequestStates
  <2>2. req[r].pc \notin Refreshing /\ UNCHANGED <<batches, payouts>>
    BY <1>7 DEF Withdrawing, WithdrawCheck, WithdrawSave, WithdrawCreate,
                CompleteCheck, CompleteWallet, CompleteSave, At, Refreshing
  <2>3. QED
    BY <2>1, <2>2, BatchGoes DEF Batching
<1>8. QED
  BY <1>4, <1>5, <1>6, <1>7

\* There is no batch at the beginning.
LEMMA InitBatches == Init => BatchInv
BY DEF Init, IdleRequest, BatchInv, BatchReads, Batching

\* Every step of the only request keeps it.
LEMMA NextBatches ==
  ASSUME OneAndNoneDies, TypeInv, LedgerInv, BatchInv, [Next]_vars
  PROVE  BatchInv'
<1>1. PICK r : Requests = {r}
  BY DEF OneAndNoneDies
<1>2. ASSUME UNCHANGED <<batches, payouts, req>> PROVE BatchInv'
  BY <1>2 DEF BatchInv, BatchReads, Reads, PayoutsOf, PaidOf, BatchStatus
<1>3. CASE UNCHANGED vars
  BY <1>2, <1>3 DEF vars
<1>4. ASSUME NEW c \in Commissions, Matures(c) \/ Block(c) \/ Resume(c)
      PROVE  BatchInv'
  BY <1>2, <1>4 DEF Matures, Block, Resume
<1>5. CASE Requested(r) \/ Step(r)
  BY <1>1, <1>5, BatchUntouched, BatchKeepsReading, BatchConfirmed DEF Requested, Step
<1>6. ~Abandon(r)
  BY DEF OneAndNoneDies, Abandon, TypeInv, TypeOK
<1>7. QED
  BY <1>1, <1>3, <1>4, <1>5, <1>6 DEF Next

\* When requests run one at a time and none dies, refreshBatchStatus leaves a batch PAID when
\* each of its payouts is and there is one, and otherwise not.
THEOREM BatchesReadRight ==
  ASSUME OneAndNoneDies
  PROVE  Spec => []BatchesTellTheirPayouts
<1>1. Init => BatchInv
  BY InitBatches
<1>2. LedgerInv /\ TypeInv /\ BatchInv /\ [Next]_vars => BatchInv'
  BY NextBatches
<1>3. BatchInv => BatchesTellTheirPayouts
  <2> SUFFICES ASSUME BatchInv, Quiet, NEW b \in DOMAIN batches PROVE Reads(b)
    BY DEF BatchesTellTheirPayouts, Reads
  <2>1. PICK r \in Requests : req[r].pc = "idle"
    BY DEF OneAndNoneDies, Quiet
  <2>2. QED
    BY <2>1 DEF BatchInv, BatchReads, Refreshing
<1>4. QED
  BY <1>1, <1>2, <1>3, LedgerCorrect, TypesCorrect, PTL DEF Spec

----------------------------------------------------------------------------
(* Reconciliation.                                                         *)

\* What payouts have transferred is what their commissions are worth.
LEMMA PayoutsWorth ==
  ASSUME payouts \in Seq(Payouts), OnePayoutEach, NEW N \in SUBSET DOMAIN payouts
  PROVE  SumFunctionOnSet([n \in DOMAIN payouts |-> Worth(payouts[n].commissions)], N)
           = Worth(UNION {payouts[n].commissions : n \in N})
<1> DEFINE f == [n \in DOMAIN payouts |-> Worth(payouts[n].commissions)]
           All(S) == UNION {payouts[n].commissions : n \in S}
           Bad == {S \in SUBSET N : SumFunctionOnSet(f, S) # Worth(All(S))}
<1>1. SUFFICES ASSUME Bad # {} PROVE FALSE
  OBVIOUS
<1>2. \A n \in DOMAIN payouts : payouts[n].commissions \subseteq Commissions
  <2>1. \A n \in DOMAIN payouts : payouts[n] \in Payouts
    OBVIOUS
  <2>2. QED
    BY <2>1 DEF Payouts
<1>3. \A n \in DOMAIN payouts : f[n] \in Int
  BY <1>2, WorthType
<1>4. \A S \in SUBSET N : IsFiniteSet(S)
  <2>1. DOMAIN payouts = 1..Len(payouts) /\ Len(payouts) \in Nat
    OBVIOUS
  <2>2. IsFiniteSet(1..Len(payouts))
    BY <2>1, FS_Interval
  <2>3. QED
    BY <2>1, <2>2, FS_Subset
<1>5. PICK S \in Bad : \A n \in S : S \ {n} \notin Bad
  <2>1. \A S \in Bad : IsFiniteSet(S)
    BY <1>4
  <2> HIDE DEF Bad
  <2>2. QED
    BY <1>1, <2>1, SmallestSet
<1>6. S # {}
  <2>1. All({}) = {}
    OBVIOUS
  <2>2. Worth(All({})) = SumFunctionOnSet(Share, {})
    BY <2>1, WorthIsSum
  <2>3. SumFunctionOnSet(f, {}) = Worth(All({}))
    BY <2>2, SumEmpty
  <2>4. QED
    BY <2>3
<1>7. PICK n \in S : TRUE
  BY <1>6
<1> DEFINE T == S \ {n}
<1>8. SumFunctionOnSet(f, T) = Worth(All(T))
  BY <1>5
<1>9. SumFunctionOnSet(f, S) = f[n] + SumFunctionOnSet(f, T)
  BY <1>3, <1>4, SumRemove
<1>10. Worth(All(S)) = f[n] + Worth(All(T))
  <2> DEFINE C == payouts[n].commissions
             D == All(T)
  <2>1. All(S) = C \cup D
    OBVIOUS
  <2>2. C \in SUBSET Commissions /\ D \in SUBSET Commissions
    BY <1>2
  <2>3. C \cap D = {}
    BY DEF OnePayoutEach
  <2>4. f[n] = Worth(C)
    OBVIOUS
  <2> HIDE DEF C, D, f
  <2>5. Worth(C \cup D) = Worth(C) + Worth(D)
    BY <2>2, <2>3, WorthUnion
  <2>6. QED
    BY <2>1, <2>4, <2>5 DEF D
<1>11. SumFunctionOnSet(f, S) # Worth(All(S))
  BY <1>5
<1>12. QED
  BY <1>8, <1>9, <1>10, <1>11

NoneHasDied == failures = 0

\* No request dies.
LEMMA NoneDies ==
  ASSUME OneAndNoneDies
  PROVE  Spec => []NoneHasDied
<1>1. Init => NoneHasDied
  BY DEF Init, NoneHasDied
<1>2. NoneHasDied /\ [Next]_vars => NoneHasDied'
  <2> SUFFICES ASSUME NoneHasDied, [Next]_vars PROVE UNCHANGED failures
    BY DEF NoneHasDied
  <2>1. \A r \in Requests : ~Abandon(r)
    BY DEF OneAndNoneDies, NoneHasDied, Abandon
  <2>2. ASSUME NEW c \in Commissions, Matures(c) \/ Block(c) \/ Resume(c) PROVE UNCHANGED failures
    BY <2>2 DEF Matures, Block, Resume
  <2>3. ASSUME NEW r \in Requests, Requested(r) PROVE UNCHANGED failures
    BY <2>3 DEF Requested, StartRelease, StartReverse, StartBatch, StartConfirm, StartWithdrawal,
                StartComplete
  <2>4. ASSUME NEW r \in Requests, Step(r) PROVE UNCHANGED failures
    BY <2>4 DEF Step, Release, ReleaseClaim, ReleaseWallet, Reverse, ReverseWallet, ReverseSave,
                Batch, BatchCreate, BatchReserve, BatchPayout, BatchLink, BatchWallet,
                Confirm, ConfirmSave, ConfirmCommissions, RefreshRead, RefreshSave,
                Withdrawing, WithdrawCheck, WithdrawSave, WithdrawCreate, CompleteCheck,
                CompleteWallet, CompleteSave
  <2>5. QED
    BY <2>1, <2>2, <2>3, <2>4 DEF Next, vars
<1>3. QED
  BY <1>1, <1>2, PTL DEF Spec

\* When requests run one at a time and none dies, reconcileAgent finds nothing reserved without
\* a payout, and the paid commissions are worth what has been transferred, unless a dispute has
\* taken back some that was in a payout; none may be disputed once it is available, because a
\* batch may be reserving it.
THEOREM LedgerReconciled ==
  ASSUME OneAndNoneDies, PromptDispute
  PROVE  Spec => []Reconciled
<1>1. LedgerInv /\ TypeInv /\ FlowInv /\ LinkInv /\ NoneHasDied => Reconciled
  <2> SUFFICES ASSUME LedgerInv, FlowInv, LinkInv, NoneHasDied, Quiet PROVE
        /\ \A c \in WithStatus("RESERVED") : c \in InPayouts /\ com[c].payout # 0
        /\ reversed \cap InPayouts = {} =>
             \A a \in Agents :
               Worth(OfAgent(a, WithStatus("PAID"))) =
                 SumFunctionOnSet([n \in DOMAIN payouts |-> Worth(payouts[n].commissions)],
                   {n \in DOMAIN payouts : payouts[n].paid /\ payouts[n].agent = a})
    BY DEF Reconciled
  <2>1. PICK r \in Requests : req[r].pc = "idle"
    BY DEF OneAndNoneDies, Quiet
  <2>2. \A c \in WithStatus("RESERVED") : c \in InPayouts /\ com[c].payout # 0
    <3>1. WithStatus("RESERVED") \subseteq InPayouts
      BY <2>1 DEF FlowInv, ReservedInPayouts
    <3>2. \A c : ~Linking(c)
      BY DEF Quiet, Linking, At
    <3>3. QED
      BY <3>1, <3>2 DEF LinkInv, NoneHasDied
  <2>3. ASSUME reversed \cap InPayouts = {}, NEW a \in Agents
        PROVE  Worth(OfAgent(a, WithStatus("PAID"))) =
                 SumFunctionOnSet([n \in DOMAIN payouts |-> Worth(payouts[n].commissions)],
                   {n \in DOMAIN payouts : payouts[n].paid /\ payouts[n].agent = a})
    <3> DEFINE N == {n \in DOMAIN payouts : payouts[n].paid /\ payouts[n].agent = a}
               C == UNION {payouts[n].commissions : n \in N}
    <3>1. ASSUME NEW c \in OfAgent(a, WithStatus("PAID")) PROVE c \in C
      <4>1. c \in WithStatus("PAID") /\ Owner[c] = a
        BY DEF OfAgent
      <4>2. PICK n \in DOMAIN payouts : payouts[n].paid /\ c \in payouts[n].commissions
        BY <4>1 DEF LedgerInv, PaidByPayout
      <4>3. payouts[n].agent = a
        BY <4>1, <4>2 DEF LedgerInv, PayoutsAreReserved
      <4>4. QED
        BY <4>2, <4>3
    <3>2. ASSUME NEW c \in C PROVE c \in OfAgent(a, WithStatus("PAID"))
      <4>1. PICK n \in N : c \in payouts[n].commissions
        OBVIOUS
      <4>2. c \in InPayouts
        BY <4>1 DEF InPayouts
      <4>3. c \in WithStatus("PAID")
        BY <2>1, <2>3, <4>1, <4>2 DEF FlowInv, PaidWithPayout
      <4>4. Owner[c] = a
        BY <4>1 DEF LedgerInv, PayoutsAreReserved
      <4>5. QED
        BY <4>3, <4>4 DEF OfAgent
    <3>3. OfAgent(a, WithStatus("PAID")) = C
      BY <3>1, <3>2
    <3>4. QED
      BY <3>3, PayoutsWorth DEF LedgerInv
  <2>4. QED
    BY <2>2, <2>3
<1>2. QED
  BY <1>1, FlowCorrect, LinksCorrect, NoneDies, PTL

----------------------------------------------------------------------------
(* The balances.                                                           *)

\* What the wallets count as available, and as pending: the request that moves a commission has
\* changed its status and not yet the wallet, or the other way round.
CountedAvailable(q) ==
  (WithStatus("AVAILABLE")
    \ (IF q.pc \in {"release.wallet", "reverse.save"} THEN {q.commission} ELSE {}))
      \cup (IF q.pc \in Paying THEN OwedBy(q) ELSE {})

CountedPending(q) ==
  ((WithStatus("PENDING") \cup WithStatus("BLOCKED"))
    \ (IF q.pc = "reverse.save" THEN {q.commission} ELSE {}))
      \cup (IF q.pc = "release.wallet" THEN {q.commission} ELSE {})

\* What has been taken out of a wallet after it had been paid out.
TakenBack(q) ==
  InPayouts \cap (reversed \cup (IF q.pc = "reverse.save" THEN {q.commission} ELSE {}))

\* What q has moved for a withdrawal that is not there yet, or has sent for one that does not
\* say so yet.
Asking(q, a) == IF q.pc = "withdraw.create" /\ q.agent = a THEN q.amount ELSE 0

Sending(q, a) == IF q.pc = "complete.save" /\ q.agent = a THEN q.amount ELSE 0

\* The copy of a wallet that q works on is still what the wallet says, and what q is about to
\* move for a withdrawal has been sold.
CopyIsCurrent(q) ==
  /\ q.pc \in {"withdraw.check", "withdraw.save", "complete.wallet"} => q.copy = wallet[q.agent]
  /\ q.pc = "withdraw.save" => Asked(q.agent, BOOLEAN) + q.amount <= Sales
  /\ q.pc \in {"complete.check", "complete.wallet", "complete.save"} =>
       /\ q.document \in DOMAIN withdrawals
       /\ withdrawals[q.document] = [agent |-> q.agent, amount |-> q.amount, completed |-> FALSE]

AvailableCount(q, a) ==
  Sales - Asked(a, BOOLEAN) - Asking(q, a)
    + Worth(OfAgent(a, CountedAvailable(q))) - Worth(OfAgent(a, TakenBack(q)))

PendingCount(q, a) ==
  Worth(OfAgent(a, CountedPending(q))) + Asked(a, {FALSE}) + Asking(q, a) - Sending(q, a)

\* An operation that goes on after the 14 days leaves the wallet with less than is available.
Balanced(q) ==
  \A a \in Agents :
    /\ wallet[a].available <= AvailableCount(q, a)
    /\ PromptResume => /\ wallet[a].available = AvailableCount(q, a)
                       /\ wallet[a].pending = PendingCount(q, a)

SalesCover(q) == \A a \in Agents : Asked(a, BOOLEAN) + Asking(q, a) <= Sales

MoneyInv ==
  \A r \in Requests : CopyIsCurrent(req[r]) /\ Balanced(req[r]) /\ SalesCover(req[r])

\* What c is worth to agent a.
ShareOf(a, c) == IF Owner[c] = a THEN Share[c] ELSE 0

\* A commission that is counted from now on.
LEMMA WorthGain ==
  ASSUME NEW C \in SUBSET Commissions, NEW c \in Commissions \ C, NEW a
  PROVE  Worth(OfAgent(a, C \cup {c})) = Worth(OfAgent(a, C)) + ShareOf(a, c)
<1>1. OfAgent(a, C) \in SUBSET Commissions /\ c \in Commissions \ OfAgent(a, C)
  BY DEF OfAgent
<1>2. Worth(OfAgent(a, C)) \in Nat
  BY <1>1, WorthType
<1>3. CASE Owner[c] = a
  <2>1. OfAgent(a, C \cup {c}) = OfAgent(a, C) \cup {c}
    BY <1>3 DEF OfAgent
  <2>2. QED
    BY <1>1, <1>3, <2>1, WorthAdd DEF ShareOf
<1>4. CASE Owner[c] # a
  <2>1. OfAgent(a, C \cup {c}) = OfAgent(a, C)
    BY <1>4 DEF OfAgent
  <2>2. QED
    BY <1>2, <1>4, <2>1 DEF ShareOf
<1>5. QED
  BY <1>3, <1>4

\* A commission that is not counted any more.
LEMMA WorthLoss ==
  ASSUME NEW C \in SUBSET Commissions, NEW c \in C, NEW a
  PROVE  Worth(OfAgent(a, C)) = Worth(OfAgent(a, C \ {c})) + ShareOf(a, c)
<1>1. C \ {c} \in SUBSET Commissions /\ c \in Commissions \ (C \ {c}) /\ (C \ {c}) \cup {c} = C
  OBVIOUS
<1>2. Worth(OfAgent(a, (C \ {c}) \cup {c})) = Worth(OfAgent(a, C \ {c})) + ShareOf(a, c)
  BY <1>1, WorthGain
<1>3. QED
  BY <1>1, <1>2

\* Types of what is counted.
LEMMA CountedType ==
  ASSUME NEW C \in SUBSET Commissions, NEW a
  PROVE  OfAgent(a, C) \in SUBSET Commissions /\ Worth(OfAgent(a, C)) \in Nat
<1>1. OfAgent(a, C) \in SUBSET Commissions
  BY DEF OfAgent
<1>2. QED
  BY <1>1, WorthType

\* A share is a number.
LEMMA ShareOfType ==
  ASSUME NEW c \in Commissions, NEW a
  PROVE  ShareOf(a, c) \in Nat
BY ShareAssumption DEF ShareOf

\* What $inc does to each wallet when it moves the share of a commission.
LEMMA ShareMoves ==
  ASSUME wallet \in [Agents -> Balances], NEW c \in Commissions, NEW i \in {-1, 0, 1},
         NEW j \in {-1, 0, 1}, Increment(Owner[c], i * Share[c], j * Share[c]), NEW a \in Agents
  PROVE  /\ wallet'[a].available = wallet[a].available + i * ShareOf(a, c)
         /\ wallet'[a].pending = wallet[a].pending + j * ShareOf(a, c)
<1>1. Owner[c] \in Agents /\ Share[c] \in Int /\ i * Share[c] \in Int /\ j * Share[c] \in Int
  BY OwnerAssumption, ShareAssumption
<1>2. wallet[a].available \in Int /\ wallet[a].pending \in Int
  BY DEF Balances
<1>3. QED
  BY <1>1, <1>2, IncrementIs DEF ShareOf

\* What the withdrawals ask for is a number.
LEMMA AskedType ==
  ASSUME withdrawals \in Seq(Withdrawals), NEW a, NEW completed
  PROVE  Asked(a, completed) \in Nat
<1> DEFINE f == [n \in DOMAIN withdrawals |-> withdrawals[n].amount]
           N == {n \in DOMAIN withdrawals :
                   withdrawals[n].agent = a /\ withdrawals[n].completed \in completed}
<1>1. \A n \in DOMAIN withdrawals : withdrawals[n] \in Withdrawals
  OBVIOUS
<1>2. \A n \in N : f[n] \in Nat
  BY <1>1 DEF Withdrawals
<1>3. IsFiniteSet(N)
  <2>1. DOMAIN withdrawals = 1..Len(withdrawals) /\ Len(withdrawals) \in Nat
    OBVIOUS
  <2>2. IsFiniteSet(1..Len(withdrawals)) /\ N \in SUBSET (1..Len(withdrawals))
    BY <2>1, FS_Interval
  <2>3. QED
    BY <2>2, FS_Subset
<1> HIDE DEF f, N
<1>4. SumFunctionOnSet(f, N) \in Nat
  BY <1>2, <1>3, SumNat
<1>5. QED
  BY <1>4 DEF Asked, f, N

\* A withdrawal that is asked for.
LEMMA AskedAppend ==
  ASSUME withdrawals \in Seq(Withdrawals), NEW w \in Withdrawals, ~w.completed,
         withdrawals' = Append(withdrawals, w), NEW a, NEW completed, FALSE \in completed
  PROVE  Asked(a, completed)' = Asked(a, completed) + (IF w.agent = a THEN w.amount ELSE 0)
<1> DEFINE f == [n \in DOMAIN withdrawals |-> withdrawals[n].amount]
           g == [n \in DOMAIN withdrawals' |-> withdrawals'[n].amount]
           N == {n \in DOMAIN withdrawals :
                   withdrawals[n].agent = a /\ withdrawals[n].completed \in completed}
           M == {n \in DOMAIN withdrawals' :
                   withdrawals'[n].agent = a /\ withdrawals'[n].completed \in completed}
           k == Len(withdrawals) + 1
<1>1. /\ DOMAIN withdrawals' = DOMAIN withdrawals \cup {k} /\ k \notin DOMAIN withdrawals
      /\ \A n \in DOMAIN withdrawals : withdrawals'[n] = withdrawals[n]
      /\ withdrawals'[k] = w
  OBVIOUS
<1>2. DOMAIN withdrawals = 1..Len(withdrawals) /\ Len(withdrawals) \in Nat
  OBVIOUS
<1>3. IsFiniteSet(N)
  <2>1. IsFiniteSet(1..Len(withdrawals)) /\ N \in SUBSET (1..Len(withdrawals))
    BY <1>2, FS_Interval
  <2>2. QED
    BY <2>1, FS_Subset
<1>4. \A n \in DOMAIN withdrawals : withdrawals[n] \in Withdrawals
  OBVIOUS
<1>5. \A n \in N : f[n] \in Int /\ g[n] = f[n]
  BY <1>1, <1>4 DEF Withdrawals
<1>6. w.completed = FALSE /\ w.amount \in Nat /\ g[k] = w.amount
  BY <1>1 DEF Withdrawals
<1>7. Asked(a, completed) = SumFunctionOnSet(f, N) /\ Asked(a, completed)' = SumFunctionOnSet(g, M)
  BY DEF Asked
<1>8. k \notin N
  BY <1>1
<1>9. CASE w.agent = a
  <2>1. \A n : n \in M <=> n \in N \cup {k}
    BY <1>1, <1>6, <1>9
  <2>2. M = N \cup {k}
    BY <2>1
  <2> HIDE DEF f, g, N, M, k
  <2>3. SumFunctionOnSet(g, N \cup {k}) = SumFunctionOnSet(g, N) + g[k]
    BY <1>3, <1>5, <1>6, <1>8, SumAdd
  <2>4. SumFunctionOnSet(g, N) = SumFunctionOnSet(f, N)
    BY <1>3, <1>5, SumSame
  <2>5. QED
    BY <1>6, <1>7, <1>9, <2>2, <2>3, <2>4
<1>10. CASE w.agent # a
  <2>1. \A n : n \in M <=> n \in N
    BY <1>1, <1>10
  <2>2. M = N
    BY <2>1
  <2>3. Asked(a, completed) \in Nat
    BY AskedType
  <2> HIDE DEF f, g, N, M, k
  <2>4. SumFunctionOnSet(g, N) = SumFunctionOnSet(f, N)
    BY <1>3, <1>5, SumSame
  <2>5. QED
    BY <1>7, <1>10, <2>2, <2>3, <2>4
<1>11. QED
  BY <1>9, <1>10

\* One that is completed.
LEMMA AskedComplete ==
  ASSUME withdrawals \in Seq(Withdrawals), NEW k \in DOMAIN withdrawals,
         ~withdrawals[k].completed,
         withdrawals' = [withdrawals EXCEPT ![k].completed = TRUE], NEW a
  PROVE  /\ Asked(a, BOOLEAN)' = Asked(a, BOOLEAN)
         /\ Asked(a, {FALSE}) = Asked(a, {FALSE})'
              + (IF withdrawals[k].agent = a THEN withdrawals[k].amount ELSE 0)
<1> DEFINE f == [n \in DOMAIN withdrawals |-> withdrawals[n].amount]
           g == [n \in DOMAIN withdrawals' |-> withdrawals'[n].amount]
           All == {n \in DOMAIN withdrawals :
                     withdrawals[n].agent = a /\ withdrawals[n].completed \in BOOLEAN}
           N == {n \in DOMAIN withdrawals :
                   withdrawals[n].agent = a /\ withdrawals[n].completed \in {FALSE}}
           M == {n \in DOMAIN withdrawals' :
                   withdrawals'[n].agent = a /\ withdrawals'[n].completed \in {FALSE}}
<1>1. \A n \in DOMAIN withdrawals : withdrawals[n] \in Withdrawals
  OBVIOUS
<1>2. /\ DOMAIN withdrawals' = DOMAIN withdrawals
      /\ \A n \in DOMAIN withdrawals : n # k => withdrawals'[n] = withdrawals[n]
      /\ withdrawals'[k] = [withdrawals[k] EXCEPT !.completed = TRUE]
  OBVIOUS
<1>3. /\ withdrawals'[k].agent = withdrawals[k].agent
      /\ withdrawals'[k].amount = withdrawals[k].amount /\ withdrawals'[k].completed = TRUE
      /\ withdrawals[k].completed = FALSE /\ withdrawals[k].amount \in Nat
  BY <1>1, <1>2 DEF Withdrawals
<1>4. f = g
  BY <1>2, <1>3
<1>5. IsFiniteSet(N) /\ IsFiniteSet(M)
  <2>1. DOMAIN withdrawals = 1..Len(withdrawals) /\ Len(withdrawals) \in Nat
    OBVIOUS
  <2>2. IsFiniteSet(DOMAIN withdrawals)
    BY <2>1, FS_Interval
  <2>3. N \in SUBSET DOMAIN withdrawals /\ M \in SUBSET DOMAIN withdrawals
    BY <1>2
  <2>4. QED
    BY <2>2, <2>3, FS_Subset
<1>6. \A n \in N : f[n] \in Int
  BY <1>1 DEF Withdrawals
<1>7. Asked(a, {FALSE}) = SumFunctionOnSet(f, N) /\ Asked(a, {FALSE})' = SumFunctionOnSet(g, M)
  BY DEF Asked
<1>8. Asked(a, BOOLEAN)' = Asked(a, BOOLEAN)
  <2> DEFINE O == {n \in DOMAIN withdrawals' :
                     withdrawals'[n].agent = a /\ withdrawals'[n].completed \in BOOLEAN}
  <2>1. \A n \in DOMAIN withdrawals : withdrawals[n].completed \in BOOLEAN
    BY <1>1 DEF Withdrawals
  <2>2. \A n \in DOMAIN withdrawals :
          withdrawals'[n].completed \in BOOLEAN /\ withdrawals'[n].agent = withdrawals[n].agent
    <3>1. ASSUME NEW n \in DOMAIN withdrawals
          PROVE  withdrawals'[n].completed \in BOOLEAN /\ withdrawals'[n].agent = withdrawals[n].agent
      <4>1. CASE n = k
        BY <1>3, <4>1
      <4>2. CASE n # k
        BY <1>2, <2>1, <4>2
      <4>3. QED
        BY <4>1, <4>2
    <3>2. QED
      BY <3>1
  <2>3. \A n : n \in O <=> n \in All
    BY <1>2, <2>1, <2>2
  <2>4. O = All
    BY <2>3
  <2>5. Asked(a, BOOLEAN) = SumFunctionOnSet(f, All) /\ Asked(a, BOOLEAN)' = SumFunctionOnSet(g, O)
    BY DEF Asked
  <2>6. QED
    BY <1>4, <2>4, <2>5
<1>9. CASE withdrawals[k].agent = a
  <2>1. k \in N
    BY <1>3, <1>9
  <2>2. \A n : n \in M <=> n \in N \ {k}
    <3>1. ASSUME NEW n \in DOMAIN withdrawals PROVE n \in M <=> n \in N \ {k}
      <4>1. CASE n = k
        BY <1>3, <4>1
      <4>2. CASE n # k
        BY <1>2, <4>2
      <4>3. QED
        BY <4>1, <4>2
    <3>2. QED
      BY <1>2, <3>1
  <2>3. M = N \ {k}
    BY <2>2
  <2>4. f[k] = withdrawals[k].amount
    OBVIOUS
  <2>5. SumFunctionOnSet(f, M) \in Int
    <3>1. \A n \in M : f[n] \in Int
      BY <1>6, <2>3
    <3> HIDE DEF f, M
    <3>2. QED
      BY <1>5, <3>1, SumType
  <2> HIDE DEF f, g, N, M
  <2>6. SumFunctionOnSet(f, N) = f[k] + SumFunctionOnSet(f, N \ {k})
    BY <1>5, <1>6, <2>1, SumRemove
  <2>7. QED
    BY <1>3, <1>4, <1>7, <1>8, <1>9, <2>3, <2>4, <2>5, <2>6
<1>10. CASE withdrawals[k].agent # a
  <2>1. \A n : n \in M <=> n \in N
    <3>1. ASSUME NEW n \in DOMAIN withdrawals PROVE n \in M <=> n \in N
      <4>1. CASE n = k
        BY <1>3, <1>10, <4>1
      <4>2. CASE n # k
        BY <1>2, <4>2
      <4>3. QED
        BY <4>1, <4>2
    <3>2. QED
      BY <1>2, <3>1
  <2>2. M = N
    BY <2>1
  <2>3. Asked(a, {FALSE}) \in Nat
    BY AskedType
  <2> HIDE DEF f, g, N, M
  <2>4. QED
    BY <1>4, <1>7, <1>8, <1>10, <2>2, <2>3
<1>11. QED
  BY <1>9, <1>10

\* What is counted are commissions.
LEMMA CountedSets ==
  ASSUME TypeInv, LedgerInv, FlowInv, NEW r \in Requests
  PROVE  /\ CountedAvailable(req[r]) \in SUBSET Commissions
         /\ CountedPending(req[r]) \in SUBSET Commissions
         /\ TakenBack(req[r]) \in SUBSET Commissions
<1>1. req[r] \in RequestStates /\ Typed(req[r])
  BY DEF TypeInv, TypeOK
<1>2. req[r].list \subseteq Commissions
  BY <1>1 DEF RequestStates
<1>3. InPayouts \subseteq Commissions
  <2>1. \A n \in DOMAIN payouts : payouts[n] \in Payouts
    BY DEF LedgerInv
  <2>2. QED
    BY <2>1 DEF Payouts, InPayouts
<1>4. \A status : WithStatus(status) \subseteq Commissions
  BY DEF WithStatus
<1>5. CountedAvailable(req[r]) \in SUBSET Commissions
  BY <1>2, <1>4 DEF CountedAvailable, OwedBy
<1>6. CountedPending(req[r]) \in SUBSET Commissions
  BY <1>1, <1>4 DEF CountedPending, Typed
<1>7. TakenBack(req[r]) \in SUBSET Commissions
  BY <1>3 DEF TakenBack
<1>8. QED
  BY <1>5, <1>6, <1>7

\* What an agent may not withdraw covers what is available.
LEMMA LockedCovers ==
  ASSUME NEW a
  PROVE  /\ Worth(OfAgent(a, WithStatus("AVAILABLE"))) <= Locked(a)
         /\ Locked(a) \in Nat
<1> DEFINE C == OfAgent(a, WithStatus("AVAILABLE"))
           D == OfAgent(a, WithStatus("RESERVED"))
<1>1. {c \in WithStatus("AVAILABLE") \cup WithStatus("RESERVED") : Owner[c] = a} = C \cup D
  BY DEF OfAgent
<1>2. C \in SUBSET Commissions /\ D \in SUBSET Commissions /\ C \cap D = {}
  BY DEF OfAgent, WithStatus
<1>3. Worth(C) \in Nat /\ Worth(D) \in Nat
  BY <1>2, WorthType
<1>4. Locked(a) = Worth(C \cup D)
  BY <1>1 DEF Locked
<1> HIDE DEF C, D
<1>5. Worth(C \cup D) = Worth(C) + Worth(D)
  BY <1>2, WorthUnion
<1>6. Worth(C) <= Locked(a) /\ Locked(a) \in Nat
  BY <1>3, <1>4, <1>5
<1>7. QED
  BY <1>6 DEF C

\* A step that moves in the wallets what it moves in the counts.
LEMMA MoneyMoves ==
  ASSUME TypeInv, TypeInv', LedgerInv, FlowInv, MoneyInv, NEW r, Requests = {r},
         UNCHANGED withdrawals, CopyIsCurrent(req[r])',
         \A a \in Agents : /\ Asking(req[r], a)' = Asking(req[r], a)
                           /\ Sending(req[r], a)' = Sending(req[r], a),
         CountedAvailable(req[r])' \in SUBSET Commissions,
         CountedPending(req[r])' \in SUBSET Commissions, TakenBack(req[r])' \in SUBSET Commissions,
         \A a \in Agents :
           /\ wallet'[a].available - wallet[a].available =
                Worth(OfAgent(a, CountedAvailable(req[r])')) - Worth(OfAgent(a, CountedAvailable(req[r])))
                  - Worth(OfAgent(a, TakenBack(req[r])')) + Worth(OfAgent(a, TakenBack(req[r])))
           /\ wallet'[a].pending - wallet[a].pending =
                Worth(OfAgent(a, CountedPending(req[r])')) - Worth(OfAgent(a, CountedPending(req[r])))
  PROVE  MoneyInv'
<1>1. r \in Requests /\ Balanced(req[r]) /\ SalesCover(req[r])
  BY DEF MoneyInv
<1>2. \A a, completed : Asked(a, completed)' = Asked(a, completed)
  BY DEF Asked
<1>3. SalesCover(req[r])'
  BY <1>1, <1>2 DEF SalesCover
<1>4. Balanced(req[r])'
  <2> DEFINE available == CountedAvailable(req[r])'
             pending == CountedPending(req[r])'
             taken == TakenBack(req[r])'
  <2>1. ASSUME NEW a \in Agents
        PROVE  /\ AvailableCount(req[r], a)' =
                    Sales - Asked(a, BOOLEAN) - Asking(req[r], a)
                      + Worth(OfAgent(a, available)) - Worth(OfAgent(a, taken))
               /\ PendingCount(req[r], a)' =
                    Worth(OfAgent(a, pending)) + Asked(a, {FALSE}) + Asking(req[r], a)
                      - Sending(req[r], a)
    <3>1. /\ OfAgent(a, CountedAvailable(req[r]))' = OfAgent(a, available)
          /\ OfAgent(a, CountedPending(req[r]))' = OfAgent(a, pending)
          /\ OfAgent(a, TakenBack(req[r]))' = OfAgent(a, taken)
      BY DEF OfAgent
    <3>2. /\ Worth(OfAgent(a, CountedAvailable(req[r])))' = Worth(OfAgent(a, available))
          /\ Worth(OfAgent(a, CountedPending(req[r])))' = Worth(OfAgent(a, pending))
          /\ Worth(OfAgent(a, TakenBack(req[r])))' = Worth(OfAgent(a, taken))
      BY <3>1 DEF Worth, MapThenSumSet, MapThenFoldSet
    <3>3. QED
      BY <1>2, <2>1, <3>2 DEF AvailableCount, PendingCount
  <2>2. ASSUME NEW a \in Agents
        PROVE  /\ wallet'[a].available <=
                    Sales - Asked(a, BOOLEAN) - Asking(req[r], a)
                      + Worth(OfAgent(a, available)) - Worth(OfAgent(a, taken))
               /\ PromptResume =>
                    /\ wallet'[a].available =
                         Sales - Asked(a, BOOLEAN) - Asking(req[r], a)
                           + Worth(OfAgent(a, available)) - Worth(OfAgent(a, taken))
                    /\ wallet'[a].pending =
                         Worth(OfAgent(a, pending)) + Asked(a, {FALSE}) + Asking(req[r], a)
                           - Sending(req[r], a)
    <3> DEFINE w == wallet[a].available
               v == wallet'[a].available
               x == wallet[a].pending
               y == wallet'[a].pending
               k == Asked(a, BOOLEAN)
               f == Asked(a, {FALSE})
               m == Asking(req[r], a)
               s == Sending(req[r], a)
               C == Worth(OfAgent(a, CountedAvailable(req[r])))
               D == Worth(OfAgent(a, CountedPending(req[r])))
               T == Worth(OfAgent(a, TakenBack(req[r])))
               E == Worth(OfAgent(a, available))
               P == Worth(OfAgent(a, pending))
               U == Worth(OfAgent(a, taken))
    <3>1. wallet[a] \in Balances /\ wallet'[a] \in Balances /\ req[r] \in RequestStates
      BY <1>1, <2>2 DEF TypeInv, TypeOK
    <3>2. w \in Int /\ v \in Int /\ x \in Int /\ y \in Int /\ m \in Nat /\ s \in Nat
      BY <3>1 DEF Balances, RequestStates, Asking, Sending
    <3>3. C \in Nat /\ D \in Nat /\ T \in Nat /\ E \in Nat /\ P \in Nat /\ U \in Nat
      BY <1>1, CountedSets, CountedType
    <3>4. k \in Nat /\ f \in Nat
      BY AskedType DEF TypeInv, TypeOK
    <3>5. /\ w <= Sales - k - m + C - T
          /\ PromptResume => w = Sales - k - m + C - T /\ x = D + f + m - s
      BY <1>1, <2>2 DEF Balanced, AvailableCount, PendingCount
    <3>6. v - w = E - C - U + T /\ y - x = P - D
      BY <2>2
    <3> HIDE DEF w, v, x, y, k, f, m, s, C, D, T, E, P, U
    <3>7. v + C + U = w + E + T
      BY <3>2, <3>3, <3>6
    <3>8. v <= Sales - k - m + E - U
      <4>1. w + T + k + m <= Sales + C
        BY <3>2, <3>3, <3>4, <3>5, SalesAssumption
      <4>2. v + U + k + m <= Sales + E
        BY <3>2, <3>3, <3>4, <3>7, <4>1, SalesAssumption
      <4>3. QED
        BY <3>2, <3>3, <3>4, <4>2, SalesAssumption
    <3>9. ASSUME PromptResume PROVE v = Sales - k - m + E - U
      <4>1. w + T + k + m = Sales + C
        BY <3>2, <3>3, <3>4, <3>5, <3>9, SalesAssumption
      <4>2. v + U + k + m = Sales + E
        BY <3>2, <3>3, <3>4, <3>7, <4>1, SalesAssumption
      <4>3. QED
        BY <3>2, <3>3, <3>4, <4>2, SalesAssumption
    <3>10. ASSUME PromptResume PROVE y = P + f + m - s
      <4>1. x - D = f + m - s
        BY <3>2, <3>3, <3>4, <3>5, <3>10
      <4>2. y = P + (x - D)
        BY <3>2, <3>3, <3>6
      <4>3. QED
        BY <3>2, <3>3, <3>4, <4>1, <4>2
    <3>11. QED
      BY <3>8, <3>9, <3>10 DEF v, y, k, f, m, s, E, P, U
  <2> HIDE DEF available, pending, taken
  <2>3. QED
    BY <2>1, <2>2 DEF Balanced
<1>5. QED
  BY <1>3, <1>4 DEF MoneyInv

\* A step that moves nothing.
LEMMA MoneyStays ==
  ASSUME TypeInv, TypeInv', LedgerInv, FlowInv, MoneyInv, NEW r, Requests = {r},
         UNCHANGED <<wallet, withdrawals>>, CopyIsCurrent(req[r])',
         \A a \in Agents : /\ Asking(req[r], a)' = Asking(req[r], a)
                           /\ Sending(req[r], a)' = Sending(req[r], a),
         CountedAvailable(req[r])' = CountedAvailable(req[r]),
         CountedPending(req[r])' = CountedPending(req[r]),
         TakenBack(req[r])' = TakenBack(req[r])
  PROVE  MoneyInv'
<1>1. r \in Requests
  OBVIOUS
<1>2. /\ CountedAvailable(req[r]) \in SUBSET Commissions
      /\ CountedPending(req[r]) \in SUBSET Commissions
      /\ TakenBack(req[r]) \in SUBSET Commissions
  BY <1>1, CountedSets
<1>3. ASSUME NEW a \in Agents
      PROVE  /\ wallet'[a].available - wallet[a].available = 0
             /\ wallet'[a].pending - wallet[a].pending = 0
             /\ Worth(OfAgent(a, CountedAvailable(req[r]))) \in Nat
             /\ Worth(OfAgent(a, TakenBack(req[r]))) \in Nat
             /\ Worth(OfAgent(a, CountedPending(req[r]))) \in Nat
  <2>1. wallet[a] \in Balances /\ wallet' = wallet
    BY DEF TypeInv, TypeOK
  <2>2. wallet[a].available \in Int /\ wallet[a].pending \in Int
    BY <2>1 DEF Balances
  <2>3. QED
    BY <1>2, <2>1, <2>2, CountedType
<1>4. ASSUME NEW a \in Agents
      PROVE  /\ wallet'[a].available - wallet[a].available =
                  Worth(OfAgent(a, CountedAvailable(req[r])')) - Worth(OfAgent(a, CountedAvailable(req[r])))
                    - Worth(OfAgent(a, TakenBack(req[r])')) + Worth(OfAgent(a, TakenBack(req[r])))
             /\ wallet'[a].pending - wallet[a].pending =
                  Worth(OfAgent(a, CountedPending(req[r])')) - Worth(OfAgent(a, CountedPending(req[r])))
  BY <1>3
<1>5. QED
  BY <1>2, <1>4, MoneyMoves

\* A step on the way, that changes no status, no payout and no withdrawal.
Apart(q) ==
  q.pc \notin {"release.wallet", "reverse.save", "withdraw.create", "complete.save"} \cup Paying

LEMMA MoneyGoes ==
  ASSUME TypeInv, TypeInv', LedgerInv, FlowInv, MoneyInv, NEW r, Requests = {r},
         UNCHANGED <<wallet, withdrawals, reversed>>,
         \A status : WithStatus(status)' = WithStatus(status), InPayouts' = InPayouts,
         NEW q, req' = [req EXCEPT ![r] = q], Apart(req[r]), Apart(q), CopyIsCurrent(q)
  PROVE  MoneyInv'
<1>1. req'[r] = q
  BY DEF LedgerInv
<1>2. \A a, completed : Asked(a, completed)' = Asked(a, completed)
  BY DEF Asked
<1>3. CopyIsCurrent(req[r])'
  BY <1>1, <1>2 DEF CopyIsCurrent
<1>4. /\ CountedAvailable(req[r])' = CountedAvailable(req[r])
      /\ CountedPending(req[r])' = CountedPending(req[r])
      /\ TakenBack(req[r])' = TakenBack(req[r])
  BY <1>1 DEF CountedAvailable, CountedPending, TakenBack, Apart
<1>5. \A a \in Agents : Asking(req[r], a)' = Asking(req[r], a) /\ Sending(req[r], a)' = Sending(req[r], a)
  BY <1>1 DEF Asking, Sending, Apart
<1>6. UNCHANGED <<wallet, withdrawals>>
  OBVIOUS
<1>7. QED
  BY <1>3, <1>4, <1>5, <1>6, MoneyStays

\* A step that is no part of a withdrawal works on no copy.
LEMMA NoCopy ==
  ASSUME NEW q, q.pc \notin Withdrawal
  PROVE  CopyIsCurrent(q)
BY DEF CopyIsCurrent, Withdrawal

\* The timer job.
LEMMA MoneyRelease ==
  ASSUME TypeInv, TypeInv', LedgerInv, FlowInv, MoneyInv, NEW r, Requests = {r},
         StartRelease(r) \/ Release(r)
  PROVE  MoneyInv'
<1>0. /\ req[r] \in RequestStates /\ com \in [Commissions -> CommissionStates] /\ r \in Requests
      /\ req \in [Requests -> RequestStates] /\ wallet \in [Agents -> Balances]
  BY DEF TypeInv, TypeOK
<1>1. ASSUME NEW q, req' = [req EXCEPT ![r] = q], q.pc \in {"idle", "release.claim"},
             req[r].pc \in {"idle", "release.claim"},
             UNCHANGED <<com, wallet, payouts, withdrawals, reversed>>
      PROVE  MoneyInv'
  <2>1. CopyIsCurrent(q)
    BY <1>1, NoCopy DEF Withdrawal
  <2>2. Apart(q) /\ Apart(req[r])
    BY <1>1 DEF Apart, Paying
  <2>3. (\A status : WithStatus(status)' = WithStatus(status)) /\ InPayouts' = InPayouts
    BY <1>1 DEF WithStatus, InPayouts
  <2>4. QED
    BY <1>1, <2>1, <2>2, <2>3, MoneyGoes
<1>2. ASSUME NEW c \in Commissions PROVE ToNext(r, req[r].list \ {c}).pc \in {"idle", "release.claim"}
  BY <1>0 DEF ToNext, IdleRequest, RequestStates
<1>3. CASE StartRelease(r)
  <2> DEFINE q == [IdleRequest EXCEPT !.pc = "release.claim", !.list = Due]
  <2>1. q.pc = "release.claim"
    BY DEF IdleRequest
  <2>2. /\ req' = [req EXCEPT ![r] = q] /\ req[r].pc = "idle"
        /\ UNCHANGED <<com, wallet, payouts, withdrawals, reversed>>
    BY <1>3 DEF StartRelease, Begin
  <2> HIDE DEF q
  <2>3. QED
    BY <1>1, <2>1, <2>2
<1>4. CASE ReleaseClaim(r)
  <2>1. PICK c \in req[r].list :
          \/ /\ com[c].status # "PENDING"
             /\ req' = [req EXCEPT ![r] = ToNext(r, req[r].list \ {c})]
             /\ UNCHANGED com
          \/ /\ com[c].status = "PENDING"
             /\ com' = [com EXCEPT ![c].status = "AVAILABLE"]
             /\ req' = [req EXCEPT ![r].pc = "release.wallet", ![r].commission = c]
    BY <1>4 DEF ReleaseClaim
  <2>2. c \in Commissions
    BY <1>0 DEF RequestStates
  <2>3. req[r].pc = "release.claim" /\ UNCHANGED <<wallet, payouts, withdrawals, reversed>>
    BY <1>4 DEF ReleaseClaim, At
  <2>4. CASE /\ com[c].status = "PENDING"
             /\ com' = [com EXCEPT ![c].status = "AVAILABLE"]
             /\ req' = [req EXCEPT ![r].pc = "release.wallet", ![r].commission = c]
    <3>1. com'[c].status = "AVAILABLE" /\ \A d \in Commissions : d # c => com'[d] = com[d]
      BY <1>0, <2>2, <2>4, StatusIs
    <3>2. req'[r].pc = "release.wallet" /\ req'[r].commission = c
      BY <1>0, <2>4 DEF RequestStates
    <3>3. /\ WithStatus("AVAILABLE")' = WithStatus("AVAILABLE") \cup {c}
          /\ c \notin WithStatus("AVAILABLE")
          /\ WithStatus("PENDING")' = WithStatus("PENDING") \ {c} /\ c \in WithStatus("PENDING")
          /\ WithStatus("BLOCKED")' = WithStatus("BLOCKED") /\ c \notin WithStatus("BLOCKED")
      BY <2>2, <2>4, <3>1 DEF WithStatus
    <3>4. CountedAvailable(req[r])' = CountedAvailable(req[r])
      BY <2>3, <3>2, <3>3 DEF CountedAvailable, Paying
    <3>5. CountedPending(req[r])' = CountedPending(req[r])
      BY <2>3, <3>2, <3>3 DEF CountedPending
    <3>6. TakenBack(req[r])' = TakenBack(req[r])
      BY <2>3, <3>2 DEF TakenBack, InPayouts
    <3>7. CopyIsCurrent(req[r])'
      BY <3>2 DEF CopyIsCurrent
    <3>8. \A a \in Agents : /\ Asking(req[r], a)' = Asking(req[r], a)
                            /\ Sending(req[r], a)' = Sending(req[r], a)
      BY <2>3, <3>2 DEF Asking, Sending
    <3>9. UNCHANGED <<wallet, withdrawals>>
      BY <2>3
    <3>10. QED
      BY <3>4, <3>5, <3>6, <3>7, <3>8, <3>9, MoneyStays
  <2>5. CASE /\ req' = [req EXCEPT ![r] = ToNext(r, req[r].list \ {c})]
             /\ UNCHANGED com
    BY <1>1, <1>2, <2>2, <2>3, <2>5
  <2>6. QED
    BY <2>1, <2>4, <2>5
<1>5. CASE ReleaseWallet(r)
  <2> DEFINE c == req[r].commission
  <2>1. c \in Commissions /\ req[r].pc = "release.wallet" /\ com[c].status = "AVAILABLE"
    BY <1>5 DEF ReleaseWallet, At, TypeInv, Typed, FlowInv, StatusIsCurrent, WithStatus
  <2>2. /\ Increment(Owner[c], Share[c], -Share[c])
        /\ req' = [req EXCEPT ![r] = ToNext(r, req[r].list \ {c})]
        /\ UNCHANGED <<com, payouts, withdrawals, reversed>>
    BY <1>5 DEF ReleaseWallet
  <2> HIDE DEF c
  <2>3. req'[r].pc \in {"idle", "release.claim"}
    BY <1>0, <1>2, <2>1, <2>2
  <2>4. CountedAvailable(req[r])' = CountedAvailable(req[r]) \cup {c} /\ c \notin CountedAvailable(req[r])
    BY <2>1, <2>2, <2>3 DEF CountedAvailable, Paying, WithStatus, c
  <2>5. CountedPending(req[r])' = CountedPending(req[r]) \ {c} /\ c \in CountedPending(req[r])
    BY <2>1, <2>2, <2>3 DEF CountedPending, WithStatus, c
  <2>6. TakenBack(req[r])' = TakenBack(req[r])
    BY <2>1, <2>2, <2>3 DEF TakenBack, InPayouts
  <2>7. /\ CountedAvailable(req[r]) \in SUBSET Commissions
        /\ CountedPending(req[r]) \in SUBSET Commissions
        /\ TakenBack(req[r]) \in SUBSET Commissions
    BY <1>0, CountedSets
  <2>8. ASSUME NEW a \in Agents
        PROVE  /\ wallet'[a].available - wallet[a].available =
                    Worth(OfAgent(a, CountedAvailable(req[r])'))
                      - Worth(OfAgent(a, CountedAvailable(req[r])))
                      - Worth(OfAgent(a, TakenBack(req[r])')) + Worth(OfAgent(a, TakenBack(req[r])))
               /\ wallet'[a].pending - wallet[a].pending =
                    Worth(OfAgent(a, CountedPending(req[r])')) - Worth(OfAgent(a, CountedPending(req[r])))
    <3>1. Share[c] \in Int /\ 1 * Share[c] = Share[c] /\ (-1) * Share[c] = -Share[c]
            /\ ShareOf(a, c) \in Nat /\ 1 * ShareOf(a, c) = ShareOf(a, c)
            /\ (-1) * ShareOf(a, c) = -ShareOf(a, c)
      BY <2>1, ShareAssumption, ShareOfType
    <3>2. Increment(Owner[c], 1 * Share[c], (-1) * Share[c])
      BY <2>2, <3>1
    <3>3. /\ wallet'[a].available = wallet[a].available + 1 * ShareOf(a, c)
          /\ wallet'[a].pending = wallet[a].pending + (-1) * ShareOf(a, c)
      BY <1>0, <2>1, <3>2, ShareMoves
    <3>4. Worth(OfAgent(a, CountedAvailable(req[r])')) =
            Worth(OfAgent(a, CountedAvailable(req[r]))) + ShareOf(a, c)
      BY <2>1, <2>4, <2>7, WorthGain
    <3>5. Worth(OfAgent(a, CountedPending(req[r]))) =
            Worth(OfAgent(a, CountedPending(req[r])')) + ShareOf(a, c)
      BY <2>5, <2>7, WorthLoss
    <3>6. /\ Worth(OfAgent(a, CountedAvailable(req[r]))) \in Nat
          /\ Worth(OfAgent(a, CountedPending(req[r]))) \in Nat
          /\ Worth(OfAgent(a, CountedPending(req[r])')) \in Nat
          /\ Worth(OfAgent(a, TakenBack(req[r]))) \in Nat
      BY <2>5, <2>7, CountedType
    <3>7. wallet[a].available \in Int /\ wallet[a].pending \in Int
      BY <1>0 DEF Balances
    <3>8. QED
      BY <2>6, <3>1, <3>3, <3>4, <3>5, <3>6, <3>7
  <2>9. CopyIsCurrent(req[r])'
    BY <2>3 DEF CopyIsCurrent
  <2>10. \A a \in Agents : /\ Asking(req[r], a)' = Asking(req[r], a)
                           /\ Sending(req[r], a)' = Sending(req[r], a)
    BY <2>1, <2>3 DEF Asking, Sending
  <2>11. /\ CountedAvailable(req[r])' \in SUBSET Commissions
         /\ CountedPending(req[r])' \in SUBSET Commissions
         /\ TakenBack(req[r])' \in SUBSET Commissions
    BY <2>1, <2>4, <2>5, <2>6, <2>7
  <2>12. UNCHANGED withdrawals
    BY <2>2
  <2>13. QED
    BY <2>8, <2>9, <2>10, <2>11, <2>12, MoneyMoves
<1>6. QED
  BY <1>3, <1>4, <1>5 DEF Release

\* A dispute that is lost.
LEMMA MoneyReverse ==
  ASSUME TypeInv, TypeInv', LedgerInv, FlowInv, MoneyInv, NEW r, Requests = {r},
         (\E c \in Commissions : StartReverse(r, c)) \/ Reverse(r)
  PROVE  MoneyInv'
<1>0. /\ req[r] \in RequestStates /\ com \in [Commissions -> CommissionStates] /\ r \in Requests
      /\ req \in [Requests -> RequestStates] /\ wallet \in [Agents -> Balances]
  BY DEF TypeInv, TypeOK
<1>1. ASSUME NEW c \in Commissions, StartReverse(r, c) PROVE MoneyInv'
  <2> DEFINE q == [IdleRequest EXCEPT !.pc = "reverse.wallet", !.commission = c,
                                      !.status = com[c].status]
  <2>1. /\ req' = [req EXCEPT ![r] = q] /\ req[r].pc = "idle"
        /\ UNCHANGED <<wallet, payouts, withdrawals, reversed>>
    BY <1>1 DEF StartReverse, Begin
  <2>2. q.pc = "reverse.wallet"
    BY DEF IdleRequest
  <2>3. \A d \in Commissions : com'[d].status = com[d].status
    BY <1>0, <1>1 DEF StartReverse, CommissionStates
  <2> HIDE DEF q
  <2>4. (\A status : WithStatus(status)' = WithStatus(status)) /\ InPayouts' = InPayouts
    BY <2>1, <2>3 DEF WithStatus, InPayouts
  <2>5. Apart(q) /\ Apart(req[r])
    BY <2>1, <2>2 DEF Apart, Paying
  <2>6. CopyIsCurrent(q)
    BY <2>2, NoCopy DEF Withdrawal
  <2>7. QED
    BY <2>1, <2>4, <2>5, <2>6, MoneyGoes
<1>2. CASE ReverseWallet(r)
  <2> DEFINE c == req[r].commission
             status == req[r].status
  <2>1. req[r].pc = "reverse.wallet" /\ UNCHANGED <<com, payouts, withdrawals, reversed>>
    BY <1>2 DEF ReverseWallet, At
  <2>2. c \in Commissions /\ c \notin reversed /\ com[c].status = status
    BY <2>1 DEF FlowInv, StatusIsCurrent, Reversing
  <2>3. req'[r].pc = "reverse.save" /\ req'[r].commission = c
    BY <1>0, <1>2 DEF ReverseWallet, Goto, RequestStates
  <2>4. \/ status \in {"PENDING", "BLOCKED"} /\ Increment(Owner[c], 0, -Share[c])
        \/ status \in {"AVAILABLE", "RESERVED", "PAID"} /\ Increment(Owner[c], -Share[c], 0)
    BY <1>2 DEF ReverseWallet
  <2>5. status \in {"RESERVED", "PAID"} => c \in InPayouts
    <3>1. CASE status = "RESERVED"
      BY <2>1, <2>2, <3>1 DEF FlowInv, ReservedInPayouts, WithStatus
    <3>2. CASE status = "PAID"
      BY <2>2, <3>2 DEF LedgerInv, PaidByPayout, WithStatus, InPayouts
    <3>3. QED
      BY <3>1, <3>2
  <2>6. status \notin {"RESERVED", "PAID"} => c \notin InPayouts \/ status = "REVERSED"
    BY <2>2 DEF LedgerInv, PayoutsAreReserved, InPayouts
  <2> HIDE DEF c, status
  <2>7. /\ CountedAvailable(req[r]) = WithStatus("AVAILABLE")
        /\ CountedPending(req[r]) = WithStatus("PENDING") \cup WithStatus("BLOCKED")
        /\ TakenBack(req[r]) = InPayouts \cap reversed
    BY <2>1 DEF CountedAvailable, CountedPending, TakenBack, Paying
  <2>8. /\ CountedAvailable(req[r])' = WithStatus("AVAILABLE") \ {c}
        /\ CountedPending(req[r])' = (WithStatus("PENDING") \cup WithStatus("BLOCKED")) \ {c}
        /\ TakenBack(req[r])' = InPayouts \cap (reversed \cup {c})
    BY <2>1, <2>3 DEF CountedAvailable, CountedPending, TakenBack, Paying, WithStatus, InPayouts
  <2>9. /\ CountedAvailable(req[r]) \in SUBSET Commissions
        /\ CountedPending(req[r]) \in SUBSET Commissions
        /\ TakenBack(req[r]) \in SUBSET Commissions
    BY <1>0, CountedSets
  <2>10. /\ CountedAvailable(req[r])' \in SUBSET Commissions
         /\ CountedPending(req[r])' \in SUBSET Commissions
         /\ TakenBack(req[r])' \in SUBSET Commissions
    BY <2>2, <2>7, <2>8, <2>9
  <2>11. ASSUME NEW a \in Agents
         PROVE  /\ wallet'[a].available - wallet[a].available =
                     Worth(OfAgent(a, CountedAvailable(req[r])'))
                       - Worth(OfAgent(a, CountedAvailable(req[r])))
                       - Worth(OfAgent(a, TakenBack(req[r])')) + Worth(OfAgent(a, TakenBack(req[r])))
                /\ wallet'[a].pending - wallet[a].pending =
                     Worth(OfAgent(a, CountedPending(req[r])')) - Worth(OfAgent(a, CountedPending(req[r])))
    <3>1. Share[c] \in Int /\ 0 * Share[c] = 0 /\ (-1) * Share[c] = -Share[c]
            /\ ShareOf(a, c) \in Nat /\ 0 * ShareOf(a, c) = 0
            /\ (-1) * ShareOf(a, c) = -ShareOf(a, c)
      BY <2>2, ShareAssumption, ShareOfType
    <3>2. /\ Worth(OfAgent(a, CountedAvailable(req[r]))) \in Nat
          /\ Worth(OfAgent(a, CountedAvailable(req[r])')) \in Nat
          /\ Worth(OfAgent(a, CountedPending(req[r]))) \in Nat
          /\ Worth(OfAgent(a, CountedPending(req[r])')) \in Nat
          /\ Worth(OfAgent(a, TakenBack(req[r]))) \in Nat
          /\ Worth(OfAgent(a, TakenBack(req[r])')) \in Nat
      BY <2>9, <2>10, CountedType
    <3>3. wallet[a].available \in Int /\ wallet[a].pending \in Int
      BY <1>0 DEF Balances
    <3>4. CASE status \in {"PENDING", "BLOCKED"}
      <4>1. Increment(Owner[c], 0 * Share[c], (-1) * Share[c])
        BY <2>4, <3>1, <3>4
      <4>2. /\ wallet'[a].available = wallet[a].available + 0 * ShareOf(a, c)
            /\ wallet'[a].pending = wallet[a].pending + (-1) * ShareOf(a, c)
        BY <1>0, <2>2, <4>1, ShareMoves
      <4>3. c \in CountedPending(req[r]) /\ c \notin CountedAvailable(req[r]) /\ c \notin InPayouts
        BY <2>2, <2>6, <2>7, <3>4 DEF WithStatus
      <4>4. /\ CountedAvailable(req[r])' = CountedAvailable(req[r])
            /\ CountedPending(req[r])' = CountedPending(req[r]) \ {c}
            /\ TakenBack(req[r])' = TakenBack(req[r])
        BY <2>7, <2>8, <4>3
      <4>5. Worth(OfAgent(a, CountedPending(req[r]))) =
              Worth(OfAgent(a, CountedPending(req[r])')) + ShareOf(a, c)
        BY <2>9, <4>3, <4>4, WorthLoss
      <4>6. QED
        BY <3>1, <3>2, <3>3, <4>2, <4>4, <4>5
    <3>5. ASSUME status \in {"AVAILABLE", "RESERVED", "PAID"}
          PROVE  /\ wallet'[a].available = wallet[a].available - ShareOf(a, c)
                 /\ wallet'[a].pending = wallet[a].pending
      <4>1. Increment(Owner[c], (-1) * Share[c], 0 * Share[c])
        BY <2>4, <3>1, <3>5
      <4>2. /\ wallet'[a].available = wallet[a].available + (-1) * ShareOf(a, c)
            /\ wallet'[a].pending = wallet[a].pending + 0 * ShareOf(a, c)
        BY <1>0, <2>2, <4>1, ShareMoves
      <4>3. QED
        BY <3>1, <3>3, <4>2
    <3>6. CASE status = "AVAILABLE"
      <4>1. c \notin CountedPending(req[r]) /\ c \in CountedAvailable(req[r]) /\ c \notin InPayouts
        BY <2>2, <2>6, <2>7, <3>6 DEF WithStatus
      <4>2. /\ CountedAvailable(req[r])' = CountedAvailable(req[r]) \ {c}
            /\ CountedPending(req[r])' = CountedPending(req[r])
            /\ TakenBack(req[r])' = TakenBack(req[r])
        BY <2>7, <2>8, <4>1
      <4>3. Worth(OfAgent(a, CountedAvailable(req[r]))) =
              Worth(OfAgent(a, CountedAvailable(req[r])')) + ShareOf(a, c)
        BY <2>9, <4>1, <4>2, WorthLoss
      <4>4. QED
        BY <3>1, <3>2, <3>3, <3>5, <3>6, <4>2, <4>3
    <3>7. CASE status \in {"RESERVED", "PAID"}
      <4>1. c \notin CountedPending(req[r]) /\ c \notin CountedAvailable(req[r]) /\ c \in InPayouts
              /\ c \notin TakenBack(req[r])
        BY <2>2, <2>5, <2>7, <3>7 DEF WithStatus
      <4>2. /\ CountedAvailable(req[r])' = CountedAvailable(req[r])
            /\ CountedPending(req[r])' = CountedPending(req[r])
            /\ TakenBack(req[r])' = TakenBack(req[r]) \cup {c}
        BY <2>7, <2>8, <4>1
      <4>3. Worth(OfAgent(a, TakenBack(req[r])')) =
              Worth(OfAgent(a, TakenBack(req[r]))) + ShareOf(a, c)
        BY <2>2, <2>9, <4>1, <4>2, WorthGain
      <4>4. QED
        BY <3>1, <3>2, <3>3, <3>5, <3>7, <4>2, <4>3
    <3>8. QED
      BY <2>4, <3>4, <3>6, <3>7
  <2>12. CopyIsCurrent(req[r])'
    BY <2>3 DEF CopyIsCurrent
  <2>13. \A a \in Agents : /\ Asking(req[r], a)' = Asking(req[r], a)
                           /\ Sending(req[r], a)' = Sending(req[r], a)
    BY <2>1, <2>3 DEF Asking, Sending
  <2>14. UNCHANGED withdrawals
    BY <2>1
  <2>15. QED
    BY <2>10, <2>11, <2>12, <2>13, <2>14, MoneyMoves
<1>3. CASE ReverseSave(r)
  <2> DEFINE c == req[r].commission
  <2>1. /\ req'[r].pc = "idle" /\ req[r].pc = "reverse.save"
        /\ com' = [com EXCEPT ![c].status = "REVERSED"]
        /\ reversed' = reversed \cup {c} /\ UNCHANGED <<wallet, payouts, withdrawals>>
    BY <1>0, <1>3 DEF ReverseSave, Finish, IdleRequest, At
  <2>2. c \in Commissions
    BY <2>1 DEF FlowInv, StatusIsCurrent, Reversing
  <2>3. com'[c].status = "REVERSED" /\ \A d \in Commissions : d # c => com'[d] = com[d]
    BY <1>0, <2>1, <2>2, StatusIs
  <2>4. /\ WithStatus("AVAILABLE")' = WithStatus("AVAILABLE") \ {c}
        /\ WithStatus("PENDING")' = WithStatus("PENDING") \ {c}
        /\ WithStatus("BLOCKED")' = WithStatus("BLOCKED") \ {c}
    <3> HIDE DEF c
    <3>1. QED
      BY <2>2, <2>3 DEF WithStatus
  <2>5. CountedAvailable(req[r])' = CountedAvailable(req[r])
    BY <2>1, <2>4 DEF CountedAvailable, Paying
  <2>6. CountedPending(req[r])' = CountedPending(req[r])
    BY <2>1, <2>4 DEF CountedPending
  <2>7. TakenBack(req[r])' = TakenBack(req[r])
    BY <2>1 DEF TakenBack, InPayouts
  <2>8. CopyIsCurrent(req[r])'
    BY <2>1 DEF CopyIsCurrent
  <2>9. \A a \in Agents : /\ Asking(req[r], a)' = Asking(req[r], a)
                          /\ Sending(req[r], a)' = Sending(req[r], a)
    BY <2>1 DEF Asking, Sending
  <2>10. UNCHANGED <<wallet, withdrawals>>
    BY <2>1
  <2>11. QED
    BY <2>5, <2>6, <2>7, <2>8, <2>9, <2>10, MoneyStays
<1>4. QED
  BY <1>1, <1>2, <1>3 DEF Reverse

\* A batch and its payouts.
LEMMA MoneyBatch ==
  ASSUME TypeInv, TypeInv', LedgerInv, FlowInv, MoneyInv, NEW r, Requests = {r},
         StartBatch(r) \/ Batch(r)
  PROVE  MoneyInv'
<1>0. /\ req[r] \in RequestStates /\ com \in [Commissions -> CommissionStates] /\ r \in Requests
      /\ req \in [Requests -> RequestStates] /\ wallet \in [Agents -> Balances]
      /\ req[r].list \subseteq Commissions
  BY DEF TypeInv, TypeOK, RequestStates
<1>01. ListIsAvailable(req[r])
  BY DEF FlowInv
<1>1. CASE StartBatch(r) \/ BatchCreate(r)
  <2>0. StartBatch(r) => \E list : req' = [req EXCEPT ![r] =
                           [IdleRequest EXCEPT !.pc = "batch.create", !.list = list]]
    BY BatchBegins
  <2>01. PICK list : StartBatch(r) => req' = [req EXCEPT ![r] =
                       [IdleRequest EXCEPT !.pc = "batch.create", !.list = list]]
    BY <2>0
  <2> DEFINE p == [IdleRequest EXCEPT !.pc = "batch.create", !.list = list]
             q == [req[r] EXCEPT !.pc = "batch.reserve", !.batch = Len(batches) + 1]
  <2>1. /\ req' = [req EXCEPT ![r] = p] \/ req' = [req EXCEPT ![r] = q]
        /\ req[r].pc \in {"idle", "batch.create"}
        /\ UNCHANGED <<com, wallet, payouts, withdrawals, reversed>>
    BY <1>0, <1>1, <2>01, BatchBegins DEF StartBatch, BatchCreate, At
  <2>2. p.pc = "batch.create" /\ q.pc = "batch.reserve"
    BY <1>0 DEF IdleRequest, RequestStates
  <2> HIDE DEF p, q
  <2>3. PICK s \in {p, q} : req' = [req EXCEPT ![r] = s]
    BY <2>1
  <2>4. Apart(s) /\ Apart(req[r]) /\ s.pc \notin Withdrawal
    BY <2>1, <2>2 DEF Apart, Paying, Withdrawal
  <2>5. CopyIsCurrent(s)
    BY <2>4, NoCopy
  <2>6. (\A status : WithStatus(status)' = WithStatus(status)) /\ InPayouts' = InPayouts
    BY <2>1 DEF WithStatus, InPayouts
  <2>7. QED
    BY <2>1, <2>3, <2>4, <2>5, <2>6, MoneyGoes
<1>2. CASE BatchReserve(r)
  <2>1. PICK c \in req[r].list :
          LET owed == OwedTo(r, Owner[c])
              reserved == owed \cap WithStatus("AVAILABLE") IN
            /\ com' = [d \in Commissions |-> IF d \in reserved
                         THEN [com[d] EXCEPT !.status = "RESERVED", !.batch = req[r].batch]
                         ELSE com[d]]
            /\ \/ reserved # owed /\ Finish(r)
               \/ /\ reserved = owed
                  /\ req' = [req EXCEPT ![r].pc = "batch.payout", ![r].agent = Owner[c]]
    BY <1>2 DEF BatchReserve
  <2>2. req[r].pc = "batch.reserve" /\ UNCHANGED <<wallet, payouts, withdrawals, reversed>>
    BY <1>2 DEF BatchReserve, At
  <2> DEFINE owed == OwedTo(r, Owner[c])
  <2>3. owed \cap WithStatus("AVAILABLE") = owed /\ owed \subseteq WithStatus("AVAILABLE")
    BY <1>01, <2>2 DEF ListIsAvailable, OwedTo
  <2>4. /\ req' = [req EXCEPT ![r].pc = "batch.payout", ![r].agent = Owner[c]]
        /\ com' = [d \in Commissions |-> IF d \in owed
                     THEN [com[d] EXCEPT !.status = "RESERVED", !.batch = req[r].batch]
                     ELSE com[d]]
    BY <2>1, <2>3
  <2>5. req'[r].pc = "batch.payout" /\ OwedBy(req'[r]) = owed
    BY <1>0, <2>4 DEF RequestStates, OwedBy, OwedTo
  <2> HIDE DEF owed
  <2>6. owed \subseteq Commissions
    BY <2>3 DEF WithStatus
  <2>7. /\ \A d \in owed : com'[d].status = "RESERVED"
        /\ \A d \in Commissions \ owed : com'[d] = com[d]
    BY <1>0, <2>4, <2>6 DEF CommissionStates
  <2>8. /\ WithStatus("AVAILABLE")' = WithStatus("AVAILABLE") \ owed
        /\ WithStatus("PENDING")' = WithStatus("PENDING")
        /\ WithStatus("BLOCKED")' = WithStatus("BLOCKED")
    BY <2>3, <2>6, <2>7 DEF WithStatus
  <2>9. CountedAvailable(req[r])' = CountedAvailable(req[r])
    BY <2>2, <2>3, <2>5, <2>8 DEF CountedAvailable, Paying
  <2>10. CountedPending(req[r])' = CountedPending(req[r])
    BY <2>2, <2>5, <2>8 DEF CountedPending
  <2>11. TakenBack(req[r])' = TakenBack(req[r])
    BY <2>2, <2>5 DEF TakenBack, InPayouts
  <2>12. CopyIsCurrent(req[r])'
    BY <2>5 DEF CopyIsCurrent
  <2>13. \A a \in Agents : /\ Asking(req[r], a)' = Asking(req[r], a)
                           /\ Sending(req[r], a)' = Sending(req[r], a)
    BY <2>2, <2>5 DEF Asking, Sending
  <2>14. UNCHANGED <<wallet, withdrawals>>
    BY <2>2
  <2>15. QED
    BY <2>9, <2>10, <2>11, <2>12, <2>13, <2>14, MoneyStays
<1>3. CASE BatchPayout(r)
  <2> DEFINE owed == OwedTo(r, req[r].agent)
             payout == [batch |-> req[r].batch, agent |-> req[r].agent,
                        commissions |-> owed, paid |-> FALSE]
  <2>1. /\ payouts' = Append(payouts, payout) /\ req[r].pc = "batch.payout"
        /\ UNCHANGED <<com, wallet, withdrawals, reversed>>
    BY <1>3 DEF BatchPayout, At
  <2>2. req'[r].pc = "batch.link" /\ OwedBy(req'[r]) = owed /\ OwedBy(req[r]) = owed
    BY <1>0, <1>3 DEF BatchPayout, RequestStates, OwedBy, OwedTo
  <2>3. payout.commissions = owed
    OBVIOUS
  <2> HIDE DEF owed, payout
  <2>4. /\ DOMAIN payouts' = DOMAIN payouts \cup {Len(payouts) + 1}
        /\ \A n \in DOMAIN payouts : payouts'[n] = payouts[n]
        /\ payouts'[Len(payouts) + 1] = payout
    BY <2>1 DEF LedgerInv
  <2>5. InPayouts' = InPayouts \cup owed
    <3>1. ASSUME NEW d PROVE d \in InPayouts' <=> d \in InPayouts \cup owed
      BY <2>3, <2>4 DEF InPayouts
    <3>2. QED
      BY <3>1
  <2>6. owed \cap reversed = {}
    BY <1>01, <2>1, <2>2 DEF ListIsAvailable, Paying, FlowInv, ReversedOnce, WithStatus
  <2>7. \A status : WithStatus(status)' = WithStatus(status)
    BY <2>1 DEF WithStatus
  <2>8. CountedAvailable(req[r])' = CountedAvailable(req[r])
    BY <2>1, <2>2, <2>7 DEF CountedAvailable, Paying
  <2>9. CountedPending(req[r])' = CountedPending(req[r])
    BY <2>1, <2>2, <2>7 DEF CountedPending
  <2>10. TakenBack(req[r])' = TakenBack(req[r])
    BY <2>1, <2>2, <2>5, <2>6 DEF TakenBack
  <2>11. CopyIsCurrent(req[r])'
    BY <2>2 DEF CopyIsCurrent
  <2>12. \A a \in Agents : /\ Asking(req[r], a)' = Asking(req[r], a)
                           /\ Sending(req[r], a)' = Sending(req[r], a)
    BY <2>1, <2>2 DEF Asking, Sending
  <2>13. UNCHANGED <<wallet, withdrawals>>
    BY <2>1
  <2>14. QED
    BY <2>8, <2>9, <2>10, <2>11, <2>12, <2>13, MoneyStays
<1>4. CASE BatchWallet(r)
  <2> DEFINE owed == OwedTo(r, req[r].agent)
             agent == req[r].agent
  <2>1. /\ Increment(agent, -Worth(owed), 0) /\ req[r].pc = "batch.wallet"
        /\ UNCHANGED <<com, payouts, withdrawals, reversed>>
    BY <1>4 DEF BatchWallet, At
  <2>2. req'[r].pc \in {"idle", "batch.reserve"}
    BY <1>0, <1>4 DEF BatchWallet, Finish, IdleRequest, RequestStates
  <2>3. /\ OwedBy(req[r]) = owed /\ owed \subseteq WithStatus("RESERVED")
        /\ owed \in SUBSET Commissions /\ agent \in Agents
        /\ \A c \in owed : Owner[c] = agent
    BY <1>0, <1>01, <2>1
    DEF OwedBy, OwedTo, ListIsAvailable, Paying, WithStatus, TypeInv, Typed
  <2> HIDE DEF owed, agent
  <2>4. /\ CountedAvailable(req[r]) = WithStatus("AVAILABLE") \cup owed
        /\ CountedAvailable(req[r])' = WithStatus("AVAILABLE")
    BY <2>1, <2>2, <2>3 DEF CountedAvailable, Paying, WithStatus
  <2>5. WithStatus("AVAILABLE") \in SUBSET Commissions /\ WithStatus("AVAILABLE") \cap owed = {}
    BY <2>3 DEF WithStatus
  <2>6. CountedPending(req[r])' = CountedPending(req[r]) /\ TakenBack(req[r])' = TakenBack(req[r])
    BY <2>1, <2>2 DEF CountedPending, TakenBack, WithStatus, InPayouts
  <2>7. /\ CountedAvailable(req[r]) \in SUBSET Commissions
        /\ CountedPending(req[r]) \in SUBSET Commissions
        /\ TakenBack(req[r]) \in SUBSET Commissions
    BY <1>0, CountedSets
  <2>8. Worth(owed) \in Nat /\ -Worth(owed) \in Int /\ 0 \in Int
    BY <2>3, WorthType
  <2>9. /\ wallet'[agent].available = wallet[agent].available + (-Worth(owed))
        /\ wallet'[agent].pending = wallet[agent].pending + 0
        /\ \A b \in Agents : b # agent => wallet'[b] = wallet[b]
    BY <1>0, <2>1, <2>3, <2>8, IncrementIs
  <2>10. ASSUME NEW a \in Agents
         PROVE  /\ wallet'[a].available - wallet[a].available =
                     Worth(OfAgent(a, CountedAvailable(req[r])'))
                       - Worth(OfAgent(a, CountedAvailable(req[r])))
                       - Worth(OfAgent(a, TakenBack(req[r])')) + Worth(OfAgent(a, TakenBack(req[r])))
                /\ wallet'[a].pending - wallet[a].pending =
                     Worth(OfAgent(a, CountedPending(req[r])')) - Worth(OfAgent(a, CountedPending(req[r])))
    <3>1. wallet[a].available \in Int /\ wallet[a].pending \in Int
      BY <1>0 DEF Balances
    <3>2. /\ Worth(OfAgent(a, CountedAvailable(req[r]))) \in Nat
          /\ Worth(OfAgent(a, WithStatus("AVAILABLE"))) \in Nat
          /\ Worth(OfAgent(a, CountedPending(req[r]))) \in Nat
          /\ Worth(OfAgent(a, TakenBack(req[r]))) \in Nat
      BY <2>5, <2>7, CountedType
    <3>3. CASE a = agent
      <4>1. OfAgent(a, CountedAvailable(req[r])) = OfAgent(a, WithStatus("AVAILABLE")) \cup owed
        BY <2>3, <2>4, <3>3 DEF OfAgent
      <4>2. /\ OfAgent(a, WithStatus("AVAILABLE")) \in SUBSET Commissions
            /\ OfAgent(a, WithStatus("AVAILABLE")) \cap owed = {}
        BY <2>5 DEF OfAgent
      <4>3. Worth(OfAgent(a, WithStatus("AVAILABLE")) \cup owed) =
              Worth(OfAgent(a, WithStatus("AVAILABLE"))) + Worth(owed)
        BY <2>3, <4>2, WorthUnion
      <4>4. wallet'[a].available - wallet[a].available = -Worth(owed)
        BY <2>8, <2>9, <3>1, <3>3
      <4>5. Worth(OfAgent(a, CountedAvailable(req[r])')) - Worth(OfAgent(a, CountedAvailable(req[r])))
              = -Worth(owed)
        <5> DEFINE x == Worth(OfAgent(a, WithStatus("AVAILABLE")))
        <5>1. Worth(OfAgent(a, CountedAvailable(req[r])')) = x
          BY <2>4
        <5>2. Worth(OfAgent(a, CountedAvailable(req[r]))) = x + Worth(owed)
          BY <4>1, <4>3
        <5>3. x \in Nat
          BY <3>2
        <5> HIDE DEF x
        <5>4. x - (x + Worth(owed)) = -Worth(owed)
          BY <2>8, <5>3
        <5>5. QED
          BY <5>1, <5>2, <5>4
      <4>6. wallet'[a].pending - wallet[a].pending = 0
        BY <2>9, <3>1, <3>3
      <4>7. QED
        BY <2>6, <2>8, <3>2, <4>4, <4>5, <4>6
    <3>4. CASE a # agent
      <4>1. OfAgent(a, CountedAvailable(req[r])) = OfAgent(a, WithStatus("AVAILABLE"))
        BY <2>3, <2>4, <3>4 DEF OfAgent
      <4>2. QED
        BY <2>4, <2>6, <2>9, <3>1, <3>2, <3>4, <4>1
    <3>5. QED
      BY <3>3, <3>4
  <2>11. CopyIsCurrent(req[r])'
    BY <2>2 DEF CopyIsCurrent
  <2>12. \A a \in Agents : /\ Asking(req[r], a)' = Asking(req[r], a)
                           /\ Sending(req[r], a)' = Sending(req[r], a)
    BY <2>1, <2>2 DEF Asking, Sending
  <2>13. /\ CountedAvailable(req[r])' \in SUBSET Commissions
         /\ CountedPending(req[r])' \in SUBSET Commissions
         /\ TakenBack(req[r])' \in SUBSET Commissions
    BY <2>4, <2>5, <2>6, <2>7
  <2>14. UNCHANGED withdrawals
    BY <2>1
  <2>15. QED
    BY <2>10, <2>11, <2>12, <2>13, <2>14, MoneyMoves
<1>5. CASE BatchLink(r)
  <2>1. /\ req[r].pc = "batch.link" /\ req' = [req EXCEPT ![r].pc = "batch.wallet"]
        /\ UNCHANGED <<wallet, payouts, withdrawals, reversed>>
    BY <1>5 DEF BatchLink, At, Goto
  <2>2. req'[r].pc = "batch.wallet" /\ OwedBy(req'[r]) = OwedBy(req[r])
    BY <1>0, <2>1 DEF RequestStates, OwedBy, OwedTo
  <2>3. \A status : WithStatus(status)' = WithStatus(status)
    BY <1>0, <1>5, LinkIs DEF WithStatus
  <2>4. CountedAvailable(req[r])' = CountedAvailable(req[r])
    BY <2>1, <2>2, <2>3 DEF CountedAvailable, Paying
  <2>5. CountedPending(req[r])' = CountedPending(req[r])
    BY <2>1, <2>2, <2>3 DEF CountedPending
  <2>6. TakenBack(req[r])' = TakenBack(req[r])
    BY <2>1, <2>2 DEF TakenBack, InPayouts
  <2>7. CopyIsCurrent(req[r])'
    BY <2>2 DEF CopyIsCurrent
  <2>8. \A a \in Agents : /\ Asking(req[r], a)' = Asking(req[r], a)
                          /\ Sending(req[r], a)' = Sending(req[r], a)
    BY <2>1, <2>2 DEF Asking, Sending
  <2>9. UNCHANGED <<wallet, withdrawals>>
    BY <2>1
  <2>10. QED
    BY <2>4, <2>5, <2>6, <2>7, <2>8, <2>9, MoneyStays
<1>6. QED
  BY <1>1, <1>2, <1>3, <1>4, <1>5 DEF Batch

\* A payout that is confirmed.
LEMMA MoneyConfirm ==
  ASSUME TypeInv, TypeInv', LedgerInv, FlowInv, MoneyInv, NEW r, Requests = {r},
         (\E n \in DOMAIN payouts : StartConfirm(r, n)) \/ Confirm(r)
  PROVE  MoneyInv'
<1>0. /\ req[r] \in RequestStates /\ com \in [Commissions -> CommissionStates] /\ r \in Requests
      /\ req \in [Requests -> RequestStates]
  BY DEF TypeInv, TypeOK
<1>1. /\ \E q : req' = [req EXCEPT ![r] = q]
      /\ req'[r].pc \in {"idle", "confirm.save", "confirm.commissions", "refresh.read", "refresh.save"}
      /\ req[r].pc \in {"idle", "confirm.save", "confirm.commissions", "refresh.read", "refresh.save"}
      /\ UNCHANGED <<wallet, withdrawals, reversed>>
  <2>1. ASSUME NEW n \in DOMAIN payouts, StartConfirm(r, n)
        PROVE  /\ \E q : req' = [req EXCEPT ![r] = q]
               /\ req'[r].pc = "confirm.save" /\ req[r].pc = "idle"
               /\ UNCHANGED <<wallet, withdrawals, reversed>>
    BY <1>0, <2>1 DEF StartConfirm, Begin, IdleRequest
  <2>2. ASSUME NEW pc, Goto(r, pc)
        PROVE  (\E q : req' = [req EXCEPT ![r] = q]) /\ req'[r].pc = pc
    <3> DEFINE q == [req[r] EXCEPT !.pc = pc]
    <3>1. req' = [req EXCEPT ![r] = q] /\ req'[r].pc = pc
      BY <1>0, <2>2 DEF Goto, RequestStates
    <3> HIDE DEF q
    <3>2. QED
      BY <3>1
  <2>3. CASE ConfirmSave(r) \/ ConfirmCommissions(r)
    BY <2>2, <2>3 DEF ConfirmSave, ConfirmCommissions, At
  <2>4. CASE RefreshRead(r)
    <3> DEFINE q == [req[r] EXCEPT !.pc = "refresh.save", !.batch = payouts[req[r].document].batch,
                                   !.status = BatchStatus(payouts[req[r].document].batch)]
    <3>1. req' = [req EXCEPT ![r] = q] /\ req'[r].pc = "refresh.save"
      BY <1>0, <2>4 DEF RefreshRead, RequestStates
    <3> HIDE DEF q
    <3>2. QED
      BY <2>4, <3>1 DEF RefreshRead, At
  <2>5. CASE RefreshSave(r)
    BY <1>0, <2>5 DEF RefreshSave, Finish, IdleRequest, At
  <2>6. QED
    BY <2>1, <2>3, <2>4, <2>5 DEF Confirm
<1>2. /\ WithStatus("AVAILABLE")' = WithStatus("AVAILABLE")
      /\ WithStatus("PENDING")' = WithStatus("PENDING")
      /\ WithStatus("BLOCKED")' = WithStatus("BLOCKED")
  <2>1. CASE ConfirmCommissions(r)
    <3> DEFINE C == payouts[req[r].document].commissions
    <3>1. com' = [c \in Commissions |-> IF c \in C THEN [com[c] EXCEPT !.status = "PAID"] ELSE com[c]]
      BY <2>1 DEF ConfirmCommissions
    <3>2. req[r].document \in DOMAIN payouts
      BY <2>1, <1>0 DEF ConfirmCommissions, At, LedgerInv, Knows, Confirming
    <3>3. \A c \in C : com[c].status \in {"RESERVED", "PAID", "REVERSED"}
      BY <3>2 DEF LedgerInv, PayoutsAreReserved
    <3> HIDE DEF C
    <3>4. \A c \in Commissions : /\ c \in C => com'[c].status = "PAID"
                                 /\ c \notin C => com'[c] = com[c]
      BY <1>0, <3>1 DEF CommissionStates
    <3>5. QED
      BY <3>3, <3>4 DEF WithStatus
  <2>2. CASE UNCHANGED com
    BY <2>2 DEF WithStatus
  <2>3. QED
    BY <2>1, <2>2 DEF StartConfirm, Confirm, ConfirmSave, RefreshRead, RefreshSave
<1>3. InPayouts' = InPayouts
  <2>1. CASE ConfirmSave(r)
    <3>1. payouts' = [payouts EXCEPT ![req[r].document].paid = TRUE]
      BY <2>1 DEF ConfirmSave
    <3>2. DOMAIN payouts' = DOMAIN payouts
      BY <3>1
    <3>3. \A n \in DOMAIN payouts : payouts'[n].commissions = payouts[n].commissions
      <4>1. \A n \in DOMAIN payouts : payouts[n] \in Payouts
        BY DEF LedgerInv
      <4>2. QED
        BY <3>1, <4>1 DEF Payouts
    <3>4. QED
      BY <3>2, <3>3 DEF InPayouts
  <2>2. CASE UNCHANGED payouts
    BY <2>2 DEF InPayouts
  <2>3. QED
    BY <2>1, <2>2 DEF StartConfirm, Confirm, ConfirmCommissions, RefreshRead, RefreshSave
<1>4. CountedAvailable(req[r])' = CountedAvailable(req[r])
  BY <1>1, <1>2 DEF CountedAvailable, Paying
<1>5. CountedPending(req[r])' = CountedPending(req[r])
  BY <1>1, <1>2 DEF CountedPending
<1>6. TakenBack(req[r])' = TakenBack(req[r])
  BY <1>1, <1>3 DEF TakenBack
<1>7. CopyIsCurrent(req[r])'
  BY <1>1 DEF CopyIsCurrent
<1>8. \A a \in Agents : /\ Asking(req[r], a)' = Asking(req[r], a)
                        /\ Sending(req[r], a)' = Sending(req[r], a)
  BY <1>1 DEF Asking, Sending
<1>9. UNCHANGED <<wallet, withdrawals>>
  BY <1>1
<1>10. QED
  BY <1>4, <1>5, <1>6, <1>7, <1>8, <1>9, MoneyStays

\* What a withdrawal takes from a balance is what it asks for.
WithdrawalMoves(r) ==
  \A a \in Agents :
    /\ Asked(a, BOOLEAN)' \in Nat /\ Asked(a, {FALSE})' \in Nat
    /\ wallet'[a].available + Asked(a, BOOLEAN)' + Asking(req[r], a)' =
         wallet[a].available + Asked(a, BOOLEAN) + Asking(req[r], a)
    /\ wallet'[a].pending - Asked(a, {FALSE})' - Asking(req[r], a)' + Sending(req[r], a)' =
         wallet[a].pending - Asked(a, {FALSE}) - Asking(req[r], a) + Sending(req[r], a)

\* A step of a withdrawal that moves what it asks for.
LEMMA MoneyAsks ==
  ASSUME TypeInv, TypeInv', LedgerInv, FlowInv, MoneyInv, NEW r, Requests = {r},
         UNCHANGED <<com, payouts, reversed>>, req[r].pc \in Withdrawal,
         req'[r].pc \in Withdrawal \cup {"idle"},
         CopyIsCurrent(req[r])', SalesCover(req[r])', WithdrawalMoves(r)
  PROVE  MoneyInv'
<1>1. r \in Requests /\ Balanced(req[r])
  BY DEF MoneyInv
<1>2. /\ CountedAvailable(req[r])' = CountedAvailable(req[r])
      /\ CountedPending(req[r])' = CountedPending(req[r])
      /\ TakenBack(req[r])' = TakenBack(req[r])
  BY DEF CountedAvailable, CountedPending, TakenBack, WithStatus, InPayouts, Paying, Withdrawal
<1>3. \A a \in Agents :
        /\ OfAgent(a, CountedAvailable(req[r]))' = OfAgent(a, CountedAvailable(req[r]))
        /\ OfAgent(a, CountedPending(req[r]))' = OfAgent(a, CountedPending(req[r]))
        /\ OfAgent(a, TakenBack(req[r]))' = OfAgent(a, TakenBack(req[r]))
  BY <1>2 DEF OfAgent
<1>4. \A a \in Agents :
        /\ Worth(OfAgent(a, CountedAvailable(req[r])))' = Worth(OfAgent(a, CountedAvailable(req[r])))
        /\ Worth(OfAgent(a, CountedPending(req[r])))' = Worth(OfAgent(a, CountedPending(req[r])))
        /\ Worth(OfAgent(a, TakenBack(req[r])))' = Worth(OfAgent(a, TakenBack(req[r])))
  BY <1>3 DEF Worth, MapThenSumSet, MapThenFoldSet
<1>5. Balanced(req[r])'
  <2> SUFFICES ASSUME NEW a \in Agents
               PROVE  /\ wallet'[a].available <=
                           Sales - Asked(a, BOOLEAN)' - Asking(req[r], a)'
                             + Worth(OfAgent(a, CountedAvailable(req[r])))
                             - Worth(OfAgent(a, TakenBack(req[r])))
                      /\ PromptResume =>
                           /\ wallet'[a].available =
                                Sales - Asked(a, BOOLEAN)' - Asking(req[r], a)'
                                  + Worth(OfAgent(a, CountedAvailable(req[r])))
                                  - Worth(OfAgent(a, TakenBack(req[r])))
                           /\ wallet'[a].pending =
                                Worth(OfAgent(a, CountedPending(req[r]))) + Asked(a, {FALSE})'
                                  + Asking(req[r], a)' - Sending(req[r], a)'
    BY <1>4 DEF Balanced, AvailableCount, PendingCount
  <2> DEFINE w == wallet[a].available
             v == wallet'[a].available
             x == wallet[a].pending
             y == wallet'[a].pending
             k == Asked(a, BOOLEAN)
             l == Asked(a, BOOLEAN)'
             f == Asked(a, {FALSE})
             g == Asked(a, {FALSE})'
             m == Asking(req[r], a)
             n == Asking(req[r], a)'
             s == Sending(req[r], a)
             t == Sending(req[r], a)'
             C == Worth(OfAgent(a, CountedAvailable(req[r])))
             D == Worth(OfAgent(a, CountedPending(req[r])))
             T == Worth(OfAgent(a, TakenBack(req[r])))
  <2>1. /\ wallet[a] \in Balances /\ wallet'[a] \in Balances
        /\ req[r] \in RequestStates /\ req'[r] \in RequestStates
    BY <1>1 DEF TypeInv, TypeOK
  <2>2. w \in Int /\ v \in Int /\ x \in Int /\ y \in Int
    BY <2>1 DEF Balances
  <2>3. m \in Nat /\ n \in Nat /\ s \in Nat /\ t \in Nat
    BY <2>1 DEF RequestStates, Asking, Sending
  <2>4. C \in Nat /\ D \in Nat /\ T \in Nat
    BY <1>1, CountedSets, CountedType
  <2>5. k \in Nat /\ f \in Nat
    BY AskedType DEF TypeInv, TypeOK
  <2>6. /\ w <= Sales - k - m + C - T
        /\ PromptResume => w = Sales - k - m + C - T /\ x = D + f + m - s
    BY <1>1 DEF Balanced, AvailableCount, PendingCount
  <2>7. l \in Nat /\ g \in Nat /\ v + l + n = w + k + m /\ y - g - n + t = x - f - m + s
    BY DEF WithdrawalMoves
  <2> HIDE DEF w, v, x, y, k, l, f, g, m, n, s, t, C, D, T
  <2>8. v <= Sales - l - n + C - T
    <3>1. w + k + m <= Sales + C - T
      BY <2>2, <2>3, <2>4, <2>5, <2>6, SalesAssumption
    <3>2. v + l + n <= Sales + C - T
      BY <2>7, <3>1
    <3>3. QED
      BY <2>2, <2>3, <2>4, <2>7, <3>2, SalesAssumption
  <2>9. ASSUME PromptResume PROVE v = Sales - l - n + C - T
    <3>1. w + k + m = Sales + C - T
      BY <2>2, <2>3, <2>4, <2>5, <2>6, <2>9, SalesAssumption
    <3>2. v + l + n = Sales + C - T
      BY <2>7, <3>1
    <3>3. QED
      BY <2>2, <2>3, <2>4, <2>7, <3>2, SalesAssumption
  <2>10. ASSUME PromptResume PROVE y = D + g + n - t
    <3>1. x - f - m + s = D
      BY <2>2, <2>3, <2>4, <2>5, <2>6, <2>10
    <3>2. y - g - n + t = D
      BY <2>7, <3>1
    <3>3. QED
      BY <2>2, <2>3, <2>4, <2>7, <3>2
  <2>11. QED
    BY <2>8, <2>9, <2>10 DEF v, y, l, g, n, t, C, D, T
<1>6. QED
  BY <1>5 DEF MoneyInv

\* What is being withdrawn has been sold.
LEMMA EnoughSold ==
  ASSUME TypeInv, LedgerInv, FlowInv, MoneyInv, NEW r \in Requests, req[r].pc = "withdraw.check",
         ~(req[r].amount > req[r].copy.available - Locked(req[r].agent))
  PROVE  Asked(req[r].agent, BOOLEAN) + req[r].amount <= Sales
<1> DEFINE a == req[r].agent
           k == Asked(a, BOOLEAN)
           n == req[r].amount
           w == wallet[a].available
           l == Locked(a)
           C == Worth(OfAgent(a, WithStatus("AVAILABLE")))
           T == Worth(OfAgent(a, TakenBack(req[r])))
<1>1. req[r] \in RequestStates /\ a \in Agents /\ wallet \in [Agents -> Balances]
  BY DEF TypeInv, TypeOK, Typed, Withdrawal
<1>2. n \in Nat /\ w \in Int /\ k \in Nat
  BY <1>1, AskedType DEF RequestStates, Balances, TypeInv, TypeOK
<1>3. C <= l /\ l \in Nat
  BY LockedCovers
<1>4. T \in Nat /\ C \in Nat
  <2>1. WithStatus("AVAILABLE") \in SUBSET Commissions
    BY DEF WithStatus
  <2>2. QED
    BY <2>1, CountedSets, CountedType
<1>5. n <= w - l
  <2>1. req[r].copy = wallet[a]
    BY DEF MoneyInv, CopyIsCurrent
  <2>2. ~(n > w - l)
    BY <2>1
  <2> HIDE DEF n, w, l
  <2>3. QED
    BY <1>2, <1>3, <2>2
<1>6. CountedAvailable(req[r]) = WithStatus("AVAILABLE") /\ Asking(req[r], a) = 0
  BY DEF CountedAvailable, Asking, Paying
<1>7. w <= Sales - k - 0 + C - T
  BY <1>1, <1>6 DEF MoneyInv, Balanced, AvailableCount
<1> HIDE DEF a, k, n, w, l, C, T
<1>8. k + n <= Sales
  BY <1>2, <1>3, <1>4, <1>5, <1>7, SalesAssumption
<1>9. QED
  BY <1>8 DEF k, n, a

\* What is still to be sent after one is completed is a number.
LEMMA StillAskedType ==
  ASSUME withdrawals \in Seq(Withdrawals), NEW k \in DOMAIN withdrawals,
         withdrawals' = [withdrawals EXCEPT ![k].completed = TRUE], NEW a
  PROVE  Asked(a, {FALSE})' \in Nat
<1> DEFINE g == [n \in DOMAIN withdrawals' |-> withdrawals'[n].amount]
           M == {n \in DOMAIN withdrawals' :
                   withdrawals'[n].agent = a /\ withdrawals'[n].completed \in {FALSE}}
<1>1. \A n \in DOMAIN withdrawals : withdrawals[n] \in Withdrawals
  OBVIOUS
<1>2. /\ DOMAIN withdrawals' = DOMAIN withdrawals
      /\ \A n \in DOMAIN withdrawals : n # k => withdrawals'[n] = withdrawals[n]
      /\ withdrawals'[k] = [withdrawals[k] EXCEPT !.completed = TRUE]
  OBVIOUS
<1>3. withdrawals'[k].completed = TRUE
  BY <1>1, <1>2 DEF Withdrawals
<1>4. \A n \in M : g[n] \in Nat
  <2>1. \A n \in M : n \in DOMAIN withdrawals /\ n # k
    BY <1>2, <1>3
  <2>2. QED
    BY <1>1, <1>2, <2>1 DEF Withdrawals
<1>5. IsFiniteSet(M)
  <2>1. DOMAIN withdrawals = 1..Len(withdrawals) /\ Len(withdrawals) \in Nat
    OBVIOUS
  <2>2. IsFiniteSet(DOMAIN withdrawals)
    BY <2>1, FS_Interval
  <2>3. M \in SUBSET DOMAIN withdrawals
    BY <1>2
  <2>4. QED
    BY <2>2, <2>3, FS_Subset
<1>6. Asked(a, {FALSE})' = SumFunctionOnSet(g, M)
  BY DEF Asked
<1> HIDE DEF g, M
<1>7. QED
  BY <1>4, <1>5, <1>6, SumNat

\* A withdrawal that is asked for.
LEMMA MoneyAsked ==
  ASSUME TypeInv, TypeInv', LedgerInv, FlowInv, MoneyInv, NEW r, Requests = {r},
         \/ \E a \in Agents, amount \in Amounts : StartWithdrawal(r, a, amount)
         \/ WithdrawCheck(r) \/ WithdrawSave(r) \/ WithdrawCreate(r)
  PROVE  MoneyInv'
<1>0. /\ req[r] \in RequestStates /\ r \in Requests /\ Typed(req[r])
      /\ req \in [Requests -> RequestStates] /\ wallet \in [Agents -> Balances]
      /\ withdrawals \in Seq(Withdrawals)
      /\ CopyIsCurrent(req[r]) /\ Balanced(req[r]) /\ SalesCover(req[r])
  BY DEF TypeInv, TypeOK, MoneyInv
<1>1. ASSUME NEW q, req' = [req EXCEPT ![r] = q], Apart(q), Apart(req[r]), CopyIsCurrent(q),
             UNCHANGED <<com, wallet, payouts, withdrawals, reversed>>
      PROVE  MoneyInv'
  <2>1. (\A status : WithStatus(status)' = WithStatus(status)) /\ InPayouts' = InPayouts
    BY <1>1 DEF WithStatus, InPayouts
  <2>2. QED
    BY <1>1, <2>1, MoneyGoes
<1>2. ASSUME NEW a \in Agents, NEW amount \in Amounts, StartWithdrawal(r, a, amount)
      PROVE  MoneyInv'
  <2> DEFINE q == [IdleRequest EXCEPT !.pc = "withdraw.check", !.agent = a, !.amount = amount,
                                      !.copy = wallet[a]]
  <2>1. /\ req' = [req EXCEPT ![r] = q] /\ req[r].pc = "idle"
        /\ UNCHANGED <<com, wallet, payouts, withdrawals, reversed>>
    BY <1>2 DEF StartWithdrawal, Begin
  <2>2. q.pc = "withdraw.check" /\ q.agent = a /\ q.copy = wallet[a]
    BY DEF IdleRequest
  <2> HIDE DEF q
  <2>3. CopyIsCurrent(q) /\ Apart(q) /\ Apart(req[r])
    BY <2>1, <2>2 DEF CopyIsCurrent, Apart, Paying
  <2>4. QED
    BY <1>1, <2>1, <2>3
<1>3. CASE WithdrawCheck(r)
  <2>1. req[r].pc = "withdraw.check" /\ UNCHANGED <<com, wallet, payouts, withdrawals, reversed>>
    BY <1>3 DEF WithdrawCheck, At
  <2>2. CASE Finish(r)
    <3>1. CopyIsCurrent(IdleRequest) /\ Apart(IdleRequest) /\ Apart(req[r])
      BY <2>1 DEF CopyIsCurrent, Apart, Paying, IdleRequest
    <3>2. QED
      BY <1>1, <2>1, <2>2, <3>1 DEF Finish
  <2>3. CASE Goto(r, "withdraw.save") /\ ~(req[r].amount > req[r].copy.available - Locked(req[r].agent))
    <3> DEFINE q == [req[r] EXCEPT !.pc = "withdraw.save"]
    <3>1. req' = [req EXCEPT ![r] = q]
      BY <1>0, <2>3 DEF Goto
    <3>2. /\ q.pc = "withdraw.save" /\ q.copy = req[r].copy /\ q.agent = req[r].agent
          /\ q.amount = req[r].amount
      BY <1>0 DEF RequestStates
    <3> HIDE DEF q
    <3>3. Asked(req[r].agent, BOOLEAN) + req[r].amount <= Sales
      BY <1>0, <2>1, <2>3, EnoughSold
    <3>4. CopyIsCurrent(q)
      BY <1>0, <2>1, <3>2, <3>3 DEF CopyIsCurrent
    <3>5. Apart(q) /\ Apart(req[r])
      BY <2>1, <3>2 DEF Apart, Paying
    <3>6. QED
      BY <1>1, <2>1, <3>1, <3>4, <3>5
  <2>4. QED
    BY <1>3, <2>2, <2>3 DEF WithdrawCheck
<1>4. CASE WithdrawSave(r)
  <2> DEFINE agent == req[r].agent
             amount == req[r].amount
  <2>1. req[r].pc = "withdraw.save" /\ UNCHANGED <<com, payouts, withdrawals, reversed>>
    BY <1>4 DEF WithdrawSave, At
  <2>2. req'[r].pc = "withdraw.create" /\ req'[r].agent = agent /\ req'[r].amount = amount
    BY <1>0, <1>4 DEF WithdrawSave, Goto, RequestStates
  <2>3. req[r].copy = wallet[agent] /\ agent \in Agents /\ amount \in Nat
    BY <1>0, <2>1 DEF CopyIsCurrent, Typed, Withdrawal, RequestStates
  <2>4. /\ wallet'[agent].available = wallet[agent].available - amount
        /\ wallet'[agent].pending = wallet[agent].pending + amount
        /\ \A a \in Agents : a # agent => wallet'[a] = wallet[a]
    BY <1>0, <1>4, <2>3 DEF WithdrawSave
  <2>5. Asked(agent, BOOLEAN) + amount <= Sales
    BY <1>0, <2>1 DEF CopyIsCurrent
  <2> HIDE DEF agent, amount
  <2>6. \A a, completed : Asked(a, completed)' = Asked(a, completed)
    BY <2>1 DEF Asked
  <2>7. \A a \in Agents :
          /\ Asking(req[r], a) = 0 /\ Sending(req[r], a) = 0 /\ Sending(req[r], a)' = 0
          /\ Asking(req[r], a)' = IF a = agent THEN amount ELSE 0
    BY <2>1, <2>2 DEF Asking, Sending
  <2>8. \A a \in Agents : Asked(a, BOOLEAN) \in Nat /\ Asked(a, {FALSE}) \in Nat
    BY <1>0, AskedType
  <2>9. \A a \in Agents : wallet[a].available \in Int /\ wallet[a].pending \in Int
    BY <1>0 DEF Balances
  <2>10. WithdrawalMoves(r)
    <3> SUFFICES ASSUME NEW a \in Agents
                 PROVE  /\ wallet'[a].available + Asked(a, BOOLEAN) + Asking(req[r], a)' =
                             wallet[a].available + Asked(a, BOOLEAN) + 0
                        /\ wallet'[a].pending - Asked(a, {FALSE}) - Asking(req[r], a)' + 0 =
                             wallet[a].pending - Asked(a, {FALSE}) - 0 + 0
      BY <2>6, <2>7, <2>8 DEF WithdrawalMoves
    <3>1. CASE a = agent
      BY <2>3, <2>4, <2>7, <2>8, <2>9, <3>1
    <3>2. CASE a # agent
      BY <2>4, <2>7, <2>8, <2>9, <3>2
    <3>3. QED
      BY <3>1, <3>2
  <2>11. SalesCover(req[r])'
    <3> SUFFICES ASSUME NEW a \in Agents PROVE Asked(a, BOOLEAN) + Asking(req[r], a)' <= Sales
      BY <2>6 DEF SalesCover
    <3>1. CASE a = agent
      BY <2>5, <2>7, <3>1
    <3>2. CASE a # agent
      BY <1>0, <2>7, <3>2 DEF SalesCover
    <3>3. QED
      BY <3>1, <3>2
  <2>12. CopyIsCurrent(req[r])'
    BY <2>2 DEF CopyIsCurrent
  <2>13. req[r].pc \in Withdrawal /\ req'[r].pc \in Withdrawal \cup {"idle"}
    BY <2>1, <2>2 DEF Withdrawal
  <2>14. QED
    BY <2>1, <2>10, <2>11, <2>12, <2>13, MoneyAsks
<1>5. CASE WithdrawCreate(r)
  <2> DEFINE agent == req[r].agent
             amount == req[r].amount
             w == [agent |-> agent, amount |-> amount, completed |-> FALSE]
  <2>1. /\ req[r].pc = "withdraw.create" /\ UNCHANGED <<com, wallet, payouts, reversed>>
        /\ withdrawals' = Append(withdrawals, w)
    BY <1>5 DEF WithdrawCreate, At
  <2>2. req'[r].pc = "idle"
    BY <1>0, <1>5 DEF WithdrawCreate, Finish, IdleRequest
  <2>3. agent \in Agents /\ amount \in Nat
    BY <1>0, <2>1 DEF Typed, Withdrawal, RequestStates
  <2>4. w \in Withdrawals /\ w.completed = FALSE /\ w.agent = agent /\ w.amount = amount
    BY <2>3 DEF Withdrawals
  <2> HIDE DEF w
  <2>5. \A a \in Agents :
          /\ Asked(a, BOOLEAN)' = Asked(a, BOOLEAN) + (IF agent = a THEN amount ELSE 0)
          /\ Asked(a, {FALSE})' = Asked(a, {FALSE}) + (IF agent = a THEN amount ELSE 0)
    <3>1. /\ withdrawals \in Seq(Withdrawals) /\ w \in Withdrawals /\ ~w.completed
          /\ withdrawals' = Append(withdrawals, w) /\ FALSE \in BOOLEAN /\ FALSE \in {FALSE}
      BY <1>0, <2>1, <2>4
    <3>2. \A completed : FALSE \in completed =>
            \A a : Asked(a, completed)' = Asked(a, completed) + (IF w.agent = a THEN w.amount ELSE 0)
      BY <3>1, AskedAppend, Zenon
    <3>3. \A a \in Agents :
            Asked(a, BOOLEAN)' = Asked(a, BOOLEAN) + (IF w.agent = a THEN w.amount ELSE 0)
      BY <3>1, <3>2
    <3>4. \A a \in Agents :
            Asked(a, {FALSE})' = Asked(a, {FALSE}) + (IF w.agent = a THEN w.amount ELSE 0)
      BY <3>1, <3>2
    <3>5. QED
      BY <2>4, <3>3, <3>4
  <2> HIDE DEF agent, amount
  <2>6. \A a \in Agents :
          /\ Asking(req[r], a)' = 0 /\ Sending(req[r], a) = 0 /\ Sending(req[r], a)' = 0
          /\ Asking(req[r], a) = IF a = agent THEN amount ELSE 0
    BY <2>1, <2>2 DEF Asking, Sending, agent, amount
  <2>7. \A a \in Agents : Asked(a, BOOLEAN) \in Nat /\ Asked(a, {FALSE}) \in Nat
    BY <1>0, AskedType
  <2>8. \A a \in Agents : wallet[a].available \in Int /\ wallet[a].pending \in Int /\ wallet' = wallet
    BY <1>0, <2>1 DEF Balances
  <2>9. ASSUME NEW a \in Agents
        PROVE  /\ Asked(a, BOOLEAN)' = Asked(a, BOOLEAN) + Asking(req[r], a)
               /\ Asked(a, {FALSE})' = Asked(a, {FALSE}) + Asking(req[r], a)
               /\ Asking(req[r], a) \in Nat
    BY <2>3, <2>5, <2>6
  <2>10. WithdrawalMoves(r)
    BY <2>6, <2>7, <2>8, <2>9 DEF WithdrawalMoves
  <2>11. SalesCover(req[r])'
    <3> SUFFICES ASSUME NEW a \in Agents PROVE Asked(a, BOOLEAN)' + Asking(req[r], a)' <= Sales
      BY DEF SalesCover
    <3>1. Asked(a, BOOLEAN) + Asking(req[r], a) <= Sales
      BY <1>0 DEF SalesCover
    <3>2. QED
      BY <2>6, <2>7, <2>9, <3>1, SalesAssumption
  <2>12. CopyIsCurrent(req[r])'
    BY <2>2 DEF CopyIsCurrent
  <2>13. req[r].pc \in Withdrawal /\ req'[r].pc \in Withdrawal \cup {"idle"}
    BY <2>1, <2>2 DEF Withdrawal
  <2>14. QED
    BY <2>1, <2>10, <2>11, <2>12, <2>13, MoneyAsks
<1>6. QED
  BY <1>2, <1>3, <1>4, <1>5

\* A withdrawal that is completed.
LEMMA MoneyCompleted ==
  ASSUME TypeInv, TypeInv', LedgerInv, FlowInv, MoneyInv, NEW r, Requests = {r},
         \/ \E n \in DOMAIN withdrawals : StartComplete(r, n)
         \/ CompleteCheck(r) \/ CompleteWallet(r) \/ CompleteSave(r)
  PROVE  MoneyInv'
<1>0. /\ req[r] \in RequestStates /\ r \in Requests /\ Typed(req[r])
      /\ req \in [Requests -> RequestStates] /\ wallet \in [Agents -> Balances]
      /\ withdrawals \in Seq(Withdrawals)
      /\ CopyIsCurrent(req[r]) /\ Balanced(req[r]) /\ SalesCover(req[r])
  BY DEF TypeInv, TypeOK, MoneyInv
<1>1. ASSUME NEW q, req' = [req EXCEPT ![r] = q], Apart(q), Apart(req[r]), CopyIsCurrent(q),
             UNCHANGED <<com, wallet, payouts, withdrawals, reversed>>
      PROVE  MoneyInv'
  <2>1. (\A status : WithStatus(status)' = WithStatus(status)) /\ InPayouts' = InPayouts
    BY <1>1 DEF WithStatus, InPayouts
  <2>2. QED
    BY <1>1, <2>1, MoneyGoes
<1>2. ASSUME NEW n \in DOMAIN withdrawals, StartComplete(r, n)
      PROVE  MoneyInv'
  <2> DEFINE q == [IdleRequest EXCEPT !.pc = "complete.check", !.document = n,
                                      !.agent = withdrawals[n].agent,
                                      !.amount = withdrawals[n].amount]
  <2>1. /\ req' = [req EXCEPT ![r] = q] /\ req[r].pc = "idle" /\ ~withdrawals[n].completed
        /\ UNCHANGED <<com, wallet, payouts, withdrawals, reversed>>
    BY <1>2 DEF StartComplete, Begin
  <2>2. /\ q.pc = "complete.check" /\ q.document = n /\ q.agent = withdrawals[n].agent
        /\ q.amount = withdrawals[n].amount
    BY DEF IdleRequest
  <2> HIDE DEF q
  <2>3. withdrawals[n] \in Withdrawals
    BY <1>0
  <2>4. withdrawals[n] = [agent |-> q.agent, amount |-> q.amount, completed |-> FALSE]
    BY <2>1, <2>2, <2>3 DEF Withdrawals
  <2>5. CopyIsCurrent(q) /\ Apart(q) /\ Apart(req[r])
    BY <2>1, <2>2, <2>4 DEF CopyIsCurrent, Apart, Paying
  <2>6. QED
    BY <1>1, <2>1, <2>5
<1>3. CASE CompleteCheck(r)
  <2>1. req[r].pc = "complete.check" /\ UNCHANGED <<com, wallet, payouts, withdrawals, reversed>>
    BY <1>3 DEF CompleteCheck, At
  <2>2. CASE Finish(r)
    <3>1. CopyIsCurrent(IdleRequest) /\ Apart(IdleRequest) /\ Apart(req[r])
      BY <2>1 DEF CopyIsCurrent, Apart, Paying, IdleRequest
    <3>2. QED
      BY <1>1, <2>1, <2>2, <3>1 DEF Finish
  <2>3. CASE req' = [req EXCEPT ![r].pc = "complete.wallet", ![r].copy = wallet[req[r].agent]]
    <3> DEFINE q == [req[r] EXCEPT !.pc = "complete.wallet", !.copy = wallet[req[r].agent]]
    <3>1. req' = [req EXCEPT ![r] = q]
      BY <1>0, <2>3
    <3>2. /\ q.pc = "complete.wallet" /\ q.copy = wallet[req[r].agent] /\ q.agent = req[r].agent
          /\ q.amount = req[r].amount /\ q.document = req[r].document
      BY <1>0 DEF RequestStates
    <3> HIDE DEF q
    <3>3. CopyIsCurrent(q)
      BY <1>0, <2>1, <3>2 DEF CopyIsCurrent
    <3>4. Apart(q) /\ Apart(req[r])
      BY <2>1, <3>2 DEF Apart, Paying
    <3>5. QED
      BY <1>1, <2>1, <3>1, <3>3, <3>4
  <2>4. QED
    BY <1>3, <2>2, <2>3 DEF CompleteCheck
<1>4. CASE CompleteWallet(r)
  <2> DEFINE agent == req[r].agent
             amount == req[r].amount
  <2>1. req[r].pc = "complete.wallet" /\ UNCHANGED <<com, payouts, withdrawals, reversed>>
    BY <1>4 DEF CompleteWallet, At
  <2>2. /\ req'[r].pc = "complete.save" /\ req'[r].agent = agent /\ req'[r].amount = amount
        /\ req'[r].document = req[r].document
    BY <1>0, <1>4 DEF CompleteWallet, Goto, RequestStates
  <2>3. /\ req[r].copy = wallet[agent] /\ agent \in Agents /\ amount \in Nat
        /\ req[r].document \in DOMAIN withdrawals
        /\ withdrawals[req[r].document] = [agent |-> agent, amount |-> amount, completed |-> FALSE]
    BY <1>0, <2>1 DEF CopyIsCurrent, Typed, Withdrawal, RequestStates
  <2>4. /\ wallet'[agent].available = wallet[agent].available
        /\ wallet'[agent].pending = wallet[agent].pending - amount
        /\ \A a \in Agents : a # agent => wallet'[a] = wallet[a]
    <3>1. wallet' = [wallet EXCEPT ![agent].pending = wallet[agent].pending - amount]
      BY <1>4, <2>3 DEF CompleteWallet
    <3>2. wallet[agent] \in Balances
      BY <1>0, <2>3
    <3> HIDE DEF agent, amount
    <3>3. QED
      BY <1>0, <2>3, <3>1, <3>2 DEF Balances
  <2> HIDE DEF agent, amount
  <2>5. \A a, completed : Asked(a, completed)' = Asked(a, completed)
    BY <2>1 DEF Asked
  <2>6. \A a \in Agents :
          /\ Asking(req[r], a) = 0 /\ Asking(req[r], a)' = 0 /\ Sending(req[r], a) = 0
          /\ Sending(req[r], a)' = IF a = agent THEN amount ELSE 0
    BY <2>1, <2>2 DEF Asking, Sending
  <2>7. \A a \in Agents : Asked(a, BOOLEAN) \in Nat /\ Asked(a, {FALSE}) \in Nat
    BY <1>0, AskedType
  <2>8. \A a \in Agents : wallet[a].available \in Int /\ wallet[a].pending \in Int
    BY <1>0 DEF Balances
  <2>9. WithdrawalMoves(r)
    <3> SUFFICES ASSUME NEW a \in Agents
                 PROVE  /\ wallet'[a].available + Asked(a, BOOLEAN) + 0 =
                             wallet[a].available + Asked(a, BOOLEAN) + 0
                        /\ wallet'[a].pending - Asked(a, {FALSE}) - 0 + Sending(req[r], a)' =
                             wallet[a].pending - Asked(a, {FALSE}) - 0 + 0
      BY <2>5, <2>6, <2>7 DEF WithdrawalMoves
    <3>1. CASE a = agent
      BY <2>3, <2>4, <2>6, <2>7, <2>8, <3>1
    <3>2. CASE a # agent
      BY <2>4, <2>6, <2>7, <2>8, <3>2
    <3>3. QED
      BY <3>1, <3>2
  <2>10. SalesCover(req[r])'
    BY <1>0, <2>5, <2>6 DEF SalesCover
  <2>11. CopyIsCurrent(req[r])'
    BY <2>1, <2>2, <2>3 DEF CopyIsCurrent
  <2>12. req[r].pc \in Withdrawal /\ req'[r].pc \in Withdrawal \cup {"idle"}
    BY <2>1, <2>2 DEF Withdrawal
  <2>13. QED
    BY <2>1, <2>9, <2>10, <2>11, <2>12, MoneyAsks
<1>5. CASE CompleteSave(r)
  <2> DEFINE k == req[r].document
             agent == req[r].agent
             amount == req[r].amount
  <2>1. /\ req[r].pc = "complete.save" /\ UNCHANGED <<com, wallet, payouts, reversed>>
        /\ withdrawals' = [withdrawals EXCEPT ![k].completed = TRUE]
    BY <1>5 DEF CompleteSave, At
  <2>2. req'[r].pc = "idle"
    BY <1>0, <1>5 DEF CompleteSave, Finish, IdleRequest
  <2>3. /\ k \in DOMAIN withdrawals /\ ~withdrawals[k].completed
        /\ withdrawals[k].agent = agent /\ withdrawals[k].amount = amount /\ amount \in Nat
    BY <1>0, <2>1 DEF CopyIsCurrent, RequestStates
  <2> HIDE DEF k, agent, amount
  <2>4. \A a : /\ Asked(a, BOOLEAN)' = Asked(a, BOOLEAN)
               /\ Asked(a, {FALSE}) = Asked(a, {FALSE})'
                    + (IF withdrawals[k].agent = a THEN withdrawals[k].amount ELSE 0)
    BY <1>0, <2>1, <2>3, AskedComplete, Zenon
  <2>5. \A a \in Agents :
          /\ Asking(req[r], a)' = 0 /\ Asking(req[r], a) = 0 /\ Sending(req[r], a)' = 0
          /\ Sending(req[r], a) = IF a = agent THEN amount ELSE 0
    BY <2>1, <2>2 DEF Asking, Sending, agent, amount
  <2>6. \A a \in Agents : Asked(a, BOOLEAN) \in Nat /\ Asked(a, {FALSE}) \in Nat
    BY <1>0, AskedType
  <2>7. \A a \in Agents : Asked(a, {FALSE})' \in Nat
    BY <1>0, <2>1, <2>3, StillAskedType
  <2>8. \A a \in Agents : wallet[a].available \in Int /\ wallet[a].pending \in Int /\ wallet' = wallet
    BY <1>0, <2>1 DEF Balances
  <2>9. ASSUME NEW a \in Agents
        PROVE  /\ Asked(a, BOOLEAN)' = Asked(a, BOOLEAN)
               /\ Asked(a, {FALSE}) = Asked(a, {FALSE})' + Sending(req[r], a)
               /\ Sending(req[r], a) \in Nat
    BY <2>3, <2>4, <2>5
  <2>10. WithdrawalMoves(r)
    BY <2>5, <2>6, <2>7, <2>8, <2>9 DEF WithdrawalMoves
  <2>11. SalesCover(req[r])'
    BY <1>0, <2>4, <2>5 DEF SalesCover
  <2>12. CopyIsCurrent(req[r])'
    BY <2>2 DEF CopyIsCurrent
  <2>13. req[r].pc \in Withdrawal /\ req'[r].pc \in Withdrawal \cup {"idle"}
    BY <2>1, <2>2 DEF Withdrawal
  <2>14. QED
    BY <2>1, <2>10, <2>11, <2>12, <2>13, MoneyAsks
<1>6. QED
  BY <1>2, <1>3, <1>4, <1>5

\* The 14 days, an operation that is disputed, and one that goes on while they last.
LEMMA MoneyInTime ==
  ASSUME TypeInv, TypeInv', LedgerInv, FlowInv, MoneyInv, NEW r, Requests = {r},
         NEW c \in Commissions, UNCHANGED <<wallet, withdrawals, payouts, reversed, req>>,
         CopyIsCurrent(req[r])', com \in [Commissions -> CommissionStates],
         \A d \in Commissions : d # c => com'[d] = com[d],
         \/ com'[c].status = com[c].status
         \/ com[c].status = "BLOCKED" /\ com'[c].status = "PENDING"
         \/ com[c].status = "PENDING" /\ com'[c].status = "BLOCKED"
  PROVE  MoneyInv'
<1>1. /\ WithStatus("AVAILABLE")' = WithStatus("AVAILABLE")
      /\ WithStatus("RESERVED")' = WithStatus("RESERVED")
      /\ (WithStatus("PENDING") \cup WithStatus("BLOCKED"))' = WithStatus("PENDING") \cup WithStatus("BLOCKED")
  BY DEF WithStatus
<1>2. CountedAvailable(req[r])' = CountedAvailable(req[r])
  BY <1>1 DEF CountedAvailable
<1>3. CountedPending(req[r])' = CountedPending(req[r])
  BY <1>1 DEF CountedPending
<1>4. TakenBack(req[r])' = TakenBack(req[r])
  BY DEF TakenBack, InPayouts
<1>5. \A a \in Agents : /\ Asking(req[r], a)' = Asking(req[r], a)
                        /\ Sending(req[r], a)' = Sending(req[r], a)
  BY DEF Asking, Sending
<1>6. QED
  BY <1>2, <1>3, <1>4, <1>5, MoneyStays

\* An operation that goes on after the 14 days: a commission is available that the wallet does
\* not have.
LEMMA MoneyLate ==
  ASSUME TypeInv, TypeInv', LedgerInv, FlowInv, MoneyInv, NEW r, Requests = {r}, ~PromptResume,
         NEW c \in Commissions, UNCHANGED <<wallet, withdrawals, payouts, reversed, req>>,
         CopyIsCurrent(req[r])', com \in [Commissions -> CommissionStates],
         \A d \in Commissions : d # c => com'[d] = com[d],
         com[c].dispute = "open", com[c].status = "BLOCKED", com'[c].status = "AVAILABLE"
  PROVE  MoneyInv'
<1>1. r \in Requests /\ Balanced(req[r]) /\ SalesCover(req[r]) /\ FlowInv
  BY DEF MoneyInv
<1>2. \A a, completed : Asked(a, completed)' = Asked(a, completed)
  BY DEF Asked
<1>3. SalesCover(req[r])'
  BY <1>1, <1>2 DEF SalesCover, Asking
<1>4. CountedAvailable(req[r])' = CountedAvailable(req[r]) \cup {c}
  <2>1. WithStatus("AVAILABLE")' = WithStatus("AVAILABLE") \cup {c}
    BY DEF WithStatus
  <2>2. req[r].pc \in {"release.wallet", "reverse.save"} => req[r].commission # c
    BY <1>1 DEF FlowInv, StatusIsCurrent, WithStatus, Reversing
  <2>3. QED
    BY <2>1, <2>2 DEF CountedAvailable, OwedBy
<1>5. c \notin CountedAvailable(req[r])
  BY <1>1 DEF CountedAvailable, FlowInv, ListIsAvailable, WithStatus, OwedBy
<1>6. TakenBack(req[r])' = TakenBack(req[r])
  BY DEF TakenBack, InPayouts
<1>7. ASSUME NEW a \in Agents PROVE wallet[a].available <= AvailableCount(req[r], a)'
  <2> DEFINE A == CountedAvailable(req[r])
             w == wallet[a].available
             k == Asked(a, BOOLEAN)
             m == Asking(req[r], a)
             C == Worth(OfAgent(a, A))
             E == Worth(OfAgent(a, A \cup {c}))
             T == Worth(OfAgent(a, TakenBack(req[r])))
  <2>1. A \in SUBSET Commissions /\ TakenBack(req[r]) \in SUBSET Commissions
    BY <1>1, CountedSets
  <2>2. E = C + ShareOf(a, c) /\ ShareOf(a, c) \in Nat /\ C \in Nat /\ T \in Nat
    BY <1>5, <2>1, WorthGain, ShareOfType, CountedType
  <2>3. wallet[a] \in Balances /\ req[r] \in RequestStates
    BY <1>1, <1>7 DEF TypeInv, TypeOK
  <2>4. w \in Int /\ m \in Nat /\ k \in Nat
    BY <2>3, AskedType DEF Balances, RequestStates, Asking, TypeInv, TypeOK
  <2>5. w <= Sales - k - m + C - T
    BY <1>1, <1>7 DEF Balanced, AvailableCount
  <2>6. AvailableCount(req[r], a)' = Sales - k - m + E - T
    <3>1. /\ OfAgent(a, CountedAvailable(req[r]))' = OfAgent(a, A \cup {c})
          /\ OfAgent(a, TakenBack(req[r]))' = OfAgent(a, TakenBack(req[r]))
      BY <1>4, <1>6 DEF OfAgent
    <3>2. /\ Worth(OfAgent(a, CountedAvailable(req[r])))' = E
          /\ Worth(OfAgent(a, TakenBack(req[r])))' = T
      BY <3>1 DEF Worth, MapThenSumSet, MapThenFoldSet
    <3>3. Asking(req[r], a)' = m
      BY DEF Asking
    <3>4. QED
      BY <1>2, <3>2, <3>3 DEF AvailableCount
  <2> HIDE DEF A, w, k, m, C, E, T
  <2>7. w <= Sales - k - m + E - T
    BY <2>2, <2>4, <2>5, SalesAssumption
  <2>8. QED
    BY <2>6, <2>7 DEF w
<1>8. Balanced(req[r])'
  BY <1>7 DEF Balanced
<1>9. QED
  BY <1>3, <1>8 DEF MoneyInv

\* The 14 days, an operation that is disputed, and one that goes on.
LEMMA MoneyWorld ==
  ASSUME PromptDispute, TypeInv, TypeInv', LedgerInv, FlowInv, MoneyInv, NEW r, Requests = {r},
         NEW c \in Commissions, Matures(c) \/ Block(c) \/ Resume(c)
  PROVE  MoneyInv'
<1>1. com \in [Commissions -> CommissionStates] /\ CopyIsCurrent(req[r])
  BY DEF LedgerInv, MoneyInv
<1>2. UNCHANGED <<wallet, withdrawals, payouts, reversed, req>>
  BY DEF Matures, Block, Resume
<1>3. CopyIsCurrent(req[r])'
  <2>1. \A a, completed : Asked(a, completed)' = Asked(a, completed)
    BY <1>2 DEF Asked
  <2>2. QED
    BY <1>1, <1>2, <2>1 DEF CopyIsCurrent
<1>4. CASE Matures(c)
  <2>1. (\A d \in Commissions : d # c => com'[d] = com[d]) /\ com'[c].status = com[c].status
    BY <1>1, <1>4 DEF Matures, CommissionStates
  <2>2. QED
    BY <1>1, <1>2, <1>3, <2>1, MoneyInTime
<1>5. CASE Resume(c)
  <2>1. com[c] \in CommissionStates
    BY <1>1
  <2>2. com' = [com EXCEPT ![c] = [com[c] EXCEPT !.dispute = "none",
                  !.status = IF com[c].status # "BLOCKED" THEN com[c].status
                             ELSE IF com[c].due THEN "AVAILABLE" ELSE "PENDING"]]
    BY <1>1, <1>5, <2>1 DEF Resume, CommissionStates
  <2>3. /\ \A d \in Commissions : d # c => com'[d] = com[d]
        /\ com'[c].status = IF com[c].status # "BLOCKED" THEN com[c].status
                            ELSE IF com[c].due THEN "AVAILABLE" ELSE "PENDING"
    BY <1>1, <2>1, <2>2 DEF CommissionStates
  <2>4. CASE com[c].status = "BLOCKED" /\ com[c].due
    <3>1. ~PromptResume /\ com'[c].status = "AVAILABLE"
      BY <1>5, <2>3, <2>4 DEF Resume
    <3>2. com[c].dispute = "open"
      BY <1>5 DEF Resume
    <3>3. QED
      BY <1>1, <1>2, <1>3, <2>3, <2>4, <3>1, <3>2, MoneyLate
  <2>5. CASE ~(com[c].status = "BLOCKED" /\ com[c].due)
    <3>1. \/ com'[c].status = com[c].status
          \/ com[c].status = "BLOCKED" /\ com'[c].status = "PENDING"
      BY <2>3, <2>5
    <3>2. QED
      BY <1>1, <1>2, <1>3, <2>3, <3>1, MoneyInTime
  <2>6. QED
    BY <2>4, <2>5
<1>6. CASE Block(c)
  <2>1. com[c] \in CommissionStates
    BY <1>1
  <2>2. com' = [com EXCEPT ![c] = [com[c] EXCEPT !.dispute = "open",
                  !.status = IF com[c].status \in {"PENDING", "AVAILABLE"} THEN "BLOCKED"
                             ELSE com[c].status]]
    BY <1>1, <1>6, <2>1 DEF Block, CommissionStates
  <2>3. /\ \A d \in Commissions : d # c => com'[d] = com[d]
        /\ com'[c].status = IF com[c].status \in {"PENDING", "AVAILABLE"} THEN "BLOCKED"
                            ELSE com[c].status
    BY <1>1, <2>1, <2>2 DEF CommissionStates
  <2>4. com[c].status # "AVAILABLE"
    BY <1>6 DEF Block
  <2>5. \/ com'[c].status = com[c].status
        \/ com[c].status = "PENDING" /\ com'[c].status = "BLOCKED"
    BY <2>3, <2>4
  <2>6. QED
    BY <1>1, <1>2, <1>3, <2>3, <2>5, MoneyInTime
<1>7. QED
  BY <1>4, <1>5, <1>6

\* At the beginning everything is on its way.
LEMMA InitMoney ==
  ASSUME Init
  PROVE  MoneyInv
<1>1. \A r \in Requests : req[r] = IdleRequest
  BY DEF Init
<1>2. /\ WithStatus("AVAILABLE") = {}
      /\ WithStatus("PENDING") \cup WithStatus("BLOCKED") = Commissions
      /\ reversed = {} /\ withdrawals = <<>>
  <2>1. \A c \in Commissions : com[c].status \in {"PENDING", "BLOCKED"}
    BY DEF Init
  <2>2. QED
    BY <2>1 DEF WithStatus, Init
<1>3. ASSUME NEW a, NEW completed PROVE Asked(a, completed) = 0
  <2>1. {n \in DOMAIN withdrawals : withdrawals[n].agent = a /\ withdrawals[n].completed \in completed} = {}
    BY <1>2
  <2>2. QED
    BY <2>1, SumEmpty DEF Asked
<1>4. Worth({}) = 0
  BY WorthIsSum, SumEmpty
<1>5. ASSUME NEW r \in Requests PROVE CopyIsCurrent(req[r]) /\ Balanced(req[r]) /\ SalesCover(req[r])
  <2> DEFINE q == IdleRequest
  <2>1. q.pc = "idle"
    BY DEF IdleRequest
  <2> HIDE DEF q
  <2>2. CopyIsCurrent(q)
    BY <2>1 DEF CopyIsCurrent
  <2>3. CountedAvailable(q) = {} /\ CountedPending(q) = Commissions /\ TakenBack(q) = {}
    BY <1>2, <2>1 DEF CountedAvailable, CountedPending, TakenBack, Paying
  <2>4. \A a \in Agents : Asking(q, a) = 0 /\ Sending(q, a) = 0
    BY <2>1 DEF Asking, Sending
  <2>5. SalesCover(q)
    BY <1>3, <2>4, SalesAssumption DEF SalesCover
  <2>6. ASSUME NEW a \in Agents
        PROVE  /\ wallet[a].available = AvailableCount(q, a)
               /\ wallet[a].pending = PendingCount(q, a)
               /\ wallet[a].available \in Int
    <3>1. wallet[a] = [available |-> Sales, pending |-> Worth({c \in Commissions : Owner[c] = a})]
      BY DEF Init
    <3>2. OfAgent(a, {}) = {} /\ OfAgent(a, Commissions) = {c \in Commissions : Owner[c] = a}
      BY DEF OfAgent
    <3>3. Worth(OfAgent(a, Commissions)) \in Nat
      BY CountedType
    <3>4. Asked(a, BOOLEAN) = 0 /\ Asked(a, {FALSE}) = 0
      BY <1>3
    <3>5. wallet[a].available = Sales /\ wallet[a].pending = Worth(OfAgent(a, Commissions))
      BY <3>1, <3>2
    <3>6. /\ Worth(OfAgent(a, CountedAvailable(q))) = 0 /\ Worth(OfAgent(a, TakenBack(q))) = 0
          /\ Worth(OfAgent(a, CountedPending(q))) = Worth(OfAgent(a, Commissions))
      BY <1>4, <2>3, <3>2
    <3>7. QED
      BY <2>4, <3>3, <3>4, <3>5, <3>6, SalesAssumption DEF AvailableCount, PendingCount
  <2>7. Balanced(q)
    <3>1. \A n \in Int : n <= n
      OBVIOUS
    <3>2. QED
      BY <2>6, <3>1 DEF Balanced
  <2>8. QED
    BY <1>1, <2>2, <2>5, <2>7 DEF q
<1>6. QED
  BY <1>5 DEF MoneyInv

\* Every step of the only request, and of the world around it, keeps the balances.
LEMMA NextMoney ==
  ASSUME OneAndNoneDies, PromptDispute, TypeInv, TypeInv', LedgerInv, FlowInv, MoneyInv, [Next]_vars
  PROVE  MoneyInv'
<1>1. PICK r : Requests = {r}
  BY DEF OneAndNoneDies
<1>2. CASE UNCHANGED vars
  <2>1. UNCHANGED <<com, wallet, payouts, withdrawals, reversed, req>>
    BY <1>2 DEF vars
  <2>2. \A a, completed : Asked(a, completed)' = Asked(a, completed)
    BY <2>1 DEF Asked
  <2>3. /\ CountedAvailable(req[r])' = CountedAvailable(req[r])
        /\ CountedPending(req[r])' = CountedPending(req[r])
        /\ TakenBack(req[r])' = TakenBack(req[r])
    BY <2>1 DEF CountedAvailable, CountedPending, TakenBack, WithStatus, InPayouts
  <2>4. CopyIsCurrent(req[r])'
    BY <1>1, <2>1, <2>2 DEF MoneyInv, CopyIsCurrent
  <2>5. \A a \in Agents : Asking(req[r], a)' = Asking(req[r], a) /\ Sending(req[r], a)' = Sending(req[r], a)
    BY <2>1 DEF Asking, Sending
  <2>6. UNCHANGED <<wallet, withdrawals>>
    BY <2>1
  <2>7. QED
    BY <1>1, <2>3, <2>4, <2>5, <2>6, MoneyStays
<1>3. ASSUME NEW c \in Commissions, Matures(c) \/ Block(c) \/ Resume(c)
      PROVE  MoneyInv'
  BY <1>1, <1>3, MoneyWorld
<1>4. CASE Requested(r) \/ Step(r)
  BY <1>1, <1>4, MoneyRelease, MoneyReverse, MoneyBatch, MoneyConfirm, MoneyAsked, MoneyCompleted
  DEF Requested, Step, Withdrawing
<1>5. ~Abandon(r)
  BY DEF OneAndNoneDies, Abandon, TypeInv, TypeOK
<1>6. QED
  BY <1>1, <1>2, <1>3, <1>4, <1>5 DEF Next

\* The balances are kept.
LEMMA MoneyCorrect ==
  ASSUME OneAndNoneDies, PromptDispute
  PROVE  Spec => [](LedgerInv /\ TypeInv /\ FlowInv /\ MoneyInv)
<1>1. Init => MoneyInv
  BY InitMoney
<1>2. LedgerInv /\ TypeInv /\ TypeInv' /\ FlowInv /\ MoneyInv /\ [Next]_vars => MoneyInv'
  BY NextMoney
<1>3. QED
  BY <1>1, <1>2, FlowCorrect, PTL DEF Spec

\* When requests run one at a time, none dies, no operation is disputed once its commission is
\* available, and disputed operations go on within the 14 days, what an agent's wallet says is
\* what the sales, the commissions and the withdrawals come to.
THEOREM BalancesAreKept ==
  ASSUME OneAndNoneDies, PromptDispute, PromptResume
  PROVE  Spec => []WalletMatches
<1>1. LedgerInv /\ TypeInv /\ FlowInv /\ MoneyInv => WalletMatches
  <2> SUFFICES ASSUME LedgerInv, TypeInv, FlowInv, MoneyInv, Quiet, NEW a \in Agents
               PROVE  /\ wallet[a].available =
                           Sales - Asked(a, BOOLEAN) + Worth(OfAgent(a, WithStatus("AVAILABLE")))
                             - Worth(OfAgent(a, reversed \cap InPayouts))
                      /\ wallet[a].pending =
                           Worth(OfAgent(a, WithStatus("PENDING") \cup WithStatus("BLOCKED")))
                             + Asked(a, {FALSE})
    BY DEF WalletMatches
  <2>1. PICK r \in Requests : req[r].pc = "idle"
    BY DEF OneAndNoneDies, Quiet
  <2>2. /\ CountedAvailable(req[r]) = WithStatus("AVAILABLE")
        /\ CountedPending(req[r]) = WithStatus("PENDING") \cup WithStatus("BLOCKED")
        /\ TakenBack(req[r]) = reversed \cap InPayouts
        /\ Asking(req[r], a) = 0 /\ Sending(req[r], a) = 0
    BY <2>1 DEF CountedAvailable, CountedPending, TakenBack, Asking, Sending, Paying
  <2>3. Asked(a, BOOLEAN) \in Nat /\ Asked(a, {FALSE}) \in Nat
    BY AskedType DEF TypeInv, TypeOK
  <2>4. Worth(OfAgent(a, WithStatus("PENDING") \cup WithStatus("BLOCKED"))) \in Nat
    <3>1. WithStatus("PENDING") \cup WithStatus("BLOCKED") \in SUBSET Commissions
      BY DEF WithStatus
    <3>2. QED
      BY <3>1, CountedType
  <2>5. wallet[a].available =
          Sales - Asked(a, BOOLEAN) - 0 + Worth(OfAgent(a, WithStatus("AVAILABLE")))
            - Worth(OfAgent(a, reversed \cap InPayouts))
    BY <2>1, <2>2 DEF MoneyInv, Balanced, AvailableCount, PendingCount
  <2>6. wallet[a].pending =
          Worth(OfAgent(a, WithStatus("PENDING") \cup WithStatus("BLOCKED"))) + Asked(a, {FALSE}) + 0 - 0
    BY <2>1, <2>2 DEF MoneyInv, Balanced, AvailableCount, PendingCount
  <2>7. QED
    BY <2>3, <2>4, <2>5, <2>6, SalesAssumption
<1>2. QED
  BY <1>1, MoneyCorrect, PTL

\* When requests run one at a time, none dies and no operation is disputed once its commission
\* is available, agents withdraw what they have sold and nothing else, although sales and
\* commissions are in the same balance: requestWithdrawal leaves out what is available to be
\* paid out.  It does not leave out what is blocked, and a dispute that blocks an available
\* commission leaves it in the available balance.
THEOREM OnlySoldWithdrawn ==
  ASSUME OneAndNoneDies, PromptDispute
  PROVE  Spec => []OnlySalesAreWithdrawn
<1>1. TypeInv /\ MoneyInv => OnlySalesAreWithdrawn
  <2> SUFFICES ASSUME TypeInv, MoneyInv, NEW a \in Agents PROVE Asked(a, BOOLEAN) <= Sales
    BY DEF OnlySalesAreWithdrawn
  <2>1. PICK r : r \in Requests
    BY DEF OneAndNoneDies
  <2>2. Asked(a, BOOLEAN) \in Nat /\ Asking(req[r], a) \in Nat
    BY <2>1, AskedType DEF TypeInv, TypeOK, RequestStates, Asking
  <2>3. Asked(a, BOOLEAN) + Asking(req[r], a) <= Sales
    BY <2>1 DEF MoneyInv, SalesCover
  <2>4. QED
    BY <2>2, <2>3, SalesAssumption
<1>2. QED
  BY <1>1, MoneyCorrect, PTL

=============================================================================
