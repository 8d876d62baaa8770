------------------------- MODULE AgentLedgerProofs -------------------------
(***************************************************************************)
(* Theorems about AgentLedger, for any number of agents, commissions,      *)
(* batches and requests in flight.  They are about the commissions and     *)
(* their payouts; AgentBalanceProofs is about the balances.                *)
(***************************************************************************)
EXTENDS AgentLedger, TLAPS

----------------------------------------------------------------------------
(* The invariant behind the payouts.                                       *)

\* A commission does not become available again.
Taken == {"RESERVED", "PAID", "REVERSED"}

\* A request that fills the batch it has created.
Batching == {"batch.reserve", "batch.payout", "batch.link", "batch.wallet"}

Confirming == {"confirm.save", "confirm.commissions", "refresh.read", "refresh.save"}

\* What is PAID has been paid by a payout that lists it.
PaidByPayout ==
  \A c \in WithStatus("PAID") :
    \E n \in DOMAIN payouts : payouts[n].paid /\ c \in payouts[n].commissions

\* What a request knows when it gets to its next step.
Knows(q) ==
  /\ DOMAIN q = DOMAIN IdleRequest
  /\ q.list \subseteq Commissions
  /\ q.pc \in Batching => q.batch \in 1..Len(batches)
  /\ q.pc = "batch.payout" =>
       /\ q.agent \in Agents
       /\ \A c \in q.list : Owner[c] = q.agent =>
            com[c].status \in Taken /\ com[c].batch = q.batch /\ c \notin InPayouts
  /\ q.pc \in Confirming \cup {"batch.link"} => q.document \in DOMAIN payouts
  /\ q.pc = "confirm.commissions" => payouts[q.document].paid
  /\ q.pc = "refresh.save" => q.status \in BatchStatuses
  /\ q.pc \in {"reverse.wallet", "reverse.save"} => q.commission \in Commissions

\* No two requests fill the same batch.
OwnBatches ==
  \A r, s \in Requests :
    req[r].pc \in Batching /\ req[s].pc \in Batching /\ req[r].batch = req[s].batch => r = s

LedgerInv ==
  /\ com \in [Commissions -> CommissionStates]
  /\ batches \in Seq(BatchStatuses)
  /\ payouts \in Seq(Payouts)
  /\ DOMAIN req = Requests /\ req = [r \in Requests |-> req[r]]
  /\ \A r \in Requests : Knows(req[r])
  /\ OwnBatches
  /\ OnePayoutEach
  /\ PaidByPayout
  /\ PayoutsAreReserved

----------------------------------------------------------------------------
(* What happens to the commissions, to the batches and to the payouts.     *)

\* A commission that is taken stays so, in the same batch.
TakenStay ==
  /\ com' \in [Commissions -> CommissionStates]
  /\ \A c \in Commissions : com[c].status \in Taken =>
       com'[c].status \in Taken /\ com'[c].batch = com[c].batch

\* None becomes PAID.
NonePaid == \A c \in Commissions : com'[c].status = "PAID" => com[c].status = "PAID"

\* Payouts are confirmed, and otherwise stay as they are.
PayoutsStay ==
  /\ payouts' \in Seq(Payouts)
  /\ DOMAIN payouts' = DOMAIN payouts
  /\ \A n \in DOMAIN payouts :
       /\ payouts'[n].commissions = payouts[n].commissions
       /\ payouts'[n].batch = payouts[n].batch
       /\ payouts'[n].agent = payouts[n].agent
       /\ payouts[n].paid => payouts'[n].paid

BatchesStay ==
  /\ batches' \in Seq(BatchStatuses)
  /\ Len(batches) <= Len(batches')

\* Nothing happens to the commissions.
LEMMA SameTakenStay ==
  ASSUME LedgerInv, UNCHANGED com
  PROVE  TakenStay /\ NonePaid
BY DEF LedgerInv, TakenStay, NonePaid

\* Nothing happens to the payouts.
LEMMA SamePayoutsStay ==
  ASSUME LedgerInv, UNCHANGED payouts
  PROVE  PayoutsStay
BY DEF LedgerInv, PayoutsStay

\* Nothing happens to the batches.
LEMMA SameBatchesStay ==
  ASSUME LedgerInv, UNCHANGED batches
  PROVE  BatchesStay
BY DEF LedgerInv, BatchesStay

\* A commission is in a payout if and only if it was.
LEMMA InPayoutsStay ==
  ASSUME LedgerInv, PayoutsStay
  PROVE  \A c : c \in InPayouts' <=> c \in InPayouts
BY DEF LedgerInv, PayoutsStay, InPayouts

\* A request that takes no step still knows what it knew.
LEMMA StillKnows ==
  ASSUME LedgerInv, TakenStay, PayoutsStay, BatchesStay, NEW s \in Requests,
         req'[s] = req[s]
  PROVE  Knows(req[s])'
<1>1. Knows(req[s])
  BY DEF LedgerInv
<1>2. \A c : c \in InPayouts' <=> c \in InPayouts
  BY InPayoutsStay
<1>3. \A c \in req[s].list : c \in Commissions
  BY <1>1 DEF Knows
<1>4. Len(batches) \in Nat /\ Len(batches') \in Nat
  BY DEF LedgerInv, BatchesStay
<1>5. 1..Len(batches) \subseteq 1..Len(batches')
  BY <1>4 DEF BatchesStay
<1> DEFINE q == req[s]
<1>6. q' = q
  OBVIOUS
<1> HIDE DEF q
<1>7. Knows(q)' = (
       /\ DOMAIN q = DOMAIN IdleRequest
       /\ q.list \subseteq Commissions
       /\ q.pc \in Batching => q.batch \in 1..Len(batches')
       /\ q.pc = "batch.payout" =>
            /\ q.agent \in Agents
            /\ \A c \in q.list : Owner[c] = q.agent =>
                 com'[c].status \in Taken /\ com'[c].batch = q.batch /\ c \notin InPayouts'
       /\ q.pc \in Confirming \cup {"batch.link"} => q.document \in DOMAIN payouts'
       /\ q.pc = "confirm.commissions" => payouts'[q.document].paid
       /\ q.pc = "refresh.save" => q.status \in BatchStatuses
       /\ q.pc \in {"reverse.wallet", "reverse.save"} => q.commission \in Commissions)
  BY <1>6, Zenon DEF Knows
<1>8. Knows(q) /\ \A c \in q.list : c \in Commissions
  BY <1>1, <1>3 DEF q
<1>9. Knows(q)'
  BY <1>2, <1>5, <1>7, <1>8 DEF Knows, TakenStay, PayoutsStay, Confirming
<1>10. QED
  BY <1>9 DEF q

\* A request moves on to q, and what it does leaves payouts as they are.
LEMMA Moves ==
  ASSUME LedgerInv, TakenStay, PayoutsStay, BatchesStay, PaidByPayout',
         NEW r \in Requests, NEW q, req' = [req EXCEPT ![r] = q],
         Knows(req[r])',
         q.pc \in Batching =>
           \A s \in Requests : s # r /\ req[s].pc \in Batching => req[s].batch # q.batch
  PROVE  LedgerInv'
<1>1. DOMAIN req' = Requests /\ req' = [s \in Requests |-> req'[s]]
  BY DEF LedgerInv
<1>2. req'[r] = q /\ \A s \in Requests : s # r => req'[s] = req[s]
  BY DEF LedgerInv
<1>3. \A s \in Requests : Knows(req[s])'
  BY <1>2, StillKnows
<1>4. OwnBatches'
  BY <1>2 DEF OwnBatches, LedgerInv
<1>5. OnePayoutEach'
  BY DEF OnePayoutEach, LedgerInv, PayoutsStay
<1>6. PayoutsAreReserved'
  <2> SUFFICES ASSUME NEW n \in DOMAIN payouts', NEW c \in payouts'[n].commissions
               PROVE  /\ Owner[c] = payouts'[n].agent
                      /\ com'[c].batch = payouts'[n].batch
                      /\ com'[c].status \in Taken
    BY DEF PayoutsAreReserved, Taken
  <2>1. n \in DOMAIN payouts /\ c \in payouts[n].commissions
    BY DEF PayoutsStay
  <2>2. payouts[n] \in Payouts
    BY <2>1 DEF LedgerInv
  <2>3. c \in Commissions
    BY <2>1, <2>2 DEF Payouts
  <2>4. com[c].status \in Taken /\ com[c].batch = payouts[n].batch /\ Owner[c] = payouts[n].agent
    BY <2>1 DEF LedgerInv, PayoutsAreReserved, Taken
  <2>5. QED
    BY <2>1, <2>3, <2>4 DEF TakenStay, PayoutsStay
<1>7. QED
  BY <1>1, <1>3, <1>4, <1>5, <1>6 DEF LedgerInv, TakenStay, PayoutsStay, BatchesStay

\* What is paid has still been paid by a payout.
LEMMA StillPaid ==
  ASSUME LedgerInv, TakenStay, NonePaid, PayoutsStay
  PROVE  PaidByPayout'
<1> SUFFICES ASSUME NEW c \in Commissions, com'[c].status = "PAID"
             PROVE  \E n \in DOMAIN payouts' : payouts'[n].paid /\ c \in payouts'[n].commissions
  BY DEF PaidByPayout, WithStatus
<1>1. com[c].status = "PAID"
  BY DEF NonePaid
<1>2. PICK n \in DOMAIN payouts : payouts[n].paid /\ c \in payouts[n].commissions
  BY <1>1 DEF LedgerInv, PaidByPayout, WithStatus
<1>3. QED
  BY <1>2 DEF PayoutsStay

\* A request moves on to q without touching what the invariant is about.
LEMMA QuietStep ==
  ASSUME LedgerInv, UNCHANGED <<com, batches, payouts>>,
         NEW r \in Requests, NEW q, req' = [req EXCEPT ![r] = q], Knows(q),
         q.pc \in Batching => req[r].pc \in Batching /\ q.batch = req[r].batch
  PROVE  LedgerInv'
<1>1. req'[r] = q
  BY DEF LedgerInv
<1>2. TakenStay /\ NonePaid /\ PayoutsStay /\ BatchesStay
  BY SameTakenStay, SamePayoutsStay, SameBatchesStay
<1>3. Knows(req[r])'
  BY <1>1 DEF Knows, InPayouts
<1>4. q.pc \in Batching =>
        \A s \in Requests : s # r /\ req[s].pc \in Batching => req[s].batch # q.batch
  BY DEF LedgerInv, OwnBatches
<1>5. QED
  BY <1>1, <1>2, <1>3, <1>4, StillPaid, Moves

\* A request at rest knows nothing that could be wrong.
LEMMA IdleKnows == Knows(IdleRequest) /\ IdleRequest.pc \notin Batching
BY DEF Knows, IdleRequest, Batching, Confirming

\* A request moves on to q and changes commissions.
LEMMA ComStep ==
  ASSUME LedgerInv, TakenStay, PaidByPayout', UNCHANGED <<batches, payouts>>,
         NEW r \in Requests, NEW q, req' = [req EXCEPT ![r] = q],
         Knows(req[r])',
         q.pc \in Batching => req[r].pc \in Batching /\ q.batch = req[r].batch
  PROVE  LedgerInv'
<1>1. q.pc \in Batching =>
        \A s \in Requests : s # r /\ req[s].pc \in Batching => req[s].batch # q.batch
  BY DEF LedgerInv, OwnBatches
<1>2. QED
  BY <1>1, SamePayoutsStay, SameBatchesStay, Moves

\* A request begins, knowing what is in its list and in its document.
LEMMA BeginStep ==
  ASSUME LedgerInv, UNCHANGED <<com, batches, payouts>>,
         NEW r \in Requests, NEW q, Begin(r, q), Knows(q), q.pc \notin Batching
  PROVE  LedgerInv'
BY QuietStep DEF Begin

\* A request comes to its end.
LEMMA FinishStep ==
  ASSUME LedgerInv, UNCHANGED <<com, batches, payouts>>, NEW r \in Requests, Finish(r)
  PROVE  LedgerInv'
BY QuietStep, IdleKnows DEF Finish

\* A commission changes that is not taken, and no request moves.
LEMMA WorldStep ==
  ASSUME LedgerInv, TakenStay, NonePaid, UNCHANGED <<batches, payouts, req>>
  PROVE  LedgerInv'
<1>1. PaidByPayout' /\ PayoutsStay /\ BatchesStay
  BY SamePayoutsStay, SameBatchesStay, StillPaid
<1>2. \A s \in Requests : Knows(req[s])'
  BY <1>1, StillKnows
<1>3. DOMAIN req' = Requests /\ req' = [s \in Requests |-> req'[s]] /\ OwnBatches'
  BY DEF LedgerInv, OwnBatches
<1>4. OnePayoutEach'
  BY DEF OnePayoutEach, LedgerInv
<1>5. PayoutsAreReserved'
  <2> SUFFICES ASSUME NEW n \in DOMAIN payouts, NEW c \in payouts[n].commissions
               PROVE  /\ Owner[c] = payouts[n].agent
                      /\ com'[c].batch = payouts[n].batch
                      /\ com'[c].status \in Taken
    BY DEF PayoutsAreReserved, Taken
  <2>1. payouts[n] \in Payouts
    BY DEF LedgerInv
  <2>2. c \in Commissions
    BY <2>1 DEF Payouts
  <2>3. com[c].status \in Taken /\ com[c].batch = payouts[n].batch /\ Owner[c] = payouts[n].agent
    BY DEF LedgerInv, PayoutsAreReserved, Taken
  <2>4. QED
    BY <2>2, <2>3 DEF TakenStay
<1>6. QED
  BY <1>1, <1>2, <1>3, <1>4, <1>5 DEF LedgerInv, TakenStay, PayoutsStay, BatchesStay

\* One commission takes another status, its batch being the same.
LEMMA OneChanges ==
  ASSUME LedgerInv, NEW c \in Commissions, NEW status \in Statuses, NEW dispute \in Disputes,
         NEW due \in BOOLEAN,
         com' = [com EXCEPT ![c] = [com[c] EXCEPT !.status = status, !.dispute = dispute,
                                                  !.due = due]],
         com[c].status \in Taken => status \in Taken,
         status = "PAID" => com[c].status = "PAID"
  PROVE  TakenStay /\ NonePaid
<1>1. com[c] \in CommissionStates
  BY DEF LedgerInv
<1>2. com'[c] \in CommissionStates /\ com'[c].status = status /\ com'[c].batch = com[c].batch
  BY <1>1 DEF LedgerInv, CommissionStates
<1>3. \A d \in Commissions : d # c => com'[d] = com[d]
  BY DEF LedgerInv
<1>4. com' \in [Commissions -> CommissionStates]
  BY <1>2, <1>3 DEF LedgerInv
<1>5. QED
  BY <1>2, <1>3, <1>4 DEF TakenStay, NonePaid

----------------------------------------------------------------------------
(* Each handler keeps the invariant.                                       *)

\* The timer job that makes commissions available.
LEMMA ReleaseKeeps ==
  ASSUME LedgerInv, NEW r \in Requests, StartRelease(r) \/ Release(r)
  PROVE  LedgerInv'
<1>1. CASE StartRelease(r)
  <2> DEFINE q == [IdleRequest EXCEPT !.pc = "release.claim", !.list = Due]
  <2>1. Knows(q) /\ q.pc \notin Batching
    BY DEF Knows, IdleRequest, Batching, Confirming, Due, WithStatus
  <2>2. QED
    BY <1>1, <2>1, BeginStep DEF StartRelease
<1>2. ASSUME NEW c \in req[r].list
      PROVE  /\ Knows(ToNext(r, req[r].list \ {c}))
             /\ ToNext(r, req[r].list \ {c}).pc \notin Batching
  <2> DEFINE left == req[r].list \ {c}
             q == [req[r] EXCEPT !.pc = "release.claim", !.list = left]
  <2>1. Knows(q) /\ q.pc \notin Batching
    BY DEF LedgerInv, Knows, IdleRequest, Batching, Confirming
  <2>2. QED
    BY <2>1, IdleKnows DEF ToNext
<1>3. CASE ReleaseClaim(r)
  <2>1. PICK c \in req[r].list :
          \/ /\ com[c].status # "PENDING"
             /\ req' = [req EXCEPT ![r] = ToNext(r, req[r].list \ {c})]
             /\ UNCHANGED com
          \/ /\ com[c].status = "PENDING"
             /\ com' = [com EXCEPT ![c].status = "AVAILABLE"]
             /\ req' = [req EXCEPT ![r].pc = "release.wallet", ![r].commission = c]
    BY <1>3 DEF ReleaseClaim
  <2>2. CASE UNCHANGED com
    <3> DEFINE q == ToNext(r, req[r].list \ {c})
    <3>1. Knows(q) /\ q.pc \notin Batching
      BY <1>2
    <3> HIDE DEF q
    <3>2. CASE req' = [req EXCEPT ![r] = q]
      BY <1>3, <2>2, <3>1, <3>2, QuietStep DEF ReleaseClaim
    <3>3. CASE com' = [com EXCEPT ![c].status = "AVAILABLE"] /\ com[c].status = "PENDING"
      <4>1. c \in Commissions
        BY DEF LedgerInv, Knows
      <4>2. QED
        BY <2>2, <3>3, <4>1 DEF LedgerInv, CommissionStates
    <3>4. QED
      BY <2>1, <3>2, <3>3 DEF q
  <2>3. CASE /\ com[c].status = "PENDING"
             /\ com' = [com EXCEPT ![c].status = "AVAILABLE"]
             /\ req' = [req EXCEPT ![r].pc = "release.wallet", ![r].commission = c]
    <3> DEFINE q == [req[r] EXCEPT !.pc = "release.wallet", !.commission = c]
    <3>1. c \in Commissions /\ com[c] \in CommissionStates
      BY DEF LedgerInv, Knows
    <3>2. com' = [com EXCEPT ![c] = [com[c] EXCEPT !.status = "AVAILABLE",
                               !.dispute = com[c].dispute, !.due = com[c].due]]
      BY <2>3, <3>1 DEF LedgerInv, CommissionStates
    <3>3. TakenStay /\ NonePaid
      BY <2>3, <3>1, <3>2, OneChanges DEF CommissionStates, Statuses, Taken
    <3>4. req' = [req EXCEPT ![r] = q] /\ q.pc \notin Batching /\ Knows(q)
      BY <2>3 DEF LedgerInv, Knows, IdleRequest, Batching, Confirming
    <3>5. req'[r] = q
      BY <3>4 DEF LedgerInv
    <3>6. Knows(req[r])'
      BY <3>5 DEF LedgerInv, Knows, IdleRequest, Batching, Confirming
    <3> HIDE DEF q
    <3>7. QED
      BY <1>3, <3>3, <3>4, <3>6, SamePayoutsStay, StillPaid, ComStep DEF ReleaseClaim
  <2>4. QED
    BY <2>1, <2>2, <2>3
<1>4. CASE ReleaseWallet(r)
  <2> DEFINE c == req[r].commission
             q == ToNext(r, req[r].list \ {c})
  <2>1. Knows(q) /\ q.pc \notin Batching
    <3>1. CASE c \in req[r].list
      BY <1>2, <3>1
    <3>2. CASE c \notin req[r].list
      <4> DEFINE p == [req[r] EXCEPT !.pc = "release.claim", !.list = req[r].list \ {c}]
      <4>1. Knows(p) /\ p.pc \notin Batching
        BY DEF LedgerInv, Knows, IdleRequest, Batching, Confirming
      <4>2. QED
        BY <4>1, IdleKnows DEF ToNext
    <3>3. QED
      BY <3>1, <3>2
  <2>2. req' = [req EXCEPT ![r] = q]
    BY <1>4 DEF ReleaseWallet
  <2> HIDE DEF q
  <2>3. QED
    BY <1>4, <2>1, <2>2, QuietStep DEF ReleaseWallet
<1>5. QED
  BY <1>1, <1>3, <1>4 DEF Release

\* A dispute that takes a commission back, or lets it go on.
LEMMA ReverseKeeps ==
  ASSUME LedgerInv, NEW r \in Requests,
         (\E c \in Commissions : StartReverse(r, c)) \/ Reverse(r)
  PROVE  LedgerInv'
<1>1. ASSUME NEW c \in Commissions, StartReverse(r, c)
      PROVE  LedgerInv'
  <2> DEFINE q == [IdleRequest EXCEPT !.pc = "reverse.wallet", !.commission = c,
                                      !.status = com[c].status]
  <2>1. com[c] \in CommissionStates
    BY DEF LedgerInv
  <2>2. com' = [com EXCEPT ![c] = [com[c] EXCEPT !.status = com[c].status,
                             !.dispute = "over", !.due = com[c].due]]
    BY <1>1, <2>1 DEF LedgerInv, StartReverse, CommissionStates
  <2>3. TakenStay /\ NonePaid
    BY <2>1, <2>2, OneChanges DEF CommissionStates, Disputes
  <2>4. req' = [req EXCEPT ![r] = q] /\ q.pc \notin Batching
    BY <1>1 DEF StartReverse, Begin, IdleRequest, Batching
  <2>5. req'[r] = q
    BY <2>4 DEF LedgerInv
  <2>6. Knows(req[r])'
    BY <2>5 DEF Knows, IdleRequest, Batching, Confirming
  <2> HIDE DEF q
  <2>7. QED
    BY <1>1, <2>3, <2>4, <2>6, SamePayoutsStay, StillPaid, ComStep DEF StartReverse
<1>2. CASE ReverseWallet(r)
  <2> DEFINE q == [req[r] EXCEPT !.pc = "reverse.save"]
  <2>1. Knows(q) /\ q.pc \notin Batching
    BY <1>2 DEF LedgerInv, Knows, IdleRequest, Batching, Confirming, ReverseWallet, At
  <2>2. req' = [req EXCEPT ![r] = q]
    BY <1>2 DEF ReverseWallet, Goto, LedgerInv
  <2> HIDE DEF q
  <2>3. QED
    BY <1>2, <2>1, <2>2, QuietStep DEF ReverseWallet
<1>3. CASE ReverseSave(r)
  <2> DEFINE c == req[r].commission
  <2>1. c \in Commissions /\ com[c] \in CommissionStates
    BY <1>3 DEF LedgerInv, Knows, ReverseSave, At
  <2>2. com' = [com EXCEPT ![c] = [com[c] EXCEPT !.status = "REVERSED",
                             !.dispute = com[c].dispute, !.due = com[c].due]]
    BY <1>3, <2>1 DEF LedgerInv, ReverseSave, CommissionStates
  <2>3. TakenStay /\ NonePaid
    BY <2>1, <2>2, OneChanges DEF CommissionStates, Statuses, Taken
  <2>4. req' = [req EXCEPT ![r] = IdleRequest] /\ req'[r] = IdleRequest
    BY <1>3 DEF ReverseSave, Finish, LedgerInv
  <2>5. Knows(req[r])' /\ IdleRequest.pc \notin Batching
    BY <2>4 DEF Knows, IdleRequest, Batching, Confirming
  <2>6. QED
    BY <1>3, <2>3, <2>4, <2>5, SamePayoutsStay, StillPaid, ComStep DEF ReverseSave
<1>4. QED
  BY <1>1, <1>2, <1>3 DEF Reverse

\* Days pass, or the operation goes on after a dispute.
LEMMA WorldKeeps ==
  ASSUME LedgerInv, NEW c \in Commissions, Matures(c) \/ Block(c) \/ Resume(c)
  PROVE  LedgerInv'
<1>1. com[c] \in CommissionStates
  BY DEF LedgerInv
<1>2. CASE Matures(c)
  <2>1. com' = [com EXCEPT ![c] = [com[c] EXCEPT !.status = com[c].status,
                             !.dispute = com[c].dispute, !.due = TRUE]]
    BY <1>1, <1>2 DEF LedgerInv, Matures, CommissionStates
  <2>2. QED
    BY <1>1, <1>2, <2>1, OneChanges, WorldStep DEF Matures, CommissionStates
<1>3. CASE Resume(c)
  <2> DEFINE status == IF com[c].status # "BLOCKED" THEN com[c].status
                       ELSE IF com[c].due THEN "AVAILABLE" ELSE "PENDING"
  <2>1. com' = [com EXCEPT ![c] = [com[c] EXCEPT !.status = status,
                             !.dispute = "none", !.due = com[c].due]]
    BY <1>1, <1>3 DEF LedgerInv, Resume, CommissionStates
  <2>2. /\ status \in Statuses
        /\ com[c].status \in Taken => status \in Taken
        /\ status = "PAID" => com[c].status = "PAID"
    BY <1>1 DEF CommissionStates, Statuses, Taken
  <2> HIDE DEF status
  <2>3. TakenStay /\ NonePaid
    <3>1. com[c].due \in BOOLEAN
      BY <1>1 DEF CommissionStates
    <3>2. com' = [com EXCEPT ![c] = [com[c] EXCEPT !.status = status,
                               !.dispute = "none", !.due = com[c].due]]
      BY <2>1 DEF status
    <3>3. "none" \in Disputes
      BY DEF Disputes
    <3>4. QED
      BY <2>2, <3>1, <3>2, <3>3, OneChanges
  <2>4. QED
    BY <1>3, <2>3, WorldStep DEF Resume
<1>4. CASE Block(c)
  <2> DEFINE status == IF com[c].status \in {"PENDING", "AVAILABLE"} THEN "BLOCKED"
                       ELSE com[c].status
  <2>1. com' = [com EXCEPT ![c] = [com[c] EXCEPT !.status = status,
                             !.dispute = "open", !.due = com[c].due]]
    BY <1>1, <1>4 DEF LedgerInv, Block, CommissionStates
  <2>2. /\ status \in Statuses
        /\ com[c].status \in Taken => status \in Taken
        /\ status = "PAID" => com[c].status = "PAID"
    BY <1>1 DEF CommissionStates, Statuses, Taken
  <2> HIDE DEF status
  <2>3. TakenStay /\ NonePaid
    <3>1. com[c].due \in BOOLEAN /\ "open" \in Disputes
      BY <1>1 DEF CommissionStates, Disputes
    <3>2. QED
      BY <2>1, <2>2, <3>1, OneChanges
  <2>4. QED
    BY <1>4, <2>3, WorldStep DEF Block
<1>5. QED
  BY <1>2, <1>3, <1>4

\* A batch is created and its number is the request's own.
LEMMA BatchCreateKeeps ==
  ASSUME LedgerInv, NEW r \in Requests, BatchCreate(r)
  PROVE  LedgerInv'
<1> DEFINE q == [req[r] EXCEPT !.pc = "batch.reserve", !.batch = Len(batches) + 1]
           more == Append(batches, "PENDING_TRANSFER")
<1>1. batches' = more /\ req' = [req EXCEPT ![r] = q] /\ UNCHANGED <<com, payouts>>
  BY DEF BatchCreate, LedgerInv
<1>2. "PENDING_TRANSFER" \in BatchStatuses /\ batches \in Seq(BatchStatuses)
  BY DEF BatchStatuses, LedgerInv
<1>3. more \in Seq(BatchStatuses) /\ Len(more) = Len(batches) + 1 /\ Len(batches) \in Nat
  BY <1>2
<1>4. TakenStay /\ NonePaid /\ PayoutsStay /\ PaidByPayout' /\ BatchesStay
  BY <1>1, <1>3, SameTakenStay, SamePayoutsStay, StillPaid DEF BatchesStay
<1>5. req'[r] = q
  BY <1>1 DEF LedgerInv
<1>6. /\ q.pc = "batch.reserve" /\ q.batch = Len(batches) + 1
      /\ q.list \subseteq Commissions /\ DOMAIN q = DOMAIN IdleRequest
  BY DEF LedgerInv, Knows, IdleRequest
<1>7. q.batch \in 1..Len(batches')
  BY <1>1, <1>3, <1>6
<1> HIDE DEF q, more
<1>8. Knows(req[r])'
  BY <1>5, <1>6, <1>7 DEF Knows, Confirming
<1>9. \A s \in Requests : s # r /\ req[s].pc \in Batching => req[s].batch # q.batch
  BY <1>3, <1>6 DEF LedgerInv, Knows
<1>10. QED
  BY <1>1, <1>4, <1>8, <1>9, Moves

\* What is available is reserved; unless it is all of it, the batch is given up.
LEMMA BatchReserveKeeps ==
  ASSUME LedgerInv, NEW r \in Requests, BatchReserve(r)
  PROVE  LedgerInv'
<1>1. PICK c \in req[r].list :
        LET owed == OwedTo(r, Owner[c])
            reserved == owed \cap WithStatus("AVAILABLE") IN
          /\ com' = [d \in Commissions |-> IF d \in reserved
                       THEN [com[d] EXCEPT !.status = "RESERVED", !.batch = req[r].batch]
                       ELSE com[d]]
          /\ \/ reserved # owed /\ Finish(r)
             \/ /\ reserved = owed
                /\ req' = [req EXCEPT ![r].pc = "batch.payout", ![r].agent = Owner[c]]
  BY DEF BatchReserve
<1> DEFINE owed == OwedTo(r, Owner[c])
           reserved == owed \cap WithStatus("AVAILABLE")
           q == [req[r] EXCEPT !.pc = "batch.payout", !.agent = Owner[c]]
<1>2. Knows(req[r]) /\ req[r].pc = "batch.reserve"
  BY DEF LedgerInv, BatchReserve, At
<1>3. req[r].batch \in 1..Len(batches) /\ req[r].list \subseteq Commissions
      /\ Len(batches) \in Nat
  BY <1>2 DEF Knows, Batching, LedgerInv
<1>4. \A d \in Commissions : com[d] \in CommissionStates
  BY DEF LedgerInv
<1>5. \A d \in reserved : d \in Commissions /\ com[d].status = "AVAILABLE"
  BY DEF WithStatus
<1>6. \A d \in reserved : com'[d] = [com[d] EXCEPT !.status = "RESERVED", !.batch = req[r].batch]
  BY <1>1, <1>5
<1>7. \A d \in reserved : /\ com'[d] \in CommissionStates /\ com'[d].status = "RESERVED"
                          /\ com'[d].batch = req[r].batch
  <2> SUFFICES ASSUME NEW d \in reserved
               PROVE  /\ com'[d] \in CommissionStates /\ com'[d].status = "RESERVED"
                      /\ com'[d].batch = req[r].batch
    OBVIOUS
  <2>1. com[d] \in CommissionStates
        /\ com'[d] = [com[d] EXCEPT !.status = "RESERVED", !.batch = req[r].batch]
    BY <1>4, <1>5, <1>6
  <2>2. req[r].batch \in Nat
    BY <1>3
  <2> HIDE DEF reserved
  <2>3. QED
    BY <2>1, <2>2 DEF CommissionStates, Statuses
<1>8. \A d \in Commissions \ reserved : com'[d] = com[d]
  BY <1>1
<1>9. TakenStay /\ NonePaid
  <2>1. com' = [d \in Commissions |-> com'[d]]
    BY <1>1
  <2>2. \A d \in Commissions : com'[d] \in CommissionStates
    BY <1>4, <1>7, <1>8
  <2>3. com' \in [Commissions -> CommissionStates]
    BY <2>1, <2>2
  <2>4. QED
    BY <1>5, <1>7, <1>8, <2>3 DEF TakenStay, NonePaid, Taken
<1>10. PaidByPayout' /\ UNCHANGED <<batches, payouts>>
  BY <1>9, SamePayoutsStay, StillPaid DEF BatchReserve
<1>11. CASE Finish(r)
  <2>1. req' = [req EXCEPT ![r] = IdleRequest] /\ req'[r] = IdleRequest
    BY <1>11 DEF Finish, LedgerInv
  <2>2. Knows(req[r])' /\ IdleRequest.pc \notin Batching
    BY <2>1 DEF Knows, IdleRequest, Batching, Confirming
  <2>3. QED
    BY <1>9, <1>10, <2>1, <2>2, ComStep
<1>12. CASE reserved = owed /\ req' = [req EXCEPT ![r].pc = "batch.payout", ![r].agent = Owner[c]]
  <2>1. req' = [req EXCEPT ![r] = q] /\ req'[r] = q
    BY <1>12 DEF LedgerInv
  <2>2. /\ q.pc = "batch.payout" /\ q.batch = req[r].batch /\ q.agent = Owner[c]
        /\ q.list = req[r].list /\ DOMAIN q = DOMAIN IdleRequest
    BY <1>2 DEF Knows, IdleRequest
  <2> HIDE DEF q
  <2>3. Owner[c] \in Agents
    BY <1>3, OwnerAssumption
  <2>4. \A d \in q.list : Owner[d] = q.agent => d \in reserved
    BY <1>12, <2>2 DEF OwedTo
  <2>5. \A d \in reserved : d \notin InPayouts
    BY <1>5 DEF LedgerInv, PayoutsAreReserved, InPayouts
  <2>6. InPayouts' = InPayouts
    BY <1>10 DEF InPayouts
  <2> HIDE DEF reserved, owed
  <2>7. Knows(req[r])'
    BY <1>3, <1>7, <1>10, <2>1, <2>2, <2>3, <2>4, <2>5, <2>6 DEF Knows, Taken, Confirming
  <2>8. QED
    BY <1>2, <1>9, <1>10, <2>1, <2>2, <2>7, ComStep DEF Batching
<1>13. QED
  BY <1>1, <1>11, <1>12

\* The payout of an agent takes what has just been reserved, and nothing that
\* is in another payout.
LEMMA BatchPayoutKeeps ==
  ASSUME LedgerInv, NEW r \in Requests, BatchPayout(r)
  PROVE  LedgerInv'
<1> DEFINE owed == OwedTo(r, req[r].agent)
           payout == [batch |-> req[r].batch, agent |-> req[r].agent,
                      commissions |-> owed, paid |-> FALSE]
           more == Append(payouts, payout)
           last == Len(payouts) + 1
           q == [req[r] EXCEPT !.pc = "batch.link", !.document = last]
<1>1. /\ payouts' = more /\ req' = [req EXCEPT ![r] = q] /\ UNCHANGED <<com, batches>>
      /\ req'[r] = q /\ \A s \in Requests : s # r => req'[s] = req[s]
  BY DEF BatchPayout, LedgerInv
<1>2. /\ Knows(req[r]) /\ req[r].pc = "batch.payout" /\ Len(batches) \in Nat
      /\ payouts \in Seq(Payouts) /\ DOMAIN payouts = 1..Len(payouts) /\ Len(payouts) \in Nat
  BY DEF LedgerInv, BatchPayout, At
<1>3. /\ req[r].batch \in 1..Len(batches) /\ req[r].agent \in Agents
      /\ owed \subseteq Commissions
      /\ \A c \in owed : /\ Owner[c] = req[r].agent /\ com[c].status \in Taken
                         /\ com[c].batch = req[r].batch /\ c \notin InPayouts
  BY <1>2 DEF Knows, Batching, OwedTo
<1>4. payout \in Payouts
  BY <1>2, <1>3 DEF Payouts
<1>5. /\ payout.batch = req[r].batch /\ payout.agent = req[r].agent
      /\ payout.commissions = owed /\ payout.paid = FALSE
  OBVIOUS
<1>6. /\ q.pc = "batch.link" /\ q.batch = req[r].batch /\ q.list = req[r].list
      /\ q.document = last /\ DOMAIN q = DOMAIN IdleRequest
  BY <1>2 DEF Knows, IdleRequest
<1> HIDE DEF payout, owed, q
<1>7. /\ more \in Seq(Payouts) /\ DOMAIN more = 1..last
      /\ more[last] = payout /\ \A n \in 1..Len(payouts) : more[n] = payouts[n]
  BY <1>2, <1>4
<1>8. \A c : c \in InPayouts' <=> c \in InPayouts \/ c \in owed
  <2>1. 1..last = 1..Len(payouts) \cup {last}
    BY <1>2
  <2> HIDE DEF more, last
  <2>2. QED
    BY <1>1, <1>2, <1>5, <1>7, <2>1 DEF InPayouts
<1> HIDE DEF more, last
<1>9. \A s \in Requests : Knows(req[s])'
  <2> SUFFICES ASSUME NEW s \in Requests
               PROVE  Knows(req[s])'
    OBVIOUS
  <2>1. CASE s = r
    <3>1. last \in DOMAIN payouts'
      BY <1>1, <1>2, <1>7 DEF last
    <3>2. QED
      BY <1>1, <1>2, <1>3, <1>6, <2>1, <3>1 DEF Knows, Confirming, Batching
  <2>2. CASE s # r
    <3>1. Knows(req[s]) /\ req'[s] = req[s]
      BY <1>1, <2>2 DEF LedgerInv
    <3>2. ASSUME req[s].pc = "batch.payout", NEW c \in req[s].list, Owner[c] = req[s].agent
          PROVE  c \notin InPayouts'
      <4>1. com[c].batch = req[s].batch /\ c \notin InPayouts
        BY <3>1, <3>2 DEF Knows
      <4>2. req[s].batch # req[r].batch
        BY <1>2, <2>2, <3>2 DEF LedgerInv, OwnBatches, Batching
      <4>3. QED
        BY <1>3, <1>8, <4>1, <4>2
    <3>3. DOMAIN payouts \subseteq DOMAIN payouts'
      BY <1>1, <1>2, <1>7 DEF last
    <3>4. \A n \in DOMAIN payouts : payouts'[n] = payouts[n]
      BY <1>1, <1>2, <1>7
    <3>5. QED
      BY <1>1, <3>1, <3>2, <3>3, <3>4 DEF Knows, Confirming
  <2>3. QED
    BY <2>1, <2>2
<1>10. OwnBatches'
  BY <1>1, <1>2, <1>6 DEF LedgerInv, OwnBatches, Batching
<1>11. \A n \in DOMAIN payouts' : n \in DOMAIN payouts \/ n = last
  BY <1>1, <1>2, <1>7 DEF last
<1>12. OnePayoutEach'
  <2> SUFFICES ASSUME NEW m \in DOMAIN payouts', NEW n \in DOMAIN payouts', m # n
               PROVE  payouts'[m].commissions \cap payouts'[n].commissions = {}
    BY DEF OnePayoutEach
  <2>1. CASE m \in DOMAIN payouts /\ n \in DOMAIN payouts
    BY <1>1, <1>2, <1>7, <2>1 DEF OnePayoutEach, LedgerInv
  <2>2. ASSUME NEW k \in DOMAIN payouts
        PROVE  payouts'[k].commissions \cap payouts'[last].commissions = {}
    BY <1>1, <1>2, <1>3, <1>5, <1>7, <2>2 DEF InPayouts
  <2>3. QED
    BY <1>11, <2>1, <2>2
<1>13. PaidByPayout'
  <2> SUFFICES ASSUME NEW c \in Commissions, com[c].status = "PAID"
               PROVE  \E n \in DOMAIN payouts' :
                        payouts'[n].paid /\ c \in payouts'[n].commissions
    BY <1>1 DEF PaidByPayout, WithStatus
  <2>1. PICK n \in DOMAIN payouts : payouts[n].paid /\ c \in payouts[n].commissions
    BY DEF LedgerInv, PaidByPayout, WithStatus
  <2>2. QED
    BY <1>1, <1>2, <1>7, <2>1 DEF last
<1>14. PayoutsAreReserved'
  <2> SUFFICES ASSUME NEW n \in DOMAIN payouts', NEW c \in payouts'[n].commissions
               PROVE  /\ Owner[c] = payouts'[n].agent
                      /\ com[c].batch = payouts'[n].batch
                      /\ com[c].status \in Taken
    BY <1>1 DEF PayoutsAreReserved, Taken
  <2>1. CASE n = last
    BY <1>1, <1>3, <1>5, <1>7, <2>1
  <2>2. CASE n \in DOMAIN payouts
    BY <1>1, <1>2, <1>7, <2>2 DEF LedgerInv, PayoutsAreReserved, Taken
  <2>3. QED
    BY <1>11, <2>1, <2>2
<1>15. QED
  BY <1>1, <1>7, <1>9, <1>10, <1>12, <1>13, <1>14 DEF LedgerInv

\* The number of the payout is written on its commissions, which stay as they are otherwise.
LEMMA BatchLinkKeeps ==
  ASSUME LedgerInv, NEW r \in Requests, BatchLink(r)
  PROVE  LedgerInv'
<1> DEFINE owed == OwedTo(r, req[r].agent)
           k == req[r].document
           q == [req[r] EXCEPT !.pc = "batch.wallet"]
<1>1. /\ Knows(req[r]) /\ req[r].pc = "batch.link" /\ payouts \in Seq(Payouts)
      /\ com \in [Commissions -> CommissionStates]
  BY DEF LedgerInv, BatchLink, At
<1>2. k \in Nat
  BY <1>1 DEF Knows
<1>3. com' = [c \in Commissions |-> IF c \in owed THEN [com[c] EXCEPT !.payout = k] ELSE com[c]]
  BY DEF BatchLink
<1> HIDE DEF owed, k
<1>4. \A c \in Commissions : /\ com'[c] \in CommissionStates /\ com'[c].status = com[c].status
                             /\ com'[c].batch = com[c].batch
  <2> SUFFICES ASSUME NEW c \in Commissions
               PROVE  /\ com'[c] \in CommissionStates /\ com'[c].status = com[c].status
                      /\ com'[c].batch = com[c].batch
    OBVIOUS
  <2>1. com[c] \in CommissionStates /\ (com'[c] = com[c] \/ com'[c] = [com[c] EXCEPT !.payout = k])
    BY <1>1, <1>3
  <2>2. QED
    BY <1>2, <2>1 DEF CommissionStates
<1>5. TakenStay /\ NonePaid
  <2>1. com' = [c \in Commissions |-> com'[c]]
    BY <1>3
  <2>2. com' \in [Commissions -> CommissionStates]
    BY <1>4, <2>1
  <2>3. QED
    BY <1>4, <2>2 DEF TakenStay, NonePaid
<1>6. PaidByPayout' /\ UNCHANGED <<batches, payouts>>
  BY <1>5, SamePayoutsStay, StillPaid DEF BatchLink
<1>7. req' = [req EXCEPT ![r] = q] /\ req'[r] = q
  BY DEF BatchLink, Goto, LedgerInv
<1>8. /\ q.pc = "batch.wallet" /\ q.batch = req[r].batch /\ q.list = req[r].list
      /\ DOMAIN q = DOMAIN IdleRequest
  BY <1>1 DEF Knows, IdleRequest
<1> HIDE DEF q
<1>9. Knows(req[r])'
  BY <1>1, <1>6, <1>7, <1>8 DEF Knows, Batching, Confirming
<1>10. QED
  BY <1>1, <1>5, <1>6, <1>7, <1>8, <1>9, ComStep DEF Batching

\* The whole of createBatchFromAvailable.
LEMMA BatchKeeps ==
  ASSUME LedgerInv, NEW r \in Requests, StartBatch(r) \/ Batch(r)
  PROVE  LedgerInv'
<1>1. CASE StartBatch(r)
  <2>0. PICK agents \in SUBSET Agents :
          LET list == {c \in WithStatus("AVAILABLE") : Owner[c] \in agents} IN
            list # {} /\ Begin(r, [IdleRequest EXCEPT !.pc = "batch.create", !.list = list])
    BY <1>1 DEF StartBatch
  <2> DEFINE list == {c \in WithStatus("AVAILABLE") : Owner[c] \in agents}
             q == [IdleRequest EXCEPT !.pc = "batch.create", !.list = list]
  <2>1. Knows(q) /\ q.pc \notin Batching
    BY DEF Knows, IdleRequest, Batching, Confirming, WithStatus
  <2>2. QED
    BY <1>1, <2>0, <2>1, BeginStep DEF StartBatch
<1>2. CASE BatchWallet(r)
  <2> DEFINE owed == OwedTo(r, req[r].agent)
             q == [req[r] EXCEPT !.pc = "batch.reserve", !.list = req[r].list \ owed]
  <2>1. CASE Finish(r)
    BY <1>2, <2>1, FinishStep DEF BatchWallet
  <2>2. CASE req' = [req EXCEPT ![r].pc = "batch.reserve", ![r].list = @ \ owed]
    <3>1. req' = [req EXCEPT ![r] = q]
      BY <2>2 DEF LedgerInv
    <3>2. Knows(req[r]) /\ req[r].pc = "batch.wallet"
      BY <1>2 DEF LedgerInv, BatchWallet, At
    <3>3. /\ q.pc = "batch.reserve" /\ q.batch = req[r].batch
          /\ q.list \subseteq Commissions /\ DOMAIN q = DOMAIN IdleRequest
      BY <3>2 DEF Knows, IdleRequest
    <3> HIDE DEF q
    <3>4. Knows(q)
      BY <3>2, <3>3 DEF Knows, Batching, Confirming
    <3>5. QED
      BY <1>2, <3>1, <3>2, <3>3, <3>4, QuietStep DEF BatchWallet, Batching
  <2>3. QED
    BY <1>2, <2>1, <2>2 DEF BatchWallet
<1>3. QED
  BY <1>1, <1>2, BatchCreateKeeps, BatchReserveKeeps, BatchPayoutKeeps,
     BatchLinkKeeps DEF Batch

\* A payout is confirmed, its commissions become PAID, the batch is refreshed.
LEMMA ConfirmKeeps ==
  ASSUME LedgerInv, NEW r \in Requests,
         (\E n \in DOMAIN payouts : StartConfirm(r, n)) \/ Confirm(r)
  PROVE  LedgerInv'
<1>1. ASSUME NEW n \in DOMAIN payouts, StartConfirm(r, n)
      PROVE  LedgerInv'
  <2> DEFINE q == [IdleRequest EXCEPT !.pc = "confirm.save", !.document = n]
  <2>1. Knows(q) /\ q.pc \notin Batching
    BY DEF Knows, IdleRequest, Batching, Confirming
  <2>2. QED
    BY <1>1, <2>1, BeginStep DEF StartConfirm
<1>2. Knows(req[r]) /\ payouts \in Seq(Payouts)
  BY DEF LedgerInv
<1>3. CASE ConfirmSave(r)
  <2> DEFINE k == req[r].document
             q == [req[r] EXCEPT !.pc = "confirm.commissions"]
  <2>1. k \in DOMAIN payouts /\ payouts[k] \in Payouts
    BY <1>2, <1>3 DEF ConfirmSave, At, Knows, Confirming
  <2>2. payouts' = [payouts EXCEPT ![k] = [payouts[k] EXCEPT !.paid = TRUE]]
    BY <1>3, <2>1 DEF ConfirmSave
  <2>3. [payouts[k] EXCEPT !.paid = TRUE] \in Payouts
    BY <2>1 DEF Payouts
  <2>4. payouts' \in Seq(Payouts) /\ DOMAIN payouts' = DOMAIN payouts
    BY <1>2, <2>1, <2>2, <2>3
  <2>5. /\ payouts'[k] = [payouts[k] EXCEPT !.paid = TRUE]
        /\ \A n \in DOMAIN payouts : n # k => payouts'[n] = payouts[n]
    BY <1>2, <2>1, <2>2
  <2>6. /\ payouts'[k].paid /\ payouts'[k].commissions = payouts[k].commissions
        /\ payouts'[k].batch = payouts[k].batch /\ payouts'[k].agent = payouts[k].agent
    BY <2>1, <2>5 DEF Payouts
  <2>7. PayoutsStay
    BY <2>4, <2>5, <2>6 DEF PayoutsStay
  <2>8. req' = [req EXCEPT ![r] = q] /\ req'[r] = q /\ UNCHANGED <<com, batches>>
    BY <1>3 DEF ConfirmSave, Goto, LedgerInv
  <2>9. /\ q.pc = "confirm.commissions" /\ q.document = k /\ q.list \subseteq Commissions
        /\ DOMAIN q = DOMAIN IdleRequest
    BY <1>2 DEF Knows, IdleRequest
  <2> HIDE DEF q, k
  <2>10. Knows(req[r])' /\ q.pc \notin Batching
    BY <2>1, <2>4, <2>6, <2>8, <2>9 DEF Knows, Batching, Confirming
  <2>11. QED
    BY <2>7, <2>8, <2>10, SameTakenStay, SameBatchesStay, StillPaid, Moves
<1>4. CASE ConfirmCommissions(r)
  <2> DEFINE k == req[r].document
             q == [req[r] EXCEPT !.pc = "refresh.read"]
  <2>1. k \in DOMAIN payouts /\ payouts[k] \in Payouts /\ payouts[k].paid
    BY <1>2, <1>4 DEF ConfirmCommissions, At, Knows, Confirming
  <2>2. com' = [c \in Commissions |-> IF c \in payouts[k].commissions
                  THEN [com[c] EXCEPT !.status = "PAID"] ELSE com[c]]
    BY <1>4 DEF ConfirmCommissions
  <2>3. \A c \in Commissions : com[c] \in CommissionStates
    BY DEF LedgerInv
  <2>4. \A c \in Commissions : c \in payouts[k].commissions =>
          /\ com'[c] \in CommissionStates /\ com'[c].status = "PAID"
          /\ com'[c].batch = com[c].batch
    BY <2>2, <2>3 DEF CommissionStates, Statuses
  <2>5. \A c \in Commissions : c \notin payouts[k].commissions => com'[c] = com[c]
    BY <2>2
  <2>6. TakenStay
    <3>1. com' = [c \in Commissions |-> com'[c]]
      BY <2>2
    <3>2. \A c \in Commissions : com'[c] \in CommissionStates
      BY <2>3, <2>4, <2>5
    <3>3. com' \in [Commissions -> CommissionStates]
      BY <3>1, <3>2
    <3>4. QED
      BY <2>4, <2>5, <3>3 DEF TakenStay, Taken
  <2>7. UNCHANGED <<batches, payouts>>
    BY <1>4 DEF ConfirmCommissions
  <2>8. PaidByPayout'
    <3> SUFFICES ASSUME NEW c \in Commissions, com'[c].status = "PAID"
                 PROVE  \E n \in DOMAIN payouts : payouts[n].paid /\ c \in payouts[n].commissions
      BY <2>7 DEF PaidByPayout, WithStatus
    <3>1. CASE c \in payouts[k].commissions
      BY <2>1, <3>1
    <3>2. CASE c \notin payouts[k].commissions
      BY <2>5, <3>2 DEF LedgerInv, PaidByPayout, WithStatus
    <3>3. QED
      BY <3>1, <3>2
  <2>9. req' = [req EXCEPT ![r] = q] /\ req'[r] = q
    BY <1>4 DEF ConfirmCommissions, Goto, LedgerInv
  <2>10. /\ q.pc = "refresh.read" /\ q.document = k /\ q.list \subseteq Commissions
         /\ DOMAIN q = DOMAIN IdleRequest
    BY <1>2 DEF Knows, IdleRequest
  <2> HIDE DEF q, k
  <2>11. Knows(req[r])' /\ q.pc \notin Batching
    BY <2>1, <2>7, <2>9, <2>10 DEF Knows, Batching, Confirming
  <2>12. QED
    BY <2>6, <2>7, <2>8, <2>9, <2>11, ComStep
<1>5. CASE RefreshRead(r)
  <2> DEFINE batch == payouts[req[r].document].batch
             q == [req[r] EXCEPT !.pc = "refresh.save", !.batch = batch,
                                 !.status = BatchStatus(batch)]
  <2>1. req' = [req EXCEPT ![r] = q]
    BY <1>5 DEF RefreshRead, LedgerInv
  <2>2. /\ q.pc = "refresh.save" /\ q.document = req[r].document /\ q.list \subseteq Commissions
        /\ q.status = BatchStatus(batch) /\ DOMAIN q = DOMAIN IdleRequest
    BY <1>2 DEF Knows, IdleRequest
  <2>3. BatchStatus(batch) \in BatchStatuses
    BY DEF BatchStatus, BatchStatuses
  <2>4. req[r].document \in DOMAIN payouts
    BY <1>2, <1>5 DEF RefreshRead, At, Knows, Confirming
  <2> HIDE DEF q, batch
  <2>5. Knows(q) /\ q.pc \notin Batching
    BY <2>2, <2>3, <2>4 DEF Knows, Batching, Confirming
  <2>6. QED
    BY <1>5, <2>1, <2>5, QuietStep DEF RefreshRead
<1>6. CASE RefreshSave(r)
  <2>1. req[r].status \in BatchStatuses
    BY <1>2, <1>6 DEF RefreshSave, At, Knows
  <2>2. batches' = [batches EXCEPT ![req[r].batch] = req[r].status] /\ UNCHANGED <<com, payouts>>
    BY <1>6 DEF RefreshSave
  <2>3. batches \in Seq(BatchStatuses)
    BY DEF LedgerInv
  <2>4. batches' \in Seq(BatchStatuses) /\ Len(batches') = Len(batches) /\ Len(batches) \in Nat
    <3>1. DOMAIN batches = 1..Len(batches) /\ Len(batches) \in Nat
      BY <2>3
    <3>2. \A k \in 1..Len(batches) : batches'[k] \in BatchStatuses
      BY <2>1, <2>2, <2>3, <3>1
    <3>3. batches' = [k \in 1..Len(batches) |-> batches'[k]]
      BY <2>2, <3>1
    <3>4. QED
      BY <3>1, <3>2, <3>3
  <2>5. BatchesStay
    BY <2>4 DEF BatchesStay
  <2>6. req' = [req EXCEPT ![r] = IdleRequest] /\ req'[r] = IdleRequest
    BY <1>6 DEF RefreshSave, Finish, LedgerInv
  <2>7. Knows(req[r])' /\ IdleRequest.pc \notin Batching
    BY <2>6 DEF Knows, IdleRequest, Batching, Confirming
  <2>8. QED
    BY <2>2, <2>5, <2>6, <2>7, SameTakenStay, SamePayoutsStay, StillPaid, Moves
<1>7. QED
  BY <1>1, <1>3, <1>4, <1>5, <1>6 DEF Confirm

\* The withdrawals touch neither commissions nor payouts.
LEMMA WithdrawingKeeps ==
  ASSUME LedgerInv, NEW r \in Requests,
         \/ \E a \in Agents, amount \in Amounts : StartWithdrawal(r, a, amount)
         \/ \E n \in DOMAIN withdrawals : StartComplete(r, n)
         \/ Withdrawing(r)
  PROVE  LedgerInv'
<1>1. ASSUME NEW a \in Agents, NEW amount \in Amounts, StartWithdrawal(r, a, amount)
      PROVE  LedgerInv'
  <2> DEFINE q == [IdleRequest EXCEPT !.pc = "withdraw.check", !.agent = a, !.amount = amount,
                                      !.copy = wallet[a]]
  <2>1. Knows(q) /\ q.pc \notin Batching
    BY DEF Knows, IdleRequest, Batching, Confirming
  <2>2. QED
    BY <1>1, <2>1, BeginStep DEF StartWithdrawal
<1>2. ASSUME NEW n \in DOMAIN withdrawals, StartComplete(r, n)
      PROVE  LedgerInv'
  <2> DEFINE q == [IdleRequest EXCEPT !.pc = "complete.check", !.document = n,
                                      !.agent = withdrawals[n].agent,
                                      !.amount = withdrawals[n].amount]
  <2>1. Knows(q) /\ q.pc \notin Batching
    BY DEF Knows, IdleRequest, Batching, Confirming
  <2>2. QED
    BY <1>2, <2>1, BeginStep DEF StartComplete
<1>3. Knows(req[r]) /\ DOMAIN req = Requests
  BY DEF LedgerInv
<1>4. ASSUME NEW pc \in {"withdraw.save", "withdraw.create", "complete.save"}, Goto(r, pc),
             UNCHANGED <<com, batches, payouts>>
      PROVE  LedgerInv'
  <2> DEFINE q == [req[r] EXCEPT !.pc = pc]
  <2>1. Knows(q) /\ q.pc \notin Batching
    BY <1>3 DEF Knows, IdleRequest, Batching, Confirming
  <2>2. req' = [req EXCEPT ![r] = q]
    BY <1>3, <1>4 DEF Goto, LedgerInv
  <2> HIDE DEF q
  <2>3. QED
    BY <1>4, <2>1, <2>2, QuietStep
<1>5. CASE WithdrawCheck(r)
  BY <1>4, <1>5, FinishStep DEF WithdrawCheck
<1>6. CASE WithdrawSave(r)
  BY <1>4, <1>6 DEF WithdrawSave
<1>7. CASE WithdrawCreate(r)
  BY <1>7, FinishStep DEF WithdrawCreate
<1>8. CASE CompleteCheck(r)
  <2> DEFINE copy == wallet[req[r].agent]
             q == [req[r] EXCEPT !.pc = "complete.wallet", !.copy = copy]
  <2>1. Knows(q) /\ q.pc \notin Batching
    BY <1>3 DEF Knows, IdleRequest, Batching, Confirming
  <2>2. Finish(r) \/ req' = [req EXCEPT ![r] = q]
    BY <1>3, <1>8 DEF CompleteCheck, LedgerInv
  <2> HIDE DEF q
  <2>3. QED
    BY <1>8, <2>1, <2>2, FinishStep, QuietStep DEF CompleteCheck
<1>9. CASE CompleteWallet(r)
  BY <1>4, <1>9 DEF CompleteWallet
<1>10. CASE CompleteSave(r)
  BY <1>10, FinishStep DEF CompleteSave
<1>11. QED
  BY <1>1, <1>2, <1>5, <1>6, <1>7, <1>8, <1>9, <1>10 DEF Withdrawing

----------------------------------------------------------------------------
(* The theorems.                                                           *)

\* Nothing has been reserved or paid at the beginning.
LEMMA InitLedger == Init => LedgerInv
<1> SUFFICES ASSUME Init PROVE LedgerInv
  OBVIOUS
<1>1. com \in [Commissions -> CommissionStates] /\ \A c \in Commissions : com[c].status # "PAID"
  BY DEF Init, CommissionStates, Statuses, Disputes
<1>2. batches \in Seq(BatchStatuses) /\ payouts \in Seq(Payouts) /\ DOMAIN payouts = {}
  BY DEF Init
<1>3. req = [r \in Requests |-> IdleRequest]
  BY DEF Init
<1>4. \A r \in Requests : req[r] = IdleRequest /\ Knows(req[r])
  BY <1>3, IdleKnows
<1>5. DOMAIN req = Requests /\ req = [r \in Requests |-> req[r]] /\ OwnBatches
  BY <1>3, <1>4, IdleKnows DEF OwnBatches
<1>6. OnePayoutEach /\ PaidByPayout /\ PayoutsAreReserved
  BY <1>1, <1>2 DEF OnePayoutEach, PaidByPayout, PayoutsAreReserved, WithStatus
<1>7. QED
  BY <1>1, <1>2, <1>4, <1>5, <1>6 DEF LedgerInv

\* Every step keeps it.
LEMMA NextKeeps == LedgerInv /\ [Next]_vars => LedgerInv'
<1> SUFFICES ASSUME LedgerInv, [Next]_vars PROVE LedgerInv'
  OBVIOUS
<1>1. CASE UNCHANGED vars
  BY <1>1, SameTakenStay, WorldStep DEF vars
<1>2. ASSUME NEW c \in Commissions, Matures(c) \/ Block(c) \/ Resume(c)
      PROVE  LedgerInv'
  BY <1>2, WorldKeeps
<1>3. ASSUME NEW r \in Requests, Requested(r)
      PROVE  LedgerInv'
  BY <1>3, ReleaseKeeps, ReverseKeeps, BatchKeeps, ConfirmKeeps, WithdrawingKeeps DEF Requested
<1>4. ASSUME NEW r \in Requests, Step(r)
      PROVE  LedgerInv'
  BY <1>4, ReleaseKeeps, ReverseKeeps, BatchKeeps, ConfirmKeeps, WithdrawingKeeps DEF Step
<1>5. ASSUME NEW r \in Requests, Abandon(r)
      PROVE  LedgerInv'
  BY <1>5, FinishStep DEF Abandon
<1>6. QED
  BY <1>1, <1>2, <1>3, <1>4, <1>5 DEF Next

\* LedgerInv is an invariant: what is in a payout has been reserved for its
\* batch, and each request that fills a batch has that batch to itself.
THEOREM LedgerCorrect == Spec => []LedgerInv
<1>1. Init => LedgerInv
  BY InitLedger
<1>2. LedgerInv /\ [Next]_vars => LedgerInv'
  BY NextKeeps
<1>3. QED
  BY <1>1, <1>2, PTL DEF Spec

\* No commission is in two payouts, however many batches are created at once
\* by createBatchFromAvailable and wherever they die.
THEOREM PaidOutOnce == Spec => []OnePayoutEach
<1>1. LedgerInv => OnePayoutEach
  BY DEF LedgerInv
<1>2. QED
  BY <1>1, LedgerCorrect, PTL

----------------------------------------------------------------------------
(* The number of its payout, on a commission.                              *)

\* What is in a payout has its number, unless a request has died or is about to write it.
LinkInv ==
  /\ failures \in Nat
  /\ \A c \in InPayouts : com[c].payout # 0 \/ failures > 0 \/ Linking(c)

\* What is in a payout is a commission.
LEMMA OnlyCommissionsInPayouts ==
  ASSUME LedgerInv
  PROVE  InPayouts \subseteq Commissions
<1>1. \A n \in DOMAIN payouts : payouts[n] \in Payouts
  BY DEF LedgerInv
<1>2. \A n \in DOMAIN payouts : payouts[n].commissions \subseteq Commissions
  BY <1>1 DEF Payouts
<1>3. QED
  BY <1>2 DEF InPayouts

\* No payout gets a commission, no number is written, and who is to write one still is.
LEMMA LinksStay ==
  ASSUME LedgerInv, LinkInv, UNCHANGED failures,
         \A c : c \in InPayouts' => c \in InPayouts,
         \A c \in Commissions : com'[c].payout = com[c].payout,
         \A s \in Requests : req[s].pc = "batch.link" => req'[s] = req[s]
  PROVE  LinkInv'
<1>1. InPayouts \subseteq Commissions
  BY OnlyCommissionsInPayouts
<1>2. \A c : Linking(c) => Linking(c)'
  BY DEF Linking, At, OwedTo
<1>3. QED
  BY <1>1, <1>2 DEF LinkInv

\* A step of a request that is not about to write a number, and does not change payouts.
LEMMA LinksMove ==
  ASSUME LedgerInv, LinkInv, UNCHANGED <<failures, payouts>>, NEW r \in Requests,
         req[r].pc # "batch.link", \A s \in Requests : s # r => req'[s] = req[s],
         \A c \in Commissions : com'[c].payout = com[c].payout
  PROVE  LinkInv'
BY LinksStay DEF InPayouts

\* The steps of a request that change a commission leave its number alone.
LEMMA NumbersStay ==
  ASSUME LedgerInv, NEW r \in Requests,
         Release(r) \/ Reverse(r) \/ BatchReserve(r) \/ ConfirmCommissions(r)
  PROVE  \A c \in Commissions : com'[c].payout = com[c].payout
<1>1. com \in [Commissions -> CommissionStates] /\ Knows(req[r])
  BY DEF LedgerInv
<1>2. \A c \in Commissions : com[c] \in CommissionStates
  BY <1>1
<1>3. CASE Release(r)
  <2>1. UNCHANGED com \/ \E c \in req[r].list : com' = [com EXCEPT ![c].status = "AVAILABLE"]
    BY <1>3 DEF Release, ReleaseClaim, ReleaseWallet
  <2>2. QED
    BY <1>1, <1>2, <2>1 DEF CommissionStates
<1>4. CASE Reverse(r)
  <2>1. UNCHANGED com \/ com' = [com EXCEPT ![req[r].commission].status = "REVERSED"]
    BY <1>4 DEF Reverse, ReverseWallet, ReverseSave
  <2>2. QED
    BY <1>1, <1>2, <2>1 DEF CommissionStates
<1>5. CASE BatchReserve(r)
  <2>1. \A c \in Commissions :
          \/ com'[c] = com[c]
          \/ com'[c] = [com[c] EXCEPT !.status = "RESERVED", !.batch = req[r].batch]
    BY <1>5 DEF BatchReserve
  <2>2. QED
    BY <1>2, <2>1 DEF CommissionStates
<1>6. CASE ConfirmCommissions(r)
  <2>1. \A c \in Commissions : com'[c] = com[c] \/ com'[c] = [com[c] EXCEPT !.status = "PAID"]
    BY <1>6 DEF ConfirmCommissions
  <2>2. QED
    BY <1>2, <2>1 DEF CommissionStates
<1>7. QED
  BY <1>3, <1>4, <1>5, <1>6

\* The insert of a payout, and the number on its commissions.
LEMMA LinksBatch ==
  ASSUME LedgerInv, LinkInv, NEW r \in Requests, BatchPayout(r) \/ BatchLink(r)
  PROVE  LinkInv'
<1>1. /\ DOMAIN req = Requests /\ com \in [Commissions -> CommissionStates] /\ Knows(req[r])
      /\ payouts \in Seq(Payouts) /\ Len(payouts) \in Nat
  BY DEF LedgerInv
<1>2. InPayouts \subseteq Commissions
  BY OnlyCommissionsInPayouts
<1>3. CASE BatchPayout(r)
  <2> DEFINE owed == OwedTo(r, req[r].agent)
             payout == [batch |-> req[r].batch, agent |-> req[r].agent,
                        commissions |-> owed, paid |-> FALSE]
  <2>1. /\ payouts' = Append(payouts, payout) /\ UNCHANGED <<com, failures>>
        /\ req' = [req EXCEPT ![r].pc = "batch.link", ![r].document = Len(payouts) + 1]
        /\ req[r].pc = "batch.payout"
    BY <1>3 DEF BatchPayout, At
  <2>2. \A n \in DOMAIN payouts' :
          payouts'[n] = payout \/ (n \in DOMAIN payouts /\ payouts'[n] = payouts[n])
    <3> DEFINE more == Append(payouts, payout)
    <3>1. DOMAIN payouts = 1..Len(payouts) /\ payouts' = more
      BY <1>1, <2>1
    <3> HIDE DEF payout
    <3>2. /\ DOMAIN more = 1..(Len(payouts) + 1)
          /\ \A n \in 1..Len(payouts) : more[n] = payouts[n]
          /\ more[Len(payouts) + 1] = payout
      BY <1>1
    <3>3. \A n \in 1..(Len(payouts) + 1) : n \in 1..Len(payouts) \/ n = Len(payouts) + 1
      BY <1>1
    <3> HIDE DEF more
    <3>4. QED
      BY <3>1, <3>2, <3>3
  <2>3. \A c \in InPayouts' : c \in InPayouts \/ c \in owed
    BY <2>2 DEF InPayouts
  <2>4. /\ req'[r].pc = "batch.link" /\ req'[r].list = req[r].list /\ req'[r].agent = req[r].agent
        /\ \A s \in Requests : s # r => req'[s] = req[s]
    BY <1>1, <2>1 DEF Knows, IdleRequest
  <2>5. \A c \in owed : Linking(c)'
    BY <2>4 DEF Linking, At, OwedTo
  <2>6. \A c : Linking(c) => Linking(c)'
    BY <2>1, <2>4 DEF Linking, At, OwedTo
  <2>7. QED
    BY <2>1, <2>3, <2>5, <2>6 DEF LinkInv
<1>4. CASE BatchLink(r)
  <2> DEFINE owed == OwedTo(r, req[r].agent)
             k == req[r].document
  <2>1. /\ com' = [c \in Commissions |-> IF c \in owed THEN [com[c] EXCEPT !.payout = k] ELSE com[c]]
        /\ UNCHANGED <<payouts, failures>> /\ req[r].pc = "batch.link"
        /\ \A s \in Requests : s # r => req'[s] = req[s]
    BY <1>4 DEF BatchLink, At, Goto, LedgerInv
  <2>2. k # 0
    BY <1>1, <2>1 DEF Knows
  <2>3. \A c \in Commissions : com[c] \in CommissionStates
    BY <1>1
  <2> HIDE DEF k
  <2>4. \A c \in owed \cap Commissions : com'[c].payout = k
    BY <2>1, <2>3 DEF CommissionStates
  <2>5. \A c \in Commissions : c \notin owed => com'[c] = com[c] /\ (Linking(c) => Linking(c)')
    BY <2>1 DEF Linking, At, OwedTo
  <2>6. InPayouts' = InPayouts
    BY <2>1 DEF InPayouts
  <2>7. QED
    BY <1>2, <2>1, <2>2, <2>4, <2>5, <2>6 DEF LinkInv
<1>5. QED
  BY <1>3, <1>4

\* Every step.
LEMMA NextLinks == LedgerInv /\ LinkInv /\ [Next]_vars => LinkInv'
<1> SUFFICES ASSUME LedgerInv, LinkInv, [Next]_vars PROVE LinkInv'
  OBVIOUS
<1>1. CASE UNCHANGED vars
  BY <1>1, LinksStay DEF vars, InPayouts
<1>2. ASSUME NEW c \in Commissions, Matures(c) \/ Block(c) \/ Resume(c)
      PROVE  LinkInv'
  <2>1. UNCHANGED <<failures, payouts, req>>
    BY <1>2 DEF Matures, Block, Resume
  <2>2. com \in [Commissions -> CommissionStates] /\ com[c] \in CommissionStates
    BY DEF LedgerInv
  <2>3. \A d \in Commissions : com'[d].payout = com[d].payout
    <3>1. CASE Matures(c)
      BY <2>2, <3>1 DEF Matures, CommissionStates
    <3>2. CASE Block(c)
      BY <2>2, <3>2 DEF Block, CommissionStates
    <3>3. CASE Resume(c)
      BY <2>2, <3>3 DEF Resume, CommissionStates
    <3>4. QED
      BY <1>2, <3>1, <3>2, <3>3
  <2>4. QED
    BY <2>1, <2>3, LinksStay DEF InPayouts
<1>3. ASSUME NEW r \in Requests, Requested(r)
      PROVE  LinkInv'
  <2>1. /\ UNCHANGED <<failures, payouts>> /\ req[r].pc = "idle"
        /\ \A s \in Requests : s # r => req'[s] = req[s]
    BY <1>3 DEF Requested, StartRelease, StartReverse, StartBatch, StartConfirm, StartWithdrawal,
                StartComplete, Begin, LedgerInv
  <2>2. \A c \in Commissions : com'[c].payout = com[c].payout
    <3>1. UNCHANGED com \/ \E c \in Commissions : com' = [com EXCEPT ![c].dispute = "over"]
      BY <1>3 DEF Requested, StartRelease, StartReverse, StartBatch, StartConfirm, StartWithdrawal,
                  StartComplete
    <3>2. com \in [Commissions -> CommissionStates] /\ \A c \in Commissions : com[c] \in CommissionStates
      BY DEF LedgerInv
    <3>3. QED
      BY <3>1, <3>2 DEF CommissionStates
  <2>3. QED
    BY <2>1, <2>2, LinksMove
<1>4. ASSUME NEW r \in Requests, Step(r)
      PROVE  LinkInv'
  <2>1. CASE BatchPayout(r) \/ BatchLink(r)
    BY <2>1, LinksBatch
  <2>2. CASE ConfirmSave(r)
    <3>1. /\ payouts' = [payouts EXCEPT ![req[r].document].paid = TRUE]
          /\ req[r].pc = "confirm.save" /\ UNCHANGED <<com, failures>>
          /\ \A s \in Requests : s # r => req'[s] = req[s]
      BY <2>2 DEF ConfirmSave, At, Goto, LedgerInv
    <3>2. payouts \in Seq(Payouts)
      BY DEF LedgerInv
    <3>3. \A n \in DOMAIN payouts : payouts'[n].commissions = payouts[n].commissions
      <4>1. \A n \in DOMAIN payouts : payouts[n] \in Payouts
        BY <3>2
      <4>2. QED
        BY <3>1, <3>2, <4>1 DEF Payouts
    <3>4. \A c \in InPayouts' : c \in InPayouts
      BY <3>1, <3>2, <3>3 DEF InPayouts
    <3>5. QED
      BY <3>1, <3>4, LinksStay
  <2>3. CASE Release(r) \/ Reverse(r) \/ BatchReserve(r) \/ ConfirmCommissions(r)
    <3>1. /\ UNCHANGED <<failures, payouts>> /\ req[r].pc # "batch.link"
          /\ \A s \in Requests : s # r => req'[s] = req[s]
      BY <2>3 DEF Release, ReleaseClaim, ReleaseWallet, Reverse, ReverseWallet, ReverseSave,
                  BatchReserve, ConfirmCommissions, At, Goto, Finish, LedgerInv
    <3>2. QED
      BY <2>3, <3>1, NumbersStay, LinksMove
  <2>4. CASE BatchCreate(r) \/ BatchWallet(r) \/ RefreshRead(r) \/ RefreshSave(r) \/ Withdrawing(r)
    <3>1. /\ UNCHANGED <<failures, payouts, com>> /\ req[r].pc # "batch.link"
          /\ \A s \in Requests : s # r => req'[s] = req[s]
      BY <2>4 DEF BatchCreate, BatchWallet, RefreshRead, RefreshSave, Withdrawing, WithdrawCheck,
                  WithdrawSave, WithdrawCreate, CompleteCheck, CompleteWallet, CompleteSave,
                  At, Goto, Finish, LedgerInv
    <3>2. QED
      BY <3>1, LinksMove
  <2>5. QED
    BY <1>4, <2>1, <2>2, <2>3, <2>4 DEF Step, Batch, Confirm
<1>5. ASSUME NEW r \in Requests, Abandon(r)
      PROVE  LinkInv'
  BY <1>5 DEF Abandon, LinkInv
<1>6. QED
  BY <1>1, <1>2, <1>3, <1>4, <1>5 DEF Next

\* A commission in a payout has its number, whatever is in flight and wherever it dies.
LEMMA LinksCorrect == Spec => []LinkInv
<1>1. Init => LinkInv
  BY DEF Init, LinkInv, InPayouts
<1>2. LedgerInv /\ LinkInv /\ [Next]_vars => LinkInv'
  BY NextLinks
<1>3. QED
  BY <1>1, <1>2, LedgerCorrect, PTL DEF Spec

\* A commission that reads PAID is in a payout that confirmPayout has paid, and has its number
\* unless a request has died or is about to write it.
THEOREM PaidMeansPayout == Spec => []PaidHasPayout
<1>1. LedgerInv /\ LinkInv => PaidHasPayout
  BY DEF LedgerInv, LinkInv, PaidHasPayout, PaidByPayout, InPayouts
<1>2. QED
  BY <1>1, LedgerCorrect, LinksCorrect, PTL

\* A payout has its own agent's commissions, reserved for its batch.
THEOREM PayoutsHaveReserved == Spec => []PayoutsAreReserved
<1>1. LedgerInv => PayoutsAreReserved
  BY DEF LedgerInv
<1>2. QED
  BY <1>1, LedgerCorrect, PTL

=============================================================================
