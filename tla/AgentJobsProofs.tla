-------------------------- MODULE AgentJobsProofs --------------------------
(***************************************************************************)
(* Theorems about AgentJobs, for any number of agents, offers, proofs of   *)
(* identity and requests in flight; the one on who is asked for a job takes *)
(* one request at a time (OneRequest).                                     *)
(***************************************************************************)
EXTENDS AgentJobs, TLAPS

----------------------------------------------------------------------------
(* The invariant behind the offers.                                        *)

\* A request that carries an offer to its acceptance.
Carrying(r) ==
  \/ req[r].pc \in {"accept.load", "accept.tx", "accept.save", "accept.offer"}
  \/ req[r].then = "accept.load"

\* What a request knows when it gets to its next step.
Knows(r) ==
  /\ req[r].due \subseteq DOMAIN offers
  /\ req[r].then \in {"idle", "accept.load", "reject.load"}
  /\ req[r].pc = "chain" => req[r].current \in DOMAIN offers
  /\ Carrying(r) =>
       /\ req[r].agent \in Agents /\ req[r].proof \in Proofs
       /\ req[r].offer \in DOMAIN offers
       /\ offers[req[r].offer].agent = req[r].agent
  /\ req[r].pc \in {"open.load", "open.save"} =>
       req[r].agent \in Agents /\ req[r].proof \in Proofs
  /\ req[r].pc \in {"reject.load", "reject.save", "reassign.save"} \/ req[r].then = "reject.load" =>
       req[r].offer \in DOMAIN offers
  /\ req[r].pc = "withdraw.save" => req[r].agent \in Agents
  /\ req[r].pc = "accept.offer" =>
       \E i \in DOMAIN tx.mediators : tx.mediators[i].agent = req[r].agent

\* Only one request carries a proof, and the proof is spent before it is used.
Carried ==
  /\ \A r \in Requests : req[r].proof \in Proofs =>
       /\ proof[req[r].proof].state = "spent"
       /\ req[r].pc # "accept.offer" => accepted[req[r].proof] = 0
  /\ \A r, s \in Requests :
       req[r].proof \in Proofs /\ req[r].proof = req[s].proof => r = s

JobsInv ==
  /\ TypeOK
  /\ ProofSpentOnce
  /\ AcceptedOfferHasAgent
  /\ Carried
  /\ \A r \in Requests : Knows(r)

----------------------------------------------------------------------------
(* What happens to the offers and to the mediators.                         *)

\* Offers are added and answered, and stay where they are.
OffersStay ==
  /\ offers' \in Seq(Offers)
  /\ DOMAIN offers \subseteq DOMAIN offers'
  /\ \A n \in DOMAIN offers : offers'[n].agent = offers[n].agent

\* No offer becomes accepted.
NoneAccepted ==
  \A n \in DOMAIN offers' : offers'[n].answer = "ACCEPTED" =>
    n \in DOMAIN offers /\ offers[n].answer = "ACCEPTED"

\* Answering an offer keeps the others, and only an acceptance makes one accepted.
LEMMA AnswerStays ==
  ASSUME TypeOK, NEW n, NEW answer \in Answers, Answer(n, answer)
  PROVE  /\ OffersStay
         /\ DOMAIN offers' = DOMAIN offers
         /\ \A k \in DOMAIN offers : k # n => offers'[k] = offers[k]
         /\ answer # "ACCEPTED" => NoneAccepted
<1>1. offers \in Seq(Offers) /\ DOMAIN offers = 1..Len(offers) /\ Len(offers) \in Nat
  BY DEF TypeOK
<1>2. DOMAIN offers' = DOMAIN offers
  BY <1>1 DEF Answer
<1>3. \A k \in DOMAIN offers : k # n => offers'[k] = offers[k]
  BY <1>1 DEF Answer
<1>4. ASSUME n \in DOMAIN offers
      PROVE  offers'[n] = [offers[n] EXCEPT !.answer = answer, !.late = FALSE]
  BY <1>1, <1>4 DEF Answer
<1>5. \A k \in DOMAIN offers : offers[k] \in Offers
  BY <1>1
<1>6. ASSUME n \in DOMAIN offers
      PROVE  offers'[n] \in Offers /\ offers'[n].agent = offers[n].agent
             /\ offers'[n].answer = answer
  BY <1>4, <1>5, <1>6 DEF Offers
<1>7. \A k \in 1..Len(offers) : offers'[k] \in Offers /\ offers'[k].agent = offers[k].agent
  BY <1>1, <1>3, <1>5, <1>6
<1>8. offers' \in Seq(Offers)
  <2>1. offers' = [k \in 1..Len(offers) |-> offers'[k]]
    BY <1>1 DEF Answer
  <2>2. QED
    BY <1>1, <1>7, <2>1
<1>9. QED
  BY <1>1, <1>2, <1>3, <1>6, <1>7, <1>8 DEF OffersStay, NoneAccepted

\* A new offer is pending and leaves the others as they are.
LEMMA DeliverStays ==
  ASSUME TypeOK, NEW agent \in Agents, NEW queue \in Seq(Agents), Deliver(agent, queue)
  PROVE  OffersStay /\ NoneAccepted
<1> DEFINE offer == [agent |-> agent, answer |-> "PENDING", late |-> FALSE, queue |-> queue]
<1>1. offers \in Seq(Offers) /\ DOMAIN offers = 1..Len(offers) /\ Len(offers) \in Nat
  BY DEF TypeOK
<1>2. offer \in Offers /\ offer.answer # "ACCEPTED"
  BY DEF Offers, Answers
<1>3. offers' = Append(offers, offer)
  BY DEF Deliver
<1> HIDE DEF offer
<1>4. offers' \in Seq(Offers) /\ DOMAIN offers' = 1..Len(offers) + 1
  BY <1>1, <1>2, <1>3
<1>5. offers'[Len(offers) + 1] = offer /\ \A k \in 1..Len(offers) : offers'[k] = offers[k]
  BY <1>1, <1>2, <1>3
<1>6. QED
  BY <1>1, <1>2, <1>4, <1>5 DEF OffersStay, NoneAccepted

\* A step that writes no offer keeps them.
LEMMA SameOffersStay ==
  ASSUME TypeOK, UNCHANGED offers
  PROVE  OffersStay /\ NoneAccepted
BY DEF TypeOK, OffersStay, NoneAccepted

\* Mediators are added and marked, and stay where they are.
MediatorsStay ==
  /\ tx' \in [status : Machine!Statuses, mediators : Mediators]
  /\ \A i \in DOMAIN tx.mediators :
       i \in DOMAIN tx.mediators' /\ tx.mediators'[i].agent = tx.mediators[i].agent

\* A step that does not save the operation keeps its mediators.
LEMMA SameMediatorsStay ==
  ASSUME TypeOK, UNCHANGED tx
  PROVE  MediatorsStay
BY DEF TypeOK, MediatorsStay

\* The status an acceptance leaves is one of the table's.
LEMMA StatusAdvances ==
  ASSUME TypeOK, NEW r \in Requests
  PROVE  Advanced(r) \in Machine!Statuses
BY DEF TypeOK, Advanced, Machine!Statuses

\* The agent of the request is among the mediators afterwards.
LEMMA MediatesStays ==
  ASSUME TypeOK, NEW r \in Requests, req[r].agent \in Agents, Mediates(r)
  PROVE  /\ MediatorsStay
         /\ \E i \in DOMAIN tx.mediators' : tx.mediators'[i].agent = req[r].agent
<1> DEFINE place == [agent |-> req[r].agent, state |-> "ACCEPTED"]
           Places_ == [agent : Agents, state : {"ACCEPTED", "REMOVED"}]
           old == tx.mediators
<1>1. old \in Seq(Places_) /\ DOMAIN old = 1..Len(old) /\ Len(old) \in Nat
  BY DEF TypeOK, Mediators
<1>2. place \in Places_ /\ place.agent = req[r].agent
  OBVIOUS
<1>3. tx' = [status |-> Advanced(r), mediators |-> Append(old, place)]
  BY DEF Mediates
<1> HIDE DEF place, Places_, old
<1>4. /\ Append(old, place) \in Seq(Places_)
      /\ DOMAIN Append(old, place) = 1..Len(old) + 1
      /\ Append(old, place)[Len(old) + 1] = place
      /\ \A k \in 1..Len(old) : Append(old, place)[k] = old[k]
  BY <1>1, <1>2
<1>5. tx'.mediators = Append(old, place) /\ tx'.status = Advanced(r)
  BY <1>3
<1>6. tx' \in [status : Machine!Statuses, mediators : Seq(Places_)]
  BY <1>3, <1>4, StatusAdvances
<1>7. Mediators = Seq(Places_) /\ old = tx.mediators
  BY DEF Mediators, Places_, old
<1>8. Len(old) + 1 \in DOMAIN tx.mediators'
  BY <1>1, <1>4, <1>5
<1>9. QED
  BY <1>1, <1>2, <1>4, <1>5, <1>6, <1>7, <1>8 DEF MediatorsStay

\* Accepting or removing a mediator in place keeps everybody in place.
LEMMA MarkStays ==
  ASSUME TypeOK, NEW status \in Machine!Statuses, NEW place,
         NEW state \in {"ACCEPTED", "REMOVED"},
         tx' = [status |-> status,
                mediators |-> [tx.mediators EXCEPT ![place].state = state]]
  PROVE  MediatorsStay
<1> DEFINE Places_ == [agent : Agents, state : {"ACCEPTED", "REMOVED"}]
           old == tx.mediators
           new == [old EXCEPT ![place].state = state]
<1>1. old \in Seq(Places_) /\ DOMAIN old = 1..Len(old) /\ Len(old) \in Nat
  BY DEF TypeOK, Mediators
<1>2. DOMAIN new = DOMAIN old /\ \A k \in DOMAIN old : k # place => new[k] = old[k]
  OBVIOUS
<1>3. ASSUME place \in DOMAIN old
      PROVE  new[place] = [old[place] EXCEPT !.state = state]
  BY <1>3
<1>4. \A m \in Places_ : [m EXCEPT !.state = state] \in Places_
                        /\ [m EXCEPT !.state = state].agent = m.agent
  OBVIOUS
<1>5. new = [k \in 1..Len(old) |-> new[k]]
  BY <1>1
<1>6. tx'.mediators = new /\ tx'.status = status /\ DOMAIN tx' = {"status", "mediators"}
      /\ tx' = [status |-> status, mediators |-> new]
  OBVIOUS
<1>7. Mediators = Seq(Places_) /\ old = tx.mediators
  BY DEF Mediators
<1> HIDE DEF Places_, old, new
<1>8. \A k \in 1..Len(old) : old[k] \in Places_
  BY <1>1
<1>9. \A k \in 1..Len(old) : new[k] \in Places_ /\ new[k].agent = old[k].agent
  BY <1>1, <1>2, <1>3, <1>4, <1>8
<1>10. new \in Seq(Places_)
  BY <1>1, <1>5, <1>9
<1>11. tx' \in [status : Machine!Statuses, mediators : Mediators]
  BY <1>6, <1>7, <1>10
<1>12. QED
  BY <1>1, <1>2, <1>6, <1>7, <1>9, <1>11 DEF MediatorsStay

----------------------------------------------------------------------------
(* A request that moves, and all the others.                               *)

\* The request r moves to q, and no other one does.
Moves(r, q) == req' = [req EXCEPT ![r] = q]

\* What a request knows stays true while it does not move.
LEMMA StillKnows ==
  ASSUME TypeOK, OffersStay, MediatorsStay, NEW s \in Requests, Knows(s), req'[s] = req[s]
  PROVE  Knows(s)'
<1>1. Carrying(s)' <=> Carrying(s)
  BY DEF Carrying
<1>2. (req[s].due \subseteq DOMAIN offers)'
  BY DEF Knows, OffersStay
<1>3. (req[s].pc = "chain" => req[s].current \in DOMAIN offers)'
  BY DEF Knows, OffersStay
<1>4. (Carrying(s) =>
         /\ req[s].agent \in Agents /\ req[s].proof \in Proofs
         /\ req[s].offer \in DOMAIN offers
         /\ offers[req[s].offer].agent = req[s].agent)'
  BY <1>1 DEF Knows, OffersStay
<1>5. (req[s].pc \in {"reject.load", "reject.save", "reassign.save"} \/ req[s].then = "reject.load" =>
         req[s].offer \in DOMAIN offers)'
  BY DEF Knows, OffersStay
<1>6. (req[s].pc = "accept.offer" =>
         \E i \in DOMAIN tx.mediators : tx.mediators[i].agent = req[s].agent)'
  BY DEF Knows, MediatorsStay
<1>7. QED
  BY <1>2, <1>3, <1>4, <1>5, <1>6 DEF Knows

\* A request that moves leaves the other requests alone.
LEMMA MovesType ==
  ASSUME TypeOK, NEW r \in Requests, NEW q \in RequestStates, Moves(r, q)
  PROVE  /\ req' \in [Requests -> RequestStates]
         /\ req'[r] = q
         /\ \A s \in Requests : s # r => req'[s] = req[s]
BY DEF TypeOK, Moves

\* A step of one request that neither spends a proof nor counts one.
LEMMA QuietStep ==
  ASSUME JobsInv, OffersStay, NoneAccepted, MediatorsStay,
         UNCHANGED <<proof, accepted>>, started' \in Nat, failures' \in Nat,
         NEW r \in Requests, NEW q \in RequestStates, Moves(r, q), Knows(r)',
         q.proof \notin Proofs \/ (q.proof = req[r].proof /\ req[r].pc # "accept.offer")
  PROVE  JobsInv'
<1>1. /\ req' \in [Requests -> RequestStates]
      /\ req'[r] = q
      /\ \A s \in Requests : s # r => req'[s] = req[s]
  BY MovesType DEF JobsInv
<1>2. TypeOK'
  BY <1>1 DEF JobsInv, TypeOK, OffersStay, MediatorsStay
<1>3. \A s \in Requests : Knows(s)'
  BY <1>1, StillKnows DEF JobsInv
<1>4. ProofSpentOnce'
  BY DEF JobsInv, ProofSpentOnce
<1>5. AcceptedOfferHasAgent'
  BY DEF JobsInv, AcceptedOfferHasAgent, OffersStay, NoneAccepted, MediatorsStay
<1>6. Carried'
  BY <1>1 DEF JobsInv, Carried
<1>7. QED
  BY <1>2, <1>3, <1>4, <1>5, <1>6 DEF JobsInv

\* A step of nobody's request.
LEMMA WorldStep ==
  ASSUME JobsInv, OffersStay, NoneAccepted, MediatorsStay,
         UNCHANGED <<accepted, req, started, failures>>,
         proof' \in [Proofs -> ProofStates],
         \A p \in Proofs : proof[p].state = "spent" => proof'[p] = proof[p]
  PROVE  JobsInv'
<1>1. TypeOK'
  BY DEF JobsInv, TypeOK, OffersStay, MediatorsStay
<1>2. \A s \in Requests : Knows(s)'
  BY StillKnows DEF JobsInv
<1>3. ProofSpentOnce'
  BY DEF JobsInv, ProofSpentOnce
<1>4. AcceptedOfferHasAgent'
  BY DEF JobsInv, AcceptedOfferHasAgent, OffersStay, NoneAccepted, MediatorsStay
<1>5. Carried'
  BY DEF JobsInv, Carried, TypeOK
<1>6. QED
  BY <1>1, <1>2, <1>3, <1>4, <1>5 DEF JobsInv

----------------------------------------------------------------------------
(* A request that ends, or has just begun, knows all it must.              *)

LEMMA IdleType == IdleRequest \in RequestStates
BY DEF IdleRequest, RequestStates, Steps, Mediators

\* A request that ends without accepting anybody keeps the invariant.
LEMMA FinishStep ==
  ASSUME JobsInv, OffersStay, NoneAccepted, MediatorsStay,
         UNCHANGED <<proof, accepted>>, started' \in Nat, failures' \in Nat,
         NEW r \in Requests, Finish(r)
  PROVE  JobsInv'
<1>1. Moves(r, IdleRequest)
  BY DEF Moves, Finish
<1>2. req'[r] = IdleRequest
  BY <1>1, IdleType, MovesType DEF JobsInv
<1>3. IdleRequest.proof \notin Proofs
  BY NoAgentAssumption DEF IdleRequest
<1>4. Knows(r)'
  BY <1>2 DEF Knows, Carrying, IdleRequest
<1>5. QED
  BY <1>1, <1>3, <1>4, IdleType, QuietStep

\* The offers a sweep finds exist.
LEMMA DueType == ASSUME TypeOK PROVE Due \in SUBSET Nat /\ Due \subseteq DOMAIN offers
<1>1. Due \subseteq DOMAIN offers
  BY DEF Due, Pending
<1>2. DOMAIN offers \subseteq Nat
  BY DEF TypeOK
<1>3. QED
  BY <1>1, <1>2

\* A request of a person, other than an acceptance, or the timer.
LEMMA BeginStep ==
  ASSUME JobsInv, UNCHANGED <<tx, offers, proof, accepted>>, started' \in Nat, failures' \in Nat,
         NEW r \in Requests, NEW q \in RequestStates, Begin(r, q), q.proof = NoAgent,
         Knows(r)'
  PROVE  JobsInv'
<1>1. Moves(r, q) /\ q.proof \notin Proofs
  BY NoAgentAssumption DEF Begin, Moves
<1>2. OffersStay /\ NoneAccepted /\ MediatorsStay
  BY SameOffersStay, SameMediatorsStay DEF JobsInv
<1>3. QED
  BY <1>1, <1>2, QuietStep

\* Every way to begin, but those that spend a proof.
LEMMA BeginsStep ==
  ASSUME JobsInv, NEW r \in Requests,
         \/ StartSweep(r) \/ StartOffer(r) \/ StartReassign(r)
         \/ \E n \in DOMAIN offers : StartReject(r, n)
         \/ \E a \in Agents : StartWithdraw(r, a)
  PROVE  JobsInv'
<1> USE DEF JobsInv
<1>1. started \in Nat /\ started + 1 \in Nat /\ failures \in Nat
  BY DEF TypeOK
<1>2. CASE StartSweep(r)
  <2> DEFINE q == [IdleRequest EXCEPT !.pc = "sweep.find"]
  <2>1. q \in RequestStates /\ q.proof = NoAgent /\ Begin(r, q)
    <3>1. q \in RequestStates
      BY IdleType DEF RequestStates, Steps
    <3>2. q.proof = NoAgent
      BY DEF IdleRequest
    <3>3. QED
      BY <1>2, <3>1, <3>2 DEF StartSweep
  <2>2. req'[r] = q
    BY <2>1 DEF Begin, TypeOK
  <2>3. Knows(r)'
    BY <2>2 DEF Knows, Carrying, IdleRequest
  <2>4. QED
    BY <1>1, <1>2, <2>1, <2>3, BeginStep DEF StartSweep
<1>3. CASE StartOffer(r)
  <2> DEFINE q == [IdleRequest EXCEPT !.pc = "offer.load"]
  <2>1. q \in RequestStates /\ q.proof = NoAgent /\ Begin(r, q)
    <3>1. q \in RequestStates
      BY IdleType DEF RequestStates, Steps
    <3>2. q.proof = NoAgent
      BY DEF IdleRequest
    <3>3. QED
      BY <1>3, <3>1, <3>2 DEF StartOffer, Receive
  <2>2. req'[r] = q
    BY <2>1 DEF Begin, TypeOK
  <2>3. Knows(r)'
    BY <2>2 DEF Knows, Carrying, IdleRequest
  <2>4. QED
    BY <1>1, <1>3, <2>1, <2>3, BeginStep DEF StartOffer, Receive
<1>4. CASE StartReassign(r)
  <2>1. PICK n \in Pending :
          Receive(r, [IdleRequest EXCEPT !.pc = "reassign.save", !.offer = n])
    BY <1>4 DEF StartReassign
  <2> DEFINE q == [IdleRequest EXCEPT !.pc = "reassign.save", !.offer = n]
  <2>2. n \in Nat /\ n \in DOMAIN offers
    BY DEF Pending, TypeOK
  <2>3. q \in RequestStates /\ q.proof = NoAgent /\ Begin(r, q)
    <3>1. q \in RequestStates
      BY <2>2, IdleType DEF RequestStates, Steps
    <3>2. q.proof = NoAgent
      BY DEF IdleRequest
    <3>3. QED
      BY <2>1, <2>2, <3>1, <3>2 DEF Receive
  <2>4. req'[r] = q /\ UNCHANGED offers
    BY <1>4, <2>3 DEF Begin, TypeOK, StartReassign
  <2>5. Knows(r)'
    BY <2>2, <2>4 DEF Knows, Carrying, IdleRequest
  <2>6. QED
    BY <1>1, <1>4, <2>1, <2>3, <2>5, BeginStep DEF StartReassign, Receive
<1>5. ASSUME NEW n \in DOMAIN offers, StartReject(r, n)
      PROVE  JobsInv'
  <2> DEFINE q == [IdleRequest EXCEPT !.pc = "sweep.find", !.then = "reject.load", !.offer = n]
  <2>1. n \in Nat
    BY DEF TypeOK
  <2>2. q \in RequestStates /\ q.proof = NoAgent /\ Begin(r, q)
    <3>1. q \in RequestStates
      BY <2>1, IdleType DEF RequestStates, Steps
    <3>2. q.proof = NoAgent
      BY DEF IdleRequest
    <3>3. QED
      BY <1>5, <2>1, <3>1, <3>2 DEF StartReject, Receive
  <2>3. req'[r] = q /\ UNCHANGED offers
    BY <1>5, <2>2 DEF Begin, TypeOK, StartReject
  <2>4. Knows(r)'
    BY <2>3 DEF Knows, Carrying, IdleRequest
  <2>5. QED
    BY <1>1, <1>5, <2>2, <2>4, BeginStep DEF StartReject, Receive
<1>6. ASSUME NEW a \in Agents, StartWithdraw(r, a)
      PROVE  JobsInv'
  <2> DEFINE q == [IdleRequest EXCEPT !.pc = "withdraw.save", !.agent = a,
                                      !.mediators = tx.mediators]
  <2>1. q \in RequestStates /\ q.proof = NoAgent /\ Begin(r, q)
    BY <1>6 DEF StartWithdraw, Receive, IdleRequest, RequestStates, Steps, TypeOK
  <2>2. req'[r] = q
    BY <2>1 DEF Begin, TypeOK
  <2>3. Knows(r)'
    BY <2>2 DEF Knows, Carrying, IdleRequest
  <2>4. QED
    BY <1>1, <1>6, <2>1, <2>3, BeginStep DEF StartWithdraw, Receive
<1>7. QED
  BY <1>2, <1>3, <1>4, <1>5, <1>6

----------------------------------------------------------------------------
(* The sweep.                                                              *)

\* A request and its fields.
LEMMA RequestType ==
  ASSUME TypeOK, NEW r \in Requests
  PROVE  /\ req[r] \in RequestStates
         /\ req[r].due \in SUBSET Nat /\ req[r].offer \in Nat /\ req[r].mediators \in Mediators
BY DEF TypeOK, RequestStates

\* A request that has swept goes on to the next offer, or to its handler.
LEMMA SweptStep ==
  ASSUME JobsInv, OffersStay, NoneAccepted, UNCHANGED <<tx, proof, accepted, started, failures>>,
         NEW r \in Requests, req[r].pc \in {"sweep.find", "chain"},
         NEW due \in SUBSET Nat, due \subseteq DOMAIN offers, Moves(r, Swept(r, due))
  PROVE  JobsInv'
<1>1. /\ TypeOK /\ Knows(r) /\ req[r] \in RequestStates /\ MediatorsStay
      /\ started' \in Nat /\ failures' \in Nat
  BY RequestType, SameMediatorsStay DEF JobsInv, TypeOK
<1>2. CASE due # {}
  <2> DEFINE q == [req[r] EXCEPT !.pc = "sweep.save", !.due = due]
  <2>1. q \in RequestStates /\ q.proof = req[r].proof /\ Moves(r, q)
    BY <1>1, <1>2 DEF Swept, RequestStates, Steps
  <2>2. req'[r] = q
    BY <1>1, <2>1, MovesType
  <2>3. Knows(r)'
    BY <1>1, <2>2 DEF Knows, Carrying, OffersStay, RequestStates
  <2>4. QED
    BY <1>1, <2>1, <2>3, QuietStep
<1>3. CASE due = {} /\ req[r].then = "idle"
  <2>1. Finish(r)
    BY <1>3 DEF Swept, Moves, Finish
  <2>2. QED
    BY <1>1, <2>1, FinishStep
<1>4. CASE due = {} /\ req[r].then # "idle"
  <2> DEFINE q == [req[r] EXCEPT !.pc = req[r].then, !.due = {}, !.current = 0]
  <2>1. q \in RequestStates /\ q.proof = req[r].proof /\ Moves(r, q)
    BY <1>1, <1>4 DEF Swept, RequestStates
  <2>2. req'[r] = q
    BY <1>1, <2>1, MovesType
  <2>3. q.pc \in {"accept.load", "reject.load"} /\ q.then = q.pc /\ q.due = {}
    BY <1>1, <1>4 DEF Knows, RequestStates
  <2>4. Knows(r)'
    BY <1>1, <2>2, <2>3 DEF Knows, Carrying, OffersStay, RequestStates
  <2>5. QED
    BY <1>1, <2>1, <2>4, QuietStep
<1>5. QED
  BY <1>2, <1>3, <1>4

\* Every step of a sweep keeps the invariant.
LEMMA SweepStep ==
  ASSUME JobsInv, NEW r \in Requests, Sweep(r)
  PROVE  JobsInv'
<1>1. /\ TypeOK /\ Knows(r) /\ req[r] \in RequestStates /\ req[r].due \in SUBSET Nat
      /\ started \in Nat /\ failures \in Nat
  BY RequestType DEF JobsInv, TypeOK
<1>2. CASE SweepFind(r)
  BY <1>1, <1>2, DueType, SameOffersStay, SweptStep DEF SweepFind, At, Moves
<1>3. CASE SweepSave(r)
  <2>1. PICK n \in req[r].due :
          /\ Answer(n, "CLOSED")
          /\ req' = [req EXCEPT ![r].pc = "chain", ![r].due = @ \ {n}, ![r].current = n]
    BY <1>3 DEF SweepSave
  <2> DEFINE q == [req[r] EXCEPT !.pc = "chain", !.due = @ \ {n}, !.current = n]
  <2>2. Moves(r, q)
    BY <1>1, <2>1 DEF Moves, TypeOK
  <2>3. q \in RequestStates /\ q.proof = req[r].proof
    BY <1>1 DEF RequestStates, Steps
  <2>4. OffersStay /\ NoneAccepted /\ MediatorsStay
    BY <1>1, <1>3, <2>1, AnswerStays, SameMediatorsStay DEF Answers, SweepSave
  <2>5. req'[r] = q
    BY <1>1, <2>2, <2>3, MovesType
  <2>6. Knows(r)'
    BY <1>1, <2>4, <2>5 DEF Knows, Carrying, OffersStay, RequestStates
  <2>7. QED
    BY <1>1, <1>3, <2>2, <2>3, <2>4, <2>6, QuietStep DEF SweepSave, At
<1>4. CASE Chain(r)
  <2>1. req[r].current \in DOMAIN offers /\ offers[req[r].current] \in Offers
    BY <1>1, <1>4 DEF Chain, At, Knows, TypeOK
  <2> DEFINE queue == offers[req[r].current].queue
  <2>2. queue \in Seq(Agents)
    BY <2>1 DEF Offers
  <2>3. OffersStay /\ NoneAccepted
    <3>1. CASE UNCHANGED offers
      BY <1>1, <3>1, SameOffersStay
    <3>2. CASE queue # <<>> /\ Deliver(Head(queue), Tail(queue))
      <4> HIDE DEF queue
      <4>1. Head(queue) \in Agents /\ Tail(queue) \in Seq(Agents)
        BY <2>2, <3>2
      <4>2. QED
        BY <1>1, <3>2, <4>1, DeliverStays
    <3>3. QED
      BY <1>4, <3>1, <3>2 DEF Chain
  <2>4. req[r].due \subseteq DOMAIN offers
    BY <1>1 DEF Knows
  <2>5. QED
    BY <1>1, <1>4, <2>3, <2>4, SweptStep DEF Chain, At, Moves
<1>5. CASE ChainThrows(r)
  BY <1>1, <1>5, SameOffersStay, SameMediatorsStay, FinishStep DEF ChainThrows
<1>6. QED
  BY <1>2, <1>3, <1>4, <1>5 DEF Sweep

----------------------------------------------------------------------------
(* The other handlers, where they neither spend a proof nor count one.     *)

LEMMA OfferAssignmentStep ==
  ASSUME JobsInv, NEW r \in Requests, OfferAssignment(r)
  PROVE  JobsInv'
<1>1. /\ TypeOK /\ Knows(r) /\ req[r] \in RequestStates /\ req[r].due \in SUBSET Nat
      /\ started \in Nat /\ failures \in Nat
  BY RequestType DEF JobsInv, TypeOK
<1>2. CASE OfferLoad(r)
  <2>1. OffersStay /\ NoneAccepted /\ MediatorsStay
    BY <1>1, <1>2, SameOffersStay, SameMediatorsStay DEF OfferLoad
  <2>2. CASE Finish(r)
    BY <1>1, <1>2, <2>1, <2>2, FinishStep DEF OfferLoad
  <2>3. CASE req' = [req EXCEPT ![r].due = Due,
                                ![r].pc = IF Due = {} THEN "offer.find" ELSE "offer.expire"]
    <3> DEFINE pc == IF Due = {} THEN "offer.find" ELSE "offer.expire"
               q == [req[r] EXCEPT !.due = Due, !.pc = pc]
    <3>1. pc \in {"offer.find", "offer.expire"}
      OBVIOUS
    <3>2. Moves(r, q)
      BY <1>1, <2>3 DEF Moves, TypeOK
    <3> HIDE DEF pc
    <3>3. q \in RequestStates /\ q.proof = req[r].proof
      BY <1>1, <3>1, DueType DEF RequestStates, Steps
    <3>4. req'[r] = q
      BY <1>1, <3>2, <3>3, MovesType
    <3>5. Knows(r)'
      BY <1>1, <2>1, <3>1, <3>4, DueType DEF Knows, Carrying, OffersStay, RequestStates
    <3>6. QED
      BY <1>1, <1>2, <2>1, <3>2, <3>3, <3>5, QuietStep DEF OfferLoad, At
  <2>4. QED
    BY <1>2, <2>2, <2>3 DEF OfferLoad
<1>3. CASE OfferExpire(r)
  <2>1. PICK n \in req[r].due :
          /\ Answer(n, "CLOSED")
          /\ req' = [req EXCEPT ![r].due = @ \ {n},
                                ![r].pc = IF req[r].due = {n} THEN "offer.find" ELSE "offer.expire"]
    BY <1>3 DEF OfferExpire
  <2> DEFINE pc == IF req[r].due = {n} THEN "offer.find" ELSE "offer.expire"
             q == [req[r] EXCEPT !.due = @ \ {n}, !.pc = pc]
  <2>2. pc \in {"offer.find", "offer.expire"}
    OBVIOUS
  <2>3. Moves(r, q)
    BY <1>1, <2>1 DEF Moves, TypeOK
  <2> HIDE DEF pc
  <2>4. q \in RequestStates /\ q.proof = req[r].proof
    BY <1>1, <2>2 DEF RequestStates, Steps
  <2>5. OffersStay /\ NoneAccepted /\ MediatorsStay
    BY <1>1, <1>3, <2>1, AnswerStays, SameMediatorsStay DEF Answers, OfferExpire
  <2>6. req'[r] = q
    BY <1>1, <2>3, <2>4, MovesType
  <2>7. Knows(r)'
    BY <1>1, <2>2, <2>5, <2>6 DEF Knows, Carrying, OffersStay, RequestStates
  <2>8. QED
    BY <1>1, <1>3, <2>3, <2>4, <2>5, <2>7, QuietStep DEF OfferExpire, At
<1>4. CASE OfferFind(r)
  <2>1. OffersStay /\ NoneAccepted /\ MediatorsStay
    BY <1>1, <1>4, SameOffersStay, SameMediatorsStay DEF OfferFind
  <2>2. CASE Finish(r)
    BY <1>1, <1>4, <2>1, <2>2, FinishStep DEF OfferFind
  <2> DEFINE asked == {offers[n].agent : n \in DOMAIN offers}
  <2>3. CASE req' = [req EXCEPT ![r].pc = "offer.create", ![r].exclude = @ \cup asked]
    <3> DEFINE q == [req[r] EXCEPT !.pc = "offer.create", !.exclude = @ \cup asked]
    <3>1. asked \subseteq Agents
      <4>1. \A n \in DOMAIN offers : offers[n] \in Offers
        BY <1>1 DEF TypeOK
      <4>2. QED
        BY <4>1 DEF Offers
    <3>2. Moves(r, q)
      BY <1>1, <2>3 DEF Moves, TypeOK
    <3> HIDE DEF asked
    <3>3. q \in RequestStates /\ q.proof = req[r].proof
      BY <1>1, <3>1 DEF RequestStates, Steps
    <3>4. req'[r] = q
      BY <1>1, <3>2, <3>3, MovesType
    <3>5. Knows(r)'
      BY <1>1, <2>1, <3>4 DEF Knows, Carrying, OffersStay, RequestStates
    <3>6. QED
      BY <1>1, <1>4, <2>1, <3>2, <3>3, <3>5, QuietStep DEF OfferFind, At
  <2>4. QED
    BY <1>4, <2>2, <2>3 DEF OfferFind
<1>5. CASE OfferCreate(r)
  <2>1. OffersStay /\ NoneAccepted
    <3>1. CASE UNCHANGED offers
      BY <1>1, <3>1, SameOffersStay
    <3>2. ASSUME NEW hits \in Hits(req[r].exclude), Deliver(Head(hits), Tail(hits))
          PROVE  OffersStay /\ NoneAccepted
      <4>1. PICK n \in 1..Cardinality(Agents \ req[r].exclude) :
              hits \in [1..n -> Agents \ req[r].exclude]
        BY DEF Hits
      <4>2. n \in Nat /\ n # 0
        <5>1. n \in 1..Cardinality(Agents \ req[r].exclude)
          OBVIOUS
        <5>2. QED
          BY <5>1
      <4>3. hits \in Seq(Agents) /\ hits # <<>>
        BY <4>1, <4>2
      <4>4. Head(hits) \in Agents /\ Tail(hits) \in Seq(Agents)
        BY <4>3
      <4>5. QED
        BY <1>1, <3>2, <4>4, DeliverStays
    <3>3. QED
      BY <1>5, <3>1, <3>2 DEF OfferCreate
  <2>2. QED
    BY <1>1, <1>5, <2>1, SameMediatorsStay, FinishStep DEF OfferCreate
<1>6. QED
  BY <1>2, <1>3, <1>4, <1>5 DEF OfferAssignment

\* Every step of a rejection or of a reassignment keeps it.
LEMMA PassingOnStep ==
  ASSUME JobsInv, NEW r \in Requests, PassingOn(r)
  PROVE  JobsInv'
<1>1. /\ TypeOK /\ Knows(r) /\ req[r] \in RequestStates
      /\ started \in Nat /\ failures \in Nat
  BY RequestType DEF JobsInv, TypeOK
<1>2. CASE RejectLoad(r)
  <2>1. OffersStay /\ NoneAccepted /\ MediatorsStay
    BY <1>1, <1>2, SameOffersStay, SameMediatorsStay DEF RejectLoad
  <2>2. CASE Finish(r)
    BY <1>1, <1>2, <2>1, <2>2, FinishStep DEF RejectLoad
  <2>3. CASE Goto(r, "reject.save")
    <3> DEFINE q == [req[r] EXCEPT !.pc = "reject.save"]
    <3>1. Moves(r, q)
      BY <1>1, <2>3 DEF Moves, Goto, TypeOK
    <3>2. q \in RequestStates /\ q.proof = req[r].proof
      BY <1>1 DEF RequestStates, Steps
    <3>3. req'[r] = q
      BY <1>1, <3>1, <3>2, MovesType
    <3>4. Knows(r)'
      BY <1>1, <1>2, <2>1, <3>3 DEF Knows, Carrying, OffersStay, RequestStates, RejectLoad, At
    <3>5. QED
      BY <1>1, <1>2, <2>1, <3>1, <3>2, <3>4, QuietStep DEF RejectLoad, At
  <2>4. QED
    BY <1>2, <2>2, <2>3 DEF RejectLoad
<1>3. ASSUME PassOn(r), req[r].pc \in {"reject.save", "reassign.save"}
      PROVE  JobsInv'
  <2> DEFINE q == [IdleRequest EXCEPT !.pc = "chain", !.current = req[r].offer]
  <2>1. OffersStay /\ NoneAccepted /\ MediatorsStay
    BY <1>1, <1>3, AnswerStays, SameMediatorsStay DEF Answers, PassOn
  <2>2. q \in RequestStates
    BY <1>1, IdleType DEF RequestStates, Steps
  <2>3. q.proof \notin Proofs
    BY NoAgentAssumption DEF IdleRequest
  <2>4. Moves(r, q)
    BY <1>3 DEF Moves, PassOn
  <2>5. req'[r] = q
    BY <1>1, <2>2, <2>4, MovesType
  <2>6. Knows(r)'
    BY <1>1, <1>3, <2>1, <2>5 DEF Knows, Carrying, OffersStay, IdleRequest
  <2>7. QED
    BY <1>1, <1>3, <2>1, <2>2, <2>3, <2>4, <2>6, QuietStep DEF PassOn
<1>4. QED
  BY <1>2, <1>3 DEF PassingOn, RejectSave, ReassignSave, At

----------------------------------------------------------------------------
(* Proofs of identity: spent once, and counted after that.                 *)

\* A request begins with a proof it has just spent.
LEMMA SpendStep ==
  ASSUME JobsInv, UNCHANGED <<tx, offers, accepted, failures>>,
         NEW r \in Requests, NEW p \in Proofs, NEW a, NEW ref, Consume(p, a, ref),
         NEW q \in RequestStates, Receive(r, q), q.proof = p, q.pc # "accept.offer",
         Knows(r)'
  PROVE  JobsInv'
<1>1. /\ TypeOK /\ OffersStay /\ MediatorsStay
      /\ started' \in Nat /\ failures' \in Nat
      /\ started \in Nat
  BY SameOffersStay, SameMediatorsStay DEF JobsInv, TypeOK, Receive
<1>2. /\ req' \in [Requests -> RequestStates] /\ req'[r] = q
      /\ \A s \in Requests : s # r => req'[s] = req[s]
  BY <1>1, MovesType DEF Receive, Begin, Moves
<1>3. /\ proof[p].state = "valid" /\ proof' \in [Proofs -> ProofStates]
      /\ proof'[p].state = "spent"
      /\ \A s \in Proofs : s # p => proof'[s] = proof[s]
  BY <1>1 DEF Consume, TypeOK, Spent, NoProof, ProofStates
<1>4. TypeOK'
  BY <1>1, <1>2, <1>3 DEF TypeOK
<1>5. \A s \in Requests : Knows(s)'
  BY <1>1, <1>2, StillKnows DEF JobsInv
<1>6. ProofSpentOnce'
  BY <1>3 DEF JobsInv, ProofSpentOnce
<1>7. AcceptedOfferHasAgent'
  BY DEF JobsInv, AcceptedOfferHasAgent
<1>8. accepted[p] = 0
  BY <1>1, <1>3 DEF JobsInv, ProofSpentOnce, TypeOK
<1>9. \A s \in Requests : req[s].proof # p
  BY <1>3 DEF JobsInv, Carried
<1>10. Carried'
  BY <1>2, <1>3, <1>8, <1>9 DEF JobsInv, Carried
<1>11. QED
  BY <1>4, <1>5, <1>6, <1>7, <1>10 DEF JobsInv

\* A request to accept, which spends its proof, keeps it.
LEMMA AcceptancesStep ==
  ASSUME JobsInv, NEW r \in Requests, NEW p \in Proofs,
         \/ \E n \in DOMAIN offers : StartAccept(r, n, p)
         \/ \E a \in Agents : StartOpenJob(r, a, p)
  PROVE  JobsInv'
<1>1. TypeOK /\ p # NoAgent
  BY NoAgentAssumption DEF JobsInv
<1>2. ASSUME NEW n \in DOMAIN offers, StartAccept(r, n, p)
      PROVE  JobsInv'
  <2> DEFINE a == offers[n].agent
             q == [IdleRequest EXCEPT !.pc = "sweep.find", !.then = "accept.load",
                                      !.agent = a, !.offer = n, !.proof = p]
  <2>1. n \in Nat /\ offers[n] \in Offers
    BY <1>1 DEF TypeOK
  <2>2. a \in Agents
    BY <2>1 DEF Offers
  <2>3. UNCHANGED offers /\ Receive(r, q)
    BY <1>2 DEF StartAccept
  <2>4. Consume(p, a, n)
    BY <1>2 DEF StartAccept
  <2> HIDE DEF a
  <2>5. q \in RequestStates
    BY <2>1, <2>2, IdleType DEF RequestStates, Steps
  <2>6. req'[r] = q
    BY <1>1, <2>3, <2>5, MovesType DEF Receive, Begin, Moves
  <2>7. q.proof = p /\ q.pc # "accept.offer"
    BY DEF IdleRequest
  <2>8. Knows(r)'
    BY <1>1, <2>2, <2>3, <2>6 DEF Knows, Carrying, IdleRequest, a
  <2>9. QED
    BY <1>2, <2>3, <2>4, <2>5, <2>7, <2>8, SpendStep DEF StartAccept
<1>3. ASSUME NEW a \in Agents, StartOpenJob(r, a, p)
      PROVE  JobsInv'
  <2> DEFINE q == [IdleRequest EXCEPT !.pc = "open.load", !.agent = a, !.proof = p]
  <2>1. Receive(r, q) /\ Consume(p, a, 0)
    BY <1>3 DEF StartOpenJob
  <2>2. q \in RequestStates
    BY IdleType DEF RequestStates, Steps
  <2>3. req'[r] = q
    BY <1>1, <2>1, <2>2, MovesType DEF Receive, Begin, Moves
  <2>4. q.proof = p /\ q.pc # "accept.offer"
    BY DEF IdleRequest
  <2>5. Knows(r)'
    BY <1>1, <2>3 DEF Knows, Carrying, IdleRequest
  <2>6. QED
    BY <1>3, <2>1, <2>2, <2>4, <2>5, SpendStep DEF StartOpenJob
<1>4. QED
  BY <1>2, <1>3

\* The request that counts its proof ends, or has only its offer to answer.
LEMMA CountStep ==
  ASSUME JobsInv, UNCHANGED <<offers, proof, started, failures>>, MediatorsStay,
         NEW r \in Requests, req[r].proof \in Proofs, req[r].pc # "accept.offer", Counted(r),
         NEW q \in RequestStates, Moves(r, q), Knows(r)',
         q.proof \notin Proofs \/ (q.proof = req[r].proof /\ q.pc = "accept.offer")
  PROVE  JobsInv'
<1> DEFINE p == req[r].proof
<1>1. /\ TypeOK /\ OffersStay
      /\ accepted[p] = 0 /\ proof[p].state = "spent"
  BY SameOffersStay DEF JobsInv, Carried
<1>2. /\ req' \in [Requests -> RequestStates] /\ req'[r] = q
      /\ \A s \in Requests : s # r => req'[s] = req[s]
  BY <1>1, MovesType
<1>3. /\ accepted' \in [Proofs -> Nat] /\ accepted'[p] = 1
      /\ \A s \in Proofs : s # p => accepted'[s] = accepted[s]
  BY <1>1 DEF Counted, TypeOK
<1>4. TypeOK'
  BY <1>1, <1>2, <1>3 DEF TypeOK, MediatorsStay
<1>5. \A s \in Requests : Knows(s)'
  BY <1>1, <1>2, StillKnows DEF JobsInv
<1>6. ProofSpentOnce'
  BY <1>1, <1>3 DEF JobsInv, ProofSpentOnce
<1>7. AcceptedOfferHasAgent'
  BY DEF JobsInv, AcceptedOfferHasAgent, MediatorsStay
<1>8. Carried'
  BY <1>2, <1>3 DEF JobsInv, Carried
<1>9. QED
  BY <1>4, <1>5, <1>6, <1>7, <1>8 DEF JobsInv

\* Every step of an acceptance of an offer keeps it.
LEMMA AcceptingStep ==
  ASSUME JobsInv, NEW r \in Requests, Accepting(r)
  PROVE  JobsInv'
<1>1. /\ TypeOK /\ Knows(r) /\ req[r] \in RequestStates
      /\ started \in Nat /\ failures \in Nat
  BY RequestType DEF JobsInv, TypeOK
<1>2. UNCHANGED offers => OffersStay /\ NoneAccepted
  BY <1>1, SameOffersStay
<1>3. UNCHANGED tx => MediatorsStay
  BY <1>1, SameMediatorsStay
<1>4. CASE AcceptLoad(r)
  <2> DEFINE n == req[r].offer
  <2>1. Carrying(r) /\ n \in DOMAIN offers /\ n \in Nat
    BY <1>1, <1>4 DEF AcceptLoad, At, Carrying, Knows, RequestStates
  <2>2. CASE Finish(r)
    BY <1>1, <1>2, <1>3, <1>4, <2>2, FinishStep DEF AcceptLoad
  <2>3. CASE req' = [req EXCEPT ![r].pc = "sweep.save", ![r].due = {n}, ![r].then = "idle"]
    <3> DEFINE q == [req[r] EXCEPT !.pc = "sweep.save", !.due = {n}, !.then = "idle"]
    <3>1. Moves(r, q)
      BY <1>1, <2>3 DEF Moves, TypeOK
    <3>2. q \in RequestStates /\ q.proof = req[r].proof
      BY <1>1, <2>1 DEF RequestStates, Steps
    <3>3. req'[r] = q
      BY <1>1, <3>1, <3>2, MovesType
    <3>4. Knows(r)'
      BY <1>1, <1>4, <2>1, <3>3 DEF Knows, Carrying, RequestStates, AcceptLoad
    <3>5. QED
      BY <1>1, <1>2, <1>3, <1>4, <3>1, <3>2, <3>4, QuietStep DEF AcceptLoad, At
  <2>4. CASE Goto(r, "accept.tx")
    <3> DEFINE q == [req[r] EXCEPT !.pc = "accept.tx"]
    <3>1. Moves(r, q)
      BY <1>1, <2>4 DEF Moves, Goto, TypeOK
    <3>2. q \in RequestStates /\ q.proof = req[r].proof
      BY <1>1 DEF RequestStates, Steps
    <3>3. req'[r] = q
      BY <1>1, <3>1, <3>2, MovesType
    <3>4. Knows(r)'
      BY <1>1, <1>4, <2>1, <3>3 DEF Knows, Carrying, RequestStates, AcceptLoad
    <3>5. QED
      BY <1>1, <1>2, <1>3, <1>4, <3>1, <3>2, <3>4, QuietStep DEF AcceptLoad, At
  <2>5. QED
    BY <1>4, <2>2, <2>3, <2>4 DEF AcceptLoad
<1>5. CASE AcceptTx(r)
  <2>1. Carrying(r)
    BY <1>5 DEF AcceptTx, At, Carrying
  <2>2. CASE Finish(r)
    BY <1>1, <1>2, <1>3, <1>5, <2>2, FinishStep DEF AcceptTx
  <2>3. CASE req' = [req EXCEPT ![r].pc = "accept.save", ![r].status = tx.status,
                                ![r].mediators = tx.mediators]
    <3> DEFINE q == [req[r] EXCEPT !.pc = "accept.save", !.status = tx.status,
                                   !.mediators = tx.mediators]
    <3>1. Moves(r, q)
      BY <1>1, <2>3 DEF Moves, TypeOK
    <3>2. tx.status \in Machine!Statuses /\ tx.mediators \in Mediators
      BY <1>1 DEF TypeOK
    <3>3. q \in RequestStates /\ q.proof = req[r].proof
      BY <1>1, <3>2 DEF RequestStates, Steps
    <3>4. req'[r] = q
      BY <1>1, <3>1, <3>3, MovesType
    <3>5. Knows(r)'
      BY <1>1, <1>5, <2>1, <3>4 DEF Knows, Carrying, RequestStates, AcceptTx
    <3>6. QED
      BY <1>1, <1>2, <1>3, <1>5, <3>1, <3>3, <3>5, QuietStep DEF AcceptTx, At
  <2>4. QED
    BY <1>5, <2>2, <2>3 DEF AcceptTx
<1>6. CASE AcceptSave(r)
  <2>1. Carrying(r) /\ req[r].agent \in Agents /\ req[r].proof \in Proofs
    BY <1>1, <1>6 DEF AcceptSave, At, Carrying, Knows
  <2>2. CASE Finish(r) /\ UNCHANGED <<tx, accepted>>
    BY <1>1, <1>2, <1>3, <1>6, <2>2, FinishStep DEF AcceptSave
  <2>3. CASE Mediates(r) /\ Counted(r) /\ Goto(r, "accept.offer")
    <3> DEFINE q == [req[r] EXCEPT !.pc = "accept.offer"]
    <3>1. Moves(r, q)
      BY <1>1, <2>3 DEF Moves, Goto, TypeOK
    <3>2. q \in RequestStates /\ q.proof = req[r].proof /\ q.pc = "accept.offer"
      BY <1>1 DEF RequestStates, Steps
    <3>3. req'[r] = q
      BY <1>1, <3>1, <3>2, MovesType
    <3>4. MediatorsStay /\ \E i \in DOMAIN tx.mediators' : tx.mediators'[i].agent = req[r].agent
      BY <1>1, <2>1, <2>3, MediatesStays
    <3>5. q.agent = req[r].agent /\ q.offer = req[r].offer /\ q.due = req[r].due
          /\ q.then = req[r].then
      BY <1>1 DEF RequestStates
    <3>6. UNCHANGED offers
      BY <1>6 DEF AcceptSave
    <3> HIDE DEF q
    <3>7. Knows(r)'
      BY <1>1, <2>1, <3>2, <3>3, <3>4, <3>5, <3>6 DEF Knows, Carrying
    <3>8. QED
      BY <1>1, <1>6, <2>1, <2>3, <3>1, <3>2, <3>4, <3>7, CountStep DEF AcceptSave, At
  <2>4. QED
    BY <1>6, <2>2, <2>3 DEF AcceptSave
<1>7. CASE AcceptOffer(r)
  <2> DEFINE n == req[r].offer
  <2>1. /\ n \in DOMAIN offers /\ offers[n].agent = req[r].agent
        /\ \E i \in DOMAIN tx.mediators : tx.mediators[i].agent = req[r].agent
    BY <1>1, <1>7 DEF AcceptOffer, At, Carrying, Knows
  <2>2. /\ OffersStay /\ MediatorsStay /\ DOMAIN offers' = DOMAIN offers
        /\ \A k \in DOMAIN offers : k # n => offers'[k] = offers[k]
    BY <1>1, <1>3, <1>7, AnswerStays DEF AcceptOffer, Answers
  <2>3. Moves(r, IdleRequest)
    BY <1>7 DEF AcceptOffer, Finish, Moves
  <2>4. /\ req' \in [Requests -> RequestStates] /\ req'[r] = IdleRequest
        /\ \A s \in Requests : s # r => req'[s] = req[s]
    BY <1>1, <2>3, IdleType, MovesType
  <2>5. TypeOK'
    BY <1>1, <1>7, <2>2, <2>4 DEF TypeOK, OffersStay, AcceptOffer
  <2>6. Knows(r)'
    BY <2>4 DEF Knows, Carrying, IdleRequest
  <2>7. \A s \in Requests : Knows(s)'
    BY <1>1, <2>2, <2>4, <2>6, StillKnows DEF JobsInv
  <2>8. ProofSpentOnce'
    BY <1>7 DEF JobsInv, ProofSpentOnce, AcceptOffer
  <2>9. AcceptedOfferHasAgent'
    BY <1>7, <2>1, <2>2 DEF JobsInv, AcceptedOfferHasAgent, OffersStay, AcceptOffer
  <2>10. IdleRequest.proof \notin Proofs
    BY NoAgentAssumption DEF IdleRequest
  <2>11. Carried'
    BY <1>7, <2>4, <2>10 DEF JobsInv, Carried, AcceptOffer
  <2>12. QED
    BY <2>5, <2>7, <2>8, <2>9, <2>11 DEF JobsInv
<1>8. QED
  BY <1>4, <1>5, <1>6, <1>7 DEF Accepting

\* Every step that takes an open job or leaves one keeps it.
LEMMA OpenJobsStep ==
  ASSUME JobsInv, NEW r \in Requests, OpenJobs(r)
  PROVE  JobsInv'
<1>1. /\ TypeOK /\ Knows(r) /\ req[r] \in RequestStates
      /\ started \in Nat /\ failures \in Nat
  BY RequestType DEF JobsInv, TypeOK
<1>2. UNCHANGED offers => OffersStay /\ NoneAccepted
  BY <1>1, SameOffersStay
<1>3. UNCHANGED tx => MediatorsStay
  BY <1>1, SameMediatorsStay
<1>4. tx.status \in Machine!Statuses /\ tx.mediators \in Mediators
  BY <1>1 DEF TypeOK
<1>5. CASE OpenLoad(r)
  <2>1. CASE Finish(r)
    BY <1>1, <1>2, <1>3, <1>5, <2>1, FinishStep DEF OpenLoad
  <2>2. CASE req' = [req EXCEPT ![r].pc = "open.save", ![r].status = tx.status,
                                ![r].mediators = tx.mediators]
    <3> DEFINE q == [req[r] EXCEPT !.pc = "open.save", !.status = tx.status,
                                   !.mediators = tx.mediators]
    <3>1. Moves(r, q)
      BY <1>1, <2>2 DEF Moves, TypeOK
    <3>2. q \in RequestStates /\ q.proof = req[r].proof
      BY <1>1, <1>4 DEF RequestStates, Steps
    <3>3. req'[r] = q
      BY <1>1, <3>1, <3>2, MovesType
    <3>4. Knows(r)'
      BY <1>1, <1>5, <3>3 DEF Knows, Carrying, RequestStates, OpenLoad, At
    <3>5. QED
      BY <1>1, <1>2, <1>3, <1>5, <3>1, <3>2, <3>4, QuietStep DEF OpenLoad, At
  <2>3. QED
    BY <1>5, <2>1, <2>2 DEF OpenLoad
<1>6. CASE OpenSave(r)
  <2>1. req[r].agent \in Agents /\ req[r].proof \in Proofs
    BY <1>1, <1>6 DEF OpenSave, At, Knows
  <2>2. Finish(r) /\ UNCHANGED <<offers, proof, started, failures>>
    BY <1>6 DEF OpenSave
  <2>3. Moves(r, IdleRequest) /\ IdleRequest.proof \notin Proofs
    BY <2>2, NoAgentAssumption DEF Finish, Moves, IdleRequest
  <2>4. req'[r] = IdleRequest
    BY <1>1, <2>3, IdleType, MovesType
  <2>5. Knows(r)'
    BY <2>4 DEF Knows, Carrying, IdleRequest
  <2>6. CASE UNCHANGED <<tx, accepted>>
    BY <1>1, <1>2, <1>3, <2>2, <2>6, FinishStep
  <2>7. ASSUME MediatorsStay, Counted(r)
        PROVE  JobsInv'
    BY <1>6, <2>1, <2>2, <2>3, <2>5, <2>7, IdleType, CountStep DEF OpenSave, At
  <2>8. ASSUME NEW place,
               tx' = [status |-> Advanced(r),
                      mediators |-> [tx.mediators EXCEPT ![place].state = "ACCEPTED"]]
        PROVE  MediatorsStay
    BY <1>1, <2>8, MarkStays, StatusAdvances
  <2>9. Mediates(r) => MediatorsStay
    BY <1>1, <2>1, MediatesStays
  <2>10. QED
    BY <1>6, <2>6, <2>7, <2>8, <2>9 DEF OpenSave
<1>7. CASE WithdrawSave(r)
  <2>1. req[r].agent \in Agents
    BY <1>1, <1>7 DEF WithdrawSave, At, Knows
  <2> DEFINE place == Least(Places(req[r].mediators, req[r].agent, "ACCEPTED"))
             marked == [tx.mediators EXCEPT ![place].state = "REMOVED"]
  <2>2. tx' = [tx EXCEPT !.mediators[place].state = "REMOVED"]
    BY <1>7 DEF WithdrawSave
  <2>3. tx' = [status |-> tx.status, mediators |-> marked]
    BY <1>1, <2>2 DEF TypeOK
  <2> HIDE DEF place
  <2>4. MediatorsStay
    BY <1>1, <1>4, <2>3, MarkStays
  <2>5. CASE Finish(r)
    BY <1>1, <1>2, <1>7, <2>4, <2>5, FinishStep DEF WithdrawSave
  <2>6. CASE req' = [req EXCEPT ![r] = [IdleRequest EXCEPT !.pc = "offer.load",
                                                           !.exclude = {req[r].agent}]]
    <3> DEFINE q == [IdleRequest EXCEPT !.pc = "offer.load", !.exclude = {req[r].agent}]
    <3>1. Moves(r, q)
      BY <2>6 DEF Moves
    <3>2. q \in RequestStates
      BY <2>1, IdleType DEF RequestStates, Steps
    <3>3. q.proof \notin Proofs
      BY NoAgentAssumption DEF IdleRequest
    <3>4. req'[r] = q
      BY <1>1, <3>1, <3>2, MovesType
    <3>5. Knows(r)'
      BY <3>4 DEF Knows, Carrying, IdleRequest
    <3>6. QED
      BY <1>1, <1>2, <1>7, <2>4, <3>1, <3>2, <3>3, <3>5, QuietStep DEF WithdrawSave
  <2>7. QED
    BY <1>7, <2>5, <2>6 DEF WithdrawSave
<1>8. QED
  BY <1>5, <1>6, <1>7 DEF OpenJobs

----------------------------------------------------------------------------
(* The rest of the program, time and failures.                             *)

LEMMA SurroundingsStep ==
  ASSUME JobsInv,
         \/ Progress
         \/ \E n \in DOMAIN offers : TimePasses(n)
         \/ \E p \in Proofs, a \in Agents : VerifyIdentity(p, a, 0)
         \/ \E p \in Proofs, n \in DOMAIN offers : VerifyIdentity(p, offers[n].agent, n)
         \/ \E r \in Requests : Abandon(r)
  PROVE  JobsInv'
<1>1. TypeOK /\ started \in Nat /\ failures \in Nat /\ failures + 1 \in Nat
  BY DEF JobsInv, TypeOK
<1>2. UNCHANGED offers => OffersStay /\ NoneAccepted
  BY <1>1, SameOffersStay
<1>3. UNCHANGED tx => MediatorsStay
  BY <1>1, SameMediatorsStay
<1>4. proof \in [Proofs -> ProofStates]
  BY <1>1 DEF TypeOK
<1>5. CASE Progress
  <2>1. PICK status \in Reached : tx' = [tx EXCEPT !.status = status]
    BY <1>5 DEF Progress
  <2>2. MediatorsStay
    BY <1>1, <2>1, ReachedAssumption DEF MediatorsStay, TypeOK
  <2>3. QED
    BY <1>2, <1>4, <1>5, <2>2, WorldStep DEF Progress
<1>6. ASSUME NEW n \in DOMAIN offers, TimePasses(n)
      PROVE  JobsInv'
  <2>1. offers \in Seq(Offers) /\ DOMAIN offers = 1..Len(offers) /\ Len(offers) \in Nat
        /\ offers[n] \in Offers
    BY <1>1 DEF TypeOK
  <2>2. offers' = [offers EXCEPT ![n] = [offers[n] EXCEPT !.late = TRUE]]
    BY <1>6 DEF TimePasses
  <2> DEFINE late == [offers[n] EXCEPT !.late = TRUE]
  <2>3. late \in Offers /\ late.agent = offers[n].agent /\ late.answer = offers[n].answer
    BY <2>1 DEF Offers
  <2> HIDE DEF late
  <2>4. offers' = [offers EXCEPT ![n] = late]
    BY <2>2 DEF late
  <2>5. OffersStay /\ NoneAccepted
    BY <2>1, <2>3, <2>4 DEF OffersStay, NoneAccepted
  <2>6. QED
    BY <1>3, <1>4, <1>6, <2>5, WorldStep DEF TimePasses
<1>7. ASSUME NEW p \in Proofs, NEW a \in Agents, NEW ref \in Nat, VerifyIdentity(p, a, ref)
      PROVE  JobsInv'
  <2>1. /\ proof' \in [Proofs -> ProofStates]
        /\ \A s \in Proofs : proof[s].state = "spent" => proof'[s] = proof[s]
    BY <1>4, <1>7 DEF VerifyIdentity, ProofStates
  <2>2. QED
    BY <1>2, <1>3, <1>7, <2>1, WorldStep DEF VerifyIdentity
<1>8. ASSUME NEW n \in DOMAIN offers
      PROVE  n \in Nat /\ offers[n].agent \in Agents
  <2>1. n \in Nat /\ offers[n] \in Offers
    BY <1>1 DEF TypeOK
  <2>2. QED
    BY <2>1 DEF Offers
<1>9. ASSUME NEW r \in Requests, Abandon(r)
      PROVE  JobsInv'
  BY <1>1, <1>2, <1>3, <1>9, FinishStep DEF Abandon
<1>10. QED
  BY <1>5, <1>6, <1>7, <1>8, <1>9

\* Every step of the specification keeps the invariant.
LEMMA JobsStep ==
  ASSUME JobsInv, [Next]_vars
  PROVE  JobsInv'
<1>1. CASE UNCHANGED vars
  <2>1. UNCHANGED <<tx, offers, proof, accepted, req, started, failures>>
    BY <1>1 DEF vars
  <2>2. OffersStay /\ NoneAccepted /\ MediatorsStay /\ proof' \in [Proofs -> ProofStates]
    BY <2>1, SameOffersStay, SameMediatorsStay DEF JobsInv, TypeOK
  <2>3. QED
    BY <2>1, <2>2, WorldStep
<1>2. ASSUME NEW r \in Requests, Requested(r)
      PROVE  JobsInv'
  BY <1>2, BeginsStep, AcceptancesStep DEF Requested
<1>3. ASSUME NEW r \in Requests, Step(r)
      PROVE  JobsInv'
  BY <1>3, SweepStep, OfferAssignmentStep, AcceptingStep, PassingOnStep, OpenJobsStep DEF Step
<1>4. CASE StartSweep(Timer)
  BY <1>4, TimerAssumption, BeginsStep
<1>5. QED
  BY <1>1, <1>2, <1>3, <1>4, SurroundingsStep DEF Next

\* The operation starts with no offer, no mediator and every proof unspent.
LEMMA JobsInit == Init => JobsInv
<1> SUFFICES ASSUME Init PROVE JobsInv
  OBVIOUS
<1>1. TypeOK
  <2>1. NoProof \in ProofStates
    BY DEF NoProof, ProofStates
  <2>2. tx \in [status : Machine!Statuses, mediators : Mediators]
    BY DEF Init, Mediators, Machine!Statuses
  <2>3. QED
    BY <2>1, <2>2, IdleType DEF Init, TypeOK
<1>2. ProofSpentOnce
  BY DEF Init, ProofSpentOnce
<1>3. AcceptedOfferHasAgent
  BY DEF Init, AcceptedOfferHasAgent
<1>4. Carried
  BY NoAgentAssumption DEF Init, Carried, IdleRequest
<1>5. \A r \in Requests : Knows(r)
  BY DEF Init, Knows, Carrying, IdleRequest
<1>6. QED
  BY <1>1, <1>2, <1>3, <1>4, <1>5 DEF JobsInv

----------------------------------------------------------------------------
(* The invariant behind all of them holds in every state.                  *)
THEOREM JobsCorrect == Spec => []JobsInv
<1>1. Init => JobsInv
  BY JobsInit
<1>2. JobsInv /\ [Next]_vars => JobsInv'
  BY JobsStep
<1>3. QED
  BY <1>1, <1>2, PTL DEF Spec

(* The operation, the offers, the proofs and the requests keep their       *)
(* shape, for any number of them (all handlers of the two services).       *)
THEOREM JobsTypeCorrect == Spec => []TypeOK
<1>1. JobsInv => TypeOK
  BY DEF JobsInv
<1>2. QED
  BY <1>1, JobsCorrect, PTL

(* A proof of identity takes one job, once, whatever overlaps              *)
(* (consumeAcceptJobProof before acceptOffer and acceptOpenJob).           *)
THEOREM ProofsAreSpentOnce == Spec => []ProofSpentOnce
<1>1. JobsInv => ProofSpentOnce
  BY DEF JobsInv
<1>2. QED
  BY <1>1, JobsCorrect, PTL

(* An accepted offer's agent is in the operation (the order of the two     *)
(* saves of acceptOffer).                                                  *)
THEOREM AcceptedAgentsAreThere == Spec => []AcceptedOfferHasAgent
<1>1. JobsInv => AcceptedOfferHasAgent
  BY DEF JobsInv
<1>2. QED
  BY <1>1, JobsCorrect, PTL

----------------------------------------------------------------------------
(* Nobody who has mediated is forgotten.                                   *)

Kept ==
  \A i \in DOMAIN tx.mediators :
    i \in DOMAIN tx.mediators' /\ tx.mediators'[i].agent = tx.mediators[i].agent

\* No step takes a mediator out of the operation, by cases on the handlers.
LEMMA KeptStep ==
  ASSUME JobsInv, [Next]_vars
  PROVE  Kept
<1>1. TypeOK /\ tx.mediators \in Mediators /\ \A r \in Requests : Knows(r)
  BY DEF JobsInv, TypeOK
<1>2. UNCHANGED tx => Kept
  BY DEF Kept
<1>3. MediatorsStay => Kept
  BY DEF MediatorsStay, Kept
<1>4. UNCHANGED vars => UNCHANGED tx
  BY DEF vars
<1>5. CASE Progress
  BY <1>1, <1>5 DEF Progress, TypeOK, Kept
<1>6. \A n : TimePasses(n) => UNCHANGED tx
  BY DEF TimePasses
<1>7. \A p, a, ref : VerifyIdentity(p, a, ref) => UNCHANGED tx
  BY DEF VerifyIdentity
<1>8. \A r : StartSweep(r) \/ Abandon(r) \/ Requested(r) => UNCHANGED tx
  BY DEF StartSweep, Abandon, Requested, StartOffer, StartReassign, StartReject, StartAccept,
         StartOpenJob, StartWithdraw
<1>9. \A r : Sweep(r) \/ OfferAssignment(r) \/ PassingOn(r) => UNCHANGED tx
  BY DEF Sweep, SweepFind, SweepSave, Chain, ChainThrows, OfferAssignment, OfferLoad, OfferExpire,
         OfferFind, OfferCreate, PassingOn, RejectLoad, RejectSave, ReassignSave, PassOn
<1>10. ASSUME NEW r \in Requests, Accepting(r)
       PROVE  Kept
  <2>1. CASE AcceptSave(r)
    <3>1. req[r].agent \in Agents
      BY <1>1, <2>1 DEF AcceptSave, At, Knows, Carrying
    <3>2. Mediates(r) => Kept
      BY <1>1, <1>3, <3>1, MediatesStays
    <3>3. QED
      BY <1>2, <2>1, <3>2 DEF AcceptSave
  <2>2. AcceptLoad(r) \/ AcceptTx(r) \/ AcceptOffer(r) => UNCHANGED tx
    BY DEF AcceptLoad, AcceptTx, AcceptOffer
  <2>3. QED
    BY <1>2, <1>10, <2>1, <2>2 DEF Accepting
<1>11. ASSUME NEW r \in Requests, OpenJobs(r)
       PROVE  Kept
  <2>1. CASE OpenSave(r)
    <3>1. req[r].agent \in Agents
      BY <1>1, <2>1 DEF OpenSave, At, Knows
    <3>2. Mediates(r) => Kept
      BY <1>1, <1>3, <3>1, MediatesStays
    <3>3. ASSUME NEW place,
                 tx' = [status |-> Advanced(r),
                        mediators |-> [tx.mediators EXCEPT ![place].state = "ACCEPTED"]]
          PROVE  Kept
      BY <1>1, <1>3, <3>3, MarkStays, StatusAdvances
    <3>4. QED
      BY <1>2, <2>1, <3>2, <3>3 DEF OpenSave
  <2>2. CASE WithdrawSave(r)
    <3> DEFINE place == Least(Places(req[r].mediators, req[r].agent, "ACCEPTED"))
    <3>1. tx' = [tx EXCEPT !.mediators[place].state = "REMOVED"]
      BY <2>2 DEF WithdrawSave
    <3>2. tx' = [status |-> tx.status,
                 mediators |-> [tx.mediators EXCEPT ![place].state = "REMOVED"]]
      BY <1>1, <3>1 DEF TypeOK
    <3>3. tx.status \in Machine!Statuses
      BY <1>1 DEF TypeOK
    <3> HIDE DEF place
    <3>4. QED
      BY <1>1, <1>3, <3>2, <3>3, MarkStays
  <2>3. OpenLoad(r) => UNCHANGED tx
    BY DEF OpenLoad
  <2>4. QED
    BY <1>2, <1>11, <2>1, <2>2, <2>3 DEF OpenJobs
<1>12. QED
  BY <1>2, <1>4, <1>5, <1>6, <1>7, <1>8, <1>9, <1>10, <1>11 DEF Next, Step

(* Whoever has mediated the operation stays in its list, in order, however *)
(* acceptances and withdrawals overlap (participants.push, and the         *)
(* statuses of participants set in place).                                 *)
THEOREM MediatorsAreNeverLost == Spec => MediatorsAreKept
<1>1. JobsInv /\ [Next]_vars => [Kept]_vars
  BY KeptStep
<1>2. QED
  BY <1>1, JobsCorrect, PTL DEF Spec, MediatorsAreKept, Kept


----------------------------------------------------------------------------
(* One request at a time, some of which die half-way: nobody is asked      *)
(* twice, because only the last offer may be pending and only the last     *)
(* offer is passed on, to agents that nobody has asked yet.                *)

OneRequest == \E r : Requests = {r}

Distinct(queue) == \A i, j \in DOMAIN queue : queue[i] = queue[j] => i = j

\* None of the agents of a queue has had an offer.
Unasked(queue) == \A i \in DOMAIN queue, n \in DOMAIN offers : offers[n].agent # queue[i]

OffersInv ==
  /\ NobodyIsAskedTwice
  /\ Pending \subseteq {Len(offers)}
  /\ Len(offers) # 0 => Distinct(offers[Len(offers)].queue) /\ Unasked(offers[Len(offers)].queue)

\* What request q knows of the offers when it gets to its next step.
KnowsOffers(q) ==
  /\ q.pc = "sweep.save" => q.due \subseteq Pending
  /\ q.pc \in {"reject.save", "reassign.save"} => q.offer \in Pending
  /\ q.pc = "chain" => Pending = {} /\ q.current = Len(offers) /\ q.due = {}
  /\ q.pc = "offer.create" =>
       Pending = {} /\ \A n \in DOMAIN offers : offers[n].agent \in q.exclude

AskedInv == JobsInv /\ OffersInv /\ \A r \in Requests : KnowsOffers(req[r])

\* What the step leaves of who was asked, and in whose stead.
SameAsked ==
  /\ DOMAIN offers' = DOMAIN offers /\ Len(offers') = Len(offers)
  /\ \A k \in DOMAIN offers : offers'[k].agent = offers[k].agent /\ offers'[k].queue = offers[k].queue

\* Where nobody else is asked and no answer is taken back, the offers stay in order.
LEMMA SameAsks ==
  ASSUME TypeOK, OffersInv, SameAsked, Pending' \subseteq Pending
  PROVE  OffersInv'
<1>1. offers \in Seq(Offers) /\ DOMAIN offers = 1..Len(offers) /\ Len(offers) \in Nat
  BY DEF TypeOK
<1>2. NobodyIsAskedTwice'
  BY DEF OffersInv, NobodyIsAskedTwice, SameAsked
<1>3. Pending' \subseteq {Len(offers')}
  BY DEF OffersInv, SameAsked
<1>4. ASSUME Len(offers') # 0
      PROVE  Distinct(offers[Len(offers)].queue)' /\ Unasked(offers[Len(offers)].queue)'
  <2>1. Len(offers) \in DOMAIN offers /\ Len(offers') = Len(offers)
    BY <1>1, <1>4 DEF SameAsked
  <2>2. offers'[Len(offers')].queue = offers[Len(offers)].queue
    BY <2>1 DEF SameAsked
  <2>3. Distinct(offers[Len(offers)].queue) /\ Unasked(offers[Len(offers)].queue)
    BY <1>4, <2>1 DEF OffersInv
  <2>4. QED
    BY <2>2, <2>3 DEF Distinct, Unasked, SameAsked
<1>5. QED
  BY <1>2, <1>3, <1>4 DEF OffersInv

\* An answer asks nobody.
LEMMA AnswerAsks ==
  ASSUME TypeOK, OffersInv, NEW n, NEW answer \in {"ACCEPTED", "CLOSED"}, Answer(n, answer)
  PROVE  OffersInv' /\ Pending' \subseteq Pending \ {n} /\ SameAsked
<1>1. offers \in Seq(Offers) /\ DOMAIN offers = 1..Len(offers) /\ Len(offers) \in Nat
  BY DEF TypeOK
<1>2. DOMAIN offers' = DOMAIN offers /\ Len(offers') = Len(offers)
  BY <1>1 DEF Answer
<1>3. \A k \in DOMAIN offers : k # n => offers'[k] = offers[k]
  BY <1>1 DEF Answer
<1>4. ASSUME n \in DOMAIN offers
      PROVE  /\ offers'[n].agent = offers[n].agent /\ offers'[n].queue = offers[n].queue
             /\ offers'[n].answer = answer
  <2>1. offers'[n] = [offers[n] EXCEPT !.answer = answer, !.late = FALSE]
    BY <1>1, <1>4 DEF Answer
  <2>2. offers[n] \in Offers
    BY <1>1, <1>4
  <2>3. QED
    BY <2>1, <2>2 DEF Offers
<1>5. SameAsked
  BY <1>2, <1>3, <1>4 DEF SameAsked
<1>6. Pending' \subseteq Pending \ {n}
  BY <1>2, <1>3, <1>4 DEF Pending
<1>7. QED
  BY <1>5, <1>6, SameAsks

\* The first of a queue of agents nobody has asked is asked, and the others are left.
LEMMA DeliverAsks ==
  ASSUME TypeOK, OffersInv, Pending = {}, NEW queue \in Seq(Agents), queue # <<>>,
         Distinct(queue), Unasked(queue), Deliver(Head(queue), Tail(queue))
  PROVE  OffersInv'
<1> DEFINE offer == [agent |-> Head(queue), answer |-> "PENDING", late |-> FALSE, queue |-> Tail(queue)]
<1>1. offers \in Seq(Offers) /\ DOMAIN offers = 1..Len(offers) /\ Len(offers) \in Nat
  BY DEF TypeOK
<1>2. /\ Len(queue) \in Nat \ {0} /\ DOMAIN queue = 1..Len(queue) /\ Head(queue) = queue[1]
      /\ Tail(queue) \in Seq(Agents) /\ DOMAIN Tail(queue) = 1..(Len(queue) - 1)
      /\ \A i \in 1..(Len(queue) - 1) : Tail(queue)[i] = queue[i + 1]
  OBVIOUS
<1>3. offer \in Offers
  BY <1>2 DEF Offers, Answers
<1>4. /\ offer.agent = queue[1] /\ offer.queue = Tail(queue)
  BY <1>2
<1>5. offers' = Append(offers, offer)
  BY DEF Deliver
<1> HIDE DEF offer
<1>6. /\ Len(offers') = Len(offers) + 1 /\ DOMAIN offers' = 1..(Len(offers) + 1)
      /\ offers'[Len(offers) + 1] = offer /\ \A k \in 1..Len(offers) : offers'[k] = offers[k]
  BY <1>1, <1>3, <1>5
<1>7. 1 \in DOMAIN queue /\ \A n \in DOMAIN offers : offers[n].agent # offer.agent
  BY <1>2, <1>4 DEF Unasked
<1>8. NobodyIsAskedTwice'
  <2> SUFFICES ASSUME NEW m \in DOMAIN offers', NEW n \in DOMAIN offers',
                      offers'[m].agent = offers'[n].agent
               PROVE  m = n
    BY DEF NobodyIsAskedTwice
  <2>1. CASE m \in DOMAIN offers /\ n \in DOMAIN offers
    BY <1>1, <1>6, <2>1 DEF OffersInv, NobodyIsAskedTwice
  <2>2. CASE m \notin DOMAIN offers \/ n \notin DOMAIN offers
    BY <1>1, <1>6, <1>7, <2>2
  <2>3. QED
    BY <2>1, <2>2
<1>9. Pending' \subseteq {Len(offers')}
  BY <1>1, <1>6 DEF Pending
<1>10. Distinct(Tail(queue))
  BY <1>2 DEF Distinct
<1>11. Unasked(Tail(queue))'
  <2> SUFFICES ASSUME NEW i \in DOMAIN Tail(queue), NEW n \in DOMAIN offers'
               PROVE  offers'[n].agent # Tail(queue)[i]
    BY DEF Unasked
  <2>1. i + 1 \in DOMAIN queue /\ Tail(queue)[i] = queue[i + 1] /\ i + 1 # 1
    BY <1>2
  <2>2. CASE n \in DOMAIN offers
    BY <1>1, <1>6, <2>1, <2>2 DEF Unasked
  <2>3. CASE n \notin DOMAIN offers
    <3>1. offers'[n].agent = queue[1]
      BY <1>1, <1>4, <1>6, <2>3
    <3>2. QED
      BY <1>7, <2>1, <3>1 DEF Distinct
  <2>4. QED
    BY <2>2, <2>3
<1>12. offers'[Len(offers')].queue = Tail(queue)
  BY <1>4, <1>6
<1>13. Distinct(offers[Len(offers)].queue)' /\ Unasked(offers[Len(offers)].queue)'
  BY <1>10, <1>11, <1>12 DEF Distinct, Unasked
<1>14. QED
  BY <1>8, <1>9, <1>13 DEF OffersInv

\* A step that leaves the offers alone.
LEMMA NoOfferAsks ==
  ASSUME AskedInv, UNCHANGED offers
  PROVE  OffersInv' /\ Pending' = Pending
<1>1. TypeOK /\ OffersInv /\ Pending' = Pending /\ SameAsked
  BY DEF AskedInv, JobsInv, Pending, SameAsked
<1>2. QED
  BY <1>1, SameAsks

\* What a request that has ended knows.
LEMMA IdleKnows ==
  ASSUME NEW r \in Requests, req'[r] = IdleRequest
  PROVE  KnowsOffers(req[r])'
BY DEF KnowsOffers, IdleRequest

\* The request of a slot after a step.
LEMMA NextRequest ==
  ASSUME TypeOK, NEW r \in Requests
  PROVE  /\ req[r] \in RequestStates
         /\ \A q : req' = [req EXCEPT ![r] = q] => req'[r] = q
         /\ Finish(r) => req'[r] = IdleRequest
         /\ \A step : Goto(r, step) => req'[r] = [req[r] EXCEPT !.pc = step]
BY DEF TypeOK, Finish, Goto

\* What comes after a sweep that has found only pending offers.
LEMMA SweptKnows ==
  ASSUME JobsInv, NEW r \in Requests, NEW due, due \subseteq Pending',
         req'[r] = Swept(r, due)
  PROVE  KnowsOffers(req[r])'
<1>1. req[r] \in RequestStates /\ req[r].then \in {"idle", "accept.load", "reject.load"}
  BY NextRequest DEF JobsInv, Knows
<1>2. CASE due # {}
  <2>1. req'[r].pc = "sweep.save" /\ req'[r].due = due
    BY <1>1, <1>2 DEF Swept, RequestStates
  <2>2. QED
    BY <2>1 DEF KnowsOffers
<1>3. CASE due = {} /\ req[r].then = "idle"
  BY <1>3, IdleKnows DEF Swept
<1>4. CASE due = {} /\ req[r].then # "idle"
  <2>1. req'[r].pc \in {"accept.load", "reject.load"}
    BY <1>1, <1>4 DEF Swept, RequestStates
  <2>2. QED
    BY <2>1 DEF KnowsOffers
<1>5. QED
  BY <1>2, <1>3, <1>4

\* What the only request, or what is around it, leaves of the offers.
AskedStep(r) == OffersInv' /\ KnowsOffers(req[r])'

\* A sweep closes the last offer and passes it on.
LEMMA SweepAsks ==
  ASSUME AskedInv, NEW r \in Requests, Sweep(r)
  PROVE  AskedStep(r)
<1>1. /\ JobsInv /\ TypeOK /\ OffersInv /\ KnowsOffers(req[r]) /\ Knows(r)
      /\ req[r] \in RequestStates
  BY NextRequest DEF AskedInv, JobsInv
<1>2. CASE SweepFind(r)
  <2>1. req'[r] = Swept(r, Due) /\ UNCHANGED offers
    BY <1>1, <1>2, NextRequest DEF SweepFind
  <2>2. OffersInv' /\ Pending' = Pending
    BY <2>1, NoOfferAsks
  <2>3. Due \subseteq Pending'
    BY <2>2 DEF Due
  <2>4. KnowsOffers(req[r])'
    BY <1>1, <2>1, <2>3, SweptKnows
  <2>5. QED
    BY <2>2, <2>4 DEF AskedStep
<1>3. CASE SweepSave(r)
  <2>1. PICK n \in req[r].due :
          /\ Answer(n, "CLOSED")
          /\ req' = [req EXCEPT ![r].pc = "chain", ![r].due = @ \ {n}, ![r].current = n]
    BY <1>3 DEF SweepSave
  <2>2. req[r].due \subseteq {Len(offers)} /\ n = Len(offers)
    BY <1>1, <1>3 DEF SweepSave, At, KnowsOffers, OffersInv
  <2>3. OffersInv' /\ Pending' = {} /\ Len(offers') = Len(offers)
    BY <1>1, <2>1, <2>2, AnswerAsks DEF OffersInv, SameAsked
  <2>4. req'[r].pc = "chain" /\ req'[r].due = {} /\ req'[r].current = Len(offers')
    BY <1>1, <2>1, <2>2, <2>3 DEF TypeOK, RequestStates
  <2>5. KnowsOffers(req[r])'
    BY <2>3, <2>4 DEF KnowsOffers
  <2>6. QED
    BY <2>3, <2>5 DEF AskedStep
<1>4. CASE Chain(r)
  <2>1. Pending = {} /\ req[r].current = Len(offers) /\ req[r].due = {} /\ Len(offers) \in DOMAIN offers
    BY <1>1, <1>4 DEF Chain, At, KnowsOffers, Knows
  <2> DEFINE queue == offers[Len(offers)].queue
  <2>2. (queue = <<>> /\ UNCHANGED offers) \/ (queue # <<>> /\ Deliver(Head(queue), Tail(queue)))
    BY <1>4, <2>1 DEF Chain
  <2>3. queue \in Seq(Agents)
    <3>1. offers[Len(offers)] \in Offers
      BY <1>1, <2>1 DEF TypeOK
    <3>2. QED
      BY <3>1 DEF Offers
  <2>4. Distinct(queue) /\ Unasked(queue)
    <3>1. Len(offers) # 0
      BY <1>1, <2>1 DEF TypeOK
    <3>2. QED
      BY <1>1, <3>1 DEF OffersInv
  <2> HIDE DEF queue
  <2>5. OffersInv'
    BY <1>1, <2>1, <2>2, <2>3, <2>4, NoOfferAsks, DeliverAsks
  <2>6. req'[r] = Swept(r, {})
    BY <1>1, <1>4, <2>1, NextRequest DEF Chain
  <2>7. KnowsOffers(req[r])'
    BY <1>1, <2>6, SweptKnows
  <2>8. QED
    BY <2>5, <2>7 DEF AskedStep
<1>5. CASE ChainThrows(r)
  <2>1. req'[r] = IdleRequest /\ UNCHANGED offers
    BY <1>1, <1>5, NextRequest DEF ChainThrows
  <2>2. QED
    BY <2>1, IdleKnows, NoOfferAsks DEF AskedStep
<1>6. QED
  BY <1>2, <1>3, <1>4, <1>5 DEF Sweep


\* A search leaves out those who have been asked, and asks the others in turn.
LEMMA OfferAssignmentAsks ==
  ASSUME AskedInv, NEW r \in Requests, OfferAssignment(r)
  PROVE  AskedStep(r)
<1>1. /\ JobsInv /\ TypeOK /\ OffersInv /\ KnowsOffers(req[r]) /\ req[r] \in RequestStates
  BY NextRequest DEF AskedInv, JobsInv
<1>2. CASE OfferLoad(r)
  <2>1. UNCHANGED offers
    BY <1>2 DEF OfferLoad
  <2>2. \/ req'[r] = IdleRequest
        \/ req'[r].pc \in {"offer.find", "offer.expire"}
    BY <1>1, <1>2, NextRequest DEF OfferLoad, TypeOK, RequestStates
  <2>3. KnowsOffers(req[r])'
    BY <2>2, IdleKnows DEF KnowsOffers
  <2>4. QED
    BY <2>1, <2>3, NoOfferAsks DEF AskedStep
<1>3. CASE OfferExpire(r)
  <2>1. PICK n \in req[r].due :
          /\ Answer(n, "CLOSED")
          /\ req' = [req EXCEPT ![r].due = @ \ {n},
                                ![r].pc = IF req[r].due = {n} THEN "offer.find" ELSE "offer.expire"]
    BY <1>3 DEF OfferExpire
  <2>2. req'[r].pc \in {"offer.find", "offer.expire"}
    BY <1>1, <2>1 DEF TypeOK, RequestStates
  <2>3. OffersInv'
    BY <1>1, <2>1, AnswerAsks
  <2>4. QED
    BY <2>2, <2>3 DEF AskedStep, KnowsOffers
<1>4. CASE OfferFind(r)
  <2>1. UNCHANGED offers
    BY <1>4 DEF OfferFind
  <2>2. OffersInv' /\ Pending' = Pending
    BY <2>1, NoOfferAsks
  <2>3. CASE Pending # {}
    BY <1>1, <1>4, <2>2, <2>3, NextRequest, IdleKnows DEF OfferFind, AskedStep
  <2>4. CASE Pending = {}
    <3>1. req'[r].pc = "offer.create"
          /\ req'[r].exclude = req[r].exclude \cup {offers[n].agent : n \in DOMAIN offers}
      BY <1>1, <1>4, <2>4 DEF OfferFind, TypeOK, RequestStates
    <3>2. KnowsOffers(req[r])'
      BY <2>1, <2>2, <2>4, <3>1 DEF KnowsOffers
    <3>3. QED
      BY <2>2, <3>2 DEF AskedStep
  <2>5. QED
    BY <2>3, <2>4
<1>5. CASE OfferCreate(r)
  <2>1. Pending = {} /\ \A n \in DOMAIN offers : offers[n].agent \in req[r].exclude
    BY <1>1, <1>5 DEF OfferCreate, At, KnowsOffers
  <2>2. req'[r] = IdleRequest
    BY <1>1, <1>5, NextRequest DEF OfferCreate
  <2>3. ASSUME NEW hits \in Hits(req[r].exclude), Deliver(Head(hits), Tail(hits))
        PROVE  OffersInv'
    <3>1. PICK n \in 1..Cardinality(Agents \ req[r].exclude) : hits \in [1..n -> Agents \ req[r].exclude]
      BY <2>3 DEF Hits
    <3>2. hits \in Seq(Agents) /\ hits # <<>> /\ \A i \in DOMAIN hits : hits[i] \notin req[r].exclude
      <4>1. n \in Nat /\ n # 0
        BY <3>1
      <4>2. hits \in [1..n -> Agents] /\ \A i \in 1..n : hits[i] \notin req[r].exclude
        BY <3>1
      <4>3. hits \in Seq(Agents) /\ Len(hits) = n /\ DOMAIN hits = 1..n
        BY <4>1, <4>2
      <4>4. QED
        BY <4>1, <4>2, <4>3
    <3>3. Distinct(hits) /\ Unasked(hits)
      BY <2>1, <2>3, <3>2 DEF Hits, Distinct, Unasked
    <3>4. QED
      BY <1>1, <2>1, <2>3, <3>2, <3>3, DeliverAsks
  <2>4. OffersInv'
    BY <1>5, <2>3, NoOfferAsks DEF OfferCreate
  <2>5. QED
    BY <2>2, <2>4, IdleKnows DEF AskedStep
<1>6. QED
  BY <1>2, <1>3, <1>4, <1>5 DEF OfferAssignment

\* An acceptance answers an offer, or finds it late and closes it.
LEMMA AcceptingAsks ==
  ASSUME AskedInv, NEW r \in Requests, Accepting(r)
  PROVE  AskedStep(r)
<1>1. /\ JobsInv /\ TypeOK /\ OffersInv /\ req[r] \in RequestStates
  BY NextRequest DEF AskedInv, JobsInv
<1>2. CASE AcceptLoad(r)
  <2>1. UNCHANGED offers
    BY <1>2 DEF AcceptLoad
  <2>2. OffersInv' /\ Pending' = Pending
    BY <2>1, NoOfferAsks
  <2>3. \/ req'[r] = IdleRequest
        \/ req'[r].pc = "accept.tx"
        \/ req'[r].pc = "sweep.save" /\ req'[r].due = {req[r].offer} /\ req[r].offer \in Pending
    BY <1>1, <1>2 DEF AcceptLoad, Goto, Finish, TypeOK, RequestStates
  <2>4. KnowsOffers(req[r])'
    BY <2>2, <2>3, IdleKnows DEF KnowsOffers
  <2>5. QED
    BY <2>2, <2>4 DEF AskedStep
<1>3. CASE AcceptTx(r) \/ AcceptSave(r)
  <2>1. UNCHANGED offers
    BY <1>3 DEF AcceptTx, AcceptSave
  <2>2. \/ req'[r] = IdleRequest
        \/ req'[r].pc \in {"accept.save", "accept.offer"}
    BY <1>1, <1>3 DEF AcceptTx, AcceptSave, Goto, Finish, TypeOK, RequestStates
  <2>3. KnowsOffers(req[r])'
    BY <2>2, IdleKnows DEF KnowsOffers
  <2>4. QED
    BY <2>1, <2>3, NoOfferAsks DEF AskedStep
<1>4. CASE AcceptOffer(r)
  <2>1. OffersInv' /\ req'[r] = IdleRequest
    BY <1>1, <1>4, AnswerAsks, NextRequest DEF AcceptOffer
  <2>2. QED
    BY <2>1, IdleKnows DEF AskedStep
<1>5. QED
  BY <1>2, <1>3, <1>4 DEF Accepting

\* Only a pending offer is passed on, when it is rejected or taken back.
LEMMA PassingOnAsks ==
  ASSUME AskedInv, NEW r \in Requests, PassingOn(r)
  PROVE  AskedStep(r)
<1>1. /\ JobsInv /\ TypeOK /\ OffersInv /\ KnowsOffers(req[r]) /\ req[r] \in RequestStates
  BY NextRequest DEF AskedInv, JobsInv
<1>2. CASE RejectLoad(r)
  <2>1. OffersInv' /\ Pending' = Pending
    BY <1>2, NoOfferAsks DEF RejectLoad
  <2>2. \/ req'[r] = IdleRequest
        \/ req'[r].pc = "reject.save" /\ req'[r].offer = req[r].offer /\ req[r].offer \in Pending
    BY <1>1, <1>2 DEF RejectLoad, Goto, Finish, TypeOK, RequestStates
  <2>3. KnowsOffers(req[r])'
    BY <2>1, <2>2, IdleKnows DEF KnowsOffers
  <2>4. QED
    BY <2>1, <2>3 DEF AskedStep
<1>3. CASE RejectSave(r) \/ ReassignSave(r)
  <2>1. Answer(req[r].offer, "CLOSED") /\ req[r].offer \in Pending
        /\ req' = [req EXCEPT ![r] = [IdleRequest EXCEPT !.pc = "chain", !.current = req[r].offer]]
    BY <1>1, <1>3 DEF RejectSave, ReassignSave, PassOn, At, KnowsOffers
  <2>2. req[r].offer = Len(offers)
    BY <1>1, <2>1 DEF OffersInv
  <2>3. OffersInv' /\ Pending' = {} /\ Len(offers') = Len(offers)
    BY <1>1, <2>1, <2>2, AnswerAsks DEF OffersInv, SameAsked
  <2>4. req'[r].pc = "chain" /\ req'[r].due = {} /\ req'[r].current = Len(offers')
    BY <1>1, <2>1, <2>2, <2>3 DEF IdleRequest, TypeOK
  <2>5. QED
    BY <2>3, <2>4 DEF AskedStep, KnowsOffers
<1>4. QED
  BY <1>2, <1>3 DEF PassingOn

\* The board of open jobs asks nobody; a withdrawal starts a search.
LEMMA OpenJobsAsks ==
  ASSUME AskedInv, NEW r \in Requests, OpenJobs(r)
  PROVE  AskedStep(r)
<1>1. /\ TypeOK /\ req[r] \in RequestStates
  BY NextRequest DEF AskedInv, JobsInv
<1>2. UNCHANGED offers
  BY DEF OpenJobs, OpenLoad, OpenSave, WithdrawSave
<1>3. req'[r].pc \in {"idle", "open.save", "offer.load"}
  <2>1. OpenLoad(r) => req'[r].pc \in {"idle", "open.save"}
    BY <1>1, NextRequest DEF OpenLoad, IdleRequest, TypeOK, RequestStates
  <2>2. OpenSave(r) => req'[r].pc = "idle"
    BY <1>1, NextRequest DEF OpenSave, IdleRequest
  <2>3. WithdrawSave(r) => req'[r].pc \in {"idle", "offer.load"}
    <3>1. WithdrawSave(r) =>
            \/ Finish(r)
            \/ req' = [req EXCEPT ![r] = [IdleRequest EXCEPT !.pc = "offer.load",
                                                            !.exclude = {req[r].agent}]]
      BY Zenon DEF WithdrawSave
    <3>2. Finish(r) => req'[r].pc = "idle"
      BY <1>1 DEF Finish, IdleRequest, TypeOK
    <3>3. ASSUME NEW agents, req' = [req EXCEPT ![r] = [IdleRequest EXCEPT !.pc = "offer.load",
                                                                         !.exclude = agents]]
          PROVE  req'[r].pc = "offer.load"
      BY <1>1, <3>3 DEF IdleRequest, TypeOK
    <3>4. QED
      BY <3>1, <3>2, <3>3
  <2>4. QED
    BY <2>1, <2>2, <2>3 DEF OpenJobs
<1>4. QED
  BY <1>2, <1>3, NoOfferAsks DEF AskedStep, KnowsOffers

\* A request that begins has found nothing but the offer it takes back.
LEMMA RequestedAsks ==
  ASSUME AskedInv, NEW r \in Requests, Requested(r) \/ StartSweep(r) \/ Abandon(r)
  PROVE  AskedStep(r)
<1>1. TypeOK
  BY DEF AskedInv, JobsInv
<1>2. UNCHANGED offers
  BY DEF Requested, StartOffer, StartReassign, StartReject, StartAccept, StartOpenJob, StartWithdraw,
         StartSweep, Abandon
<1>3. OffersInv' /\ Pending' = Pending
  BY <1>2, NoOfferAsks
<1>4. CASE StartReassign(r)
  <2>1. PICK n \in Pending : req' = [req EXCEPT ![r] = [IdleRequest EXCEPT !.pc = "reassign.save", !.offer = n]]
    BY <1>4 DEF StartReassign, Receive, Begin
  <2>2. req'[r].pc = "reassign.save" /\ req'[r].offer \in Pending
    BY <1>1, <2>1 DEF IdleRequest, TypeOK
  <2>3. QED
    BY <1>3, <2>2 DEF AskedStep, KnowsOffers
<1>5. CASE ~StartReassign(r)
  <2>1. \A n : StartReject(r, n) => req'[r].pc = "sweep.find"
    BY <1>1 DEF StartReject, Receive, Begin, IdleRequest, TypeOK
  <2>2. \A n, p : StartAccept(r, n, p) => req'[r].pc = "sweep.find"
    BY <1>1 DEF StartAccept, Receive, Begin, IdleRequest, TypeOK
  <2>3. \A a, p : StartOpenJob(r, a, p) => req'[r].pc = "open.load"
    BY <1>1 DEF StartOpenJob, Receive, Begin, IdleRequest, TypeOK
  <2>4. \A a : StartWithdraw(r, a) => req'[r].pc = "withdraw.save"
    BY <1>1 DEF StartWithdraw, Receive, Begin, IdleRequest, TypeOK
  <2>5. /\ StartOffer(r) => req'[r].pc = "offer.load"
        /\ StartSweep(r) => req'[r].pc = "sweep.find"
        /\ Abandon(r) => req'[r].pc = "idle"
    BY <1>1 DEF StartOffer, StartSweep, Abandon, Finish, Receive, Begin, IdleRequest, TypeOK
  <2>6. req'[r].pc \in {"sweep.find", "open.load", "withdraw.save", "offer.load", "idle"}
    BY <1>5, <2>1, <2>2, <2>3, <2>4, <2>5 DEF Requested
  <2>7. QED
    BY <1>3, <2>6 DEF AskedStep, KnowsOffers
<1>6. QED
  BY <1>4, <1>5

\* Time passes, and nobody is asked.
LEMMA SurroundingsAsk ==
  ASSUME AskedInv, NEW r \in Requests,
         \/ UNCHANGED vars
         \/ Progress
         \/ \E n \in DOMAIN offers : TimePasses(n)
         \/ \E p, a, ref : VerifyIdentity(p, a, ref)
  PROVE  AskedStep(r)
<1>1. TypeOK /\ OffersInv /\ KnowsOffers(req[r])
  BY DEF AskedInv, JobsInv
<1>2. req' = req
  BY DEF vars, Progress, TimePasses, VerifyIdentity
<1>3. OffersInv' /\ Pending' = Pending /\ SameAsked
  <2>1. CASE UNCHANGED offers
    BY <2>1, NoOfferAsks DEF SameAsked
  <2>2. ASSUME NEW n \in DOMAIN offers, TimePasses(n)
        PROVE  SameAsked /\ Pending' = Pending
    <3>1. offers \in Seq(Offers) /\ DOMAIN offers = 1..Len(offers) /\ Len(offers) \in Nat
          /\ offers[n] \in Offers
      BY <1>1 DEF TypeOK
    <3> DEFINE late == [offers[n] EXCEPT !.late = TRUE]
    <3>2. offers' = [offers EXCEPT ![n] = late]
      BY <2>2 DEF TimePasses
    <3>3. late.agent = offers[n].agent /\ late.queue = offers[n].queue /\ late.answer = offers[n].answer
      BY <3>1 DEF Offers
    <3> HIDE DEF late
    <3>4. SameAsked
      BY <3>1, <3>2, <3>3 DEF SameAsked
    <3>5. \A k \in DOMAIN offers : offers'[k].answer = offers[k].answer
      BY <3>1, <3>2, <3>3
    <3>6. QED
      BY <3>4, <3>5 DEF Pending, SameAsked
  <2>3. QED
    BY <1>1, <2>1, <2>2, SameAsks DEF vars, Progress, VerifyIdentity
<1>4. KnowsOffers(req[r])'
  BY <1>1, <1>2, <1>3 DEF KnowsOffers, SameAsked
<1>5. QED
  BY <1>3, <1>4 DEF AskedStep

\* With one request at a time, some of which die half-way: no agent has two offers of the
\* job, by a search or out of the queue of an older offer (agents/assignment.service.ts).
THEOREM NobodyIsEverAskedTwice ==
  ASSUME OneRequest
  PROVE  Spec => []NobodyIsAskedTwice
<1>1. Init => AskedInv
  <2> SUFFICES ASSUME Init PROVE AskedInv
    OBVIOUS
  <2>1. JobsInv
    BY JobsInit
  <2>2. DOMAIN offers = {} /\ Len(offers) = 0
    BY DEF Init
  <2>3. OffersInv
    BY <2>2 DEF OffersInv, NobodyIsAskedTwice, Pending
  <2>4. \A r \in Requests : KnowsOffers(req[r])
    BY DEF Init, IdleRequest, KnowsOffers
  <2>5. QED
    BY <2>1, <2>3, <2>4 DEF AskedInv
<1>2. AskedInv /\ [Next]_vars => AskedInv'
  <2> SUFFICES ASSUME AskedInv, [Next]_vars PROVE AskedInv'
    OBVIOUS
  <2>1. JobsInv'
    BY JobsStep DEF AskedInv
  <2>2. PICK r \in Requests : Requests = {r}
    BY DEF OneRequest
  <2>3. Timer = r
    BY <2>2, TimerAssumption
  <2>4. AskedStep(r)
    <3>1. CASE Step(r)
      BY <3>1, SweepAsks, OfferAssignmentAsks, AcceptingAsks, PassingOnAsks, OpenJobsAsks DEF Step
    <3>2. CASE Requested(r) \/ StartSweep(r) \/ Abandon(r)
      BY <3>2, RequestedAsks
    <3>3. QED
      BY <2>2, <2>3, <3>1, <3>2, SurroundingsAsk DEF Next
  <2>5. QED
    BY <2>1, <2>2, <2>4 DEF AskedStep, AskedInv
<1>3. AskedInv => NobodyIsAskedTwice
  BY DEF AskedInv, OffersInv
<1>4. QED
  BY <1>1, <1>2, <1>3, PTL DEF Spec

=============================================================================
