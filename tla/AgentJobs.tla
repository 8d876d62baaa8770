----------------------------- MODULE AgentJobs -----------------------------
(***************************************************************************)
(* How an operation finds its agent, and another one when that agent       *)
(* leaves (agents/assignment.service.ts, agents/open-jobs.service.ts).  A  *)
(* party offers the job to one candidate of a search, who accepts or       *)
(* rejects it within two minutes; a rejected, expired or withdrawn offer   *)
(* goes to the next candidate of its queue.  Agents may also take the job  *)
(* from the board of open jobs.  Accepting costs a proof of identity that  *)
(* works once.                                                             *)
(*                                                                         *)
(* An offer is a notification, a document apart from the operation; every  *)
(* handler works on the copies it loaded, and most handlers first sweep    *)
(* the offers that are past their time, as a timer does every 15 seconds.  *)
(***************************************************************************)
EXTENDS Naturals, Sequences, FiniteSets

CONSTANTS
  Requests,     \* slots for requests in flight at the same time
  Timer,        \* the slot the timer job uses, as others do
  Agents,       \* users who are active agents
  PartyAgents,  \* those of them who are a party to this operation
  Silent,       \* those who may turn off their notifications at any time
  Proofs,       \* proofs of identity that get issued
  Parties,      \* how many participants the operation has without an agent
  Limit,        \* how many participants its schema allows
  Reached,      \* bound: the statuses the rest of the program moves it to
  MaxRequests,  \* bound: requests of people that are started
  MaxFailures   \* bound: requests that die half-way

ASSUME TimerAssumption == Timer \in Requests
ASSUME AgentsAssumption == PartyAgents \subseteq Agents /\ Silent \subseteq Agents
ASSUME ParticipantsAssumption == Parties \in Nat /\ Limit \in Nat

VARIABLES
  tx,        \* the stored operation
  offers,    \* the notifications that offer its job, in order of creation
  proof,     \* the proofs of identity
  accepted,  \* history: how often an acceptance has used each proof
  req,       \* the requests in flight
  started,   \* how many requests people have made
  failures   \* how many requests have died

vars == <<tx, offers, proof, accepted, req, started, failures>>

Machine == INSTANCE OperationStates WITH status <- tx.status

ASSUME ReachedAssumption == Reached \subseteq Machine!Statuses

----------------------------------------------------------------------------
Mediators == Seq([agent : Agents, state : {"ACCEPTED", "REMOVED"}])

\* REJECTED, EXPIRED and REASSIGNED differ in their wording only.
Answers == {"PENDING", "ACCEPTED", "CLOSED"}

\* entityId, expiresAt and candidateQueue of a notification AGENT_ASSIGNMENT.
Offers ==
  [agent : Agents, answer : Answers, late : BOOLEAN, queue : Seq(Agents)]

NoAgent == "none"

ASSUME NoAgentAssumption == NoAgent \notin Agents \cup Proofs

\* What a proof is for: the job itself, 0, or the offer of that number.
ProofStates ==
  [state : {"none", "valid", "spent"}, agent : Agents \cup {NoAgent}, ref : Nat]

NoProof == [state |-> "none", agent |-> NoAgent, ref |-> 0]

\* What a spent proof was for is of no more interest.
Spent == [NoProof EXCEPT !.state = "spent"]

Steps ==
  {"idle", "sweep.find", "sweep.save", "chain",
   "offer.load", "offer.expire", "offer.find", "offer.create",
   "accept.find", "accept.load", "accept.tx", "accept.save", "accept.offer",
   "reject.find", "reject.load", "reject.save", "reassign.save",
   "open.load", "open.save", "withdraw.save"}

IdleRequest ==
  [pc |-> "idle", then |-> "idle", agent |-> NoAgent, offer |-> 0, proof |-> NoAgent,
   due |-> {}, current |-> 0, exclude |-> {}, status |-> "none", mediators |-> <<>>]

RequestStates ==
  [pc : Steps, then : Steps,          \* the step, and the one after the sweep
   agent : Agents \cup {NoAgent}, offer : Nat, proof : Proofs \cup {NoAgent},
   due : SUBSET Nat, current : Nat,   \* what its sweep has found, and is at
   exclude : SUBSET Agents,           \* who has had an offer before
   status : Machine!Statuses \cup {"none"}, mediators : Mediators]  \* its copy

Init ==
  /\ tx = [status |-> "ACCEPTED", mediators |-> <<>>]
  /\ offers = <<>>
  /\ proof = [p \in Proofs |-> NoProof]
  /\ accepted = [p \in Proofs |-> 0]
  /\ req = [r \in Requests |-> IdleRequest]
  /\ started = 0
  /\ failures = 0

----------------------------------------------------------------------------
(* A request moving through its handler.                                   *)

At(r, step) == req[r].pc = step

Goto(r, step) == req' = [req EXCEPT ![r].pc = step]

Begin(r, request) == req[r].pc = "idle" /\ req' = [req EXCEPT ![r] = request]

\* A request of a person.
Receive(r, request) ==
  started < MaxRequests /\ started' = started + 1 /\ Begin(r, request)

Finish(r) == req' = [req EXCEPT ![r] = IdleRequest]

\* The process dies, or a call of the database throws.
Abandon(r) ==
  /\ req[r].pc # "idle"
  /\ failures < MaxFailures
  /\ failures' = failures + 1
  /\ Finish(r)
  /\ UNCHANGED <<tx, offers, proof, accepted, started>>

\* An accepted intermediary among the participants.
Taken(mediators) == \E i \in DOMAIN mediators : mediators[i].state = "ACCEPTED"

Least(numbers) == CHOOSE n \in numbers : \A k \in numbers : n <= k

Pending == {n \in DOMAIN offers : offers[n].answer = "PENDING"}

\* The offers that are past their time and still unanswered.
Due == {n \in Pending : offers[n].late}

\* expiresAt is of no more interest once the offer is answered.
Answer(n, answer) == offers' = [offers EXCEPT ![n].answer = answer, ![n].late = FALSE]

\* createAndDeliverOffer, when the agent's notifications are on.
Deliver(agent, queue) ==
  offers' = Append(offers, [agent |-> agent, answer |-> "PENDING", late |-> FALSE,
                            queue |-> queue])

----------------------------------------------------------------------------
(* expireDueOffers, by the timer and at the start of most handlers: each   *)
(* offer found is saved EXPIRED, whatever it says by then, and passed on.  *)

StartSweep(r) ==
  /\ Begin(r, [IdleRequest EXCEPT !.pc = "sweep.find"])
  /\ UNCHANGED <<tx, offers, proof, accepted, started, failures>>

\* The next offer of the sweep, or what the handler does after it.
Swept(r, due) ==
  IF due # {} THEN [req[r] EXCEPT !.pc = "sweep.save", !.due = due]
  ELSE IF req[r].then = "idle" THEN IdleRequest
  ELSE [req[r] EXCEPT !.pc = req[r].then, !.due = {}, !.current = 0]

SweepFind(r) ==
  /\ At(r, "sweep.find")
  /\ req' = [req EXCEPT ![r] = Swept(r, Due)]
  /\ UNCHANGED <<tx, offers, proof, accepted, started, failures>>

\* Mutant: the sweep finds the offers and does not write the answer.
SweepSaveNothing(r) ==
  /\ At(r, "sweep.save")
  /\ \E n \in req[r].due :
       req' = [req EXCEPT ![r].pc = "chain", ![r].due = @ \ {n}, ![r].current = n]
  /\ UNCHANGED <<tx, offers, proof, accepted, started, failures>>

SweepSave(r) ==
  /\ At(r, "sweep.save")
  /\ \E n \in req[r].due :
       /\ Answer(n, "CLOSED")
       /\ req' = [req EXCEPT ![r].pc = "chain", ![r].due = @ \ {n}, ![r].current = n]
  /\ UNCHANGED <<tx, proof, accepted, started, failures>>

\* reassignFromExpiredOrRejected: to the next of the queue, if there is one.
Chain(r) ==
  /\ At(r, "chain")
  /\ LET queue == offers[req[r].current].queue IN
       \/ queue = <<>> /\ UNCHANGED offers
       \/ queue # <<>> /\ Deliver(Head(queue), Tail(queue))
  /\ req' = [req EXCEPT ![r] = Swept(r, req[r].due)]
  /\ UNCHANGED <<tx, proof, accepted, started, failures>>

\* The next agent has turned off the notifications: the whole sweep throws.
ChainThrows(r) ==
  /\ At(r, "chain")
  /\ LET queue == offers[req[r].current].queue IN queue # <<>> /\ Head(queue) \in Silent
  /\ Finish(r)
  /\ UNCHANGED <<tx, offers, proof, accepted, started, failures>>

Sweep(r) == SweepFind(r) \/ SweepSave(r) \/ Chain(r) \/ ChainThrows(r)

----------------------------------------------------------------------------
(* offerAssignment, by a party or after a withdrawal.                      *)

StartOffer(r) ==
  /\ Receive(r, [IdleRequest EXCEPT !.pc = "offer.load"])
  /\ UNCHANGED <<tx, offers, proof, accepted, failures>>

OfferLoad(r) ==
  /\ At(r, "offer.load")
  /\ IF tx.status \in {"CANCELLED", "COMPLETED"} \/ Taken(tx.mediators) THEN Finish(r)
     ELSE req' = [req EXCEPT ![r].due = Due,
                             ![r].pc = IF Due = {} THEN "offer.find" ELSE "offer.expire"]
  /\ UNCHANGED <<tx, offers, proof, accepted, started, failures>>

\* expirePendingForTransaction passes the expired offers on to nobody.
OfferExpire(r) ==
  /\ At(r, "offer.expire")
  /\ \E n \in req[r].due :
       /\ Answer(n, "CLOSED")
       /\ req' = [req EXCEPT ![r].due = @ \ {n},
                             ![r].pc = IF req[r].due = {n} THEN "offer.find" ELSE "offer.expire"]
  /\ UNCHANGED <<tx, proof, accepted, started, failures>>

\* Mutant: those who have been asked before are not left out of the search.
OfferFindAnybody(r) ==
  /\ At(r, "offer.find")
  /\ IF Pending # {} THEN Finish(r) ELSE Goto(r, "offer.create")
  /\ UNCHANGED <<tx, offers, proof, accepted, started, failures>>

\* Nobody is asked twice, and no two people at a time.
OfferFind(r) ==
  /\ At(r, "offer.find")
  /\ IF Pending # {} THEN Finish(r)
     ELSE req' = [req EXCEPT ![r].pc = "offer.create",
                             ![r].exclude = @ \cup {offers[n].agent : n \in DOMAIN offers}]
  /\ UNCHANGED <<tx, offers, proof, accepted, started, failures>>

\* What the search may answer: some available agents, in order of their score.
Hits(exclude) ==
  {hits \in UNION {[1..n -> Agents \ exclude] : n \in 1..Cardinality(Agents \ exclude)} :
     \A i, j \in DOMAIN hits : hits[i] = hits[j] => i = j}

OfferCreate(r) ==
  /\ At(r, "offer.create")
  /\ \/ UNCHANGED offers   \* the search finds nobody, or nobody to be notified
     \/ \E hits \in Hits(req[r].exclude) : Deliver(Head(hits), Tail(hits))
  /\ Finish(r)
  /\ UNCHANGED <<tx, proof, accepted, started, failures>>

OfferAssignment(r) == OfferLoad(r) \/ OfferExpire(r) \/ OfferFind(r) \/ OfferCreate(r)

----------------------------------------------------------------------------
(* The proof of identity, from the provider's callback to its only use.    *)

VerifyIdentity(p, a, ref) ==
  /\ proof[p].state = "none"
  /\ proof' = [proof EXCEPT ![p] = [state |-> "valid", agent |-> a, ref |-> ref]]
  /\ UNCHANGED <<tx, offers, accepted, req, started, failures>>

\* Mutant: the proof is looked up and not marked.
ConsumeNothing(p, a, ref) ==
  proof[p] = [state |-> "valid", agent |-> a, ref |-> ref] /\ UNCHANGED proof

\* consumeAcceptJobProof finds and marks it in one call of the database.
Consume(p, a, ref) ==
  /\ proof[p] = [state |-> "valid", agent |-> a, ref |-> ref]
  /\ proof' = [proof EXCEPT ![p] = Spent]

\* The agent becomes an accepted intermediary with the proof of the request.
Counted(r) == accepted' = [accepted EXCEPT ![req[r].proof] = @ + 1]

\* advanceToInProgressOnAgentAccept, on the status of the copy.
Advanced(r) == IF req[r].status = "FUNDED" THEN "IN_PROGRESS" ELSE tx.status

\* The schema counts the participants of the copy and the new one.
HasRoom(mediators) == Parties + Len(mediators) < Limit

\* Mutant: the participants are written back as the copy has them.
MediatesInCopy(r) ==
  tx' = [status |-> Advanced(r),
         mediators |-> Append(req[r].mediators, [agent |-> req[r].agent, state |-> "ACCEPTED"])]

\* participants.push adds to whatever is stored by now.
Mediates(r) ==
  tx' = [status |-> Advanced(r),
         mediators |-> Append(tx.mediators, [agent |-> req[r].agent, state |-> "ACCEPTED"])]

----------------------------------------------------------------------------
(* acceptOffer.                                                            *)

StartAccept(r, n, p) ==
  /\ Consume(p, offers[n].agent, n)
  /\ Receive(r, [IdleRequest EXCEPT !.pc = "sweep.find", !.then = "accept.load",
                                    !.agent = offers[n].agent, !.offer = n, !.proof = p])
  /\ UNCHANGED <<tx, offers, accepted, failures>>

AcceptLoad(r) ==
  /\ At(r, "accept.load")
  /\ LET n == req[r].offer IN
       IF n \notin Pending THEN Finish(r)
       ELSE IF offers[n].late
         THEN req' = [req EXCEPT ![r].pc = "sweep.save", ![r].due = {n}, ![r].then = "idle"]
         ELSE Goto(r, "accept.tx")
  /\ UNCHANGED <<tx, offers, proof, accepted, started, failures>>

\* Neither the status of the operation nor whether the agent is a party of it
\* is looked at.
AcceptTx(r) ==
  /\ At(r, "accept.tx")
  /\ IF Taken(tx.mediators) THEN Finish(r)
     ELSE req' = [req EXCEPT ![r].pc = "accept.save", ![r].status = tx.status,
                             ![r].mediators = tx.mediators]
  /\ UNCHANGED <<tx, offers, proof, accepted, started, failures>>

\* Mutant: a copy without room only skips the participant.
AcceptSaveAnyway(r) ==
  /\ At(r, "accept.save")
  /\ \/ ~HasRoom(req[r].mediators) /\ UNCHANGED <<tx, accepted>>
     \/ HasRoom(req[r].mediators) /\ Mediates(r) /\ Counted(r)
  /\ Goto(r, "accept.offer")
  /\ UNCHANGED <<offers, proof, started, failures>>

AcceptSave(r) ==
  /\ At(r, "accept.save")
  /\ \/ ~HasRoom(req[r].mediators) /\ Finish(r) /\ UNCHANGED <<tx, accepted>>
     \/ HasRoom(req[r].mediators) /\ Mediates(r) /\ Counted(r) /\ Goto(r, "accept.offer")
  /\ UNCHANGED <<offers, proof, started, failures>>

AcceptOffer(r) ==
  /\ At(r, "accept.offer")
  /\ Answer(req[r].offer, "ACCEPTED")
  /\ Finish(r)
  /\ UNCHANGED <<tx, proof, accepted, started, failures>>

Accepting(r) == AcceptLoad(r) \/ AcceptTx(r) \/ AcceptSave(r) \/ AcceptOffer(r)

----------------------------------------------------------------------------
(* rejectOffer by the agent, reassign by a party.                          *)

StartReject(r, n) ==
  /\ Receive(r, [IdleRequest EXCEPT !.pc = "sweep.find", !.then = "reject.load", !.offer = n])
  /\ UNCHANGED <<tx, offers, proof, accepted, failures>>

RejectLoad(r) ==
  /\ At(r, "reject.load")
  /\ IF req[r].offer \in Pending THEN Goto(r, "reject.save") ELSE Finish(r)
  /\ UNCHANGED <<tx, offers, proof, accepted, started, failures>>

\* The offer is answered, and then passed on.
PassOn(r) ==
  /\ Answer(req[r].offer, "CLOSED")
  /\ req' = [req EXCEPT ![r] = [IdleRequest EXCEPT !.pc = "chain", !.current = req[r].offer]]
  /\ UNCHANGED <<tx, proof, accepted, started, failures>>

RejectSave(r) == At(r, "reject.save") /\ PassOn(r)

StartReassign(r) ==
  /\ \E n \in Pending : Receive(r, [IdleRequest EXCEPT !.pc = "reassign.save", !.offer = n])
  /\ UNCHANGED <<tx, offers, proof, accepted, failures>>

ReassignSave(r) == At(r, "reassign.save") /\ PassOn(r)

PassingOn(r) == RejectLoad(r) \/ RejectSave(r) \/ ReassignSave(r)

----------------------------------------------------------------------------
(* acceptOpenJob and withdrawFromJob.                                      *)

\* isOpenJobStatusForFundingMode, in AGENT_FEE_ONLY.
OpenStatuses == {"ACCEPTED", "FUNDED", "IN_PROGRESS", "DISPUTED"}

StartOpenJob(r, a, p) ==
  /\ Consume(p, a, 0)
  /\ Receive(r, [IdleRequest EXCEPT !.pc = "open.load", !.agent = a, !.proof = p])
  /\ UNCHANGED <<tx, offers, accepted, failures>>

OpenLoad(r) ==
  /\ At(r, "open.load")
  /\ IF \/ tx.status \notin OpenStatuses
        \/ Taken(tx.mediators)
        \/ req[r].agent \in PartyAgents
     THEN Finish(r)
     ELSE req' = [req EXCEPT ![r].pc = "open.save", ![r].status = tx.status,
                             ![r].mediators = tx.mediators]
  /\ UNCHANGED <<tx, offers, proof, accepted, started, failures>>

\* Where the agent is among the mediators of a copy, in a given state.
Places(mediators, a, state) ==
  {i \in DOMAIN mediators : mediators[i] = [agent |-> a, state |-> state]}

\* A former agent gets the old place back; another one needs a new one.
OpenSave(r) ==
  /\ At(r, "open.save")
  /\ LET former == Places(req[r].mediators, req[r].agent, "REMOVED") IN
       \/ /\ former # {}
          /\ tx' = [status |-> Advanced(r),
                    mediators |-> [tx.mediators EXCEPT ![Least(former)].state = "ACCEPTED"]]
          /\ Counted(r)
       \/ former = {} /\ HasRoom(req[r].mediators) /\ Mediates(r) /\ Counted(r)
       \/ ~HasRoom(req[r].mediators) /\ UNCHANGED <<tx, accepted>>
  /\ Finish(r)
  /\ UNCHANGED <<offers, proof, started, failures>>

\* ACTIVE_AGENT_JOB_STATUSES.
ActiveStatuses == OpenStatuses \cup {"WAITING_PARTICIPANT"}

StartWithdraw(r, a) ==
  /\ tx.status \in ActiveStatuses
  /\ Places(tx.mediators, a, "ACCEPTED") # {}
  /\ Receive(r, [IdleRequest EXCEPT !.pc = "withdraw.save", !.agent = a,
                                    !.mediators = tx.mediators])
  /\ UNCHANGED <<tx, offers, proof, accepted, failures>>

\* Mutant: the former agent is looked up once the request is over.
WithdrawSaveForgets(r) ==
  /\ At(r, "withdraw.save")
  /\ LET place == Least(Places(req[r].mediators, req[r].agent, "ACCEPTED")) IN
       tx' = [tx EXCEPT !.mediators[place].state = "REMOVED"]
  /\ req' = [req EXCEPT ![r] = [IdleRequest EXCEPT !.pc = "offer.load",
                                                   !.exclude = {IdleRequest.agent}]]
  /\ UNCHANGED <<offers, proof, accepted, started, failures>>

\* The job is offered again if the operation has a place to meet.
WithdrawSave(r) ==
  /\ At(r, "withdraw.save")
  /\ LET place == Least(Places(req[r].mediators, req[r].agent, "ACCEPTED")) IN
       tx' = [tx EXCEPT !.mediators[place].state = "REMOVED"]
  /\ \/ Finish(r)
     \/ req' = [req EXCEPT ![r] = [IdleRequest EXCEPT !.pc = "offer.load",
                                                      !.exclude = {req[r].agent}]]
  /\ UNCHANGED <<offers, proof, accepted, started, failures>>

OpenJobs(r) == OpenLoad(r) \/ OpenSave(r) \/ WithdrawSave(r)

----------------------------------------------------------------------------
(* The rest of the program moves the operation along; an offer gets old.   *)

Progress ==
  /\ \E status \in Reached :
       Machine!CanTransition(tx.status, status) /\ tx' = [tx EXCEPT !.status = status]
  /\ UNCHANGED <<offers, proof, accepted, req, started, failures>>

TimePasses(n) ==
  /\ n \in Pending /\ ~offers[n].late
  /\ offers' = [offers EXCEPT ![n].late = TRUE]
  /\ UNCHANGED <<tx, proof, accepted, req, started, failures>>

Step(r) == Sweep(r) \/ OfferAssignment(r) \/ Accepting(r) \/ PassingOn(r) \/ OpenJobs(r)

Requested(r) ==
  \/ StartOffer(r)
  \/ StartReassign(r)
  \/ \E n \in DOMAIN offers : StartReject(r, n)
  \/ \E n \in DOMAIN offers, p \in Proofs : StartAccept(r, n, p)
  \/ \E a \in Agents, p \in Proofs : StartOpenJob(r, a, p)
  \/ \E a \in Agents : StartWithdraw(r, a)

Next ==
  \/ Progress
  \/ \E n \in DOMAIN offers : TimePasses(n)
  \/ \E p \in Proofs, a \in Agents : VerifyIdentity(p, a, 0)
  \/ \E p \in Proofs, n \in DOMAIN offers : VerifyIdentity(p, offers[n].agent, n)
  \/ StartSweep(Timer)
  \/ \E r \in Requests : Requested(r) \/ Step(r) \/ Abandon(r)

\* An await ends, time passes, and the timer fires every 15 seconds, whatever
\* else there is to do.
Fairness ==
  /\ SF_vars(StartSweep(Timer))
  /\ \A r \in Requests : WF_vars(Step(r))
  /\ WF_vars(\E n \in DOMAIN offers : TimePasses(n))

Spec == Init /\ [][Next]_vars /\ Fairness

----------------------------------------------------------------------------
TypeOK ==
  /\ tx \in [status : Machine!Statuses, mediators : Mediators]
  /\ offers \in Seq(Offers)
  /\ proof \in [Proofs -> ProofStates]
  /\ accepted \in [Proofs -> Nat]
  /\ req \in [Requests -> RequestStates]
  /\ started \in Nat /\ failures \in Nat

(***************************************************************************)
(* A proof of identity lets its agent take one job, once, however many     *)
(* acceptances are tried with it at the same time.                         *)
(***************************************************************************)
ProofSpentOnce ==
  \A p \in Proofs : accepted[p] <= 1 /\ (accepted[p] = 1 => proof[p].state = "spent")

(***************************************************************************)
(* Whoever reads of an accepted offer finds its agent in the operation:    *)
(* the operation is saved before the notification.                         *)
(***************************************************************************)
AcceptedOfferHasAgent ==
  \A n \in DOMAIN offers :
    offers[n].answer = "ACCEPTED" =>
      \E i \in DOMAIN tx.mediators : tx.mediators[i].agent = offers[n].agent

(***************************************************************************)
(* The operation remembers everybody who has ever mediated it, in order,   *)
(* whoever accepts or leaves at the same time.                             *)
(***************************************************************************)
MediatorsAreKept ==
  [][\A i \in DOMAIN tx.mediators :
       i \in DOMAIN tx.mediators' /\ tx.mediators'[i].agent = tx.mediators[i].agent]_vars

(***************************************************************************)
(* Once people make no more requests, every offer ends, for good: its      *)
(* agent has answered it, or a sweep finds it, although sweeps throw, die  *)
(* and overlap, and each passes the job on to somebody else.               *)
(***************************************************************************)
NoOfferPendsForever == <>[](Pending = {})

(***************************************************************************)
(* While requests do not overlap, nobody is asked twice: neither a new     *)
(* offer nor the queue of an old one comes back to an agent who has not    *)
(* answered, has refused or has left.                                      *)
(***************************************************************************)
NobodyIsAskedTwice ==
  \A m, n \in DOMAIN offers : offers[m].agent = offers[n].agent => m = n

=============================================================================
