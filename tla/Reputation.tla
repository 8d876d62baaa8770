----------------------------- MODULE Reputation -----------------------------
(***************************************************************************)
(* Reviews of the people of a completed operation and what they add up to  *)
(* (reviews/service.ts, reviews/scoring.ts).  A review is stored once for  *)
(* an operation, reviewer and reviewee; the reviewee's overall rating, the *)
(* rating in the role and the counters are kept beside the reviews and     *)
(* updated after them, on a copy of the user.                              *)
(*                                                                         *)
(* The weight of a review and the score computed from the counters are     *)
(* left out: no decision of the program depends on them.                   *)
(***************************************************************************)
EXTENDS Integers, FiniteSets, FiniteSetsExt

CONSTANTS
  Requests,     \* slots for requests in flight at the same time
  People,
  Operations,
  Party,        \* who has which role in each operation
  Ratings,      \* the ratings that are given
  Asked,        \* bound: who is asked to review whom, where and how
  RapidFire,    \* reviews within ten minutes that make the next one suspicious
  OneAtATime,   \* bound: whether two updates of one user's counters never overlap
  Past,         \* the operations that were completed before
  MaxReviews    \* bound: reviews that are stored

Roles == {"BUYER", "SELLER", "AGENT"}

ASSUME PartyAssumption ==
  /\ Party \in [Operations -> [Roles -> People]]
  /\ \A o \in Operations : \A i, j \in Roles : Party[o][i] = Party[o][j] => i = j

\* Whoever has a role may review who has another.
ALLOWED_REVIEW_PAIRS == {pair \in Roles \X Roles : pair[1] # pair[2]}

ASSUME AskedAssumption == Asked \subseteq Operations \X ALLOWED_REVIEW_PAIRS \X Ratings

ASSUME RatingsAssumption == Ratings \subseteq 1..5 /\ RapidFire \in Nat /\ OneAtATime \in BOOLEAN

ASSUME PastAssumption == Past \subseteq Operations /\ IsFiniteSet(Past)

VARIABLES
  operations,  \* completed or not, and whether reviews are still taken
  reviews,     \* the reviews
  users,       \* the ratings and counters of each user
  req          \* the requests in flight

vars == <<operations, reviews, users, req>>

----------------------------------------------------------------------------
\* applyRatingIncrement: count, sum and distribution.
Tallies == [count : Nat, sum : Nat, dist : [Ratings -> Nat]]

NoTally == [count |-> 0, sum |-> 0, dist |-> [n \in Ratings |-> 0]]

Plus(tally, rating) ==
  [count |-> tally.count + 1, sum |-> tally.sum + rating,
   dist |-> [tally.dist EXCEPT ![rating] = @ + 1]]

\* rating, roleRatings, and reviewsReceived, reviewsGiven and
\* completedTransactions of the statistics.
Users ==
  [overall : Tallies, roles : [Roles -> Tallies],
   received : Nat, given : Nat, completed : Nat]

NewUser ==
  [overall |-> NoTally, roles |-> [k \in Roles |-> NoTally],
   received |-> 0, given |-> 0, completed |-> 0]

\* How long ago a review was created: less than ten minutes, two hours, or more.
Ages == 0..2

Reviews ==
  [operation : Operations, from : Roles, to : Roles, rating : Ratings,
   public : BOOLEAN, age : Ages]

Reviewer(x) == Party[x.operation][x.from]

Reviewee(x) == Party[x.operation][x.to]

\* What makes two reviews the same to the unique index.
SameReview(x, y) == x.operation = y.operation /\ x.from = y.from /\ x.to = y.to

Steps == {"idle", "find", "flags", "create", "load", "save", "given",
          "hook.load", "hook.save"}

SomeReview ==
  [operation |-> CHOOSE o \in Operations : TRUE, from |-> "BUYER", to |-> "SELLER",
   rating |-> CHOOSE n \in Ratings : TRUE, public |-> TRUE, age |-> 0]

IdleRequest ==
  [pc |-> "idle", review |-> SomeReview, left |-> {}, copy |-> NewUser]

Init ==
  /\ operations = [o \in Operations |-> [completed |-> o \in Past, open |-> o \in Past]]
  /\ reviews = {}
  /\ users = [p \in People |->
       [NewUser EXCEPT !.completed =
          Cardinality({o \in Past : \E k \in Roles : Party[o][k] = p})]]
  /\ req = [r \in Requests |-> IdleRequest]

At(r, step) == req[r].pc = step

Goto(r, step) == req' = [req EXCEPT ![r].pc = step]

Begin(r, request) == req[r].pc = "idle" /\ req' = [req EXCEPT ![r] = request]

Finish(r) == req' = [req EXCEPT ![r] = IdleRequest]

----------------------------------------------------------------------------
(* createReview.                                                           *)

StartReview(r) ==
  \E ask \in Asked :
    /\ operations[ask[1]].completed /\ operations[ask[1]].open
    /\ Begin(r, [IdleRequest EXCEPT !.pc = "find",
                   !.review = [operation |-> ask[1], from |-> ask[2][1], to |-> ask[2][2],
                               rating |-> ask[3], public |-> TRUE, age |-> 0]])
    /\ UNCHANGED <<operations, reviews, users>>

Duplicate(r) == \E x \in reviews : SameReview(x, req[r].review)

ReviewFind(r) ==
  /\ At(r, "find")
  /\ IF Duplicate(r) THEN Finish(r) ELSE Goto(r, "flags")
  /\ UNCHANGED <<operations, reviews, users>>

\* detectFraudFlags: the reviewee has just given the reviewer the same rating.
Reciprocal(x, y) ==
  /\ x.operation = y.operation /\ x.from = y.to /\ x.to = y.from
  /\ x.rating = y.rating
  /\ x.age < 2

\* computeReviewWeight: with both flags a review waits for moderation, so that
\* the order of the two queries does not matter.
ReviewFlags(r) ==
  /\ At(r, "flags")
  /\ LET review == req[r].review
         recent == {x \in reviews : Reviewer(x) = Reviewer(review) /\ x.age = 0}
         suspicious == /\ \E x \in reviews : Reciprocal(x, review)
                       /\ Cardinality(recent) >= RapidFire
     IN req' = [req EXCEPT ![r].pc = "create", ![r].review.public = ~suspicious]
  /\ UNCHANGED <<operations, reviews, users>>

\* Mutant: the duplicate found before is all that counts.
ReviewCreateAgain(r) ==
  /\ At(r, "create")
  /\ Cardinality(reviews) < MaxReviews
  /\ reviews' = reviews \cup {req[r].review}
  /\ Goto(r, IF req[r].review.public THEN "load" ELSE "given")
  /\ UNCHANGED <<operations, users>>

\* The unique index refuses a second one.
ReviewCreate(r) ==
  /\ At(r, "create")
  /\ Cardinality(reviews) < MaxReviews
  /\ IF Duplicate(r)
       THEN Finish(r) /\ UNCHANGED reviews
       ELSE /\ reviews' = reviews \cup {req[r].review}
            /\ Goto(r, IF req[r].review.public THEN "load" ELSE "given")
  /\ UNCHANGED <<operations, users>>

\* Nobody else is between loading and saving the same person.
Apart(r, p, step) ==
  OneAtATime => \A s \in Requests \ {r} : At(s, step) => Reviewee(req[s].review) # p

\* applyReviewAggregates
AggregateLoad(r) ==
  /\ At(r, "load")
  /\ Apart(r, Reviewee(req[r].review), "save")
  /\ req' = [req EXCEPT ![r].pc = "save", ![r].copy = users[Reviewee(req[r].review)]]
  /\ UNCHANGED <<operations, reviews, users>>

AggregateSave(r) ==
  LET x == req[r].review
      p == Reviewee(x)
  IN /\ At(r, "save")
     /\ users' = [users EXCEPT
          ![p].overall = Plus(req[r].copy.overall, x.rating),
          ![p].roles[x.to] = Plus(req[r].copy.roles[x.to], x.rating),
          ![p].received = req[r].copy.received + 1]
     /\ req' = [req EXCEPT ![r].pc = "given", ![r].copy = NewUser]
     /\ UNCHANGED <<operations, reviews>>

\* $inc of reviewsGiven.
CountGiven(r) ==
  /\ At(r, "given")
  /\ users' = [users EXCEPT ![Reviewer(req[r].review)].given = @ + 1]
  /\ Finish(r)
  /\ UNCHANGED <<operations, reviews>>

----------------------------------------------------------------------------
(* onTransactionCompleted, which the release of an operation starts: the   *)
(* counters of each party in turn.                                         *)

Complete(r, o) ==
  /\ ~operations[o].completed
  /\ operations' = [operations EXCEPT ![o] = [completed |-> TRUE, open |-> TRUE]]
  /\ Begin(r, [IdleRequest EXCEPT !.pc = "hook.load", !.review.operation = o, !.left = Roles])
  /\ UNCHANGED <<reviews, users>>

\* The party whose turn it is: the buyer, the seller, then the agent.
Turn(left) ==
  IF "BUYER" \in left THEN "BUYER" ELSE IF "SELLER" \in left THEN "SELLER" ELSE "AGENT"

HookParty(r) == Party[req[r].review.operation][Turn(req[r].left)]

HookLoad(r) ==
  /\ At(r, "hook.load")
  /\ OneAtATime => \A s \in Requests \ {r} : At(s, "hook.save") => HookParty(s) # HookParty(r)
  /\ req' = [req EXCEPT ![r].pc = "hook.save", ![r].copy = users[HookParty(r)]]
  /\ UNCHANGED <<operations, reviews, users>>

HookSave(r) ==
  /\ At(r, "hook.save")
  /\ users' = [users EXCEPT ![HookParty(r)].completed = req[r].copy.completed + 1]
  /\ LET left == req[r].left \ {Turn(req[r].left)}
     IN req' = [req EXCEPT ![r] = IF left = {} THEN IdleRequest
                                  ELSE [@ EXCEPT !.pc = "hook.load", !.left = left, !.copy = NewUser]]
  /\ UNCHANGED <<operations, reviews>>

----------------------------------------------------------------------------
\* Ten minutes, or two hours.
TimePasses ==
  \E age \in Ages :
    /\ \E x \in reviews : x.age < age
    /\ reviews' = {[x EXCEPT !.age = IF @ < age THEN age ELSE @] : x \in reviews}
    /\ UNCHANGED <<operations, users, req>>

\* REVIEW_WINDOW_DAYS.  Bound: nobody has reviewed in the last two hours.
WindowCloses(o) ==
  /\ operations[o].open
  /\ \A x \in reviews : x.age = 2
  /\ operations' = [operations EXCEPT ![o].open = FALSE]
  /\ UNCHANGED <<reviews, users, req>>

Next ==
  \/ \E r \in Requests :
       \/ StartReview(r) \/ ReviewFind(r) \/ ReviewFlags(r)
       \/ ReviewCreate(r) \/ AggregateLoad(r) \/ AggregateSave(r) \/ CountGiven(r)
       \/ \E o \in Operations : Complete(r, o)
       \/ HookLoad(r) \/ HookSave(r)
  \/ TimePasses
  \/ \E o \in Operations : WindowCloses(o)

Spec == Init /\ [][Next]_vars

----------------------------------------------------------------------------
\* What a set of reviews adds up to.
Tally(some) ==
  [count |-> Cardinality(some),
   sum |-> SumFunctionOnSet([x \in some |-> x.rating], some),
   dist |-> [n \in Ratings |-> Cardinality({x \in some : x.rating = n})]]

\* The public reviews a person has received, but for those still to be added.
Counted(p) ==
  {x \in reviews :
     /\ Reviewee(x) = p /\ x.public
     /\ \A r \in Requests :
          req[r].pc \in {"load", "save"} => ~SameReview(x, req[r].review)}

RatingsTellReviews ==
  \A p \in People :
    /\ users[p].overall = Tally(Counted(p))
    /\ \A k \in Roles : users[p].roles[k] = Tally({x \in Counted(p) : x.to = k})
    /\ users[p].received = Cardinality(Counted(p))

\* Whom a person has reviewed where, but for what is still to be counted.
Given(p) ==
  {<<x.operation, x.to>> : x \in {y \in reviews :
     /\ Reviewer(y) = p
     /\ \A r \in Requests :
          req[r].pc \in {"load", "save", "given"} => ~SameReview(y, req[r].review)}}

CompletedBy(p) ==
  {o \in Operations :
     /\ operations[o].completed
     /\ \E k \in Roles :
          /\ Party[o][k] = p
          /\ \A r \in Requests :
               req[r].pc \in {"hook.load", "hook.save"} /\ req[r].review.operation = o =>
                 k \notin req[r].left}

CountersTellHistory ==
  \A p \in People :
    /\ users[p].given = Cardinality(Given(p))
    /\ users[p].completed = Cardinality(CompletedBy(p))

\* The ratings and counters of every user are what the reviews and the completed
\* operations say, each review counted once and in the role it was given in, while
\* reviews, repeated submissions and completions interleave; what is moderated
\* counts as given only (reviews/service.ts:371-406, 467-530).
ReputationTellsHistory == RatingsTellReviews /\ CountersTellHistory

=============================================================================
