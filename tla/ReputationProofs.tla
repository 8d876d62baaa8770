-------------------------- MODULE ReputationProofs --------------------------
(***************************************************************************)
(* What the ratings and counters of a user say, proved of Reputation for   *)
(* any people, operations, ratings and number of requests, under the bound *)
(* OneAtATime: the copy of a user that a request saves has been loaded     *)
(* after whatever was saved before.                                        *)
(***************************************************************************)
EXTENDS Reputation, SumTheorems

----------------------------------------------------------------------------
(* The inductive invariant.                                                *)

\* A request that has not begun carries SomeReview.
ReviewFields ==
  [operation : Operations \cup {SomeReview.operation}, from : Roles, to : Roles,
   rating : Ratings \cup {SomeReview.rating}, public : BOOLEAN, age : Ages]

RequestFields ==
  [pc : Steps, review : ReviewFields, left : SUBSET Roles, copy : Users]

RepTypes ==
  /\ operations \in [Operations -> [completed : BOOLEAN, open : BOOLEAN]]
  /\ reviews \subseteq Reviews /\ IsFiniteSet(reviews)
  /\ users \in [People -> Users]
  /\ req \in [Requests -> RequestFields]

Reviewing == {"find", "flags", "create", "load", "save", "given"}

\* The review of such a request has been stored.
Stored == {"load", "save", "given"}

Hooking == {"hook.load", "hook.save"}

\* The unique index.
ReviewsUnique == \A x, y \in reviews : SameReview(x, y) => x = y

\* What a request with a review knows.
ReviewKnown(q) ==
  /\ q.pc \in Reviewing => q.review \in Reviews
  /\ q.pc \in Stored =>
       \E x \in reviews : /\ SameReview(x, q.review) /\ x.rating = q.review.rating
                          /\ q.pc \in {"load", "save"} => x.public
  /\ q.pc = "save" =>
       LET u == users[Reviewee(q.review)] IN
         /\ q.copy.overall = u.overall /\ q.copy.roles = u.roles
         /\ q.copy.received = u.received

\* What one that counts a completed operation knows.
HookKnown(q) ==
  /\ q.pc \in Hooking => /\ q.review.operation \in Operations
                         /\ operations[q.review.operation].completed
                         /\ q.left # {}
  /\ q.pc = "hook.save" =>
       q.copy.completed = users[Party[q.review.operation][Turn(q.left)]].completed

\* No two requests count the same, nor work on the same user.
OwnWork ==
  \A r, s \in Requests : r # s =>
    /\ req[r].pc \in Stored /\ req[s].pc \in Stored => ~SameReview(req[r].review, req[s].review)
    /\ At(r, "save") /\ At(s, "save") => Reviewee(req[r].review) # Reviewee(req[s].review)
    /\ req[r].pc \in Hooking /\ req[s].pc \in Hooking =>
         req[r].review.operation # req[s].review.operation
    /\ At(r, "hook.save") /\ At(s, "hook.save") => HookParty(r) # HookParty(s)

\* Only so many operations have been completed.
CompletedFinite == IsFiniteSet({o \in Operations : operations[o].completed})

RepInv ==
  /\ RepTypes
  /\ ReviewsUnique
  /\ \A r \in Requests : ReviewKnown(req[r]) /\ HookKnown(req[r])
  /\ OwnWork
  /\ CompletedFinite
  /\ ReputationTellsHistory

----------------------------------------------------------------------------
(* What reviews add up to.                                                 *)

\* No review adds up to nothing.
LEMMA TallyEmpty == Tally({}) = NoTally
<1>1. Cardinality({}) = 0 /\ SumFunctionOnSet([x \in {} |-> x.rating], {}) = 0
  BY FS_EmptySet, SumEmpty
<1>2. \A n \in Ratings : {x \in {} : x.rating = n} = {}
  OBVIOUS
<1>3. QED
  BY <1>1, <1>2 DEF Tally, NoTally

\* Ratings are numbers.
LEMMA RatingType == \A n \in Ratings : n \in Nat
BY RatingsAssumption

\* A new review adds its rating.
LEMMA TallyAdd ==
  ASSUME NEW S, IsFiniteSet(S), \A x \in S : x.rating \in Ratings,
         NEW y, y \notin S, y.rating \in Ratings
  PROVE  Tally(S \cup {y}) = Plus(Tally(S), y.rating)
<1> DEFINE f == [x \in S |-> x.rating]
           g == [x \in S \cup {y} |-> x.rating]
           Of(T, n) == {x \in T : x.rating = n}
<1>1. Cardinality(S \cup {y}) = Cardinality(S) + 1
  BY FS_AddElement
<1>2. SumFunctionOnSet(g, S \cup {y}) = SumFunctionOnSet(f, S) + y.rating
  <2>1. (\A x \in S : g[x] = f[x]) /\ g[y] = y.rating /\ \A x \in S \cup {y} : g[x] \in Int
    BY RatingType
  <2> HIDE DEF f, g
  <2>2. SumFunctionOnSet(g, S \cup {y}) = SumFunctionOnSet(g, S) + g[y]
    BY <2>1, SumAdd
  <2>3. SumFunctionOnSet(g, S) = SumFunctionOnSet(f, S)
    BY <2>1, SumSame
  <2>4. QED
    BY <2>1, <2>2, <2>3
<1>3. ASSUME NEW n \in Ratings
      PROVE  Cardinality(Of(S \cup {y}, n)) =
               IF n = y.rating THEN Cardinality(Of(S, n)) + 1 ELSE Cardinality(Of(S, n))
  <2>1. IsFiniteSet(Of(S, n)) /\ y \notin Of(S, n)
    BY FS_Subset
  <2>2. CASE n = y.rating
    <3>1. Of(S \cup {y}, n) = Of(S, n) \cup {y}
      BY <2>2
    <3> HIDE DEF Of
    <3>2. QED
      BY <2>1, <2>2, <3>1, FS_AddElement
  <2>3. CASE n # y.rating
    <3>1. Of(S \cup {y}, n) = Of(S, n)
      BY <2>3
    <3>2. QED
      BY <2>3, <3>1
  <2>4. QED
    BY <2>2, <2>3
<1>4. Tally(S) = [count |-> Cardinality(S), sum |-> SumFunctionOnSet(f, S),
                  dist |-> [n \in Ratings |-> Cardinality(Of(S, n))]]
  BY DEF Tally
<1>5. Tally(S \cup {y}) = [count |-> Cardinality(S \cup {y}), sum |-> SumFunctionOnSet(g, S \cup {y}),
                           dist |-> [n \in Ratings |-> Cardinality(Of(S \cup {y}, n))]]
  BY DEF Tally
<1> DEFINE d == [n \in Ratings |-> Cardinality(Of(S, n))]
           e == [n \in Ratings |-> Cardinality(Of(S \cup {y}, n))]
<1>6. e = [d EXCEPT ![y.rating] = @ + 1]
  <2>1. ASSUME NEW n \in Ratings PROVE e[n] = [d EXCEPT ![y.rating] = @ + 1][n]
    BY <1>3
  <2>2. DOMAIN e = Ratings /\ DOMAIN [d EXCEPT ![y.rating] = @ + 1] = Ratings
    OBVIOUS
  <2> DEFINE z == [d EXCEPT ![y.rating] = @ + 1]
  <2>3. e = [n \in Ratings |-> e[n]] /\ z = [n \in Ratings |-> z[n]]
    OBVIOUS
  <2> HIDE DEF e, d
  <2>4. QED
    BY <2>1, <2>3
<1> HIDE DEF d, e, f, g
<1>7. Tally(S) = [count |-> Cardinality(S), sum |-> SumFunctionOnSet(f, S), dist |-> d]
  BY <1>4 DEF d
<1>8. Tally(S \cup {y}) = [count |-> Cardinality(S) + 1, sum |-> SumFunctionOnSet(f, S) + y.rating,
                           dist |-> [d EXCEPT ![y.rating] = @ + 1]]
  BY <1>1, <1>2, <1>5, <1>6 DEF e
<1>9. QED
  BY <1>7, <1>8 DEF Plus

\* As many as before, under other names.
LEMMA SameSize ==
  ASSUME NEW S, IsFiniteSet(S), NEW h, \A x, y \in S : h[x] = h[y] => x = y
  PROVE  IsFiniteSet({h[x] : x \in S}) /\ Cardinality({h[x] : x \in S}) = Cardinality(S)
<1> DEFINE T == {h[x] : x \in S}
           f == [x \in S |-> h[x]]
<1>1. f \in Bijection(S, T)
  <2>1. f \in [S -> T] /\ \A x \in S : f[x] = h[x]
    OBVIOUS
  <2>2. \A y \in T : \E x \in S : f[x] = y
    BY <2>1
  <2>3. \A x, y \in S : f[x] = f[y] => x = y
    BY <2>1
  <2> HIDE DEF f, T
  <2>4. QED
    BY <2>1, <2>2, <2>3 DEF Bijection, Injection, Surjection, IsInjective
<1> HIDE DEF f, T
<1>2. ExistsBijection(S, T)
  BY <1>1 DEF ExistsBijection
<1>3. IsFiniteSet(T) /\ Cardinality(T) = Cardinality(S)
  BY <1>2, FS_Bijection
<1>4. QED
  BY <1>3 DEF T

\* The same reviews, older.
LEMMA TallyOlder ==
  ASSUME NEW S, IsFiniteSet(S), NEW h, \A x, y \in S : h[x] = h[y] => x = y,
         \A x \in S : x.rating \in Ratings /\ h[x].rating = x.rating
  PROVE  Tally({h[x] : x \in S}) = Tally(S)
<1> DEFINE T == {h[x] : x \in S}
           f == [x \in S |-> x.rating]
           g == [x \in T |-> x.rating]
<1>1. Cardinality(T) = Cardinality(S)
  BY SameSize
<1>2. SumFunctionOnSet(g, T) = SumFunctionOnSet(f, S)
  <2>1. \A x \in S : f[x] \in Int /\ g[h[x]] = f[x]
    BY RatingType
  <2> HIDE DEF f, g
  <2>2. QED
    BY <2>1, SumRenamed
<1>3. ASSUME NEW n \in Ratings
      PROVE  Cardinality({x \in T : x.rating = n}) = Cardinality({x \in S : x.rating = n})
  <2> DEFINE R == {x \in S : x.rating = n}
  <2>1. {x \in T : x.rating = n} = {h[x] : x \in R}
    OBVIOUS
  <2>2. IsFiniteSet(R) /\ \A x, y \in R : h[x] = h[y] => x = y
    BY FS_Subset
  <2> HIDE DEF R
  <2>3. Cardinality({h[x] : x \in R}) = Cardinality(R)
    BY <2>2, SameSize
  <2>4. QED
    BY <2>1, <2>3 DEF R
<1>4. Tally(T) = [count |-> Cardinality(T), sum |-> SumFunctionOnSet(g, T),
                  dist |-> [n \in Ratings |-> Cardinality({x \in T : x.rating = n})]]
  BY DEF Tally
<1>5. Tally(S) = [count |-> Cardinality(S), sum |-> SumFunctionOnSet(f, S),
                  dist |-> [n \in Ratings |-> Cardinality({x \in S : x.rating = n})]]
  BY DEF Tally
<1> HIDE DEF T, f, g
<1>6. QED
  BY <1>1, <1>2, <1>3, <1>4, <1>5 DEF T

----------------------------------------------------------------------------
(* Steps that count nothing.                                               *)

\* What user u should say: reviews C are counted, G given, operations O completed.
Tells(u, C, G, O) ==
  /\ u.overall = Tally(C) /\ \A k \in Roles : u.roles[k] = Tally({x \in C : x.to = k})
  /\ u.received = Cardinality(C)
  /\ u.given = Cardinality(G) /\ u.completed = Cardinality(O)

\* Every user says it.
LEMMA TellsAll ==
  ReputationTellsHistory <=>
    \A p \in People : Tells(users[p], Counted(p), Given(p), CompletedBy(p))
BY DEF ReputationTellsHistory, RatingsTellReviews, CountersTellHistory, Tells

\* Every user says it after the step.
LEMMA TellsNext ==
  ASSUME \A p \in People : Tells(users'[p], Counted(p)', Given(p)', CompletedBy(p)')
  PROVE  ReputationTellsHistory'
BY DEF ReputationTellsHistory, RatingsTellReviews, CountersTellHistory, Tells, Tally

\* The user that q works on when it counts a completed operation.
HookOf(q) == Party[q.review.operation][Turn(q.left)]

\* p and q leave out the same of what is counted.
SameWork(p, q) ==
  /\ p.pc \in {"load", "save"} <=> q.pc \in {"load", "save"}
  /\ p.pc = "given" <=> q.pc = "given"
  /\ p.pc \in Hooking <=> q.pc \in Hooking
  /\ p.pc \in Stored => q.review = p.review
  /\ p.pc \in Hooking => q.review = p.review /\ q.left = p.left

\* Nobody else saves the user that q saves.
Exclusive(r, q) ==
  \A s \in Requests \ {r} :
    /\ q.pc = "save" /\ At(s, "save") => Reviewee(req[s].review) # Reviewee(q.review)
    /\ q.pc = "hook.save" /\ At(s, "hook.save") => HookOf(req[s]) # HookOf(q)

\* A request moves on to q, and nothing else changes.
LEMMA RepMoves ==
  ASSUME RepInv, NEW r \in Requests, NEW q \in RequestFields, req' = [req EXCEPT ![r] = q],
         UNCHANGED <<operations, reviews, users>>, SameWork(req[r], q),
         ReviewKnown(q), HookKnown(q), Exclusive(r, q)
  PROVE  RepInv'
<1>1. req'[r] = q /\ \A s \in Requests : s # r => req'[s] = req[s]
  BY DEF RepInv, RepTypes
<1>2. RepTypes'
  BY DEF RepInv, RepTypes
<1>3. ReviewsUnique' /\ CompletedFinite'
  BY DEF RepInv, ReviewsUnique, CompletedFinite
<1>4. \A s \in Requests : ReviewKnown(req[s])' /\ HookKnown(req[s])'
  <2>1. ReviewKnown(req[r])' /\ HookKnown(req[r])'
    BY <1>1 DEF ReviewKnown, HookKnown
  <2>2. ASSUME NEW s \in Requests, s # r PROVE ReviewKnown(req[s])' /\ HookKnown(req[s])'
    BY <1>1, <2>2 DEF RepInv, ReviewKnown, HookKnown
  <2>3. QED
    BY <2>1, <2>2
<1>5. OwnWork'
  <2> SUFFICES ASSUME NEW s \in Requests, NEW t \in Requests, s # t
               PROVE  /\ req'[s].pc \in Stored /\ req'[t].pc \in Stored =>
                           ~SameReview(req'[s].review, req'[t].review)
                      /\ req'[s].pc = "save" /\ req'[t].pc = "save" =>
                           Reviewee(req'[s].review) # Reviewee(req'[t].review)
                      /\ req'[s].pc \in Hooking /\ req'[t].pc \in Hooking =>
                           req'[s].review.operation # req'[t].review.operation
                      /\ req'[s].pc = "hook.save" /\ req'[t].pc = "hook.save" =>
                           HookOf(req'[s]) # HookOf(req'[t])
    BY DEF OwnWork, At, HookParty, HookOf
  <2>1. /\ req[s].pc \in Stored /\ req[t].pc \in Stored => ~SameReview(req[s].review, req[t].review)
        /\ req[s].pc = "save" /\ req[t].pc = "save" =>
             Reviewee(req[s].review) # Reviewee(req[t].review)
        /\ req[s].pc \in Hooking /\ req[t].pc \in Hooking =>
             req[s].review.operation # req[t].review.operation
        /\ req[s].pc = "hook.save" /\ req[t].pc = "hook.save" => HookOf(req[s]) # HookOf(req[t])
    BY DEF RepInv, OwnWork, At, HookParty, HookOf
  <2>2. q.pc \in Stored <=> req[r].pc \in Stored
    BY DEF SameWork, Stored
  <2>3. CASE s # r /\ t # r
    BY <1>1, <2>1, <2>3
  <2>4. CASE s = r /\ t # r
    BY <1>1, <2>1, <2>2, <2>4 DEF SameWork, Exclusive, At
  <2>5. CASE s # r /\ t = r
    BY <1>1, <2>1, <2>2, <2>5 DEF SameWork, Exclusive, At
  <2>6. QED
    BY <2>3, <2>4, <2>5
<1>6. ASSUME NEW p \in People
      PROVE  Counted(p)' = Counted(p) /\ Given(p)' = Given(p) /\ CompletedBy(p)' = CompletedBy(p)
  <2>1. \A s \in Requests :
          /\ req'[s].pc \in {"load", "save"} <=> req[s].pc \in {"load", "save"}
          /\ req'[s].pc \in {"load", "save", "given"} <=> req[s].pc \in {"load", "save", "given"}
          /\ req'[s].pc \in {"hook.load", "hook.save"} <=> req[s].pc \in {"hook.load", "hook.save"}
          /\ req[s].pc \in {"load", "save", "given"} => req'[s].review = req[s].review
          /\ req[s].pc \in {"hook.load", "hook.save"} =>
               req'[s].review = req[s].review /\ req'[s].left = req[s].left
    BY <1>1 DEF SameWork, Stored, Hooking
  <2>2. Counted(p)' = Counted(p)
    BY <2>1 DEF Counted
  <2>3. Given(p)' = Given(p)
    <3>1. \A y \in reviews :
            (\A s \in Requests : req'[s].pc \in {"load", "save", "given"} => ~SameReview(y, req'[s].review))
              <=> \A s \in Requests : req[s].pc \in {"load", "save", "given"} => ~SameReview(y, req[s].review)
      BY <2>1
    <3>2. {y \in reviews : /\ Reviewer(y) = p
                           /\ \A s \in Requests : req'[s].pc \in {"load", "save", "given"} =>
                                ~SameReview(y, req'[s].review)}
            = {y \in reviews : /\ Reviewer(y) = p
                               /\ \A s \in Requests : req[s].pc \in {"load", "save", "given"} =>
                                    ~SameReview(y, req[s].review)}
      BY <3>1
    <3>3. QED
      BY <3>2 DEF Given
  <2>4. CompletedBy(p)' = CompletedBy(p)
    <3>1. \A o \in Operations, k \in Roles :
            (\A s \in Requests : req'[s].pc \in {"hook.load", "hook.save"} /\ req'[s].review.operation = o
                                   => k \notin req'[s].left)
              <=> \A s \in Requests : req[s].pc \in {"hook.load", "hook.save"} /\ req[s].review.operation = o
                                        => k \notin req[s].left
      BY <2>1
    <3>2. QED
      BY <3>1 DEF CompletedBy
  <2>5. QED
    BY <2>2, <2>3, <2>4
<1>7. ReputationTellsHistory'
  <2>1. ReputationTellsHistory
    BY DEF RepInv
  <2>2. \A p \in People : Tells(users'[p], Counted(p)', Given(p)', CompletedBy(p)')
    BY <1>6, <2>1, TellsAll
  <2>3. QED
    BY <2>2, TellsNext
<1>8. QED
  BY <1>2, <1>3, <1>4, <1>5, <1>7 DEF RepInv

\* The users and requests that the steps write are of their types.
LEMMA UserTypes ==
  /\ NewUser \in Users /\ IdleRequest \in RequestFields
  /\ \A t \in Tallies, n \in Ratings : Plus(t, n) \in Tallies
<1>1. NewUser \in Users
  BY DEF NewUser, Users, NoTally, Tallies
<1>2. SomeReview \in ReviewFields
  BY DEF SomeReview, ReviewFields, Roles, Ages
<1>3. IdleRequest \in RequestFields
  BY <1>1, <1>2 DEF IdleRequest, RequestFields, Steps
<1>4. ASSUME NEW t \in Tallies, NEW n \in Ratings PROVE Plus(t, n) \in Tallies
  <2>1. t.count \in Nat /\ t.sum \in Nat /\ t.dist \in [Ratings -> Nat] /\ n \in Nat
    BY RatingType DEF Tallies
  <2>2. [t.dist EXCEPT ![n] = @ + 1] \in [Ratings -> Nat]
    BY <2>1
  <2>3. QED
    BY <2>1, <2>2 DEF Plus, Tallies
<1>5. QED
  BY <1>1, <1>3, <1>4

\* A person reviews what is completed.
LEMMA RepStartReview ==
  ASSUME RepInv, NEW r \in Requests, StartReview(r)
  PROVE  RepInv'
<1>1. PICK ask \in Asked :
        Begin(r, [IdleRequest EXCEPT !.pc = "find",
                    !.review = [operation |-> ask[1], from |-> ask[2][1], to |-> ask[2][2],
                                rating |-> ask[3], public |-> TRUE, age |-> 0]])
  BY DEF StartReview
<1> DEFINE x == [operation |-> ask[1], from |-> ask[2][1], to |-> ask[2][2],
                 rating |-> ask[3], public |-> TRUE, age |-> 0]
           q == [IdleRequest EXCEPT !.pc = "find", !.review = x]
<1>2. x \in Reviews
  <2>1. ask[1] \in Operations /\ ask[2] \in Roles \X Roles /\ ask[3] \in Ratings
    BY AskedAssumption DEF ALLOWED_REVIEW_PAIRS
  <2>2. QED
    BY <2>1 DEF Reviews, Ages
<1> HIDE DEF x
<1>3. x \in ReviewFields
  BY <1>2 DEF Reviews, ReviewFields
<1>4. q.pc = "find" /\ q.review = x /\ q \in RequestFields
  BY <1>3, UserTypes DEF IdleRequest, RequestFields, Steps
<1>5. req[r].pc = "idle" /\ req' = [req EXCEPT ![r] = q]
  BY <1>1 DEF Begin, x
<1> HIDE DEF q
<1>6. ReviewKnown(q) /\ HookKnown(q) /\ Exclusive(r, q)
  BY <1>2, <1>4 DEF ReviewKnown, HookKnown, Exclusive, Reviewing, Stored, Hooking
<1>7. SameWork(req[r], q)
  BY <1>4, <1>5 DEF SameWork, Stored, Hooking
<1>8. UNCHANGED <<operations, reviews, users>>
  BY DEF StartReview
<1>9. QED
  BY <1>4, <1>5, <1>6, <1>7, <1>8, RepMoves

\* A request that has stored nothing ends.
LEMMA RepEnds ==
  ASSUME RepInv, NEW r \in Requests, Finish(r), UNCHANGED <<operations, reviews, users>>,
         req[r].pc \notin Stored, req[r].pc \notin Hooking
  PROVE  RepInv'
<1>1. IdleRequest.pc = "idle" /\ IdleRequest \in RequestFields
  BY UserTypes DEF IdleRequest
<1>2. ReviewKnown(IdleRequest) /\ HookKnown(IdleRequest) /\ Exclusive(r, IdleRequest)
  BY <1>1 DEF ReviewKnown, HookKnown, Exclusive, Reviewing, Stored, Hooking
<1>3. SameWork(req[r], IdleRequest)
  BY <1>1 DEF SameWork, Stored, Hooking
<1>4. QED
  BY <1>1, <1>2, <1>3, RepMoves DEF Finish

\* A request to review looks for the same review.
LEMMA RepFind ==
  ASSUME RepInv, NEW r \in Requests, ReviewFind(r)
  PROVE  RepInv'
<1>1. CASE Finish(r)
  BY <1>1, RepEnds DEF ReviewFind, At, Stored, Hooking
<1>2. CASE Goto(r, "flags")
  <2> DEFINE q == [req[r] EXCEPT !.pc = "flags"]
  <2>1. req[r] \in RequestFields /\ req[r].pc = "find"
    BY DEF RepInv, RepTypes, ReviewFind, At
  <2>2. q.pc = "flags" /\ q.review = req[r].review /\ q \in RequestFields
    BY <2>1 DEF RequestFields, Steps
  <2>3. req' = [req EXCEPT ![r] = q]
    BY <1>2 DEF Goto, RepInv, RepTypes
  <2> HIDE DEF q
  <2>4. ReviewKnown(q) /\ HookKnown(q) /\ Exclusive(r, q)
    BY <2>1, <2>2 DEF RepInv, ReviewKnown, HookKnown, Exclusive, Reviewing, Stored, Hooking
  <2>5. SameWork(req[r], q)
    BY <2>1, <2>2 DEF SameWork, Stored, Hooking
  <2>6. QED
    BY <2>2, <2>3, <2>4, <2>5, RepMoves DEF ReviewFind
<1>3. QED
  BY <1>1, <1>2 DEF ReviewFind

\* It decides whether the review is public.
LEMMA RepFlags ==
  ASSUME RepInv, NEW r \in Requests, ReviewFlags(r)
  PROVE  RepInv'
<1>1. PICK public \in BOOLEAN :
        req' = [req EXCEPT ![r].pc = "create", ![r].review.public = public]
  BY DEF ReviewFlags
<1> DEFINE x == [req[r].review EXCEPT !.public = public]
           q == [req[r] EXCEPT !.pc = "create", !.review = x]
<1>2. req[r] \in RequestFields /\ req[r].pc = "flags"
  BY DEF RepInv, RepTypes, ReviewFlags, At
<1>3. req[r].review \in Reviews
  BY <1>2 DEF RepInv, ReviewKnown, Reviewing
<1>4. x \in Reviews
  BY <1>3 DEF Reviews
<1>5. q.pc = "create" /\ q.review = x /\ q \in RequestFields
  <2>1. x \in ReviewFields
    BY <1>4 DEF Reviews, ReviewFields
  <2> HIDE DEF x
  <2>2. QED
    BY <1>2, <2>1 DEF RequestFields, Steps
<1>6. req' = [req EXCEPT ![r] = q]
  BY <1>1 DEF RepInv, RepTypes
<1> HIDE DEF x, q
<1>7. ReviewKnown(q) /\ HookKnown(q) /\ Exclusive(r, q)
  BY <1>4, <1>5 DEF ReviewKnown, HookKnown, Exclusive, Reviewing, Stored, Hooking
<1>8. SameWork(req[r], q)
  BY <1>2, <1>5 DEF SameWork, Stored, Hooking
<1>9. QED
  BY <1>5, <1>6, <1>7, <1>8, RepMoves DEF ReviewFlags

\* It loads the person reviewed, whom nobody else is about to save.
LEMMA RepAggregateLoad ==
  ASSUME OneAtATime, RepInv, NEW r \in Requests, AggregateLoad(r)
  PROVE  RepInv'
<1> DEFINE u == users[Reviewee(req[r].review)]
           q == [req[r] EXCEPT !.pc = "save", !.copy = u]
<1>1. req[r] \in RequestFields /\ req[r].pc = "load"
  BY DEF RepInv, RepTypes, AggregateLoad, At
<1>2. /\ req[r].review \in Reviews
      /\ \E x \in reviews : SameReview(x, req[r].review) /\ x.rating = req[r].review.rating /\ x.public
  BY <1>1 DEF RepInv, ReviewKnown, Reviewing, Stored
<1>3. u \in Users
  <2>1. Reviewee(req[r].review) \in People
    BY <1>2, PartyAssumption DEF Reviews, Reviewee
  <2>2. QED
    BY <2>1 DEF RepInv, RepTypes
<1>4. /\ q.pc = "save" /\ q.review = req[r].review /\ q.left = req[r].left /\ q.copy = u
      /\ q \in RequestFields
  BY <1>1, <1>3 DEF RequestFields, Steps
<1>5. req' = [req EXCEPT ![r] = q]
  BY DEF AggregateLoad, RepInv, RepTypes
<1> HIDE DEF q
<1>6. ReviewKnown(q) /\ HookKnown(q)
  BY <1>2, <1>4 DEF ReviewKnown, HookKnown, Reviewing, Stored, Hooking
<1>7. Exclusive(r, q)
  BY <1>4 DEF Exclusive, AggregateLoad, Apart
<1>8. SameWork(req[r], q)
  BY <1>1, <1>4 DEF SameWork, Stored, Hooking
<1>9. QED
  BY <1>4, <1>5, <1>6, <1>7, <1>8, RepMoves DEF AggregateLoad

\* The completion of an operation loads its next party.
LEMMA RepHookLoad ==
  ASSUME OneAtATime, RepInv, NEW r \in Requests, HookLoad(r)
  PROVE  RepInv'
<1> DEFINE u == users[HookParty(r)]
           q == [req[r] EXCEPT !.pc = "hook.save", !.copy = u]
<1>1. req[r] \in RequestFields /\ req[r].pc = "hook.load"
  BY DEF RepInv, RepTypes, HookLoad, At
<1>2. /\ req[r].review.operation \in Operations
      /\ operations[req[r].review.operation].completed /\ req[r].left # {}
  BY <1>1 DEF RepInv, HookKnown, Hooking
<1>3. u \in Users
  <2>1. HookParty(r) \in People
    BY <1>2, PartyAssumption DEF HookParty, Turn, Roles
  <2>2. QED
    BY <2>1 DEF RepInv, RepTypes
<1>4. /\ q.pc = "hook.save" /\ q.review = req[r].review /\ q.left = req[r].left /\ q.copy = u
      /\ q \in RequestFields
  BY <1>1, <1>3 DEF RequestFields, Steps
<1>5. req' = [req EXCEPT ![r] = q]
  BY DEF HookLoad, RepInv, RepTypes
<1> HIDE DEF q
<1>6. ReviewKnown(q) /\ HookKnown(q)
  BY <1>2, <1>4 DEF ReviewKnown, HookKnown, Reviewing, Stored, Hooking, HookParty
<1>7. Exclusive(r, q)
  BY <1>4 DEF Exclusive, HookLoad, HookOf, HookParty
<1>8. SameWork(req[r], q)
  BY <1>1, <1>4 DEF SameWork, Stored, Hooking
<1>9. QED
  BY <1>4, <1>5, <1>6, <1>7, <1>8, RepMoves DEF HookLoad

----------------------------------------------------------------------------
(* A review is stored and counted.                                         *)

\* A review is stored; its request has still to count it.
LEMMA RepCreate ==
  ASSUME RepInv, NEW r \in Requests, ReviewCreate(r)
  PROVE  RepInv'
<1> DEFINE y == req[r].review
           q == [req[r] EXCEPT !.pc = IF y.public THEN "load" ELSE "given"]
<1>1. req[r] \in RequestFields /\ req[r].pc = "create" /\ y \in Reviews
  BY DEF RepInv, RepTypes, ReviewCreate, At, ReviewKnown, Reviewing
<1>2. CASE Duplicate(r)
  BY <1>1, <1>2, RepEnds DEF ReviewCreate, Stored, Hooking
<1>3. CASE ~Duplicate(r)
  <2>1. /\ q.pc = IF y.public THEN "load" ELSE "given"
        /\ q.review = y /\ q.left = req[r].left /\ q.copy = req[r].copy /\ q \in RequestFields
    BY <1>1 DEF RequestFields, Steps, Reviews
  <2>2. reviews' = reviews \cup {y} /\ UNCHANGED <<operations, users>>
    BY <1>3 DEF ReviewCreate
  <2>3. req' = [req EXCEPT ![r] = q]
    BY <1>3 DEF ReviewCreate, Goto, RepInv, RepTypes
  <2>4. \A x \in reviews : ~SameReview(x, y)
    BY <1>3 DEF Duplicate
  <2> HIDE DEF q
  <2>5. req'[r] = q /\ \A s \in Requests : s # r => req'[s] = req[s]
    BY <2>3 DEF RepInv, RepTypes
  <2>6. RepTypes'
    <3>1. IsFiniteSet(reviews') /\ reviews' \subseteq Reviews
      BY <1>1, <2>2, FS_AddElement DEF RepInv, RepTypes
    <3>2. req' \in [Requests -> RequestFields]
      BY <2>1, <2>3 DEF RepInv, RepTypes
    <3>3. QED
      BY <2>2, <3>1, <3>2 DEF RepInv, RepTypes
  <2>7. ReviewsUnique' /\ CompletedFinite'
    BY <2>2, <2>4 DEF RepInv, ReviewsUnique, CompletedFinite, SameReview
  <2>8. ASSUME NEW s \in Requests PROVE ReviewKnown(req[s])' /\ HookKnown(req[s])'
    <3>1. CASE s = r
      <4>1. y \in reviews' /\ SameReview(y, y)
        BY <2>2 DEF SameReview
      <4>2. q.pc \in {"load", "save"} => y.public
        BY <2>1
      <4>3. ReviewKnown(req[s])'
        BY <1>1, <2>1, <2>5, <3>1, <4>1, <4>2 DEF ReviewKnown
      <4>4. HookKnown(req[s])'
        BY <2>1, <2>5, <3>1 DEF HookKnown, Hooking
      <4>5. QED
        BY <4>3, <4>4
    <3>2. CASE s # r
      <4>1. req'[s] = req[s] /\ ReviewKnown(req[s]) /\ HookKnown(req[s])
        BY <2>5, <3>2 DEF RepInv
      <4>2. ReviewKnown(req[s])'
        BY <2>2, <4>1 DEF ReviewKnown
      <4>3. HookKnown(req[s])'
        BY <2>2, <4>1 DEF HookKnown
      <4>4. QED
        BY <4>2, <4>3
    <3>3. QED
      BY <3>1, <3>2
  <2>9. OwnWork'
    <3>1. \A s \in Requests \ {r} : req[s].pc \in Stored => ~SameReview(req[s].review, y)
      <4> SUFFICES ASSUME NEW s \in Requests \ {r}, req[s].pc \in Stored
                   PROVE  ~SameReview(req[s].review, y)
        OBVIOUS
      <4>1. PICK x \in reviews : SameReview(x, req[s].review)
        BY DEF RepInv, ReviewKnown
      <4>2. QED
        BY <2>4, <4>1 DEF SameReview
    <3>2. q.pc \notin Hooking /\ q.pc # "save"
      BY <2>1 DEF Hooking
    <3> SUFFICES ASSUME NEW s \in Requests, NEW t \in Requests, s # t
                 PROVE  /\ req'[s].pc \in Stored /\ req'[t].pc \in Stored =>
                             ~SameReview(req'[s].review, req'[t].review)
                        /\ req'[s].pc = "save" /\ req'[t].pc = "save" =>
                             Reviewee(req'[s].review) # Reviewee(req'[t].review)
                        /\ req'[s].pc \in Hooking /\ req'[t].pc \in Hooking =>
                             req'[s].review.operation # req'[t].review.operation
                        /\ req'[s].pc = "hook.save" /\ req'[t].pc = "hook.save" =>
                             HookOf(req'[s]) # HookOf(req'[t])
      BY DEF OwnWork, At, HookParty, HookOf
    <3>3. CASE s # r /\ t # r
      BY <2>5, <3>3 DEF RepInv, OwnWork, At, HookParty, HookOf
    <3>4. CASE s = r /\ t # r
      BY <2>1, <2>5, <3>1, <3>2, <3>4 DEF Hooking, SameReview
    <3>5. CASE s # r /\ t = r
      BY <2>1, <2>5, <3>1, <3>2, <3>5 DEF Hooking
    <3>6. QED
      BY <3>3, <3>4, <3>5
  <2>10. ASSUME NEW p \in People
         PROVE  Counted(p)' = Counted(p) /\ Given(p)' = Given(p) /\ CompletedBy(p)' = CompletedBy(p)
    <3> DEFINE Free(x, steps) ==
                 \A s \in Requests : req[s].pc \in steps => ~SameReview(x, req[s].review)
               FreeNext(x, steps) ==
                 \A s \in Requests : req'[s].pc \in steps => ~SameReview(x, req'[s].review)
    <3>1. \A x \in reviews : /\ Free(x, {"load", "save"}) <=> FreeNext(x, {"load", "save"})
                             /\ Free(x, {"load", "save", "given"}) <=> FreeNext(x, {"load", "save", "given"})
      BY <1>1, <2>1, <2>4, <2>5
    <3>2. /\ y.public => ~FreeNext(y, {"load", "save"})
          /\ ~FreeNext(y, {"load", "save", "given"})
      BY <2>1, <2>5 DEF SameReview
    <3>3. /\ Counted(p) = {x \in reviews : Reviewee(x) = p /\ x.public /\ Free(x, {"load", "save"})}
          /\ Counted(p)' = {x \in reviews' : Reviewee(x) = p /\ x.public /\ FreeNext(x, {"load", "save"})}
      BY DEF Counted
    <3>4. /\ Given(p) = {<<x.operation, x.to>> : x \in {z \in reviews :
                            Reviewer(z) = p /\ Free(z, {"load", "save", "given"})}}
          /\ Given(p)' = {<<x.operation, x.to>> : x \in {z \in reviews' :
                            Reviewer(z) = p /\ FreeNext(z, {"load", "save", "given"})}}
      BY DEF Given
    <3> HIDE DEF Free, FreeNext, y
    <3>5. Counted(p)' = Counted(p)
      BY <2>2, <3>1, <3>2, <3>3
    <3>6. {z \in reviews' : Reviewer(z) = p /\ FreeNext(z, {"load", "save", "given"})}
            = {z \in reviews : Reviewer(z) = p /\ Free(z, {"load", "save", "given"})}
      BY <2>2, <3>1, <3>2
    <3>7. Given(p)' = Given(p)
      BY <3>4, <3>6
    <3>8. \A s \in Requests : /\ req[s].pc \in {"hook.load", "hook.save"} => s # r
                              /\ req'[s].pc \in {"hook.load", "hook.save"} => s # r
      BY <1>1, <2>1, <2>5
    <3>9. \A o \in Operations, k \in Roles :
            (\A s \in Requests : req'[s].pc \in {"hook.load", "hook.save"} /\ req'[s].review.operation = o
                                   => k \notin req'[s].left)
              <=> \A s \in Requests : req[s].pc \in {"hook.load", "hook.save"} /\ req[s].review.operation = o
                                        => k \notin req[s].left
      BY <2>5, <3>8
    <3>10. CompletedBy(p)' = CompletedBy(p)
      BY <2>2, <3>9 DEF CompletedBy
    <3>11. QED
      BY <3>5, <3>7, <3>10
  <2>11. ReputationTellsHistory'
    <3>1. ReputationTellsHistory
      BY DEF RepInv
    <3>2. \A p \in People : Tells(users'[p], Counted(p)', Given(p)', CompletedBy(p)')
      BY <2>2, <2>10, <3>1, TellsAll
    <3>3. QED
      BY <3>2, TellsNext
  <2>12. QED
    BY <2>6, <2>7, <2>8, <2>9, <2>11 DEF RepInv
<1>4. QED
  BY <1>2, <1>3

\* A public review is added to what its reviewee has received.
LEMMA TellsReceived ==
  ASSUME NEW u \in Users, NEW w, NEW x, NEW C, IsFiniteSet(C), C \subseteq Reviews,
         x \in Reviews, x \notin C, NEW G, NEW O, Tells(u, C, G, O),
         w.overall = Plus(u.overall, x.rating),
         w.roles = [u.roles EXCEPT ![x.to] = Plus(u.roles[x.to], x.rating)],
         w.received = u.received + 1, w.given = u.given, w.completed = u.completed
  PROVE  Tells(w, C \cup {x}, G, O)
<1>1. x.rating \in Ratings /\ x.to \in Roles /\ \A z \in C : z.rating \in Ratings
  BY DEF Reviews
<1>2. Tally(C \cup {x}) = Plus(Tally(C), x.rating) /\ Cardinality(C \cup {x}) = Cardinality(C) + 1
  BY <1>1, TallyAdd, FS_AddElement
<1>3. ASSUME NEW k \in Roles PROVE w.roles[k] = Tally({z \in C \cup {x} : z.to = k})
  <2> DEFINE K == {z \in C : z.to = k}
  <2>1. u.roles[k] = Tally(K) /\ u.roles \in [Roles -> Tallies]
    BY DEF Tells, Users
  <2>2. CASE k = x.to
    <3>1. {z \in C \cup {x} : z.to = k} = K \cup {x}
      BY <2>2
    <3>2. IsFiniteSet(K) /\ x \notin K /\ \A z \in K : z.rating \in Ratings
      BY <1>1, FS_Subset
    <3> HIDE DEF K
    <3>3. Tally(K \cup {x}) = Plus(Tally(K), x.rating)
      BY <1>1, <3>2, TallyAdd
    <3>4. w.roles[k] = Plus(Tally(K), x.rating)
      BY <2>1, <2>2
    <3>5. QED
      BY <3>1, <3>3, <3>4
  <2>3. CASE k # x.to
    <3>1. {z \in C \cup {x} : z.to = k} = K
      BY <2>3
    <3>2. w.roles[k] = u.roles[k]
      BY <2>1, <2>3
    <3>3. QED
      BY <2>1, <3>1, <3>2
  <2>4. QED
    BY <2>2, <2>3
<1>4. /\ w.overall = Tally(C \cup {x}) /\ w.received = Cardinality(C \cup {x})
      /\ w.given = Cardinality(G) /\ w.completed = Cardinality(O)
  BY <1>2 DEF Tells
<1>5. QED
  BY <1>3, <1>4 DEF Tells

\* The reviewee is saved with the review added.
LEMMA RepAggregateSave ==
  ASSUME RepInv, NEW r \in Requests, AggregateSave(r)
  PROVE  RepInv'
<1> DEFINE y == req[r].review
           p == Reviewee(y)
           u == users[p]
           w == [u EXCEPT !.overall = Plus(u.overall, y.rating),
                          !.roles = [u.roles EXCEPT ![y.to] = Plus(u.roles[y.to], y.rating)],
                          !.received = u.received + 1]
           q == [req[r] EXCEPT !.pc = "given", !.copy = NewUser]
<1>1. /\ req[r] \in RequestFields /\ req[r].pc = "save" /\ y \in Reviews
      /\ req[r].copy.overall = u.overall /\ req[r].copy.roles = u.roles
      /\ req[r].copy.received = u.received
  BY DEF RepInv, RepTypes, AggregateSave, At, ReviewKnown, Reviewing
<1>2. PICK x \in reviews : SameReview(x, y) /\ x.rating = y.rating /\ x.public
  BY <1>1 DEF RepInv, ReviewKnown, Stored
<1>3. x \in Reviews /\ Reviewee(x) = p /\ x.to = y.to
  BY <1>2 DEF RepInv, RepTypes, Reviewee, SameReview
<1>4. p \in People /\ u \in Users
  BY <1>1, PartyAssumption DEF Reviews, Reviewee, RepInv, RepTypes
<1>5. y.rating \in Ratings /\ y.to \in Roles
  BY <1>1 DEF Reviews
<1>6. /\ w \in Users
      /\ w.overall = Plus(u.overall, y.rating)
      /\ w.roles = [u.roles EXCEPT ![y.to] = Plus(u.roles[y.to], y.rating)]
      /\ w.received = u.received + 1 /\ w.given = u.given /\ w.completed = u.completed
  <2>1. /\ Plus(u.overall, y.rating) \in Tallies
        /\ [u.roles EXCEPT ![y.to] = Plus(u.roles[y.to], y.rating)] \in [Roles -> Tallies]
        /\ u.received + 1 \in Nat
    BY <1>4, <1>5, UserTypes DEF Users
  <2>2. QED
    BY <1>4, <2>1 DEF Users
<1>7. users' = [users EXCEPT ![p] = w]
  <2>1. users' = [users EXCEPT ![p].overall = Plus(req[r].copy.overall, y.rating),
                               ![p].roles[y.to] = Plus(req[r].copy.roles[y.to], y.rating),
                               ![p].received = req[r].copy.received + 1]
    BY DEF AggregateSave
  <2>2. QED
    BY <1>1, <1>4, <2>1 DEF RepInv, RepTypes, Users
<1>8. /\ q.pc = "given" /\ q.review = y /\ q.left = req[r].left /\ q.copy = NewUser
      /\ q \in RequestFields
  BY <1>1, UserTypes DEF RequestFields, Steps
<1>9. req' = [req EXCEPT ![r] = q] /\ UNCHANGED <<operations, reviews>>
  BY DEF AggregateSave, RepInv, RepTypes
<1> HIDE DEF w, q
<1>10. req'[r] = q /\ \A s \in Requests : s # r => req'[s] = req[s]
  BY <1>9 DEF RepInv, RepTypes
<1>11. users'[p] = w /\ \A v \in People : v # p => users'[v] = users[v]
  BY <1>4, <1>7 DEF RepInv, RepTypes
<1>12. RepTypes'
  <2>1. req' \in [Requests -> RequestFields]
    BY <1>8, <1>9 DEF RepInv, RepTypes
  <2>2. users' \in [People -> Users]
    BY <1>6, <1>7 DEF RepInv, RepTypes
  <2>3. QED
    BY <1>9, <2>1, <2>2 DEF RepInv, RepTypes
<1>13. ReviewsUnique' /\ CompletedFinite'
  BY <1>9 DEF RepInv, ReviewsUnique, CompletedFinite
<1>14. ASSUME NEW s \in Requests PROVE ReviewKnown(req[s])' /\ HookKnown(req[s])'
  <2>1. CASE s = r
    BY <1>1, <1>2, <1>8, <1>9, <1>10, <2>1 DEF ReviewKnown, HookKnown, Hooking
  <2>2. CASE s # r
    <3>1. req'[s] = req[s] /\ ReviewKnown(req[s]) /\ HookKnown(req[s])
      BY <1>10, <2>2 DEF RepInv
    <3>2. ReviewKnown(req[s])'
      <4>1. ASSUME req[s].pc = "save" PROVE users'[Reviewee(req[s].review)] = users[Reviewee(req[s].review)]
        <5>1. req[s].review \in Reviews
          BY <3>1, <4>1 DEF ReviewKnown, Reviewing
        <5>2. Reviewee(req[s].review) \in People
          BY <5>1, PartyAssumption DEF Reviews, Reviewee
        <5>3. Reviewee(req[s].review) # p
          BY <1>1, <2>2, <4>1 DEF RepInv, OwnWork, At
        <5>4. QED
          BY <1>11, <5>2, <5>3
      <4>2. QED
        BY <1>9, <3>1, <4>1 DEF ReviewKnown
    <3>3. HookKnown(req[s])'
      <4>1. \A v \in People : users'[v].completed = users[v].completed
        BY <1>6, <1>11
      <4>2. ASSUME req[s].pc = "hook.save"
            PROVE  Party[req[s].review.operation][Turn(req[s].left)] \in People
        BY <3>1, <4>2, PartyAssumption DEF HookKnown, Hooking, Turn, Roles
      <4>3. QED
        BY <1>9, <3>1, <4>1, <4>2 DEF HookKnown
    <3>4. QED
      BY <3>2, <3>3
  <2>3. QED
    BY <2>1, <2>2
<1>15. OwnWork'
  <2>1. /\ req[r].pc \in Stored /\ req[r].pc \notin Hooking
        /\ q.pc # "save" /\ q.pc \notin Hooking
    BY <1>1, <1>8 DEF Stored, Hooking
  <2> SUFFICES ASSUME NEW s \in Requests, NEW t \in Requests, s # t
               PROVE  /\ req'[s].pc \in Stored /\ req'[t].pc \in Stored =>
                           ~SameReview(req'[s].review, req'[t].review)
                      /\ req'[s].pc = "save" /\ req'[t].pc = "save" =>
                           Reviewee(req'[s].review) # Reviewee(req'[t].review)
                      /\ req'[s].pc \in Hooking /\ req'[t].pc \in Hooking =>
                           req'[s].review.operation # req'[t].review.operation
                      /\ req'[s].pc = "hook.save" /\ req'[t].pc = "hook.save" =>
                           HookOf(req'[s]) # HookOf(req'[t])
    BY DEF OwnWork, At, HookParty, HookOf
  <2>2. CASE s # r /\ t # r
    BY <1>10, <2>2 DEF RepInv, OwnWork, At, HookParty, HookOf
  <2>3. CASE s = r /\ t # r
    BY <1>8, <1>10, <2>1, <2>3 DEF RepInv, OwnWork, Hooking
  <2>4. CASE s # r /\ t = r
    BY <1>8, <1>10, <2>1, <2>4 DEF RepInv, OwnWork, Hooking
  <2>5. QED
    BY <2>2, <2>3, <2>4
<1>16. ASSUME NEW s \in Requests, s # r, req[s].pc \in Stored PROVE ~SameReview(x, req[s].review)
  <2>1. ~SameReview(y, req[s].review)
    BY <1>1, <1>16 DEF RepInv, OwnWork, Stored
  <2>2. QED
    BY <1>2, <2>1 DEF SameReview
<1>17. \A z \in reviews : SameReview(z, y) <=> z = x
  BY <1>2 DEF RepInv, ReviewsUnique, SameReview
<1>18. /\ x \notin Counted(p)
       /\ \A v \in People : Counted(v)' = IF v = p THEN Counted(v) \cup {x} ELSE Counted(v)
  <2> DEFINE Free(z) == \A s \in Requests : req[s].pc \in {"load", "save"} => ~SameReview(z, req[s].review)
             FreeNext(z) == \A s \in Requests : req'[s].pc \in {"load", "save"} => ~SameReview(z, req'[s].review)
  <2>1. ~Free(x)
    BY <1>1, <1>2
  <2>2. FreeNext(x)
    BY <1>8, <1>10, <1>16 DEF Stored
  <2>3. \A z \in reviews : z # x => (Free(z) <=> FreeNext(z))
    BY <1>1, <1>8, <1>10, <1>17
  <2>4. \A v : /\ Counted(v) = {z \in reviews : Reviewee(z) = v /\ z.public /\ Free(z)}
               /\ Counted(v)' = {z \in reviews : Reviewee(z) = v /\ z.public /\ FreeNext(z)}
    BY <1>9 DEF Counted
  <2> HIDE DEF Free, FreeNext, y, p
  <2>5. \A v \in People : Counted(v)' = IF v = p THEN Counted(v) \cup {x} ELSE Counted(v)
    <3> SUFFICES ASSUME NEW v \in People
                 PROVE  Counted(v)' = IF v = p THEN Counted(v) \cup {x} ELSE Counted(v)
      OBVIOUS
    <3>1. /\ Counted(v) = {z \in reviews : Reviewee(z) = v /\ z.public /\ Free(z)}
          /\ Counted(v)' = {z \in reviews : Reviewee(z) = v /\ z.public /\ FreeNext(z)}
      BY <2>4
    <3>2. CASE v = p
      BY <1>2, <1>3, <2>1, <2>2, <2>3, <3>1, <3>2
    <3>3. CASE v # p
      BY <1>2, <1>3, <2>3, <3>1, <3>3
    <3>4. QED
      BY <3>2, <3>3
  <2>6. QED
    BY <2>1, <2>4, <2>5
<1>19. ASSUME NEW v \in People PROVE Given(v)' = Given(v) /\ CompletedBy(v)' = CompletedBy(v)
  <2>1. \A s \in Requests :
          /\ req'[s].pc \in {"load", "save", "given"} <=> req[s].pc \in {"load", "save", "given"}
          /\ req'[s].pc \in {"hook.load", "hook.save"} <=> req[s].pc \in {"hook.load", "hook.save"}
          /\ req'[s].review = req[s].review /\ req'[s].left = req[s].left
    BY <1>1, <1>8, <1>10
  <2>2. \A z \in reviews :
          (\A s \in Requests : req'[s].pc \in {"load", "save", "given"} => ~SameReview(z, req'[s].review))
            <=> \A s \in Requests : req[s].pc \in {"load", "save", "given"} => ~SameReview(z, req[s].review)
    BY <2>1
  <2>3. {z \in reviews : /\ Reviewer(z) = v
                         /\ \A s \in Requests : req'[s].pc \in {"load", "save", "given"} =>
                              ~SameReview(z, req'[s].review)}
          = {z \in reviews : /\ Reviewer(z) = v
                             /\ \A s \in Requests : req[s].pc \in {"load", "save", "given"} =>
                                  ~SameReview(z, req[s].review)}
    BY <2>2
  <2>4. Given(v)' = Given(v)
    BY <1>9, <2>3 DEF Given
  <2>5. \A o \in Operations, k \in Roles :
          (\A s \in Requests : req'[s].pc \in {"hook.load", "hook.save"} /\ req'[s].review.operation = o
                                 => k \notin req'[s].left)
            <=> \A s \in Requests : req[s].pc \in {"hook.load", "hook.save"} /\ req[s].review.operation = o
                                      => k \notin req[s].left
    BY <2>1
  <2>6. CompletedBy(v)' = CompletedBy(v)
    BY <1>9, <2>5 DEF CompletedBy
  <2>7. QED
    BY <2>4, <2>6
<1>20. ReputationTellsHistory'
  <2>1. \A v \in People : Tells(users[v], Counted(v), Given(v), CompletedBy(v))
    BY TellsAll DEF RepInv
  <2>2. ASSUME NEW v \in People PROVE Tells(users'[v], Counted(v)', Given(v)', CompletedBy(v)')
    <3>1. CASE v # p
      BY <1>11, <1>18, <1>19, <2>1, <3>1
    <3>2. CASE v = p
      <4> DEFINE C == Counted(v)
                 G == Given(v)
                 O == CompletedBy(v)
      <4>1. C \subseteq Reviews /\ IsFiniteSet(C)
        BY FS_Subset DEF Counted, RepInv, RepTypes
      <4>2. x \notin C /\ Counted(v)' = C \cup {x} /\ Given(v)' = G /\ CompletedBy(v)' = O
        BY <1>18, <1>19, <3>2
      <4>3. Tells(u, C, G, O)
        BY <2>1, <3>2
      <4> HIDE DEF C, G, O
      <4>4. Tells(w, C \cup {x}, G, O)
        BY <1>2, <1>3, <1>4, <1>6, <4>1, <4>2, <4>3, TellsReceived
      <4>5. QED
        BY <1>11, <3>2, <4>2, <4>4
    <3>3. QED
      BY <3>1, <3>2
  <2>3. QED
    BY <2>2, TellsNext
<1>21. QED
  BY <1>12, <1>13, <1>14, <1>15, <1>20 DEF RepInv

\* Whom a person has reviewed are only so many.
LEMMA GivenFinite ==
  ASSUME RepInv, NEW p
  PROVE  IsFiniteSet(Given(p))
<1> DEFINE S == {y \in reviews : /\ Reviewer(y) = p
                                 /\ \A r \in Requests : req[r].pc \in {"load", "save", "given"} =>
                                      ~SameReview(y, req[r].review)}
           T == {<<x.operation, x.to>> : x \in S}
           f == [x \in S |-> <<x.operation, x.to>>]
<1>1. IsFiniteSet(S)
  BY FS_Subset DEF RepInv, RepTypes
<1>2. f \in [S -> T] /\ \A t \in T : \E x \in S : f[x] = t
  OBVIOUS
<1> HIDE DEF S, T, f
<1>3. f \in Surjection(S, T)
  BY <1>2 DEF Surjection
<1>4. IsFiniteSet(T)
  BY <1>1, <1>3, FS_Surjection
<1>5. QED
  BY <1>4 DEF Given, S, T

\* Whoever has saved the reviewee counts the review for the reviewer.
LEMMA RepCountGiven ==
  ASSUME RepInv, NEW r \in Requests, CountGiven(r)
  PROVE  RepInv'
<1> DEFINE y == req[r].review
           p == Reviewer(y)
           u == users[p]
           w == [u EXCEPT !.given = @ + 1]
<1>1. req[r] \in RequestFields /\ req[r].pc = "given" /\ y \in Reviews
  BY DEF RepInv, RepTypes, CountGiven, At, ReviewKnown, Reviewing
<1>2. PICK x \in reviews : SameReview(x, y)
  BY <1>1 DEF RepInv, ReviewKnown, Stored
<1>3. x \in Reviews /\ Reviewer(x) = p /\ x.operation = y.operation /\ x.to = y.to
  BY <1>2 DEF RepInv, RepTypes, Reviewer, SameReview
<1>4. p \in People /\ u \in Users
  BY <1>1, PartyAssumption DEF Reviews, Reviewer, RepInv, RepTypes
<1>5. /\ w \in Users /\ w.overall = u.overall /\ w.roles = u.roles /\ w.received = u.received
      /\ w.given = u.given + 1 /\ w.completed = u.completed
  BY <1>4 DEF Users
<1>6. users' = [users EXCEPT ![p] = w]
  BY <1>4 DEF CountGiven, RepInv, RepTypes, Users
<1>7. req' = [req EXCEPT ![r] = IdleRequest] /\ UNCHANGED <<operations, reviews>>
  BY DEF CountGiven, Finish
<1>8. IdleRequest.pc = "idle" /\ IdleRequest \in RequestFields
  BY UserTypes DEF IdleRequest
<1> HIDE DEF w
<1>9. req'[r] = IdleRequest /\ \A s \in Requests : s # r => req'[s] = req[s]
  BY <1>7 DEF RepInv, RepTypes
<1>10. users'[p] = w /\ \A v \in People : v # p => users'[v] = users[v]
  BY <1>4, <1>6 DEF RepInv, RepTypes
<1>11. RepTypes'
  <2>1. req' \in [Requests -> RequestFields]
    BY <1>7, <1>8 DEF RepInv, RepTypes
  <2>2. users' \in [People -> Users]
    BY <1>5, <1>6 DEF RepInv, RepTypes
  <2>3. QED
    BY <1>7, <2>1, <2>2 DEF RepInv, RepTypes
<1>12. ReviewsUnique' /\ CompletedFinite'
  BY <1>7 DEF RepInv, ReviewsUnique, CompletedFinite
<1>13. \A v \in People : /\ users'[v].overall = users[v].overall /\ users'[v].roles = users[v].roles
                         /\ users'[v].received = users[v].received
                         /\ users'[v].completed = users[v].completed
  BY <1>5, <1>10
<1>14. ASSUME NEW s \in Requests PROVE ReviewKnown(req[s])' /\ HookKnown(req[s])'
  <2>1. CASE s = r
    BY <1>8, <1>9, <2>1 DEF ReviewKnown, HookKnown, Reviewing, Stored, Hooking
  <2>2. CASE s # r
    <3>1. req'[s] = req[s] /\ ReviewKnown(req[s]) /\ HookKnown(req[s])
      BY <1>9, <2>2 DEF RepInv
    <3>2. ASSUME req[s].pc = "save" PROVE Reviewee(req[s].review) \in People
      <4>1. req[s].review \in Reviews
        BY <3>1, <3>2 DEF ReviewKnown, Reviewing
      <4>2. QED
        BY <4>1, PartyAssumption DEF Reviews, Reviewee
    <3>3. ReviewKnown(req[s])'
      BY <1>7, <1>13, <3>1, <3>2 DEF ReviewKnown
    <3>4. ASSUME req[s].pc = "hook.save"
          PROVE  Party[req[s].review.operation][Turn(req[s].left)] \in People
      BY <3>1, <3>4, PartyAssumption DEF HookKnown, Hooking, Turn, Roles
    <3>5. HookKnown(req[s])'
      BY <1>7, <1>13, <3>1, <3>4 DEF HookKnown
    <3>6. QED
      BY <3>3, <3>5
  <2>3. QED
    BY <2>1, <2>2
<1>15. OwnWork'
  <2> SUFFICES ASSUME NEW s \in Requests, NEW t \in Requests, s # t
               PROVE  /\ req'[s].pc \in Stored /\ req'[t].pc \in Stored =>
                           ~SameReview(req'[s].review, req'[t].review)
                      /\ req'[s].pc = "save" /\ req'[t].pc = "save" =>
                           Reviewee(req'[s].review) # Reviewee(req'[t].review)
                      /\ req'[s].pc \in Hooking /\ req'[t].pc \in Hooking =>
                           req'[s].review.operation # req'[t].review.operation
                      /\ req'[s].pc = "hook.save" /\ req'[t].pc = "hook.save" =>
                           HookOf(req'[s]) # HookOf(req'[t])
    BY DEF OwnWork, At, HookParty, HookOf
  <2>1. CASE s # r /\ t # r
    BY <1>9, <2>1 DEF RepInv, OwnWork, At, HookParty, HookOf
  <2>2. CASE s = r \/ t = r
    BY <1>8, <1>9, <2>2 DEF Stored, Hooking
  <2>3. QED
    BY <2>1, <2>2
<1>16. ASSUME NEW s \in Requests, s # r, req[s].pc \in Stored PROVE ~SameReview(x, req[s].review)
  <2>1. ~SameReview(y, req[s].review)
    BY <1>1, <1>16 DEF RepInv, OwnWork, Stored
  <2>2. QED
    BY <1>2, <2>1 DEF SameReview
<1>17. ASSUME NEW v \in People PROVE Counted(v)' = Counted(v) /\ CompletedBy(v)' = CompletedBy(v)
  <2>1. \A s \in Requests :
          /\ req'[s].pc \in {"load", "save"} <=> req[s].pc \in {"load", "save"}
          /\ req'[s].pc \in {"hook.load", "hook.save"} <=> req[s].pc \in {"hook.load", "hook.save"}
          /\ req[s].pc \in {"load", "save", "hook.load", "hook.save"} =>
               req'[s].review = req[s].review /\ req'[s].left = req[s].left
    BY <1>1, <1>8, <1>9
  <2>2. Counted(v)' = Counted(v)
    BY <1>7, <2>1 DEF Counted
  <2>3. \A o \in Operations, k \in Roles :
          (\A s \in Requests : req'[s].pc \in {"hook.load", "hook.save"} /\ req'[s].review.operation = o
                                 => k \notin req'[s].left)
            <=> \A s \in Requests : req[s].pc \in {"hook.load", "hook.save"} /\ req[s].review.operation = o
                                      => k \notin req[s].left
    BY <2>1
  <2>4. CompletedBy(v)' = CompletedBy(v)
    BY <1>7, <2>3 DEF CompletedBy
  <2>5. QED
    BY <2>2, <2>4
<1> DEFINE g == <<x.operation, x.to>>
<1>18. /\ g \notin Given(p)
       /\ \A v \in People : Given(v)' = IF v = p THEN Given(v) \cup {g} ELSE Given(v)
  <2> DEFINE Free(z) == \A s \in Requests : req[s].pc \in {"load", "save", "given"} =>
                          ~SameReview(z, req[s].review)
             FreeNext(z) == \A s \in Requests : req'[s].pc \in {"load", "save", "given"} =>
                              ~SameReview(z, req'[s].review)
             Of(v) == {z \in reviews : Reviewer(z) = v /\ Free(z)}
             OfNext(v) == {z \in reviews : Reviewer(z) = v /\ FreeNext(z)}
  <2>1. \A z \in reviews : SameReview(z, y) <=> z = x
    BY <1>2 DEF RepInv, ReviewsUnique, SameReview
  <2>2. ~Free(x) /\ FreeNext(x)
    BY <1>1, <1>2, <1>8, <1>9, <1>16 DEF Stored
  <2>3. \A z \in reviews : z # x => (Free(z) <=> FreeNext(z))
    BY <1>1, <1>8, <1>9, <2>1
  <2>4. \A v : /\ Given(v) = {<<z.operation, z.to>> : z \in Of(v)}
               /\ Given(v)' = {<<z.operation, z.to>> : z \in OfNext(v)}
    BY <1>7 DEF Given
  <2>5. \A z \in reviews : Reviewer(z) = p /\ <<z.operation, z.to>> = g => z = x
    <3> SUFFICES ASSUME NEW z \in reviews, Reviewer(z) = p, <<z.operation, z.to>> = g PROVE z = x
      OBVIOUS
    <3>1. z \in Reviews /\ z.operation = x.operation /\ z.to = x.to
      BY DEF RepInv, RepTypes
    <3>2. Party[x.operation][z.from] = Party[x.operation][x.from]
      BY <1>3, <3>1 DEF Reviewer
    <3>3. z.from = x.from
      BY <1>3, <3>1, <3>2, PartyAssumption DEF Reviews
    <3>4. QED
      BY <1>2, <3>1, <3>3 DEF RepInv, ReviewsUnique, SameReview
  <2> HIDE DEF Free, FreeNext, y, p
  <2>6. g \notin Given(p)
    <3>1. \A z \in Of(p) : <<z.operation, z.to>> # g
      BY <2>2, <2>5
    <3>2. QED
      BY <2>4, <3>1
  <2>7. ASSUME NEW v \in People
        PROVE  Given(v)' = IF v = p THEN Given(v) \cup {g} ELSE Given(v)
    <3>1. CASE v = p
      <4>1. OfNext(v) = Of(v) \cup {x}
        BY <1>2, <1>3, <2>2, <2>3, <3>1
      <4> HIDE DEF Of, OfNext
      <4>2. {<<z.operation, z.to>> : z \in OfNext(v)} = {<<z.operation, z.to>> : z \in Of(v)} \cup {g}
        BY <4>1
      <4>3. QED
        BY <2>4, <3>1, <4>2
    <3>2. CASE v # p
      <4>1. OfNext(v) = Of(v)
        BY <1>3, <2>3, <3>2
      <4> HIDE DEF Of, OfNext
      <4>2. QED
        BY <2>4, <3>2, <4>1
    <3>3. QED
      BY <3>1, <3>2
  <2>8. QED
    BY <2>6, <2>7
<1>19. ReputationTellsHistory'
  <2>1. \A v \in People : Tells(users[v], Counted(v), Given(v), CompletedBy(v))
    BY TellsAll DEF RepInv
  <2>2. ASSUME NEW v \in People PROVE Tells(users'[v], Counted(v)', Given(v)', CompletedBy(v)')
    <3>1. CASE v # p
      BY <1>10, <1>17, <1>18, <2>1, <3>1
    <3>2. CASE v = p
      <4> DEFINE C == Counted(v)
                 G == Given(v)
                 O == CompletedBy(v)
      <4>1. Counted(v)' = C /\ Given(v)' = G \cup {g} /\ g \notin G /\ CompletedBy(v)' = O
        BY <1>17, <1>18, <3>2
      <4>2. IsFiniteSet(G)
        BY GivenFinite
      <4>3. Tells(u, C, G, O)
        BY <2>1, <3>2
      <4> HIDE DEF C, G, O, g
      <4>4. Cardinality(G \cup {g}) = Cardinality(G) + 1
        BY <4>1, <4>2, FS_AddElement
      <4>5. Tells(w, C, G \cup {g}, O)
        BY <1>5, <4>3, <4>4 DEF Tells
      <4>6. QED
        BY <1>10, <3>2, <4>1, <4>5
    <3>3. QED
      BY <3>1, <3>2
  <2>3. QED
    BY <2>2, TellsNext
<1>20. QED
  BY <1>11, <1>12, <1>14, <1>15, <1>19 DEF RepInv

----------------------------------------------------------------------------
(* The completion of an operation is counted.                              *)

\* What a person has completed is only so much.
LEMMA CompletedByFinite ==
  ASSUME RepInv, NEW p
  PROVE  IsFiniteSet(CompletedBy(p))
BY FS_Subset DEF RepInv, CompletedFinite, CompletedBy

\* An operation is completed; its parties have still to be counted.
LEMMA RepComplete ==
  ASSUME RepInv, NEW r \in Requests, NEW o \in Operations, Complete(r, o)
  PROVE  RepInv'
<1> DEFINE x == [IdleRequest.review EXCEPT !.operation = o]
           q == [IdleRequest EXCEPT !.pc = "hook.load", !.review = x, !.left = Roles]
<1>1. q.pc = "hook.load" /\ q.review.operation = o /\ q.left = Roles /\ q \in RequestFields
  <2>1. IdleRequest.review \in ReviewFields
    BY UserTypes DEF RequestFields
  <2>2. x \in ReviewFields /\ x.operation = o
    BY <2>1 DEF ReviewFields
  <2> HIDE DEF x
  <2>3. QED
    BY <2>2, UserTypes DEF RequestFields, Steps
<1>2. req[r].pc = "idle" /\ req' = [req EXCEPT ![r] = q]
  <2>1. [IdleRequest EXCEPT !.pc = "hook.load", !.review.operation = o, !.left = Roles] = q
    BY UserTypes DEF RequestFields
  <2>2. QED
    BY <2>1 DEF Complete, Begin
<1>3. /\ ~operations[o].completed /\ UNCHANGED <<reviews, users>>
      /\ operations' = [operations EXCEPT ![o] = [completed |-> TRUE, open |-> TRUE]]
  BY DEF Complete
<1> HIDE DEF q
<1>4. req'[r] = q /\ \A s \in Requests : s # r => req'[s] = req[s]
  BY <1>2 DEF RepInv, RepTypes
<1>5. operations'[o].completed /\ \A i \in Operations : i # o => operations'[i] = operations[i]
  BY <1>3 DEF RepInv, RepTypes
<1>6. RepTypes'
  <2>1. req' \in [Requests -> RequestFields]
    BY <1>1, <1>2 DEF RepInv, RepTypes
  <2>2. QED
    BY <1>3, <2>1 DEF RepInv, RepTypes
<1>7. ReviewsUnique'
  BY <1>3 DEF RepInv, ReviewsUnique
<1>8. CompletedFinite'
  <2>1. {i \in Operations : operations'[i].completed} = {i \in Operations : operations[i].completed} \cup {o}
    BY <1>5
  <2>2. IsFiniteSet({i \in Operations : operations[i].completed} \cup {o})
    BY FS_AddElement DEF RepInv, CompletedFinite
  <2>3. QED
    BY <2>1, <2>2 DEF CompletedFinite
<1>9. ASSUME NEW s \in Requests PROVE ReviewKnown(req[s])' /\ HookKnown(req[s])'
  <2>1. CASE s = r
    <3>1. Roles # {}
      BY DEF Roles
    <3>2. QED
      BY <1>1, <1>4, <1>5, <2>1, <3>1 DEF ReviewKnown, HookKnown, Reviewing, Stored
  <2>2. CASE s # r
    <3>1. req'[s] = req[s] /\ ReviewKnown(req[s]) /\ HookKnown(req[s])
      BY <1>4, <2>2 DEF RepInv
    <3>2. ReviewKnown(req[s])'
      BY <1>3, <3>1 DEF ReviewKnown
    <3>3. HookKnown(req[s])'
      BY <1>3, <1>5, <3>1 DEF HookKnown
    <3>4. QED
      BY <3>2, <3>3
  <2>3. QED
    BY <2>1, <2>2
<1>10. ASSUME NEW s \in Requests, s # r, req[s].pc \in Hooking PROVE req[s].review.operation # o
  BY <1>3, <1>10 DEF RepInv, HookKnown
<1>11. OwnWork'
  <2>1. q.pc \notin Stored /\ q.pc # "save" /\ q.pc # "hook.save"
    BY <1>1 DEF Stored
  <2> SUFFICES ASSUME NEW s \in Requests, NEW t \in Requests, s # t
               PROVE  /\ req'[s].pc \in Stored /\ req'[t].pc \in Stored =>
                           ~SameReview(req'[s].review, req'[t].review)
                      /\ req'[s].pc = "save" /\ req'[t].pc = "save" =>
                           Reviewee(req'[s].review) # Reviewee(req'[t].review)
                      /\ req'[s].pc \in Hooking /\ req'[t].pc \in Hooking =>
                           req'[s].review.operation # req'[t].review.operation
                      /\ req'[s].pc = "hook.save" /\ req'[t].pc = "hook.save" =>
                           HookOf(req'[s]) # HookOf(req'[t])
    BY DEF OwnWork, At, HookParty, HookOf
  <2>2. CASE s # r /\ t # r
    BY <1>4, <2>2 DEF RepInv, OwnWork, At, HookParty, HookOf
  <2>3. CASE s = r /\ t # r
    BY <1>1, <1>4, <1>10, <2>1, <2>3
  <2>4. CASE s # r /\ t = r
    BY <1>1, <1>4, <1>10, <2>1, <2>4
  <2>5. QED
    BY <2>2, <2>3, <2>4
<1>12. ASSUME NEW p \in People
       PROVE  Counted(p)' = Counted(p) /\ Given(p)' = Given(p) /\ CompletedBy(p)' = CompletedBy(p)
  <2>1. \A s \in Requests :
          /\ req'[s].pc \in {"load", "save"} <=> req[s].pc \in {"load", "save"}
          /\ req'[s].pc \in {"load", "save", "given"} <=> req[s].pc \in {"load", "save", "given"}
          /\ req[s].pc \in {"load", "save", "given"} => req'[s].review = req[s].review
    BY <1>1, <1>2, <1>4
  <2>2. Counted(p)' = Counted(p)
    BY <1>3, <2>1 DEF Counted
  <2>3. \A y \in reviews :
          (\A s \in Requests : req'[s].pc \in {"load", "save", "given"} => ~SameReview(y, req'[s].review))
            <=> \A s \in Requests : req[s].pc \in {"load", "save", "given"} => ~SameReview(y, req[s].review)
    BY <2>1
  <2>4. {y \in reviews : /\ Reviewer(y) = p
                         /\ \A s \in Requests : req'[s].pc \in {"load", "save", "given"} =>
                              ~SameReview(y, req'[s].review)}
          = {y \in reviews : /\ Reviewer(y) = p
                             /\ \A s \in Requests : req[s].pc \in {"load", "save", "given"} =>
                                  ~SameReview(y, req[s].review)}
    BY <2>3
  <2>5. Given(p)' = Given(p)
    BY <1>3, <2>4 DEF Given
  <2> DEFINE Free(i, k) == \A s \in Requests :
               req[s].pc \in {"hook.load", "hook.save"} /\ req[s].review.operation = i => k \notin req[s].left
             FreeNext(i, k) == \A s \in Requests :
               req'[s].pc \in {"hook.load", "hook.save"} /\ req'[s].review.operation = i => k \notin req'[s].left
  <2>6. \A i \in Operations, k \in Roles : i # o => (Free(i, k) <=> FreeNext(i, k))
    BY <1>1, <1>2, <1>4
  <2>7. \A k \in Roles : ~FreeNext(o, k)
    BY <1>1, <1>4
  <2>8. /\ CompletedBy(p) = {i \in Operations : /\ operations[i].completed
                                                /\ \E k \in Roles : Party[i][k] = p /\ Free(i, k)}
        /\ CompletedBy(p)' = {i \in Operations : /\ operations'[i].completed
                                                 /\ \E k \in Roles : Party[i][k] = p /\ FreeNext(i, k)}
    BY DEF CompletedBy
  <2> HIDE DEF Free, FreeNext
  <2>9. CompletedBy(p)' = CompletedBy(p)
    BY <1>3, <1>5, <2>6, <2>7, <2>8
  <2>10. QED
    BY <2>2, <2>5, <2>9
<1>13. ReputationTellsHistory'
  <2>1. ReputationTellsHistory
    BY DEF RepInv
  <2>2. \A p \in People : Tells(users'[p], Counted(p)', Given(p)', CompletedBy(p)')
    BY <1>3, <1>12, <2>1, TellsAll
  <2>3. QED
    BY <2>2, TellsNext
<1>14. QED
  BY <1>6, <1>7, <1>8, <1>9, <1>11, <1>13 DEF RepInv

\* A party is saved with the operation counted, and the next one has its turn.
LEMMA RepHookSave ==
  ASSUME RepInv, NEW r \in Requests, HookSave(r)
  PROVE  RepInv'
<1> DEFINE o == req[r].review.operation
           turn == Turn(req[r].left)
           p == Party[o][turn]
           left == req[r].left \ {turn}
           u == users[p]
           w == [u EXCEPT !.completed = u.completed + 1]
           next == [req[r] EXCEPT !.pc = "hook.load", !.left = left, !.copy = NewUser]
           q == IF left = {} THEN IdleRequest ELSE next
<1>1. /\ req[r] \in RequestFields /\ req[r].pc = "hook.save"
      /\ o \in Operations /\ operations[o].completed /\ req[r].left # {}
      /\ req[r].copy.completed = u.completed
  BY DEF RepInv, RepTypes, HookSave, At, HookKnown, Hooking
<1>2. turn \in Roles /\ turn \in req[r].left
  BY <1>1 DEF Turn, RequestFields, Roles
<1>3. p \in People /\ u \in Users
  BY <1>1, <1>2, PartyAssumption DEF RepInv, RepTypes
<1>4. /\ w \in Users /\ w.overall = u.overall /\ w.roles = u.roles /\ w.received = u.received
      /\ w.given = u.given /\ w.completed = u.completed + 1
  <2>1. ASSUME NEW v \in Users
        PROVE  LET z == [v EXCEPT !.completed = v.completed + 1] IN
                 /\ z \in Users /\ z.overall = v.overall /\ z.roles = v.roles
                 /\ z.received = v.received /\ z.given = v.given /\ z.completed = v.completed + 1
    BY DEF Users
  <2> HIDE DEF u
  <2>2. QED
    BY <1>3, <2>1
<1>5. users' = [users EXCEPT ![p] = w]
  BY <1>1, <1>3 DEF HookSave, HookParty, RepInv, RepTypes, Users
<1>6. /\ left # {} => q.pc = "hook.load" /\ q.review = req[r].review /\ q.left = left
      /\ left = {} => q.pc = "idle"
      /\ q \in RequestFields
  BY <1>1, UserTypes DEF RequestFields, Steps, IdleRequest
<1>7. req' = [req EXCEPT ![r] = q] /\ UNCHANGED <<operations, reviews>>
  BY DEF HookSave, RepInv, RepTypes
<1> HIDE DEF w, q, next
<1>8. req'[r] = q /\ \A s \in Requests : s # r => req'[s] = req[s]
  BY <1>7 DEF RepInv, RepTypes
<1>9. users'[p] = w /\ \A v \in People : v # p => users'[v] = users[v]
  BY <1>3, <1>5 DEF RepInv, RepTypes
<1>10. RepTypes'
  <2>1. req' \in [Requests -> RequestFields]
    BY <1>6, <1>7 DEF RepInv, RepTypes
  <2>2. users' \in [People -> Users]
    BY <1>4, <1>5 DEF RepInv, RepTypes
  <2>3. QED
    BY <1>7, <2>1, <2>2 DEF RepInv, RepTypes
<1>11. ReviewsUnique' /\ CompletedFinite'
  BY <1>7 DEF RepInv, ReviewsUnique, CompletedFinite
<1>12. \A v \in People : /\ users'[v].overall = users[v].overall /\ users'[v].roles = users[v].roles
                         /\ users'[v].received = users[v].received
                         /\ users'[v].given = users[v].given
  BY <1>4, <1>9
<1>13. ASSUME NEW s \in Requests PROVE ReviewKnown(req[s])' /\ HookKnown(req[s])'
  <2>1. CASE s = r
    BY <1>1, <1>6, <1>7, <1>8, <2>1 DEF ReviewKnown, HookKnown, Reviewing, Stored, Hooking
  <2>2. CASE s # r
    <3>1. req'[s] = req[s] /\ ReviewKnown(req[s]) /\ HookKnown(req[s])
      BY <1>8, <2>2 DEF RepInv
    <3>2. ASSUME req[s].pc = "save" PROVE Reviewee(req[s].review) \in People
      <4>1. req[s].review \in Reviews
        BY <3>1, <3>2 DEF ReviewKnown, Reviewing
      <4>2. QED
        BY <4>1, PartyAssumption DEF Reviews, Reviewee
    <3>3. ReviewKnown(req[s])'
      BY <1>7, <1>12, <3>1, <3>2 DEF ReviewKnown
    <3>4. ASSUME req[s].pc = "hook.save"
          PROVE  users'[HookOf(req[s])] = users[HookOf(req[s])]
      <4>1. HookOf(req[s]) \in People
        BY <3>1, <3>4, PartyAssumption DEF HookKnown, Hooking, HookOf, Turn, Roles
      <4>2. HookOf(req[s]) # p
        BY <1>1, <2>2, <3>4 DEF RepInv, OwnWork, At, HookParty, HookOf
      <4>3. QED
        BY <1>9, <4>1, <4>2
    <3>5. HookKnown(req[s])'
      BY <1>7, <3>1, <3>4 DEF HookKnown, HookOf
    <3>6. QED
      BY <3>3, <3>5
  <2>3. QED
    BY <2>1, <2>2
<1>14. ASSUME NEW s \in Requests, s # r, req[s].pc \in Hooking PROVE req[s].review.operation # o
  BY <1>1, <1>14 DEF RepInv, OwnWork, Hooking
<1>15. OwnWork'
  <2>1. /\ q.pc \notin Stored /\ q.pc # "save" /\ q.pc # "hook.save"
        /\ q.pc \in Hooking => q.review.operation = o
    BY <1>6 DEF Stored, Hooking
  <2> SUFFICES ASSUME NEW s \in Requests, NEW t \in Requests, s # t
               PROVE  /\ req'[s].pc \in Stored /\ req'[t].pc \in Stored =>
                           ~SameReview(req'[s].review, req'[t].review)
                      /\ req'[s].pc = "save" /\ req'[t].pc = "save" =>
                           Reviewee(req'[s].review) # Reviewee(req'[t].review)
                      /\ req'[s].pc \in Hooking /\ req'[t].pc \in Hooking =>
                           req'[s].review.operation # req'[t].review.operation
                      /\ req'[s].pc = "hook.save" /\ req'[t].pc = "hook.save" =>
                           HookOf(req'[s]) # HookOf(req'[t])
    BY DEF OwnWork, At, HookParty, HookOf
  <2>2. CASE s # r /\ t # r
    BY <1>8, <2>2 DEF RepInv, OwnWork, At, HookParty, HookOf
  <2>3. CASE s = r /\ t # r
    BY <1>8, <1>14, <2>1, <2>3
  <2>4. CASE s # r /\ t = r
    BY <1>8, <1>14, <2>1, <2>4
  <2>5. QED
    BY <2>2, <2>3, <2>4
<1>16. ASSUME NEW v \in People PROVE Counted(v)' = Counted(v) /\ Given(v)' = Given(v)
  <2>1. \A s \in Requests :
          /\ req'[s].pc \in {"load", "save"} <=> req[s].pc \in {"load", "save"}
          /\ req'[s].pc \in {"load", "save", "given"} <=> req[s].pc \in {"load", "save", "given"}
          /\ req[s].pc \in {"load", "save", "given"} => req'[s].review = req[s].review
    BY <1>1, <1>6, <1>8
  <2>2. Counted(v)' = Counted(v)
    BY <1>7, <2>1 DEF Counted
  <2>3. \A y \in reviews :
          (\A s \in Requests : req'[s].pc \in {"load", "save", "given"} => ~SameReview(y, req'[s].review))
            <=> \A s \in Requests : req[s].pc \in {"load", "save", "given"} => ~SameReview(y, req[s].review)
    BY <2>1
  <2>4. {y \in reviews : /\ Reviewer(y) = v
                         /\ \A s \in Requests : req'[s].pc \in {"load", "save", "given"} =>
                              ~SameReview(y, req'[s].review)}
          = {y \in reviews : /\ Reviewer(y) = v
                             /\ \A s \in Requests : req[s].pc \in {"load", "save", "given"} =>
                                  ~SameReview(y, req[s].review)}
    BY <2>3
  <2>5. Given(v)' = Given(v)
    BY <1>7, <2>4 DEF Given
  <2>6. QED
    BY <2>2, <2>5
<1>17. /\ o \notin CompletedBy(p)
       /\ \A v \in People : CompletedBy(v)' = IF v = p THEN CompletedBy(v) \cup {o} ELSE CompletedBy(v)
  <2> DEFINE Free(i, k) == \A s \in Requests :
               req[s].pc \in {"hook.load", "hook.save"} /\ req[s].review.operation = i => k \notin req[s].left
             FreeNext(i, k) == \A s \in Requests :
               req'[s].pc \in {"hook.load", "hook.save"} /\ req'[s].review.operation = i => k \notin req'[s].left
  <2>1. \A i \in Operations, k \in Roles : i # o => (Free(i, k) <=> FreeNext(i, k))
    BY <1>1, <1>6, <1>8
  <2>2. ~Free(o, turn) /\ FreeNext(o, turn)
    <3>1. ~Free(o, turn)
      BY <1>1, <1>2
    <3>2. \A s \in Requests \ {r} : req[s].pc \in {"hook.load", "hook.save"} => req[s].review.operation # o
      BY <1>14 DEF Hooking
    <3>3. q.pc \in {"hook.load", "hook.save"} => turn \notin q.left
      BY <1>6
    <3>4. FreeNext(o, turn)
      BY <1>8, <3>2, <3>3
    <3>5. QED
      BY <3>1, <3>4
  <2>3. \A k \in Roles : k # turn => (Free(o, k) <=> FreeNext(o, k))
    BY <1>1, <1>6, <1>8
  <2>4. \A k \in Roles : Party[o][k] = p => k = turn
    BY <1>1, <1>2, PartyAssumption
  <2>5. \A v : /\ CompletedBy(v) = {i \in Operations : /\ operations[i].completed
                                                       /\ \E k \in Roles : Party[i][k] = v /\ Free(i, k)}
               /\ CompletedBy(v)' = {i \in Operations : /\ operations[i].completed
                                                        /\ \E k \in Roles : Party[i][k] = v /\ FreeNext(i, k)}
    BY <1>7 DEF CompletedBy
  <2> HIDE DEF Free, FreeNext, o, turn
  <2>6. o \notin CompletedBy(p)
    BY <2>2, <2>4, <2>5
  <2>7. ASSUME NEW v \in People
        PROVE  CompletedBy(v)' = IF v = p THEN CompletedBy(v) \cup {o} ELSE CompletedBy(v)
    <3>1. ASSUME NEW i \in Operations, i # o PROVE i \in CompletedBy(v)' <=> i \in CompletedBy(v)
      BY <2>1, <2>5, <3>1
    <3>2. CASE v = p
      <4>1. o \in CompletedBy(v)'
        BY <1>1, <1>2, <2>2, <2>5, <3>2
      <4>2. CompletedBy(v)' \subseteq Operations /\ CompletedBy(v) \subseteq Operations
        BY <2>5
      <4>3. QED
        BY <1>1, <3>1, <3>2, <4>1, <4>2
    <3>3. CASE v # p
      <4>1. \A k \in Roles : Party[o][k] = v => (Free(o, k) <=> FreeNext(o, k))
        BY <2>3, <3>3
      <4>2. o \in CompletedBy(v)' <=> o \in CompletedBy(v)
        BY <1>1, <2>5, <4>1
      <4>3. CompletedBy(v)' \subseteq Operations /\ CompletedBy(v) \subseteq Operations
        BY <2>5
      <4>4. QED
        BY <3>1, <3>3, <4>2, <4>3
    <3>4. QED
      BY <3>2, <3>3
  <2>8. QED
    BY <2>6, <2>7
<1>18. ReputationTellsHistory'
  <2>1. \A v \in People : Tells(users[v], Counted(v), Given(v), CompletedBy(v))
    BY TellsAll DEF RepInv
  <2>2. ASSUME NEW v \in People PROVE Tells(users'[v], Counted(v)', Given(v)', CompletedBy(v)')
    <3>1. CASE v # p
      BY <1>9, <1>16, <1>17, <2>1, <3>1
    <3>2. CASE v = p
      <4> DEFINE C == Counted(v)
                 G == Given(v)
                 O == CompletedBy(v)
      <4>1. Counted(v)' = C /\ Given(v)' = G /\ CompletedBy(v)' = O \cup {o} /\ o \notin O
        BY <1>16, <1>17, <3>2
      <4>2. IsFiniteSet(O)
        BY CompletedByFinite
      <4>3. Tells(u, C, G, O)
        BY <2>1, <3>2
      <4> HIDE DEF C, G, O, o
      <4>4. Cardinality(O \cup {o}) = Cardinality(O) + 1
        BY <4>1, <4>2, FS_AddElement
      <4>5. Tells(w, C, G, O \cup {o})
        BY <1>4, <4>3, <4>4 DEF Tells
      <4>6. QED
        BY <1>9, <3>2, <4>1, <4>5
    <3>3. QED
      BY <3>1, <3>2
  <2>3. QED
    BY <2>2, TellsNext
<1>19. QED
  BY <1>10, <1>11, <1>13, <1>15, <1>18 DEF RepInv

----------------------------------------------------------------------------
(* Time passes.                                                            *)

\* Older reviews say what they said.
LEMMA RepTimePasses ==
  ASSUME RepInv, TimePasses
  PROVE  RepInv'
<1>1. PICK age \in Ages :
        reviews' = {[x EXCEPT !.age = IF @ < age THEN age ELSE @] : x \in reviews}
  BY DEF TimePasses
<1>2. UNCHANGED <<operations, users, req>>
  BY DEF TimePasses
<1> DEFINE Older(x) == [x EXCEPT !.age = IF @ < age THEN age ELSE @]
           h == [x \in reviews |-> Older(x)]
<1>3. reviews' = {h[x] : x \in reviews}
  BY <1>1
<1>4. \A x \in reviews :
        /\ h[x] \in Reviews /\ SameReview(h[x], x) /\ h[x].rating = x.rating
        /\ h[x].public = x.public
  <2> SUFFICES ASSUME NEW x \in Reviews
               PROVE  /\ Older(x) \in Reviews /\ SameReview(Older(x), x) /\ Older(x).rating = x.rating
                      /\ Older(x).public = x.public
    BY DEF RepInv, RepTypes
  <2>1. (IF x.age < age THEN age ELSE x.age) \in Ages
    BY DEF Reviews
  <2>2. QED
    BY <2>1 DEF Reviews, SameReview
<1> HIDE DEF h
<1>5. \A x, y \in reviews : h[x] = h[y] => x = y
  BY <1>4 DEF RepInv, ReviewsUnique, SameReview
<1>6. RepTypes'
  <2>1. IsFiniteSet(reviews') /\ reviews' \subseteq Reviews
    BY <1>3, <1>4, <1>5, SameSize DEF RepInv, RepTypes
  <2>2. QED
    BY <1>2, <2>1 DEF RepInv, RepTypes
<1>7. ReviewsUnique'
  <2> SUFFICES ASSUME NEW x \in reviews, NEW y \in reviews, SameReview(h[x], h[y])
               PROVE  h[x] = h[y]
    BY <1>3 DEF ReviewsUnique
  <2>1. SameReview(x, y)
    BY <1>4 DEF SameReview
  <2>2. QED
    BY <2>1 DEF RepInv, ReviewsUnique
<1>8. CompletedFinite'
  BY <1>2 DEF RepInv, CompletedFinite
<1>9. ASSUME NEW s \in Requests PROVE ReviewKnown(req[s])' /\ HookKnown(req[s])'
  <2>1. ReviewKnown(req[s]) /\ HookKnown(req[s])
    BY DEF RepInv
  <2>2. ReviewKnown(req[s])'
    <3>1. ASSUME req[s].pc \in Stored
          PROVE  \E z \in reviews' : /\ SameReview(z, req[s].review) /\ z.rating = req[s].review.rating
                                     /\ req[s].pc \in {"load", "save"} => z.public
      <4>1. PICK x \in reviews : /\ SameReview(x, req[s].review) /\ x.rating = req[s].review.rating
                                 /\ req[s].pc \in {"load", "save"} => x.public
        BY <2>1, <3>1 DEF ReviewKnown
      <4>2. SameReview(h[x], req[s].review)
        BY <1>4, <4>1 DEF SameReview
      <4>3. QED
        BY <1>3, <1>4, <4>1, <4>2
    <3>2. QED
      BY <1>2, <2>1, <3>1 DEF ReviewKnown
  <2>3. HookKnown(req[s])'
    BY <1>2, <2>1 DEF HookKnown
  <2>4. QED
    BY <2>2, <2>3
<1>10. OwnWork'
  BY <1>2 DEF RepInv, OwnWork, At, HookParty
<1>11. ASSUME NEW p \in People
       PROVE  /\ Counted(p)' = {h[x] : x \in Counted(p)}
              /\ Given(p)' = Given(p) /\ CompletedBy(p)' = CompletedBy(p)
  <2> DEFINE Free(x, steps) == \A s \in Requests : req[s].pc \in steps => ~SameReview(x, req[s].review)
             Of == {x \in reviews : Reviewer(x) = p /\ Free(x, {"load", "save", "given"})}
             OfNext == {z \in reviews' : Reviewer(z) = p /\ Free(z, {"load", "save", "given"})}
  <2>1. \A x \in reviews :
          /\ Free(h[x], {"load", "save"}) <=> Free(x, {"load", "save"})
          /\ Free(h[x], {"load", "save", "given"}) <=> Free(x, {"load", "save", "given"})
          /\ Reviewer(h[x]) = Reviewer(x) /\ Reviewee(h[x]) = Reviewee(x)
          /\ h[x].operation = x.operation /\ h[x].to = x.to
    BY <1>4 DEF SameReview, Reviewer, Reviewee
  <2>2. /\ Counted(p) = {x \in reviews : Reviewee(x) = p /\ x.public /\ Free(x, {"load", "save"})}
        /\ Counted(p)' = {z \in reviews' : Reviewee(z) = p /\ z.public /\ Free(z, {"load", "save"})}
    BY <1>2 DEF Counted
  <2>3. /\ Given(p) = {<<x.operation, x.to>> : x \in Of}
        /\ Given(p)' = {<<z.operation, z.to>> : z \in OfNext}
    BY <1>2 DEF Given
  <2> HIDE DEF Free
  <2>4. Counted(p)' = {h[x] : x \in Counted(p)}
    BY <1>3, <1>4, <2>1, <2>2
  <2>5. OfNext = {h[x] : x \in Of}
    BY <1>3, <2>1
  <2>6. {<<z.operation, z.to>> : z \in OfNext} = {<<x.operation, x.to>> : x \in Of}
    <3>1. \A x \in Of : h[x].operation = x.operation /\ h[x].to = x.to
      BY <2>1
    <3> HIDE DEF Of, OfNext
    <3>2. QED
      BY <2>5, <3>1
  <2>7. CompletedBy(p)' = CompletedBy(p)
    BY <1>2 DEF CompletedBy
  <2>8. QED
    BY <2>3, <2>4, <2>6, <2>7
<1>12. ReputationTellsHistory'
  <2>1. \A p \in People : Tells(users[p], Counted(p), Given(p), CompletedBy(p))
    BY TellsAll DEF RepInv
  <2>2. ASSUME NEW p \in People PROVE Tells(users'[p], Counted(p)', Given(p)', CompletedBy(p)')
    <3> DEFINE C == Counted(p)
               D == {h[x] : x \in C}
               u == users[p]
    <3>1. C \subseteq reviews /\ IsFiniteSet(C)
      BY FS_Subset DEF Counted, RepInv, RepTypes
    <3>2. \A x \in C : x.rating \in Ratings /\ h[x].rating = x.rating /\ h[x].to = x.to
      BY <1>4, <3>1 DEF RepInv, RepTypes, Reviews, SameReview
    <3>3. Tells(u, C, Given(p), CompletedBy(p))
      BY <2>1
    <3>4. \A x, y \in C : h[x] = h[y] => x = y
      BY <1>5, <3>1
    <3> HIDE DEF C
    <3>5. Tally(D) = Tally(C) /\ Cardinality(D) = Cardinality(C)
      BY <3>1, <3>2, <3>4, TallyOlder, SameSize
    <3>6. ASSUME NEW k \in Roles
          PROVE  Tally({z \in D : z.to = k}) = Tally({x \in C : x.to = k})
      <4> DEFINE K == {x \in C : x.to = k}
      <4>1. {z \in D : z.to = k} = {h[x] : x \in K}
        BY <3>2
      <4>2. IsFiniteSet(K) /\ (\A x, y \in K : h[x] = h[y] => x = y)
        BY <3>1, <3>4, FS_Subset
      <4>3. \A x \in K : x.rating \in Ratings /\ h[x].rating = x.rating
        BY <3>2
      <4> HIDE DEF K
      <4>4. Tally({h[x] : x \in K}) = Tally(K)
        BY <4>2, <4>3, TallyOlder
      <4>5. QED
        BY <4>1, <4>4 DEF K
    <3> HIDE DEF D
    <3>7. Tells(u, D, Given(p), CompletedBy(p))
      BY <3>3, <3>5, <3>6 DEF Tells
    <3>8. QED
      BY <1>2, <1>11, <3>7 DEF C, D
  <2>3. QED
    BY <2>2, TellsNext
<1>13. QED
  BY <1>6, <1>7, <1>8, <1>9, <1>10, <1>12 DEF RepInv

\* No more reviews are taken, and those given stand.
LEMMA RepWindowCloses ==
  ASSUME RepInv, NEW o \in Operations, WindowCloses(o)
  PROVE  RepInv'
<1>1. UNCHANGED <<reviews, users, req>> /\ operations' = [operations EXCEPT ![o].open = FALSE]
  BY DEF WindowCloses
<1>2. RepTypes'
  BY <1>1 DEF RepInv, RepTypes
<1>3. \A i \in Operations : operations'[i].completed = operations[i].completed
  BY <1>1 DEF RepInv, RepTypes
<1>4. ReviewsUnique' /\ OwnWork'
  BY <1>1 DEF RepInv, ReviewsUnique, OwnWork, At, HookParty
<1>5. CompletedFinite'
  <2>1. {i \in Operations : operations'[i].completed} = {i \in Operations : operations[i].completed}
    BY <1>3
  <2>2. QED
    BY <2>1 DEF RepInv, CompletedFinite
<1>6. \A s \in Requests : ReviewKnown(req[s])' /\ HookKnown(req[s])'
  BY <1>1, <1>3 DEF RepInv, ReviewKnown, HookKnown
<1>7. ASSUME NEW p \in People
      PROVE  Counted(p)' = Counted(p) /\ Given(p)' = Given(p) /\ CompletedBy(p)' = CompletedBy(p)
  BY <1>1, <1>3 DEF Counted, Given, CompletedBy
<1>8. ReputationTellsHistory'
  <2>1. ReputationTellsHistory
    BY DEF RepInv
  <2>2. \A p \in People : Tells(users'[p], Counted(p)', Given(p)', CompletedBy(p)')
    BY <1>1, <1>7, <2>1, TellsAll
  <2>3. QED
    BY <2>2, TellsNext
<1>9. QED
  BY <1>2, <1>4, <1>5, <1>6, <1>8 DEF RepInv

----------------------------------------------------------------------------
(* The theorem.                                                            *)

\* At the start nothing has been reviewed, and the completed operations are counted.
LEMMA RepInit ==
  ASSUME Init
  PROVE  RepInv
<1>1. /\ \A p \in People :
           LET n == Cardinality({o \in Past : \E k \in Roles : Party[o][k] = p}) IN
             users[p] = [NewUser EXCEPT !.completed = n] /\ n \in Nat
      /\ users = [p \in People |-> users[p]]
  <2>1. \A p : IsFiniteSet({o \in Past : \E k \in Roles : Party[o][k] = p})
    BY FS_Subset, PastAssumption
  <2>2. QED
    BY <2>1, FS_CardinalityType DEF Init
<1>2. ASSUME NEW p \in People
      PROVE  /\ users[p] \in Users /\ users[p].overall = NoTally /\ users[p].roles = [k \in Roles |-> NoTally]
             /\ users[p].received = 0 /\ users[p].given = 0
             /\ users[p].completed = Cardinality({o \in Past : \E k \in Roles : Party[o][k] = p})
  BY <1>1, UserTypes DEF NewUser, Users
<1>3. \A r \in Requests : req[r] = IdleRequest
  BY DEF Init
<1>4. IdleRequest.pc = "idle" /\ IdleRequest \in RequestFields
  BY UserTypes DEF IdleRequest
<1>5. RepTypes
  <2>1. users \in [People -> Users]
    BY <1>1, <1>2
  <2>2. req \in [Requests -> RequestFields]
    BY <1>4 DEF Init
  <2>3. operations \in [Operations -> [completed : BOOLEAN, open : BOOLEAN]]
    BY DEF Init
  <2>4. reviews \subseteq Reviews /\ IsFiniteSet(reviews)
    BY FS_EmptySet DEF Init
  <2>5. QED
    BY <2>1, <2>2, <2>3, <2>4 DEF RepTypes
<1>6. ReviewsUnique
  BY DEF Init, ReviewsUnique
<1>7. \A r \in Requests : ReviewKnown(req[r]) /\ HookKnown(req[r])
  BY <1>3, <1>4 DEF ReviewKnown, HookKnown, Reviewing, Stored, Hooking
<1>8. OwnWork
  BY <1>3, <1>4 DEF OwnWork, At, Stored, Hooking
<1>9. {o \in Operations : operations[o].completed} = Past
  BY PastAssumption DEF Init
<1>10. CompletedFinite
  BY <1>9, PastAssumption DEF CompletedFinite
<1>11. ASSUME NEW p \in People
       PROVE  /\ Counted(p) = {} /\ Given(p) = {}
              /\ CompletedBy(p) = {o \in Past : \E k \in Roles : Party[o][k] = p}
  BY <1>3, <1>4, <1>9 DEF Init, Counted, Given, CompletedBy
<1>12. ReputationTellsHistory
  <2>1. ASSUME NEW p \in People PROVE Tells(users[p], Counted(p), Given(p), CompletedBy(p))
    <3>1. \A k \in Roles : {x \in {} : x.to = k} = {}
      OBVIOUS
    <3>2. QED
      BY <1>2, <1>11, <3>1, TallyEmpty, FS_EmptySet DEF Tells
  <2>2. QED
    BY <2>1, TellsAll
<1>13. QED
  BY <1>5, <1>6, <1>7, <1>8, <1>10, <1>12 DEF RepInv

\* Every step keeps the invariant.
LEMMA RepNext ==
  ASSUME OneAtATime, RepInv, [Next]_vars
  PROVE  RepInv'
<1>1. ASSUME NEW r \in Requests,
             \/ StartReview(r) \/ ReviewFind(r) \/ ReviewFlags(r)
             \/ ReviewCreate(r) \/ AggregateLoad(r) \/ AggregateSave(r) \/ CountGiven(r)
             \/ \E o \in Operations : Complete(r, o)
             \/ HookLoad(r) \/ HookSave(r)
      PROVE  RepInv'
  BY <1>1, RepStartReview, RepFind, RepFlags, RepCreate, RepAggregateLoad, RepAggregateSave,
     RepCountGiven, RepComplete, RepHookLoad, RepHookSave
<1>2. CASE UNCHANGED vars
  <2>1. UNCHANGED <<operations, reviews, users, req>>
    BY <1>2 DEF vars
  <2>2. RepTypes' /\ ReviewsUnique' /\ OwnWork' /\ CompletedFinite'
    BY <2>1 DEF RepInv, RepTypes, ReviewsUnique, OwnWork, At, HookParty, CompletedFinite
  <2>3. \A r \in Requests : ReviewKnown(req[r])' /\ HookKnown(req[r])'
    BY <2>1 DEF RepInv, ReviewKnown, HookKnown
  <2>4. ASSUME NEW p \in People
        PROVE  Counted(p)' = Counted(p) /\ Given(p)' = Given(p) /\ CompletedBy(p)' = CompletedBy(p)
    BY <2>1 DEF Counted, Given, CompletedBy
  <2>5. \A p \in People : Tells(users'[p], Counted(p)', Given(p)', CompletedBy(p)')
    BY <2>1, <2>4, TellsAll DEF RepInv
  <2>6. QED
    BY <2>2, <2>3, <2>5, TellsNext DEF RepInv
<1>3. QED
  BY <1>1, <1>2, RepTimePasses, RepWindowCloses DEF Next

\* Where no two updates of one user overlap, the ratings and counters of every user
\* are what the stored reviews and the completed operations say, at every step of
\* every interleaving of reviews, repeated submissions and completions
\* (reviews/service.ts:371-406, 467-530).
THEOREM CountersAreKept ==
  ASSUME OneAtATime
  PROVE  Spec => []ReputationTellsHistory
<1>1. Init => RepInv
  BY RepInit
<1>2. RepInv /\ [Next]_vars => RepInv'
  BY RepNext
<1>3. RepInv => ReputationTellsHistory
  BY DEF RepInv
<1>4. QED
  BY <1>1, <1>2, <1>3, PTL DEF Spec

=============================================================================
