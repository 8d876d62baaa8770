---------------------------- MODULE MCReputation ----------------------------
(***************************************************************************)
(* An instance of Reputation for TLC.                                      *)
(***************************************************************************)
EXTENDS Reputation, TLC

CONSTANTS r1, r2, o1, o2, p1, p2, p3

\* The same people, with the buyer and the seller changed over.
MCParty ==
  (o1 :> [BUYER |-> p1, SELLER |-> p2, AGENT |-> p3]) @@
  (o2 :> [BUYER |-> p2, SELLER |-> p1, AGENT |-> p3])

\* Buyer and seller about each other, in both.
MCAsked ==
  {<<o1, <<"BUYER", "SELLER">>, 5>>, <<o1, <<"BUYER", "SELLER">>, 2>>,
   <<o1, <<"SELLER", "BUYER">>, 5>>,
   <<o2, <<"SELLER", "BUYER">>, 5>>, <<o2, <<"BUYER", "SELLER">>, 2>>}

Symmetry == Permutations(Requests)

=============================================================================
