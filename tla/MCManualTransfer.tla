-------------------------- MODULE MCManualTransfer --------------------------
(***************************************************************************)
(* An instance of ManualTransfer for TLC.                                  *)
(***************************************************************************)
EXTENDS ManualTransfer, TLC

CONSTANTS a1, a2

Symmetry == Permutations(Agents)

Sale(price, payer, tip, creator) ==
  [price |-> price, payer |-> payer, tip |-> tip, initiatedBy |-> creator]

\* Prices below a tier, at one and below what covers the commission, every way to
\* pay it, and tips that count and that do not.
MCTerms ==
  {Sale(799999, "BUYER", 500, "BUYER"), Sale(800000, "SELLER", 500, "SELLER"),
   Sale(39999, "SELLER", 0, "SELLER"), Sale(20001, "SPLIT_50_50", 0, "BUYER")}

=============================================================================
