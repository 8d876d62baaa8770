---------------------------- MODULE MCAgreement ----------------------------
(***************************************************************************)
(* An instance of OperationAgreement for TLC.                              *)
(***************************************************************************)
EXTENDS OperationAgreement, TLC

CONSTANTS asked, cheap, buyer

MCProposal == [terms |-> asked, price |-> cheap, payer |-> buyer]

\* Requests are interchangeable, and so are the people who hold the link.
Symmetry == Permutations(Requests) \cup Permutations(People)

=============================================================================
