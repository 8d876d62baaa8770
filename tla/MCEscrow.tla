------------------------------ MODULE MCEscrow ------------------------------
(***************************************************************************)
(* Instances of Escrow for TLC: the sets of handlers the runs put against  *)
(* each other.                                                             *)
(***************************************************************************)
EXTENDS Escrow, TLC

\* Requests are interchangeable, and so are disputes.
Symmetry == Permutations(Requests) \cup Permutations(DisputeIds)

Funding == {"checkout", "webhook", "agentAccept"}

Resolving == {"openDispute", "RESUME", "CANCEL", "COMPLETE_WITH_REFUND"}

Delivering ==
  {"finalize", "acceptProduct", "confirmArrival", "confirmDelivery", "autoComplete"}

\* Every way to settle an operation, with the verification that opens them.
SettlementHandlers ==
  Funding \cup Resolving \cup {"finalize", "acceptProduct", "reject", "release", "releaseDue"}

\* The payment of a full escrow, from checkout to release, refund or dispute.
FullEscrowHandlers ==
  Funding \cup {"sync", "heal", "finalize", "reject", "release", "openDispute", "CANCEL"}

\* The delivery and its timer jobs.
DeliveryHandlers == Funding \cup Delivering \cup {"remind", "heal"}

=============================================================================
