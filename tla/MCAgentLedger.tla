--------------------------- MODULE MCAgentLedger ---------------------------
(***************************************************************************)
(* Instances of AgentLedger for TLC.                                       *)
(***************************************************************************)
EXTENDS AgentLedger, TLC

CONSTANTS a1, a2, c1, c2, c3

\* Two commissions of one agent and one of another.
MCOwner == (c1 :> a1) @@ (c2 :> a2) @@ (c3 :> a1)

MCShare == (c1 :> 2) @@ (c2 :> 1) @@ (c3 :> 1)

\* One commission for each agent.
MCOwnerOfTwo == (c1 :> a1) @@ (c2 :> a2)

MCShareOfTwo == (c1 :> 2) @@ (c2 :> 1)

=============================================================================
