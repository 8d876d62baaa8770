---------------------------- MODULE MCAgentJobs ----------------------------
(***************************************************************************)
(* An instance of AgentJobs for TLC.                                       *)
(***************************************************************************)
EXTENDS AgentJobs, TLC

=============================================================================
