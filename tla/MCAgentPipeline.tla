-------------------------- MODULE MCAgentPipeline --------------------------
(* One posting, everything that can happen to it.                          *)
EXTENDS AgentPipeline
=============================================================================
