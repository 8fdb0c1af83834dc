------------------------- MODULE MCAgentSupervision -------------------------
(* Two agent processes, and profile.yaml with a scope of its own.          *)
EXTENDS AgentSupervision
=============================================================================
