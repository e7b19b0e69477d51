---------------------------- MODULE MCAgentDaemon ----------------------------
(* An instance of AgentDaemon for TLC. *)
EXTENDS AgentDaemon
=============================================================================
