---------------------------- MODULE MCAgentLoop ----------------------------
(* An instance of AgentLoop for TLC.                                        *)
EXTENDS AgentLoop
=============================================================================
