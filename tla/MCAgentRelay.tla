--------------------------- MODULE MCAgentRelay ---------------------------
(* Instances of AgentRelay for TLC.                                        *)
EXTENDS AgentRelay
CONSTANTS c1, c2, c3, c4
===========================================================================
