---------------------------- MODULE MCAgentGateway ----------------------------
(***************************************************************************)
(* Constants of the runs of AgentGateway.                                    *)
(***************************************************************************)
EXTENDS AgentGateway, TLC

CONSTANTS c1, c2, c3, r1, r2
==============================================================================
