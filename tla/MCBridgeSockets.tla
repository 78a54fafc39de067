---------------------------- MODULE MCBridgeSockets ----------------------------
(***************************************************************************)
(* Constants of the runs of BridgeSockets.                                   *)
(***************************************************************************)
EXTENDS BridgeSockets, TLC

CONSTANTS k1, k2, k3, n1, n2, n3
==============================================================================
