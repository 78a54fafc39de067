----------------------------- MODULE MCRndCycle -----------------------------
(* Constants of the runs of RndCycle. *)
EXTENDS RndCycle

CONSTANTS p1, p2
============================================================================
