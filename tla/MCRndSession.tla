---------------------------- MODULE MCRndSession ----------------------------
(* The threads are model values; there is no symmetry, for liveness is checked. *)
EXTENDS RndSession
CONSTANTS s1, s2
=============================================================================
