--------------------------- MODULE MCMaidController ---------------------------
(***************************************************************************)
(* Instances of MaidController for TLC.                                     *)
(***************************************************************************)
EXTENDS MaidController, TLC

CONSTANTS work,    \* a navigating or block action: a TASK lease
          fight,   \* attack_entity: a COMBAT lease
          eat,     \* an action that needs no lease
          look,    \* an observation
          halt,    \* cancel_action or stop
          junk,    \* a request create() rejects
          m1, m2   \* maids

McKind == work :> "task" @@ fight :> "combat" @@ eat :> "still" @@ look :> "observe"
          @@ halt :> "stop" @@ junk :> "malformed"

\* The two maids are alike to every safety property.
Symmetry == Permutations({m1, m2})

McKinds == [r \in Requests |-> McKind[r]]
==============================================================================
