---------------------------- MODULE ActionContract ----------------------------
(***************************************************************************)
(* What the Bridge promises the Agent about request ids (docs/protocol.md,  *)
(* ActionEngine.submit): at most one request runs at a time, a request that *)
(* has a result keeps that result and is not run again, and the Bridge      *)
(* forgets a result only because its memory is full or because it restarts. *)
(***************************************************************************)
EXTENDS Naturals, FiniteSets

CONSTANTS Requests,   \* request ids
          Verdicts,   \* final statuses of a request
          Capacity    \* how many results the Bridge remembers

VARIABLES known,      \* what the Bridge knows of each request
          up          \* whether the server is running

Remembered(k) == {r \in Requests : k[r] \in Verdicts}
Running(k)    == {r \in Requests : k[r] = "running"}

Init ==
    /\ known = [r \in Requests |-> "fresh"]
    /\ up = TRUE

\* One call into the engine of a running server, the last one included.  It may
\* end the running request, answer or start another, and drop old results for
\* the new ones; a step that drops anything leaves the memory full.
Serve ==
    /\ up = TRUE
    /\ known' \in [Requests -> {"fresh", "running"} \cup Verdicts]
    /\ Cardinality(Running(known')) <= 1
    /\ \A r \in Remembered(known) : known'[r] \in {known[r], "fresh"}
    /\ (\E r \in Requests : known[r] # "fresh" /\ known'[r] = "fresh") =>
           Cardinality(Remembered(known')) = Capacity
    /\ up' \in BOOLEAN

\* The process ends or begins, and what it knew is gone.
Restart ==
    /\ ~up \/ ~up'
    /\ known' = [r \in Requests |-> "fresh"]
    /\ up' \in BOOLEAN

Next == Serve \/ Restart

Spec == Init /\ [][Next]_<<known, up>>
==============================================================================
