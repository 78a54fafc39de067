-------------------------- MODULE RndDeliveryProofs --------------------------
(***************************************************************************)
(* What is proved of the research cycle while it runs.  The pipeline alone     *)
(* asks for each review once and earns its results; the pipeline with its      *)
(* workspace and its validator is one of the pipeline's behaviours and hands   *)
(* over only what the validator stands for.                                   *)
(***************************************************************************)
EXTENDS RndDelivery, TLAPS

-----------------------------------------------------------------------------
(* What holds of the pipeline alone. *)

Loop == {"check", "review", "decide", "drive"}

\* A threshold is in the saved checkpoint before the model is asked about it, and
\* a threshold of the checkpoint is never due again.
SavedFirst ==
    /\ \A t \in Thresholds : asked[t] \in {0, 1} /\ (asked[t] = 1 => t \in triggered)
    /\ pc = "review" => \E t \in Thresholds : asked[t] = 1

\* The two paths share the checks and nothing else.
PathsApart ==
    /\ path = "driver" => pc \notin {"propose", "research", "build", "harness", "repair"}
    /\ path = "direct" => /\ pc \notin {"refuse", "prepare", "copied", "attach",
                                        "drive", "validate", "publish"}
                          /\ from \notin {"phase", "phase_end"}

\* The phases are done in their order; only a forced close leaves one out, and
\* never the last.
PhasesInOrder ==
    path = "driver" =>
        /\ pc \in Loop =>
             /\ from \in {"phase", "phase_end"} /\ phase \in Phases
             /\ ~forced => 1..(phase - 1) \subseteq done
             /\ from = "phase_end" => phase \in done
        /\ pc = "validate" /\ allOk => FINALIZE \in done /\ (~forced => done = Phases)

\* A good result is the last thing a run writes.
GoodIsLast == result \in {"COMPLETED", "STAGE_COMPLETED"} => pc \in {"publish", "ended"}

PipelineInv ==
    TypeOK /\ SavedFirst /\ PathsApart /\ PhasesInOrder /\ GoodIsLast /\ OutcomeEarned

-----------------------------------------------------------------------------
(* What the validator adds. *)

Compiled == {"suites", "bridge", "extra", "addon", "collect", "passed"}
Tested   == Compiled \ {"suites"}
Bridged  == Tested \ {"bridge"}

\* A validator runs at the end of the driver path and nowhere else.
RunsAtEnd == pc # "validate" => step = "idle"

\* How far it has come says what it has seen of the workspace as it is now.
SeenSoFar ==
    /\ step \in Compiled \cup {"areas", "compile"} => changed = Touched
    /\ step \in Compiled \cup {"compile"} =>
         /\ changed \subseteq AllowedAreas
         /\ ImplementationRequired => ~(changed \subseteq {Notes})
    /\ step \in Tested /\ ~failed =>
         \A a \in changed \cap PythonAreas : area[a] \notin {"failing", "malformed"}
    /\ step \in Bridged /\ ~failed => (Bridge \in changed => area[Bridge] # "failing")
    /\ step \in {"collect", "passed"} /\ target = "NEW_FORGE_ADDON" => area[Project] = "fine"
    /\ step = "passed" => ~failed

AreaMap == area = [a \in Areas |-> area[a]]

DeliveryInv ==
    /\ PipelineInv /\ ValidatorTypeOK /\ AreaMap
    /\ RunsAtEnd /\ SeenSoFar /\ DeliveredIsSound

-----------------------------------------------------------------------------
(* The operators of the pipeline. *)

\* The least of some phases, or thresholds, is one of them and none is before it.
LEMMA LeastOf ==
    ASSUME NEW S \in SUBSET (1..6), S # {}
    PROVE  Min(S) \in S /\ \A q \in S : Min(S) <= q
<1>1. \A q \in S : q = 1 \/ q = 2 \/ q = 3 \/ q = 4 \/ q = 5 \/ q = 6
    OBVIOUS
<1>2. \E m \in S : \A q \in S : m <= q
  <2>1. CASE 1 \in S
      BY <1>1, <2>1
  <2>2. CASE 1 \notin S /\ 2 \in S
      BY <1>1, <2>2
  <2>3. CASE 1 \notin S /\ 2 \notin S /\ 3 \in S
      BY <1>1, <2>3
  <2>4. CASE {1, 2, 3} \cap S = {} /\ 4 \in S
      BY <1>1, <2>4
  <2>5. CASE {1, 2, 3, 4} \cap S = {} /\ 5 \in S
      BY <1>1, <2>5
  <2>6. CASE {1, 2, 3, 4, 5} \cap S = {}
    <3>1. \A q \in S : q = 6
        BY <1>1, <2>6
    <3>2. 6 \in S
        BY <3>1
    <3>. QED BY <3>1, <3>2
  <2>. QED BY <2>1, <2>2, <2>3, <2>4, <2>5, <2>6
<1>. QED BY <1>2 DEF Min

\* And the greatest: a mirror image.
LEMMA GreatestOf ==
    ASSUME NEW S \in SUBSET (1..6), S # {}
    PROVE  Max(S) \in S
<1>. DEFINE T == {7 - q : q \in S}
<1>1. T \in SUBSET (1..6) /\ T # {}
  <2>1. PICK r \in S : TRUE
      OBVIOUS
  <2>2. 7 - r \in T
      OBVIOUS
  <2>3. \A q \in S : 7 - q \in 1..6
      OBVIOUS
  <2>. QED BY <2>2, <2>3
<1>2. Min(T) \in T /\ \A q \in T : Min(T) <= q
    BY <1>1, LeastOf
<1>3. PICK m \in S : Min(T) = 7 - m
    BY <1>2
<1>4. \A q \in S : m >= q
  <2>1. TAKE q \in S
  <2>2. 7 - q \in T
      OBVIOUS
  <2>3. Min(T) <= 7 - q
      BY <1>2, <2>2
  <2>4. 7 - m <= 7 - q
      BY <1>3, <2>3
  <2>5. m \in Int /\ q \in Int
      OBVIOUS
  <2>. HIDE DEF T
  <2>. QED BY <2>4, <2>5
<1>. QED BY <1>4 DEF Max

LEMMA FirstOpenIs ==
    ASSUME done' \subseteq Phases, NEW p \in 1..6
    PROVE  /\ FirstOpen(p) \in p..6
           /\ FirstOpen(p) \notin done'
           /\ p..(FirstOpen(p) - 1) \subseteq done'
<1>. DEFINE S == {q \in p..6 : q \notin done'}
<1>1. S \in SUBSET (1..6) /\ 6 \in S
    BY DEF Phases
<1>2. Min(S) \in S /\ \A q \in S : Min(S) <= q
    BY <1>1, LeastOf
<1>3. FirstOpen(p) = Min(S)
    BY DEF FirstOpen
<1>. HIDE DEF S
<1>4. FirstOpen(p) \in S /\ \A q \in S : FirstOpen(p) <= q
    BY <1>2, <1>3
<1>. QED BY <1>4 DEF S

\* The threshold that is taken up is due.
LEMMA DueFirst ==
    ASSUME Due # {}
    PROVE  Min(Due) \in Thresholds /\ Min(Due) \notin triggered
<1>1. Due \in SUBSET (1..6)
    BY DEF Due, Thresholds
<1>2. Min(Due) \in Due
    BY <1>1, LeastOf
<1>. QED BY <1>2 DEF Due

\* The review under way is that of a threshold.
LEMMA AskedIs ==
    ASSUME SavedFirst, pc = "review"
    PROVE  Asked \in Thresholds
<1>. DEFINE S == {t \in Thresholds : asked[t] > 0}
<1>1. S # {} /\ S \in SUBSET (1..6)
    BY DEF SavedFirst, Thresholds
<1>2. Max(S) \in S
    BY <1>1, GreatestOf
<1>. QED BY <1>2 DEF Asked

\* What follows an attempt: a result is written with the end and not without it,
\* and a good one only after a build.
LEMMA AfterIs ==
    ASSUME NEW r \in {"ok", "failed", "analysis"}, NEW i \in 1..2, After(r, i)
    PROVE  \/ pc' \in {"check", "repair"} /\ from' = "repair" /\ result' = result
           \/ /\ pc' = "ended" /\ from' = from
              /\ result' \in {"FAILED", "WAITING_USER"} \cup
                              (IF r = "ok" THEN {"COMPLETED", "STAGE_COMPLETED"} ELSE {})
<1>1. CASE r = "failed" /\ i = 1 /\ level' < FORCE_CLOSE
    BY <1>1 DEF After, Go
<1>2. CASE ~(r = "failed" /\ i = 1 /\ level' < FORCE_CLOSE)
  <2>1. CASE r = "ok"
      BY <1>2, <2>1 DEF After, Go, Close, Write
  <2>2. CASE r = "analysis"
      BY <1>2, <2>2 DEF After, Go, Close, Write
  <2>3. CASE r = "failed"
      BY <1>2, <2>3 DEF After, Go, Close, Write
  <2>. QED BY <2>1, <2>2, <2>3
<1>. QED BY <1>1, <1>2

\* A run builds without more ado, or what follows is what follows an attempt.
LEMMA BuildIs ==
    ASSUME TypeOK, Build
    PROVE  /\ \/ pc' = "harness" /\ UNCHANGED <<attempt, result, from>>
              \/ \E r \in {"ok", "failed", "analysis"} :
                    After(r, n) /\ (r = "ok" => attempt[n] = "ok" /\ UNCHANGED attempt)
           /\ attempt' \in [1..2 -> Attempts] /\ ws' \in {ws, "ready"} /\ UNCHANGED level
<1>1. n \in 1..2 /\ attempt \in [1..2 -> Attempts] /\ attempt[n] \in Attempts
    BY DEF TypeOK
<1>2. attempt' \in [1..2 -> Attempts] /\ ws' \in {ws, "ready"} /\ UNCHANGED level
    BY <1>1 DEF Build, Attempts
<1>3. CASE attempt[n] = "none" /\ ws = "none"
    BY <1>2, <1>3 DEF Build, Go
<1>4. CASE attempt[n] = "none" /\ ws # "none"
  <2>1. After("failed", n)
      BY <1>4 DEF Build
  <2>. QED BY <1>2, <2>1
<1>5. CASE attempt[n] = "cancelled"
    BY <1>2, <1>5 DEF Build, Go
<1>6. CASE attempt[n] = "prepare_failed"
  <2>1. After("failed", n)
      BY <1>6 DEF Build
  <2>. QED BY <1>2, <2>1
<1>7. CASE attempt[n] \in {"ok", "failed", "analysis"}
  <2>1. After(attempt[n], n) /\ UNCHANGED attempt
      BY <1>7 DEF Build
  <2>. QED BY <1>2, <1>7, <2>1
<1>. QED BY <1>1, <1>3, <1>4, <1>5, <1>6, <1>7 DEF Attempts

LEMMA TypeKept ==
    ASSUME PipelineInv, [Next]_vars
    PROVE  TypeOK'
<1>. USE DEF PipelineInv
<1>1. CASE Start
  <2>1. path' \in {"driver", "direct"} /\ plan' \in {"none"} \cup Intents /\ ws' \in {"none", "copied", "ready"}
      BY <1>1 DEF Start, diskVars, TypeOK
  <2>2. {proposed', repaired', session', stop', forced', allOk', valid'} \subseteq BOOLEAN
      BY <1>1 DEF Start, diskVars, TypeOK
  <2>3. done' \subseteq Phases /\ triggered' \subseteq Thresholds /\ reviewed' \subseteq triggered'
      BY <1>1 DEF Start, diskVars, budgetVars, TypeOK
  <2>4. level' \in 0..4 /\ n' \in 1..2 /\ breaks' \in 0..MaxBreaks
      BY <1>1, PipelineAssumption DEF Start, budgetVars, TypeOK
  <2>5. attempt' \in [1..2 -> Attempts] /\ asked' \in [Thresholds -> Nat]
      BY <1>1 DEF Start, diskVars, budgetVars, TypeOK
  <2>6. result' \in {"none", "SUSPENDED"} \cup Ended
      BY <1>1 DEF Start, TypeOK
  <2>7. pc' \in Awaits \cup {"off", "prepare", "copied", "attach", "check", "decide", "build", "publish", "ended"}
      BY <1>1 DEF Start, Go, Awaits
  <2>8. from' \in {"scope", "proposal", "repair", "phase", "phase_end"} /\ phase' \in 1..6
      BY <1>1 DEF Start, TypeOK
  <2>. QED BY <2>1, <2>2, <2>3, <2>4, <2>5, <2>6, <2>7, <2>8 DEF TypeOK
<1>2. CASE Refuse
    BY <1>2 DEF Refuse, Go, Close, Write, Spend, diskVars, loopVars, TypeOK, Ended
<1>3. CASE Plan
    BY <1>3 DEF Plan, Go, Spend, loopVars, TypeOK
<1>4. CASE CheckDue
  <2>1. path' \in {"driver", "direct"} /\ plan' \in {"none"} \cup Intents /\ ws' \in {"none", "copied", "ready"}
      BY <1>4 DEF CheckDue, diskVars, TypeOK
  <2>2. {proposed', repaired', session', stop', forced', allOk', valid'} \subseteq BOOLEAN
      BY <1>4 DEF CheckDue, Leave, diskVars, TypeOK
  <2>3. done' \subseteq Phases /\ triggered' \subseteq Thresholds /\ reviewed' \subseteq triggered'
      BY <1>4, DueFirst DEF CheckDue, diskVars, TypeOK
  <2>4. level' \in 0..4 /\ n' \in 1..2 /\ breaks' \in 0..MaxBreaks
      BY <1>4, PipelineAssumption DEF CheckDue, TypeOK
  <2>5. attempt' \in [1..2 -> Attempts] /\ asked' \in [Thresholds -> Nat]
      BY <1>4, DueFirst DEF CheckDue, Leave, diskVars, TypeOK
  <2>6. result' \in {"none", "SUSPENDED"} \cup Ended
      BY <1>4 DEF CheckDue, TypeOK
  <2>7. pc' \in Awaits \cup {"off", "prepare", "copied", "attach", "check", "decide", "build", "publish", "ended"}
      BY <1>4 DEF CheckDue, Go, Leave, Awaits
  <2>8. from' \in {"scope", "proposal", "repair", "phase", "phase_end"} /\ phase' \in 1..6
      BY <1>4 DEF CheckDue, TypeOK
  <2>. QED BY <2>1, <2>2, <2>3, <2>4, <2>5, <2>6, <2>7, <2>8 DEF TypeOK
<1>5. CASE Review
  <2>1. path' \in {"driver", "direct"} /\ plan' \in {"none"} \cup Intents /\ ws' \in {"none", "copied", "ready"}
      BY <1>5 DEF Review, Verdict, diskVars, TypeOK
  <2>2. {proposed', repaired', session', stop', forced', allOk', valid'} \subseteq BOOLEAN
      BY <1>5 DEF Review, Verdict, Leave, diskVars, TypeOK
  <2>3. done' \subseteq Phases /\ triggered' \subseteq Thresholds /\ reviewed' \subseteq triggered'
      BY <1>5, AskedIs DEF Review, Verdict, diskVars, TypeOK
  <2>4. level' \in 0..4 /\ n' \in 1..2 /\ breaks' \in 0..MaxBreaks
      BY <1>5, PipelineAssumption DEF Review, Spend, Verdict, TypeOK
  <2>5. attempt' \in [1..2 -> Attempts] /\ asked' \in [Thresholds -> Nat]
      BY <1>5, AskedIs DEF Review, Verdict, diskVars, TypeOK
  <2>6. result' \in {"none", "SUSPENDED"} \cup Ended
      BY <1>5 DEF Review, Verdict, TypeOK
  <2>7. pc' \in Awaits \cup {"off", "prepare", "copied", "attach", "check", "decide", "build", "publish", "ended"}
      BY <1>5 DEF Review, Go, Verdict, Leave
  <2>8. from' \in {"scope", "proposal", "repair", "phase", "phase_end"} /\ phase' \in 1..6
      BY <1>5 DEF Review, Verdict, TypeOK
  <2>. QED BY <2>1, <2>2, <2>3, <2>4, <2>5, <2>6, <2>7, <2>8 DEF TypeOK
<1>6. CASE CheckDone
    BY <1>6 DEF CheckDone, Go, Leave, diskVars, budgetVars, TypeOK
<1>7. CASE Prepare
    BY <1>7 DEF Prepare, Go, Close, Write, budgetVars, loopVars, TypeOK, Ended
<1>8. CASE Baseline
    BY <1>8 DEF Baseline, Go, budgetVars, loopVars, TypeOK
<1>9. CASE DecidePhase
  <2>1. done' = done /\ done' \subseteq Phases /\ phase \in Phases /\ phase + 1 \in 1..6
      BY <1>9 DEF DecidePhase, PhasesInOrder, PathsApart, Loop, TypeOK, Phases
  <2>2. /\ FirstOpen(phase + 1) \in (phase + 1)..6
        /\ FirstOpen(phase + 1) \notin done'
        /\ (phase + 1)..(FirstOpen(phase + 1) - 1) \subseteq done'
      BY <2>1, FirstOpenIs
  <2>3. phase' \in 1..6 /\ pc' \in {"check", "drive", "validate"} /\ from' \in {from, "phase"}
      BY <1>9, <2>1, <2>2 DEF DecidePhase, Go, Quit, ToPhase, Phases
  <2>4. forced' \in BOOLEAN /\ allOk' \in BOOLEAN
      BY <1>9 DEF DecidePhase, TypeOK
  <2>. QED BY <1>9, <2>1, <2>3, <2>4 DEF DecidePhase, budgetVars, TypeOK, Awaits
<1>10. CASE DecidePhaseEnd
  <2>1. done' = done /\ done' \subseteq Phases /\ phase \in Phases /\ phase + 1 \in 1..6
      BY <1>10 DEF DecidePhaseEnd, PhasesInOrder, PathsApart, Loop, TypeOK, Phases
  <2>2. /\ FirstOpen(phase + 1) \in (phase + 1)..6
        /\ FirstOpen(phase + 1) \notin done'
        /\ (phase + 1)..(FirstOpen(phase + 1) - 1) \subseteq done'
      BY <2>1, FirstOpenIs
  <2>3. phase' \in 1..6 /\ pc' \in {"check", "drive", "validate"} /\ from' \in {from, "phase"}
      BY <1>10, <2>1, <2>2 DEF DecidePhaseEnd, Go, Quit, ToPhase, Phases
  <2>4. forced' \in BOOLEAN /\ allOk' \in BOOLEAN
      BY <1>10 DEF DecidePhaseEnd, TypeOK
  <2>. QED BY <1>10, <2>1, <2>3, <2>4 DEF DecidePhaseEnd, budgetVars, TypeOK, Awaits
<1>11. CASE Publish
    BY <1>11 DEF Publish, Go, Write, diskVars, budgetVars, loopVars, TypeOK, Ended
<1>12. CASE DecideDirect
  <2>1. path' \in {"driver", "direct"} /\ plan' \in {"none"} \cup Intents /\ ws' \in {"none", "copied", "ready"}
      BY <1>12 DEF DecideDirect, diskVars, TypeOK
  <2>2. {proposed', repaired', session', stop', forced', allOk', valid'} \subseteq BOOLEAN
      BY <1>12 DEF DecideDirect, diskVars, TypeOK
  <2>3. done' \subseteq Phases /\ triggered' \subseteq Thresholds /\ reviewed' \subseteq triggered'
      BY <1>12 DEF DecideDirect, diskVars, budgetVars, TypeOK
  <2>4. level' \in 0..4 /\ n' \in 1..2 /\ breaks' \in 0..MaxBreaks
    <3>1. n' \in {n, 1, 2}
        BY <1>12 DEF DecideDirect
    <3>. QED BY <1>12, <3>1 DEF DecideDirect, budgetVars, TypeOK
  <2>5. attempt' \in [1..2 -> Attempts] /\ asked' \in [Thresholds -> Nat]
      BY <1>12 DEF DecideDirect, diskVars, budgetVars, TypeOK
  <2>6. result' \in {"none", "SUSPENDED"} \cup Ended
      BY <1>12 DEF DecideDirect, Close, Write, TypeOK, Ended
  <2>7. pc' \in Awaits \cup {"off", "prepare", "copied", "attach", "check", "decide", "build", "publish", "ended"}
      BY <1>12 DEF DecideDirect, Go, Close, Awaits
  <2>8. from' \in {"scope", "proposal", "repair", "phase", "phase_end"} /\ phase' \in 1..6
      BY <1>12 DEF DecideDirect, TypeOK
  <2>. QED BY <2>1, <2>2, <2>3, <2>4, <2>5, <2>6, <2>7, <2>8 DEF TypeOK
<1>13. CASE Propose
    BY <1>13 DEF Propose, Go, Spend, TypeOK
<1>14. CASE Research
    BY <1>14 DEF Research, Go, diskVars, budgetVars, loopVars, TypeOK
<1>15. CASE Build
  <2>1. \/ pc' = "harness" /\ UNCHANGED <<result, from>>
        \/ \E r \in {"ok", "failed", "analysis"} : After(r, n)
      BY <1>15, BuildIs
  <2>2. /\ pc' \in {"harness", "check", "repair", "ended"}
        /\ result' \in {result} \cup Ended
        /\ from' \in {from, "repair"}
      BY <2>1, AfterIs DEF Ended, TypeOK
  <2>3. attempt' \in [1..2 -> Attempts] /\ ws' \in {ws, "ready"} /\ UNCHANGED level
      BY <1>15, BuildIs
  <2>. QED BY <1>15, <2>2, <2>3 DEF Build, TypeOK, Awaits
<1>16. CASE Harness
  <2>1. PICK r \in {"ok", "failed", "analysis"} :
            After(r, n) /\ attempt' = [attempt EXCEPT ![n] = r]
      BY <1>16 DEF Harness
  <2>2. /\ pc' \in {"check", "repair", "ended"}
        /\ result' \in {result} \cup Ended
        /\ from' \in {from, "repair"}
      BY <2>1, AfterIs DEF Ended, TypeOK
  <2>3. attempt' \in [1..2 -> Attempts]
      BY <2>1 DEF TypeOK, Attempts
  <2>. QED BY <1>16, <2>2, <2>3 DEF Harness, TypeOK, Awaits
<1>17. CASE Repair
  <2>1. path' \in {"driver", "direct"} /\ plan' \in {"none"} \cup Intents /\ ws' \in {"none", "copied", "ready"}
      BY <1>17 DEF Repair, TypeOK
  <2>2. {proposed', repaired', session', stop', forced', allOk', valid'} \subseteq BOOLEAN
      BY <1>17 DEF Repair, loopVars, TypeOK
  <2>3. done' \subseteq Phases /\ triggered' \subseteq Thresholds /\ reviewed' \subseteq triggered'
      BY <1>17 DEF Repair, TypeOK
  <2>4. level' \in 0..4 /\ n' \in 1..2 /\ breaks' \in 0..MaxBreaks
      BY <1>17, PipelineAssumption DEF Repair, Spend, loopVars, TypeOK
  <2>5. attempt' \in [1..2 -> Attempts] /\ asked' \in [Thresholds -> Nat]
      BY <1>17 DEF Repair, TypeOK
  <2>6. result' \in {"none", "SUSPENDED"} \cup Ended
      BY <1>17 DEF Repair, Close, Write, TypeOK, Ended
  <2>7. pc' \in Awaits \cup {"off", "prepare", "copied", "attach", "check", "decide", "build", "publish", "ended"}
      BY <1>17 DEF Repair, Go, Close
  <2>8. from' \in {"scope", "proposal", "repair", "phase", "phase_end"} /\ phase' \in 1..6
      BY <1>17 DEF Repair, loopVars, TypeOK
  <2>. QED BY <2>1, <2>2, <2>3, <2>4, <2>5, <2>6, <2>7, <2>8 DEF TypeOK
<1>18. CASE Attach
  <2>1. done' \subseteq Phases
      BY <1>18 DEF Attach, TypeOK
  <2>2. FirstOpen(1) \in 1..6 /\ FirstOpen(1) \notin done' /\ 1..(FirstOpen(1) - 1) \subseteq done'
      BY <2>1, FirstOpenIs
  <2>. QED BY <1>18, <2>2 DEF Attach, Go, ToPhase, budgetVars, TypeOK, Awaits
<1>19. CASE Drive
  <2>1. path' \in {"driver", "direct"} /\ plan' \in {"none"} \cup Intents /\ ws' \in {"none", "copied", "ready"}
      BY <1>19 DEF Drive, TypeOK
  <2>2. {proposed', repaired', session', stop', forced', allOk', valid'} \subseteq BOOLEAN
      BY <1>19 DEF Drive, TypeOK
  <2>3. done' \subseteq Phases /\ triggered' \subseteq Thresholds /\ reviewed' \subseteq triggered'
      BY <1>19 DEF Drive, TypeOK, PathsApart, PhasesInOrder, Loop
  <2>4. level' \in 0..4 /\ n' \in 1..2 /\ breaks' \in 0..MaxBreaks
      BY <1>19, PipelineAssumption DEF Drive, Spend, TypeOK
  <2>5. attempt' \in [1..2 -> Attempts] /\ asked' \in [Thresholds -> Nat]
      BY <1>19 DEF Drive, TypeOK
  <2>6. result' \in {"none", "SUSPENDED"} \cup Ended
      BY <1>19 DEF Drive, TypeOK
  <2>7. pc' \in Awaits \cup {"off", "prepare", "copied", "attach", "check", "decide", "build", "publish", "ended"}
      BY <1>19 DEF Drive, Go, Quit, Awaits
  <2>8. from' \in {"scope", "proposal", "repair", "phase", "phase_end"} /\ phase' \in 1..6
      BY <1>19 DEF Drive, Quit, TypeOK
  <2>. QED BY <2>1, <2>2, <2>3, <2>4, <2>5, <2>6, <2>7, <2>8 DEF TypeOK
<1>20. CASE Validate
    BY <1>20 DEF Validate, Go, Validated, Write, Outcome, diskVars, budgetVars, TypeOK, Ended
<1>21. CASE Raise
    BY <1>21 DEF Raise, Go, Close, Write, diskVars, budgetVars, loopVars, TypeOK, Ended
<1>22. CASE Suspend
  <2>1. path' \in {"driver", "direct"} /\ plan' \in {"none"} \cup Intents /\ ws' \in {"none", "copied", "ready"}
      BY <1>22 DEF Suspend, TypeOK
  <2>2. {proposed', repaired', session', stop', forced', allOk', valid'} \subseteq BOOLEAN
      BY <1>22 DEF Suspend, loopVars, TypeOK
  <2>3. done' \subseteq Phases /\ triggered' \subseteq Thresholds /\ reviewed' \subseteq triggered'
      BY <1>22 DEF Suspend, budgetVars, TypeOK
  <2>4. level' \in 0..4 /\ n' \in 1..2 /\ breaks' \in 0..MaxBreaks
      BY <1>22, PipelineAssumption DEF Suspend, budgetVars, loopVars, TypeOK
  <2>5. attempt' \in [1..2 -> Attempts] /\ asked' \in [Thresholds -> Nat]
      BY <1>22 DEF Suspend, budgetVars, TypeOK, Attempts
  <2>6. result' \in {"none", "SUSPENDED"} \cup Ended
      BY <1>22 DEF Suspend, Write
  <2>7. pc' \in Awaits \cup {"off", "prepare", "copied", "attach", "check", "decide", "build", "publish", "ended"}
      BY <1>22 DEF Suspend, Go
  <2>8. from' \in {"scope", "proposal", "repair", "phase", "phase_end"} /\ phase' \in 1..6
      BY <1>22 DEF Suspend, loopVars, TypeOK
  <2>. QED BY <2>1, <2>2, <2>3, <2>4, <2>5, <2>6, <2>7, <2>8 DEF TypeOK
<1>23. CASE Crash
  <2>1. path' \in {"driver", "direct"} /\ plan' \in {"none"} \cup Intents /\ ws' \in {"none", "copied", "ready"}
      BY <1>23 DEF Crash, diskVars, TypeOK
  <2>2. {proposed', repaired', session', stop', forced', allOk', valid'} \subseteq BOOLEAN
      BY <1>23 DEF Crash, diskVars, loopVars, TypeOK
  <2>3. done' \subseteq Phases /\ triggered' \subseteq Thresholds /\ reviewed' \subseteq triggered'
      BY <1>23 DEF Crash, diskVars, budgetVars, TypeOK
  <2>4. level' \in 0..4 /\ n' \in 1..2 /\ breaks' \in 0..MaxBreaks
      BY <1>23, PipelineAssumption DEF Crash, budgetVars, loopVars, TypeOK
  <2>5. attempt' \in [1..2 -> Attempts] /\ asked' \in [Thresholds -> Nat]
      BY <1>23 DEF Crash, diskVars, budgetVars, TypeOK
  <2>6. result' \in {"none", "SUSPENDED"} \cup Ended
      BY <1>23 DEF Crash, TypeOK
  <2>7. pc' \in Awaits \cup {"off", "prepare", "copied", "attach", "check", "decide", "build", "publish", "ended"}
      BY <1>23 DEF Crash, Go
  <2>8. from' \in {"scope", "proposal", "repair", "phase", "phase_end"} /\ phase' \in 1..6
      BY <1>23 DEF Crash, loopVars, TypeOK
  <2>. QED BY <2>1, <2>2, <2>3, <2>4, <2>5, <2>6, <2>7, <2>8 DEF TypeOK
<1>24. CASE Over
    BY <1>24 DEF Over, vars, diskVars, budgetVars, loopVars, TypeOK
<1>25. CASE UNCHANGED vars
    BY <1>25 DEF vars, diskVars, budgetVars, loopVars, TypeOK
<1>. QED BY <1>1, <1>2, <1>3, <1>4, <1>5, <1>6, <1>7, <1>8, <1>9, <1>10, <1>11, <1>12, <1>13,
    <1>14, <1>15, <1>16, <1>17, <1>18, <1>19, <1>20, <1>21, <1>22, <1>23, <1>24, <1>25
    DEF Next, Work, Director

LEMMA SavedKept ==
    ASSUME PipelineInv, [Next]_vars
    PROVE  SavedFirst'
<1>. USE DEF PipelineInv
<1>1. CASE Start
    BY <1>1 DEF Start, Go, budgetVars, SavedFirst
<1>2. CASE Refuse
    BY <1>2 DEF Refuse, Go, Close, SavedFirst
<1>3. CASE Plan
    BY <1>3 DEF Plan, Go, SavedFirst
<1>4. CASE CheckDue
    BY <1>4, DueFirst DEF CheckDue, Go, Leave, SavedFirst, TypeOK
<1>5. CASE Review
    BY <1>5, AskedIs DEF Review, Verdict, SavedFirst
<1>6. CASE CheckDone
    BY <1>6 DEF CheckDone, Go, Leave, budgetVars, SavedFirst
<1>7. CASE Prepare
    BY <1>7 DEF Prepare, Go, Close, budgetVars, SavedFirst
<1>8. CASE Baseline
    BY <1>8 DEF Baseline, Go, budgetVars, SavedFirst
<1>9. CASE DecidePhase
    BY <1>9 DEF DecidePhase, Go, Quit, ToPhase, budgetVars, SavedFirst
<1>10. CASE DecidePhaseEnd
    BY <1>10 DEF DecidePhaseEnd, Go, Quit, ToPhase, budgetVars, SavedFirst
<1>11. CASE Publish
    BY <1>11 DEF Publish, Go, budgetVars, SavedFirst
<1>12. CASE DecideDirect
    BY <1>12 DEF DecideDirect, Go, Close, budgetVars, SavedFirst
<1>13. CASE Propose
    BY <1>13 DEF Propose, Go, SavedFirst
<1>14. CASE Research
    BY <1>14 DEF Research, Go, budgetVars, SavedFirst
<1>15. CASE Build
    BY <1>15 DEF Build, Go, After, Close, SavedFirst
<1>16. CASE Harness
    BY <1>16 DEF Harness, Go, After, Close, SavedFirst
<1>17. CASE Repair
    BY <1>17 DEF Repair, Go, Close, SavedFirst
<1>18. CASE Attach
    BY <1>18 DEF Attach, Go, ToPhase, budgetVars, SavedFirst
<1>19. CASE Drive
    BY <1>19 DEF Drive, Go, Quit, SavedFirst
<1>20. CASE Validate
    BY <1>20 DEF Validate, Go, Validated, budgetVars, SavedFirst
<1>21. CASE Raise
    BY <1>21 DEF Raise, Go, Close, budgetVars, SavedFirst
<1>22. CASE Suspend
    BY <1>22 DEF Suspend, Go, budgetVars, SavedFirst
<1>23. CASE Crash
    BY <1>23 DEF Crash, Go, budgetVars, SavedFirst
<1>24. CASE Over
    BY <1>24 DEF Over, vars, budgetVars, SavedFirst
<1>25. CASE UNCHANGED vars
    BY <1>25 DEF vars, budgetVars, SavedFirst
<1>. QED BY <1>1, <1>2, <1>3, <1>4, <1>5, <1>6, <1>7, <1>8, <1>9, <1>10, <1>11, <1>12, <1>13,
    <1>14, <1>15, <1>16, <1>17, <1>18, <1>19, <1>20, <1>21, <1>22, <1>23, <1>24, <1>25
    DEF Next, Work, Director

LEMMA PathsKept ==
    ASSUME PipelineInv, [Next]_vars
    PROVE  PathsApart'
<1>. USE DEF PipelineInv
<1>1. CASE Start
    BY <1>1 DEF Start, Go, PathsApart
<1>2. CASE Refuse
    BY <1>2 DEF Refuse, Go, Close, PathsApart
<1>3. CASE Plan
    BY <1>3 DEF Plan, Go, loopVars, PathsApart
<1>4. CASE CheckDue
    BY <1>4 DEF CheckDue, Go, Leave, PathsApart
<1>5. CASE Review
    BY <1>5 DEF Review, Go, Spend, Verdict, Leave, PathsApart
<1>6. CASE CheckDone
    BY <1>6 DEF CheckDone, Go, Leave, PathsApart
<1>7. CASE Prepare
    BY <1>7 DEF Prepare, Go, Close, PathsApart
<1>8. CASE Baseline
    BY <1>8 DEF Baseline, Go, PathsApart
<1>9. CASE DecidePhase
  <2>1. done' = done /\ done' \subseteq Phases /\ phase \in Phases /\ phase + 1 \in 1..6
      BY <1>9 DEF DecidePhase, PhasesInOrder, PathsApart, Loop, TypeOK, Phases
  <2>2. /\ FirstOpen(phase + 1) \in (phase + 1)..6
        /\ FirstOpen(phase + 1) \notin done'
        /\ (phase + 1)..(FirstOpen(phase + 1) - 1) \subseteq done'
      BY <2>1, FirstOpenIs
  <2>. QED BY <1>9, <2>1, <2>2 DEF DecidePhase, Go, Quit, ToPhase, PathsApart
<1>10. CASE DecidePhaseEnd
  <2>1. done' = done /\ done' \subseteq Phases /\ phase \in Phases /\ phase + 1 \in 1..6
      BY <1>10 DEF DecidePhaseEnd, PhasesInOrder, PathsApart, Loop, TypeOK, Phases
  <2>2. /\ FirstOpen(phase + 1) \in (phase + 1)..6
        /\ FirstOpen(phase + 1) \notin done'
        /\ (phase + 1)..(FirstOpen(phase + 1) - 1) \subseteq done'
      BY <2>1, FirstOpenIs
  <2>. QED BY <1>10, <2>1, <2>2 DEF DecidePhaseEnd, Go, Quit, ToPhase, PathsApart
<1>11. CASE Publish
    BY <1>11 DEF Publish, Go, PathsApart
<1>12. CASE DecideDirect
    BY <1>12 DEF DecideDirect, Go, Close, PathsApart, PhasesInOrder, Loop
<1>13. CASE Propose
    BY <1>13 DEF Propose, Go, PathsApart
<1>14. CASE Research
    BY <1>14 DEF Research, Go, loopVars, PathsApart
<1>15. CASE Build
    BY <1>15 DEF Build, Go, After, Close, PathsApart
<1>16. CASE Harness
    BY <1>16 DEF Harness, Go, After, Close, PathsApart
<1>17. CASE Repair
    BY <1>17 DEF Repair, Go, Close, loopVars, PathsApart
<1>18. CASE Attach
  <2>1. done' \subseteq Phases
      BY <1>18 DEF Attach, TypeOK
  <2>2. FirstOpen(1) \in 1..6 /\ FirstOpen(1) \notin done' /\ 1..(FirstOpen(1) - 1) \subseteq done'
      BY <2>1, FirstOpenIs
  <2>. QED BY <1>18, <2>2 DEF Attach, Go, ToPhase, PathsApart
<1>19. CASE Drive
    BY <1>19 DEF Drive, Go, Quit, PathsApart
<1>20. CASE Validate
    BY <1>20 DEF Validate, Go, Validated, PathsApart
<1>21. CASE Raise
    BY <1>21 DEF Raise, Go, Close, loopVars, PathsApart
<1>22. CASE Suspend
    BY <1>22 DEF Suspend, Go, loopVars, PathsApart
<1>23. CASE Crash
    BY <1>23 DEF Crash, Go, loopVars, PathsApart
<1>24. CASE Over
    BY <1>24 DEF Over, vars, loopVars, PathsApart
<1>25. CASE UNCHANGED vars
    BY <1>25 DEF vars, loopVars, PathsApart
<1>. QED BY <1>1, <1>2, <1>3, <1>4, <1>5, <1>6, <1>7, <1>8, <1>9, <1>10, <1>11, <1>12, <1>13,
    <1>14, <1>15, <1>16, <1>17, <1>18, <1>19, <1>20, <1>21, <1>22, <1>23, <1>24, <1>25
    DEF Next, Work, Director

LEMMA OrderKept ==
    ASSUME PipelineInv, [Next]_vars
    PROVE  PhasesInOrder'
<1>. USE DEF PipelineInv
<1>1. CASE Start
    BY <1>1 DEF Start, PhasesInOrder, Loop
<1>2. CASE Refuse
    BY <1>2 DEF Refuse, Go, Close, PhasesInOrder, Loop
<1>3. CASE Plan
    BY <1>3 DEF Plan, Go, PhasesInOrder, Loop
<1>4. CASE CheckDue
    BY <1>4 DEF CheckDue, Go, Leave, diskVars, PhasesInOrder, Loop
<1>5. CASE Review
    BY <1>5 DEF Review, Go, Verdict, Leave, diskVars, PhasesInOrder, Loop
<1>6. CASE CheckDone
    BY <1>6 DEF CheckDone, Go, Leave, diskVars, PhasesInOrder, Loop
<1>7. CASE Prepare
    BY <1>7 DEF Prepare, Go, Close, PhasesInOrder, Loop
<1>8. CASE Baseline
    BY <1>8 DEF Baseline, Go, PhasesInOrder, Loop
<1>9. CASE DecidePhase
  <2>1. done' = done /\ done' \subseteq Phases /\ phase \in Phases /\ phase + 1 \in 1..6
      BY <1>9 DEF DecidePhase, PhasesInOrder, PathsApart, Loop, TypeOK, Phases
  <2>2. /\ FirstOpen(phase + 1) \in (phase + 1)..6
        /\ FirstOpen(phase + 1) \notin done'
        /\ (phase + 1)..(FirstOpen(phase + 1) - 1) \subseteq done'
      BY <2>1, FirstOpenIs
  <2>. QED BY <1>9, <2>1, <2>2 DEF DecidePhase, Go, Quit, ToPhase, PhasesInOrder, Phases, FINALIZE, Loop
<1>10. CASE DecidePhaseEnd
  <2>1. done' = done /\ done' \subseteq Phases /\ phase \in Phases /\ phase + 1 \in 1..6
      BY <1>10 DEF DecidePhaseEnd, PhasesInOrder, PathsApart, Loop, TypeOK, Phases
  <2>2. /\ FirstOpen(phase + 1) \in (phase + 1)..6
        /\ FirstOpen(phase + 1) \notin done'
        /\ (phase + 1)..(FirstOpen(phase + 1) - 1) \subseteq done'
      BY <2>1, FirstOpenIs
  <2>3. phase \in done /\ (~forced => 1..(phase - 1) \subseteq done)
      BY <1>10 DEF DecidePhaseEnd, PhasesInOrder, PathsApart, Loop, TypeOK
  <2>4. CASE pc' = "validate"
    <3>1. allOk' => FirstOpen(phase + 1) = 6
        BY <1>10, <2>4 DEF DecidePhaseEnd, ToPhase, Go
    <3>2. allOk' => 5 \in done' /\ (~forced' => 1..5 \subseteq done')
      <4>1. allOk' => (phase + 1)..5 \subseteq done'
          BY <2>2, <3>1
      <4>2. ~forced' => ~forced
          BY <1>10 DEF DecidePhaseEnd
      <4>3. ~forced' => 1..phase \subseteq done'
          BY <2>1, <2>3, <4>2 DEF Phases
      <4>4. phase \in 1..5 /\ phase \in done'
          BY <2>1, <2>3 DEF Phases
      <4>. QED BY <4>1, <4>3, <4>4
    <3>. QED BY <2>1, <2>4, <3>2 DEF PhasesInOrder, Phases, FINALIZE, Loop
  <2>5. CASE pc' # "validate"
    <3>1. phase' = FirstOpen(phase + 1) /\ phase' # 6 /\ pc' = "check" /\ from' = "phase" /\ (~forced' => ~forced)
        BY <1>10, <2>5 DEF DecidePhaseEnd, ToPhase, Quit, Go
    <3>2. phase' \in Phases /\ (~forced' => 1..(phase' - 1) \subseteq done')
        BY <2>1, <2>2, <2>3, <3>1 DEF Phases
    <3>. QED BY <3>1, <3>2 DEF PhasesInOrder
  <2>. QED BY <2>4, <2>5
<1>11. CASE Publish
    BY <1>11 DEF Publish, Go, PhasesInOrder, Loop
<1>12. CASE DecideDirect
    BY <1>12 DEF DecideDirect, PhasesInOrder, Loop
<1>13. CASE Propose
    BY <1>13 DEF Propose, PhasesInOrder, PathsApart
<1>14. CASE Research
    BY <1>14 DEF Research, Go, PhasesInOrder, Loop
<1>15. CASE Build
    BY <1>15 DEF Build, PhasesInOrder, PathsApart
<1>16. CASE Harness
    BY <1>16 DEF Harness, PhasesInOrder, PathsApart
<1>17. CASE Repair
    BY <1>17 DEF Repair, PhasesInOrder, PathsApart
<1>18. CASE Attach
  <2>1. done' \subseteq Phases
      BY <1>18 DEF Attach, TypeOK
  <2>2. FirstOpen(1) \in 1..6 /\ FirstOpen(1) \notin done' /\ 1..(FirstOpen(1) - 1) \subseteq done'
      BY <2>1, FirstOpenIs
  <2>3. CASE FirstOpen(1) = 6
    <3>1. done' = Phases /\ pc' = "validate"
      <4>1. 1..5 \subseteq done'
          BY <2>2, <2>3
      <4>. QED BY <1>18, <2>1, <2>3, <4>1 DEF Attach, ToPhase, Go, Phases
    <3>. QED BY <3>1 DEF PhasesInOrder, Phases, FINALIZE, Loop
  <2>4. CASE FirstOpen(1) # 6
    <3>1. phase' = FirstOpen(1) /\ pc' = "check" /\ from' = "phase"
        BY <1>18, <2>4 DEF Attach, ToPhase, Go
    <3>. QED BY <2>2, <2>4, <3>1 DEF PhasesInOrder, Phases
  <2>. QED BY <2>3, <2>4
<1>19. CASE Drive
    BY <1>19 DEF Drive, Go, Quit, PhasesInOrder, Loop
<1>20. CASE Validate
    BY <1>20 DEF Validate, Go, Validated, PhasesInOrder, Loop
<1>21. CASE Raise
    BY <1>21 DEF Raise, Go, Close, PhasesInOrder, Loop
<1>22. CASE Suspend
    BY <1>22 DEF Suspend, Go, PhasesInOrder, Loop
<1>23. CASE Crash
    BY <1>23 DEF Crash, Go, PhasesInOrder, Loop
<1>24. CASE Over
    BY <1>24 DEF Over, vars, diskVars, loopVars, PhasesInOrder
<1>25. CASE UNCHANGED vars
    BY <1>25 DEF vars, diskVars, loopVars, PhasesInOrder
<1>. QED BY <1>1, <1>2, <1>3, <1>4, <1>5, <1>6, <1>7, <1>8, <1>9, <1>10, <1>11, <1>12, <1>13,
    <1>14, <1>15, <1>16, <1>17, <1>18, <1>19, <1>20, <1>21, <1>22, <1>23, <1>24, <1>25
    DEF Next, Work, Director

LEMMA GoodKept ==
    ASSUME PipelineInv, [Next]_vars
    PROVE  GoodIsLast'
<1>. USE DEF PipelineInv
<1>1. CASE Start
    BY <1>1 DEF Start, GoodIsLast
<1>2. CASE Refuse
    BY <1>2 DEF Refuse, Go, Close, GoodIsLast
<1>3. CASE Plan
    BY <1>3 DEF Plan, GoodIsLast
<1>4. CASE CheckDue
    BY <1>4 DEF CheckDue, GoodIsLast
<1>5. CASE Review
    BY <1>5 DEF Review, Verdict, GoodIsLast
<1>6. CASE CheckDone
    BY <1>6 DEF CheckDone, GoodIsLast
<1>7. CASE Prepare
    BY <1>7 DEF Prepare, Go, Close, GoodIsLast
<1>8. CASE Baseline
    BY <1>8 DEF Baseline, GoodIsLast
<1>9. CASE DecidePhase
    BY <1>9 DEF DecidePhase, GoodIsLast
<1>10. CASE DecidePhaseEnd
    BY <1>10 DEF DecidePhaseEnd, GoodIsLast
<1>11. CASE Publish
    BY <1>11 DEF Publish, Go, GoodIsLast
<1>12. CASE DecideDirect
    BY <1>12 DEF DecideDirect, Go, Close, GoodIsLast
<1>13. CASE Propose
    BY <1>13 DEF Propose, GoodIsLast
<1>14. CASE Research
    BY <1>14 DEF Research, GoodIsLast
<1>15. CASE Build
    BY <1>15 DEF Build, Go, After, Close, GoodIsLast
<1>16. CASE Harness
    BY <1>16 DEF Harness, Go, After, Close, GoodIsLast
<1>17. CASE Repair
    BY <1>17 DEF Repair, Go, Close, GoodIsLast
<1>18. CASE Attach
    BY <1>18 DEF Attach, GoodIsLast
<1>19. CASE Drive
    BY <1>19 DEF Drive, GoodIsLast
<1>20. CASE Validate
    BY <1>20 DEF Validate, Go, Validated, GoodIsLast
<1>21. CASE Raise
    BY <1>21 DEF Raise, Go, Close, GoodIsLast
<1>22. CASE Suspend
    BY <1>22 DEF Suspend, Write, GoodIsLast
<1>23. CASE Crash
    BY <1>23 DEF Crash, Go, GoodIsLast
<1>24. CASE Over
    BY <1>24 DEF Over, vars, GoodIsLast
<1>25. CASE UNCHANGED vars
    BY <1>25 DEF vars, GoodIsLast
<1>. QED BY <1>1, <1>2, <1>3, <1>4, <1>5, <1>6, <1>7, <1>8, <1>9, <1>10, <1>11, <1>12, <1>13,
    <1>14, <1>15, <1>16, <1>17, <1>18, <1>19, <1>20, <1>21, <1>22, <1>23, <1>24, <1>25
    DEF Next, Work, Director

LEMMA OutcomeKept ==
    ASSUME PipelineInv, [Next]_vars
    PROVE  OutcomeEarned'
<1>. USE DEF PipelineInv
<1>1. CASE Start
    BY <1>1 DEF Start, OutcomeEarned, GoodIsLast
<1>2. CASE Refuse
    BY <1>2 DEF Refuse, Close, Write, OutcomeEarned
<1>3. CASE Plan
    BY <1>3 DEF Plan, loopVars, OutcomeEarned
<1>4. CASE CheckDue
    BY <1>4 DEF CheckDue, diskVars, OutcomeEarned
<1>5. CASE Review
    BY <1>5 DEF Review, Verdict, diskVars, OutcomeEarned
<1>6. CASE CheckDone
    BY <1>6 DEF CheckDone, diskVars, OutcomeEarned
<1>7. CASE Prepare
    BY <1>7 DEF Prepare, Close, Write, loopVars, OutcomeEarned
<1>8. CASE Baseline
    BY <1>8 DEF Baseline, loopVars, OutcomeEarned
<1>9. CASE DecidePhase
    BY <1>9 DEF DecidePhase, OutcomeEarned
<1>10. CASE DecidePhaseEnd
    BY <1>10 DEF DecidePhaseEnd, OutcomeEarned
<1>11. CASE Publish
    BY <1>11 DEF Publish, Write, diskVars, loopVars, OutcomeEarned
<1>12. CASE DecideDirect
    BY <1>12 DEF DecideDirect, Close, Write, diskVars, OutcomeEarned
<1>13. CASE Propose
    BY <1>13 DEF Propose, OutcomeEarned
<1>14. CASE Research
    BY <1>14 DEF Research, diskVars, loopVars, OutcomeEarned
<1>15. CASE Build
    BY <1>15 DEF Build, After, Close, Write, OutcomeEarned, TypeOK, PathsApart
<1>16. CASE Harness
    BY <1>16 DEF Harness, After, Close, Write, OutcomeEarned, TypeOK, GoodIsLast, PathsApart
<1>17. CASE Repair
    BY <1>17 DEF Repair, Close, Write, loopVars, OutcomeEarned
<1>18. CASE Attach
    BY <1>18 DEF Attach, OutcomeEarned
<1>19. CASE Drive
    BY <1>19 DEF Drive, OutcomeEarned, GoodIsLast
<1>20. CASE Validate
    BY <1>20 DEF Validate, Validated, Write, Outcome, diskVars, OutcomeEarned, TypeOK,
        PathsApart, PhasesInOrder
<1>21. CASE Raise
    BY <1>21 DEF Raise, Close, Write, OutcomeEarned
<1>22. CASE Suspend
    BY <1>22 DEF Suspend, Write, OutcomeEarned
<1>23. CASE Crash
    BY <1>23 DEF Crash, diskVars, loopVars, OutcomeEarned
<1>24. CASE Over
    BY <1>24 DEF Over, vars, diskVars, loopVars, OutcomeEarned
<1>25. CASE UNCHANGED vars
    BY <1>25 DEF vars, diskVars, loopVars, OutcomeEarned
<1>. QED BY <1>1, <1>2, <1>3, <1>4, <1>5, <1>6, <1>7, <1>8, <1>9, <1>10, <1>11, <1>12, <1>13,
    <1>14, <1>15, <1>16, <1>17, <1>18, <1>19, <1>20, <1>21, <1>22, <1>23, <1>24, <1>25
    DEF Next, Work, Director

-----------------------------------------------------------------------------
LEMMA PipelineInit ==
    ASSUME Init
    PROVE  PipelineInv
<1>1. TypeOK
  <2>1. attempt \in [1..2 -> Attempts] /\ asked \in [Thresholds -> Nat]
      BY DEF Init, Attempts
  <2>2. breaks \in 0..MaxBreaks
      BY PipelineAssumption DEF Init
  <2>3. pc \in Awaits \cup {"off"} /\ result \in {"none"} /\ plan \in {"none"}
      BY DEF Init
  <2>4. /\ {proposed, repaired, session, stop, forced, allOk, valid} \subseteq BOOLEAN
        /\ done \subseteq Phases /\ triggered \subseteq Thresholds /\ reviewed \subseteq triggered
      BY DEF Init
  <2>5. path \in {"driver", "direct"} /\ ws = "none" /\ from = "scope"
      BY DEF Init
  <2>6. level \in 0..4 /\ phase \in 1..6 /\ n \in 1..2
      BY DEF Init
  <2>. QED BY <2>1, <2>2, <2>3, <2>4, <2>5, <2>6 DEF TypeOK
<1>2. SavedFirst /\ PathsApart /\ PhasesInOrder /\ GoodIsLast /\ OutcomeEarned
    BY DEF Init, SavedFirst, PathsApart, PhasesInOrder, GoodIsLast, OutcomeEarned, Loop
<1>. QED BY <1>1, <1>2 DEF PipelineInv

LEMMA PipelineStep ==
    ASSUME PipelineInv, [Next]_vars
    PROVE  PipelineInv'
BY TypeKept, SavedKept, PathsKept, OrderKept, GoodKept, OutcomeKept DEF PipelineInv

\* The pipeline as it runs: what the code keeps of types, of saving before asking,
\* of the two paths and of the order of the phases (_run_claimed and
\* _run_coding_harness_claimed), at every interruption.
THEOREM PipelineInvariant == Spec => []PipelineInv
<1>1. Init => PipelineInv
    BY PipelineInit
<1>2. PipelineInv /\ [Next]_vars => PipelineInv'
    BY PipelineStep
<1>. QED BY <1>1, <1>2, PTL DEF Spec

\* _apply_due_checkpoints asks the model for the review of a threshold at most
\* once, however often the cycle is interrupted and resumed.
THEOREM ReviewsOnce == Spec => []ReviewedOnce
<1>1. PipelineInv => ReviewedOnce
    BY DEF PipelineInv, SavedFirst, ReviewedOnce
<1>. QED BY <1>1, PipelineInvariant, PTL

\* A cycle that is COMPLETED has done all its phases and passed its validator, or
\* an attempt of it was built.
THEOREM OutcomesEarned == Spec => []OutcomeEarned
<1>1. PipelineInv => OutcomeEarned
    BY DEF PipelineInv
<1>. QED BY <1>1, PipelineInvariant, PTL

-----------------------------------------------------------------------------
(* The pipeline with its workspace and its validator. *)

\* Every step of the whole is one of the pipeline, or none of its business.
LEMMA DeliveryStepsPipeline ==
    ASSUME [DeliveryNext]_deliveryVars
    PROVE  [Next]_vars
<1>1. CASE Delivery
  <2>1. CASE Direct
      BY <2>1 DEF Direct, Next, Work
  <2>2. CASE AttachDriver
      BY <2>2 DEF AttachDriver, Next, Work
  <2>3. CASE DrivePhase
      BY <2>3 DEF DrivePhase, Next, Work
  <2>4. CASE Inspect
      BY <2>4 DEF Inspect
  <2>5. CASE Judge
    <3>1. Passed \in BOOLEAN /\ Validated(Passed)
        BY <2>5 DEF Judge, Passed
    <3>. QED BY <3>1 DEF Validate, Next, Work
  <2>. QED BY <1>1, <2>1, <2>2, <2>3, <2>4, <2>5 DEF Delivery
<1>2. CASE Edit \/ InspectorDies \/ Stray
    BY <1>2 DEF Edit, InspectorDies, Stray
<1>3. CASE Stopped \/ Died \/ Over
    BY <1>3 DEF Stopped, Died, Next
<1>4. CASE UNCHANGED deliveryVars
    BY <1>4 DEF deliveryVars
<1>. QED BY <1>1, <1>2, <1>3, <1>4 DEF DeliveryNext

\* The cycle with its driver and its validator is a cycle of the pipeline: what is
\* proved of the pipeline holds of it.
THEOREM DeliveryRunsPipeline == DeliverySpec => Spec
<1>1. DeliveryInit => Init
    BY DEF DeliveryInit
<1>2. [DeliveryNext]_deliveryVars => [Next]_vars
    BY DeliveryStepsPipeline
<1>. QED BY <1>1, <1>2, PTL DEF DeliverySpec, Spec

LEMMA ShapesAre ==
    ASSUME NEW a \in Areas, a \notin PythonAreas
    PROVE  /\ a \notin {Project, Bridge} => Shapes(a) = {"fine"}
           /\ a = Bridge => Shapes(a) = {"fine", "failing"}
<1>1. CASE a = Project
    BY <1>1 DEF Project, Bridge
<1>2. CASE a = Bridge
    BY <1>2 DEF Shapes
<1>3. CASE a \notin {Project, Bridge}
    BY <1>3 DEF Shapes
<1>. QED BY <1>1, <1>2, <1>3

\* Only a plan for an addon may touch its project.
LEMMA ProjectIsAddons ==
    ASSUME target \in Targets, Project \in AllowedAreas
    PROVE  target = "NEW_FORGE_ADDON"
<1>1. Project # Notes /\ Project # Bridge /\ Project # Docs /\ Project \notin PythonAreas
    BY ValidatorAssumption DEF Project, Notes, Bridge, Docs
<1>2. target \in {"MAIDAI_SOURCE", "NEW_FORGE_ADDON", "SKILL",
                  "EXTERNAL_MOD_RESEARCH", "RESEARCH_ONLY"}
    BY ValidatorAssumption
<1>3. CASE target = "MAIDAI_SOURCE"
    BY <1>1, <1>3 DEF AllowedAreas
<1>4. CASE target = "SKILL"
    BY <1>1, <1>4 DEF AllowedAreas
<1>5. CASE target = "EXTERNAL_MOD_RESEARCH"
    BY <1>1, <1>5 DEF AllowedAreas
<1>6. CASE target = "RESEARCH_ONLY"
    BY <1>1, <1>6 DEF AllowedAreas
<1>. QED BY <1>2, <1>3, <1>4, <1>5, <1>6

\* What a validator that has passed has seen is what it stands for.
LEMMA PassedIsSound ==
    ASSUME ValidatorTypeOK, SeenSoFar, step = "passed"
    PROVE  Sound
<1>1. /\ changed = Touched /\ Touched \subseteq AllowedAreas
      /\ ImplementationRequired => ~(Touched \subseteq {Notes})
      /\ \A a \in Touched \cap PythonAreas : area[a] \notin {"failing", "malformed"}
      /\ Bridge \in Touched => area[Bridge] # "failing"
      /\ target = "NEW_FORGE_ADDON" => area[Project] = "fine"
    BY DEF SeenSoFar, Compiled, Tested, Bridged
<1>2. ASSUME NEW a \in Touched
      PROVE  area[a] \in {"fine", "untested"}
  <2>1. a \in Areas /\ area[a] \in Shapes(a)
      BY DEF Touched, ValidatorTypeOK
  <2>2. CASE a \in PythonAreas
    <3>1. Shapes(a) = {"fine", "failing", "malformed", "untested"}
        BY <2>2, ValidatorAssumption DEF Shapes, Project, Bridge
    <3>. QED BY <1>1, <2>1, <2>2, <3>1
  <2>3. CASE a = Project
      BY <1>1, <2>3, ProjectIsAddons DEF ValidatorTypeOK
  <2>4. CASE a \notin PythonAreas /\ a = Bridge
      BY <1>1, <2>1, <2>4, ShapesAre
  <2>5. CASE a \notin PythonAreas /\ a \notin {Project, Bridge}
      BY <2>1, <2>5, ShapesAre
  <2>. QED BY <2>2, <2>3, <2>4, <2>5
<1>. QED BY <1>1, <1>2 DEF Sound

-----------------------------------------------------------------------------
(* The steps of the whole, against what the validator adds. *)

LEMMA ValidatorTypeKept ==
    ASSUME ValidatorTypeOK, AreaMap, [DeliveryNext]_deliveryVars
    PROVE  ValidatorTypeOK' /\ AreaMap'
<1>. USE DEF ValidatorTypeOK, AreaMap
<1>1. CASE AttachDriver
  <2>1. Notes \in Areas /\ Shapes(Notes) = {"fine"}
    <3>1. Notes \in Areas /\ Notes \notin PythonAreas /\ Notes \notin {Project, Bridge}
        BY ValidatorAssumption DEF Areas, Notes, Project, Bridge
    <3>. QED BY <3>1, ShapesAre
  <2>. QED BY <1>1, <2>1 DEF AttachDriver, WriteBrief, runnerVars
<1>2. CASE Edit
    BY <1>2 DEF Edit, EditArea, runnerVars
<1>3. CASE Inspect \/ InspectorDies
  <2>1. UNCHANGED workspaceVars
      BY <1>3 DEF Inspect, InspectorDies, Dies, Check, Launch, Diff, CheckAreas, Compile,
          RunSuites, BuildBridge, RunExtra, BuildAddon, Report
  <2>2. step' \in Steps
      BY <1>3 DEF Inspect, InspectorDies, Dies, Check, Launch, Diff, CheckAreas, Compile,
          RunSuites, BuildBridge, RunExtra, BuildAddon, Report, To, Fails, Steps
  <2>3. changed' \subseteq Areas /\ astray' \in BOOLEAN
      BY <1>3 DEF Inspect, InspectorDies, Dies, Check, Launch, Diff, CheckAreas, Compile,
          RunSuites, BuildBridge, RunExtra, BuildAddon, Report, Touched
  <2>4. failed' \in BOOLEAN
      BY <1>3 DEF Inspect, InspectorDies, Dies, Check, Launch, Diff, CheckAreas, Compile,
          RunSuites, BuildBridge, RunExtra, BuildAddon, Report, Record, Fails
  <2>5. report' \in {"none", "PASS", "FAIL"}
      BY <1>3 DEF Inspect, InspectorDies, Dies, Check, Launch, Diff, CheckAreas, Compile,
          RunSuites, BuildBridge, RunExtra, BuildAddon, Report, Fails
  <2>. QED BY <2>1, <2>2, <2>3, <2>4, <2>5 DEF workspaceVars
<1>4. CASE Stray
    BY <1>4 DEF Stray, StrayReports, workspaceVars
<1>5. CASE Judge \/ Stopped \/ Died
    BY <1>5 DEF Judge, Stopped, Died, Gone, To, workspaceVars, Steps
<1>6. CASE Direct \/ DrivePhase \/ UNCHANGED validatorVars
    BY <1>6 DEF Direct, DrivePhase, validatorVars, workspaceVars, runnerVars
<1>. QED BY <1>1, <1>2, <1>3, <1>4, <1>5, <1>6 DEF DeliveryNext, Delivery, deliveryVars

LEMMA RunsAtEndKept ==
    ASSUME PipelineInv, RunsAtEnd, [DeliveryNext]_deliveryVars
    PROVE  RunsAtEnd'
<1>. USE DEF RunsAtEnd
<1>1. CASE Direct
  <2>1. pc # "validate"
      BY <1>1 DEF Direct, Director, Start, Refuse, Plan, CheckDue, Review, CheckDone, Prepare,
          Baseline, DecidePhase, DecidePhaseEnd, Publish, DecideDirect, Propose, Research, Build,
          Harness, Repair
  <2>. QED BY <1>1, <2>1 DEF Direct, validatorVars, runnerVars
<1>2. CASE AttachDriver
    BY <1>2 DEF AttachDriver, Attach, runnerVars
<1>3. CASE DrivePhase
    BY <1>3 DEF DrivePhase, Drive, validatorVars, runnerVars
<1>4. CASE Edit
    BY <1>4 DEF Edit, EditArea, runnerVars
<1>5. CASE Inspect \/ InspectorDies
    BY <1>5 DEF Inspect, InspectorDies, vars
<1>6. CASE Stray
    BY <1>6 DEF Stray, StrayReports, vars
<1>7. CASE Judge \/ Stopped \/ Died
    BY <1>7 DEF Judge, Stopped, Died, Gone, To
<1>8. CASE UNCHANGED <<vars, validatorVars>>
    BY <1>8 DEF vars, validatorVars, runnerVars
<1>. QED BY <1>1, <1>2, <1>3, <1>4, <1>5, <1>6, <1>7, <1>8
    DEF DeliveryNext, Delivery, deliveryVars, Over

\* A step of the process: what it has seen it keeps, and it sees one thing more.
LEMMA InspectSees ==
    ASSUME ValidatorTypeOK, SeenSoFar, Check \/ Dies
    PROVE  SeenSoFar'
<1>1. UNCHANGED workspaceVars /\ (step # "diff" => UNCHANGED changed)
    BY DEF Dies, Check, Launch, Diff, CheckAreas, Compile, RunSuites, BuildBridge, RunExtra,
        BuildAddon, Report
<1>2. Touched' = Touched /\ AllowedAreas' = AllowedAreas /\ ImplementationRequired' = ImplementationRequired
    BY <1>1 DEF workspaceVars, Touched, AllowedAreas, ImplementationRequired
<1>. USE DEF Compiled, Tested, Bridged, To, Fails, Record
<1>3. CASE Launch \/ Dies
    BY <1>3 DEF Launch, Dies, SeenSoFar
<1>4. CASE Diff
    BY <1>2, <1>4 DEF Diff, SeenSoFar
<1>5. CASE CheckAreas
    BY <1>1, <1>2, <1>5 DEF CheckAreas, SeenSoFar
<1>6. CASE Compile
    BY <1>1, <1>2, <1>6 DEF Compile, SeenSoFar
<1>7. CASE RunSuites
    BY <1>1, <1>2, <1>7 DEF RunSuites, SeenSoFar, workspaceVars
<1>8. CASE BuildBridge
    BY <1>1, <1>2, <1>8 DEF BuildBridge, SeenSoFar, workspaceVars
<1>9. CASE RunExtra
    BY <1>1, <1>2, <1>9 DEF RunExtra, SeenSoFar, workspaceVars
<1>10. CASE BuildAddon
    BY <1>1, <1>2, <1>10 DEF BuildAddon, SeenSoFar, workspaceVars
<1>11. CASE Report
    BY <1>1, <1>2, <1>11 DEF Report, SeenSoFar, workspaceVars
<1>. QED BY <1>3, <1>4, <1>5, <1>6, <1>7, <1>8, <1>9, <1>10, <1>11 DEF Check

LEMMA SeenKept ==
    ASSUME PipelineInv, ValidatorTypeOK, RunsAtEnd, SeenSoFar, [DeliveryNext]_deliveryVars
    PROVE  SeenSoFar'
<1>1. CASE step' = "idle"
    BY <1>1 DEF SeenSoFar, Compiled, Tested, Bridged
<1>2. CASE Inspect \/ InspectorDies
    BY <1>2, InspectSees DEF Inspect, InspectorDies
<1>3. CASE UNCHANGED <<workspaceVars, step, changed, failed>>
    BY <1>3 DEF workspaceVars, SeenSoFar, Touched, AllowedAreas, ImplementationRequired
<1>4. CASE AttachDriver \/ Edit
    BY <1>1, <1>4 DEF AttachDriver, Attach, Edit, EditArea, runnerVars, RunsAtEnd
<1>5. CASE Judge \/ Stopped \/ Died
    BY <1>1, <1>5 DEF Judge, Stopped, Died, Gone, To
<1>6. CASE Stray \/ Direct \/ DrivePhase \/ UNCHANGED validatorVars
    BY <1>3, <1>6 DEF Stray, StrayReports, Direct, DrivePhase, validatorVars, runnerVars
<1>. QED BY <1>2, <1>4, <1>5, <1>6 DEF DeliveryNext, Delivery, deliveryVars

\* A cycle stays on its path.
LEMMA PathSame ==
    ASSUME [Next]_vars
    PROVE  path' = path
BY DEF Next, Work, Director, Start, Refuse, Plan, CheckDue, Review, Verdict, CheckDone, Prepare,
    Baseline, DecidePhase, DecidePhaseEnd, Publish, DecideDirect, Propose, Research, Build,
    Harness, Repair, Attach, Drive, Validate, Validated, Raise, Suspend, Crash, Over, vars

\* Where no attempt is made, only the validator's word writes a good result.
LEMMA GoodIsJudged ==
    ASSUME [DeliveryNext]_deliveryVars, ~Judge, pc \notin {"build", "harness"},
           result' \in {"COMPLETED", "STAGE_COMPLETED"}
    PROVE  result' = result
<1>1. CASE Direct
    BY <1>1 DEF Direct, Director, Start, Refuse, Plan, CheckDue, Review, Verdict, CheckDone,
        Prepare, Baseline, DecidePhase, DecidePhaseEnd, Publish, DecideDirect, Propose, Research,
        Build, Harness, Repair, Close, Write
<1>2. CASE AttachDriver \/ DrivePhase
    BY <1>2 DEF AttachDriver, Attach, DrivePhase, Drive
<1>3. CASE Edit \/ Inspect \/ InspectorDies \/ Stray \/ UNCHANGED vars
    BY <1>3 DEF Edit, Inspect, InspectorDies, Stray, vars
<1>4. CASE Stopped \/ Died
    BY <1>4 DEF Stopped, Died, Raise, Suspend, Crash, Close, Write
<1>. QED BY <1>1, <1>2, <1>3, <1>4 DEF DeliveryNext, Delivery, deliveryVars, Over

\* What was judged is not touched any more.
LEMMA WorkspaceRests ==
    ASSUME [DeliveryNext]_deliveryVars, pc \in {"publish", "ended"}
    PROVE  UNCHANGED workspaceVars
<1>1. CASE AttachDriver \/ Edit \/ Inspect \/ InspectorDies
    BY <1>1 DEF AttachDriver, Attach, Edit, Inspect, InspectorDies
<1>2. CASE Direct \/ DrivePhase \/ UNCHANGED validatorVars
    BY <1>2 DEF Direct, DrivePhase, validatorVars
<1>3. CASE Stray \/ Judge \/ Stopped \/ Died
    BY <1>3 DEF Stray, StrayReports, Judge, Stopped, Died
<1>. QED BY <1>1, <1>2, <1>3 DEF DeliveryNext, Delivery, deliveryVars

LEMMA DeliveredKept ==
    ASSUME DeliveryInv, [DeliveryNext]_deliveryVars
    PROVE  DeliveredIsSound'
<1>. DEFINE Good == {"COMPLETED", "STAGE_COMPLETED"}
<1>1. SUFFICES ASSUME path' = "driver", result' \in Good
               PROVE  Sound'
    BY DEF DeliveredIsSound
<1>2. CASE Judge
  <2>1. valid' = Passed /\ (Passed => step = "passed") /\ UNCHANGED workspaceVars
      BY <1>2 DEF Judge, Validated, Passed
  <2>2. Passed
      BY <1>1, <1>2, <2>1 DEF Judge, Validated, Write, Outcome
  <2>3. Sound
      BY <2>1, <2>2, PassedIsSound DEF DeliveryInv
  <2>. QED BY <2>1, <2>3 DEF workspaceVars, Sound, Touched, AllowedAreas, ImplementationRequired
<1>3. CASE ~Judge
  <2>1. [Next]_vars
      BY DeliveryStepsPipeline
  <2>2. path = "driver" /\ result \in Good
    <3>1. path = "driver" /\ pc \notin {"build", "harness"}
        BY <1>1, <2>1, PathSame DEF DeliveryInv, PipelineInv, PathsApart
    <3>. QED BY <1>1, <1>3, <3>1, GoodIsJudged
  <2>3. UNCHANGED workspaceVars
    <3>1. pc \in {"publish", "ended"}
        BY <2>2 DEF DeliveryInv, PipelineInv, GoodIsLast
    <3>. QED BY <3>1, WorkspaceRests
  <2>4. Sound
      BY <2>2 DEF DeliveryInv, DeliveredIsSound
  <2>. QED BY <2>3, <2>4 DEF workspaceVars, Sound, Touched, AllowedAreas, ImplementationRequired
<1>. QED BY <1>2, <1>3

\* The cycle with its workspace: the validator runs at the end of the driver's path
\* only, and at each of its steps knows the workspace as it is.
THEOREM DeliveryInvariant == DeliverySpec => []DeliveryInv
<1>1. DeliveryInit => DeliveryInv
  <2>1. SUFFICES ASSUME DeliveryInit PROVE DeliveryInv
      OBVIOUS
  <2>2. PipelineInv /\ pc = "off" /\ result = "none"
      BY <2>1, PipelineInit DEF DeliveryInit, Init
  <2>3. ValidatorTypeOK /\ AreaMap
      BY <2>1 DEF DeliveryInit, ValidatorInit, ValidatorTypeOK, AreaMap, Steps
  <2>4. RunsAtEnd /\ SeenSoFar /\ DeliveredIsSound
      BY <2>1, <2>2 DEF DeliveryInit, ValidatorInit, RunsAtEnd, SeenSoFar, Compiled, DeliveredIsSound
  <2>. QED BY <2>2, <2>3, <2>4 DEF DeliveryInv
<1>2. DeliveryInv /\ [DeliveryNext]_deliveryVars => DeliveryInv'
    BY DeliveryStepsPipeline, PipelineStep, ValidatorTypeKept, RunsAtEndKept, SeenKept, DeliveredKept
       DEF DeliveryInv
<1>. QED BY <1>1, <1>2, PTL DEF DeliverySpec

\* What a cycle with a driver hands over stays inside the areas of its brief and
\* builds, as validate_workspace promises, whatever was interrupted and resumed
\* and whatever an older validator left in the file.
THEOREM DeliveriesAreSound == DeliverySpec => []DeliveredIsSound
<1>1. DeliveryInv => DeliveredIsSound
    BY DEF DeliveryInv
<1>. QED BY <1>1, DeliveryInvariant, PTL
=============================================================================
