----------------------------- MODULE RndPipeline -----------------------------
(***************************************************************************)
(* What one research cycle does while it is RUNNING (rnd/service.py,          *)
(* _run_claimed and _run_coding_harness_claimed), with the workspace and the  *)
(* validator of rnd/harness.py and the model calls of rnd/orchestrator.py.    *)
(* RndCycle has the life around it: the claim, the lock, the two writes of an *)
(* end.  Here a suspension or a crash may come at every await or write, and   *)
(* the next run starts from what is on disk.                                  *)
(*                                                                          *)
(* A cycle takes one of two paths.  With the coding harness a driver works    *)
(* off five phases in one workspace and a validator has the last word.        *)
(* Without it the model proposes a patch, the runner builds it, and one       *)
(* repair may follow.                                                         *)
(***************************************************************************)
EXTENDS Naturals, FiniteSets, FiniteSetsExt

CONSTANT MaxBreaks      \* bound of the model: suspensions and crashes

ASSUME PipelineAssumption == MaxBreaks \in Nat

VARIABLES
    path,       \* "driver" or "direct": whether there is a dsh_adapter
    \* on disk
    plan,       \* intended outcome of the locked plan
    proposed,   \* rnd_proposal.json of the direct path
    repaired,   \* rnd_repair_01.json
    ws,         \* workspace: nothing, source copied, baseline and state written
    session,    \* dsh_session_id and dsh_workspace of the row
    done,       \* completed phases of the progress
    triggered,  \* thresholds in the saved checkpoint
    reviewed,   \* thresholds with a saved review
    level,      \* thresholds the spent budget has passed
    attempt,    \* harness_result.json of the two attempts
    result,     \* rnd_result.json
    \* in memory
    pc, from, phase, n, stop, forced, allOk, valid,
    \* of the model
    asked,      \* model reviews asked for, per threshold
    breaks

diskVars   == <<plan, proposed, repaired, ws, session, done, attempt>>
budgetVars == <<triggered, reviewed, level, asked>>
loopVars   == <<from, phase, n, stop, forced, allOk, valid>>
vars == <<path, diskVars, budgetVars, result, pc, loopVars, breaks>>

\* RESEARCH, DESIGN, DEVELOPMENT, BUILD_FIX, FINALIZE
Phases   == 1..5
FINALIZE == 5
\* 50, 75, 85 and 95 per cent of the budget of the cycle
Thresholds == 1..4
FINISH_ONLY == 3
FORCE_CLOSE == 4

Ended    == {"COMPLETED", "STAGE_COMPLETED", "FAILED", "WAITING_USER"}
\* What plan_cycle may intend; a cycle without a model waits for its user.
Intents  == {"COMPLETED", "STAGE_COMPLETED", "WAITING_USER"}
Awaits   == {"refuse", "plan", "review", "drive", "validate",
             "propose", "research", "harness", "repair"}
Attempts == {"none", "ok", "analysis", "failed", "cancelled", "prepare_failed"}

TypeOK ==
    /\ path \in {"driver", "direct"}
    /\ plan \in {"none"} \cup Intents
    /\ ws \in {"none", "copied", "ready"}
    /\ {proposed, repaired, session, stop, forced, allOk, valid} \subseteq BOOLEAN
    /\ done \subseteq Phases
    /\ triggered \subseteq Thresholds /\ reviewed \subseteq triggered
    /\ level \in 0..4
    /\ attempt \in [1..2 -> Attempts]
    /\ result \in {"none", "SUSPENDED"} \cup Ended
    /\ pc \in Awaits \cup {"off", "prepare", "copied", "attach", "check", "decide",
                           "build", "publish", "ended"}
    /\ from \in {"scope", "proposal", "repair", "phase", "phase_end"}
    /\ phase \in 1..6 /\ n \in 1..2
    /\ asked \in [Thresholds -> Nat]
    /\ breaks \in 0..MaxBreaks

Init ==
    /\ path \in {"driver", "direct"}
    /\ plan = "none" /\ ws = "none" /\ result = "none"
    /\ proposed = FALSE /\ repaired = FALSE /\ session = FALSE
    /\ done = {} /\ triggered = {} /\ reviewed = {} /\ level = 0
    /\ attempt = [i \in 1..2 |-> "none"]
    /\ pc = "off" /\ from = "scope" /\ phase = 1 /\ n = 1
    /\ stop = FALSE /\ forced = FALSE /\ allOk = TRUE /\ valid = FALSE
    /\ asked = [t \in Thresholds |-> 0]
    /\ breaks = 0

-----------------------------------------------------------------------------
Go(where) == pc' = where

\* Any model call or phase may use up budget.
Spend == level' \in level..4

Write(outcome) == result' = outcome

\* _close_without_harness
Close(outcome) == Write(outcome) /\ Go("ended")

\* Mutant: the first of all phases that is not completed.
FirstOfAll(p) == Min({q \in 1..6 : q \notin done'})

\* The next phase that is not completed; past the last one, the validator.
FirstOpen(p) == Min({q \in p..6 : q \notin done'})

ToPhase(p) ==
    /\ phase' = FirstOpen(p)
    /\ IF FirstOpen(p) = 6 THEN Go("validate") /\ UNCHANGED from
       ELSE Go("check") /\ from' = "phase"

Quit == Go("validate") /\ UNCHANGED <<phase, from>>

-----------------------------------------------------------------------------
(* The start of a run, the first one or a resumed one. *)

Start ==
    /\ pc = "off"
    /\ IF path = "driver"
       THEN /\ pc' \in {"refuse", IF plan = "none" THEN "plan" ELSE "prepare"}
            /\ UNCHANGED from
       ELSE /\ Go(IF plan = "none" THEN "plan" ELSE "check")
            /\ from' = IF proposed THEN "proposal" ELSE "scope"
    /\ forced' = FALSE /\ stop' = FALSE /\ valid' = FALSE
    /\ allOk' = TRUE /\ n' = 1 /\ phase' = 1
    /\ UNCHANGED <<path, diskVars, budgetVars, result, breaks>>

\* The driver's environment is missing: plan_cycle is asked all the same.
Refuse ==
    /\ pc = "refuse"
    /\ Spend
    /\ Close("WAITING_USER")
    /\ UNCHANGED <<path, diskVars, triggered, reviewed, asked, loopVars, breaks>>

\* plan_cycle, and the plan is locked; STAGE_COMPLETED is one beyond this cycle.
Plan ==
    /\ pc = "plan"
    /\ Spend
    /\ plan' \in Intents
    /\ Go(IF path = "driver" THEN "prepare" ELSE "check")
    /\ UNCHANGED <<path, proposed, repaired, ws, session, done, attempt, triggered,
                   reviewed, asked, result, loopVars, breaks>>

-----------------------------------------------------------------------------
(* _apply_due_checkpoints: each threshold that was passed, in order. *)

Due == {t \in Thresholds : t <= level /\ t \notin triggered}

Leave(why) == Go("decide") /\ stop' = why

\* Mutant: the threshold is saved with its review.
CheckDueLate ==
    /\ pc = "check" /\ Due # {}
    /\ LET t == Min(Due)
       IN  IF t \in {1, 2} /\ level < FINISH_ONLY
           THEN /\ Go("review")
                /\ asked' = [asked EXCEPT ![t] = @ + 1]
                /\ UNCHANGED <<triggered, reviewed, stop>>
           ELSE /\ triggered' = triggered \cup {t}
                /\ reviewed' = IF t \in {1, 2} THEN reviewed \cup {t} ELSE reviewed
                /\ IF level = FORCE_CLOSE /\ t \in {2, 4} THEN Leave(TRUE) ELSE UNCHANGED <<pc, stop>>
                /\ UNCHANGED asked
    /\ UNCHANGED <<path, diskVars, level, result, from, phase, n, forced, allOk, valid, breaks>>

\* It is saved before the model is asked; close to the end nobody is asked.
CheckDue ==
    /\ pc = "check" /\ Due # {}
    /\ LET t == Min(Due)
       IN  /\ triggered' = triggered \cup {t}
           /\ IF t \in {1, 2} /\ level < FINISH_ONLY
              THEN /\ Go("review")
                   /\ asked' = [asked EXCEPT ![t] = @ + 1]
                   /\ UNCHANGED <<reviewed, stop>>
              ELSE /\ reviewed' = IF t \in {1, 2} THEN reviewed \cup {t} ELSE reviewed
                   /\ IF level = FORCE_CLOSE /\ t \in {2, 4} THEN Leave(TRUE) ELSE UNCHANGED <<pc, stop>>
                   /\ UNCHANGED asked
    /\ UNCHANGED <<path, diskVars, level, result, from, phase, n, forced, allOk, valid, breaks>>

\* The one that is under way.
Asked == Max({t \in Thresholds : asked[t] > 0})

Verdict ==
    /\ Leave(TRUE) \/ (Go("check") /\ UNCHANGED stop)
    /\ UNCHANGED <<path, diskVars, asked, result, from, phase, n, forced, allOk, valid, breaks>>

\* The review: the direction is given up, or no result can be formed any more.
Review ==
    /\ pc = "review"
    /\ Spend
    /\ reviewed' = reviewed \cup {Asked} /\ triggered' = triggered \cup {Asked}
    /\ Verdict

CheckDone ==
    /\ pc = "check" /\ Due = {}
    /\ Leave(FALSE)
    /\ UNCHANGED <<path, diskVars, budgetVars, result, from, phase, n,
                   forced, allOk, valid, breaks>>

-----------------------------------------------------------------------------
(* The driver path: prepare_workspace, then the phases. *)

\* A workspace of a run that did not get as far as its session is in the way.
Prepare ==
    /\ pc = "prepare"
    /\ \/ plan = "WAITING_USER" /\ Close("WAITING_USER") /\ UNCHANGED ws
       \/ plan # "WAITING_USER" /\ session /\ Go("attach") /\ UNCHANGED <<ws, result>>
       \/ plan # "WAITING_USER" /\ ~session /\ ws = "none"
          /\ ws' = "copied" /\ Go("copied") /\ UNCHANGED result
       \/ plan # "WAITING_USER" /\ ~session /\ ws # "none" /\ Close("FAILED") /\ UNCHANGED ws
    /\ UNCHANGED <<path, plan, proposed, repaired, session, done, attempt,
                   budgetVars, loopVars, breaks>>

Baseline ==
    /\ pc = "copied"
    /\ ws' = "ready" /\ Go("attach")
    /\ UNCHANGED <<path, plan, proposed, repaired, session, done, attempt,
                   budgetVars, result, loopVars, breaks>>

Attach ==
    /\ pc = "attach"
    /\ session' = TRUE
    /\ UNCHANGED done
    /\ ToPhase(1)
    /\ UNCHANGED <<path, plan, proposed, repaired, ws, attempt, budgetVars,
                   result, n, stop, forced, allOk, valid, breaks>>

DecidePhase ==
    /\ pc = "decide" /\ from = "phase"
    /\ CASE level = FORCE_CLOSE /\ phase # FINALIZE ->
              UNCHANGED done /\ ToPhase(phase + 1) /\ forced' = TRUE /\ UNCHANGED allOk
         [] stop /\ level < FORCE_CLOSE ->
              Quit /\ allOk' = FALSE /\ UNCHANGED <<done, forced>>
         [] OTHER ->
              Go("drive") /\ UNCHANGED <<done, phase, from, forced, allOk>>
    /\ UNCHANGED <<path, plan, proposed, repaired, ws, session, attempt, budgetVars,
                   result, n, stop, valid, breaks>>

\* One command of the driver: it finishes the phase, or it does not.
Drive ==
    /\ pc = "drive"
    /\ Spend
    /\ \/ /\ done' = done \cup {phase}
          /\ Go("check") /\ from' = "phase_end"
          /\ UNCHANGED <<phase, allOk>>
       \/ /\ Quit /\ allOk' = FALSE
          /\ UNCHANGED done
    /\ UNCHANGED <<path, plan, proposed, repaired, ws, session, attempt, triggered,
                   reviewed, asked, result, n, stop, forced, valid, breaks>>

DecidePhaseEnd ==
    /\ pc = "decide" /\ from = "phase_end"
    /\ UNCHANGED done
    /\ IF stop /\ level < FORCE_CLOSE
       THEN Quit /\ allOk' = FALSE /\ UNCHANGED forced
       ELSE /\ ToPhase(phase + 1)
            /\ forced' = (forced \/ level = FORCE_CLOSE)
            /\ UNCHANGED allOk
    /\ UNCHANGED <<path, plan, proposed, repaired, ws, session, attempt, budgetVars,
                   result, n, stop, valid, breaks>>

\* Mutant: the driver's word is enough.
OutcomeUnproven(ok) ==
    CASE ~allOk -> "FAILED"
      [] allOk /\ (forced \/ plan = "STAGE_COMPLETED") -> "STAGE_COMPLETED"
      [] OTHER -> "COMPLETED"

Outcome(ok) ==
    CASE ~allOk \/ ~ok -> "FAILED"
      [] allOk /\ ok /\ (forced \/ plan = "STAGE_COMPLETED") -> "STAGE_COMPLETED"
      [] OTHER -> "COMPLETED"

\* validate_workspace has ended: the trusted build of what the driver left, which
\* RndDelivery looks into.
Validated(ok) ==
    /\ pc = "validate"
    /\ valid' = ok /\ Write(Outcome(ok))
    /\ Go("publish")
    /\ UNCHANGED <<path, diskVars, budgetVars, from, phase, n, stop, forced, allOk, breaks>>

Validate == \E ok \in BOOLEAN : Validated(ok)

\* finalize_cycle; if it fails so does the cycle, and it is tried once more.
Publish ==
    /\ pc = "publish"
    /\ UNCHANGED result \/ Write("FAILED")
    /\ Go("ended")
    /\ UNCHANGED <<path, diskVars, budgetVars, loopVars, breaks>>

-----------------------------------------------------------------------------
(* The direct path. *)

\* Before the proposal, after it, and after the repair.
DecideDirect ==
    /\ pc = "decide" /\ from \in {"scope", "proposal", "repair"}
    /\ IF stop \/ (from = "scope" /\ level >= FINISH_ONLY)
       THEN Close("FAILED") /\ UNCHANGED n
       ELSE /\ CASE from = "scope"    -> Go("propose")
                 [] from = "proposal" -> pc' \in {"build"} \cup (IF level < FINISH_ONLY THEN {"research"} ELSE {})
                 [] from = "repair"   -> Go("build")
            /\ n' = IF from = "repair" THEN 2 ELSE 1
            /\ UNCHANGED result
    /\ UNCHANGED <<path, diskVars, budgetVars, from, phase, stop, forced, allOk, valid, breaks>>

Propose ==
    /\ pc = "propose"
    /\ Spend
    /\ proposed' = TRUE /\ from' = "proposal" /\ Go("check")
    /\ UNCHANGED <<path, plan, repaired, ws, session, done, attempt, triggered,
                   reviewed, asked, result, phase, n, stop, forced, allOk, valid, breaks>>

\* Mods that may be of use are downloaded into the output directory.
Research ==
    /\ pc = "research"
    /\ Go("build")
    /\ UNCHANGED <<path, diskVars, budgetVars, result, loopVars, breaks>>

\* What follows an attempt: one repair, or the end.
After(r, i) ==
    IF r = "failed" /\ i = 1 /\ level' < FORCE_CLOSE
    THEN /\ Go(IF repaired THEN "check" ELSE "repair")
         /\ from' = "repair"
         /\ UNCHANGED result
    ELSE /\ CASE r = "analysis" -> Close("WAITING_USER")
              [] r = "ok" /\ plan = "STAGE_COMPLETED" -> Close("STAGE_COMPLETED")
              [] r = "ok" /\ plan # "STAGE_COMPLETED" -> Close("COMPLETED")
              [] OTHER    -> Close("FAILED")
         /\ UNCHANGED from

\* _run_or_resume_harness: a saved attempt counts, a cancelled one is resumed, a
\* new one needs a workspace of its own -- and there is one per cycle.
Build ==
    /\ pc = "build"
    /\ \/ /\ attempt[n] = "none" /\ ws = "none"
          /\ ws' = "ready" /\ Go("harness")
          /\ UNCHANGED <<attempt, result, from, level>>
       \/ /\ attempt[n] = "none" /\ ws # "none"
          /\ attempt' = [attempt EXCEPT ![n] = "prepare_failed"]
          /\ UNCHANGED <<ws, level>>
          /\ After("failed", n)
       \/ /\ attempt[n] = "cancelled"
          /\ Go("harness")
          /\ UNCHANGED <<ws, attempt, result, from, level>>
       \/ /\ attempt[n] \notin {"none", "cancelled"}
          /\ UNCHANGED <<ws, attempt, level>>
          /\ After(IF attempt[n] = "prepare_failed" THEN "failed" ELSE attempt[n], n)
    /\ UNCHANGED <<path, plan, proposed, repaired, session, done, triggered, reviewed,
                   asked, phase, n, stop, forced, allOk, valid, breaks>>

\* The runner ends; without one the attempt is an analysis.
Harness ==
    /\ pc = "harness"
    /\ \E r \in {"ok", "failed", "analysis"} :
         /\ attempt' = [attempt EXCEPT ![n] = r]
         /\ UNCHANGED level
         /\ After(r, n)
    /\ UNCHANGED <<path, plan, proposed, repaired, ws, session, done, triggered, reviewed,
                   level, asked, phase, n, stop, forced, allOk, valid, breaks>>

\* The one repair; without a model there is none.
Repair ==
    /\ pc = "repair"
    /\ \/ Spend /\ repaired' = TRUE /\ Go("check") /\ UNCHANGED result
       \/ Close("FAILED") /\ UNCHANGED <<level, repaired>>
    /\ UNCHANGED <<path, plan, proposed, ws, session, done, attempt, triggered, reviewed,
                   asked, loopVars, breaks>>

-----------------------------------------------------------------------------
(* What may end a run before its end. *)

\* An exception: a refused model call, a driver that died, a phase that hung.
Raise ==
    /\ pc \in Awaits \cup {"copied", "attach"}
    /\ Close("FAILED")
    /\ UNCHANGED <<path, diskVars, budgetVars, loopVars, breaks>>

\* The runtime stops: the task is cancelled at an await.
Suspend ==
    /\ pc \in Awaits /\ breaks < MaxBreaks
    /\ breaks' = breaks + 1
    /\ Go("off") /\ Write("SUSPENDED")
    /\ attempt' = IF pc = "harness" THEN [attempt EXCEPT ![n] = "cancelled"] ELSE attempt
    /\ UNCHANGED <<path, plan, proposed, repaired, ws, session, done, budgetVars, loopVars>>

\* The process dies.  A result that was written is final (RndCycle).
Crash ==
    /\ pc \notin {"off", "ended"} /\ breaks < MaxBreaks
    /\ breaks' = breaks + 1
    /\ Go(IF pc = "publish" THEN "ended" ELSE "off")
    /\ UNCHANGED <<path, diskVars, budgetVars, result, loopVars>>

\* What neither the driver nor the validator does.
Director ==
    \/ Start \/ Refuse \/ Plan
    \/ CheckDue \/ Review \/ CheckDone
    \/ Prepare \/ Baseline \/ DecidePhase \/ DecidePhaseEnd \/ Publish
    \/ DecideDirect \/ Propose \/ Research \/ Build \/ Harness \/ Repair

Work == Director \/ Attach \/ Drive \/ Validate

Over == pc = "ended" /\ UNCHANGED vars

Next == Work \/ Raise \/ Suspend \/ Crash \/ Over

Spec == Init /\ [][Next]_vars

\* Every await has a timeout or a process that ends, and a cycle that was
\* interrupted is recovered by the next start (RndCycle).
FairSpec == Spec /\ WF_vars(Work)

-----------------------------------------------------------------------------
\* "Persist before any optional model call, so a retry cannot consume it twice."
ReviewedOnce == \A t \in Thresholds : asked[t] <= 1

\* COMPLETED is earned: on the driver path by all five phases and the validator,
\* on the direct path by an attempt that was built; a stage by no less a build.
OutcomeEarned ==
    result \in {"COMPLETED", "STAGE_COMPLETED"} =>
        IF path = "driver"
        THEN valid /\ FINALIZE \in done /\ (result = "COMPLETED" => done = Phases)
        ELSE "ok" \in {attempt[1], attempt[2]}

\* Every cycle comes to an end, if its interruptions do.
CycleEnds == <>(pc = "ended")

\* What the recovery promises: a cycle with its input goes on where it was.
ResumeGoesOn ==
    [][pc = "prepare" /\ result' = "FAILED" => plan = "WAITING_USER"]_vars

\* The one correction after a failed build is built.
RepairIsBuilt == attempt[2] # "prepare_failed"
=============================================================================
