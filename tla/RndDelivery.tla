----------------------------- MODULE RndDelivery -----------------------------
(***************************************************************************)
(* A research cycle (RndPipeline) with the workspace its driver works in and  *)
(* the validator that has the last word (RndValidator).  The driver edits     *)
(* while a phase is driven; a suspension ends the driver and the validator,   *)
(* the death of the Agent ends the driver and leaves the validator to itself. *)
(***************************************************************************)
EXTENDS RndPipeline, RndValidator

CONSTANT MaxTouched     \* bound of the model: areas the driver touches

deliveryVars == <<vars, validatorVars>>

DeliveryTypeOK == TypeOK /\ ValidatorTypeOK

DeliveryInit ==
    /\ Init
    /\ ValidatorInit
    /\ path = "direct" => target = CHOOSE t \in Targets : TRUE

-----------------------------------------------------------------------------
Direct == Director /\ UNCHANGED validatorVars

\* prepare_coding_harness
AttachDriver == Attach /\ WriteBrief /\ UNCHANGED <<target, runnerVars>>

Edit ==
    /\ pc = "drive"
    /\ \E a \in Areas :
         /\ Cardinality((Touched \cup {a}) \ {Notes}) <= MaxTouched
         /\ EditArea(a)
    /\ UNCHANGED vars

DrivePhase == Drive /\ UNCHANGED validatorVars

Inspect == pc = "validate" /\ Check /\ UNCHANGED vars

InspectorDies == pc = "validate" /\ Dies /\ UNCHANGED vars

Stray == StrayReports /\ UNCHANGED vars

\* The validator has ended, or it could not be started.
Judge ==
    /\ step \in {"passed", "failed"} \/ (step = "idle" /\ pc = "validate")
    /\ Validated(Passed)
    /\ Gone
    /\ UNCHANGED <<workspaceVars, report, astray>>

\* A validator that runs is terminated with its task.
Stopped ==
    /\ Raise \/ Suspend
    /\ Gone
    /\ UNCHANGED <<workspaceVars, report, astray>>

Died ==
    /\ Crash
    /\ astray' = (astray \/ step \notin {"idle", "passed", "failed"})
    /\ Gone
    /\ UNCHANGED <<workspaceVars, report>>

Delivery == Direct \/ AttachDriver \/ DrivePhase \/ Inspect \/ Judge

DeliveryNext ==
    \/ Delivery \/ Edit \/ InspectorDies \/ Stray \/ Stopped \/ Died
    \/ (Over /\ UNCHANGED validatorVars)

DeliverySpec == DeliveryInit /\ [][DeliveryNext]_deliveryVars

\* As for FairSpec of RndPipeline; every command of the validator has a timeout.
FairDelivery == DeliverySpec /\ WF_deliveryVars(Delivery)

-----------------------------------------------------------------------------
\* What a cycle of the driver hands over as COMPLETED or as a stage is, at that
\* moment, a workspace that stays inside the areas of the brief and builds:
\* whatever was driven, interrupted, validated and driven again before, and
\* whatever an older validator has left in the file.
DeliveredIsSound ==
    path = "driver" /\ result \in {"COMPLETED", "STAGE_COMPLETED"} => Sound
=============================================================================
