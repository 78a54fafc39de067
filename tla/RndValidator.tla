---------------------------- MODULE RndValidator ----------------------------
(***************************************************************************)
(* The final validator (rnd-runner, HarnessRunner): a process that looks at   *)
(* the workspace the driver left, runs what belongs to the changed areas and  *)
(* leaves its decision in runner_result.json, and validate_workspace of       *)
(* rnd/harness.py, which starts it and reads the file.                        *)
(*                                                                          *)
(* A file is abstracted to the area it lies in, an area to how it would fare  *)
(* if it were built.  What the driver commits is not changed in the sense of  *)
(* the validator, which asks git status; the driver modelled here leaves its  *)
(* work uncommitted.                                                          *)
(***************************************************************************)
EXTENDS Naturals, FiniteSets

CONSTANTS
    PythonAreas,    \* of agent-core, rnd-runner and control-center
    Targets         \* development targets a plan may have

VARIABLES
    target,     \* development_target of the brief
    area,       \* what the workspace holds, per area
    step,       \* where the validator is; "idle": there is none
    changed,    \* changed_files
    failed,     \* some command of the list has failed
    report,     \* validator_decision in runner_result.json
    astray      \* a validator outlived the Agent that started it

workspaceVars == <<target, area>>
runnerVars    == <<step, changed, failed, report, astray>>
validatorVars == <<workspaceVars, runnerVars>>

Bridge  == "maid-ai-bridge"
Project == "rnd-projects"       \* rnd-projects/<project-id>
Notes   == ".maidai-rnd"
Docs    == "docs"
Outside == "outside"
Areas   == PythonAreas \cup {Bridge, Project, Notes, Docs, Outside}

ASSUME ValidatorAssumption ==
    /\ PythonAreas \subseteq {"agent-core", "rnd-runner", "control-center"}
    /\ Targets \subseteq {"MAIDAI_SOURCE", "NEW_FORGE_ADDON", "SKILL",
                          "EXTERNAL_MOD_RESEARCH", "RESEARCH_ONLY"}

\* "malformed": it does not compile; a project whose build yields no jar of a
\* mod for this game.  "untested": its tests directory is gone.
Shapes(a) ==
    CASE a \in PythonAreas -> {"fine", "failing", "malformed", "untested"}
      [] a = Project       -> {"fine", "failing", "malformed"}
      [] a = Bridge        -> {"fine", "failing"}
      [] OTHER             -> {"fine"}

Touched == {a \in Areas : area[a] # "same"}

Steps == {"idle", "diff", "areas", "compile", "suites", "bridge", "extra",
          "addon", "collect", "passed", "failed"}

ValidatorTypeOK ==
    /\ target \in Targets
    /\ \A a \in Areas : area[a] \in Shapes(a) \cup {"same"}
    /\ step \in Steps
    /\ changed \subseteq Areas
    /\ failed \in BOOLEAN /\ astray \in BOOLEAN
    /\ report \in {"none", "PASS", "FAIL"}

ValidatorInit ==
    /\ target \in Targets
    /\ area = [a \in Areas |-> "same"]
    /\ step = "idle" /\ changed = {} /\ failed = FALSE
    /\ report = "none" /\ astray = FALSE

-----------------------------------------------------------------------------
\* from_planning: allowed_areas of the brief, and what _validate_changed_areas adds.
AllowedAreas ==
    {Notes} \cup
    CASE target = "MAIDAI_SOURCE"         -> PythonAreas \cup {Bridge, Docs}
      [] target = "NEW_FORGE_ADDON"       -> {Project}
      [] target = "SKILL"                 -> PythonAreas \cap {"agent-core"}
      [] target = "EXTERNAL_MOD_RESEARCH" -> {Docs}
      [] target = "RESEARCH_ONLY"         -> {}

ImplementationRequired == target \notin {"RESEARCH_ONLY", "EXTERNAL_MOD_RESEARCH"}

\* brief.write and the files beside it, anew at every start of a run: the
\* workspace is never without a change.
WriteBrief == area' = [area EXCEPT ![Notes] = "fine"]

\* The driver changes a file.
EditArea(a) ==
    /\ \E s \in Shapes(a) : area' = [area EXCEPT ![a] = s]
    /\ UNCHANGED <<target, runnerVars>>

-----------------------------------------------------------------------------
(* The process.  An exception ends it with a report, too. *)

To(s) == step' = s

Fails == To("failed") /\ report' = "FAIL" /\ UNCHANGED failed

\* A command is recorded; that it failed for no fault of the area, at its
\* timeout for instance, is in `bad` as well.
Record(bad) == failed' = (failed \/ bad)

Gone == To("idle") /\ changed' = {} /\ failed' = FALSE

Launch ==
    /\ step = "idle"
    /\ To("diff")
    /\ UNCHANGED <<workspaceVars, changed, failed, report, astray>>

\* _workspace_diff
Diff ==
    /\ step = "diff"
    /\ changed' = Touched
    /\ IF Touched = {} THEN Fails ELSE To("areas") /\ UNCHANGED <<report, failed>>
    /\ UNCHANGED <<workspaceVars, astray>>

\* _validate_changed_areas, and a change that is more than notes.
CheckAreas ==
    /\ step = "areas"
    /\ IF \/ ~(changed \subseteq AllowedAreas)
          \/ ImplementationRequired /\ changed \subseteq {Notes}
       THEN Fails
       ELSE To("compile") /\ UNCHANGED <<report, failed>>
    /\ UNCHANGED <<workspaceVars, changed, astray>>

\* compileall over the three source trees, changed or not.
Compile ==
    /\ step = "compile"
    /\ Record(\E a \in PythonAreas : area[a] = "malformed")
    /\ To("suites")
    /\ UNCHANGED <<workspaceVars, changed, report, astray>>

\* pytest for each changed tree that has tests.
RunSuites ==
    /\ step = "suites"
    /\ \E slow \in IF changed \cap PythonAreas = {} THEN {FALSE} ELSE BOOLEAN :
         Record(slow \/ \E a \in changed \cap PythonAreas : area[a] \in {"failing", "malformed"})
    /\ To("bridge")
    /\ UNCHANGED <<workspaceVars, changed, report, astray>>

BuildBridge ==
    /\ step = "bridge"
    /\ \E slow \in IF Bridge \in changed THEN BOOLEAN ELSE {FALSE} :
         Record(slow \/ (Bridge \in changed /\ area[Bridge] = "failing"))
    /\ To("extra")
    /\ UNCHANGED <<workspaceVars, changed, report, astray>>

\* At most eight commands of the change request, gradlew and git alone.
RunExtra ==
    /\ step = "extra"
    /\ \E bad \in BOOLEAN : Record(bad)
    /\ To(IF target = "NEW_FORGE_ADDON" THEN "addon" ELSE "collect")
    /\ UNCHANGED <<workspaceVars, changed, report, astray>>

\* _build_and_validate_forge_addon
BuildAddon ==
    /\ step = "addon"
    /\ IF area[Project] = "fine" THEN To("collect") /\ UNCHANGED <<report, failed>> ELSE Fails
    /\ UNCHANGED <<workspaceVars, changed, astray>>

\* _collect_artifacts may raise; otherwise the list of commands decides.
Report ==
    /\ step = "collect"
    /\ \/ Fails
       \/ ~failed /\ report' = "PASS" /\ To("passed") /\ UNCHANGED failed
    /\ UNCHANGED <<workspaceVars, changed, astray>>

\* The process dies of something else and reports nothing.
Dies ==
    /\ step \notin {"idle", "passed", "failed"}
    /\ To("failed")
    /\ UNCHANGED <<workspaceVars, changed, failed, report, astray>>

\* One that was left by a dead Agent comes to its end and writes the same file.
StrayReports ==
    /\ astray
    /\ report' \in {"PASS", "FAIL"} /\ astray' = FALSE
    /\ UNCHANGED <<workspaceVars, step, changed, failed>>

Check == \/ Launch \/ Diff \/ CheckAreas \/ Compile \/ RunSuites \/ BuildBridge
         \/ RunExtra \/ BuildAddon \/ Report

\* Mutant: the file is believed, whatever became of the process.
PassedByReport == report = "PASS"

\* validate_workspace: ok is the exit code and the file.
Passed == step = "passed" /\ report = "PASS"

\* The delivered state of the workspace is one the validator stands for.
Sound ==
    /\ Touched \subseteq AllowedAreas
    /\ ImplementationRequired => Touched # {Notes}
    /\ \A a \in Touched : area[a] \in {"fine", "untested"}
    /\ target = "NEW_FORGE_ADDON" => area[Project] = "fine"
=============================================================================
