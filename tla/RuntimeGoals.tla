---------------------------- MODULE RuntimeGoals ----------------------------
(***************************************************************************)
(* The goals and plans of the runtime and its life cycle: start, pause, stop *)
(* and the two tasks of brain/autonomous_loop.py (_run with _on_snapshot, and *)
(* _execute_plan), goal/manager.py, the part of persist/recovery.py and of    *)
(* memory/store.py that finds the goal and plan to go on with after a restart, *)
(* and the goals that the user submits.  What a plan does is PlanSteps; here a *)
(* plan only acts, ends, or asks for material.                               *)
(*                                                                          *)
(* Every goal has one plan at a time, so a plan has the number of its goal.   *)
(* The event loop runs one coroutine until its next await: what comes from    *)
(* outside comes in only while all of them are Parked.                       *)
(***************************************************************************)
EXTENDS Naturals, FiniteSets

CONSTANTS MaxGoals,   \* bound of the model: goals that are remembered at once
          MaxEvents,  \* bound of the model: goals of the user, pauses, deaths, lost
                      \* links, errors and restarts
          MaxRestarts,\* bound of the model: restarts among them
          Anytime     \* the user submits goals while plans run and models think

Goals == 1..MaxGoals

ASSUME GoalsAssumption ==
    /\ MaxGoals \in Nat \ {0} /\ MaxEvents \in Nat /\ MaxRestarts \in Nat
    /\ Anytime \in BOOLEAN

VARIABLES mode, desired, net,
          runner,    \* where _run is
          task,      \* the plan task: where it is, and its plan
          goal,      \* status, parent, the plan to resume after it
          plan,      \* status of the plan of each goal while it is open, and
                     \* whether it may build
          current, stack, active,
          restored,  \* load_pending was called in this process
          waiting,   \* _recovery_waiting, with the goal and plan loaded
          unchecked, \* history: plans that ran when the process ended
          events, restarts

vars == <<mode, desired, net, runner, task, goal, plan, current, stack, active,
          restored, waiting, unchecked, events, restarts>>

GoalOpen     == {"ACTIVE", "PAUSED", "PAUSED_MATERIALS", "NEEDS_REVALIDATION"}
GoalStatuses == GoalOpen \cup {"none", "SUCCESS", "FAILED", "BLOCKED", "ABORTED"}
PlanOpen     == {"PENDING", "RUNNING", "PAUSED"}
Endings      == {"DONE", "BLOCKED", "INTERRUPTED"}
Modes        == {"STOPPED", "RUNNING", "PAUSED", "SAFE_IDLE", "ERROR"}
NoGoal       == [st |-> "none", parent |-> 0, resume |-> 0]
NoPlan       == [st |-> "none", build |-> FALSE]
NewPlan      == [st |-> "PENDING", build |-> TRUE]
GatherPlan   == [st |-> "PENDING", build |-> FALSE]
NoTask       == [pc |-> "none", plan |-> 0]
NotWaiting   == [on |-> FALSE, goal |-> 0, plan |-> 0]
Synced       == net = "synced"     \* connected, HELLO seen, and a snapshot since
RunParked    == runner \in {"off", "wait", "got", "think"}
PlanParked   == task.pc \in {"none", "created", "acting", "adjust"}
Parked       == RunParked /\ PlanParked

TypeOK ==
    /\ mode \in Modes /\ desired \in BOOLEAN /\ net \in {"down", "synced"}
    /\ runner \in {"off", "wait", "got", "verify", "choose", "think"}
    /\ task \in [pc : {"none", "created", "check", "acting", "adjust"}, plan : 0..MaxGoals]
    /\ goal \in [Goals -> [st : GoalStatuses, parent : 0..MaxGoals, resume : 0..MaxGoals]]
    /\ plan \in [Goals -> [st : {"none"} \cup PlanOpen, build : BOOLEAN]]
    /\ current \in 0..MaxGoals /\ stack \subseteq Goals /\ active \in 0..MaxGoals
    /\ restored \in BOOLEAN
    /\ waiting \in [on : BOOLEAN, goal : 0..MaxGoals, plan : 0..MaxGoals]
    /\ unchecked \subseteq Goals
    /\ events \in 0..MaxEvents /\ restarts \in 0..MaxRestarts

Init ==
    /\ mode = "STOPPED" /\ desired = FALSE /\ net = "down"
    /\ runner = "off" /\ task = NoTask
    /\ goal = [g \in Goals |-> NoGoal] /\ plan = [g \in Goals |-> NoPlan]
    /\ current = 0 /\ stack = {} /\ active = 0
    /\ restored = FALSE /\ waiting = NotWaiting /\ unchecked = {}
    /\ events = 0 /\ restarts = 0

Books == <<goal, plan, current, stack, active>>
Rest  == <<restored, waiting, unchecked, events, restarts>>
NewNumber(g) == unchecked' = unchecked \ {g}
Event == events < MaxEvents /\ events' = events + 1

-----------------------------------------------------------------------------
(* goal/manager.py *)

\* Goals that may go on, and what each will go back to: its parent, with the plan
\* that waits for it.
Live    == {g \in Goals : goal[g].st \in GoalOpen \/ g = current}
Held(g) == {goal[g].parent, goal[g].resume} \ {0}

\* Numbers of goals that nothing leads back to: ended, put aside for good by
\* another goal, or without the child they wait for, so that only a restart would
\* find them.
Free ==
    {g \in Goals : /\ g \notin {current, active, task.plan, waiting.goal, waiting.plan}
                   /\ goal[g].st # "ACTIVE"
                   /\ \A h \in Live : g \notin Held(h)}

\* The number a new goal takes, and what becomes of those that have ended.
Fresh == {g \in Free : \A h \in Free : g <= h}
Kept(h) == IF h \in Free /\ goal[h].st \notin GoalOpen THEN NoGoal ELSE goal[h]

Pauses == current # 0 /\ goal[current].st = "ACTIVE"

\* set: a new goal with its plan; the current one is put aside if it is active.
SetGoal(g) ==
    /\ goal' = [h \in Goals |-> CASE h = g -> [NoGoal EXCEPT !.st = "ACTIVE"]
                                 [] h = current /\ Pauses -> [goal[h] EXCEPT !.st = "PAUSED"]
                                 [] OTHER -> Kept(h)]
    /\ stack' = (stack \ {g}) \cup (IF Pauses THEN {current} ELSE {})
    /\ current' = g /\ active' = g

\* create_child: the current goal waits for the new one.
CreateChild(g, status, resume) ==
    /\ goal' = [goal EXCEPT ![current].st = status,
                            ![g] = [st |-> "ACTIVE", parent |-> current, resume |-> resume]]
    /\ stack' = (stack \ {g}) \cup {current}
    /\ current' = g /\ active' = g

\* replace: the current goal is given up.
Replace(g) ==
    /\ goal' = [h \in Goals |-> CASE h = g -> [NoGoal EXCEPT !.st = "ACTIVE"]
                                 [] h = current -> [goal[h] EXCEPT !.st = "ABORTED"]
                                 [] OTHER -> Kept(h)]
    /\ stack' = stack \ {g}
    /\ current' = g /\ active' = g

\* verify: what the conditions of the current goal make of its status.
VerifiedAs(st) == {st, "SUCCESS", "FAILED"}

\* Mutant: the parent is resumed however the child has ended.
MayResumeParentAlways(st) == goal[current].parent \in stack

MayResumeParent(st) == st = "SUCCESS" /\ goal[current].parent \in stack

-----------------------------------------------------------------------------
(* start, pause, stop *)

\* load_latest_active_goal prefers an active one, then the one saved last, the
\* younger of those saved in one second (store.py:305).  What a goal goes back to is
\* older, and is not saved as long as that goal is open.  load_latest_active_plan
\* takes the plan of the goal found, or any if there is none.
Loaded ==
    LET open == {g \in Goals : goal[g].st \in GoalOpen}
        best == IF \E g \in open : goal[g].st = "ACTIVE"
                THEN {g \in open : goal[g].st = "ACTIVE"}
                ELSE {g \in open : \A h \in open : g \notin Held(h)}
        left == {g \in Goals : plan[g].st \in PlanOpen}
    IN  IF open = {} THEN {[on |-> left # {}, goal |-> 0, plan |-> p] :
                              p \in IF left = {} THEN {0} ELSE left}
        ELSE {[on |-> TRUE, goal |-> g, plan |-> IF g \in left THEN g ELSE 0] : g \in best}

\* restore: the goals above it go back to the stack, whatever has become of them.
Above(g) == IF g = 0 THEN {} ELSE {goal[g].parent} \ {0}

Parents(g) == Above(g) \cup UNION {Above(p) : p \in Above(g)}

\* Mutant: what was active is active again at once.
LoadAtOnce ==
    \E w \in Loaded : /\ current' = w.goal /\ stack' = Parents(w.goal) /\ active' = w.plan
                      /\ waiting' = NotWaiting

\* Only the first start of a process loads, and nothing is taken up yet.
Load == waiting' \in Loaded /\ UNCHANGED <<current, stack, active>>

StartMode == IF waiting'.on \/ net = "down" THEN "SAFE_IDLE" ELSE "RUNNING"

Start ==
    /\ Parked /\ ~desired
    /\ desired' = TRUE /\ restored' = TRUE
    /\ IF restored THEN UNCHANGED <<waiting, current, stack, active>> ELSE Load
    /\ mode' = StartMode
    /\ runner' = IF runner = "off" THEN "wait" ELSE runner
    /\ UNCHANGED <<net, task, goal, plan, unchecked, events, restarts>>

\* CancelledError at whatever the plan task awaits; one that has not begun is
\* dropped without a trace.
CancelPlan ==
    /\ task' = NoTask
    /\ plan' = IF task.pc \in {"acting", "adjust"} THEN [plan EXCEPT ![task.plan].st = "PAUSED"] ELSE plan

Pause ==
    /\ Parked /\ desired /\ Event
    /\ desired' = FALSE /\ mode' = "PAUSED"
    /\ CancelPlan
    /\ UNCHANGED <<net, runner, goal, current, stack, active, restored, waiting, unchecked, restarts>>

Stop ==
    /\ Parked /\ runner # "off" /\ Event
    /\ desired' = FALSE /\ mode' = "STOPPED" /\ runner' = "off"
    /\ CancelPlan
    /\ UNCHANGED <<net, goal, current, stack, active, restored, waiting, unchecked, restarts>>

\* The process ends; the store keeps goals and plans, and those that have ended
\* matter only as the parent of one that has not.
Restart ==
    /\ Parked /\ restored /\ Event /\ restarts < MaxRestarts /\ restarts' = restarts + 1
    /\ mode' = "STOPPED" /\ desired' = FALSE /\ net' = "down"
    /\ runner' = "off" /\ task' = NoTask
    /\ current' = 0 /\ stack' = {} /\ active' = 0
    /\ restored' = FALSE /\ waiting' = NotWaiting
    /\ unchecked' = unchecked \cup {p \in Goals : plan[p].st = "RUNNING"}
    /\ goal' = [g \in Goals |->
                  IF goal[g].st \in GoalOpen \/ \E h \in Goals : goal[h].st \in GoalOpen /\ goal[h].parent = g
                  THEN goal[g] ELSE NoGoal]
    /\ UNCHANGED plan

-----------------------------------------------------------------------------
(* _on_snapshot *)

\* The plan task begins before a later snapshot is looked at.
Arrive ==
    /\ runner = "wait" /\ Synced /\ task.pc # "created"
    /\ runner' = "got"
    /\ UNCHANGED <<mode, desired, net, task, Books, Rest>>

\* revalidate, and restore: the plan goes on or is blocked, and the goal with it.
Revalidate ==
    /\ runner = "got" /\ waiting.on /\ Synced
    /\ \E blocked \in BOOLEAN, reached \in BOOLEAN :
         /\ waiting.plan = 0 => ~blocked
         /\ waiting.goal = 0 => ~reached
         /\ plan' = [p \in Goals |-> IF p = waiting.plan
                       THEN IF blocked THEN NoPlan ELSE [plan[p] EXCEPT !.st = "PAUSED"] ELSE plan[p]]
         /\ goal' = [g \in Goals |-> IF g = waiting.goal
                       THEN [goal[g] EXCEPT !.st = CASE reached -> "SUCCESS"
                                                     [] ~reached /\ blocked -> "BLOCKED"
                                                     [] OTHER -> "PAUSED"] ELSE goal[g]]
    /\ current' = waiting.goal /\ stack' = Parents(waiting.goal) /\ active' = waiting.plan
    /\ unchecked' = unchecked \ {waiting.plan}
    /\ waiting' = NotWaiting
    /\ UNCHANGED <<mode, desired, net, runner, task, restored, events, restarts>>

NotResynced ==
    /\ runner = "got" /\ waiting.on /\ ~Synced
    /\ runner' = "wait"
    /\ UNCHANGED <<mode, desired, net, task, Books, Rest>>

\* Mutant: not before the goal that failed is replaced.
WakesUnlessFailed == /\ desired /\ net # "down" /\ mode = "SAFE_IDLE"
                     /\ current # 0 => goal[current].st # "FAILED"

Wakes == desired /\ net # "down" /\ mode = "SAFE_IDLE"

Process ==
    /\ runner = "got" /\ ~waiting.on
    /\ mode' = IF Wakes THEN "RUNNING" ELSE mode
    /\ runner' = IF mode' = "RUNNING" THEN "verify" ELSE "wait"
    /\ UNCHANGED <<desired, net, task, Books, Rest>>

\* An exception in the handler.
HandlerFails ==
    /\ runner = "got" /\ Event
    /\ mode' = "ERROR" /\ runner' = "wait"
    /\ UNCHANGED <<desired, net, task, Books, restored, waiting, unchecked, restarts>>

Resumed(c) == c.resume

\* A goal that has ended gives up its plan; one that has succeeded makes its
\* parent the current goal, with the plan that waited for it.
Verify ==
    /\ runner = "verify"
    /\ runner' = "choose"
    /\ IF current = 0 THEN UNCHANGED Books
       ELSE \E st \in VerifiedAs(goal[current].st) :
              LET c == goal[current]
                  g == [goal EXCEPT ![current].st = st]
                  ended == st \in {"SUCCESS", "FAILED", "BLOCKED"}
              IN  \/ /\ ~ended
                     /\ goal' = g /\ UNCHANGED <<plan, current, stack, active>>
                  \/ /\ ended /\ ~MayResumeParent(st) /\ goal' = g
                     /\ active' = 0 /\ UNCHANGED <<plan, current, stack>>
                  \/ /\ ended /\ MayResumeParent(st)
                     /\ goal' = [g EXCEPT ![c.parent].st = "ACTIVE"]
                     /\ current' = c.parent /\ stack' = stack \ {c.parent}
                     /\ active' = Resumed(c) /\ plan' = [plan EXCEPT ![c.resume].st = "PAUSED"]
    /\ UNCHANGED <<mode, desired, net, task, Rest>>

CanRun == /\ active # 0 /\ current # 0
          /\ goal[current].st \in {"ACTIVE", "PAUSED", "NEEDS_REVALIDATION"}
          /\ plan[active].st \in PlanOpen

\* Go on with the plan there is, or with another one for the same goal.
Choose ==
    /\ runner = "choose"
    /\ \/ /\ task.pc # "none"
          /\ runner' = "wait" /\ UNCHANGED <<task, goal, plan, active>>
       \/ /\ task.pc = "none" /\ CanRun
          /\ runner' = "wait" /\ goal' = [goal EXCEPT ![current].st = "ACTIVE"]
          /\ task' = [pc |-> "created", plan |-> active] /\ UNCHANGED <<plan, active>>
       \/ /\ task.pc = "none" /\ ~CanRun
          /\ active = 0 /\ current # 0 /\ goal[current].st = "ACTIVE"
          /\ runner' = "wait" /\ active' = current
          /\ plan' = [plan EXCEPT ![current] = GatherPlan]
          /\ task' = [pc |-> "created", plan |-> current] /\ UNCHANGED goal
       \/ /\ task.pc = "none" /\ ~CanRun
          /\ current # 0 => goal[current].st \in GoalOpen
          /\ runner' = "wait" /\ UNCHANGED <<task, goal, plan, active>>
    /\ UNCHANGED <<mode, desired, net, current, stack, Rest>>

\* Ask the strategy model: at once when the goal has ended, and else when its
\* time has come.
Think ==
    /\ runner = "choose" /\ task.pc = "none" /\ ~CanRun
    /\ runner' = "think"
    /\ UNCHANGED <<mode, desired, net, task, Books, Rest>>

\* The answer of the model keeps goal and plan, or makes new ones.
Decided ==
    /\ runner = "think" /\ runner' = "wait"
    /\ \/ current # 0 /\ active # 0 /\ UNCHANGED <<Books, task, unchecked>>
       \/ \E g \in Fresh :
            /\ SetGoal(g) /\ plan' = [plan EXCEPT ![g] = NewPlan]
            /\ NewNumber(g) /\ task' = [pc |-> "created", plan |-> g]
    /\ UNCHANGED <<mode, desired, net, restored, waiting, events, restarts>>

\* Nothing came for 20 seconds.
Idle ==
    /\ runner = "wait" /\ desired /\ net = "down" /\ Parked
    /\ mode' = "SAFE_IDLE"
    /\ UNCHANGED <<desired, net, runner, task, Books, Rest>>

-----------------------------------------------------------------------------
(* _execute_plan *)

Begin ==
    /\ task.pc = "created"
    /\ goal' = IF current = 0 THEN goal ELSE [goal EXCEPT ![current].st = "ACTIVE"]
    /\ plan' = [plan EXCEPT ![task.plan].st = "RUNNING"]
    /\ task' = [task EXCEPT !.pc = "check"]
    /\ UNCHANGED <<mode, desired, net, runner, current, stack, active, Rest>>

\* The end: the current goal is looked at, which is not always the plan's own.
Ends(status) ==
    /\ plan' = [plan EXCEPT ![task.plan] = IF status = "PAUSED" THEN [@ EXCEPT !.st = "PAUSED"] ELSE NoPlan]
    /\ IF current = 0 \/ ~Synced THEN UNCHANGED goal
       ELSE \E st \in VerifiedAs(goal[current].st) :
              goal' = [goal EXCEPT ![current].st = IF status = "BLOCKED" /\ st = "ACTIVE" THEN "BLOCKED" ELSE st]
    /\ active' = IF active = task.plan /\ status \in Endings THEN 0 ELSE active
    /\ task' = NoTask
    /\ UNCHANGED <<mode, desired, net, runner, current, stack, Rest>>

MayAct == mode = "RUNNING" /\ Synced

Check ==
    /\ task.pc = "check"
    /\ \/ mode # "RUNNING" /\ ~MayAct /\ Ends("PAUSED")
       \/ mode = "RUNNING" /\ ~MayAct /\ Ends("INTERRUPTED")
       \/ MayAct /\ \E st \in Endings : Ends(st)
       \/ /\ MayAct /\ task' = [task EXCEPT !.pc = "acting"]
          /\ UNCHANGED <<mode, desired, net, runner, Books, Rest>>

\* The action has ended: the plan goes on, is done with its goal, or ends.
ActionEnds ==
    /\ task.pc = "acting"
    /\ \/ /\ task' \in {[task EXCEPT !.pc = "check"], [task EXCEPT !.pc = "adjust"]}
          /\ UNCHANGED <<mode, desired, net, runner, Books, Rest>>
       \/ /\ current # 0 /\ Synced
          /\ goal' = [goal EXCEPT ![current].st = "SUCCESS"]
          /\ plan' = [plan EXCEPT ![task.plan] = NoPlan]
          /\ active' = IF active = task.plan THEN 0 ELSE active
          /\ task' = NoTask
          /\ UNCHANGED <<mode, desired, net, runner, current, stack, Rest>>
       \/ \E st \in {"BLOCKED", "INTERRUPTED"} : Ends(st)

\* _create_material_child: the current goal waits for its material.
NeedsMaterial ==
    /\ task.pc = "acting" /\ plan[task.plan].build /\ current # 0
    /\ \E g \in Fresh :
         /\ CreateChild(g, "PAUSED_MATERIALS", task.plan) /\ NewNumber(g)
         /\ plan' = [plan EXCEPT ![task.plan].st = "PAUSED", ![g] = GatherPlan]
    /\ task' = NoTask
    /\ UNCHANGED <<mode, desired, net, runner, restored, waiting, events, restarts>>

\* _maybe_adjust_plan: the model keeps the plan, or replaces goal and plan.
Adjusted ==
    /\ task.pc = "adjust"
    /\ \/ /\ task' = [task EXCEPT !.pc = "check"]
          /\ UNCHANGED <<Books, unchecked>>
       \/ /\ task' = NoTask
          /\ \E g \in Fresh :
               /\ Replace(g) /\ NewNumber(g)
               /\ plan' = [plan EXCEPT ![task.plan] = NoPlan, ![g] = NewPlan]
    /\ UNCHANGED <<mode, desired, net, runner, restored, waiting, events, restarts>>

-----------------------------------------------------------------------------
(* The user, the link and the maid. *)

Quiet == runner = "wait" /\ task.pc = "none" /\ ~waiting.on

\* submit_user_goal takes the place of the current goal, and leaves a plan that
\* runs alone.
CreateGoal ==
    /\ Parked /\ Synced /\ Event
    /\ Anytime \/ Quiet
    /\ \E g \in Fresh : SetGoal(g) /\ plan' = [plan EXCEPT ![g] = NewPlan] /\ NewNumber(g)
    /\ UNCHANGED <<mode, desired, net, runner, task, restored, waiting, restarts>>

\* EXECUTE_BLUEPRINT: pause, queue, resume.
QueueBlueprint ==
    /\ Parked /\ Synced /\ Event
    /\ Anytime \/ (runner = "wait" /\ ~waiting.on)
    /\ desired
    /\ task' = NoTask /\ mode' = IF waiting.on THEN "SAFE_IDLE" ELSE "RUNNING"
    /\ \E g \in Fresh :
         /\ SetGoal(g) /\ NewNumber(g)
         /\ plan' = [p \in Goals |-> CASE p = g -> NewPlan
                                      [] p = task.plan /\ task.pc \in {"acting", "adjust"} ->
                                           [plan[p] EXCEPT !.st = "PAUSED"]
                                      [] OTHER -> plan[p]]
    /\ UNCHANGED <<desired, net, runner, restored, waiting, restarts>>

\* MAID_DEATH in the event task, which lives and ends with the other.
MaidDies ==
    /\ Parked /\ runner # "off" /\ Event
    /\ goal' = IF current = 0 THEN goal ELSE [goal EXCEPT ![current].st = "FAILED"]
    /\ mode' = "SAFE_IDLE"
    /\ UNCHANGED <<desired, net, runner, task, plan, current, stack, active, restored, waiting, unchecked, restarts>>

LinkDrops ==
    /\ Parked /\ net # "down" /\ Event
    /\ net' = "down"
    /\ UNCHANGED <<mode, desired, runner, task, Books, restored, waiting, unchecked, restarts>>

LinkReturns ==
    /\ Parked /\ net = "down" /\ net' = "synced"
    /\ UNCHANGED <<mode, desired, runner, task, Books, Rest>>

-----------------------------------------------------------------------------
Runner == /\ PlanParked
          /\ \/ Arrive \/ Revalidate \/ NotResynced \/ Process \/ Verify \/ Choose \/ Think
             \/ Decided \/ Idle \/ HandlerFails
Task   == /\ RunParked
          /\ Begin \/ Check \/ ActionEnds \/ NeedsMaterial \/ Adjusted
User   == Start \/ Pause \/ Stop \/ CreateGoal \/ QueueBlueprint

Next == Runner \/ Task \/ User \/ Restart \/ MaidDies \/ LinkDrops \/ LinkReturns

Spec == Init /\ [][Next]_vars

\* The tasks go on, every await has a deadline, the Bridge comes back, and a
\* review falls due again and again.
FairSpec == Spec /\ WF_vars(Runner) /\ WF_vars(Task) /\ WF_vars(LinkReturns) /\ SF_vars(Think)

-----------------------------------------------------------------------------
\* "A persisted RUNNING step remains RUNNING until a fresh Bridge HELLO + state
\* resync has arrived": a plan that ran when the process ended does not act
\* before it has been held against the state of the world.
CheckedFirst == [][task'.pc = "acting" => task'.plan \notin unchecked]_vars

\* A goal that waits for its material waits as long as the goal that gathers it is
\* open, through every restart, and only its success makes it active again.
MaterialFirst ==
    [][\A g \in Goals \ Free : goal[g].st = "PAUSED_MATERIALS" /\ goal'[g].st # "PAUSED_MATERIALS" =>
           \/ current # 0 /\ goal'[current].parent = g /\ goal'[current].st = "SUCCESS"
           \/ /\ goal'[g].st # "ACTIVE"
              /\ \A h \in Goals : goal[h].st \in GoalOpen => goal[h].parent # g]_vars

\* While the user wants the runtime to run, and its handler has not failed, there
\* is a plan at work again and again.
WorkGoesOn ==
    <>[](desired /\ mode # "ERROR") => []<>(task.pc # "none")
=============================================================================
