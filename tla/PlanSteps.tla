------------------------------ MODULE PlanSteps ------------------------------
(***************************************************************************)
(* How the runtime executes one temporary plan: _execute_plan,               *)
(* _execute_nodes, _execute_loop and _execute_action_step of                 *)
(* brain/autonomous_loop.py, what persist/recovery.py makes of the plan after *)
(* a restart, and the request ids by which the gateway and the body recognise *)
(* a request they have answered before.                                      *)
(*                                                                          *)
(* A node of the plan is an action, or a flow node around one action: the     *)
(* body of a loop, the branch of an IF.  The action of node n is step n.  The *)
(* coroutine keeps the event loop between two awaits, so the world, the link, *)
(* the user and a crash only come in where it is Parked.                     *)
(***************************************************************************)
EXTENDS Naturals, FiniteSets, Sequences

CONSTANTS Shapes,      \* the plans: kinds of their nodes, in order
          Length,      \* nodes of a plan
          Unsafe,      \* nodes whose action must not be replayed blindly
          Checked,     \* nodes whose action the state alone can confirm
          MaxRetries,  \* max_retries of a step
          Rounds,      \* repeat_count, or max_iterations of UNTIL and WHILE
          MaxFaults    \* bound of the model: pauses, deaths, dangers, restarts of
                       \* the process and ends of the connection

Nodes == 1..Length
Loops == {"REPEAT", "UNTIL", "WHILE"}
Kinds == {"ACTION", "IF", "PAUSE", "ABORT"} \cup Loops

ASSUME PlanAssumption ==
    /\ Length \in Nat \ {0} /\ Shapes \subseteq [Nodes -> Kinds]
    /\ Unsafe \subseteq Nodes /\ Checked \subseteq Nodes
    /\ MaxRetries \in Nat /\ Rounds \in Nat \ {0}
    /\ MaxFaults \in Nat

VARIABLES shape,   \* the kinds of its nodes
          plan,    \* the plan in memory
          disk,    \* the plan as the store has it
          pc,      \* where the plan task is
          at,      \* the node it is at
          seen,    \* seen_codes of the action step
          got,     \* the result of the request, or the signal of the plan
          bridge,  \* what gateway and body know of each request id
          mode, link, world,
          faults,  \* how many so far
          crashed, \* the process has been restarted
          taken,   \* history: how often a result made a step DONE
          lost,    \* history: nodes whose effect was unknown after a restart
          anew     \* history: nodes an interrupt has marked although they were done

vars == <<shape, plan, disk, pc, at, seen, got, bridge, mode, link, world, faults, crashed, taken, lost, anew>>

StepStatuses == {"PENDING", "RUNNING", "DONE", "FAILED", "BLOCKED", "SKIPPED", "PAUSED",
                 "PREEMPTED", "CANCELLED", "ABORTED"}
Open         == {"PENDING", "RUNNING", "PAUSED"}
Signals      == {"DONE", "GOAL_SUCCESS", "PAUSED", "PREEMPTED", "ABORTED", "TIMEOUT", "BLOCKED"}
Transient    == {"BUSY", "TRANSPORT_ERROR"}
Verdicts     == {"OK", "BUSY", "REFUSED", "TARGET_GONE", "PREEMPTED", "CANCELLED"}
Worlds       == {"ok", "PREEMPTED", "ABORTED", "TIMEOUT"}
Requests     == Nodes \X (0..MaxRetries)
Parked       == pc \in {"off", "created", "asked", "fresh", "checking", "sleep", "decide"}

Step == [st : StepStatuses, try : 0..(MaxRetries + 1)]
Plan == [status : Open \cup (Signals \ {"GOAL_SUCCESS"}), flow : [Nodes -> StepStatuses],
         step : [Nodes -> Step], round : [Nodes -> 0..Rounds]]

TypeOK ==
    /\ shape \in Shapes
    /\ plan \in Plan /\ disk \in Plan
    /\ pc \in {"off", "created", "enter", "loop", "step", "try", "asked", "got", "fresh", "checking",
               "sleep", "next", "decide", "kept", "end"}
    /\ at \in 1..(Length + 1)
    /\ seen \subseteq Transient
    /\ got \in Verdicts \cup Signals \cup {"TRANSPORT_ERROR", "POSTCONDITION_FAILED", "none"}
    /\ bridge \in [Requests -> {"none", "running"} \cup Verdicts]
    /\ mode \in {"RUNNING", "PAUSED", "SAFE_IDLE"} /\ link \in BOOLEAN /\ world \in Worlds
    /\ faults \in 0..MaxFaults /\ crashed \in BOOLEAN
    /\ taken \in [Nodes -> Nat] /\ lost \subseteq Nodes /\ anew \subseteq Nodes

NewStep == [st |-> "PENDING", try |-> 0]
NewPlan == [status |-> "PENDING", flow |-> [n \in Nodes |-> "PENDING"],
            step |-> [n \in Nodes |-> NewStep], round |-> [n \in Nodes |-> 0]]

Init ==
    /\ shape \in Shapes
    /\ plan = NewPlan /\ disk = NewPlan
    /\ pc = "off" /\ at = 1 /\ seen = {} /\ got = "none"
    /\ bridge = [r \in Requests |-> "none"]
    /\ mode = "RUNNING" /\ link = TRUE /\ world = "ok"
    /\ faults = 0 /\ crashed = FALSE
    /\ taken = [n \in Nodes |-> 0] /\ lost = {} /\ anew = {}

Situation == <<shape, mode, link, world, faults, crashed, lost>>
Outside   == <<Situation, anew>>

Fault == faults < MaxFaults /\ faults' = faults + 1

-----------------------------------------------------------------------------
(* Helpers of the interpreter. *)

IsAction == shape[at] = "ACTION"

\* The status of the node the interpreter looks at: a step, or a flow node.
WithStep(p, n, st) == [p EXCEPT !.step[n].st = st]
WithNode(p, st)    == IF IsAction THEN WithStep(p, at, st) ELSE [p EXCEPT !.flow[at] = st]

Save(p) == plan' = p /\ disk' = p

\* What becomes of every node of a plan, whatever it is nested in.
Marked(p, Mark(_)) ==
    [p EXCEPT !.flow = [n \in Nodes |-> Mark(p.flow[n])],
              !.step = [n \in Nodes |-> [p.step[n] EXCEPT !.st = Mark(@)]]]

MarkPending(p, to) == LET Mark(st) == IF st \in {"PENDING", "PAUSED"} THEN to ELSE st IN Marked(p, Mark)
MarkRunning(p, to) == LET Mark(st) == IF st = "RUNNING" THEN to ELSE st IN Marked(p, Mark)

\* _plan_interrupt: the mode, the link, and what the snapshot says.
Interrupt ==
    CASE mode # "RUNNING" -> "PAUSED"
      [] ~link            -> "ABORTED"
      [] OTHER            -> world

Interrupted == Interrupt # "ok"

AfterInterrupt == IF Interrupt = "TIMEOUT" THEN "FAILED" ELSE Interrupt

\* Return a signal to _execute_plan.
Signal(s) == pc' = "end" /\ got' = s /\ seen' = {} /\ UNCHANGED <<at, bridge, taken>>

Go(label) == pc' = label /\ UNCHANGED <<at, seen, got, bridge, taken>>

-----------------------------------------------------------------------------
(* _execute_nodes *)

\* _on_snapshot creates the plan task, which begins in a later turn of the loop.
Start ==
    /\ pc = "off" /\ mode = "RUNNING" /\ link
    /\ plan.status \in Open
    /\ UNCHANGED <<plan, disk, Outside>> /\ Go("created")

Begin ==
    /\ pc = "created"
    /\ Save([plan EXCEPT !.status = "RUNNING"])
    /\ pc' = "enter" /\ at' = 1 /\ got' = "none"
    /\ UNCHANGED <<seen, bridge, taken, Outside>>

NodeStatus == IF IsAction THEN plan.step[at].st ELSE plan.flow[at]

\* Mutant: whatever an earlier run of the plan has touched is skipped.
SkippedTouched(st) == st # "PENDING"

Skipped(st) == st \in {"DONE", "SKIPPED"}

\* Before the node is looked at: one that is done is marked all the same.
EnterInterrupted ==
    /\ pc = "enter" /\ at <= Length /\ Interrupted
    /\ plan' = WithNode(plan, AfterInterrupt) /\ disk' = plan
    /\ anew' = IF Skipped(NodeStatus) THEN anew \cup {at} ELSE anew
    /\ Signal(Interrupt)
    /\ UNCHANGED Situation

\* A node that is done is skipped, a precondition may block the plan, and the
\* rest is run by its kind.
Enter ==
    /\ pc = "enter" /\ at <= Length /\ ~Interrupted
    /\ disk' = plan
    /\ \/ /\ Skipped(NodeStatus)
          /\ at' = at + 1
          /\ UNCHANGED <<plan, pc, seen, got, bridge, taken>>
       \/ /\ ~Skipped(NodeStatus)
          /\ plan' = WithNode(plan, "BLOCKED")
          /\ Signal("BLOCKED")
       \/ /\ ~Skipped(NodeStatus) /\ IsAction
          /\ plan' = plan /\ Go("step")
       \/ /\ ~Skipped(NodeStatus) /\ shape[at] \in Loops \cup {"IF"}
          /\ plan' = [plan EXCEPT !.flow[at] = "RUNNING"] /\ Go("loop")
       \/ /\ ~Skipped(NodeStatus) /\ shape[at] = "PAUSE"
          /\ plan' = [plan EXCEPT !.flow[at] = "PAUSED"] /\ Signal("PAUSED")
       \/ /\ ~Skipped(NodeStatus) /\ shape[at] = "ABORT"
          /\ plan' = [plan EXCEPT !.flow[at] = "ABORTED"] /\ Signal("ABORTED")
    /\ UNCHANGED Outside

Finished ==
    /\ pc = "enter" /\ at > Length
    /\ UNCHANGED <<plan, disk, Outside>>
    /\ Signal("DONE")

NodeDone(p) ==
    /\ plan' = p
    /\ pc' = "next"
    /\ UNCHANGED <<disk, at, seen, got, bridge, taken>>

\* IF and BRANCH: the condition picks a branch, which may be empty.
Branch ==
    /\ pc = "loop" /\ shape[at] = "IF"
    /\ \/ NodeDone([plan EXCEPT !.flow[at] = "DONE"])
       \/ ~Skipped(plan.step[at].st) /\ UNCHANGED <<plan, disk>> /\ Go("step")
    /\ UNCHANGED Outside

LoopInterrupted ==
    /\ pc = "loop" /\ shape[at] \in Loops
    /\ plan.round[at] < Rounds /\ Interrupted
    /\ plan' = [plan EXCEPT !.flow[at] = AfterInterrupt] /\ UNCHANGED disk
    /\ Signal(Interrupt)
    /\ UNCHANGED Outside

\* The exit condition, or that of WHILE, ends a loop; a loop that has run out of
\* rounds is done if it is a REPEAT, and blocked otherwise.
LoopEnds ==
    /\ pc = "loop" /\ shape[at] \in Loops
    /\ \/ plan.round[at] < Rounds => ~Interrupted
    /\ \/ NodeDone([plan EXCEPT !.flow[at] = "DONE", !.round[at] = 0])
       \/ /\ plan.round[at] >= Rounds /\ shape[at] # "REPEAT"
          /\ plan' = [plan EXCEPT !.flow[at] = "FAILED"] /\ UNCHANGED disk
          /\ Signal("BLOCKED")
       \/ /\ plan.round[at] < Rounds
          /\ plan' = [plan EXCEPT !.flow[at] = "FAILED"] /\ UNCHANGED disk
          /\ Signal("TIMEOUT")
    /\ UNCHANGED Outside

Counted(p) == [p EXCEPT !.round[at] = @ + 1]

\* From the second round on the body is reset; a body that is done is skipped.
LoopRound ==
    /\ pc = "loop" /\ shape[at] \in Loops /\ ~Interrupted
    /\ plan.round[at] < Rounds
    /\ LET p == IF plan.round[at] > 0 THEN [plan EXCEPT !.step[at] = NewStep] ELSE plan
       IN  IF Skipped(p.step[at].st)
           THEN Save(Counted(p)) /\ Go("loop")
           ELSE Save(p) /\ Go("step")
    /\ UNCHANGED Outside

-----------------------------------------------------------------------------
(* _execute_action_step *)

\* The state may show that there is nothing left to do; arguments may not resolve.
StepBegins ==
    /\ pc = "step"
    /\ \/ at \in Checked /\ NodeDone(WithStep(plan, at, "DONE"))
       \/ /\ plan' = WithStep(plan, at, "BLOCKED") /\ UNCHANGED disk
          /\ Signal("BLOCKED")
       \/ /\ seen' = {} /\ pc' = "try"
          /\ UNCHANGED <<plan, disk, at, got, bridge, taken>>
    /\ UNCHANGED Outside

TryInterrupted ==
    /\ pc = "try" /\ plan.step[at].try <= MaxRetries /\ Interrupted
    /\ plan' = WithStep(plan, at, AfterInterrupt) /\ UNCHANGED disk
    /\ Signal(Interrupt)
    /\ UNCHANGED Outside

\* The id is a function of the plan, the step and its retry_count, so it names a
\* request that gateway or body may have answered before.  The cache of the
\* gateway ends with the process, and then the answer comes from the body.
Ask ==
    /\ LET r == <<at, plan.step[at].try>>
       IN  /\ Save([plan EXCEPT !.step[at].st = "RUNNING"])
           /\ IF bridge[r] \in Verdicts
              THEN /\ pc' = "got" /\ UNCHANGED bridge
                   /\ \/ got' = bridge[r]
                      \/ crashed /\ got' = "TRANSPORT_ERROR"
              ELSE pc' = "asked" /\ bridge' = [bridge EXCEPT ![r] = "running"] /\ UNCHANGED got
    /\ UNCHANGED <<at, seen, taken, Outside>>

\* The exit of the loop of tries is not modelled: a step that has used them all is
\* failed before it, and one that recovery finds so is blocked.
Try == pc = "try" /\ plan.step[at].try <= MaxRetries /\ ~Interrupted /\ Ask

\* The deadline of request_action, or its connection, ends the wait.
AnswerLost ==
    /\ pc = "asked"
    /\ pc' = "got" /\ got' = "TRANSPORT_ERROR"
    /\ UNCHANGED <<plan, disk, at, seen, bridge, taken, Outside>>

\* A result that ends the step, or one for which a newer state is awaited.
TakeResult ==
    /\ pc = "got"
    /\ \/ /\ got \in {"PREEMPTED", "CANCELLED"}
          /\ plan' = WithStep(plan, at, got) /\ UNCHANGED disk
          /\ Signal(IF got = "PREEMPTED" THEN "PREEMPTED"
                    ELSE IF mode = "PAUSED" THEN "PAUSED" ELSE "ABORTED")
       \/ /\ got = "OK"
          /\ pc' = "fresh" /\ got' = "none"
          /\ UNCHANGED <<plan, disk, at, seen, bridge, taken>>
       \/ /\ got \in Verdicts \ {"OK", "PREEMPTED", "CANCELLED"} /\ at \in Checked
          /\ UNCHANGED <<plan, disk>> /\ Go("checking")
    /\ UNCHANGED Outside

\* The step has failed with this code.
Failed(code) ==
    LET tried == [plan EXCEPT !.step[at].try = @ + 1]
        spent == tried.step[at].try > MaxRetries \/ code \in seen \/ code \notin Transient
    IN  CASE code = "TARGET_GONE" ->
               plan' = WithStep(plan, at, "ABORTED") /\ UNCHANGED disk /\ Signal("ABORTED")
          [] code # "TARGET_GONE" /\ spent ->
               Save(WithStep(tried, at, "FAILED")) /\ Signal("BLOCKED")
          [] OTHER ->
               /\ plan' = tried
               /\ seen' = seen \cup {code} /\ pc' = "sleep" /\ got' = "none"
               /\ UNCHANGED <<disk, at, bridge, taken>>

FailNow ==
    /\ pc = "got"
    /\ got \in {"TRANSPORT_ERROR", "BUSY", "REFUSED", "TARGET_GONE"}
    /\ got = "TRANSPORT_ERROR" \/ at \notin Checked
    /\ Failed(got)
    /\ UNCHANGED Outside

\* Mutant: a step that is done is not saved at once.
DoneUnsaved(count) ==
    /\ plan' = WithStep(plan, at, "DONE") /\ UNCHANGED disk
    /\ taken' = [taken EXCEPT ![at] = @ + count]
    /\ pc' = "next" /\ seen' = {} /\ got' = "none" /\ UNCHANGED <<at, bridge>>

Done(count) ==
    /\ Save(WithStep(plan, at, "DONE"))
    /\ taken' = [taken EXCEPT ![at] = @ + count]
    /\ pc' = "next" /\ seen' = {} /\ got' = "none" /\ UNCHANGED <<at, bridge>>

\* _fresh_snapshot, and the postconditions against it
Verify ==
    /\ \/ pc = "fresh" /\ (Done(1) \/ Failed("POSTCONDITION_FAILED"))
       \/ pc = "checking" /\ (Done(0) \/ Failed(got))
    /\ UNCHANGED Outside

Wake ==
    /\ pc = "sleep"
    /\ UNCHANGED <<plan, disk, Outside>> /\ Go("try")

-----------------------------------------------------------------------------
(* Back in _execute_nodes: the goal may have been reached, the strategy model  *)
(* may be asked, and it may replace the plan.                                *)

\* What it has finished is the body of a loop, the branch of an IF, or a node of
\* the plan.
Continue ==
    /\ pc \in {"next", "kept"}
    /\ CASE shape[at] \in Loops /\ plan.flow[at] = "RUNNING" ->
              Save(Counted(plan)) /\ pc' = "loop" /\ UNCHANGED at
         [] shape[at] = "IF" /\ plan.flow[at] = "RUNNING" ->
              plan' = [plan EXCEPT !.flow[at] = "DONE"] /\ UNCHANGED disk /\ pc' = "next" /\ UNCHANGED at
         [] OTHER -> at' = at + 1 /\ pc' = "enter" /\ UNCHANGED <<plan, disk>>
    /\ UNCHANGED <<seen, got, bridge, taken, Outside>>

GoalReached ==
    /\ pc = "next" /\ plan.step[at].st = "DONE"
    /\ IsAction \/ plan.flow[at] = "RUNNING"
    /\ UNCHANGED <<plan, disk, Outside>> /\ Signal("GOAL_SUCCESS")

\* _maybe_adjust_plan
AskStrategy ==
    /\ pc = "next"
    /\ UNCHANGED <<plan, disk, Outside>> /\ Go("decide")

\* The answer keeps the plan, perhaps with other arguments for a step to come.
KeepPlan ==
    /\ pc = "decide"
    /\ Save(plan)
    /\ Go("kept")
    /\ UNCHANGED Outside

\* Every node that has not ended is given up with the plan.
ReplacePlan ==
    /\ pc = "decide"
    /\ Save([MarkRunning(MarkPending(plan, "ABORTED"), "ABORTED") EXCEPT !.status = "ABORTED"])
    /\ Signal("ABORTED")
    /\ UNCHANGED Outside

\* Mutant: a blocked plan stays open, to be tried again.
EndedOpen(signal) == IF signal = "BLOCKED" THEN "PAUSED" ELSE signal

Ended(signal) == IF signal = "GOAL_SUCCESS" THEN "DONE" ELSE signal

\* The end of _execute_plan.
EndPlan ==
    /\ pc = "end"
    /\ LET p == IF got = "GOAL_SUCCESS" THEN MarkPending(plan, "SKIPPED") ELSE plan
       IN  Save([p EXCEPT !.status = Ended(got)])
    /\ pc' = "off" /\ at' = 1
    /\ UNCHANGED <<seen, got, bridge, taken, Outside>>

-----------------------------------------------------------------------------
(* The body, the link and the world. *)

\* The Bridge answers each request id once and remembers the answer.  How a
\* request ends that nobody waits for shows only when it is asked again, so it
\* is drawn then.
BodyAnswers(v) ==
    /\ pc = "asked" /\ link
    /\ bridge' = [bridge EXCEPT ![<<at, plan.step[at].try>>] = v]
    /\ pc' = "got" /\ got' = v
    /\ UNCHANGED <<plan, disk, at, seen, taken, Outside>>

Untouched == UNCHANGED <<shape, plan, disk, at, seen, bridge, crashed, taken, lost, anew>>

\* _fail_waiters raises in the request that waits.
LinkDrops ==
    /\ Parked /\ link /\ link' = FALSE /\ Fault
    /\ IF pc = "asked" THEN pc' = "got" /\ got' = "TRANSPORT_ERROR" ELSE UNCHANGED <<pc, got>>
    /\ Untouched /\ UNCHANGED <<mode, world>>

LinkReturns ==
    /\ Parked /\ ~link /\ link' = TRUE
    /\ Untouched /\ UNCHANGED <<pc, got, mode, world, faults>>

\* A reflex, another dimension, death, time: what a snapshot may say.
WorldChanges ==
    /\ Parked
    /\ IF world = "ok" THEN Fault /\ world' \in Worlds \ {"ok"}
                       ELSE UNCHANGED faults /\ world' = "ok"
    /\ Untouched /\ UNCHANGED <<pc, got, mode, link>>

\* Without a link, or when the maid dies, the mode falls back, and with the next
\* snapshot it comes again.
FallBack ==
    /\ Parked /\ mode = "RUNNING"
    /\ mode' = "SAFE_IDLE"
    /\ IF link THEN Fault ELSE UNCHANGED faults
    /\ Untouched /\ UNCHANGED <<pc, got, link, world>>

ComeBack ==
    /\ Parked /\ mode = "SAFE_IDLE" /\ link
    /\ mode' = "RUNNING"
    /\ Untouched /\ UNCHANGED <<pc, got, link, world, faults>>

-----------------------------------------------------------------------------
(* The user, and a restart. *)

\* pause(): CancelledError at whatever the plan task awaits.
Pause ==
    /\ Parked /\ mode # "PAUSED" /\ mode' = "PAUSED" /\ Fault
    /\ IF pc \in {"off", "created"} THEN UNCHANGED <<plan, disk>>
       ELSE Save([MarkRunning(plan, "PAUSED") EXCEPT !.status = "PAUSED"])
    /\ pc' = "off" /\ at' = 1 /\ seen' = {} /\ got' = "none"
    /\ UNCHANGED <<shape, bridge, link, world, crashed, taken, lost, anew>>

Resume ==
    /\ Parked /\ mode = "PAUSED"
    /\ mode' = IF link THEN "RUNNING" ELSE "SAFE_IDLE"
    /\ Untouched /\ UNCHANGED <<pc, got, link, world, faults>>

\* update_pending_step: new arguments for an action that does not run.
Update(n) ==
    /\ Parked /\ plan.status \in Open
    /\ plan.step[n].st \in {"PENDING", "PAUSED"}
    /\ Save([plan EXCEPT !.step[n].st = "PENDING"])
    /\ UNCHANGED <<pc, at, seen, got, bridge, taken, Outside>>

\* Mutant: what may have happened is done again.
ReplayableAlways(n) == TRUE

\* _safe_to_retry
Replayable(n) == n \notin Unsafe

\* revalidate of one step that ran: done, blocked, or to be asked again under
\* an id of its own.
Revalidated(s, n, confirmed) ==
    CASE s.st # "RUNNING"         -> s
      [] s.st = "RUNNING" /\ confirmed -> [s EXCEPT !.st = "DONE"]
      [] s.st = "RUNNING" /\ ~confirmed /\ (s.try >= MaxRetries \/ ~Replayable(n)) ->
           [s EXCEPT !.st = "BLOCKED"]
      [] OTHER -> [s EXCEPT !.st = "PENDING", !.try = @ + 1]

\* The process ends and another one takes the plan from the store, once the
\* Bridge has reported the state of the world.
Restart ==
    /\ Parked /\ disk.status \in Open
    /\ Fault /\ crashed' = TRUE
    /\ \E sure \in SUBSET {n \in Nodes : disk.step[n].st = "RUNNING"} :
         LET step == [n \in Nodes |-> Revalidated(disk.step[n], n, n \in sure)]
             flow == [n \in Nodes |-> IF disk.flow[n] = "RUNNING" THEN "PAUSED" ELSE disk.flow[n]]
             stop == \E n \in Nodes : step[n].st = "BLOCKED" /\ disk.step[n].st = "RUNNING"
         IN  /\ Save([disk EXCEPT !.step = step, !.flow = flow,
                                  !.status = IF stop THEN "BLOCKED" ELSE "PAUSED"])
             /\ lost' = lost \cup {n \in Nodes \ sure : disk.step[n].st = "RUNNING"}
    /\ pc' = "off" /\ at' = 1 /\ seen' = {} /\ got' = "none"
    /\ link' = TRUE /\ mode' = "RUNNING"
    /\ UNCHANGED <<shape, bridge, world, taken, anew>>

-----------------------------------------------------------------------------
Interpreter ==
    \/ Start \/ Begin \/ EnterInterrupted \/ Enter \/ Finished
    \/ Branch \/ LoopInterrupted \/ LoopEnds \/ LoopRound
    \/ StepBegins \/ TryInterrupted \/ Try \/ AnswerLost \/ TakeResult
    \/ FailNow \/ Verify \/ Wake
    \/ Continue \/ GoalReached \/ AskStrategy \/ KeepPlan \/ ReplacePlan \/ EndPlan

Environment ==
    \/ LinkDrops \/ LinkReturns \/ WorldChanges \/ FallBack \/ ComeBack
    \/ Pause \/ Resume \/ Restart
    \/ \E n \in Nodes : Update(n)
    \/ \E v \in Verdicts : BodyAnswers(v)

Next == Interpreter \/ Environment

Spec == Init /\ [][Next]_vars

\* The coroutine goes on, and each of its awaits has a deadline.
FairSpec == Spec /\ WF_vars(Interpreter)

-----------------------------------------------------------------------------
Asked(r) == bridge[r] = "none" /\ bridge'[r] = "running"

Once(n) == shape[n] \notin Loops

\* "Never execute again, after a restart, an action whose effect is unknown": a
\* step that cannot be replayed is not asked for under another id.
LostNotReplayed ==
    [][\A r \in Requests : Asked(r) => r[1] \notin lost \cap Unsafe]_vars

\* What the body has done and the plan has taken for done is not done again: not
\* after a pause, not after a restart, not after a preemption; only where an
\* interrupt has marked the node anew and a restart has taken the answer from the
\* gateway is it asked for under another id.
DoneNotRepeated ==
    [][\A r \in Requests : Asked(r) /\ taken[r[1]] > 0 /\ Once(r[1]) =>
           crashed /\ r[1] \in anew]_vars

\* A plan is DONE only when none of its nodes is left.
DoneMeansDone ==
    pc = "off" /\ plan.status = "DONE" /\ got = "DONE" =>
        \A n \in Nodes :
            IF shape[n] = "ACTION" THEN plan.step[n].st \in {"DONE", "SKIPPED"}
                                   ELSE plan.flow[n] \in {"DONE", "SKIPPED"}

\* A plan that is left alone comes to an end, or stands at a PAUSE node.
PlanEnds ==
    <>[](\/ mode # "RUNNING" \/ ~link
         \/ plan.status \notin Open
         \/ \E n \in Nodes : shape[n] = "PAUSE" /\ plan.flow[n] = "PAUSED")

\* "calls == [...] * 4": every action that is done was done by the body, each
\* round of a loop by a request of its own.
OwnResult ==
    \A n \in Nodes : taken[n] <= Cardinality({r \in Requests : r[1] = n /\ bridge[r] = "OK"})
=============================================================================
