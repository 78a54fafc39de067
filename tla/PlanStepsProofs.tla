--------------------------- MODULE PlanStepsProofs ---------------------------
(***************************************************************************)
(* Safety of PlanSteps for every plan, every number of tries, rounds and     *)
(* nodes, and every number of pauses, falls and restarts.                    *)
(*                                                                          *)
(* The steps of the system are sorted by what they do to the plan: AtWork    *)
(* changes it at one node, Elsewhere leaves it alone, the others are about   *)
(* the plan as a whole and keep what has ended (Keeps), and a restart takes  *)
(* it from the store.  The invariant is proved conjunct by conjunct along    *)
(* these four kinds.                                                         *)
(***************************************************************************)
EXTENDS PlanSteps, TLAPS

StepPcs == {"step", "try", "asked", "got", "fresh", "checking", "sleep"}
NextPcs == {"next", "decide", "kept"}
NodePcs == StepPcs \cup NextPcs \cup {"loop"}

\* Node n of the plan p needs nothing more.
NodeEnded(p, n) == IF shape[n] = "ACTION" THEN Skipped(p.step[n].st) ELSE Skipped(p.flow[n])

\* The node the interpreter is in: a flow node runs until its body has ended, and
\* its round is not counted before that.
AtNode ==
    /\ pc \in NodePcs =>
         /\ at \in Nodes /\ shape[at] \in {"ACTION", "IF"} \cup Loops
         /\ pc = "loop" => shape[at] # "ACTION"
         /\ pc \in NextPcs =>
              IF shape[at] = "ACTION" THEN plan.step[at].st = "DONE"
                                      ELSE plan.flow[at] \in {"RUNNING", "DONE"}
         /\ pc \notin NextPcs /\ shape[at] # "ACTION" => plan.flow[at] = "RUNNING"
         /\ pc # "loop" /\ shape[at] \in Loops /\ plan.flow[at] = "RUNNING" =>
              plan.round[at] < Rounds
    /\ pc \in {"asked", "got", "fresh", "checking"} => plan.step[at].try <= MaxRetries
    /\ pc = "checking" => got \in Verdicts
    /\ pc = "end" => got \in Signals

\* What lies behind it has ended.
BehindEnded ==
    /\ pc \in NodePcs \cup {"enter"} => \A n \in 1..(at - 1) : NodeEnded(plan, n)
    /\ pc = "end" /\ got = "DONE" => \A n \in Nodes : NodeEnded(plan, n)

\* An unsafe action that was lost has blocked its plan for good.
LostStops ==
    lost \cap Unsafe # {} => pc = "off" /\ plan.status = "BLOCKED" /\ disk.status = "BLOCKED"

\* The answer that is being looked at is the one bridge and gateway remember.
AnswerIsKept ==
    LET r == <<at, plan.step[at].try>>
    IN  /\ pc = "got" /\ got \in Verdicts => bridge[r] = got
        /\ pc = "fresh" => bridge[r] = "OK"

\* A step that was taken for done stays done, in memory and on disk, until its node
\* is marked anew.
TakenStays ==
    \A n \in Nodes : Once(n) /\ taken[n] > 0 /\ n \notin anew =>
        /\ plan.step[n].st = "DONE" /\ disk.step[n].st = "DONE"
        /\ at = n => pc \notin StepPcs

Blocked == (pc = "end" /\ got = "BLOCKED") \/ (pc = "off" /\ plan.status = "BLOCKED")

\* While the process lives the answer that made it done is remembered under the id
\* the step still has, or the plan is over.
TakenKnown ==
    ~crashed =>
        \A n \in Nodes : Once(n) /\ taken[n] > 0 =>
            \/ Blocked
            \/ /\ <<n, plan.step[n].try>> \in Requests
               /\ bridge[<<n, plan.step[n].try>>] = "OK"
               /\ at = n => /\ pc \notin {"asked", "checking", "sleep"}
                            /\ pc = "got" => got = "OK"

PlanInv ==
    /\ TypeOK /\ AtNode /\ BehindEnded /\ DoneMeansDone
    /\ LostStops /\ AnswerIsKept /\ TakenStays /\ TakenKnown

-----------------------------------------------------------------------------
(* What the helpers do to a plan. *)

\* The parts of a plan.
LEMMA PlanParts ==
    ASSUME NEW p \in Plan
    PROVE  /\ p.status \in Open \cup (Signals \ {"GOAL_SUCCESS"})
           /\ p.flow \in [Nodes -> StepStatuses] /\ p.round \in [Nodes -> 0..Rounds]
           /\ \A n \in Nodes : /\ p.step[n] = [st |-> p.step[n].st, try |-> p.step[n].try]
                               /\ p.step[n].st \in StepStatuses
                               /\ p.step[n].try \in 0..(MaxRetries + 1)
BY DEF Plan, Step

LEMMA WithStepIs ==
    ASSUME NEW p \in Plan, NEW n \in Nodes, NEW st \in StepStatuses
    PROVE  LET q == WithStep(p, n, st)
           IN  /\ q \in Plan
               /\ q.status = p.status /\ q.flow = p.flow /\ q.round = p.round
               /\ q.step[n] = [st |-> st, try |-> p.step[n].try]
               /\ \A m \in Nodes \ {n} : q.step[m] = p.step[m]
BY DEF WithStep, Plan, Step

LEMMA WithFlowIs ==
    ASSUME NEW p \in Plan, NEW n \in Nodes, NEW st \in StepStatuses
    PROVE  LET q == [p EXCEPT !.flow[n] = st]
           IN  /\ q \in Plan
               /\ q.status = p.status /\ q.step = p.step /\ q.round = p.round
               /\ q.flow[n] = st
               /\ \A m \in Nodes \ {n} : q.flow[m] = p.flow[m]
BY DEF Plan

LEMMA WithStatusIs ==
    ASSUME NEW p \in Plan, NEW s \in Open \cup (Signals \ {"GOAL_SUCCESS"})
    PROVE  LET q == [p EXCEPT !.status = s]
           IN  /\ q \in Plan
               /\ q.status = s /\ q.step = p.step /\ q.round = p.round /\ q.flow = p.flow
BY DEF Plan

LEMMA CountedIs ==
    ASSUME NEW p \in Plan, at \in Nodes, p.round[at] < Rounds
    PROVE  /\ Counted(p) \in Plan
           /\ Counted(p).status = p.status /\ Counted(p).step = p.step /\ Counted(p).flow = p.flow
BY PlanAssumption DEF Counted, Plan

LEMMA TriedIs ==
    ASSUME NEW p \in Plan, NEW n \in Nodes, p.step[n].try <= MaxRetries
    PROVE  LET q == [p EXCEPT !.step[n].try = @ + 1]
           IN  /\ q \in Plan
               /\ q.status = p.status /\ q.flow = p.flow /\ q.round = p.round
               /\ q.step[n] = [st |-> p.step[n].st, try |-> p.step[n].try + 1]
               /\ \A m \in Nodes \ {n} : q.step[m] = p.step[m]
<1>. DEFINE q == [p EXCEPT !.step[n].try = @ + 1]
<1>1. p.step \in [Nodes -> Step] /\ p.step[n] \in Step
    BY DEF Plan
<1>2. [p.step[n] EXCEPT !.try = @ + 1] \in Step
    BY <1>1, PlanAssumption DEF Step
<1>3. q = [p EXCEPT !.step = [p.step EXCEPT ![n] = [p.step[n] EXCEPT !.try = @ + 1]]]
    OBVIOUS
<1>4. q \in Plan
    BY <1>1, <1>2, <1>3 DEF Plan
<1>5. q.step[n] = [st |-> p.step[n].st, try |-> p.step[n].try + 1]
    BY <1>1, <1>3 DEF Step
<1>. QED BY <1>1, <1>3, <1>4, <1>5

LEMMA RenewedIs ==
    ASSUME NEW p \in Plan, NEW n \in Nodes
    PROVE  LET q == [p EXCEPT !.step[n] = NewStep]
           IN  /\ q \in Plan
               /\ q.status = p.status /\ q.flow = p.flow /\ q.round = p.round
               /\ \A m \in Nodes \ {n} : q.step[m] = p.step[m]
<1>1. NewStep \in Step
    BY PlanAssumption DEF NewStep, Step, StepStatuses
<1>. QED BY <1>1 DEF Plan

\* A node that has ended is left alone when the others are given up or paused.
LEMMA MarkPendingIs ==
    ASSUME NEW p \in Plan, NEW to \in StepStatuses
    PROVE  LET q == MarkPending(p, to)
           IN  /\ q \in Plan
               /\ q.status = p.status /\ q.round = p.round
               /\ \A n \in Nodes : /\ q.step[n].try = p.step[n].try
                                   /\ q.step[n].st \in {p.step[n].st, to}
                                   /\ p.step[n].st \notin {"PENDING", "PAUSED"} => q.step[n].st = p.step[n].st
                                   /\ p.flow[n] \notin {"PENDING", "PAUSED"} => q.flow[n] = p.flow[n]
BY DEF MarkPending, Marked, Plan, Step

LEMMA MarkRunningIs ==
    ASSUME NEW p \in Plan, NEW to \in StepStatuses
    PROVE  LET q == MarkRunning(p, to)
           IN  /\ q \in Plan
               /\ q.status = p.status /\ q.round = p.round
               /\ \A n \in Nodes : /\ q.step[n].try = p.step[n].try
                                   /\ p.step[n].st # "RUNNING" => q.step[n].st = p.step[n].st
                                   /\ p.flow[n] # "RUNNING" => q.flow[n] = p.flow[n]
BY DEF MarkRunning, Marked, Plan, Step

-----------------------------------------------------------------------------
(* What a step of the interpreter does to the plan. *)

\* The steps that change the plan at the node it is at, and nowhere else.
AtWork ==
    \/ EnterInterrupted \/ Enter \/ Branch \/ LoopInterrupted \/ LoopEnds \/ LoopRound
    \/ StepBegins \/ TryInterrupted \/ Try \/ TakeResult \/ FailNow \/ Verify
    \/ Continue \/ KeepPlan

\* The steps that leave the plan alone.
Elsewhere ==
    \/ Start \/ Finished \/ AnswerLost \/ Wake \/ GoalReached \/ AskStrategy
    \/ LinkDrops \/ LinkReturns \/ WorldChanges \/ FallBack \/ ComeBack \/ Resume
    \/ \E v \in Verdicts : BodyAnswers(v)

LEMMA StepKinds ==
    ASSUME Next
    PROVE  AtWork \/ Elsewhere \/ Begin \/ ReplacePlan \/ EndPlan \/ Pause \/ Restart
           \/ \E n \in Nodes : Update(n)
BY DEF Next, Interpreter, Environment, AtWork, Elsewhere

Here(p, q) ==
    /\ q \in Plan /\ q.status = p.status
    /\ \A n \in Nodes \ {at} : q.step[n] = p.step[n] /\ q.flow[n] = p.flow[n]

LEMMA SameIsHere ==
    ASSUME NEW p \in Plan
    PROVE  Here(p, p)
BY DEF Here

LEMMA StepIsHere ==
    ASSUME NEW p \in Plan, at \in Nodes, NEW st \in StepStatuses
    PROVE  Here(p, WithStep(p, at, st))
BY WithStepIs DEF Here

LEMMA FlowIsHere ==
    ASSUME NEW p \in Plan, at \in Nodes, NEW st \in StepStatuses
    PROVE  Here(p, [p EXCEPT !.flow[at] = st])
<1>. DEFINE q == [p EXCEPT !.flow[at] = st]
<1>1. /\ q \in Plan /\ q.status = p.status /\ q.step = p.step
      /\ \A m \in Nodes \ {at} : q.flow[m] = p.flow[m]
    BY WithFlowIs
<1>. QED BY <1>1 DEF Here

LEMMA NodeIsHere ==
    ASSUME NEW p \in Plan, at \in Nodes, NEW st \in StepStatuses
    PROVE  Here(p, WithNode(p, st))
BY StepIsHere, FlowIsHere DEF WithNode

LEMMA InterruptSays ==
    ASSUME TypeOK, Interrupted
    PROVE  /\ Interrupt \in {"PAUSED", "ABORTED", "PREEMPTED", "TIMEOUT"}
           /\ AfterInterrupt \in {"PAUSED", "ABORTED", "PREEMPTED", "FAILED"}
           /\ AfterInterrupt \in StepStatuses
BY DEF TypeOK, Interrupted, Interrupt, AfterInterrupt, Worlds, StepStatuses

\* A failure leaves the step failed or given up, or it is to be tried again.
LEMMA FailedIs ==
    ASSUME TypeOK, AtNode, at \in Nodes, plan.step[at].try <= MaxRetries, NEW code, Failed(code)
    PROVE  /\ Here(plan, plan')
           /\ disk' \in {disk, plan'}
           /\ UNCHANGED <<at, bridge, taken>>
           /\ \/ /\ pc' = "end" /\ got' \in {"ABORTED", "BLOCKED"} /\ seen' = {}
                 /\ code # "TARGET_GONE" => got' = "BLOCKED"
              \/ /\ pc' = "sleep" /\ got' = "none" /\ code \in Transient /\ seen' = seen \cup {code}
                 /\ plan'.step[at].st = plan.step[at].st
                 /\ UNCHANGED disk
                 /\ plan'.flow = plan.flow /\ plan'.round = plan.round
<1>. DEFINE tried == [plan EXCEPT !.step[at].try = @ + 1]
            spent == tried.step[at].try > MaxRetries \/ code \in seen \/ code \notin Transient
<1>1. /\ tried \in Plan /\ Here(plan, tried)
      /\ tried.step[at].st = plan.step[at].st
      /\ tried.flow = plan.flow /\ tried.round = plan.round
  <2>1. plan \in Plan
      BY DEF TypeOK
  <2>2. /\ tried \in Plan /\ tried.status = plan.status
        /\ tried.flow = plan.flow /\ tried.round = plan.round
        /\ tried.step[at] = [st |-> plan.step[at].st, try |-> plan.step[at].try + 1]
        /\ \A m \in Nodes \ {at} : tried.step[m] = plan.step[m]
      BY <2>1, TriedIs
  <2>. HIDE DEF tried
  <2>. QED BY <2>2 DEF Here
<1>2. "ABORTED" \in StepStatuses /\ "FAILED" \in StepStatuses
    BY DEF StepStatuses
<1>3. CASE code = "TARGET_GONE"
  <2>1. plan' = WithStep(plan, at, "ABORTED") /\ UNCHANGED disk /\ Signal("ABORTED")
      BY <1>3 DEF Failed
  <2>. QED BY <1>2, <1>3, <2>1, StepIsHere DEF Signal, TypeOK
<1>4. CASE code # "TARGET_GONE" /\ spent
  <2>1. Save(WithStep(tried, at, "FAILED")) /\ Signal("BLOCKED")
      BY <1>4 DEF Failed
  <2>2. Here(tried, WithStep(tried, at, "FAILED"))
      BY <1>1, <1>2, StepIsHere
  <2>. QED BY <1>1, <2>1, <2>2 DEF Signal, Save, Here
<1>5. CASE code # "TARGET_GONE" /\ ~spent
  <2>1. /\ plan' = tried
        /\ seen' = seen \cup {code} /\ pc' = "sleep" /\ got' = "none"
        /\ UNCHANGED <<disk, at, bridge, taken>>
      BY <1>5 DEF Failed
  <2>. QED BY <1>1, <1>5, <2>1
<1>. QED BY <1>3, <1>4, <1>5

\* What the steps at a node leave as it was.
LEMMA WorksHere ==
    ASSUME TypeOK, AtNode, AtWork
    PROVE  /\ Here(plan, plan') /\ disk' \in {disk, plan, plan'}
           /\ UNCHANGED <<shape, mode, link, world, faults, crashed, lost>>
<1>1. plan \in Plan /\ at \in 1..(Length + 1) /\ Length \in Nat
    BY PlanAssumption DEF TypeOK
<1>2. StepStatuses = {"PENDING", "RUNNING", "DONE", "FAILED", "BLOCKED", "SKIPPED", "PAUSED",
                      "PREEMPTED", "CANCELLED", "ABORTED"}
    BY DEF StepStatuses
<1>. USE DEF Save, Outside, Situation
<1>3. CASE EnterInterrupted
    BY <1>1, <1>3, InterruptSays, NodeIsHere DEF EnterInterrupted, Nodes
<1>4. CASE Enter
  <2>1. at \in Nodes
      BY <1>1, <1>4 DEF Enter, Nodes
  <2>2. /\ Here(plan, WithNode(plan, "BLOCKED")) /\ Here(plan, plan)
        /\ Here(plan, [plan EXCEPT !.flow[at] = "RUNNING"])
        /\ Here(plan, [plan EXCEPT !.flow[at] = "PAUSED"])
        /\ Here(plan, [plan EXCEPT !.flow[at] = "ABORTED"])
      BY <1>1, <1>2, <2>1, NodeIsHere, SameIsHere, FlowIsHere
  <2>. QED BY <1>4, <2>2 DEF Enter
<1>5. CASE pc \in NodePcs
  <2>1. at \in Nodes
      BY <1>5 DEF AtNode
  <2>2. CASE Branch
      BY <1>1, <1>2, <2>1, <2>2, SameIsHere, FlowIsHere DEF Branch, NodeDone
  <2>3. CASE LoopInterrupted
      BY <1>1, <2>1, <2>3, InterruptSays, FlowIsHere DEF LoopInterrupted
  <2>4. CASE LoopEnds
    <3>1. Here(plan, [plan EXCEPT !.flow[at] = "FAILED"])
        BY <1>1, <1>2, <2>1, FlowIsHere
    <3>2. Here(plan, [plan EXCEPT !.flow[at] = "DONE", !.round[at] = 0])
      <4>. DEFINE p == [plan EXCEPT !.flow[at] = "DONE"]
      <4>1. Here(plan, p)
          BY <1>1, <1>2, <2>1, FlowIsHere
      <4>2. 0 \in 0..Rounds
          BY PlanAssumption
      <4>3. [plan EXCEPT !.flow[at] = "DONE", !.round[at] = 0] = [p EXCEPT !.round[at] = 0]
          OBVIOUS
      <4>. HIDE DEF p
      <4>4. [p EXCEPT !.round[at] = 0] \in Plan
          BY <2>1, <4>1, <4>2 DEF Here, Plan
      <4>. QED BY <4>1, <4>3, <4>4 DEF Here
    <3>. QED BY <2>4, <3>1, <3>2 DEF LoopEnds, NodeDone
  <2>5. CASE LoopRound
    <3>. DEFINE p == IF plan.round[at] > 0 THEN [plan EXCEPT !.step[at] = NewStep] ELSE plan
    <3>1. /\ p \in Plan /\ p.status = plan.status /\ p.flow = plan.flow /\ p.round = plan.round
          /\ \A m \in Nodes \ {at} : p.step[m] = plan.step[m]
        BY <1>1, <2>1, RenewedIs
    <3>2. plan' \in {p, Counted(p)} /\ disk' = plan' /\ plan.round[at] < Rounds /\ UNCHANGED Outside
        BY <2>5 DEF LoopRound
    <3>. HIDE DEF p
    <3>3. /\ Counted(p) \in Plan
          /\ Counted(p).status = p.status /\ Counted(p).step = p.step /\ Counted(p).flow = p.flow
        BY <2>1, <3>1, <3>2, CountedIs
    <3>. QED BY <3>1, <3>2, <3>3 DEF Here
  <2>6. CASE StepBegins
      BY <1>1, <1>2, <2>1, <2>6, SameIsHere, StepIsHere DEF StepBegins, NodeDone
  <2>7. CASE TryInterrupted
      BY <1>1, <2>1, <2>7, InterruptSays, StepIsHere DEF TryInterrupted
  <2>8. CASE Try
    <3>1. Here(plan, WithStep(plan, at, "RUNNING"))
        BY <1>1, <1>2, <2>1, StepIsHere
    <3>. QED BY <2>8, <3>1 DEF Try, Ask, WithStep
  <2>9. CASE TakeResult
      BY <1>1, <1>2, <2>1, <2>9, SameIsHere, StepIsHere DEF TakeResult
  <2>10. CASE FailNow \/ Verify
    <3>1. pc \in {"got", "fresh", "checking"} => plan.step[at].try <= MaxRetries
        BY DEF AtNode
    <3>2. CASE \E code : Failed(code)
        BY <2>1, <2>10, <3>1, <3>2, FailedIs DEF FailNow, Verify
    <3>3. CASE Done(0) \/ Done(1)
        BY <1>1, <1>2, <2>1, <2>10, <3>3, StepIsHere DEF FailNow, Verify, Done
    <3>. QED BY <2>10, <3>2, <3>3 DEF FailNow, Verify
  <2>11. CASE Continue
    <3>1. CASE shape[at] \in Loops /\ plan.flow[at] = "RUNNING"
      <4>1. plan.round[at] < Rounds
          BY <2>11, <3>1 DEF AtNode, Continue, NodePcs, NextPcs
      <4>2. Here(plan, Counted(plan))
        <5>1. /\ Counted(plan) \in Plan
              /\ Counted(plan).status = plan.status /\ Counted(plan).step = plan.step
              /\ Counted(plan).flow = plan.flow
            BY <1>1, <2>1, <4>1, CountedIs
        <5>. QED BY <5>1 DEF Here
      <4>3. plan' = Counted(plan) /\ disk' = plan' /\ UNCHANGED Outside
          BY <2>11, <3>1 DEF Continue, Loops
      <4>. QED BY <4>2, <4>3
    <3>2. CASE ~(shape[at] \in Loops /\ plan.flow[at] = "RUNNING")
        BY <1>1, <1>2, <2>1, <2>11, <3>2, SameIsHere, FlowIsHere DEF Continue
    <3>. QED BY <3>1, <3>2
  <2>12. CASE KeepPlan
      BY <1>1, <2>12, SameIsHere DEF KeepPlan
  <2>. QED BY <1>3, <1>4, <2>2, <2>3, <2>4, <2>5, <2>6, <2>7, <2>8, <2>9, <2>10, <2>11, <2>12 DEF AtWork
<1>6. CASE pc \notin NodePcs
    BY <1>3, <1>4, <1>6 DEF AtWork, NodePcs, StepPcs, NextPcs, Branch, LoopInterrupted, LoopEnds,
        LoopRound, StepBegins, TryInterrupted, Try, TakeResult, FailNow, Verify, Continue, KeepPlan
<1>. QED BY <1>5, <1>6

-----------------------------------------------------------------------------
(* The steps that are about the plan as a whole. *)

\* What has ended stays as it is, and no step loses its number.
Keeps(p, q) ==
    /\ q \in Plan
    /\ \A n \in Nodes : /\ q.step[n].try = p.step[n].try
                        /\ Skipped(p.step[n].st) => q.step[n].st = p.step[n].st
                        /\ Skipped(p.flow[n]) => q.flow[n] = p.flow[n]

LEMMA KeepsOn ==
    ASSUME NEW p, NEW q, NEW r, Keeps(p, q), Keeps(q, r)
    PROVE  Keeps(p, r)
BY DEF Keeps

LEMMA MarksKeep ==
    ASSUME NEW p \in Plan, NEW to \in StepStatuses
    PROVE  Keeps(p, MarkPending(p, to)) /\ Keeps(p, MarkRunning(p, to))
<1>1. Keeps(p, MarkPending(p, to))
    BY MarkPendingIs DEF Keeps, Skipped
<1>2. Keeps(p, MarkRunning(p, to))
    BY MarkRunningIs DEF Keeps, Skipped
<1>. QED BY <1>1, <1>2

LEMMA StatusKeeps ==
    ASSUME NEW p \in Plan, NEW s \in Open \cup (Signals \ {"GOAL_SUCCESS"})
    PROVE  Keeps(p, [p EXCEPT !.status = s]) /\ [p EXCEPT !.status = s].status = s
<1>. DEFINE q == [p EXCEPT !.status = s]
<1>1. q \in Plan /\ q.status = s /\ q.step = p.step /\ q.flow = p.flow
    BY WithStatusIs
<1>. HIDE DEF q
<1>2. Keeps(p, q) /\ q.status = s
    BY <1>1 DEF Keeps
<1>. QED BY <1>2 DEF q

\* The beginning and the end of a run, a pause, a replacement, an update.
LEMMA WholeKeeps ==
    ASSUME TypeOK, AtNode, Begin \/ ReplacePlan \/ EndPlan \/ Pause \/ (\E n \in Nodes : Update(n))
    PROVE  /\ Keeps(plan, plan')
           /\ disk' = plan' \/ UNCHANGED <<plan, disk>>
           /\ UNCHANGED <<shape, bridge, taken, anew, crashed, lost>>
<1>1. plan \in Plan
    BY DEF TypeOK
<1>2. /\ {"PENDING", "PAUSED", "ABORTED", "SKIPPED"} \subseteq StepStatuses
      /\ {"RUNNING", "PAUSED", "ABORTED"} \subseteq Open \cup (Signals \ {"GOAL_SUCCESS"})
    BY DEF StepStatuses, Open, Signals
<1>3. Keeps(plan, plan)
    BY <1>1 DEF Keeps
<1>. USE DEF Save, Signal, Outside, Situation
<1>4. CASE Begin
    BY <1>1, <1>2, <1>4, StatusKeeps DEF Begin
<1>5. CASE ReplacePlan
  <2>. DEFINE p == MarkPending(plan, "ABORTED")  q == MarkRunning(p, "ABORTED")
  <2>1. Keeps(plan, p) /\ p \in Plan
      BY <1>1, <1>2, MarksKeep DEF Keeps
  <2>2. Keeps(p, q) /\ q \in Plan
      BY <1>2, <2>1, MarksKeep DEF Keeps
  <2>3. Keeps(q, [q EXCEPT !.status = "ABORTED"])
      BY <1>2, <2>2, StatusKeeps
  <2>4. Keeps(plan, [q EXCEPT !.status = "ABORTED"])
      BY <2>1, <2>2, <2>3, KeepsOn
  <2>. QED BY <1>5, <2>4 DEF ReplacePlan
<1>6. CASE EndPlan
  <2>. DEFINE p == IF got = "GOAL_SUCCESS" THEN MarkPending(plan, "SKIPPED") ELSE plan
  <2>1. Keeps(plan, p) /\ p \in Plan
      BY <1>1, <1>2, <1>3, MarksKeep DEF Keeps
  <2>2. Ended(got) \in Open \cup (Signals \ {"GOAL_SUCCESS"})
      BY <1>6 DEF EndPlan, AtNode, Ended, Signals
  <2>3. Keeps(p, [p EXCEPT !.status = Ended(got)])
      BY <2>1, <2>2, StatusKeeps
  <2>4. Keeps(plan, [p EXCEPT !.status = Ended(got)])
      BY <2>1, <2>3, KeepsOn
  <2>. QED BY <1>6, <2>4 DEF EndPlan
<1>7. CASE Pause
  <2>. DEFINE p == MarkRunning(plan, "PAUSED")
  <2>1. Keeps(plan, p) /\ p \in Plan
      BY <1>1, <1>2, MarksKeep DEF Keeps
  <2>2. Keeps(p, [p EXCEPT !.status = "PAUSED"])
      BY <1>2, <2>1, StatusKeeps
  <2>3. Keeps(plan, [p EXCEPT !.status = "PAUSED"])
      BY <2>1, <2>2, KeepsOn
  <2>. QED BY <1>3, <1>7, <2>3 DEF Pause
<1>8. ASSUME NEW n \in Nodes, Update(n)
      PROVE  Keeps(plan, plan') /\ disk' = plan' /\ UNCHANGED <<shape, bridge, taken, anew, crashed, lost>>
  <2>1. plan' = WithStep(plan, n, "PENDING") /\ plan.step[n].st \in {"PENDING", "PAUSED"}
      BY <1>8 DEF Update, WithStep
  <2>2. Keeps(plan, plan')
    <3>1. /\ plan' \in Plan /\ plan'.flow = plan.flow
          /\ plan'.step[n] = [st |-> "PENDING", try |-> plan.step[n].try]
          /\ \A m \in Nodes \ {n} : plan'.step[m] = plan.step[m]
        BY <1>1, <1>2, <2>1, WithStepIs
    <3>. QED BY <2>1, <3>1 DEF Keeps, Skipped
  <2>. QED BY <1>8, <2>2 DEF Update
<1>. QED BY <1>4, <1>5, <1>6, <1>7, <1>8

\* recovery.py: a step that had ended is taken as it is; one whose effect nobody
\* knows and that must not be replayed stops the plan.
LEMMA RestartIs ==
    ASSUME TypeOK, LostStops, Restart
    PROVE  /\ plan' \in Plan /\ disk' = plan'
           /\ \A n \in Nodes : disk.step[n].st = "DONE" => plan'.step[n].st = "DONE"
           /\ pc' = "off" /\ at' = 1 /\ got' = "none" /\ seen' = {} /\ crashed' = TRUE
           /\ lost' \subseteq Nodes
           /\ lost' \cap Unsafe # {} => plan'.status = "BLOCKED"
           /\ UNCHANGED <<shape, bridge, taken, anew>>
<1>1. PICK sure \in SUBSET {n \in Nodes : disk.step[n].st = "RUNNING"} :
         LET step == [n \in Nodes |-> Revalidated(disk.step[n], n, n \in sure)]
             flow == [n \in Nodes |-> IF disk.flow[n] = "RUNNING" THEN "PAUSED" ELSE disk.flow[n]]
             stop == \E n \in Nodes : step[n].st = "BLOCKED" /\ disk.step[n].st = "RUNNING"
         IN  /\ Save([disk EXCEPT !.step = step, !.flow = flow,
                                  !.status = IF stop THEN "BLOCKED" ELSE "PAUSED"])
             /\ lost' = lost \cup {n \in Nodes \ sure : disk.step[n].st = "RUNNING"}
    BY DEF Restart
<1>. DEFINE step == [n \in Nodes |-> Revalidated(disk.step[n], n, n \in sure)]
            flow == [n \in Nodes |-> IF disk.flow[n] = "RUNNING" THEN "PAUSED" ELSE disk.flow[n]]
            stop == \E n \in Nodes : step[n].st = "BLOCKED" /\ disk.step[n].st = "RUNNING"
<1>2. disk \in Plan
    BY DEF TypeOK
<1>3. ASSUME NEW n \in Nodes
      PROVE  /\ step[n] \in Step
             /\ disk.step[n].st # "RUNNING" => step[n] = disk.step[n]
             /\ disk.step[n].st = "RUNNING" /\ n \notin sure /\ n \in Unsafe => step[n].st = "BLOCKED"
  <2>. DEFINE s == disk.step[n]
  <2>1. s \in Step /\ s.st \in StepStatuses /\ s.try \in 0..(MaxRetries + 1)
      BY <1>2 DEF Plan, Step
  <2>2. step[n] = Revalidated(s, n, n \in sure)
      OBVIOUS
  <2>3. CASE s.st # "RUNNING"
      BY <2>1, <2>2, <2>3 DEF Revalidated
  <2>4. CASE s.st = "RUNNING" /\ n \in sure
      BY <2>1, <2>2, <2>4 DEF Revalidated, Step, StepStatuses
  <2>5. CASE s.st = "RUNNING" /\ n \notin sure /\ (s.try >= MaxRetries \/ ~Replayable(n))
      BY <2>1, <2>2, <2>5 DEF Revalidated, Step, StepStatuses
  <2>6. CASE s.st = "RUNNING" /\ n \notin sure /\ ~(s.try >= MaxRetries \/ ~Replayable(n))
    <3>1. step[n] = [s EXCEPT !.st = "PENDING", !.try = @ + 1] /\ n \notin Unsafe
        BY <2>2, <2>6 DEF Revalidated, Replayable
    <3>2. s.try + 1 \in 0..(MaxRetries + 1) /\ "PENDING" \in StepStatuses
        BY <2>1, <2>6, PlanAssumption DEF StepStatuses
    <3>. QED BY <2>1, <2>6, <3>1, <3>2 DEF Step
  <2>. QED BY <2>3, <2>4, <2>5, <2>6
<1>4. \A n \in Nodes : flow[n] \in StepStatuses
    BY <1>2 DEF Plan, StepStatuses
<1>5. /\ plan' = [disk EXCEPT !.step = step, !.flow = flow, !.status = IF stop THEN "BLOCKED" ELSE "PAUSED"]
      /\ disk' = plan'
      /\ lost' = lost \cup {n \in Nodes \ sure : disk.step[n].st = "RUNNING"}
    BY <1>1 DEF Save
<1>6. step = [n \in Nodes |-> step[n]] /\ flow = [n \in Nodes |-> flow[n]]
    OBVIOUS
<1>. HIDE DEF step, flow, stop
<1>7. /\ plan'.step = step /\ plan'.flow = flow /\ plan' \in Plan
      /\ plan'.status = IF stop THEN "BLOCKED" ELSE "PAUSED"
    BY <1>2, <1>3, <1>4, <1>5, <1>6 DEF Plan, Signals
<1>8. ASSUME lost' \cap Unsafe # {}
      PROVE  plan'.status = "BLOCKED"
  <2>1. lost \cap Unsafe = {}
      BY DEF LostStops, Restart, Open
  <2>2. stop
      BY <1>3, <1>5, <1>8, <2>1 DEF stop
  <2>. QED BY <1>7, <2>2
<1>9. lost' \subseteq Nodes
    BY <1>5 DEF TypeOK
<1>. QED BY <1>3, <1>5, <1>7, <1>8, <1>9 DEF Restart

-----------------------------------------------------------------------------
(* The invariants. *)

LEMMA ElsewhereIs ==
    ASSUME TypeOK, Elsewhere
    PROVE  /\ UNCHANGED <<shape, plan, disk, at, crashed, taken, lost, anew>>
           /\ seen' \in {seen, {}}
           /\ \/ UNCHANGED <<pc, got, bridge>>
              \/ UNCHANGED bridge /\ pc = "asked" /\ pc' = "got" /\ got' = "TRANSPORT_ERROR"
              \/ UNCHANGED <<got, bridge>> /\ pc = "off" /\ pc' = "created" /\ plan.status \in Open
              \/ UNCHANGED <<got, bridge>> /\ pc = "sleep" /\ pc' = "try"
              \/ UNCHANGED <<got, bridge>> /\ pc = "next" /\ pc' = "decide"
              \/ UNCHANGED bridge /\ pc = "next" /\ pc' = "end" /\ got' = "GOAL_SUCCESS"
              \/ UNCHANGED bridge /\ pc = "enter" /\ at > Length /\ pc' = "end" /\ got' = "DONE"
              \/ /\ pc = "asked" /\ pc' = "got" /\ got' \in Verdicts
                 /\ bridge' = [bridge EXCEPT ![<<at, plan.step[at].try>>] = got']
<1>. USE DEF Outside, Situation, Untouched, Go, Signal
<1>1. CASE Start \/ Finished \/ AnswerLost \/ Wake \/ GoalReached \/ AskStrategy
    BY <1>1 DEF Start, Finished, AnswerLost, Wake, GoalReached, AskStrategy
<1>2. CASE LinkDrops \/ LinkReturns \/ WorldChanges \/ FallBack \/ ComeBack \/ Resume
    BY <1>2 DEF LinkDrops, LinkReturns, WorldChanges, FallBack, ComeBack, Resume
<1>3. CASE \E v \in Verdicts : BodyAnswers(v)
    BY <1>3 DEF BodyAnswers
<1>. QED BY <1>1, <1>2, <1>3 DEF Elsewhere

LEMMA SituationTyped ==
    ASSUME TypeOK, Next
    PROVE  /\ mode' \in {"RUNNING", "PAUSED", "SAFE_IDLE"} /\ link' \in BOOLEAN /\ world' \in Worlds
           /\ faults' \in 0..MaxFaults /\ crashed' \in BOOLEAN /\ shape' \in Shapes
           /\ lost' \subseteq Nodes
<1>1. faults \in 0..MaxFaults /\ MaxFaults \in Nat /\ "ok" \in Worlds
    BY PlanAssumption DEF TypeOK, Worlds
<1>2. Fault => faults' \in 0..MaxFaults
    BY <1>1 DEF Fault
<1>3. CASE Interpreter
    BY <1>3 DEF TypeOK, Interpreter, Outside, Situation, Start, Begin, EnterInterrupted, Enter,
        Finished, Branch, LoopInterrupted, LoopEnds, LoopRound, StepBegins, TryInterrupted, Try,
        Ask, AnswerLost, TakeResult, FailNow, Verify, Wake, Continue, GoalReached, AskStrategy,
        KeepPlan, ReplacePlan, EndPlan
<1>4. CASE LinkDrops \/ LinkReturns \/ WorldChanges \/ FallBack \/ ComeBack
    BY <1>1, <1>2, <1>4 DEF TypeOK, LinkDrops, LinkReturns, WorldChanges, FallBack, ComeBack, Untouched
<1>5. CASE Pause \/ Resume
    BY <1>1, <1>2, <1>5 DEF TypeOK, Pause, Resume, Untouched
<1>6. CASE Restart
    BY <1>1, <1>2, <1>6 DEF TypeOK, Restart
<1>7. CASE \E n \in Nodes : Update(n)
    BY <1>7 DEF TypeOK, Update, Outside, Situation
<1>8. CASE \E v \in Verdicts : BodyAnswers(v)
    BY <1>8 DEF TypeOK, BodyAnswers, Outside, Situation
<1>. QED BY <1>3, <1>4, <1>5, <1>6, <1>7, <1>8 DEF Next, Environment

LEMMA TypeKept ==
    ASSUME PlanInv, [Next]_vars
    PROVE  TypeOK'
<1>0. TypeOK /\ AtNode /\ LostStops
    BY DEF PlanInv
<1>1. CASE UNCHANGED vars
    BY <1>0, <1>1 DEF TypeOK, vars
<1>2. CASE Next
  <2>1. plan' \in Plan /\ disk' \in Plan
    <3>1. plan \in Plan /\ disk \in Plan
        BY <1>0 DEF TypeOK
    <3>2. CASE AtWork
        BY <1>0, <3>1, <3>2, WorksHere DEF Here
    <3>3. CASE Elsewhere
        BY <1>0, <3>1, <3>3, ElsewhereIs
    <3>4. CASE Restart
        BY <1>0, <3>4, RestartIs
    <3>5. CASE Begin \/ ReplacePlan \/ EndPlan \/ Pause \/ (\E n \in Nodes : Update(n))
        BY <1>0, <3>1, <3>5, WholeKeeps DEF Keeps
    <3>. QED BY <1>2, <3>2, <3>3, <3>4, <3>5, StepKinds
  <2>2. /\ pc' \in {"off", "created", "enter", "loop", "step", "try", "asked", "got", "fresh", "checking",
                    "sleep", "next", "decide", "kept", "end"}
        /\ at' \in 1..(Length + 1)
        /\ seen' \subseteq Transient
        /\ got' \in Verdicts \cup Signals \cup {"TRANSPORT_ERROR", "POSTCONDITION_FAILED", "none"}
        /\ bridge' \in [Requests -> {"none", "running"} \cup Verdicts]
        /\ taken' \in [Nodes -> Nat] /\ anew' \subseteq Nodes
    <3>0. /\ at \in 1..(Length + 1) /\ Length \in Nat /\ 1 \in 1..(Length + 1)
          /\ taken \in [Nodes -> Nat] /\ anew \subseteq Nodes /\ seen \subseteq Transient
          /\ bridge \in [Requests -> {"none", "running"} \cup Verdicts]
          /\ got \in Verdicts \cup Signals \cup {"TRANSPORT_ERROR", "POSTCONDITION_FAILED", "none"}
          /\ pc \in NodePcs => at \in Nodes
          /\ pc \in {"off", "created", "enter", "loop", "step", "try", "asked", "got", "fresh", "checking",
                    "sleep", "next", "decide", "kept", "end"}
        BY <1>0, PlanAssumption DEF TypeOK, AtNode
    <3>. USE DEF Outside, Situation
    <3>1. CASE EnterInterrupted
        BY <3>0, <3>1, InterruptSays, <1>0 DEF EnterInterrupted, Signal, Signals, Nodes
    <3>2. CASE Enter
        BY <3>0, <3>2 DEF Enter, Signal, Go, Signals
    <3>3. CASE Branch
        BY <3>0, <3>3 DEF Branch, NodeDone, Go, Signals
    <3>4. CASE LoopInterrupted
        BY <3>0, <3>4, InterruptSays, <1>0 DEF LoopInterrupted, Signal, Signals
    <3>5. CASE LoopEnds
        BY <3>0, <3>5 DEF LoopEnds, NodeDone, Signal, Signals
    <3>6. CASE LoopRound
        BY <3>0, <3>6 DEF LoopRound, Go, Signals
    <3>7. CASE StepBegins
        BY <3>0, <3>7 DEF StepBegins, NodeDone, Signal, Signals
    <3>8. CASE TryInterrupted
        BY <3>0, <3>8, InterruptSays, <1>0 DEF TryInterrupted, Signal, Signals
    <3>9. CASE Try
        BY <3>0, <3>9 DEF Try, Ask, Signals
    <3>10. CASE TakeResult
        BY <3>0, <3>10 DEF TakeResult, Signal, Go, Signals
    <3>11. CASE FailNow
      <4>1. plan.step[at].try <= MaxRetries /\ at \in Nodes
          BY <1>0, <3>0, <3>11 DEF FailNow, AtNode, NodePcs, StepPcs
      <4>2. CASE \E code \in Verdicts \cup {"TRANSPORT_ERROR", "POSTCONDITION_FAILED"} : Failed(code)
        <5>1. PICK code \in Verdicts \cup {"TRANSPORT_ERROR", "POSTCONDITION_FAILED"} : Failed(code)
            BY <4>2
        <5>2. /\ UNCHANGED <<at, bridge, taken>>
              /\ \/ pc' = "end" /\ got' \in {"ABORTED", "BLOCKED"} /\ seen' = {}
                 \/ pc' = "sleep" /\ got' = "none" /\ code \in Transient /\ seen' = seen \cup {code}
            BY <1>0, <4>1, <5>1, FailedIs
        <5>. QED BY <3>0, <3>11, <5>2 DEF FailNow, Signals
      <4>. QED BY <3>11, <4>2 DEF FailNow, Verdicts
    <3>12. CASE Verify
      <4>1. plan.step[at].try <= MaxRetries /\ at \in Nodes
          BY <1>0, <3>0, <3>12 DEF Verify, AtNode, NodePcs, StepPcs
      <4>2. CASE \E code \in Verdicts \cup {"TRANSPORT_ERROR", "POSTCONDITION_FAILED"} : Failed(code)
        <5>1. PICK code \in Verdicts \cup {"TRANSPORT_ERROR", "POSTCONDITION_FAILED"} : Failed(code)
            BY <4>2
        <5>2. /\ UNCHANGED <<at, bridge, taken>>
              /\ \/ pc' = "end" /\ got' \in {"ABORTED", "BLOCKED"} /\ seen' = {}
                 \/ pc' = "sleep" /\ got' = "none" /\ code \in Transient /\ seen' = seen \cup {code}
            BY <1>0, <4>1, <5>1, FailedIs
        <5>. QED BY <3>0, <3>12, <5>2 DEF Verify, Signals
      <4>3. CASE Done(0) \/ Done(1)
          BY <3>0, <3>12, <4>1, <4>3 DEF Verify, Done
      <4>. QED BY <1>0, <3>12, <4>2, <4>3 DEF Verify, AtNode
    <3>13. CASE Continue
        BY <3>0, <3>13 DEF Continue, Signals, NodePcs, NextPcs, Nodes
    <3>14. CASE KeepPlan
        BY <3>0, <3>14 DEF KeepPlan, Go, Signals
    <3>15. CASE AtWork
        BY <3>15, <3>1, <3>2, <3>3, <3>4, <3>5, <3>6, <3>7, <3>8, <3>9, <3>10, <3>11, <3>12,
           <3>13, <3>14 DEF AtWork
    <3>16. CASE Elsewhere
        BY <1>0, <3>0, <3>16, ElsewhereIs DEF Signals
    <3>17. CASE Restart
        BY <1>0, <3>0, <3>17, RestartIs
    <3>18. CASE Begin \/ ReplacePlan \/ EndPlan \/ Pause \/ (\E n \in Nodes : Update(n))
        BY <3>0, <3>18 DEF Begin, ReplacePlan, EndPlan, Pause, Update, Signal, Signals
    <3>. QED BY <1>2, <3>15, <3>16, <3>17, <3>18, StepKinds
  <2>. QED BY <1>2, <2>1, <2>2, SituationTyped, <1>0 DEF TypeOK
<1>. QED BY <1>1, <1>2

LEMMA AtKept ==
    ASSUME PlanInv, [Next]_vars
    PROVE  AtNode'
<1>0. TypeOK /\ AtNode /\ LostStops /\ plan \in Plan /\ (pc \in NodePcs => at \in Nodes)
    BY DEF PlanInv, TypeOK, AtNode
<1>1. /\ {"PAUSED", "ABORTED", "BLOCKED", "TIMEOUT", "PREEMPTED", "DONE", "GOAL_SUCCESS"} = Signals
      /\ {"DONE", "BLOCKED", "RUNNING", "PENDING", "PAUSED", "ABORTED", "FAILED", "PREEMPTED", "CANCELLED"}
            \subseteq StepStatuses
    BY DEF Signals, StepStatuses
<1>. USE DEF NodePcs, StepPcs, NextPcs, Outside, Situation
<1>2. CASE pc' \in {"off", "created", "enter"}
    BY <1>2 DEF AtNode
<1>3. CASE pc' = "end" /\ got' \in Signals
    BY <1>3 DEF AtNode
<1>4. CASE EnterInterrupted
    BY <1>0, <1>1, <1>3, <1>4, InterruptSays DEF EnterInterrupted, Signal
<1>5. CASE Enter
  <2>1. at \in Nodes
      BY <1>0, <1>5, PlanAssumption DEF Enter, TypeOK, Nodes
  <2>2. CASE pc' = "end" /\ got' \in Signals
      BY <1>3, <2>2
  <2>3. CASE pc' = "enter"
      BY <1>2, <2>3
  <2>4. CASE pc' = "step" /\ shape[at] = "ACTION" /\ UNCHANGED <<at, shape>>
      BY <2>1, <2>4 DEF AtNode, Loops
  <2>5. CASE pc' = "loop" /\ shape[at] \in Loops \cup {"IF"} /\ plan' = [plan EXCEPT !.flow[at] = "RUNNING"]
             /\ UNCHANGED <<at, shape>>
    <3>1. plan'.flow[at] = "RUNNING"
        BY <1>0, <1>1, <2>1, <2>5, WithFlowIs
    <3>. QED BY <2>1, <2>5, <3>1 DEF AtNode, Loops
  <2>. QED BY <1>0, <1>1, <1>5, <2>2, <2>3, <2>4, <2>5 DEF Enter, Signal, Go, IsAction
<1>6. CASE Branch
  <2>1. at \in Nodes /\ shape[at] = "IF" /\ plan.flow[at] = "RUNNING"
      BY <1>0, <1>6 DEF Branch, AtNode
  <2>2. plan' = [plan EXCEPT !.flow[at] = "DONE"] => plan'.flow[at] = "DONE"
      BY <1>0, <1>1, <2>1, WithFlowIs
  <2>. QED BY <1>6, <2>1, <2>2 DEF Branch, NodeDone, Go, AtNode, Loops
<1>7. CASE LoopInterrupted
    BY <1>0, <1>1, <1>3, <1>7, InterruptSays DEF LoopInterrupted, Signal
<1>8. CASE LoopEnds
  <2>1. at \in Nodes /\ shape[at] \in Loops
      BY <1>0, <1>8 DEF LoopEnds
  <2>2. plan' = [plan EXCEPT !.flow[at] = "DONE", !.round[at] = 0] => plan'.flow[at] = "DONE"
      BY <1>0, <2>1 DEF Plan
  <2>. QED BY <1>1, <1>3, <1>8, <2>1, <2>2 DEF LoopEnds, NodeDone, Signal, AtNode, Loops
<1>9. CASE LoopRound
  <2>. DEFINE p == IF plan.round[at] > 0 THEN [plan EXCEPT !.step[at] = NewStep] ELSE plan
  <2>1. at \in Nodes /\ shape[at] \in Loops /\ plan.flow[at] = "RUNNING" /\ plan.round[at] < Rounds
      BY <1>0, <1>9 DEF LoopRound, AtNode
  <2>2. p \in Plan /\ p.flow = plan.flow /\ p.round = plan.round
      BY <1>0, <2>1, RenewedIs
  <2>3. /\ UNCHANGED <<shape, at>>
        /\ \/ plan' = Counted(p) /\ pc' = "loop"
           \/ plan' = p /\ pc' = "step"
    <3>1. /\ IF Skipped(p.step[at].st) THEN Save(Counted(p)) /\ Go("loop") ELSE Save(p) /\ Go("step")
          /\ UNCHANGED shape
        BY <1>9 DEF LoopRound
    <3>. HIDE DEF p
    <3>. QED BY <3>1 DEF Save, Go
  <2>. HIDE DEF p
  <2>4. plan'.flow = plan.flow /\ (pc' = "step" => plan'.round = plan.round)
      BY <2>1, <2>2, <2>3, CountedIs
  <2>. QED BY <2>1, <2>3, <2>4 DEF AtNode, Loops
<1>10. CASE StepBegins
  <2>1. at \in Nodes /\ plan \in Plan
      BY <1>0, <1>10 DEF StepBegins
  <2>2. /\ WithStep(plan, at, "DONE").step[at].st = "DONE"
        /\ WithStep(plan, at, "DONE").flow = plan.flow /\ WithStep(plan, at, "DONE").round = plan.round
    <3>1. /\ WithStep(plan, at, "DONE").step[at] = [st |-> "DONE", try |-> plan.step[at].try]
          /\ WithStep(plan, at, "DONE").flow = plan.flow /\ WithStep(plan, at, "DONE").round = plan.round
        BY <1>1, <2>1, WithStepIs
    <3>. QED BY <3>1
  <2>. QED BY <1>0, <1>1, <1>3, <1>10, <2>2 DEF StepBegins, NodeDone, Signal, AtNode
<1>11. CASE TryInterrupted
    BY <1>0, <1>1, <1>3, <1>11, InterruptSays DEF TryInterrupted, Signal
<1>12. CASE Try
  <2>1. at \in Nodes /\ plan' = WithStep(plan, at, "RUNNING") /\ UNCHANGED <<at, shape>>
        /\ pc' \in {"got", "asked"} /\ plan.step[at].try <= MaxRetries /\ pc = "try"
      BY <1>0, <1>12 DEF Try, Ask, Save, WithStep
  <2>2. plan'.step[at].try = plan.step[at].try /\ plan'.flow = plan.flow /\ plan'.round = plan.round
    <3>1. /\ plan'.step[at] = [st |-> "RUNNING", try |-> plan.step[at].try]
          /\ plan'.flow = plan.flow /\ plan'.round = plan.round
        BY <1>0, <1>1, <2>1, WithStepIs
    <3>. QED BY <3>1
  <2>. QED BY <1>0, <2>1, <2>2 DEF AtNode
<1>13. CASE TakeResult
    BY <1>0, <1>1, <1>3, <1>13 DEF TakeResult, Signal, Go, AtNode
<1>14. CASE FailNow
  <2>1. /\ plan.step[at].try <= MaxRetries /\ at \in Nodes /\ shape[at] \in {"ACTION", "IF"} \cup Loops
        /\ shape[at] # "ACTION" => plan.flow[at] = "RUNNING"
        /\ shape[at] \in Loops /\ plan.flow[at] = "RUNNING" => plan.round[at] < Rounds
        /\ UNCHANGED shape
      BY <1>0, <1>14 DEF FailNow, AtNode
  <2>2. ASSUME NEW code, Failed(code)
        PROVE  AtNode'
    <3>1. /\ UNCHANGED at
          /\ \/ pc' = "end" /\ got' \in Signals
             \/ pc' = "sleep" /\ plan'.flow = plan.flow /\ plan'.round = plan.round
        BY <1>0, <1>1, <2>1, <2>2, FailedIs
    <3>. QED BY <1>3, <2>1, <3>1 DEF AtNode
  <2>. QED BY <1>14, <2>2 DEF FailNow
<1>15. CASE Verify
  <2>1. /\ plan.step[at].try <= MaxRetries /\ at \in Nodes /\ shape[at] \in {"ACTION", "IF"} \cup Loops
        /\ shape[at] # "ACTION" => plan.flow[at] = "RUNNING"
        /\ shape[at] \in Loops /\ plan.flow[at] = "RUNNING" => plan.round[at] < Rounds
        /\ UNCHANGED shape
      BY <1>0, <1>15 DEF Verify, AtNode
  <2>2. ASSUME NEW code, Failed(code)
        PROVE  AtNode'
    <3>1. /\ UNCHANGED at
          /\ \/ pc' = "end" /\ got' \in Signals
             \/ pc' = "sleep" /\ plan'.flow = plan.flow /\ plan'.round = plan.round
        BY <1>0, <1>1, <2>1, <2>2, FailedIs
    <3>. QED BY <1>3, <2>1, <3>1 DEF AtNode
  <2>3. CASE Done(0) \/ Done(1)
    <3>1. plan' = WithStep(plan, at, "DONE") /\ pc' = "next" /\ UNCHANGED at
        BY <2>3 DEF Done, Save
    <3>2. plan'.step[at].st = "DONE" /\ plan'.flow = plan.flow /\ plan'.round = plan.round
      <4>1. /\ plan'.step[at] = [st |-> "DONE", try |-> plan.step[at].try]
            /\ plan'.flow = plan.flow /\ plan'.round = plan.round
          BY <1>0, <1>1, <2>1, <3>1, WithStepIs
      <4>. QED BY <4>1
    <3>. QED BY <2>1, <3>1, <3>2 DEF AtNode
  <2>. QED BY <1>15, <2>2, <2>3 DEF Verify
<1>16. CASE Continue
  <2>1. at \in Nodes
      BY <1>0, <1>16 DEF Continue
  <2>2. CASE shape[at] \in Loops /\ plan.flow[at] = "RUNNING"
    <3>1. plan' = Counted(plan) /\ pc' = "loop" /\ UNCHANGED <<at, shape>>
        BY <1>16, <2>2 DEF Continue, Save, Loops
    <3>2. plan.round[at] < Rounds
        BY <1>0, <1>16, <2>2 DEF Continue, AtNode
    <3>3. plan'.flow = plan.flow
        BY <1>0, <2>1, <3>1, <3>2, CountedIs
    <3>. QED BY <2>1, <2>2, <3>1, <3>3 DEF AtNode, Loops
  <2>3. CASE shape[at] = "IF" /\ plan.flow[at] = "RUNNING"
    <3>1. plan' = [plan EXCEPT !.flow[at] = "DONE"] /\ pc' = "next" /\ UNCHANGED <<at, shape>>
        BY <1>16, <2>3 DEF Continue
    <3>2. plan'.flow[at] = "DONE"
        BY <1>0, <1>1, <2>1, <3>1, WithFlowIs
    <3>. QED BY <2>1, <2>3, <3>1, <3>2 DEF AtNode
  <2>4. CASE plan.flow[at] = "RUNNING" => shape[at] \notin Loops \cup {"IF"}
      BY <1>2, <1>16, <2>4 DEF Continue
  <2>. QED BY <2>2, <2>3, <2>4
<1>17. CASE KeepPlan
    BY <1>0, <1>17 DEF KeepPlan, Save, Go, AtNode
<1>18. CASE AtWork
    BY <1>4, <1>5, <1>6, <1>7, <1>8, <1>9, <1>10, <1>11, <1>12, <1>13, <1>14, <1>15, <1>16,
       <1>17, <1>18 DEF AtWork
<1>19. CASE Elsewhere
    BY <1>0, <1>1, <1>19, ElsewhereIs DEF AtNode
<1>20. CASE Begin \/ EndPlan \/ ReplacePlan \/ Pause \/ Restart
    BY <1>1, <1>2, <1>3, <1>20 DEF Begin, EndPlan, ReplacePlan, Pause, Restart, Signal
<1>21. ASSUME NEW n \in Nodes, Update(n)
       PROVE  AtNode'
  <2>1. plan' = WithStep(plan, n, "PENDING") /\ plan.step[n].st \in {"PENDING", "PAUSED"}
        /\ UNCHANGED <<pc, at, got, shape>>
      BY <1>21 DEF Update, Save, WithStep
  <2>2. /\ plan'.flow = plan.flow /\ plan'.round = plan.round
        /\ \A m \in Nodes : /\ plan'.step[m].try = plan.step[m].try
                            /\ plan.step[m].st = "DONE" => plan'.step[m].st = "DONE"
    <3>1. /\ plan'.flow = plan.flow /\ plan'.round = plan.round
          /\ plan'.step[n] = [st |-> "PENDING", try |-> plan.step[n].try]
          /\ \A m \in Nodes \ {n} : plan'.step[m] = plan.step[m]
        BY <1>0, <1>1, <2>1, WithStepIs
    <3>. QED BY <2>1, <3>1
  <2>. QED BY <1>0, <2>1, <2>2 DEF AtNode
<1>22. CASE UNCHANGED vars
    BY <1>0, <1>22 DEF AtNode, vars
<1>. QED BY <1>18, <1>19, <1>20, <1>21, <1>22, StepKinds

\* The interpreter leaves a node only when it has ended.
LEMMA AtMoves ==
    ASSUME TypeOK, AtNode, AtWork
    PROVE  /\ pc \in NodePcs \cup {"enter"} /\ pc' # "off"
           /\ pc' = "end" => got' # "DONE"
           /\ \/ at' = at
              \/ at' = at + 1 /\ at \in Nodes /\ NodeEnded(plan, at) /\ plan' = plan /\ pc' = "enter"
<1>. USE DEF NodePcs, StepPcs, NextPcs
<1>1. at \in 1..(Length + 1) /\ Length \in Nat
    BY PlanAssumption DEF TypeOK
<1>2. CASE EnterInterrupted \/ LoopInterrupted \/ TryInterrupted
    BY <1>2, InterruptSays DEF EnterInterrupted, LoopInterrupted, TryInterrupted, Signal
<1>3. CASE Enter
    BY <1>1, <1>3 DEF Enter, Signal, Go, NodeStatus, NodeEnded, IsAction, Nodes
<1>4. CASE Branch \/ LoopEnds \/ LoopRound \/ StepBegins
    BY <1>4 DEF Branch, LoopEnds, LoopRound, StepBegins, NodeDone, Signal, Go
<1>5. CASE Try \/ TakeResult \/ KeepPlan
    BY <1>5 DEF Try, Ask, TakeResult, KeepPlan, Signal, Go
<1>6. CASE FailNow \/ Verify
  <2>1. plan.step[at].try <= MaxRetries /\ at \in Nodes /\ pc \in {"got", "fresh", "checking"}
      BY <1>6 DEF AtNode, FailNow, Verify
  <2>2. ASSUME NEW code, Failed(code)
        PROVE  UNCHANGED at /\ pc' \in {"end", "sleep"} /\ got' # "DONE"
      BY <2>1, <2>2, FailedIs
  <2>. QED BY <1>6, <2>1, <2>2 DEF FailNow, Verify, Done
<1>7. CASE Continue
  <2>1. pc \in NextPcs /\ at \in Nodes /\ shape[at] \in {"ACTION", "IF"} \cup Loops
      BY <1>7 DEF Continue, AtNode
  <2>2. CASE shape[at] \in Loops /\ plan.flow[at] = "RUNNING"
      BY <1>7, <2>1, <2>2 DEF Continue
  <2>3. CASE shape[at] = "IF" /\ plan.flow[at] = "RUNNING"
      BY <1>7, <2>1, <2>3 DEF Continue
  <2>4. CASE plan.flow[at] = "RUNNING" => shape[at] \notin Loops \cup {"IF"}
    <3>1. at' = at + 1 /\ pc' = "enter" /\ plan' = plan
        BY <1>7, <2>4 DEF Continue
    <3>2. NodeEnded(plan, at)
        BY <2>1, <2>4 DEF AtNode, NodeEnded, Skipped
    <3>. QED BY <2>1, <3>1, <3>2
  <2>. QED BY <2>2, <2>3, <2>4
<1>. QED BY <1>2, <1>3, <1>4, <1>5, <1>6, <1>7 DEF AtWork

LEMMA BehindKept ==
    ASSUME PlanInv, [Next]_vars
    PROVE  BehindEnded' /\ DoneMeansDone'
<1>0. TypeOK /\ AtNode /\ LostStops /\ BehindEnded /\ DoneMeansDone
    BY DEF PlanInv
<1>1. at \in 1..(Length + 1) /\ Length \in Nat
    BY <1>0, PlanAssumption DEF TypeOK
<1>. USE DEF NodePcs, StepPcs, NextPcs
<1>2. CASE AtWork
  <2>1. /\ pc \in NodePcs \cup {"enter"} /\ pc' # "off"
        /\ pc' = "end" => got' # "DONE"
        /\ \/ at' = at
           \/ at' = at + 1 /\ at \in Nodes /\ NodeEnded(plan, at) /\ plan' = plan
      BY <1>0, <1>2, AtMoves
  <2>2. /\ UNCHANGED shape
        /\ \A n \in Nodes \ {at} : plan'.step[n] = plan.step[n] /\ plan'.flow[n] = plan.flow[n]
      BY <1>0, <1>2, WorksHere DEF Here
  <2>3. \A n \in 1..(at - 1) : NodeEnded(plan, n)
      BY <1>0, <2>1 DEF BehindEnded
  <2>4. \A n \in 1..(at - 1) : NodeEnded(plan, n)'
      BY <1>1, <2>2, <2>3 DEF NodeEnded, Nodes
  <2>5. \A n \in 1..(at' - 1) : NodeEnded(plan, n)'
    <3>1. CASE at' = at
        BY <2>4, <3>1
    <3>2. CASE at' = at + 1 /\ NodeEnded(plan, at) /\ plan' = plan
        BY <1>1, <2>2, <2>3, <3>2 DEF NodeEnded
    <3>. QED BY <2>1, <3>1, <3>2
  <2>. QED BY <2>1, <2>5 DEF BehindEnded, DoneMeansDone
<1>3. CASE Elsewhere
  <2>1. UNCHANGED <<shape, plan, at>>
      BY <1>0, <1>3, ElsewhereIs
  <2>2. \/ UNCHANGED <<pc, got>>
        \/ pc' = "got" /\ pc = "asked"
        \/ pc' = "created"
        \/ pc' = "try" /\ pc = "sleep"
        \/ pc' = "decide" /\ pc = "next"
        \/ pc' = "end" /\ got' = "GOAL_SUCCESS"
        \/ pc' = "end" /\ pc = "enter" /\ at > Length
      BY <1>0, <1>3, ElsewhereIs
  <2>3. pc = "enter" /\ at > Length => \A n \in Nodes : NodeEnded(plan, n)
      BY <1>0, <1>1 DEF BehindEnded, Nodes
  <2>. QED BY <1>0, <2>1, <2>2, <2>3 DEF BehindEnded, DoneMeansDone, NodeEnded
<1>4. CASE Restart
    BY <1>0, <1>4, RestartIs DEF BehindEnded, DoneMeansDone
<1>5. CASE Begin \/ ReplacePlan \/ EndPlan \/ Pause \/ (\E n \in Nodes : Update(n))
  <2>1. UNCHANGED shape /\ \A n \in Nodes : NodeEnded(plan, n) => NodeEnded(plan, n)'
    <3>1. Keeps(plan, plan') /\ UNCHANGED shape
        BY <1>0, <1>5, WholeKeeps
    <3>. QED BY <3>1 DEF Keeps, NodeEnded
  <2>2. CASE Begin \/ ReplacePlan \/ Pause
      BY <2>2 DEF Begin, ReplacePlan, Pause, Signal, BehindEnded, DoneMeansDone
  <2>3. CASE EndPlan
    <3>1. pc' = "off" /\ (got' = "DONE" => \A n \in Nodes : NodeEnded(plan, n))
        BY <1>0, <2>3 DEF EndPlan, BehindEnded
    <3>2. got' = "DONE" => \A n \in Nodes : NodeEnded(plan, n)'
        BY <2>1, <3>1
    <3>. QED BY <3>1, <3>2 DEF BehindEnded, DoneMeansDone, NodeEnded, Skipped
  <2>4. CASE \E n \in Nodes : Update(n)
    <3>1. UNCHANGED <<pc, at, got>> /\ plan.status \in Open /\ plan'.status = plan.status /\ pc # "end"
        BY <1>0, <2>4 DEF Update, Save, Parked
    <3>2. pc \in NodePcs \cup {"enter"} => \A n \in 1..(at - 1) : n \in Nodes /\ NodeEnded(plan, n)
        BY <1>0, <1>1 DEF BehindEnded, Nodes
    <3>3. pc \in NodePcs \cup {"enter"} => \A n \in 1..(at - 1) : NodeEnded(plan, n)'
        BY <2>1, <3>2
    <3>. QED BY <3>1, <3>3 DEF BehindEnded, DoneMeansDone, Open
  <2>. QED BY <1>5, <2>2, <2>3, <2>4
<1>6. CASE UNCHANGED vars
    BY <1>0, <1>6 DEF BehindEnded, DoneMeansDone, NodeEnded, vars
<1>. QED BY <1>2, <1>3, <1>4, <1>5, <1>6, StepKinds

LEMMA LostKept ==
    ASSUME PlanInv, [Next]_vars
    PROVE  LostStops'
<1>0. TypeOK /\ AtNode /\ LostStops
    BY DEF PlanInv
<1>. USE DEF LostStops
<1>1. CASE AtWork
    BY <1>0, <1>1, AtMoves, WorksHere DEF NodePcs, StepPcs, NextPcs
<1>2. CASE Elsewhere
    BY <1>0, <1>2, ElsewhereIs DEF Open
<1>3. CASE Restart
    BY <1>0, <1>3, RestartIs
<1>4. CASE Begin \/ ReplacePlan \/ EndPlan \/ Pause
    BY <1>0, <1>4, WholeKeeps DEF Begin, ReplacePlan, EndPlan, Pause
<1>5. CASE \E n \in Nodes : Update(n)
    BY <1>0, <1>5, WholeKeeps DEF Update, Open
<1>6. CASE UNCHANGED vars
    BY <1>0, <1>6 DEF vars
<1>. QED BY <1>1, <1>2, <1>3, <1>4, <1>5, <1>6, StepKinds

\* At the node where it is the interpreter leaves the number of the step, unless the
\* step fails or a loop renews it; and only Try sends anything.
LEMMA NumberStays ==
    ASSUME TypeOK, AtNode, AtWork, ~FailNow, ~Verify, ~LoopRound
    PROVE  /\ plan'.step[at].try = plan.step[at].try
           /\ UNCHANGED taken /\ (~Try => UNCHANGED bridge)
<1>0. /\ plan \in Plan /\ at \in 1..(Length + 1) /\ Length \in Nat /\ (pc \in NodePcs => at \in Nodes)
      /\ {"PAUSED", "ABORTED", "BLOCKED", "DONE", "RUNNING", "PREEMPTED", "CANCELLED"} \subseteq StepStatuses
    BY PlanAssumption DEF TypeOK, AtNode, StepStatuses
<1>. USE DEF NodePcs, StepPcs, NextPcs
<1>1. ASSUME at \in Nodes, NEW st \in StepStatuses
      PROVE  WithStep(plan, at, st).step[at].try = plan.step[at].try
  <2>1. WithStep(plan, at, st).step[at] = [st |-> st, try |-> plan.step[at].try]
      BY <1>0, <1>1, WithStepIs
  <2>. QED BY <2>1
<1>2. ASSUME NEW st
      PROVE  [plan EXCEPT !.flow[at] = st].step = plan.step
    BY <1>0
<1>21. ASSUME at \in Nodes, NEW st \in StepStatuses
      PROVE  WithNode(plan, st).step[at].try = plan.step[at].try
    BY <1>1, <1>2, <1>21 DEF WithNode
<1>3. CASE EnterInterrupted \/ LoopInterrupted \/ TryInterrupted
  <2>1. AfterInterrupt \in StepStatuses
      BY <1>3, InterruptSays DEF EnterInterrupted, LoopInterrupted, TryInterrupted
  <2>2. CASE EnterInterrupted
    <3>1. at \in Nodes
        BY <1>0, <2>2 DEF EnterInterrupted, Nodes
    <3>. QED BY <1>21, <2>1, <2>2, <3>1 DEF EnterInterrupted, Signal
  <2>3. CASE LoopInterrupted
      BY <1>2, <2>3 DEF LoopInterrupted, Signal
  <2>4. CASE TryInterrupted
      BY <1>0, <1>1, <2>1, <2>4 DEF TryInterrupted, Signal
  <2>. QED BY <1>3, <2>2, <2>3, <2>4
<1>4. CASE Enter
  <2>1. at \in Nodes
      BY <1>0, <1>4 DEF Enter, Nodes
  <2>2. WithNode(plan, "BLOCKED").step[at].try = plan.step[at].try
      BY <1>0, <1>21, <2>1
  <2>. QED BY <1>2, <1>4, <2>2 DEF Enter, Signal, Go
<1>5. CASE Branch
    BY <1>2, <1>5 DEF Branch, NodeDone, Go
<1>6. CASE LoopEnds
  <2>1. [plan EXCEPT !.flow[at] = "DONE", !.round[at] = 0].step = plan.step
      BY <1>0
  <2>. QED BY <1>2, <1>6, <2>1 DEF LoopEnds, NodeDone, Signal
<1>7. CASE StepBegins
    BY <1>0, <1>1, <1>7 DEF StepBegins, NodeDone, Signal
<1>8. CASE Try
    BY <1>0, <1>1, <1>8 DEF Try, Ask, Save
<1>9. CASE TakeResult
    BY <1>0, <1>1, <1>9 DEF TakeResult, Signal, Go
<1>10. CASE Continue
  <2>1. Counted(plan).step = plan.step
      BY <1>0 DEF Counted
  <2>. QED BY <1>2, <1>10, <2>1 DEF Continue, Save
<1>11. CASE KeepPlan
    BY <1>11 DEF KeepPlan, Save, Go
<1>. QED BY <1>3, <1>4, <1>5, <1>6, <1>7, <1>8, <1>9, <1>10, <1>11 DEF AtWork

LEMMA AnswerKept ==
    ASSUME PlanInv, [Next]_vars
    PROVE  AnswerIsKept'
<1>0. TypeOK /\ AtNode /\ AnswerIsKept
    BY DEF PlanInv
<1>. USE DEF NodePcs, StepPcs, NextPcs
<1>1. CASE pc' \notin {"got", "fresh"}
    BY <1>1 DEF AnswerIsKept
<1>2. CASE Try
  <2>. DEFINE r == <<at, plan.step[at].try>>
  <2>1. UNCHANGED at /\ pc' \in {"got", "asked"} /\ (pc' = "got" /\ got' \in Verdicts => bridge'[r] = got')
      BY <1>2 DEF Try, Ask, Verdicts
  <2>2. plan'.step[at].try = plan.step[at].try
      BY <1>0, <1>2, NumberStays DEF AtWork, Try, FailNow, Verify, LoopRound
  <2>. QED BY <2>1, <2>2 DEF AnswerIsKept
<1>3. CASE TakeResult
    BY <1>0, <1>1, <1>3 DEF TakeResult, Signal, Go, AnswerIsKept, Verdicts
<1>4. CASE FailNow \/ Verify
  <2>1. plan.step[at].try <= MaxRetries /\ at \in Nodes
      BY <1>0, <1>4 DEF AtNode, FailNow, Verify
  <2>2. ASSUME NEW code, Failed(code)
        PROVE  pc' \in {"end", "sleep"}
      BY <1>0, <2>1, <2>2, FailedIs
  <2>. QED BY <1>1, <1>4, <2>2 DEF FailNow, Verify, Done
<1>5. CASE AtWork /\ ~Try /\ ~TakeResult /\ ~FailNow /\ ~Verify
    BY <1>1, <1>5 DEF AtWork, EnterInterrupted, Enter, Branch, LoopInterrupted, LoopEnds,
        LoopRound, StepBegins, TryInterrupted, Continue, KeepPlan, Signal, Go, NodeDone
<1>6. CASE Elsewhere
  <2>1. UNCHANGED <<plan, at>>
      BY <1>0, <1>6, ElsewhereIs
  <2>2. pc = "asked" => <<at, plan.step[at].try>> \in DOMAIN bridge
      BY <1>0 DEF AtNode, TypeOK, Requests, Plan, Step
  <2>3. \/ UNCHANGED <<pc, got, bridge>>
        \/ got' = "TRANSPORT_ERROR" /\ pc' = "got"
        \/ pc' \notin {"got", "fresh"}
        \/ /\ pc = "asked" /\ pc' = "got"
           /\ bridge' = [bridge EXCEPT ![<<at, plan.step[at].try>>] = got']
      BY <1>0, <1>6, ElsewhereIs
  <2>. QED BY <1>0, <2>1, <2>2, <2>3 DEF AnswerIsKept, Verdicts
<1>7. CASE Begin \/ ReplacePlan \/ EndPlan \/ Pause \/ Restart
    BY <1>1, <1>7 DEF Begin, ReplacePlan, EndPlan, Pause, Restart, Signal
<1>8. CASE \E n \in Nodes : Update(n)
  <2>1. Keeps(plan, plan') /\ UNCHANGED <<pc, got, at, bridge>>
      BY <1>0, <1>8, WholeKeeps DEF Update
  <2>2. pc \in {"got", "fresh"} => at \in Nodes
      BY <1>0 DEF AtNode
  <2>. QED BY <1>0, <2>1, <2>2 DEF AnswerIsKept, Keeps
<1>9. CASE UNCHANGED vars
    BY <1>0, <1>9 DEF AnswerIsKept, vars
<1>. QED BY <1>2, <1>3, <1>4, <1>5, <1>6, <1>7, <1>8, <1>9, StepKinds

\* What the steps at a node can do to what was taken, marked and answered.
LEMMA HistoryHere ==
    ASSUME TypeOK, AtNode, AtWork
    PROVE  /\ anew \subseteq anew'
           /\ \A n \in Nodes \ {at} : taken'[n] = taken[n]
           /\ taken' # taken => Verify /\ (Done(0) \/ Done(1)) /\ at \in Nodes
           /\ \A r \in Requests : r[1] # at => bridge'[r] = bridge[r]
           /\ UNCHANGED bridge \/ Try
<1>0. taken \in [Nodes -> Nat] /\ bridge \in [Requests -> {"none", "running"} \cup Verdicts]
    BY DEF TypeOK
<1>1. anew \subseteq anew'
    BY DEF AtWork, EnterInterrupted, Enter, Branch, LoopInterrupted, LoopEnds, LoopRound,
        StepBegins, TryInterrupted, Try, Ask, TakeResult, FailNow, Verify, Continue, KeepPlan,
        Outside
<1>2. CASE Verify
  <2>1. plan.step[at].try <= MaxRetries /\ at \in Nodes
      BY <1>2 DEF AtNode, Verify, NodePcs, StepPcs
  <2>2. CASE Done(0) \/ Done(1)
      BY <1>0, <1>1, <1>2, <2>1, <2>2 DEF Done
  <2>3. ASSUME NEW code, Failed(code)
        PROVE  UNCHANGED <<taken, bridge>>
      BY <2>1, <2>3, FailedIs
  <2>. QED BY <1>1, <1>2, <2>2, <2>3 DEF Verify
<1>3. CASE FailNow
  <2>1. plan.step[at].try <= MaxRetries /\ at \in Nodes /\ Failed(got)
      BY <1>3 DEF AtNode, FailNow, NodePcs, StepPcs
  <2>2. UNCHANGED <<taken, bridge>>
      BY <2>1, FailedIs
  <2>. QED BY <1>1, <2>2
<1>4. CASE LoopRound
    BY <1>1, <1>4 DEF LoopRound, Go
<1>5. CASE Try
  <2>1. UNCHANGED taken
      BY <1>5 DEF Try, Ask
  <2>2. bridge' = bridge \/ bridge' = [bridge EXCEPT ![<<at, plan.step[at].try>>] = "running"]
      BY <1>5 DEF Try, Ask
  <2>3. \A r \in Requests : r[1] # at => bridge'[r] = bridge[r]
    <3>. SUFFICES ASSUME NEW r \in Requests, r[1] # at
                  PROVE  bridge'[r] = bridge[r]
        OBVIOUS
    <3>1. r # <<at, plan.step[at].try>>
        OBVIOUS
    <3>. QED BY <1>0, <2>2, <3>1
  <2>. QED BY <1>1, <1>5, <2>1, <2>3
<1>6. CASE ~Verify /\ ~FailNow /\ ~LoopRound /\ ~Try
    BY <1>1, <1>6, NumberStays
<1>. QED BY <1>2, <1>3, <1>4, <1>5, <1>6

\* A node of its own, that was taken for done and is not marked anew, stays done.
LEMMA DoneStays ==
    ASSUME TypeOK, AtNode, AtWork, at \in Nodes, Once(at), at \notin anew',
           plan.step[at].st = "DONE", pc \notin StepPcs
    PROVE  plan'.step[at].st = "DONE" /\ (pc' \notin StepPcs \/ at' # at)
<1>0. plan \in Plan
    BY DEF TypeOK
<1>1. ASSUME NEW st
      PROVE  [plan EXCEPT !.flow[at] = st].step = plan.step
    BY <1>0
<1>. USE DEF StepPcs, Once
<1>2. CASE EnterInterrupted
  <2>1. ~IsAction
      BY <1>2 DEF EnterInterrupted, NodeStatus, Skipped
  <2>. QED BY <1>1, <1>2, <2>1 DEF EnterInterrupted, WithNode, Signal
<1>3. CASE Enter
  <2>1. IsAction => Skipped(NodeStatus)
      BY DEF NodeStatus, Skipped
  <2>. QED BY <1>1, <1>3, <2>1 DEF Enter, WithNode, Signal, Go
<1>4. CASE Branch
    BY <1>1, <1>4 DEF Branch, NodeDone, Skipped
<1>5. CASE LoopInterrupted \/ LoopEnds \/ LoopRound
    BY <1>5 DEF LoopInterrupted, LoopEnds, LoopRound
<1>6. CASE StepBegins \/ TryInterrupted \/ Try \/ TakeResult \/ FailNow \/ Verify
    BY <1>6 DEF StepBegins, TryInterrupted, Try, TakeResult, FailNow, Verify
<1>7. CASE Continue
    BY <1>1, <1>7 DEF Continue
<1>8. CASE KeepPlan
    BY <1>8 DEF KeepPlan, Save, Go
<1>. QED BY <1>2, <1>3, <1>4, <1>5, <1>6, <1>7, <1>8 DEF AtWork

LEMMA TakenKept ==
    ASSUME PlanInv, [Next]_vars
    PROVE  TakenStays'
<1>0. TypeOK /\ AtNode /\ LostStops /\ TakenStays
    BY DEF PlanInv
<1>. USE DEF NodePcs, StepPcs, NextPcs
<1>1. CASE AtWork
  <2>. SUFFICES ASSUME NEW n \in Nodes, Once(n), taken'[n] > 0, n \notin anew'
                PROVE  /\ plan'.step[n].st = "DONE" /\ disk'.step[n].st = "DONE"
                       /\ at' = n => pc' \notin StepPcs
      BY <1>0, <1>1, WorksHere DEF TakenStays, Once
  <2>1. /\ anew \subseteq anew'
        /\ \A m \in Nodes \ {at} : taken'[m] = taken[m]
        /\ taken' # taken => Verify /\ (Done(0) \/ Done(1)) /\ at \in Nodes
      BY <1>0, <1>1, HistoryHere
  <2>2. /\ \A m \in Nodes \ {at} : plan'.step[m] = plan.step[m]
        /\ disk' \in {disk, plan, plan'}
      BY <1>0, <1>1, WorksHere DEF Here
  <2>3. \/ at' = at
        \/ at' = at + 1 /\ pc' = "enter"
      BY <1>0, <1>1, AtMoves
  <2>4. CASE n # at
      BY <1>0, <2>1, <2>2, <2>3, <2>4 DEF TakenStays
  <2>5. CASE n = at /\ taken' = taken
    <3>1. plan.step[at].st = "DONE" /\ disk.step[at].st = "DONE" /\ pc \notin StepPcs
        BY <1>0, <2>1, <2>5 DEF TakenStays
    <3>2. plan'.step[at].st = "DONE" /\ (pc' \notin StepPcs \/ at' # at)
        BY <1>0, <1>1, <2>5, <3>1, DoneStays
    <3>. QED BY <2>2, <2>3, <2>5, <3>1, <3>2
  <2>6. CASE n = at /\ taken' # taken
    <3>1. plan' = WithStep(plan, at, "DONE") /\ disk' = plan' /\ pc' = "next" /\ at \in Nodes
        BY <2>1, <2>6 DEF Done, Save
    <3>2. plan'.step[at] = [st |-> "DONE", try |-> plan.step[at].try]
        BY <1>0, <3>1, WithStepIs DEF TypeOK, StepStatuses
    <3>. QED BY <2>6, <3>1, <3>2
  <2>. QED BY <2>4, <2>5, <2>6
<1>2. CASE Elsewhere
  <2>1. /\ UNCHANGED <<shape, plan, disk, at, taken, anew>>
        /\ pc' \in StepPcs => pc \in StepPcs
      BY <1>0, <1>2, ElsewhereIs
  <2>. QED BY <1>0, <2>1 DEF TakenStays, Once
<1>3. CASE Restart
    BY <1>0, <1>3, RestartIs DEF TakenStays, Once
<1>4. CASE Begin \/ ReplacePlan \/ EndPlan \/ Pause \/ (\E n \in Nodes : Update(n))
  <2>1. /\ Keeps(plan, plan')
        /\ disk' = plan' \/ UNCHANGED <<plan, disk>>
        /\ UNCHANGED <<shape, taken, anew>>
      BY <1>0, <1>4, WholeKeeps
  <2>2. pc' \in StepPcs => UNCHANGED <<pc, at>>
      BY <1>4 DEF Begin, ReplacePlan, EndPlan, Pause, Update, Signal
  <2>. QED BY <1>0, <2>1, <2>2 DEF TakenStays, Once, Keeps, Skipped
<1>5. CASE UNCHANGED vars
    BY <1>0, <1>5 DEF TakenStays, Once, vars
<1>. QED BY <1>1, <1>2, <1>3, <1>4, <1>5, StepKinds

\* The node at which the interpreter works on a step that was taken for done.
LEMMA KnownHere ==
    ASSUME TypeOK, AtNode, AnswerIsKept, TakenKnown, AtWork, ~crashed,
           at \in Nodes, Once(at), taken'[at] > 0
    PROVE  \/ Blocked'
           \/ /\ <<at, plan'.step[at].try>> \in Requests
              /\ bridge'[<<at, plan'.step[at].try>>] = "OK"
              /\ at' = at => /\ pc' \notin {"asked", "checking", "sleep"}
                             /\ pc' = "got" => got' = "OK"
<1>. DEFINE r == <<at, plan.step[at].try>>
<1>. USE DEF NodePcs, StepPcs, NextPcs
<1>1. plan \in Plan /\ pc \in NodePcs \cup {"enter"} /\ ~Blocked
    BY AtMoves DEF TypeOK, Blocked
<1>2. CASE taken' # taken
  <2>1. Verify /\ (Done(0) \/ Done(1)) /\ pc \in {"fresh", "checking"}
      BY <1>2, HistoryHere DEF Verify
  <2>2. taken[at] = 0 \/ taken[at] > 0
      BY DEF TypeOK
  <2>3. pc = "fresh"
    <3>1. CASE pc = "checking"
      <4>1. taken[at] = 0
          BY <1>1, <2>2, <3>1 DEF TakenKnown
      <4>2. taken' = [taken EXCEPT ![at] = @ + 0]
          BY <2>1, <3>1 DEF Verify, Done, Failed, Signal
      <4>. QED BY <4>1, <4>2
    <3>. QED BY <2>1, <3>1
  <2>4. r \in Requests /\ bridge[r] = "OK"
      BY <1>1, <2>3, PlanAssumption DEF AtNode, AnswerIsKept, Requests, Plan, Step
  <2>5. plan' = WithStep(plan, at, "DONE") /\ pc' = "next" /\ UNCHANGED bridge
      BY <2>1 DEF Done, Save
  <2>6. plan'.step[at] = [st |-> "DONE", try |-> plan.step[at].try]
      BY <1>1, <2>5, WithStepIs DEF StepStatuses
  <2>7. plan'.step[at].try = plan.step[at].try
      BY <2>6
  <2>. QED BY <2>4, <2>5, <2>7
<1>3. CASE taken' = taken
  <2>1. /\ r \in Requests /\ bridge[r] = "OK"
        /\ pc \notin {"asked", "checking", "sleep"}
        /\ pc = "got" => got = "OK"
      BY <1>1, <1>3 DEF TakenKnown
  <2>2. CASE FailNow
      BY <2>1, <2>2 DEF FailNow
  <2>3. CASE Verify
    <3>1. pc = "fresh" /\ (Done(1) \/ Failed("POSTCONDITION_FAILED"))
        BY <2>1, <2>3 DEF Verify
    <3>2. ~Done(1)
        BY <1>3 DEF Done, TypeOK
    <3>3. plan.step[at].try <= MaxRetries
        BY <3>1 DEF AtNode
    <3>4. pc' = "end" /\ got' = "BLOCKED"
        BY <3>1, <3>2, <3>3, FailedIs DEF Transient
    <3>. QED BY <3>4 DEF Blocked
  <2>4. CASE LoopRound
      BY <2>4 DEF LoopRound, Once
  <2>5. CASE Try
    <3>1. plan'.step[at].try = plan.step[at].try
        BY <2>5, NumberStays DEF AtWork, Try, FailNow, Verify, LoopRound
    <3>2. UNCHANGED bridge /\ pc' = "got" /\ got' = "OK"
        BY <2>1, <2>5 DEF Try, Ask, Verdicts
    <3>. QED BY <2>1, <3>1, <3>2
  <2>6. CASE TakeResult
    <3>1. plan'.step[at].try = plan.step[at].try /\ UNCHANGED bridge
      <4>1. pc = "got" /\ got = "OK"
          BY <2>1, <2>6 DEF TakeResult
      <4>2. ~Try /\ ~FailNow /\ ~Verify /\ ~LoopRound
          BY <4>1 DEF Try, FailNow, Verify, LoopRound
      <4>. QED BY <4>2, NumberStays
    <3>2. pc' = "fresh"
        BY <2>1, <2>6 DEF TakeResult
    <3>. QED BY <2>1, <3>1, <3>2
  <2>7. CASE ~FailNow /\ ~Verify /\ ~LoopRound /\ ~Try /\ ~TakeResult
    <3>1. plan'.step[at].try = plan.step[at].try /\ UNCHANGED bridge
        BY <2>7, NumberStays
    <3>2. pc' \notin {"asked", "checking", "sleep", "got"}
      <4>1. CASE \/ EnterInterrupted \/ Enter \/ Branch \/ LoopInterrupted \/ LoopEnds
                \/ StepBegins \/ TryInterrupted
          BY <1>1, <4>1 DEF EnterInterrupted, Enter, Branch, LoopInterrupted, LoopEnds,
              StepBegins, TryInterrupted, Signal, Go, NodeDone
      <4>2. CASE Continue \/ KeepPlan
          BY <4>2 DEF Continue, KeepPlan, Go
      <4>. QED BY <2>7, <4>1, <4>2 DEF AtWork
    <3>. QED BY <2>1, <3>1, <3>2
  <2>. QED BY <2>2, <2>3, <2>4, <2>5, <2>6, <2>7
<1>. QED BY <1>2, <1>3

LEMMA KnownKept ==
    ASSUME PlanInv, [Next]_vars
    PROVE  TakenKnown'
<1>0. TypeOK /\ AtNode /\ LostStops /\ AnswerIsKept /\ TakenKnown
    BY DEF PlanInv
<1>. USE DEF NodePcs, StepPcs, NextPcs
<1>1. CASE AtWork
  <2>1. UNCHANGED <<shape, crashed>>
      BY <1>0, <1>1, WorksHere
  <2>2. ~Blocked
      BY <1>0, <1>1, AtMoves DEF Blocked
  <2>. SUFFICES ASSUME ~crashed, NEW n \in Nodes, Once(n), taken'[n] > 0
                PROVE  \/ Blocked'
                       \/ /\ <<n, plan'.step[n].try>> \in Requests
                          /\ bridge'[<<n, plan'.step[n].try>>] = "OK"
                          /\ at' = n => /\ pc' \notin {"asked", "checking", "sleep"}
                                        /\ pc' = "got" => got' = "OK"
      BY <2>1 DEF TakenKnown, Once
  <2>3. CASE n = at
    <3>1. \/ Blocked'
          \/ /\ <<at, plan'.step[at].try>> \in Requests
             /\ bridge'[<<at, plan'.step[at].try>>] = "OK"
             /\ at' = at => /\ pc' \notin {"asked", "checking", "sleep"}
                            /\ pc' = "got" => got' = "OK"
        BY <1>0, <1>1, <2>3, KnownHere
    <3>. QED BY <2>3, <3>1
  <2>4. CASE n # at
    <3>1. taken'[n] = taken[n] /\ plan'.step[n] = plan.step[n]
        BY <1>0, <1>1, <2>4, HistoryHere, WorksHere DEF Here
    <3>2. <<n, plan.step[n].try>> \in Requests /\ bridge[<<n, plan.step[n].try>>] = "OK"
        BY <1>0, <2>2, <3>1 DEF TakenKnown
    <3>3. bridge'[<<n, plan.step[n].try>>] = bridge[<<n, plan.step[n].try>>]
      <4>. DEFINE r == <<n, plan.step[n].try>>
      <4>1. r \in Requests /\ r[1] = n
          BY <3>2
      <4>. HIDE DEF r
      <4>2. bridge'[r] = bridge[r]
          BY <1>0, <1>1, <2>4, <4>1, HistoryHere
      <4>. QED BY <4>2 DEF r
    <3>4. at' = n => pc' = "enter"
        BY <1>0, <1>1, <2>4, AtMoves
    <3>. QED BY <3>1, <3>2, <3>3, <3>4
  <2>. QED BY <2>3, <2>4
<1>2. CASE Elsewhere
  <2>1. UNCHANGED <<shape, plan, at, crashed, taken>>
      BY <1>0, <1>2, ElsewhereIs
  <2>2. Blocked => Blocked'
      BY <1>0, <1>2, ElsewhereIs DEF Blocked, Open
  <2>3. ASSUME NEW n \in Nodes, ~Blocked, ~crashed, Once(n), taken[n] > 0
        PROVE  /\ <<n, plan.step[n].try>> \in Requests
               /\ bridge'[<<n, plan.step[n].try>>] = "OK"
               /\ at = n => /\ pc' \notin {"asked", "checking", "sleep"}
                            /\ pc' = "got" => got' = "OK"
    <3>1. /\ <<n, plan.step[n].try>> \in Requests
          /\ bridge[<<n, plan.step[n].try>>] = "OK"
          /\ at = n => /\ pc \notin {"asked", "checking", "sleep"}
                       /\ pc = "got" => got = "OK"
        BY <1>0, <2>3 DEF TakenKnown
    <3>2. \/ UNCHANGED <<pc, got, bridge>>
          \/ UNCHANGED bridge /\ pc \in {"asked", "sleep"}
          \/ UNCHANGED bridge /\ pc' \notin {"asked", "checking", "sleep", "got"}
          \/ /\ pc = "asked"
             /\ bridge' = [bridge EXCEPT ![<<at, plan.step[at].try>>] = got']
        BY <1>0, <1>2, ElsewhereIs
    <3>. QED BY <1>0, <3>1, <3>2 DEF TypeOK
  <2>. QED BY <1>0, <2>1, <2>2, <2>3 DEF TakenKnown, Once
<1>3. CASE Restart
    BY <1>0, <1>3, RestartIs DEF TakenKnown
<1>4. CASE Begin \/ ReplacePlan \/ EndPlan \/ Pause \/ (\E n \in Nodes : Update(n))
  <2>1. /\ \A n \in Nodes : plan'.step[n].try = plan.step[n].try
        /\ UNCHANGED <<shape, bridge, taken, crashed>>
      BY <1>0, <1>4, WholeKeeps DEF Keeps
  <2>2. pc' \notin {"asked", "checking", "sleep", "got"} \/ UNCHANGED <<pc, at, got>>
      BY <1>4 DEF Begin, ReplacePlan, EndPlan, Pause, Update, Signal
  <2>3. Blocked => Blocked'
    <3>1. CASE Begin \/ ReplacePlan
        BY <3>1 DEF Begin, ReplacePlan, Blocked
    <3>2. CASE EndPlan
      <4>. DEFINE p == IF got = "GOAL_SUCCESS" THEN MarkPending(plan, "SKIPPED") ELSE plan
      <4>1. CASE got = "BLOCKED"
        <5>1. plan' = [plan EXCEPT !.status = "BLOCKED"] /\ pc' = "off"
            BY <3>2, <4>1 DEF EndPlan, Ended, Save
        <5>. QED BY <1>0, <5>1 DEF Blocked
      <4>. QED BY <3>2, <4>1 DEF EndPlan, Blocked
    <3>3. CASE Pause
        BY <3>3 DEF Pause, Blocked, Parked
    <3>4. CASE \E n \in Nodes : Update(n)
        BY <3>4 DEF Update, Blocked, Open
    <3>. QED BY <1>4, <3>1, <3>2, <3>3, <3>4
  <2>. QED BY <1>0, <2>1, <2>2, <2>3 DEF TakenKnown, Once
<1>5. CASE UNCHANGED vars
    BY <1>0, <1>5 DEF TakenKnown, Once, Blocked, vars
<1>. QED BY <1>1, <1>2, <1>3, <1>4, <1>5, StepKinds

-----------------------------------------------------------------------------
(* The invariant, and what follows from it. *)

LEMMA PlanInit ==
    ASSUME Init
    PROVE  PlanInv
<1>1. NewPlan \in Plan
    BY PlanAssumption DEF NewPlan, Plan, NewStep, Step, StepStatuses, Open
<1>2. TypeOK
  <2>1. plan \in Plan /\ disk \in Plan /\ shape \in Shapes
      BY <1>1 DEF Init
  <2>2. at \in 1..(Length + 1) /\ faults \in 0..MaxFaults
      BY PlanAssumption DEF Init
  <2>3. bridge \in [Requests -> {"none", "running"} \cup Verdicts] /\ taken \in [Nodes -> Nat]
      BY DEF Init
  <2>. QED BY <2>1, <2>2, <2>3 DEF Init, TypeOK, Worlds
<1>3. AtNode /\ BehindEnded /\ DoneMeansDone /\ AnswerIsKept
    BY DEF Init, AtNode, BehindEnded, DoneMeansDone, AnswerIsKept, NodePcs, StepPcs, NextPcs
<1>4. LostStops /\ TakenStays /\ TakenKnown
    BY DEF Init, LostStops, TakenStays, TakenKnown
<1>. QED BY <1>2, <1>3, <1>4 DEF PlanInv

LEMMA PlanStep ==
    ASSUME PlanInv, [Next]_vars
    PROVE  PlanInv'
BY TypeKept, AtKept, BehindKept, LostKept, AnswerKept, TakenKept, KnownKept DEF PlanInv

\* _execute_plan: the types, where the interpreter is, what it has behind it, and what
\* plan, store, gateway and body know of each step, for every plan, every number of
\* tries and rounds, and every number of pauses, falls and restarts.
THEOREM PlanInvariant == Spec => []PlanInv
<1>1. Init => PlanInv
    BY PlanInit
<1>2. PlanInv /\ [Next]_vars => PlanInv'
    BY PlanStep
<1>. QED BY <1>1, <1>2, PTL DEF Spec

\* A plan that ends as DONE has no node left that is not done or skipped.
THEOREM DoneIsDone == Spec => []DoneMeansDone
<1>1. PlanInv => DoneMeansDone
    BY DEF PlanInv
<1>. QED BY <1>1, PlanInvariant, PTL

LEMMA AskedByTry ==
    ASSUME PlanInv, [Next]_vars, NEW r \in Requests, Asked(r)
    PROVE  /\ Try /\ pc = "try" /\ at \in Nodes /\ r = <<at, plan.step[at].try>>
<1>0. TypeOK /\ AtNode /\ LostStops /\ bridge \in [Requests -> {"none", "running"} \cup Verdicts]
    BY DEF PlanInv, TypeOK
<1>1. bridge' # bridge /\ bridge[r] = "none" /\ bridge'[r] = "running"
    BY DEF Asked
<1>2. Next
    BY <1>1 DEF vars
<1>3. ~Elsewhere
  <2>. SUFFICES ASSUME Elsewhere
                PROVE  FALSE
      OBVIOUS
  <2>1. /\ got' \in Verdicts
        /\ bridge' = [bridge EXCEPT ![<<at, plan.step[at].try>>] = got']
      BY <1>0, <1>1, ElsewhereIs
  <2>. QED BY <1>0, <1>1, <2>1 DEF Verdicts
<1>4. ~(Begin \/ ReplacePlan \/ EndPlan \/ Pause \/ (\E n \in Nodes : Update(n))) /\ ~Restart
    BY <1>0, <1>1, WholeKeeps, RestartIs
<1>5. Try
    BY <1>0, <1>1, <1>2, <1>3, <1>4, StepKinds, HistoryHere
<1>6. pc = "try" /\ bridge' = [bridge EXCEPT ![<<at, plan.step[at].try>>] = "running"]
    BY <1>1, <1>5 DEF Try, Ask
<1>. QED BY <1>0, <1>1, <1>5, <1>6 DEF AtNode, NodePcs, StepPcs

\* recovery.py: an unsafe action whose effect is unknown after a restart is never sent
\* again.
THEOREM LostIsNotReplayed == Spec => LostNotReplayed
<1>1. PlanInv /\ [Next]_vars => [\A r \in Requests : Asked(r) => r[1] \notin lost \cap Unsafe]_vars
  <2>. SUFFICES ASSUME PlanInv, [Next]_vars, NEW r \in Requests, Asked(r), r[1] \in lost \cap Unsafe
                PROVE  FALSE
      OBVIOUS
  <2>1. pc = "try"
      BY AskedByTry
  <2>. QED BY <2>1 DEF PlanInv, LostStops
<1>. QED BY <1>1, PlanInvariant, PTL DEF Spec, LostNotReplayed

\* What the body has done is not done again, whatever pauses, falls and restarts come
\* between, but where an interrupt has marked the node anew and a restart has taken the
\* answer from the gateway.
THEOREM DoneIsNotRepeated == Spec => DoneNotRepeated
<1>1. PlanInv /\ [Next]_vars =>
        [\A r \in Requests : Asked(r) /\ taken[r[1]] > 0 /\ Once(r[1]) => crashed /\ r[1] \in anew]_vars
  <2>. SUFFICES ASSUME PlanInv, [Next]_vars, NEW r \in Requests, Asked(r), taken[r[1]] > 0, Once(r[1])
                PROVE  crashed /\ r[1] \in anew
      OBVIOUS
  <2>1. pc = "try" /\ at \in Nodes /\ r = <<at, plan.step[at].try>> /\ bridge[r] = "none"
      BY AskedByTry DEF Asked
  <2>2. r[1] = at
      BY <2>1
  <2>3. at \in anew
      BY <2>1, <2>2 DEF PlanInv, TakenStays, StepPcs
  <2>4. crashed
      BY <2>1, <2>2 DEF PlanInv, TakenKnown, Blocked
  <2>. QED BY <2>2, <2>3, <2>4
<1>. QED BY <1>1, PlanInvariant, PTL DEF Spec, DoneNotRepeated
=============================================================================
