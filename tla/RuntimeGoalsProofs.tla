-------------------------- MODULE RuntimeGoalsProofs --------------------------
(***************************************************************************)
(* The safety of the runtime's goals, for any number of goals, events and     *)
(* restarts, and a user who submits goals at any time.  The steps are sorted  *)
(* by what they do to the goals: most change no more than the status of the   *)
(* current one (Stays), some make a new one (Makes); the others are Verify,   *)
(* Start, Revalidate and Restart.                                            *)
(***************************************************************************)
EXTENDS RuntimeGoals, TLAPS

\* What a goal will go back to is at rest until then, the parent as one that waits
\* for its material, and no other goal goes back to it.
HeldApart ==
    \A h \in Live :
        /\ Held(h) \cap {current, active, task.plan, waiting.goal, waiting.plan} = {}
        /\ Held(h) \cap unchecked = {}
        /\ \A k \in Live \ {h} : Held(h) \cap Held(k) = {}
        /\ \A p \in Held(h) : goal[p].st # "ACTIVE"
        /\ goal[h].parent = 0 <=> goal[h].resume = 0
        /\ goal[h].parent # 0 => goal[goal[h].parent].st = "PAUSED_MATERIALS"

\* The current goal does not wait for material, and no other goal is active whose
\* plan is the one to run.
OthersRest ==
    /\ current # 0 => goal[current].st # "PAUSED_MATERIALS"
    /\ active \notin {0, current} => goal[active].st # "ACTIVE"
    /\ task.plan \notin {0, current} => goal[task.plan].st # "ACTIVE"
    /\ task.pc = "none" <=> task.plan = 0
    /\ runner = "think" => task.pc = "none"

\* A plan that ran when the process ended stays RUNNING in the store, and is neither
\* the current goal's nor the plan to run before it was loaded and checked.
UncheckedRuns ==
    /\ \A p \in unchecked : plan[p].st = "RUNNING"
    /\ \A p \in Goals : plan[p].st = "RUNNING" => p = task.plan \/ p \in unchecked
    /\ unchecked \cap {current, active, task.plan} = {}
    /\ waiting.goal \in unchecked => waiting.plan = waiting.goal
    /\ task.pc = "created" => plan[task.plan].st # "RUNNING"

\* Nothing runs between the loading of the saved goal and its check, and the goals
\* that the user submits meanwhile have no parent.
RestoredOnce ==
    /\ waiting.on => task = NoTask /\ runner \in {"off", "wait", "got"}
    /\ ~waiting.on => waiting = NotWaiting
    /\ ~restored => task = NoTask /\ runner = "off" /\ waiting = NotWaiting
    /\ ~restored /\ current # 0 => goal[current].st = "ACTIVE"
    /\ (waiting.on \/ ~restored) /\ current # 0 => Held(current) = {}
    /\ waiting.on /\ waiting.goal = 0 /\ waiting.plan # 0 =>
         waiting.plan # current /\ goal[waiting.plan].st # "ACTIVE"
    /\ waiting.goal # 0 => /\ waiting.plan \in {0, waiting.goal}
                           /\ waiting.goal \in Live \/ Held(waiting.goal) = {}

GoalsInv == TypeOK /\ HeldApart /\ OthersRest /\ UncheckedRuns /\ RestoredOnce

-----------------------------------------------------------------------------
(* Types. *)

GoalType == [st : GoalStatuses, parent : 0..MaxGoals, resume : 0..MaxGoals]
PlanType == [st : {"none"} \cup PlanOpen, build : BOOLEAN]

LEMMA Zero == 0 \in 0..MaxGoals /\ 0 \notin Goals /\ Goals \subseteq 0..MaxGoals
              /\ \A n \in 0..MaxGoals : n # 0 => n \in Goals
  BY GoalsAssumption DEF Goals

LEMMA Constants ==
    /\ NoGoal \in GoalType /\ NoPlan \in PlanType /\ NewPlan \in PlanType /\ GatherPlan \in PlanType
    /\ NoTask \in [pc : {"none", "created", "check", "acting", "adjust"}, plan : 0..MaxGoals]
    /\ NotWaiting \in [on : BOOLEAN, goal : 0..MaxGoals, plan : 0..MaxGoals]
  BY Zero DEF NoGoal, NoPlan, NewPlan, GatherPlan, NoTask, NotWaiting, GoalType, PlanType,
      GoalStatuses, PlanOpen

\* The status of a goal may become another one.
LEMMA StatusKeeps ==
    ASSUME NEW f \in [Goals -> GoalType], NEW g, NEW s \in GoalStatuses
    PROVE  [f EXCEPT ![g].st = s] \in [Goals -> GoalType]
  BY DEF GoalType

LEMMA PlanStatusKeeps ==
    ASSUME NEW f \in [Goals -> PlanType], NEW p, NEW s \in PlanOpen
    PROVE  [f EXCEPT ![p].st = s] \in [Goals -> PlanType]
  BY DEF PlanType

LEMMA Statuses ==
    /\ {"ACTIVE", "PAUSED", "PAUSED_MATERIALS", "SUCCESS", "FAILED", "BLOCKED", "ABORTED"} \subseteq GoalStatuses
    /\ {"PENDING", "RUNNING", "PAUSED"} \subseteq PlanOpen
    /\ \A st \in GoalStatuses : VerifiedAs(st) \subseteq GoalStatuses
  BY DEF GoalStatuses, GoalOpen, PlanOpen, VerifiedAs

\* A step that makes a new goal takes a number nothing leads back to.
LEMMA FreshIsFree == Fresh \subseteq Free /\ Free \subseteq Goals
  BY DEF Fresh, Free

LEMMA SetGoalTypes ==
    ASSUME TypeOK, NEW g \in Fresh, SetGoal(g)
    PROVE  /\ goal' \in [Goals -> GoalType] /\ stack' \subseteq Goals
           /\ current' \in Goals /\ active' \in Goals
  <1>1. g \in Goals
    BY FreshIsFree
  <1>2. goal \in [Goals -> GoalType] /\ current \in 0..MaxGoals /\ stack \subseteq Goals
    BY DEF TypeOK, GoalType
  <1>3. \A h \in Goals : Kept(h) \in GoalType
    BY <1>2, Constants DEF Kept
  <1>4. [NoGoal EXCEPT !.st = "ACTIVE"] \in GoalType
    BY Zero, Statuses DEF NoGoal, GoalType
  <1>5. \A h \in Goals : [goal[h] EXCEPT !.st = "PAUSED"] \in GoalType
    BY <1>2, Statuses DEF GoalType
  <1>6. goal' \in [Goals -> GoalType]
    BY <1>3, <1>4, <1>5 DEF SetGoal
  <1>7. current # 0 => current \in Goals
    BY <1>2, Zero
  <1> QED
    BY <1>1, <1>2, <1>6, <1>7 DEF SetGoal, Pauses

LEMMA ReplaceTypes ==
    ASSUME TypeOK, NEW g \in Fresh, Replace(g)
    PROVE  /\ goal' \in [Goals -> GoalType] /\ stack' \subseteq Goals
           /\ current' \in Goals /\ active' \in Goals
  <1>1. g \in Goals
    BY FreshIsFree
  <1>2. goal \in [Goals -> GoalType] /\ stack \subseteq Goals
    BY DEF TypeOK, GoalType
  <1>3. \A h \in Goals : Kept(h) \in GoalType
    BY <1>2, Constants DEF Kept
  <1>4. [NoGoal EXCEPT !.st = "ACTIVE"] \in GoalType
    BY Zero, Statuses DEF NoGoal, GoalType
  <1>5. \A h \in Goals : [goal[h] EXCEPT !.st = "ABORTED"] \in GoalType
    BY <1>2, Statuses DEF GoalType
  <1>6. goal' \in [Goals -> GoalType]
    BY <1>3, <1>4, <1>5 DEF Replace
  <1> QED
    BY <1>1, <1>2, <1>6 DEF Replace

LEMMA ChildTypes ==
    ASSUME TypeOK, NEW g \in Fresh, current # 0, CreateChild(g, "PAUSED_MATERIALS", task.plan)
    PROVE  /\ goal' \in [Goals -> GoalType] /\ stack' \subseteq Goals
           /\ current' \in Goals /\ active' \in Goals
  <1>1. g \in Goals
    BY FreshIsFree
  <1>2. goal \in [Goals -> GoalType] /\ stack \subseteq Goals /\ current \in Goals /\ task.plan \in 0..MaxGoals
    BY Zero DEF TypeOK, GoalType
  <1>3. [st |-> "ACTIVE", parent |-> current, resume |-> task.plan] \in GoalType
    BY <1>2, Zero, Statuses DEF GoalType
  <1>4. [goal EXCEPT ![current].st = "PAUSED_MATERIALS"] \in [Goals -> GoalType]
    BY <1>2, Statuses, StatusKeeps
  <1>5. goal' \in [Goals -> GoalType]
    BY <1>2, <1>3, <1>4 DEF CreateChild
  <1> QED
    BY <1>1, <1>2, <1>5 DEF CreateChild

\* The two things that looking at the current goal may do: give it another status,
\* or go back to its parent.
Returns ==
    LET c == goal[current]
    IN  /\ c.parent \in stack
        /\ goal' = [goal EXCEPT ![current].st = "SUCCESS", ![c.parent].st = "ACTIVE"]
        /\ current' = c.parent /\ stack' = stack \ {c.parent}
        /\ active' = c.resume /\ plan' = [plan EXCEPT ![c.resume].st = "PAUSED"]

Judges ==
    /\ \E st \in VerifiedAs(goal[current].st) : goal' = [goal EXCEPT ![current].st = st]
    /\ active' \in {0, active} /\ UNCHANGED <<plan, current, stack>>

LEMMA VerifyCases ==
    ASSUME Verify
    PROVE  /\ UNCHANGED <<mode, desired, net, task, Rest>> /\ runner' = "choose"
           /\ \/ UNCHANGED Books
              \/ current # 0 /\ (Judges \/ Returns)
  <1>1. ASSUME current # 0 PROVE Judges \/ Returns
    BY <1>1 DEF Verify, Judges, Returns, MayResumeParent, Resumed
  <1> QED
    BY <1>1 DEF Verify

\* What is loaded is a goal and a plan that are open, or nothing: an active goal
\* first, and otherwise one that no open goal goes back to.
LEMMA LoadedCases ==
    ASSUME NEW w \in Loaded
    PROVE  \/ w = [on |-> FALSE, goal |-> 0, plan |-> 0]
           \/ \E p \in Goals : /\ w = [on |-> TRUE, goal |-> 0, plan |-> p] /\ plan[p].st \in PlanOpen
                                /\ \A g \in Goals : goal[g].st \notin GoalOpen
           \/ \E g \in Goals :
                 /\ w = [on |-> TRUE, goal |-> g, plan |-> IF plan[g].st \in PlanOpen THEN g ELSE 0]
                 /\ goal[g].st \in GoalOpen
                 /\ \/ goal[g].st = "ACTIVE"
                    \/ /\ \A h \in Goals : goal[h].st # "ACTIVE"
                       /\ \A h \in Goals : goal[h].st \in GoalOpen => g \notin Held(h)
  <1> DEFINE open == {g \in Goals : goal[g].st \in GoalOpen}
             best == IF \E g \in open : goal[g].st = "ACTIVE"
                     THEN {g \in open : goal[g].st = "ACTIVE"}
                     ELSE {g \in open : \A h \in open : g \notin Held(h)}
             left == {g \in Goals : plan[g].st \in PlanOpen}
             none == {[on |-> left # {}, goal |-> 0, plan |-> p] : p \in IF left = {} THEN {0} ELSE left}
             some == {[on |-> TRUE, goal |-> g, plan |-> IF g \in left THEN g ELSE 0] : g \in best}
  <1>1. w \in IF open = {} THEN none ELSE some
    BY DEF Loaded
  <1>2. CASE open = {}
    <2>1. PICK p \in IF left = {} THEN {0} ELSE left : w = [on |-> left # {}, goal |-> 0, plan |-> p]
      BY <1>1, <1>2
    <2>2. CASE left = {}
      BY <2>1, <2>2
    <2>3. CASE left # {}
      <3>1. p \in Goals /\ plan[p].st \in PlanOpen /\ w = [on |-> TRUE, goal |-> 0, plan |-> p]
        BY <2>1, <2>3
      <3> QED
        BY <1>2, <3>1
    <2> QED
      BY <2>2, <2>3
  <1>3. CASE open # {}
    <2>1. PICK g \in best : w = [on |-> TRUE, goal |-> g, plan |-> IF g \in left THEN g ELSE 0]
      BY <1>1, <1>3
    <2>2. g \in Goals /\ goal[g].st \in GoalOpen
      OBVIOUS
    <2>3. \/ goal[g].st = "ACTIVE"
          \/ /\ \A h \in Goals : goal[h].st # "ACTIVE"
             /\ \A h \in Goals : goal[h].st \in GoalOpen => g \notin Held(h)
      BY DEF GoalOpen
    <2>4. w = [on |-> TRUE, goal |-> g, plan |-> IF plan[g].st \in PlanOpen THEN g ELSE 0]
      BY <2>1, <2>2
    <2> HIDE DEF open, best, left, none, some
    <2> QED
      BY <2>2, <2>3, <2>4
  <1> QED
    BY <1>2, <1>3

LEMMA LoadedTypes ==
    ASSUME NEW w \in Loaded
    PROVE  w \in [on : BOOLEAN, goal : 0..MaxGoals, plan : 0..MaxGoals]
  <1>1. ASSUME NEW b \in BOOLEAN, NEW g \in 0..MaxGoals, NEW p \in 0..MaxGoals,
               w = [on |-> b, goal |-> g, plan |-> p]
        PROVE  w \in [on : BOOLEAN, goal : 0..MaxGoals, plan : 0..MaxGoals]
    BY <1>1
  <1>2. CASE w = [on |-> FALSE, goal |-> 0, plan |-> 0]
    BY <1>1, <1>2, Zero
  <1>3. CASE \E p \in Goals : w = [on |-> TRUE, goal |-> 0, plan |-> p]
    BY <1>1, <1>3, Zero
  <1>4. ASSUME NEW g \in Goals, w = [on |-> TRUE, goal |-> g, plan |-> IF plan[g].st \in PlanOpen THEN g ELSE 0]
        PROVE  w \in [on : BOOLEAN, goal : 0..MaxGoals, plan : 0..MaxGoals]
    BY <1>1, <1>4, Zero
  <1> QED
    BY <1>2, <1>3, <1>4, LoadedCases

LEMMA EndsTypes ==
    ASSUME TypeOK, NEW s, Ends(s)
    PROVE  /\ goal' \in [Goals -> GoalType] /\ plan' \in [Goals -> PlanType]
           /\ active' \in {0, active} /\ task' = NoTask
           /\ UNCHANGED <<mode, desired, net, runner, current, stack, Rest>>
  <1>0. /\ goal \in [Goals -> GoalType] /\ plan \in [Goals -> PlanType]
        /\ \A h \in Goals : goal[h].st \in GoalStatuses
    BY DEF TypeOK, GoalType, PlanType
  <1>1. plan' \in [Goals -> PlanType]
    <2>1. \A p \in Goals : [plan[p] EXCEPT !.st = "PAUSED"] \in PlanType
      BY <1>0, Statuses DEF PlanType
    <2>2. CASE s = "PAUSED"
      BY <1>0, <2>1, <2>2 DEF Ends
    <2>3. CASE s # "PAUSED"
      BY <1>0, <2>3, Constants DEF Ends
    <2> QED
      BY <2>2, <2>3
  <1>2. goal' \in [Goals -> GoalType]
    <2>1. CASE current = 0 \/ ~Synced
      BY <1>0, <2>1 DEF Ends
    <2>2. CASE ~(current = 0 \/ ~Synced)
      <3>1. current \in Goals
        BY <2>2, Zero DEF TypeOK
      <3>2. PICK st \in GoalStatuses : goal' = [goal EXCEPT ![current].st = st]
        BY <1>0, <2>2, <3>1, Statuses DEF Ends
      <3> QED
        BY <1>0, <3>2, StatusKeeps
    <2> QED
      BY <2>1, <2>2
  <1> QED
    BY <1>1, <1>2 DEF Ends

LEMMA TypeKept ==
    ASSUME TypeOK, Next
    PROVE  TypeOK'
  <1>0. /\ goal \in [Goals -> GoalType] /\ plan \in [Goals -> PlanType]
        /\ task.plan \in 0..MaxGoals /\ active \in 0..MaxGoals /\ current \in 0..MaxGoals
        /\ \A h \in Goals : /\ goal[h].parent \in 0..MaxGoals /\ goal[h].resume \in 0..MaxGoals
                            /\ goal[h].st \in GoalStatuses
    BY DEF TypeOK, GoalType, PlanType
  <1>1. SUFFICES /\ mode' \in Modes /\ desired' \in BOOLEAN /\ net' \in {"down", "synced"}
                 /\ runner' \in {"off", "wait", "got", "verify", "choose", "think"}
                 /\ task' \in [pc : {"none", "created", "check", "acting", "adjust"}, plan : 0..MaxGoals]
                 /\ goal' \in [Goals -> GoalType]
                 /\ plan' \in [Goals -> PlanType]
                 /\ current' \in 0..MaxGoals /\ stack' \subseteq Goals /\ active' \in 0..MaxGoals
                 /\ restored' \in BOOLEAN
                 /\ waiting' \in [on : BOOLEAN, goal : 0..MaxGoals, plan : 0..MaxGoals]
                 /\ unchecked' \subseteq Goals
                 /\ events' \in 0..MaxEvents /\ restarts' \in 0..MaxRestarts
    BY DEF TypeOK, GoalType, PlanType
  <1>2. Event => events' \in 0..MaxEvents
    BY GoalsAssumption DEF GoalsAssumption, Event, TypeOK
  <1> USE Zero, Constants, Statuses
  <1>3. CASE Arrive \/ NotResynced \/ Think
    BY <1>0, <1>3 DEF TypeOK, Arrive, NotResynced, Think, Books, Rest
  <1>3a. CASE Process
    BY <1>0, <1>3a DEF TypeOK, Process, Books, Rest, Modes
  <1>3b. CASE HandlerFails
    BY <1>0, <1>2, <1>3b DEF TypeOK, HandlerFails, Books, Modes
  <1>3c. CASE Idle
    BY <1>0, <1>3c DEF TypeOK, Idle, Books, Rest, Modes
  <1>3d. CASE LinkDrops
    BY <1>0, <1>2, <1>3d DEF TypeOK, LinkDrops, Books
  <1>3e. CASE LinkReturns
    BY <1>0, <1>3e DEF TypeOK, LinkReturns, Books, Rest
  <1>4. CASE Start
    <2>1. waiting' \in [on : BOOLEAN, goal : 0..MaxGoals, plan : 0..MaxGoals]
      BY <1>0, <1>4, LoadedTypes DEF Start, Load, TypeOK
    <2> QED
      BY <1>0, <1>4, <2>1 DEF TypeOK, Start, Load, StartMode, Modes
  <1>5. CASE Pause \/ Stop
    <2>1. plan' \in [Goals -> PlanType]
      BY <1>0, <1>5, PlanStatusKeeps DEF Pause, Stop, CancelPlan
    <2> QED
      BY <1>0, <1>2, <1>5, <2>1 DEF TypeOK, Pause, Stop, CancelPlan, Modes
  <1>6. CASE Restart
    <2>1. goal' \in [Goals -> GoalType]
      BY <1>0, <1>6 DEF Restart
    <2>2. restarts' \in 0..MaxRestarts
      BY <1>6, GoalsAssumption DEF GoalsAssumption, Restart, TypeOK
    <2> QED
      BY <1>0, <1>2, <1>6, <2>1, <2>2 DEF TypeOK, Restart, Modes
  <1>7. CASE Revalidate
    <2>1. plan' \in [Goals -> PlanType]
      BY <1>0, <1>7 DEF Revalidate, PlanType
    <2>2. goal' \in [Goals -> GoalType]
      BY <1>0, <1>7 DEF Revalidate, GoalType
    <2>3. stack' \subseteq Goals
      BY <1>0, <1>7 DEF Revalidate, Parents, Above, TypeOK
    <2> QED
      BY <1>0, <1>7, <2>1, <2>2, <2>3 DEF TypeOK, Revalidate
  <1>8. CASE Verify
    <2>1. CASE UNCHANGED Books
      BY <1>0, <1>8, <2>1, VerifyCases DEF TypeOK, Books, Rest
    <2>2. CASE current # 0 /\ Judges
      <3>1. current \in Goals
        BY <1>0, <2>2
      <3>2. PICK st \in GoalStatuses : goal' = [goal EXCEPT ![current].st = st]
        BY <1>0, <2>2, <3>1 DEF Judges
      <3>3. goal' \in [Goals -> GoalType]
        BY <1>0, <3>2, StatusKeeps
      <3> QED
        BY <1>0, <1>8, <2>2, <3>3, VerifyCases DEF TypeOK, Judges, Rest
    <2>3. CASE current # 0 /\ Returns
      <3>1. current \in Goals
        BY <1>0, <2>3
      <3>2. [goal EXCEPT ![current].st = "SUCCESS"] \in [Goals -> GoalType]
        BY <1>0, StatusKeeps
      <3>3. goal' \in [Goals -> GoalType]
        BY <2>3, <3>2, StatusKeeps DEF Returns
      <3>4. plan' \in [Goals -> PlanType]
        BY <1>0, <2>3, PlanStatusKeeps DEF Returns
      <3> QED
        BY <1>0, <1>8, <2>3, <3>1, <3>3, <3>4, VerifyCases DEF TypeOK, Returns, Rest
    <2> QED
      BY <1>8, <2>1, <2>2, <2>3, VerifyCases
  <1>9. CASE Choose
    <2>1. goal' \in [Goals -> GoalType]
      BY <1>0, <1>9, StatusKeeps DEF Choose
    <2>2. plan' \in [Goals -> PlanType]
      BY <1>0, <1>9 DEF Choose
    <2> QED
      BY <1>0, <1>9, <2>1, <2>2 DEF TypeOK, Choose, Rest
  <1>10. CASE Decided \/ CreateGoal
    <2>1. CASE UNCHANGED <<Books, task, unchecked>>
      BY <1>0, <1>2, <1>10, <2>1 DEF TypeOK, Decided, CreateGoal, Books
    <2>2. ASSUME NEW g \in Fresh, SetGoal(g), plan' = [plan EXCEPT ![g] = NewPlan], NewNumber(g)
          PROVE  /\ goal' \in [Goals -> GoalType] /\ plan' \in [Goals -> PlanType] /\ stack' \subseteq Goals
                 /\ current' \in 0..MaxGoals /\ active' \in 0..MaxGoals /\ unchecked' \subseteq Goals
      BY <1>0, <2>2, SetGoalTypes, FreshIsFree DEF TypeOK, NewNumber
    <2>3. CASE Decided
      BY <1>0, <2>1, <2>2, <2>3, FreshIsFree DEF TypeOK, Decided
    <2>4. CASE CreateGoal
      BY <1>0, <1>2, <2>2, <2>4 DEF TypeOK, CreateGoal
    <2> QED
      BY <1>10, <2>3, <2>4
  <1>11. CASE QueueBlueprint
    <2>1. PICK g \in Fresh :
            /\ SetGoal(g) /\ NewNumber(g)
            /\ plan' = [p \in Goals |-> CASE p = g -> NewPlan
                                         [] p = task.plan /\ task.pc \in {"acting", "adjust"} ->
                                              [plan[p] EXCEPT !.st = "PAUSED"]
                                         [] OTHER -> plan[p]]
      BY <1>11 DEF QueueBlueprint
    <2>2. \A p \in Goals : [plan[p] EXCEPT !.st = "PAUSED"] \in PlanType
      BY <1>0 DEF PlanType
    <2>3. plan' \in [Goals -> PlanType]
      BY <1>0, <2>1, <2>2
    <2> QED
      BY <1>0, <1>2, <1>11, <2>1, <2>3, SetGoalTypes DEF TypeOK, QueueBlueprint, NewNumber, Modes
  <1>12. CASE MaidDies
    <2>1. goal' \in [Goals -> GoalType]
      BY <1>0, <1>12, StatusKeeps DEF MaidDies
    <2> QED
      BY <1>0, <1>2, <1>12, <2>1 DEF TypeOK, MaidDies, Modes
  <1>13. CASE Begin
    <2>1. goal' \in [Goals -> GoalType]
      BY <1>0, <1>13, StatusKeeps DEF Begin
    <2>2. plan' \in [Goals -> PlanType]
      BY <1>0, <1>13, PlanStatusKeeps DEF Begin
    <2> QED
      BY <1>0, <1>13, <2>1, <2>2 DEF TypeOK, Begin, Rest
  <1>14. CASE \E s \in Endings \cup {"PAUSED"} : Ends(s)
    BY <1>0, <1>14, EndsTypes DEF TypeOK, Rest
  <1>15. CASE Check \/ ActionEnds
    <2>1. CASE /\ task' \in {[task EXCEPT !.pc = "check"], [task EXCEPT !.pc = "acting"], [task EXCEPT !.pc = "adjust"]}
               /\ UNCHANGED <<mode, desired, net, runner, Books, Rest>>
      BY <1>0, <2>1 DEF TypeOK, Books, Rest
    <2>2. CASE /\ current # 0 /\ goal' = [goal EXCEPT ![current].st = "SUCCESS"]
               /\ plan' = [plan EXCEPT ![task.plan] = NoPlan]
               /\ active' = IF active = task.plan THEN 0 ELSE active
               /\ task' = NoTask
               /\ UNCHANGED <<mode, desired, net, runner, current, stack, Rest>>
      <3>1. goal' \in [Goals -> GoalType]
        BY <1>0, <2>2, StatusKeeps
      <3> QED
        BY <1>0, <2>2, <3>1 DEF TypeOK, Rest
    <2> QED
      BY <1>14, <1>15, <2>1, <2>2 DEF Check, ActionEnds, Endings
  <1>16. CASE NeedsMaterial
    <2>1. PICK g \in Fresh :
            /\ CreateChild(g, "PAUSED_MATERIALS", task.plan) /\ NewNumber(g)
            /\ plan' = [plan EXCEPT ![task.plan].st = "PAUSED", ![g] = GatherPlan]
      BY <1>16 DEF NeedsMaterial
    <2>2. current # 0
      BY <1>16 DEF NeedsMaterial
    <2>3. [plan EXCEPT ![task.plan].st = "PAUSED"] \in [Goals -> PlanType]
      BY <1>0, PlanStatusKeeps
    <2>4. plan' \in [Goals -> PlanType]
      BY <2>1, <2>3
    <2> QED
      BY <1>0, <1>16, <2>1, <2>2, <2>4, ChildTypes DEF TypeOK, NeedsMaterial, NewNumber
  <1>17. CASE Adjusted
    <2>1. CASE task' = [task EXCEPT !.pc = "check"] /\ UNCHANGED <<Books, unchecked>>
      BY <1>0, <1>17, <2>1 DEF TypeOK, Adjusted, Books
    <2>2. ASSUME NEW g \in Fresh, task' = NoTask, Replace(g), NewNumber(g),
                 plan' = [plan EXCEPT ![task.plan] = NoPlan, ![g] = NewPlan]
          PROVE  TypeOK'
      BY <1>0, <1>17, <2>2, ReplaceTypes DEF TypeOK, Adjusted, NewNumber, GoalType, PlanType
    <2> QED
      BY <1>1, <1>17, <2>1, <2>2 DEF Adjusted, TypeOK, GoalType, PlanType
  <1> QED
    BY <1>3, <1>3a, <1>3b, <1>3c, <1>3d, <1>3e, <1>4, <1>5, <1>6, <1>7, <1>8, <1>9, <1>10, <1>11,
        <1>12, <1>13, <1>15, <1>16, <1>17
       DEF Next, Runner, Task, User


-----------------------------------------------------------------------------
(* Steps that change no more of the goals than the status of the current one. *)

Stays ==
    /\ UNCHANGED <<current, waiting, unchecked, restored>>
    /\ \/ goal' = goal
       \/ /\ current # 0 /\ restored
          /\ \E s \in GoalStatuses \ {"PAUSED_MATERIALS"} : goal' = [goal EXCEPT ![current].st = s]
    /\ active' \in {0, active, current}
    /\ task'.plan \in {0, task.plan, active, current} /\ (task'.pc = "none" <=> task'.plan = 0)
    /\ runner' = "think" => task'.pc = "none"
    /\ task'.pc = "created" => plan'[task'.plan].st # "RUNNING"
    /\ \A p \in Goals \ {task.plan, active, current} : plan'[p] = plan[p]
    /\ \A p \in Goals : plan'[p].st = "RUNNING" => p = task'.plan \/ (p # task.plan /\ plan'[p] = plan[p])
    /\ waiting.on => task' = NoTask /\ runner' \in {"off", "wait", "got"}
    /\ ~restored => task' = NoTask /\ runner' = "off"

LEMMA StaysGoals ==
    ASSUME GoalsInv, Stays
    PROVE  /\ \A h \in Goals : goal'[h].parent = goal[h].parent /\ goal'[h].resume = goal[h].resume
           /\ \A h \in Goals \ {current} : goal'[h] = goal[h]
           /\ current # 0 => goal'[current].st # "PAUSED_MATERIALS"
           /\ Live' = Live /\ \A h \in Goals : Held(h)' = Held(h)
  <1>0. goal \in [Goals -> GoalType] /\ current \in 0..MaxGoals /\ (current # 0 => current \in Goals)
    BY Zero DEF GoalsInv, TypeOK, GoalType
  <1>1. CASE goal' = goal
    BY <1>1 DEF Stays, Live, Held, GoalsInv, OthersRest
  <1>2. ASSUME NEW s \in GoalStatuses \ {"PAUSED_MATERIALS"}, current # 0,
               goal' = [goal EXCEPT ![current].st = s]
        PROVE  /\ \A h \in Goals : goal'[h].parent = goal[h].parent /\ goal'[h].resume = goal[h].resume
               /\ \A h \in Goals \ {current} : goal'[h] = goal[h]
               /\ goal'[current].st # "PAUSED_MATERIALS"
               /\ Live' = Live /\ \A h \in Goals : Held(h)' = Held(h)
    <2>1. /\ \A h \in Goals : goal'[h].parent = goal[h].parent /\ goal'[h].resume = goal[h].resume
          /\ \A h \in Goals \ {current} : goal'[h] = goal[h]
          /\ goal'[current].st # "PAUSED_MATERIALS"
      BY <1>0, <1>2 DEF GoalType
    <2>2. current' = current
      BY DEF Stays
    <2>3. Live' = Live
      BY <2>1, <2>2 DEF Live
    <2> QED
      BY <2>1, <2>3 DEF Held
  <1> QED
    BY <1>1, <1>2 DEF Stays

LEMMA StaysKeeps ==
    ASSUME GoalsInv, Stays
    PROVE  HeldApart' /\ OthersRest' /\ UncheckedRuns' /\ RestoredOnce'
  <1>0. /\ current' = current /\ waiting' = waiting /\ unchecked' = unchecked /\ restored' = restored
        /\ active' \in {0, active, current} /\ task'.plan \in {0, task.plan, active, current}
    BY DEF Stays
  <1>1. /\ \A h \in Goals : goal'[h].parent = goal[h].parent /\ goal'[h].resume = goal[h].resume
        /\ \A h \in Goals \ {current} : goal'[h] = goal[h]
        /\ current # 0 => goal'[current].st # "PAUSED_MATERIALS"
        /\ Live' = Live /\ \A h \in Goals : Held(h)' = Held(h)
    BY StaysGoals
  <1>2. /\ Live \subseteq Goals /\ \A h \in Live : Held(h) \subseteq Goals /\ 0 \notin Held(h)
        /\ (current # 0 => current \in Goals) /\ (active # 0 => active \in Goals)
        /\ (task.plan # 0 => task.plan \in Goals) /\ (waiting.plan # 0 => waiting.plan \in Goals)
        /\ (waiting.goal # 0 => waiting.goal \in Goals) /\ unchecked \subseteq Goals
    BY Zero DEF Live, Held, GoalsInv, TypeOK
  <1>3. HeldApart'
    <2>1. SUFFICES ASSUME NEW h \in Live
                   PROVE  /\ Held(h) \cap {current', active', task'.plan, waiting'.goal, waiting'.plan} = {}
                          /\ Held(h) \cap unchecked' = {}
                          /\ \A k \in Live \ {h} : Held(h) \cap Held(k) = {}
                          /\ \A p \in Held(h) : goal'[p].st # "ACTIVE"
                          /\ goal'[h].parent = 0 <=> goal'[h].resume = 0
                          /\ goal'[h].parent # 0 => goal'[goal'[h].parent].st = "PAUSED_MATERIALS"
      BY <1>1, <1>2 DEF HeldApart
    <2>2. /\ Held(h) \cap {current, active, task.plan, waiting.goal, waiting.plan} = {}
          /\ Held(h) \cap unchecked = {}
          /\ \A k \in Live \ {h} : Held(h) \cap Held(k) = {}
          /\ \A p \in Held(h) : goal[p].st # "ACTIVE"
          /\ goal[h].parent = 0 <=> goal[h].resume = 0
          /\ goal[h].parent # 0 => goal[goal[h].parent].st = "PAUSED_MATERIALS"
      BY DEF GoalsInv, HeldApart
    <2>3. Held(h) \cap {current', active', task'.plan, waiting'.goal, waiting'.plan} = {}
      BY <1>0, <1>2, <2>2
    <2>4. \A p \in Held(h) : goal'[p] = goal[p]
      BY <1>1, <1>2, <2>2
    <2>5. goal[h].parent # 0 => goal[h].parent \in Held(h)
      BY DEF Held
    <2> QED
      BY <1>0, <1>1, <1>2, <2>2, <2>3, <2>4, <2>5
  <1>4. OthersRest'
    <2>1. active' \notin {0, current'} => goal'[active'].st # "ACTIVE"
      BY <1>0, <1>1, <1>2 DEF GoalsInv, OthersRest
    <2>2. task'.plan \notin {0, current'} => goal'[task'.plan].st # "ACTIVE"
      BY <1>0, <1>1, <1>2 DEF GoalsInv, OthersRest
    <2> QED
      BY <1>0, <1>1, <2>1, <2>2 DEF OthersRest, Stays
  <1>5. UncheckedRuns'
    <2>1. unchecked \cap {current, active, task.plan} = {}
      BY DEF GoalsInv, UncheckedRuns
    <2>2. \A p \in unchecked : plan'[p].st = "RUNNING"
      BY <1>2, <2>1 DEF GoalsInv, UncheckedRuns, Stays
    <2>3. \A p \in Goals : plan'[p].st = "RUNNING" => p = task'.plan \/ p \in unchecked
      BY DEF GoalsInv, UncheckedRuns, Stays
    <2>4. unchecked \cap {current', active', task'.plan} = {}
      BY <1>0, <1>2, <2>1, Zero
    <2> QED
      BY <1>0, <2>2, <2>3, <2>4 DEF GoalsInv, UncheckedRuns, Stays
  <1>6. RestoredOnce'
    <2>1. ~restored => goal' = goal
      BY DEF Stays
    <2>2. /\ waiting.on /\ waiting.goal = 0 /\ waiting.plan # 0 =>
               waiting.plan # current /\ goal'[waiting.plan].st # "ACTIVE"
          /\ waiting.goal # 0 => /\ waiting.plan \in {0, waiting.goal}
                                 /\ waiting.goal \in Live \/ Held(waiting.goal) = {}
      BY <1>1, <1>2 DEF GoalsInv, RestoredOnce
    <2>3. (waiting.on \/ ~restored) /\ current # 0 => Held(current)' = {}
      BY <1>0, <1>1, <1>2 DEF GoalsInv, RestoredOnce, Held
    <2>4. /\ waiting.on => task' = NoTask /\ runner' \in {"off", "wait", "got"}
          /\ ~waiting.on => waiting = NotWaiting
          /\ ~restored => task' = NoTask /\ runner' = "off" /\ waiting = NotWaiting
          /\ ~restored /\ current # 0 => goal'[current].st = "ACTIVE"
      BY <2>1 DEF GoalsInv, RestoredOnce, Stays
    <2>5. waiting.goal # 0 => Held(waiting.goal)' = Held(waiting.goal)
      BY <1>0, <1>1, <1>2 DEF Held
    <2> QED
      BY <1>0, <1>1, <2>2, <2>3, <2>4, <2>5 DEF RestoredOnce
  <1> QED
    BY <1>3, <1>4, <1>5, <1>6

-----------------------------------------------------------------------------
(* Steps that make a new goal, which nothing leads back to. *)

\* A child goes back to the current goal and the plan that was at work; others go
\* back to nothing.
ChildOf(g) ==
    /\ goal'[g].parent = current /\ goal'[g].resume = task.plan
    /\ current # 0 /\ task.plan # 0 /\ task' = NoTask
    /\ goal'[current].st = "PAUSED_MATERIALS"

Makes(g) ==
    /\ current' = g /\ active' = g /\ goal'[g].st = "ACTIVE"
    /\ UNCHANGED <<waiting, restored>> /\ unchecked' = unchecked \ {g}
    /\ current # 0 => /\ goal'[current].st # "ACTIVE"
                      /\ goal'[current].parent = goal[current].parent
                      /\ goal'[current].resume = goal[current].resume
                      /\ goal'[current].st \in GoalOpen => goal[current].st \in GoalOpen \/ ChildOf(g)
    /\ \A h \in Goals \ {g, current} :
          \/ goal'[h] = goal[h]
          \/ goal'[h] = NoGoal /\ h \in Free /\ goal[h].st \notin GoalOpen
    /\ (goal'[g].parent = 0 /\ goal'[g].resume = 0) \/ ChildOf(g)
    /\ task'.plan \in {0, g, task.plan} /\ (task'.pc = "none" <=> task'.plan = 0)
    /\ task'.pc = "acting" => task' = task
    /\ runner' = "think" => task'.pc = "none"
    /\ task'.pc = "created" => plan'[task'.plan].st # "RUNNING"
    /\ \A p \in Goals \ {g, task.plan} : plan'[p] = plan[p]
    /\ plan'[g].st # "RUNNING"
    /\ task.plan # 0 /\ task'.plan # task.plan => plan'[task.plan].st # "RUNNING"
    /\ waiting.on => task' = NoTask /\ runner' \in {"off", "wait", "got"}
    /\ waiting.on \/ ~restored => goal'[g].parent = 0
    /\ ~restored => task' = NoTask /\ runner' = "off"

LEMMA MakesKeeps ==
    ASSUME GoalsInv, NEW g \in Fresh, Makes(g)
    PROVE  HeldApart' /\ OthersRest' /\ UncheckedRuns' /\ RestoredOnce'
  <1>0. /\ current' = g /\ active' = g /\ waiting' = waiting /\ unchecked' = unchecked \ {g}
        /\ restored' = restored /\ task'.plan \in {0, g, task.plan} /\ goal'[g].st = "ACTIVE"
    BY DEF Makes
  <1>1. /\ Live \subseteq Goals /\ \A h \in Live : Held(h) \subseteq Goals /\ 0 \notin Held(h)
        /\ (current # 0 => current \in Live) /\ (active # 0 => active \in Goals)
        /\ (task.plan # 0 => task.plan \in Goals) /\ (waiting.plan # 0 => waiting.plan \in Goals)
        /\ (waiting.goal # 0 => waiting.goal \in Goals) /\ unchecked \subseteq Goals
    BY Zero DEF Live, Held, GoalsInv, TypeOK
  <1>2. /\ g \in Goals /\ g # 0 /\ g \notin {current, active, task.plan, waiting.goal, waiting.plan}
        /\ \A h \in Live : g \notin Held(h)
    BY Zero DEF Fresh, Free
  <1>3. \A h \in Live : \A p \in Held(h) : p \notin Free /\ p # current /\ p # g /\ goal'[p] = goal[p]
    <2>1. \A h \in Live : \A p \in Held(h) : p \notin Free /\ p # current /\ p # g
      BY <1>2 DEF Free, GoalsInv, HeldApart
    <2> QED
      BY <1>1, <2>1 DEF Makes
  <1>4. \A h \in Goals \ {g} :
           h \in Live' => /\ h \in Live
                          /\ goal'[h].parent = goal[h].parent /\ goal'[h].resume = goal[h].resume
    <2>1. NoGoal.st \notin GoalOpen
      BY DEF NoGoal, GoalOpen
    <2> QED
      BY <1>0, <1>1, <2>1, Zero DEF Live, Makes
  <1>5. ChildOf(g) => /\ current \in Live /\ task.plan \in Goals /\ current # g /\ task.plan # g
                      /\ ~waiting.on /\ waiting = NotWaiting
                      /\ current \notin unchecked /\ task.plan \notin unchecked
                      /\ task'.plan = 0
    BY <1>1, <1>2 DEF ChildOf, GoalsInv, RestoredOnce, UncheckedRuns, NoTask
  <1>6. HeldApart'
    <2> DEFINE back == {goal'[g].parent, goal'[g].resume} \ {0}
    <2>1. SUFFICES ASSUME NEW h \in Goals, h \in Live'
                   PROVE  /\ Held(h)' \cap {g, task'.plan, waiting.goal, waiting.plan} = {}
                          /\ Held(h)' \cap (unchecked \ {g}) = {}
                          /\ \A k \in Goals \ {h} : k \in Live' => Held(h)' \cap Held(k)' = {}
                          /\ \A p \in Held(h)' : goal'[p].st # "ACTIVE"
                          /\ goal'[h].parent = 0 <=> goal'[h].resume = 0
                          /\ goal'[h].parent # 0 => goal'[goal'[h].parent].st = "PAUSED_MATERIALS"
      BY <1>0 DEF HeldApart, Live
    <2>2. \A k \in Goals \ {g} : k \in Live' => k \in Live /\ Held(k)' = Held(k)
      BY <1>4 DEF Held
    <2>3. Held(g)' = {} \/ (ChildOf(g) /\ Held(g)' = {current, task.plan})
      BY <1>0 DEF Held, Makes, ChildOf
    <2>4. ASSUME NEW k \in Goals \ {g}, k \in Live' PROVE Held(k) \cap Held(g)' = {}
      BY <2>2, <2>3, <2>4 DEF GoalsInv, HeldApart
    <2>5. CASE h # g
      <3>1. h \in Live /\ Held(h)' = Held(h)
        BY <2>1, <2>2, <2>5
      <3>2. /\ Held(h) \cap {current, active, task.plan, waiting.goal, waiting.plan} = {}
            /\ Held(h) \cap unchecked = {}
            /\ \A k \in Live \ {h} : Held(h) \cap Held(k) = {}
            /\ \A p \in Held(h) : goal[p].st # "ACTIVE"
            /\ goal[h].parent = 0 <=> goal[h].resume = 0
            /\ goal[h].parent # 0 => goal[goal[h].parent].st = "PAUSED_MATERIALS"
        BY <3>1 DEF GoalsInv, HeldApart
      <3>3. Held(h) \cap {g, task'.plan, waiting.goal, waiting.plan} = {}
        BY <1>0, <1>1, <1>2, <3>1, <3>2
      <3>4. \A k \in Goals \ {h} : k \in Live' => Held(h) \cap Held(k)' = {}
        BY <2>1, <2>2, <2>4, <2>5, <3>2
      <3>5. \A p \in Held(h) : goal'[p].st # "ACTIVE"
        BY <1>3, <3>1, <3>2
      <3>6. goal[h].parent # 0 => goal[h].parent \in Held(h)
        BY DEF Held
      <3>7. /\ goal'[h].parent = 0 <=> goal'[h].resume = 0
            /\ goal'[h].parent # 0 => goal'[goal'[h].parent].st = "PAUSED_MATERIALS"
        BY <1>3, <1>4, <2>1, <2>5, <3>1, <3>2, <3>6
      <3> QED
        BY <3>1, <3>2, <3>3, <3>4, <3>5, <3>7
    <2>6. CASE h = g
      <3>1. \A k \in Goals \ {h} : k \in Live' => Held(h)' \cap Held(k)' = {}
        BY <2>2, <2>4, <2>6
      <3>2. CASE Held(g)' = {} /\ goal'[g].parent = 0 /\ goal'[g].resume = 0
        BY <2>6, <3>1, <3>2
      <3>3. CASE ChildOf(g) /\ Held(g)' = {current, task.plan}
        <4>1. {current, task.plan} \cap {g, task'.plan, waiting.goal, waiting.plan} = {}
          BY <1>0, <1>1, <1>5, <3>3, Zero DEF NotWaiting, ChildOf
        <4>2. {current, task.plan} \cap unchecked = {}
          BY <1>5, <3>3
        <4>3. goal'[current].st # "ACTIVE" /\ goal'[task.plan].st # "ACTIVE"
          <5>1. goal'[current].st # "ACTIVE"
            BY <3>3 DEF Makes, ChildOf
          <5>2. CASE task.plan # current
            BY <1>2, <1>5, <3>3, <5>2 DEF GoalsInv, OthersRest, Makes, ChildOf, NoGoal
          <5> QED
            BY <5>1, <5>2
        <4>4. /\ goal'[g].parent = 0 <=> goal'[g].resume = 0
              /\ goal'[g].parent # 0 => goal'[goal'[g].parent].st = "PAUSED_MATERIALS"
          BY <3>3 DEF ChildOf
        <4> QED
          BY <2>6, <3>1, <3>3, <4>1, <4>2, <4>3, <4>4
      <3> QED
        BY <1>0, <2>3, <3>2, <3>3 DEF Makes, Held, ChildOf
    <2> QED
      BY <2>5, <2>6
  <1>7. OthersRest'
    <2>1. task'.plan \notin {0, g} => goal'[task'.plan].st # "ACTIVE"
      <3>1. CASE task.plan = current
        BY <1>0, <3>1 DEF Makes
      <3>2. CASE task.plan # current
        BY <1>0, <1>1, <1>2, <3>2 DEF GoalsInv, OthersRest, Makes, NoGoal
      <3> QED
        BY <3>1, <3>2
    <2> QED
      BY <1>0, <2>1 DEF OthersRest, Makes
  <1>8. UncheckedRuns'
    <2>1. /\ \A p \in unchecked : plan[p].st = "RUNNING"
          /\ \A p \in Goals : plan[p].st = "RUNNING" => p = task.plan \/ p \in unchecked
          /\ unchecked \cap {current, active, task.plan} = {}
          /\ waiting.goal \in unchecked => waiting.plan = waiting.goal
      BY DEF GoalsInv, UncheckedRuns
    <2>2. \A p \in unchecked \ {g} : plan'[p].st = "RUNNING"
      BY <1>1, <2>1 DEF Makes
    <2>3. \A p \in Goals : plan'[p].st = "RUNNING" => p = task'.plan \/ p \in unchecked \ {g}
      BY <1>0, <1>1, <1>2, <2>1, Zero DEF Makes
    <2>4. (unchecked \ {g}) \cap {g, task'.plan} = {}
      BY <1>0, <1>1, <2>1, Zero
    <2> QED
      BY <1>0, <2>1, <2>2, <2>3, <2>4 DEF UncheckedRuns, Makes
  <1>9. RestoredOnce'
    <2>1. /\ waiting.on => task' = NoTask /\ runner' \in {"off", "wait", "got"}
          /\ ~waiting.on => waiting = NotWaiting
          /\ ~restored => task' = NoTask /\ runner' = "off" /\ waiting = NotWaiting
      BY DEF GoalsInv, RestoredOnce, Makes
    <2>2. waiting.on \/ ~restored => Held(g)' = {}
      <3>1. waiting.on \/ ~restored => goal'[g].parent = 0 /\ goal'[g].resume = 0
        BY DEF Makes, ChildOf
      <3> QED
        BY <1>0, <3>1 DEF Held
    <2>3. waiting.on /\ waiting.goal = 0 /\ waiting.plan # 0 =>
             waiting.plan # g /\ goal'[waiting.plan].st # "ACTIVE"
      BY <1>0, <1>1, <1>2 DEF GoalsInv, RestoredOnce, Makes, NoGoal
    <2>4. waiting.goal # 0 => /\ waiting.plan \in {0, waiting.goal}
                              /\ waiting.goal \in Live' \/ Held(waiting.goal)' = {}
      <3>1. SUFFICES ASSUME waiting.goal # 0
                     PROVE  /\ waiting.plan \in {0, waiting.goal}
                            /\ waiting.goal \in Live' \/ Held(waiting.goal)' = {}
        OBVIOUS
      <3>2. /\ waiting.goal \in Goals /\ waiting.goal \notin Free /\ waiting.goal # g /\ waiting.on
            /\ waiting.plan \in {0, waiting.goal} /\ (waiting.goal \in Live \/ Held(waiting.goal) = {})
        BY <1>1, <1>2, <3>1 DEF Free, GoalsInv, RestoredOnce, NotWaiting
      <3>3. CASE waiting.goal = current
        <4>1. Held(current) = {}
          BY <3>1, <3>2, <3>3 DEF GoalsInv, RestoredOnce
        <4>2. goal'[current].parent = goal[current].parent /\ goal'[current].resume = goal[current].resume
          BY <3>1, <3>3 DEF Makes
        <4> QED
          BY <1>0, <3>2, <3>3, <4>1, <4>2 DEF Held
      <3>4. CASE waiting.goal # current
        <4>1. goal'[waiting.goal] = goal[waiting.goal]
          BY <3>2, <3>4 DEF Makes
        <4>2. waiting.goal \in Live => waiting.goal \in Live'
          BY <3>2, <3>4, <4>1 DEF Live
        <4>3. Held(waiting.goal)' = Held(waiting.goal)
          BY <1>0, <4>1 DEF Held
        <4> QED
          BY <3>2, <4>2, <4>3
      <3> QED
        BY <3>3, <3>4
    <2> QED
      BY <1>0, <2>1, <2>2, <2>3, <2>4 DEF RestoredOnce
  <1> QED
    BY <1>6, <1>7, <1>8, <1>9

-----------------------------------------------------------------------------
(* The other steps: the parent goes on, and a restart with what follows it. *)

LEMMA ReturnsKeeps ==
    ASSUME GoalsInv, Verify, current # 0, Returns
    PROVE  HeldApart' /\ OthersRest' /\ UncheckedRuns' /\ RestoredOnce'
  <1> DEFINE P == goal[current].parent
             R == goal[current].resume
  <1>0. /\ task' = task /\ restored' = restored /\ waiting' = waiting /\ unchecked' = unchecked
        /\ runner = "verify" /\ runner' = "choose"
        /\ current' = P /\ active' = R /\ plan' = [plan EXCEPT ![R].st = "PAUSED"]
        /\ goal' = [goal EXCEPT ![current].st = "SUCCESS", ![P].st = "ACTIVE"]
    BY DEF Verify, Returns, Rest
  <1>1. /\ goal \in [Goals -> GoalType] /\ plan \in [Goals -> PlanType] /\ current \in Live /\ P \in Goals
        /\ current \in Goals /\ Live \subseteq Goals /\ \A h \in Live : Held(h) \subseteq Goals /\ 0 \notin Held(h)
        /\ (task.plan # 0 => task.plan \in Goals) /\ unchecked \subseteq Goals
    BY Zero DEF Live, Held, GoalsInv, TypeOK, GoalType, PlanType, Returns
  <1>2. P # 0 /\ R # 0 /\ R \in Goals /\ Held(current) = {P, R}
    BY <1>1, Zero DEF GoalsInv, HeldApart, Held
  <1>3. /\ {P, R} \cap {current, active, task.plan} = {} /\ {P, R} \cap unchecked = {}
        /\ \A k \in Live \ {current} : {P, R} \cap Held(k) = {}
        /\ goal[R].st # "ACTIVE" /\ goal[P].st = "PAUSED_MATERIALS"
    <2>1. /\ Held(current) \cap {current, active, task.plan, waiting.goal, waiting.plan} = {}
          /\ Held(current) \cap unchecked = {}
          /\ \A k \in Live \ {current} : Held(current) \cap Held(k) = {}
          /\ \A p \in Held(current) : goal[p].st # "ACTIVE"
          /\ goal[P].st = "PAUSED_MATERIALS"
      BY <1>1, <1>2 DEF GoalsInv, HeldApart
    <2> QED
      BY <1>2, <2>1
  <1>4. ~waiting.on /\ waiting = NotWaiting /\ restored
    BY <1>0 DEF GoalsInv, RestoredOnce
  <1> HIDE DEF P, R
  <1>5. /\ goal'[current].st = "SUCCESS" /\ goal'[P].st = "ACTIVE"
        /\ \A h \in Goals \ {current, P} : goal'[h] = goal[h]
        /\ \A h \in Goals : goal'[h].parent = goal[h].parent /\ goal'[h].resume = goal[h].resume
    BY <1>0, <1>1, <1>2, <1>3 DEF GoalType
  <1>6. \A h \in Goals : h \in Live' => h \in Live \ {current}
    BY <1>0, <1>1, <1>3, <1>5 DEF Live, GoalOpen
  <1>7. HeldApart'
    <2>1. SUFFICES ASSUME NEW h \in Live \ {current}
                   PROVE  /\ Held(h) \cap {P, R, task.plan, waiting.goal, waiting.plan} = {}
                          /\ Held(h) \cap unchecked = {}
                          /\ \A k \in Live \ {h} : Held(h) \cap Held(k) = {}
                          /\ \A p \in Held(h) : goal'[p].st # "ACTIVE"
                          /\ goal[h].parent = 0 <=> goal[h].resume = 0
                          /\ goal[h].parent # 0 => goal'[goal[h].parent].st = "PAUSED_MATERIALS"
      <3>1. \A h \in Live' : h \in Goals /\ h \in Live \ {current}
        BY <1>6 DEF Live
      <3>2. \A h \in Live' : Held(h)' = Held(h)
        BY <1>5, <3>1 DEF Held
      <3>3. \A h \in Live' :
              /\ Held(h)' \cap {P, R, task.plan, waiting.goal, waiting.plan} = {}
              /\ Held(h)' \cap unchecked = {}
              /\ \A p \in Held(h)' : goal'[p].st # "ACTIVE"
              /\ goal'[h].parent = 0 <=> goal'[h].resume = 0
              /\ goal'[h].parent # 0 => goal'[goal'[h].parent].st = "PAUSED_MATERIALS"
        BY <1>5, <3>1, <3>2
      <3>4. \A h \in Live' : \A k \in Live' \ {h} : Held(h)' \cap Held(k)' = {}
        BY <3>1, <3>2
      <3> QED
        BY <1>0, <3>3, <3>4 DEF HeldApart
    <2>2. /\ Held(h) \cap {current, active, task.plan, waiting.goal, waiting.plan} = {}
          /\ Held(h) \cap unchecked = {}
          /\ \A k \in Live \ {h} : Held(h) \cap Held(k) = {}
          /\ \A p \in Held(h) : goal[p].st # "ACTIVE"
          /\ goal[h].parent = 0 <=> goal[h].resume = 0
          /\ goal[h].parent # 0 => goal[goal[h].parent].st = "PAUSED_MATERIALS"
      BY DEF GoalsInv, HeldApart
    <2>3. {P, R} \cap Held(h) = {}
      BY <1>3
    <2>4. \A p \in Held(h) : p \in Goals \ {current, P} /\ goal'[p] = goal[p]
      BY <1>1, <1>5, <2>2, <2>3
    <2>5. goal[h].parent # 0 => goal[h].parent \in Held(h)
      BY DEF Held
    <2>6. Held(h) \cap {P, R, task.plan, waiting.goal, waiting.plan} = {}
      BY <2>2, <2>3
    <2> QED
      BY <2>2, <2>4, <2>5, <2>6
  <1>8. OthersRest'
    <2>1. R \notin {0, P} => goal'[R].st # "ACTIVE"
      BY <1>2, <1>3, <1>5
    <2>2. task.plan \notin {0, P} => goal'[task.plan].st # "ACTIVE"
      BY <1>1, <1>5 DEF GoalsInv, OthersRest
    <2> QED
      BY <1>0, <1>5, <2>1, <2>2 DEF GoalsInv, OthersRest
  <1>9. UncheckedRuns'
    <2>1. \A p \in Goals : plan'[p].st = "RUNNING" => plan[p].st = "RUNNING"
      BY <1>0, <1>1 DEF PlanType
    <2>2. \A p \in Goals \ {R} : plan'[p] = plan[p]
      BY <1>0, <1>1
    <2>3. waiting.goal = 0
      BY <1>4 DEF NotWaiting
    <2> QED
      BY <1>0, <1>1, <1>3, <2>1, <2>2, <2>3, Zero DEF GoalsInv, UncheckedRuns
  <1>10. RestoredOnce'
    BY <1>0, <1>4 DEF GoalsInv, RestoredOnce, NotWaiting
  <1> QED
    BY <1>7, <1>8, <1>9, <1>10

LEMMA StartKeeps ==
    ASSUME GoalsInv, Start, ~restored
    PROVE  HeldApart' /\ OthersRest' /\ UncheckedRuns' /\ RestoredOnce'
  <1>0. /\ waiting' \in Loaded /\ restored' = TRUE
        /\ UNCHANGED <<net, task, goal, plan, current, stack, active, unchecked>>
        /\ task = NoTask /\ runner' = "wait"
    BY DEF Start, Load, GoalsInv, RestoredOnce
  <1>1. PICK w \in Loaded : waiting' = w
    BY <1>0
  <1>2. /\ Live' = Live /\ Live \subseteq Goals /\ \A h \in Live : Held(h) \subseteq Goals /\ 0 \notin Held(h)
        /\ (current # 0 => current \in Goals /\ goal[current].st \in GoalOpen) /\ unchecked \subseteq Goals
        /\ \A g \in Goals : goal[g].st \in GoalOpen => g \in Live
        /\ current # 0 => Held(current) = {}
        /\ \A h \in Live : h # current => goal[h].st \in GoalOpen
    BY <1>0, Zero DEF Live, Held, GoalsInv, TypeOK, RestoredOnce, GoalOpen
  <1>3. /\ \A h \in Live : Held(h) \cap {w.goal, w.plan} = {}
        /\ w.on /\ w.goal = 0 /\ w.plan # 0 => w.plan # current /\ goal[w.plan].st # "ACTIVE"
        /\ w.goal # 0 => w.plan \in {0, w.goal} /\ w.goal \in Live
        /\ w.goal \in unchecked => w.plan = w.goal
        /\ ~w.on => w = NotWaiting
    <2>1. CASE w = [on |-> FALSE, goal |-> 0, plan |-> 0]
      BY <1>2, <2>1, Zero DEF NotWaiting
    <2>2. ASSUME NEW p \in Goals, w = [on |-> TRUE, goal |-> 0, plan |-> p],
                 \A g \in Goals : goal[g].st \notin GoalOpen
          PROVE  /\ \A h \in Live : Held(h) \cap {w.goal, w.plan} = {}
                 /\ w.on /\ w.goal = 0 /\ w.plan # 0 => w.plan # current /\ goal[w.plan].st # "ACTIVE"
                 /\ w.goal # 0 => w.plan \in {0, w.goal} /\ w.goal \in Live
                 /\ w.goal \in unchecked => w.plan = w.goal
                 /\ ~w.on => w = NotWaiting
      BY <1>2, <2>2, Zero DEF Live, GoalOpen
    <2>3. ASSUME NEW g \in Goals,
                 w = [on |-> TRUE, goal |-> g, plan |-> IF plan[g].st \in PlanOpen THEN g ELSE 0],
                 goal[g].st \in GoalOpen,
                 \/ goal[g].st = "ACTIVE"
                 \/ \A h \in Goals : goal[h].st \in GoalOpen => g \notin Held(h)
          PROVE  /\ \A h \in Live : Held(h) \cap {w.goal, w.plan} = {}
                 /\ w.on /\ w.goal = 0 /\ w.plan # 0 => w.plan # current /\ goal[w.plan].st # "ACTIVE"
                 /\ w.goal # 0 => w.plan \in {0, w.goal} /\ w.goal \in Live
                 /\ w.goal \in unchecked => w.plan = w.goal
                 /\ ~w.on => w = NotWaiting
      <3>0. w.on /\ w.goal = g /\ g # 0 /\ w.plan \in {0, g} /\ (plan[g].st \in PlanOpen => w.plan = g)
        BY <2>3, Zero
      <3>1. \A h \in Live : g \notin Held(h)
        BY <1>2, <2>3, Zero DEF GoalsInv, HeldApart
      <3>2. g \in unchecked => plan[g].st \in PlanOpen
        BY DEF GoalsInv, UncheckedRuns, PlanOpen
      <3> QED
        BY <1>2, <2>3, <3>0, <3>1, <3>2
    <2> QED
      BY <2>1, <2>2, <2>3, LoadedCases
  <1>4. HeldApart'
    <2>1. \A h \in Live : Held(h)' = Held(h)
      BY <1>0 DEF Held
    <2>2. \A h \in Live : Held(h) \cap {current, active, task.plan, w.goal, w.plan} = {}
      BY <1>3 DEF GoalsInv, HeldApart
    <2> QED
      BY <1>0, <1>1, <1>2, <2>1, <2>2 DEF GoalsInv, HeldApart
  <1>5. OthersRest'
    BY <1>0 DEF GoalsInv, OthersRest
  <1>6. UncheckedRuns'
    BY <1>0, <1>1, <1>3 DEF GoalsInv, UncheckedRuns
  <1>7. RestoredOnce'
    <2>1. current # 0 => Held(current)' = {}
      BY <1>0, <1>2 DEF Held
    <2> QED
      BY <1>0, <1>1, <1>2, <1>3, <2>1 DEF RestoredOnce
  <1> QED
    BY <1>4, <1>5, <1>6, <1>7

LEMMA RevalidateKeeps ==
    ASSUME GoalsInv, Revalidate
    PROVE  HeldApart' /\ OthersRest' /\ UncheckedRuns' /\ RestoredOnce'
  <1> DEFINE W == waiting.goal
             Q == waiting.plan
  <1>0. /\ current' = W /\ active' = Q /\ unchecked' = unchecked \ {Q} /\ waiting' = NotWaiting
        /\ waiting.on /\ task' = task /\ task = NoTask /\ runner' = runner /\ runner = "got"
        /\ restored' = restored /\ restored
    BY DEF Revalidate, GoalsInv, RestoredOnce
  <1>1. /\ goal \in [Goals -> GoalType] /\ plan \in [Goals -> PlanType]
        /\ Live \subseteq Goals /\ \A h \in Live : Held(h) \subseteq Goals /\ 0 \notin Held(h)
        /\ (W # 0 => W \in Goals) /\ (Q # 0 => Q \in Goals) /\ unchecked \subseteq Goals
        /\ (W # 0 => Q \in {0, W}) /\ (W \in unchecked => Q = W)
        /\ W # 0 => W \in Live \/ Held(W) = {}
    <2>1. /\ goal \in [Goals -> GoalType] /\ plan \in [Goals -> PlanType]
          /\ Live \subseteq Goals /\ \A h \in Live : Held(h) \subseteq Goals /\ 0 \notin Held(h)
          /\ (W # 0 => W \in Goals) /\ (Q # 0 => Q \in Goals) /\ unchecked \subseteq Goals
      BY Zero DEF Live, Held, GoalsInv, TypeOK, GoalType, PlanType
    <2>2. /\ (W # 0 => Q \in {0, W}) /\ (W \in unchecked => Q = W)
          /\ W # 0 => W \in Live \/ Held(W) = {}
      BY DEF GoalsInv, RestoredOnce, UncheckedRuns
    <2> QED
      BY <2>1, <2>2
  <1>2. /\ \A h \in Goals \ {W} : goal'[h] = goal[h]
        /\ \A h \in Goals : goal'[h].parent = goal[h].parent /\ goal'[h].resume = goal[h].resume
        /\ W # 0 => goal'[W].st \in {"SUCCESS", "BLOCKED", "PAUSED"}
        /\ \A p \in Goals \ {Q} : plan'[p] = plan[p]
        /\ Q # 0 => plan'[Q].st # "RUNNING"
    BY <1>1 DEF Revalidate, GoalType, PlanType, NoPlan
  <1> HIDE DEF W, Q
  <1>3. \A h \in Goals : h \in Live' => h = W \/ h \in Live
    BY <1>0, <1>2 DEF Live
  <1>4. HeldApart'
    <2>1. \A h \in Goals : h \in Live' => (h \in Live \/ Held(h) = {}) /\ Held(h)' = Held(h)
      BY <1>1, <1>2, <1>3, Zero DEF Held
    <2>2. ASSUME NEW h \in Live
          PROVE  /\ Held(h) \cap {W, Q, 0} = {} /\ Held(h) \cap unchecked = {}
                 /\ \A p \in Held(h) : goal'[p] = goal[p]
                 /\ \A k \in Live \ {h} : Held(h) \cap Held(k) = {}
                 /\ \A p \in Held(h) : goal[p].st # "ACTIVE"
                 /\ goal[h].parent = 0 <=> goal[h].resume = 0
                 /\ goal[h].parent # 0 => goal[h].parent \in Held(h) /\ goal[goal[h].parent].st = "PAUSED_MATERIALS"
      <3>1. Held(h) \cap {waiting.goal, waiting.plan} = {}
        BY DEF GoalsInv, HeldApart
      <3>2. Held(h) \cap {W, Q, 0} = {}
        BY <1>1, <3>1 DEF W, Q
      <3> QED
        BY <1>1, <1>2, <3>2 DEF GoalsInv, HeldApart, Held
    <2>3. SUFFICES ASSUME NEW h \in Goals, h \in Live'
                   PROVE  /\ Held(h) \cap {W, Q, 0} = {} /\ Held(h) \cap (unchecked \ {Q}) = {}
                          /\ \A k \in Goals \ {h} : k \in Live' => Held(h) \cap Held(k) = {}
                          /\ \A p \in Held(h) : goal'[p].st # "ACTIVE"
                          /\ goal[h].parent = 0 <=> goal[h].resume = 0
                          /\ goal[h].parent # 0 => goal'[goal[h].parent].st = "PAUSED_MATERIALS"
      <3>1. \A h \in Live' : h \in Goals
        BY DEF Live
      <3>2. task'.plan = 0 /\ waiting'.goal = 0 /\ waiting'.plan = 0
        BY <1>0 DEF NoTask, NotWaiting
      <3> QED
        BY <1>0, <1>2, <2>1, <3>1, <3>2 DEF HeldApart
    <2>4. CASE h \in Live
      BY <2>1, <2>2, <2>4
    <2>5. CASE Held(h) = {}
      BY <2>5 DEF Held
    <2> QED
      BY <2>1, <2>3, <2>4, <2>5
  <1>5. OthersRest'
    <2>1. Q \notin {0, W} => goal'[Q].st # "ACTIVE"
      BY <1>0, <1>1, <1>2 DEF GoalsInv, RestoredOnce, W, Q
    <2> QED
      BY <1>0, <1>2, <2>1 DEF OthersRest, NoTask
  <1>6. UncheckedRuns'
    <2>1. \A p \in Goals : plan'[p].st = "RUNNING" => p \in unchecked \ {Q}
      BY <1>0, <1>2, Zero DEF GoalsInv, UncheckedRuns, NoTask
    <2> QED
      BY <1>0, <1>1, <1>2, <2>1, Zero DEF GoalsInv, UncheckedRuns, NoTask, NotWaiting
  <1>7. RestoredOnce'
    BY <1>0 DEF RestoredOnce, NotWaiting
  <1> QED
    BY <1>4, <1>5, <1>6, <1>7

LEMMA RestartKeeps ==
    ASSUME GoalsInv, Restart
    PROVE  HeldApart' /\ OthersRest' /\ UncheckedRuns' /\ RestoredOnce'
  <1>0. /\ current' = 0 /\ active' = 0 /\ task' = NoTask /\ waiting' = NotWaiting /\ plan' = plan
        /\ unchecked' = unchecked \cup {p \in Goals : plan[p].st = "RUNNING"} /\ restored' = FALSE
        /\ runner' = "off"
        /\ \A g \in Goals : goal'[g] = goal[g] \/ (goal'[g] = NoGoal /\ goal[g].st \notin GoalOpen)
    BY DEF Restart
  <1>1. \A h \in Goals : h \in Live' => h \in Live /\ goal'[h] = goal[h] /\ Held(h)' = Held(h)
    BY <1>0, Zero DEF Live, NoGoal, GoalOpen, Held
  <1>2. HeldApart'
    <2>1. ASSUME NEW h \in Live
          PROVE  /\ Held(h) \subseteq Goals /\ 0 \notin Held(h) /\ Held(h) \cap unchecked' = {}
                 /\ \A k \in Live \ {h} : Held(h) \cap Held(k) = {}
                 /\ \A p \in Held(h) : goal'[p].st # "ACTIVE"
                 /\ goal[h].parent = 0 <=> goal[h].resume = 0
                 /\ goal[h].parent # 0 => goal'[goal[h].parent].st = "PAUSED_MATERIALS"
      <3>1. Held(h) \subseteq Goals /\ 0 \notin Held(h)
        BY Zero DEF Held, Live, GoalsInv, TypeOK
      <3>2. /\ Held(h) \cap {task.plan} = {} /\ Held(h) \cap unchecked = {}
            /\ \A k \in Live \ {h} : Held(h) \cap Held(k) = {}
            /\ \A p \in Held(h) : goal[p].st # "ACTIVE"
            /\ goal[h].parent = 0 <=> goal[h].resume = 0
            /\ goal[h].parent # 0 => goal[h].parent \in Held(h) /\ goal[goal[h].parent].st = "PAUSED_MATERIALS"
        BY DEF GoalsInv, HeldApart, Held
      <3>3. Held(h) \cap unchecked' = {}
        BY <1>0, <3>1, <3>2 DEF GoalsInv, UncheckedRuns
      <3> QED
        BY <1>0, <3>1, <3>2, <3>3 DEF NoGoal, GoalOpen
    <2>2. \A h \in Live' : h \in Goals
      BY DEF Live
    <2>3. task'.plan = 0 /\ waiting'.goal = 0 /\ waiting'.plan = 0
      BY <1>0 DEF NoTask, NotWaiting
    <2> QED
      BY <1>0, <1>1, <2>1, <2>2, <2>3 DEF HeldApart
  <1>3. OthersRest'
    BY <1>0 DEF OthersRest, NoTask
  <1>4. UncheckedRuns'
    BY <1>0, Zero DEF GoalsInv, UncheckedRuns, NoTask, NotWaiting, TypeOK
  <1>5. RestoredOnce'
    BY <1>0 DEF RestoredOnce, NotWaiting
  <1> QED
    BY <1>2, <1>3, <1>4, <1>5

-----------------------------------------------------------------------------
(* Which step is which. *)

ChecksFirst == task'.pc = "acting" => task'.plan \notin unchecked

MaterialStep ==
    \A g \in Goals \ Free : goal[g].st = "PAUSED_MATERIALS" /\ goal'[g].st # "PAUSED_MATERIALS" =>
        \/ current # 0 /\ goal'[current].parent = g /\ goal'[current].st = "SUCCESS"
        \/ /\ goal'[g].st # "ACTIVE"
           /\ \A h \in Goals : goal[h].st \in GoalOpen => goal[h].parent # g

LEMMA StaysIsSafe ==
    ASSUME GoalsInv, Stays
    PROVE  ChecksFirst /\ MaterialStep
  <1>1. task'.plan \notin unchecked
    <2>1. unchecked \cap {current, active, task.plan} = {} /\ 0 \notin unchecked
      BY Zero DEF GoalsInv, UncheckedRuns, TypeOK
    <2> QED
      BY <2>1 DEF Stays
  <1>2. \A h \in Goals : goal[h].st = "PAUSED_MATERIALS" => goal'[h] = goal[h]
    BY StaysGoals, Zero DEF GoalsInv, OthersRest
  <1> QED
    BY <1>1, <1>2 DEF ChecksFirst, MaterialStep

LEMMA MakesIsSafe ==
    ASSUME GoalsInv, NEW g \in Fresh, Makes(g)
    PROVE  ChecksFirst /\ MaterialStep
  <1>1. ChecksFirst
    BY DEF ChecksFirst, Makes, GoalsInv, UncheckedRuns
  <1>2. \A h \in Goals \ Free : goal[h].st = "PAUSED_MATERIALS" => goal'[h] = goal[h]
    BY Zero DEF Fresh, Makes, GoalsInv, OthersRest
  <1> QED
    BY <1>1, <1>2 DEF MaterialStep

LEMMA OthersAreSafe ==
    ASSUME GoalsInv, \/ Verify /\ current # 0 /\ Returns
                     \/ Revalidate \/ Restart \/ (Start /\ ~restored)
    PROVE  ChecksFirst /\ MaterialStep
  <1>0. /\ goal \in [Goals -> GoalType] /\ waiting.goal \in 0..MaxGoals /\ current \in 0..MaxGoals
        /\ \A h \in Goals : goal[h].parent \in 0..MaxGoals
    BY DEF GoalsInv, TypeOK, GoalType
  <1>1. CASE Verify /\ current # 0 /\ Returns
    <2>1. task' = task /\ goal' = [goal EXCEPT ![current].st = "SUCCESS", ![goal[current].parent].st = "ACTIVE"]
      BY <1>1 DEF Verify, Returns
    <2>2. current \in Live /\ current \in Goals
      BY <1>0, <1>1, Zero DEF Live
    <2>3. goal[current].parent # current
      BY <1>1, <2>2, Zero DEF GoalsInv, HeldApart, Held
    <2>4. /\ goal'[current].st = "SUCCESS" /\ goal'[current].parent = goal[current].parent
          /\ \A h \in Goals \ {current, goal[current].parent} : goal'[h] = goal[h]
      BY <1>0, <2>1, <2>2, <2>3 DEF GoalType
    <2>5. MaterialStep
      BY <1>1, <2>2, <2>4 DEF MaterialStep, GoalsInv, OthersRest
    <2>6. ChecksFirst
      BY <2>1 DEF ChecksFirst, GoalsInv, UncheckedRuns
    <2> QED
      BY <2>5, <2>6
  <1>2. CASE Revalidate
    <2>1. task' = task /\ task = NoTask
      BY <1>2 DEF Revalidate, GoalsInv, RestoredOnce
    <2>2. \A h \in Goals \ {waiting.goal} : goal'[h] = goal[h]
      BY <1>0, <1>2 DEF Revalidate
    <2>3. waiting.goal # 0 => goal'[waiting.goal].st # "ACTIVE"
      BY <1>0, <1>2, Zero DEF Revalidate
    <2>4. \A h \in Goals : goal[h].st \in GoalOpen => waiting.goal = 0 \/ goal[h].parent # waiting.goal
      <3>1. \A h \in Live : waiting.goal \notin Held(h)
        BY DEF GoalsInv, HeldApart
      <3> QED
        BY <3>1 DEF Live, Held
    <2>5. MaterialStep
      BY <2>2, <2>3, <2>4, Zero DEF MaterialStep
    <2> QED
      BY <2>1, <2>5 DEF ChecksFirst, NoTask
  <1>3. CASE Restart
    <2>1. task' = NoTask
      BY <1>3 DEF Restart
    <2>2. \A h \in Goals : goal[h].st \in GoalOpen => goal'[h] = goal[h]
      BY <1>3 DEF Restart
    <2> QED
      BY <2>1, <2>2 DEF ChecksFirst, MaterialStep, NoTask, GoalOpen
  <1>4. CASE Start /\ ~restored
    BY <1>4 DEF Start, ChecksFirst, MaterialStep, GoalsInv, RestoredOnce, NoTask
  <1> QED
    BY <1>1, <1>2, <1>3, <1>4

LEMMA EndsStays ==
    ASSUME GoalsInv, NEW s \in Endings \cup {"PAUSED"}, Ends(s), task.pc # "none"
    PROVE  Stays
  <1>0. /\ goal \in [Goals -> GoalType] /\ plan \in [Goals -> PlanType] /\ current \in 0..MaxGoals
        /\ task.plan # 0 /\ task.plan \in Goals /\ restored /\ ~waiting.on
    BY Zero DEF GoalsInv, TypeOK, GoalType, PlanType, OthersRest, RestoredOnce, NoTask
  <1>1. \/ goal' = goal
        \/ current # 0 /\ \E t \in GoalStatuses \ {"PAUSED_MATERIALS"} : goal' = [goal EXCEPT ![current].st = t]
    <2>1. CASE ~(current = 0 \/ ~Synced)
      <3>1. current \in Goals /\ goal[current].st \in GoalStatuses \ {"PAUSED_MATERIALS"}
        BY <1>0, <2>1, Zero DEF GoalType, GoalsInv, OthersRest
      <3>2. PICK st \in VerifiedAs(goal[current].st) :
              goal' = [goal EXCEPT ![current].st = IF s = "BLOCKED" /\ st = "ACTIVE" THEN "BLOCKED" ELSE st]
        BY <2>1 DEF Ends
      <3>3. (IF s = "BLOCKED" /\ st = "ACTIVE" THEN "BLOCKED" ELSE st) \in GoalStatuses \ {"PAUSED_MATERIALS"}
        BY <3>1, <3>2, Statuses DEF VerifiedAs
      <3> QED
        BY <2>1, <3>2, <3>3
    <2> QED
      BY <2>1 DEF Ends
  <1>2. /\ \A p \in Goals \ {task.plan} : plan'[p] = plan[p]
        /\ plan'[task.plan].st # "RUNNING"
    BY <1>0 DEF Ends, NoPlan, PlanType
  <1> QED
    BY <1>0, <1>1, <1>2 DEF Ends, Stays, NoTask, Rest

\* A step that leaves goals and plans alone.
LEMMA QuietStays ==
    ASSUME GoalsInv, UNCHANGED <<Books, waiting, unchecked, restored>>, task' = task,
           runner' = "think" => task.pc = "none",
           waiting.on => runner' \in {"off", "wait", "got"}, ~restored => runner' = "off"
    PROVE  Stays
  BY DEF Stays, Books, GoalsInv, OthersRest, UncheckedRuns, RestoredOnce

Others == \/ Verify /\ current # 0 /\ Returns
          \/ Revalidate \/ Restart \/ (Start /\ ~restored)

\* What is known of a step in any of the states the program reaches.
LEMMA Known ==
    ASSUME GoalsInv
    PROVE  /\ goal \in [Goals -> GoalType] /\ plan \in [Goals -> PlanType]
           /\ current \in 0..MaxGoals /\ active \in 0..MaxGoals /\ task.plan \in 0..MaxGoals
           /\ (current # 0 => current \in Goals /\ goal[current].st \in GoalStatuses \ {"PAUSED_MATERIALS"})
           /\ (task.pc # "none" => task.plan \in Goals /\ task.plan # 0 /\ restored /\ ~waiting.on)
           /\ (runner \notin {"off", "wait", "got"} => restored /\ ~waiting.on)
           /\ (runner # "off" => restored)
           /\ (runner = "think" => task = NoTask)
           /\ (task.pc = "none" => task.plan = 0 /\ task = NoTask)
           /\ (\A p \in Goals : plan[p].st = "RUNNING" => p = task.plan \/ p \in unchecked)
           /\ (waiting.on => task = NoTask) /\ (~restored => task = NoTask /\ runner = "off")
  BY Zero DEF GoalsInv, TypeOK, GoalType, PlanType, OthersRest, UncheckedRuns, RestoredOnce, NoTask

LEMMA RunnerStays ==
    ASSUME GoalsInv, Arrive \/ NotResynced \/ Process \/ Think \/ Idle \/ HandlerFails \/ Choose
    PROVE  Stays
  <1> USE Known
  <1>1. CASE Arrive \/ NotResynced \/ Idle
    BY <1>1, QuietStays DEF Arrive, NotResynced, Idle, Rest, Books
  <1>2. CASE Process \/ HandlerFails
    BY <1>2, QuietStays DEF Process, HandlerFails, Rest, Books
  <1>3. CASE Think
    BY <1>3, QuietStays DEF Think, Rest, Books
  <1>4. CASE Choose
    <2>1. restored /\ ~waiting.on /\ runner' = "wait"
          /\ UNCHANGED <<current, waiting, unchecked, restored>>
      BY <1>4 DEF Choose, Rest
    <2>2. CASE UNCHANGED <<task, goal, plan, active>>
      BY <2>1, <2>2 DEF Stays, GoalsInv, OthersRest, UncheckedRuns
    <2>3. CASE /\ task.pc = "none" /\ CanRun /\ goal' = [goal EXCEPT ![current].st = "ACTIVE"]
               /\ task' = [pc |-> "created", plan |-> active] /\ UNCHANGED <<plan, active>>
      <3>1. plan[active].st # "RUNNING"
        BY <2>3, Zero DEF CanRun, GoalsInv, UncheckedRuns
      <3> QED
        BY <2>1, <2>3, <3>1, Statuses, Zero DEF Stays, CanRun
    <2>4. CASE /\ task.pc = "none" /\ current # 0 /\ active = 0 /\ active' = current
               /\ plan' = [plan EXCEPT ![current] = GatherPlan]
               /\ task' = [pc |-> "created", plan |-> current] /\ UNCHANGED goal
      <3>1. \A p \in Goals : plan'[p].st = "RUNNING" => p = task'.plan \/ (p # task.plan /\ plan'[p] = plan[p])
        BY <2>4, Zero DEF GatherPlan
      <3>2. plan'[current].st # "RUNNING"
        BY <2>4 DEF GatherPlan
      <3> QED
        BY <2>1, <2>4, <3>1, <3>2 DEF Stays
    <2> QED
      BY <1>4, <2>2, <2>3, <2>4 DEF Choose
  <1> QED
    BY <1>1, <1>2, <1>3, <1>4

LEMMA VerifySorts ==
    ASSUME GoalsInv, Verify
    PROVE  Stays \/ (current # 0 /\ Returns)
  <1>1. /\ UNCHANGED <<mode, desired, net, task, Rest>> /\ runner' = "choose" /\ restored /\ ~waiting.on
    BY VerifyCases, Known DEF Verify
  <1>2. CASE UNCHANGED Books
    BY <1>1, <1>2, QuietStays DEF Rest
  <1>3. CASE current # 0 /\ Judges
    <2>1. PICK st \in VerifiedAs(goal[current].st) : goal' = [goal EXCEPT ![current].st = st]
      BY <1>3 DEF Judges
    <2>2. st \in GoalStatuses \ {"PAUSED_MATERIALS"}
      BY <1>3, Known, Statuses DEF VerifiedAs
    <2> QED
      BY <1>1, <1>3, <2>1, <2>2, Known DEF Stays, Judges, Rest, GoalsInv, OthersRest, UncheckedRuns
  <1> QED
    BY <1>2, <1>3, VerifyCases

LEMMA TaskStays ==
    ASSUME GoalsInv, Begin \/ Check \/ ActionEnds
    PROVE  Stays
  <1> USE Known
  <1>0. task.pc # "none" /\ task.plan # 0 /\ restored /\ ~waiting.on /\ runner # "think"
    BY DEF Begin, Check, ActionEnds, NoTask
  <1>1. CASE Begin
    <2>1. \A p \in Goals \ {task.plan} : plan'[p] = plan[p]
      BY <1>1 DEF Begin
    <2>2. task'.plan = task.plan /\ task'.pc = "check" /\ runner' = runner
          /\ UNCHANGED <<current, active, Rest>>
      BY <1>1 DEF Begin, GoalsInv, TypeOK
    <2>3. \/ goal' = goal
          \/ current # 0 /\ goal' = [goal EXCEPT ![current].st = "ACTIVE"]
      BY <1>1 DEF Begin
    <2> QED
      BY <1>0, <2>1, <2>2, <2>3, Statuses DEF Stays, Rest
  <1>2. CASE /\ task' \in {[task EXCEPT !.pc = "check"], [task EXCEPT !.pc = "acting"], [task EXCEPT !.pc = "adjust"]}
             /\ UNCHANGED <<mode, desired, net, runner, Books, Rest>>
    <2>1. task'.plan = task.plan /\ task'.pc \notin {"none", "created"}
      BY <1>2 DEF GoalsInv, TypeOK
    <2> QED
      BY <1>0, <1>2, <2>1 DEF Stays, Books, Rest
  <1>3. CASE \E s \in Endings \cup {"PAUSED"} : Ends(s)
    BY <1>0, <1>3, EndsStays
  <1>4. CASE /\ current # 0 /\ goal' = [goal EXCEPT ![current].st = "SUCCESS"]
             /\ plan' = [plan EXCEPT ![task.plan] = NoPlan]
             /\ active' = IF active = task.plan THEN 0 ELSE active
             /\ task' = NoTask
             /\ UNCHANGED <<mode, desired, net, runner, current, stack, Rest>>
    <2>1. /\ \A p \in Goals \ {task.plan} : plan'[p] = plan[p]
          /\ plan'[task.plan].st # "RUNNING"
      BY <1>0, <1>4 DEF NoPlan
    <2> QED
      BY <1>0, <1>4, <2>1, Statuses DEF Stays, Rest, NoTask
  <1> QED
    BY <1>1, <1>2, <1>3, <1>4 DEF Check, ActionEnds, Endings

LEMMA OutsideStays ==
    ASSUME GoalsInv, Pause \/ Stop \/ MaidDies \/ LinkDrops \/ LinkReturns \/ (Start /\ restored)
    PROVE  Stays
  <1> USE Known
  <1>1. CASE Pause \/ Stop
    <2>1. /\ \A p \in Goals \ {task.plan} : plan'[p] = plan[p]
          /\ \A p \in Goals : plan'[p].st = "RUNNING" => p # task.plan /\ plan'[p] = plan[p]
      <3>1. CASE task.pc \in {"acting", "adjust"}
        BY <1>1, <3>1 DEF Pause, Stop, CancelPlan, PlanType
      <3>2. CASE task.pc \notin {"acting", "adjust"}
        <4>1. plan' = plan
          BY <1>1, <3>2 DEF Pause, Stop, CancelPlan
        <4>2. task.pc \in {"none", "created"}
          BY <1>1, <3>2 DEF Pause, Stop, Parked, PlanParked
        <4>3. task.plan \in Goals => plan[task.plan].st # "RUNNING"
          BY <4>2, Zero DEF GoalsInv, UncheckedRuns
        <4> QED
          BY <4>1, <4>3
      <3> QED
        BY <3>1, <3>2
    <2>2. /\ task' = NoTask /\ UNCHANGED <<goal, current, active, restored, waiting, unchecked>>
          /\ runner' \in {runner, "off"}
      BY <1>1 DEF Pause, Stop, CancelPlan
    <2> QED
      BY <2>1, <2>2 DEF Stays, NoTask, GoalsInv, RestoredOnce
  <1>2. CASE MaidDies
    <2>1. /\ runner # "off" /\ runner' = runner /\ restored
          /\ goal' = IF current = 0 THEN goal ELSE [goal EXCEPT ![current].st = "FAILED"]
          /\ UNCHANGED <<task, plan, current, active, restored, waiting, unchecked>>
      BY <1>2 DEF MaidDies
    <2> QED
      BY <2>1, Statuses DEF Stays, GoalsInv, OthersRest, RestoredOnce, UncheckedRuns
  <1>3. CASE LinkDrops \/ LinkReturns
    <2>1. UNCHANGED <<Books, waiting, unchecked, restored, task, runner>>
      BY <1>3 DEF LinkDrops, LinkReturns, Rest
    <2> QED
      BY <2>1, QuietStays DEF GoalsInv, RestoredOnce, OthersRest
  <1>4. CASE Start /\ restored
    <2>1. /\ UNCHANGED <<Books, waiting, unchecked, restored, task>>
          /\ runner' = IF runner = "off" THEN "wait" ELSE runner
      BY <1>4 DEF Start, Books
    <2> QED
      BY <1>4, <2>1, QuietStays DEF GoalsInv, RestoredOnce, OthersRest
  <1> QED
    BY <1>1, <1>2, <1>3, <1>4

\* What SetGoal and Replace do to the goals there are.
LEMMA SetGoalMakes ==
    ASSUME GoalsInv, NEW g \in Fresh, SetGoal(g)
    PROVE  /\ current' = g /\ active' = g /\ goal'[g] = [st |-> "ACTIVE", parent |-> 0, resume |-> 0]
           /\ current # 0 => /\ goal'[current].st # "ACTIVE"
                             /\ goal'[current].parent = goal[current].parent
                             /\ goal'[current].resume = goal[current].resume
                             /\ goal'[current].st \in GoalOpen => goal[current].st \in GoalOpen
           /\ \A h \in Goals \ {g, current} :
                 \/ goal'[h] = goal[h]
                 \/ goal'[h] = NoGoal /\ h \in Free /\ goal[h].st \notin GoalOpen
  <1>1. g \in Goals /\ g # current /\ current \notin Free
    BY DEF Fresh, Free
  <1>2. /\ current' = g /\ active' = g
        /\ goal' = [h \in Goals |-> CASE h = g -> [NoGoal EXCEPT !.st = "ACTIVE"]
                                     [] h = current /\ Pauses -> [goal[h] EXCEPT !.st = "PAUSED"]
                                     [] OTHER -> Kept(h)]
    BY DEF SetGoal
  <1>3. goal'[g] = [st |-> "ACTIVE", parent |-> 0, resume |-> 0]
    BY <1>1, <1>2 DEF NoGoal
  <1>4. \A h \in Goals \ {g, current} : goal'[h] = Kept(h)
    BY <1>2
  <1>5. ASSUME current # 0
        PROVE  /\ goal'[current].st # "ACTIVE"
               /\ goal'[current].parent = goal[current].parent
               /\ goal'[current].resume = goal[current].resume
               /\ goal'[current].st \in GoalOpen => goal[current].st \in GoalOpen
    <2>1. current \in Goals /\ goal[current] \in GoalType
      BY <1>5, Known
    <2>2. CASE goal[current].st = "ACTIVE"
      <3>1. goal'[current] = [goal[current] EXCEPT !.st = "PAUSED"]
        BY <1>1, <1>2, <1>5, <2>1, <2>2 DEF Pauses
      <3> QED
        BY <2>1, <2>2, <3>1 DEF GoalType, GoalOpen
    <2>3. CASE goal[current].st # "ACTIVE"
      <3>1. goal'[current] = Kept(current)
        BY <1>1, <1>2, <2>1, <2>3 DEF Pauses
      <3>2. Kept(current) = goal[current]
        BY <1>1 DEF Kept
      <3> QED
        BY <2>3, <3>1, <3>2
    <2> QED
      BY <2>2, <2>3
  <1> QED
    BY <1>2, <1>3, <1>4, <1>5 DEF Kept

LEMMA ReplaceMakes ==
    ASSUME GoalsInv, NEW g \in Fresh, Replace(g)
    PROVE  /\ current' = g /\ active' = g /\ goal'[g] = [st |-> "ACTIVE", parent |-> 0, resume |-> 0]
           /\ current # 0 => /\ goal'[current].st = "ABORTED"
                             /\ goal'[current].parent = goal[current].parent
                             /\ goal'[current].resume = goal[current].resume
           /\ \A h \in Goals \ {g, current} :
                 \/ goal'[h] = goal[h]
                 \/ goal'[h] = NoGoal /\ h \in Free /\ goal[h].st \notin GoalOpen
  <1>1. g \in Goals /\ g # current
    BY DEF Fresh, Free
  <1>2. /\ current' = g /\ active' = g
        /\ goal' = [h \in Goals |-> CASE h = g -> [NoGoal EXCEPT !.st = "ACTIVE"]
                                     [] h = current -> [goal[h] EXCEPT !.st = "ABORTED"]
                                     [] OTHER -> Kept(h)]
    BY DEF Replace
  <1>3. goal'[g] = [st |-> "ACTIVE", parent |-> 0, resume |-> 0]
    BY <1>1, <1>2 DEF NoGoal
  <1>4. \A h \in Goals \ {g, current} : goal'[h] = Kept(h)
    BY <1>2
  <1>5. ASSUME current # 0 PROVE goal'[current] = [goal[current] EXCEPT !.st = "ABORTED"]
    BY <1>1, <1>2, <1>5, Known
  <1>6. current # 0 => goal[current] \in GoalType
    BY Known
  <1> QED
    BY <1>2, <1>3, <1>4, <1>5, <1>6 DEF Kept, GoalType

LEMMA DecidedSorts ==
    ASSUME GoalsInv, Decided
    PROVE  Stays \/ \E g \in Fresh : Makes(g)
  <1>0. /\ runner = "think" /\ runner' = "wait" /\ UNCHANGED <<restored, waiting>>
        /\ restored /\ ~waiting.on /\ task = NoTask /\ task.plan = 0
    BY Known DEF Decided, NoTask
  <1>1. CASE UNCHANGED <<Books, task, unchecked>>
    BY <1>0, <1>1, QuietStays
  <1>2. ASSUME NEW g \in Fresh, SetGoal(g), plan' = [plan EXCEPT ![g] = NewPlan], NewNumber(g),
               task' = [pc |-> "created", plan |-> g]
        PROVE  Makes(g)
    <2>1. g \in Goals /\ g # 0
      BY Zero, FreshIsFree
    <2>2. plan'[g].st # "RUNNING" /\ \A p \in Goals \ {g} : plan'[p] = plan[p]
      BY <1>2, <2>1, Known DEF NewPlan
    <2> QED
      BY <1>0, <1>2, <2>1, <2>2, SetGoalMakes DEF Makes, NewNumber
  <1> QED
    BY <1>1, <1>2 DEF Decided

LEMMA CreateGoalMakes ==
    ASSUME GoalsInv, CreateGoal
    PROVE  \E g \in Fresh : Makes(g)
  <1>1. PICK g \in Fresh : SetGoal(g) /\ plan' = [plan EXCEPT ![g] = NewPlan] /\ NewNumber(g)
    BY DEF CreateGoal
  <1>2. UNCHANGED <<runner, task, restored, waiting>>
    BY DEF CreateGoal
  <1>3. g \in Goals /\ g # 0 /\ g # task.plan
    BY Zero, FreshIsFree DEF Fresh, Free
  <1>4. plan'[g].st # "RUNNING" /\ \A p \in Goals \ {g} : plan'[p] = plan[p]
    BY <1>1, <1>3, Known DEF NewPlan
  <1>5. /\ task'.pc = "created" => plan'[task'.plan].st # "RUNNING"
        /\ task.pc = "none" <=> task.plan = 0
        /\ runner' = "think" => task.pc = "none"
        /\ waiting.on => task' = NoTask /\ runner' \in {"off", "wait", "got"}
        /\ ~restored => task' = NoTask /\ runner' = "off"
    BY <1>2, <1>3, <1>4, Known DEF GoalsInv, OthersRest, UncheckedRuns, RestoredOnce, NoTask
  <1>6. Makes(g)
    BY <1>1, <1>2, <1>3, <1>4, <1>5, SetGoalMakes DEF Makes, NewNumber
  <1> QED
    BY <1>6

LEMMA QueueMakes ==
    ASSUME GoalsInv, QueueBlueprint
    PROVE  \E g \in Fresh : Makes(g)
  <1>1. PICK g \in Fresh :
           /\ SetGoal(g) /\ NewNumber(g)
           /\ plan' = [p \in Goals |-> CASE p = g -> NewPlan
                                        [] p = task.plan /\ task.pc \in {"acting", "adjust"} ->
                                             [plan[p] EXCEPT !.st = "PAUSED"]
                                        [] OTHER -> plan[p]]
    BY DEF QueueBlueprint
  <1>2. UNCHANGED <<runner, restored, waiting>> /\ task' = NoTask
    BY DEF QueueBlueprint
  <1>3. g \in Goals /\ g # 0 /\ g # task.plan
    BY Zero, FreshIsFree DEF Fresh, Free
  <1>4. plan'[g].st # "RUNNING" /\ \A p \in Goals \ {g, task.plan} : plan'[p] = plan[p]
    BY <1>1, <1>3 DEF NewPlan
  <1>5. task.plan # 0 => plan'[task.plan].st # "RUNNING"
    <2>1. CASE task.pc \in {"acting", "adjust"}
      BY <1>1, <1>3, <2>1, Known DEF PlanType
    <2>2. CASE task.pc \notin {"acting", "adjust"}
      <3>1. task.pc \in {"none", "created"}
        BY <2>2 DEF QueueBlueprint, Parked, PlanParked
      <3>2. task.plan # 0 => task.plan \in Goals /\ plan[task.plan].st # "RUNNING"
        BY <3>1, Known DEF GoalsInv, UncheckedRuns
      <3> QED
        BY <1>1, <1>3, <2>2, <3>2
    <2> QED
      BY <2>1, <2>2
  <1>6. /\ waiting.on => runner' \in {"off", "wait", "got"}
        /\ ~restored => runner' = "off"
    BY <1>2 DEF GoalsInv, RestoredOnce
  <1>7. Makes(g)
    BY <1>1, <1>2, <1>3, <1>4, <1>5, <1>6, SetGoalMakes DEF Makes, NewNumber, NoTask
  <1> QED
    BY <1>7

LEMMA NeedsMaterialMakes ==
    ASSUME GoalsInv, NeedsMaterial
    PROVE  \E g \in Fresh : Makes(g)
  <1>1. PICK g \in Fresh :
            /\ CreateChild(g, "PAUSED_MATERIALS", task.plan) /\ NewNumber(g)
            /\ plan' = [plan EXCEPT ![task.plan].st = "PAUSED", ![g] = GatherPlan]
    BY DEF NeedsMaterial
  <1>2. UNCHANGED <<runner, restored, waiting>> /\ task' = NoTask /\ current # 0 /\ task.pc = "acting"
    BY DEF NeedsMaterial
  <1>3. /\ g \in Goals /\ g # 0 /\ g # task.plan /\ g # current /\ current \in Goals /\ task.plan \in Goals
        /\ restored /\ ~waiting.on /\ task.plan # 0 /\ runner' # "think"
    BY <1>2, Zero, Known, FreshIsFree DEF Fresh, Free, NoTask
  <1>4. /\ current' = g /\ active' = g
        /\ goal' = [goal EXCEPT ![current].st = "PAUSED_MATERIALS",
                                ![g] = [st |-> "ACTIVE", parent |-> current, resume |-> task.plan]]
    BY <1>1 DEF CreateChild
  <1>5. /\ goal'[g] = [st |-> "ACTIVE", parent |-> current, resume |-> task.plan]
        /\ goal'[current] = [goal[current] EXCEPT !.st = "PAUSED_MATERIALS"]
        /\ \A h \in Goals \ {g, current} : goal'[h] = goal[h]
    BY <1>3, <1>4, Known
  <1>6. /\ goal'[current].st = "PAUSED_MATERIALS"
        /\ goal'[current].parent = goal[current].parent /\ goal'[current].resume = goal[current].resume
    BY <1>3, <1>5, Known DEF GoalType
  <1>7. ChildOf(g)
    BY <1>2, <1>3, <1>5, <1>6 DEF ChildOf
  <1>8. /\ plan'[g].st # "RUNNING" /\ plan'[task.plan].st # "RUNNING"
        /\ \A p \in Goals \ {g, task.plan} : plan'[p] = plan[p]
    BY <1>1, <1>3, Known DEF GatherPlan, PlanType
  <1>9. Makes(g)
    <2>1. unchecked' = unchecked \ {g} /\ current' = g /\ active' = g /\ goal'[g].st = "ACTIVE"
      BY <1>1, <1>4, <1>5 DEF NewNumber
    <2>2. task'.plan = 0 /\ task'.pc = "none"
      BY <1>2 DEF NoTask
    <2>3. /\ goal'[current].st # "ACTIVE"
          /\ \A h \in Goals \ {g, current} : goal'[h] = goal[h]
      BY <1>5, <1>6
    <2> QED
      BY <1>2, <1>3, <1>6, <1>7, <1>8, <2>1, <2>2, <2>3 DEF Makes
  <1> QED
    BY <1>9

LEMMA AdjustedSorts ==
    ASSUME GoalsInv, Adjusted
    PROVE  Stays \/ \E g \in Fresh : Makes(g)
  <1>0. /\ UNCHANGED <<runner, restored, waiting>> /\ task.pc = "adjust" /\ restored /\ ~waiting.on
        /\ task.plan \in Goals /\ task.plan # 0 /\ runner # "think"
    BY Known DEF Adjusted, NoTask
  <1>1. CASE task' = [task EXCEPT !.pc = "check"] /\ UNCHANGED <<Books, unchecked>>
    <2>1. task'.plan = task.plan /\ task'.pc = "check"
      BY <1>1 DEF GoalsInv, TypeOK
    <2> QED
      BY <1>0, <1>1, <2>1, Known DEF Stays, Books
  <1>2. ASSUME task' = NoTask, NEW g \in Fresh, Replace(g), NewNumber(g),
               plan' = [plan EXCEPT ![task.plan] = NoPlan, ![g] = NewPlan]
        PROVE  Makes(g)
    <2>1. g \in Goals /\ g # 0 /\ g # task.plan
      BY Zero, FreshIsFree DEF Fresh, Free
    <2>2. /\ plan'[g].st # "RUNNING" /\ plan'[task.plan].st # "RUNNING"
          /\ \A p \in Goals \ {g, task.plan} : plan'[p] = plan[p]
      BY <1>0, <1>2, <2>1, Known DEF NewPlan, NoPlan
    <2>3. current # 0 => goal'[current].st \notin GoalOpen
      BY <1>2, ReplaceMakes DEF GoalOpen
    <2>4. task'.plan = 0 /\ task'.pc = "none" /\ unchecked' = unchecked \ {g}
      BY <1>2 DEF NoTask, NewNumber
    <2>5. /\ current' = g /\ active' = g
          /\ goal'[g].st = "ACTIVE" /\ goal'[g].parent = 0 /\ goal'[g].resume = 0
          /\ current # 0 => /\ goal'[current].parent = goal[current].parent
                            /\ goal'[current].resume = goal[current].resume
                            /\ goal'[current].st # "ACTIVE"
          /\ \A h \in Goals \ {g, current} :
                \/ goal'[h] = goal[h]
                \/ goal'[h] = NoGoal /\ h \in Free /\ goal[h].st \notin GoalOpen
      BY <1>2, ReplaceMakes
    <2> QED
      BY <1>0, <2>1, <2>2, <2>3, <2>4, <2>5 DEF Makes
  <1> QED
    BY <1>1, <1>2 DEF Adjusted

LEMMA Sorts ==
    ASSUME GoalsInv, Next
    PROVE  Stays \/ Others \/ \E g \in Fresh : Makes(g)
  <1>1. CASE Runner
    BY <1>1, RunnerStays, VerifySorts, DecidedSorts DEF Runner, Others
  <1>2. CASE Task
    BY <1>2, TaskStays, NeedsMaterialMakes, AdjustedSorts DEF Task
  <1>3. CASE User
    BY <1>3, OutsideStays, CreateGoalMakes, QueueMakes DEF User, Others
  <1>4. CASE Restart \/ MaidDies \/ LinkDrops \/ LinkReturns
    BY <1>4, OutsideStays DEF Others
  <1> QED
    BY <1>1, <1>2, <1>3, <1>4 DEF Next

-----------------------------------------------------------------------------
(* The theorems. *)

LEMMA StepIsSafe ==
    ASSUME GoalsInv, Next
    PROVE  GoalsInv' /\ ChecksFirst /\ MaterialStep
  <1>1. TypeOK'
    BY TypeKept DEF GoalsInv
  <1>2. CASE Stays
    BY <1>1, <1>2, StaysKeeps, StaysIsSafe DEF GoalsInv
  <1>3. ASSUME NEW g \in Fresh, Makes(g) PROVE GoalsInv' /\ ChecksFirst /\ MaterialStep
    BY <1>1, <1>3, MakesKeeps, MakesIsSafe DEF GoalsInv
  <1>4. CASE Others
    BY <1>1, <1>4, ReturnsKeeps, StartKeeps, RevalidateKeeps, RestartKeeps, OthersAreSafe
        DEF GoalsInv, Others
  <1> QED
    BY <1>2, <1>3, <1>4, Sorts

\* The goals, the plans and what was loaded of them fit together, whatever the
\* runtime does, the user asks for and a restart forgets.
THEOREM GoalsInvariant == Spec => []GoalsInv
  <1>1. Init => GoalsInv
    <2>1. SUFFICES ASSUME Init PROVE GoalsInv
      OBVIOUS
    <2>2. /\ goal = [g \in Goals |-> NoGoal] /\ plan = [g \in Goals |-> NoPlan] /\ current = 0
          /\ active = 0 /\ task.plan = 0 /\ task.pc = "none" /\ waiting = NotWaiting /\ unchecked = {}
          /\ waiting.on = FALSE /\ waiting.goal = 0 /\ waiting.plan = 0 /\ runner = "off" /\ task = NoTask
      BY <2>1 DEF Init, NoTask, NotWaiting
    <2>3. TypeOK
      <3>1. /\ goal \in [Goals -> GoalType] /\ plan \in [Goals -> PlanType]
            /\ task \in [pc : {"none", "created", "check", "acting", "adjust"}, plan : 0..MaxGoals]
            /\ waiting \in [on : BOOLEAN, goal : 0..MaxGoals, plan : 0..MaxGoals]
        BY <2>2, Constants
      <3>2. 0 \in 0..MaxEvents /\ 0 \in 0..MaxRestarts /\ 0 \in 0..MaxGoals
        BY GoalsAssumption
      <3> QED
        BY <2>1, <3>1, <3>2 DEF Init, TypeOK, Modes, GoalType, PlanType
    <2>4. Live = {} /\ 0 \notin Goals
      BY <2>2, Zero DEF Live, NoGoal, GoalOpen
    <2>5. HeldApart /\ OthersRest
      BY <2>2, <2>4 DEF HeldApart, OthersRest
    <2>6. UncheckedRuns /\ RestoredOnce
      BY <2>1, <2>2, <2>4 DEF Init, UncheckedRuns, RestoredOnce, NoPlan
    <2> QED
      BY <2>3, <2>5, <2>6 DEF GoalsInv
  <1>2. GoalsInv /\ [Next]_vars => GoalsInv'
    <2>1. ASSUME GoalsInv, UNCHANGED vars PROVE GoalsInv'
      <3>1. Stays
        <4>1. UNCHANGED <<Books, waiting, unchecked, restored>> /\ task' = task /\ runner' = runner
          BY <2>1 DEF vars, Books
        <4> QED
          BY <2>1, <4>1, QuietStays DEF GoalsInv, OthersRest, RestoredOnce
      <3>2. TypeOK'
        BY <2>1 DEF vars, GoalsInv, TypeOK
      <3> QED
        BY <2>1, <3>1, <3>2, StaysKeeps DEF GoalsInv
    <2> QED
      BY <2>1, StepIsSafe
  <1> QED
    BY <1>1, <1>2, PTL DEF Spec

\* A plan that ran when the process ended does not act before it has been held
\* against the state of the world (persist/recovery.py), after any number of restarts.
THEOREM SavedPlansWait == Spec => CheckedFirst
  <1>1. GoalsInv /\ [Next]_vars => [task'.pc = "acting" => task'.plan \notin unchecked]_vars
    BY StepIsSafe DEF ChecksFirst
  <1> QED
    BY <1>1, GoalsInvariant, PTL DEF Spec, CheckedFirst

\* A goal that waits for its material waits as long as the goal that gathers it is
\* open, and goes on when that one has succeeded (goal/manager.py).
THEOREM MaterialComesFirst == Spec => MaterialFirst
  <1>1. GoalsInv /\ [Next]_vars => [MaterialStep]_vars
    BY StepIsSafe
  <1>2. [][MaterialStep]_vars => MaterialFirst
    BY DEF MaterialFirst, MaterialStep
  <1> QED
    BY <1>1, <1>2, GoalsInvariant, PTL DEF Spec
=============================================================================
