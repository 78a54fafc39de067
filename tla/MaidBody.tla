------------------------------- MODULE MaidBody -------------------------------
(***************************************************************************)
(* The deterministic executor of the Bridge mod: action/ActionEngine.java   *)
(* with the life cycle of action/AbstractMaidAction.java and the actions    *)
(* under action/impl, and reflex/ReflexEngine.java.  Everything here runs   *)
(* on the server thread, and the controller composes several of these       *)
(* calls in one handler, so each method is an operator that maps the body   *)
(* (a record of all their fields) to the body it leaves:                    *)
(*                                                                          *)
(*   active    the id of the running action, or NoAction                    *)
(*   age       ticks since it started (saturating above Timeout)            *)
(*   lease     the arbiter's current lease                                  *)
(*   replay    replayResults, the insertion-ordered bounded result cache    *)
(*   reflex    ReflexEngine.state                                           *)
(*   reported  ActionEngine.reflexState, what snapshots tell the Agent      *)
(*   pending   the checkpoint of the running action in MaidAiSavedData      *)
(*                                                                          *)
(* and three history fields that no code reads:                             *)
(*   runs      how many actions were created for each request               *)
(*   forgotten requests whose cached result was evicted or lost             *)
(*   sent      every ACTION_RESULT handed to the transport                  *)
(***************************************************************************)
EXTENDS MotionArbiter, BoundedCache

CONSTANTS Requests,     \* request_id values the Agent may send
          Kind,         \* what each request asks for, a member of Kinds
          ReplayCap,    \* MAX_REPLAY_RESULTS
          Timeout,      \* timeout_ticks of an action
          ReflexId,     \* REFLEX_ID, the lease owner of the reflex engine
          Escapes       \* reflex states that take the body over

Kinds == {"task", "combat", "still", "observe", "stop", "malformed"}

\* Action ids: the n-th action object created for a request.
ActionIds == [req : Requests, run : Nat]

ASSUME BodyAssumption ==
    /\ Kind \in [Requests -> Kinds]
    /\ ReplayCap \in Nat \ {0}
    /\ Timeout \in Nat \ {0}
    /\ NoAction \notin ActionIds \cup {ReflexId}
    /\ ReflexId \notin ActionIds
    /\ "NONE" \notin Escapes /\ "IMMEDIATE_MELEE_DEFENSE" \notin Escapes

Statuses == {"SUCCESS", "FAILED", "CANCELLED", "PREEMPTED", "TIMEOUT", "INTERRUPTED"}

\* run = 0 marks a result no action stands behind: a refusal or an observation.
Results == [req : Requests, run : Nat, status : Statuses]

Result(id, status) == [req |-> id.req, run |-> id.run, status |-> status]
Unrun(r, status)   == [req |-> r, run |-> 0, status |-> status]

Caches == {q \in Seq(Results) : Len(q) <= ReplayCap}

ReflexStates == {"NONE", "IMMEDIATE_MELEE_DEFENSE"} \cup Escapes

Leases == [owner : ActionIds \cup {NoAction, ReflexId}, prio : {0, 50, 80, 100}]

Bodies == [active    : ActionIds \cup {NoAction},
           age       : 0 .. Timeout + 1,
           lease     : Leases,
           replay    : Caches,
           reflex    : ReflexStates,
           reported  : ReflexStates,
           pending   : ActionIds \cup {NoAction},
           runs      : [Requests -> Nat],
           forgotten : SUBSET Requests,
           sent      : SUBSET Results]

\* The fields of a freshly constructed controller and engine.
FreshBody ==
    [active |-> NoAction, age |-> 0, lease |-> NoLease, replay |-> << >>,
     reflex |-> "NONE", reported |-> "NONE", pending |-> NoAction,
     runs |-> [r \in Requests |-> 0], forgotten |-> {}, sent |-> {}]

Cached(b, r) == r \in Keys(b.replay)

------------------------------------------------------------------------------
(* sendResult with cache = true: LinkedHashMap.put, then drop the eldest.   *)

Put(q, res)     == PutIn(q, res, ReplayCap)
Evicted(q, res) == DroppedBy(q, res, ReplayCap)

\* Mutant: the result goes out without being remembered.
SendOnly(b, res) == [b EXCEPT !.sent = @ \cup {res}]

SendCached(b, res) ==
    [b EXCEPT !.replay    = Put(@, res),
              !.forgotten = @ \cup Evicted(b.replay, res),
              !.sent      = @ \cup {res}]

\* Mutant: the checkpoint of a finished action stays in the world data.
FinishKeepsCheckpoint(b, status) ==
    SendCached([b EXCEPT !.active = NoAction, !.age = 0], Result(b.active, status))

\* finishActive: the slot and the checkpoint are cleared before the result goes out.
FinishActive(b, status) ==
    SendCached([b EXCEPT !.active = NoAction, !.pending = NoAction, !.age = 0],
               Result(b.active, status))

\* Mutant: the cancelled action is reported but never finished.
CancelOnlyReports(b, status) ==
    IF b.active = NoAction
    THEN b
    ELSE SendCached([b EXCEPT !.lease = Released(@, b.active)], Result(b.active, status))

\* AbstractMaidAction.cancel runs onStop, which gives the lease back in every
\* action that takes one; then the engine finishes the action.
CancelActive(b, status) ==
    IF b.active = NoAction
    THEN b
    ELSE FinishActive([b EXCEPT !.lease = Released(@, b.active)], status)

\* ActionEngine.cancel: also stops whatever is navigating.
CancelAndStop(b) == [CancelActive(b, "CANCELLED") EXCEPT !.lease = NoLease]

\* MotionArbiter.acquire with the engine's motionPreempted as its listener.
AcquireMotion(b, id, prio) ==
    LET held == [b EXCEPT !.lease = Acquired(@, id, prio)]
    IN  IF Preempts(b.lease, id, prio) /\ b.lease.owner = b.active
        THEN CancelActive(held, "PREEMPTED")
        ELSE held

------------------------------------------------------------------------------
(* submit(): the branches of one ACTION_REQUEST for a bound maid.           *)

PriorityOf(r) == IF Kind[r] = "combat" THEN Priority.COMBAT ELSE Priority.TASK

\* How onStart may leave a new action.  REFUSED is a failed or already
\* satisfied precondition, found before the lease is asked for; the others
\* come after it.  A terminal onStart gives back the lease it took.
StartOutcomes == {"RUNNING", "REFUSED", "SATISFIED", "ENDED"}

NewId(b, r) == [req |-> r, run |-> b.runs[r] + 1]

StartStill(b, id, outcome) ==
    CASE outcome = "RUNNING"   -> [b EXCEPT !.pending = id]
      [] outcome = "SATISFIED" -> FinishActive(b, "SUCCESS")
      [] OTHER                 -> FinishActive(b, "FAILED")

StartMoving(b, id, outcome) ==
    IF outcome \in {"REFUSED", "SATISFIED"}
    THEN StartStill(b, id, outcome)
    ELSE IF ~Grants(b.lease, id, PriorityOf(id.req))
         THEN FinishActive(b, "FAILED")                        \* MOTION_BUSY
         ELSE LET held == AcquireMotion(b, id, PriorityOf(id.req))
              IN  IF outcome = "RUNNING"
                  THEN [held EXCEPT !.pending = id]
                  ELSE FinishActive([held EXCEPT !.lease = Released(@, id)], "FAILED")

\* create() and start() of a body action, and the checkpoint when it keeps running.
StartAction(b, r, outcome) ==
    LET id  == NewId(b, r)
        new == [b EXCEPT !.active = id, !.age = 0, !.runs[r] = @ + 1]
    IN  IF Kind[r] = "still"
        THEN StartStill(new, id, outcome)
        ELSE StartMoving(new, id, outcome)

\* cancel_action and stop: cancel what runs, force the navigation to stop, and
\* report a StopAction of its own.
StopRequest(b, r) == SendCached(CancelAndStop(b), Unrun(r, "SUCCESS"))

\* get_status, inspect_* and the like answer at once and never occupy the body.
Observe(b, r, ok) == SendCached(b, Unrun(r, IF ok THEN "SUCCESS" ELSE "FAILED"))

\* Mutant: only the running request is recognised as a duplicate.
IsRunningDuplicate(b, r) == b.active # NoAction /\ b.active.req = r

\* A duplicate of the running request is only acknowledged again, one of a
\* cached request gets the cached result again: neither changes the body.
IsDuplicate(b, r) == Cached(b, r) \/ (b.active # NoAction /\ b.active.req = r)

Submit(b, r, outcome) ==
    IF IsDuplicate(b, r) THEN b
    ELSE CASE Kind[r] = "observe" -> Observe(b, r, outcome = "SATISFIED")
           [] Kind[r] = "stop"    -> StopRequest(b, r)
           [] OTHER ->
                IF b.active # NoAction \/ Kind[r] = "malformed"
                THEN SendCached(b, Unrun(r, "FAILED"))         \* BUSY, INVALID_ACTION
                ELSE StartAction(b, r, outcome)

------------------------------------------------------------------------------
(* tick(): one server tick of the running action.                           *)

\* What onTick may do: go on, go on after giving the lease back (SmeltAction
\* next to its furnace), or end.  Many actions end without giving the lease
\* back: BreakBlockAction after BROKEN, PlaceBlockAction after PLACED,
\* HoldPositionAction after HELD and others call succeed() or fail() alone.
TickOutcomes == {"CONTINUE", "YIELD", "SUCCEED", "FAIL", "SUCCEED_HOLDING", "FAIL_HOLDING"}

Yields(outcome)   == outcome \in {"YIELD", "SUCCEED", "FAIL"}
Ends(outcome)     == outcome \notin {"CONTINUE", "YIELD"}
EndStatus(outcome) ==
    IF outcome \in {"SUCCEED", "SUCCEED_HOLDING"} THEN "SUCCESS" ELSE "FAILED"

\* Mutant: an action never times out.
TickWithoutTimeout(b, outcome) ==
    LET ticked == IF Yields(outcome) THEN [b EXCEPT !.lease = Released(@, b.active)] ELSE b
    IN  IF b.active = NoAction THEN b
        ELSE IF Ends(outcome) THEN FinishActive(ticked, EndStatus(outcome))
        ELSE ticked

TickAction(b, outcome) ==
    LET ticked == IF Yields(outcome) THEN [b EXCEPT !.lease = Released(@, b.active)] ELSE b
    IN  IF b.active = NoAction THEN b
        ELSE IF b.age > Timeout THEN CancelActive(b, "TIMEOUT")
        ELSE IF Ends(outcome) THEN FinishActive(ticked, EndStatus(outcome))
        ELSE ticked

\* The game tick advances for an unfinished action even where it is not ticked.
Aged(b) ==
    IF b.active = NoAction \/ b.age > Timeout THEN b ELSE [b EXCEPT !.age = @ + 1]

------------------------------------------------------------------------------
(* ReflexEngine.                                                            *)

\* ActionEngine.preempt
Preempt(b, next) == CancelActive([b EXCEPT !.reported = next], "PREEMPTED")

\* Mutant: an escape acquires the navigation and leaves the engine alone.
TakeOverNavigation(b, next) ==
    AcquireMotion([b EXCEPT !.reflex = next, !.reported = next], ReflexId, Priority.EMERGENCY_REFLEX)

TakeOver(b, next) ==
    LET warned == IF b.reflex = next THEN b
                  ELSE [Preempt(b, next) EXCEPT !.reflex = next]
    IN  AcquireMotion(warned, ReflexId, Priority.EMERGENCY_REFLEX)

ReflexStop(b) ==
    [b EXCEPT !.lease = Released(@, ReflexId), !.reflex = "NONE", !.reported = "NONE"]

\* tick(): danger is what the maid's surroundings ask for in this tick.
ReflexTick(b, danger) ==
    CASE danger \in Escapes -> TakeOver(b, danger)
      [] danger = "IMMEDIATE_MELEE_DEFENSE" -> [b EXCEPT !.reflex = danger]
      [] OTHER -> IF b.reflex = "NONE" THEN b ELSE ReflexStop(b)
==============================================================================
