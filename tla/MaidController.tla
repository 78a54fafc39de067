---------------------------- MODULE MaidController ----------------------------
(***************************************************************************)
(* The Bridge mod around its executor: controller/MaidAiController.java     *)
(* with the connection of transport/MaidWsClient.java, the world data of    *)
(* persist/MaidAiSavedData.java and the operator's commands.                *)
(*                                                                          *)
(* One server tick is BeginTick, any number of message handlers, DrainDone, *)
(* ReadLink, SettleLink and ServeMaid, in this order, on the server thread. *)
(* The socket changes on threads of the HTTP client, between any two of     *)
(* these steps.  The world (the maid dies or her chunk unloads, an operator *)
(* types a command, the world is saved) moves between two ticks.            *)
(***************************************************************************)
EXTENDS MaidBody

CONSTANTS Maids,        \* the maids of the world
          NoMaid,       \* the null reference
          MaxRuns,      \* bound: actions created per request id
          Environment   \* what the world and the network may do, see Events

\* unload            the bound maid's chunk may unload and load again
\* death             a maid may die
\* reconnect         the operator may type /maidai reconnect
\* fast_handshake    a connection may complete while the controller is in a tick
\* late_message      a message may arrive between the drain and isConnected()
\* short_link        a connection may be lost before the controller greeted it
\* restart, exit     the server may stop and start, in the same or a new JVM
\* crash             the process may die without stopping
Events == {"unload", "death", "reconnect", "fast_handshake", "late_message",
           "short_link", "restart", "exit", "crash"}

ASSUME ControllerAssumption ==
    /\ NoMaid \notin Maids
    /\ MaxRuns \in Nat \ {0}
    /\ Environment \subseteq Events

VARIABLES body,          \* ActionEngine, MotionArbiter and ReflexEngine
          bound,         \* boundMaid
          autonomy,      \* autonomyEnabled
          maid,          \* where each maid is
          phase,         \* what the server thread does next
          link,          \* MaidWsClient: socket and connecting
          justConnected, \* MaidWsClient.justConnected
          mail,          \* whether inbound may hold messages
          connected,     \* the local of tick(): isConnected() as read this tick
          prevConnected, \* previouslyConnected
          disk,          \* the world data as last written to disk
          interrupted,   \* interruptedAction
          orphan,        \* history: "lost" once the link the active action was
                         \*   requested over is gone, "stale" after the next ReadLink
          host,          \* history: the maid the active action was started on
          missed         \* history: what the controller missed while it ran, see
                         \*   Overlooked

linkVars  == <<link, justConnected, mail>>
ownerVars == <<bound, autonomy, disk, interrupted>>
vars == <<body, maid, phase, linkVars, connected, prevConnected, ownerVars, orphan, host, missed>>

\* binding      the binding moved and the bound maid could not be found to stop
\* maid         the link was lost and she could not be found to stop
\* connection   a connection the controller had not read as up was lost
\* handshake    another connection was up before the controller read the loss
\* reconnect    the operator replaced the client
Overlooked == {"binding", "maid", "connection", "handshake", "reconnect"}

Phases == {"off", "world", "drain", "polled", "settle", "serve"}

Disks == [bound : Maids \cup {NoMaid}, autonomy : BOOLEAN, pending : ActionIds \cup {NoAction}]

TypeOK ==
    /\ body \in Bodies
    /\ bound \in Maids \cup {NoMaid}
    /\ autonomy \in BOOLEAN
    /\ maid \in [Maids -> {"loaded", "unloaded", "dead"}]
    /\ phase \in Phases
    /\ link \in {"down", "connecting", "up"}
    /\ justConnected \in BOOLEAN /\ mail \in BOOLEAN
    /\ connected \in BOOLEAN /\ prevConnected \in BOOLEAN
    /\ disk \in Disks
    /\ interrupted \in ActionIds \cup {NoAction}
    /\ orphan \in {"no", "lost", "stale"}
    /\ host \in Maids \cup {NoMaid}
    /\ missed \subseteq Overlooked

\* MaidDiscoveryService.find sees loaded and living maids only.
Found(m)   == m \in Maids /\ maid[m] = "loaded"
Resolvable == Found(bound)

\* connected && autonomyEnabled for a maid that resolve() finds
Served == connected /\ autonomy /\ Resolvable

\* Every change of the body goes through here, to keep the history.
Become(b) ==
    /\ body'   = b
    /\ orphan' = CASE b.active = NoAction    -> "no"
                   [] b.active = body.active -> orphan
                   [] OTHER                  -> IF link = "up" THEN "no" ELSE "lost"
    /\ host'   = CASE b.active = NoAction    -> NoMaid
                   [] b.active = body.active -> host
                   [] OTHER                  -> bound

\* What the controller last read of the link
LastRead == IF phase = "settle" THEN connected ELSE prevConnected

\* The action that goes on under `what`, or one that starts over a link that is
\* gone already
Overlook(what) ==
    missed' = CASE body'.active = NoAction    -> {}
                [] body'.active = body.active -> missed \cup what
                [] OTHER -> {x \in {"connection"} : link # "up" /\ ~LastRead}

Init ==
    /\ body = FreshBody
    /\ bound = NoMaid /\ autonomy = FALSE
    /\ maid = [m \in Maids |-> "loaded"]
    /\ phase = "world"
    /\ link = "down" /\ justConnected = FALSE /\ mail = FALSE
    /\ connected = FALSE /\ prevConnected = FALSE
    /\ disk = [bound |-> NoMaid, autonomy |-> FALSE, pending |-> NoAction]
    /\ interrupted = NoAction
    /\ orphan = "no" /\ host = NoMaid /\ missed = {}

------------------------------------------------------------------------------
(* MaidWsClient                                                             *)

SocketOpens ==
    /\ link = "connecting"
    /\ phase = "world" \/ "fast_handshake" \in Environment
    /\ link' = "up" /\ justConnected' = TRUE /\ mail' = TRUE
    /\ missed' = missed \cup {x \in {"handshake"} : orphan = "lost"}
    /\ UNCHANGED <<body, maid, phase, connected, prevConnected, ownerVars, orphan, host>>

ConnectFails ==
    /\ link = "connecting"
    /\ link' = "down"
    /\ UNCHANGED <<body, maid, phase, justConnected, mail, connected, prevConnected,
                   ownerVars, orphan, host, missed>>

Orphaned == IF body.active # NoAction /\ orphan = "no" THEN "lost" ELSE orphan

\* onClose, onError, or the heartbeat timeout; queued messages stay queued.
SocketCloses ==
    /\ link = "up"
    /\ ~justConnected \/ "short_link" \in Environment
    /\ link' = "down"
    /\ orphan' = Orphaned
    /\ missed' = missed \cup {x \in {"connection"} : body.active # NoAction /\ ~LastRead}
    /\ UNCHANGED <<body, maid, phase, justConnected, mail, connected, prevConnected,
                   ownerVars, host>>

\* The head of tick(): a dropped link is dialled again, at most every 3 s.
BeginTick ==
    /\ phase = "world"
    /\ phase' = "drain"
    /\ \/ link = "down" /\ link' = "connecting"
       \/ UNCHANGED link
    /\ UNCHANGED <<body, maid, justConnected, mail, connected, prevConnected,
                   ownerVars, orphan, host, missed>>

DrainDone ==
    /\ phase = "drain"
    /\ phase' = "polled"
    /\ mail' = (link = "up")
    /\ UNCHANGED <<body, maid, link, justConnected, connected, prevConnected,
                   ownerVars, orphan, host, missed>>

------------------------------------------------------------------------------
(* handle(): the messages that change something                             *)

Handling == phase = "drain" /\ mail

Quiet == UNCHANGED <<maid, phase, linkVars, connected, prevConnected>>

\* MAID_NOT_BOUND or AUTONOMY_DISABLED, answered without the engine's cache
Refused(b, r) == [b EXCEPT !.sent = @ \cup {Unrun(r, "FAILED")}]

HandleActionRequest(r, outcome) ==
    /\ Handling
    /\ IsDuplicate(body, r) \/ body.runs[r] < MaxRuns
    /\ Become(IF Resolvable /\ autonomy THEN Submit(body, r, outcome) ELSE Refused(body, r))
    /\ Overlook({})
    /\ Quiet /\ UNCHANGED ownerVars

\* safeIdle(), from SAFE_IDLE, /maidai stop and the lost link
SafeIdle(b) == IF Resolvable THEN ReflexStop(CancelAndStop(b)) ELSE b

HandleSafeIdle ==
    /\ Handling
    /\ Become(SafeIdle(body))
    /\ Overlook({})
    /\ Quiet /\ UNCHANGED ownerVars

\* unbind() stops the maid it can find, and always forgets the binding.
Unbound(b) == [SafeIdle(b) EXCEPT !.pending = NoAction]

Unbind ==
    /\ Become(Unbound(body))
    /\ Overlook({x \in {"binding"} : ~Resolvable})
    /\ bound' = NoMaid /\ autonomy' = FALSE
    /\ UNCHANGED <<disk, interrupted>>

\* Mutant: a new maid is bound without unbinding the old one.
BindDirectly(m) ==
    /\ Found(m)
    /\ Become(body)
    /\ Overlook({})
    /\ bound' = m /\ autonomy' = TRUE
    /\ UNCHANGED <<disk, interrupted>>

\* bind() of a maid of the right owner; a wrong owner changes nothing.
Bind(m) ==
    /\ Found(m)
    /\ Become(IF bound \in {NoMaid, m} THEN body ELSE Unbound(body))
    /\ Overlook({x \in {"binding"} : bound \notin {NoMaid, m} /\ ~Resolvable})
    /\ bound' = m /\ autonomy' = TRUE
    /\ UNCHANGED <<disk, interrupted>>

HandleUnbind  == Handling /\ Unbind /\ Quiet
HandleBind(m) == Handling /\ Bind(m) /\ Quiet

------------------------------------------------------------------------------
(* the rest of tick()                                                       *)

ReadLink ==
    /\ phase = "polled"
    /\ phase' = "settle"
    /\ connected' = (link = "up")
    /\ mail' = (IF "late_message" \in Environment THEN mail ELSE link = "up")
    /\ orphan' = (IF orphan = "lost" THEN "stale" ELSE orphan)
    /\ UNCHANGED <<body, maid, link, justConnected, prevConnected, ownerVars, host, missed>>

\* Mutant: the interrupted action is dropped without a word.
Unannounced(b) == b

\* A new connection first hears of the action a restart interrupted; that
\* result bypasses the engine's cache.
Announced(b) ==
    IF justConnected /\ interrupted # NoAction
    THEN [b EXCEPT !.sent = @ \cup {Result(interrupted, "INTERRUPTED")}]
    ELSE b

\* Mutant: a lost link goes unnoticed.
SettleLinkBlindly ==
    /\ phase = "settle"
    /\ phase' = "serve"
    /\ Become(Announced(body))
    /\ Overlook({})
    /\ interrupted' = (IF justConnected THEN NoAction ELSE interrupted)
    /\ justConnected' = FALSE
    /\ prevConnected' = connected
    /\ UNCHANGED <<maid, link, mail, connected, bound, autonomy, disk>>

SettleLink ==
    /\ phase = "settle"
    /\ phase' = "serve"
    /\ Become(IF prevConnected /\ ~connected THEN SafeIdle(Announced(body)) ELSE Announced(body))
    /\ Overlook({x \in {"maid"} : prevConnected /\ ~connected /\ ~Resolvable})
    /\ interrupted' = (IF justConnected THEN NoAction ELSE interrupted)
    /\ justConnected' = FALSE
    /\ prevConnected' = connected
    /\ UNCHANGED <<maid, link, mail, connected, bound, autonomy, disk>>

\* The reflexes and the action of a maid that is served; a maid that is found
\* but not served is stopped.
Ticked(b, danger, outcome) == TickAction(ReflexTick(b, danger), outcome)

ServeMaid(danger, outcome) ==
    /\ phase = "serve"
    /\ phase' = "world"
    /\ Become(Aged(CASE Served               -> Ticked(body, danger, outcome)
                     [] Resolvable /\ ~Served -> [body EXCEPT !.lease = NoLease]
                     [] OTHER                -> body))
    /\ Overlook({})
    /\ UNCHANGED <<maid, linkVars, connected, prevConnected, ownerVars>>

\* The melee reflex may cost the maid her life (thorns); then, and only then,
\* does the engine see a dead maid and cancel the action as MAID_DEAD.
DieServing ==
    /\ phase = "serve" /\ Served /\ "death" \in Environment
    /\ phase' = "world"
    /\ maid' = [maid EXCEPT ![bound] = "dead"]
    /\ Become(CancelActive(ReflexTick(body, "IMMEDIATE_MELEE_DEFENSE"), "CANCELLED"))
    /\ Overlook({})
    /\ UNCHANGED <<linkVars, connected, prevConnected, ownerVars>>

------------------------------------------------------------------------------
(* between two ticks                                                        *)

MaidMoves(m, from, to) ==
    /\ phase = "world"
    /\ maid[m] \in from
    /\ maid' = [maid EXCEPT ![m] = to]
    /\ UNCHANGED <<body, phase, linkVars, connected, prevConnected, ownerVars, orphan, host, missed>>

Unload(m) == "unload" \in Environment /\ MaidMoves(m, {"loaded"}, "unloaded")
Load(m)   == MaidMoves(m, {"unloaded"}, "loaded")
Die(m)    == "death" \in Environment /\ MaidMoves(m, {"loaded"}, "dead")

CommandBind(m) == phase = "world" /\ Bind(m) /\ Quiet
CommandUnbind  == phase = "world" /\ Unbind /\ Quiet

CommandStop ==
    /\ phase = "world"
    /\ Become(SafeIdle(body))
    /\ Overlook({})
    /\ Quiet /\ UNCHANGED ownerVars

\* A new client replaces the old one, with its queues.
CommandReconnect ==
    /\ phase = "world" /\ "reconnect" \in Environment
    /\ link' = "down" /\ justConnected' = FALSE /\ mail' = FALSE
    /\ prevConnected' = FALSE
    /\ orphan' = Orphaned
    /\ missed' = missed \cup {x \in {"reconnect"} : body.active # NoAction}
    /\ UNCHANGED <<body, maid, phase, connected, ownerVars, host>>

Saved(b) == [bound |-> bound, autonomy |-> autonomy, pending |-> b.pending]

WorldSave ==
    /\ phase = "world"
    /\ disk' = Saved(body)
    /\ Quiet /\ UNCHANGED <<body, bound, autonomy, interrupted, orphan, host, missed>>

------------------------------------------------------------------------------
(* stopping, crashing and starting                                          *)

\* ServerStopping; the game then saves the world.
Stop ==
    /\ phase = "world" /\ "restart" \in Environment
    /\ phase' = "off"
    /\ Become(SafeIdle(body))
    /\ Overlook({})
    /\ disk' = Saved(SafeIdle(body))
    /\ link' = "down" /\ justConnected' = FALSE /\ mail' = FALSE
    /\ UNCHANGED <<maid, connected, prevConnected, bound, autonomy, interrupted>>

\* What survives a start() of the controller in the same JVM: the arbiter and
\* the reflex engine are fields of the static controller, the engine is new.
NewEngine(b) ==
    [b EXCEPT !.active = NoAction, !.age = 0, !.replay = << >>, !.reported = "NONE",
              !.pending = NoAction,
              !.forgotten = @ \cup Keys(b.replay) \cup {r \in Requests : b.active # NoAction /\ b.active.req = r}]

NewProcess(b) == [NewEngine(b) EXCEPT !.lease = NoLease, !.reflex = "NONE"]

\* The JVM goes away: after Stop, or at any moment when it crashes.
LoseProcess ==
    /\ phase' = "off"
    /\ Become(NewProcess(body))
    /\ Overlook({})
    /\ bound' = NoMaid /\ autonomy' = FALSE /\ interrupted' = NoAction
    /\ link' = "down" /\ justConnected' = FALSE /\ mail' = FALSE
    /\ connected' = FALSE /\ prevConnected' = FALSE
    /\ UNCHANGED <<maid, disk>>

Exit  == phase = "off" /\ "exit" \in Environment /\ LoseProcess
Crash == "crash" \in Environment /\ LoseProcess

\* start(): the binding comes back, the checkpoint becomes interruptedAction.
Start ==
    /\ phase = "off"
    /\ phase' = "world"
    /\ bound' = disk.bound /\ autonomy' = disk.autonomy
    /\ interrupted' = disk.pending
    /\ Become(NewEngine(body))
    /\ Overlook({})
    /\ UNCHANGED <<maid, linkVars, connected, prevConnected, disk>>

------------------------------------------------------------------------------
Handlers ==
    \/ \E r \in Requests, outcome \in StartOutcomes : HandleActionRequest(r, outcome)
    \/ HandleSafeIdle
    \/ HandleUnbind
    \/ \E m \in Maids : HandleBind(m)

Tick ==
    \/ BeginTick
    \/ DrainDone
    \/ ReadLink
    \/ SettleLink
    \/ \E danger \in ReflexStates, outcome \in TickOutcomes : ServeMaid(danger, outcome)
    \/ DieServing

Socket == SocketOpens \/ ConnectFails \/ SocketCloses

World ==
    \/ \E m \in Maids : Unload(m) \/ Load(m) \/ Die(m) \/ CommandBind(m)
    \/ CommandUnbind
    \/ CommandStop
    \/ CommandReconnect
    \/ WorldSave

Lifecycle == Stop \/ Exit \/ Crash \/ Start

Next == Handlers \/ Tick \/ Socket \/ World \/ Lifecycle

Spec == Init /\ [][Next]_vars

\* The game loop runs on: a server that is not stopped keeps ticking, and
\* each tick goes through all its steps.
GameLoop ==
    /\ WF_vars(BeginTick)
    /\ WF_vars(DrainDone)
    /\ WF_vars(ReadLink)
    /\ WF_vars(SettleLink)
    /\ WF_vars(\E danger \in ReflexStates, outcome \in TickOutcomes : ServeMaid(danger, outcome))

FairSpec == Spec /\ GameLoop
------------------------------------------------------------------------------
(* Properties                                                               *)

\* The checkpoint in the world data names the running action or none: no path
\* through submit, finish, unbind or start leaves the checkpoint of an action
\* that is over (MaidAiController.checkpointAction, clearActionCheckpoint).
PendingIsActive == body.pending \in {NoAction, body.active}

\* A request id is executed a second time only after its result left the
\* bounded replay cache or the engine that held it was replaced: duplicates
\* are answered, not executed (ActionEngine.submit).
ExecutedOnce == \A r \in Requests : body.runs[r] > 1 => r \in body.forgotten

\* The engine knows a request by its running action or by its cached result,
\* never by both, and never by two results.
OneMemory ==
    /\ body.active # NoAction => ~Cached(body, body.active.req)
    /\ \A i, j \in DOMAIN body.replay : body.replay[i].req = body.replay[j].req => i = j

\* Two ACTION_RESULTs for one action agree, whatever cancels, preempts, times
\* out or ends it; only the notice of an interruption by a restart may differ.
OneVerdict ==
    \A x, y \in body.sent :
        (x.req = y.req /\ x.run = y.run /\ x.run > 0) =>
            x.status = y.status \/ "INTERRUPTED" \in {x.status, y.status}

\* An escape that begins ends the action of the maid it takes over, and the
\* reflex engine owns the navigation when the tick is over (ReflexEngine.takeOver).
EscapeTakesBody ==
    [][ (phase = "serve" /\ phase' = "world" /\ Served /\ body'.reflex \in Escapes) =>
            /\ body'.lease.owner = ReflexId
            /\ body'.reflex # body.reflex => body'.active = NoAction ]_vars

\* An action whose connection to the Agent was lost does not run on under a
\* later connection: the tick at which the controller reads the loss stops it,
\* unless the maid cannot be found then, or the controller never reads this loss
\* (the safeIdle of tick() at a lost link).
NoOrphanRuns ==
    phase = "serve" /\ Served /\ body.active # NoAction /\ orphan = "stale" =>
        missed \cap {"maid", "connection", "handshake", "reconnect"} # {}

\* An action runs on the maid it was started for, through every unbind and bind
\* but one that came when she could not be found.
ActionStaysWithMaid ==
    phase = "serve" /\ Served /\ body.active # NoAction /\ "binding" \notin missed =>
        host = bound

\* When no action runs, no action holds the navigation.
IdleHoldsNothing == body.active = NoAction => body.lease.owner \in {NoAction, ReflexId}

\* No request is ever executed twice, whatever happens in between.
NeverTwice == \A r \in Requests : body.runs[r] <= 1

\* What the engine knows of a request: that it runs it, or the result it
\* remembers, or nothing.
Known == [r \in Requests |->
    IF body.active # NoAction /\ body.active.req = r THEN "running"
    ELSE IF Cached(body, r)
         THEN Lookup(body.replay, r).status
         ELSE "fresh"]

Contract == INSTANCE ActionContract WITH
    known <- Known, up <- phase # "off", Verdicts <- Statuses, Capacity <- ReplayCap

\* The executor behind the controller keeps the contract of ActionContract:
\* one request at a time, a remembered result never changes nor runs again,
\* and nothing is forgotten but to a full cache or a restart.
KeepsContract == Contract!Spec

Runs == [req : Requests, run : 1 .. MaxRuns]

\* While the maid stays served, every action ends: by its outcome, a
\* cancellation, a preemption or its timeout.
ActionEnds ==
    <>[](connected /\ autonomy /\ Resolvable) =>
        \A id \in Runs : [](body.active = id => <>(body.active # id))

\* An Agent that keeps connecting learns of the action a restart interrupted.
InterruptedReported ==
    []<>(link = "up") =>
        \A id \in Runs :
            interrupted = id ~> (phase = "off" \/ Result(id, "INTERRUPTED") \in body.sent)
==============================================================================
