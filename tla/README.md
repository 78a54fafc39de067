# Maid AI: verification project

TLA+ models of the Maid AI system (a Minecraft companion whose body is driven by
a Forge mod and whose decisions come from a Python agent), model-checked with
TLC and, where the prover reaches, proved with TLAPS: the executor of the mod,
the link between mod and agent, the runtime of the agent with its plans, goals
and buildings, and the research cycles it runs beside them.

## The system

| part | source | state it keeps | what it does | what is hard |
|---|---|---|---|---|
| **Bridge mod** | `maid-ai-bridge/` (Java, Forge) | one running action, a motion lease, a cache of 512 results, a checkpoint of the running action in the world data, the binding of a maid, a WebSocket client | runs one action request at a time on the server thread, 20 ticks a second; reflexes take the body away from it; commands and messages bind, unbind, stop | the socket changes on other threads; the maid may unload or die; the server stops, restarts or crashes; requests arrive twice |
| **Gateway** | `agent-core/.../transport/ws_server.py`, `actions/client.py` | the one connection, its HELLO, the latest snapshot, futures of pending requests, a cache of 512 results, an event queue | the Agent's end of the WebSocket | asyncio interleavings at every await, timeouts, cancelled callers, a second connection |
| **Runtime** | `brain/`, `goal/`, `persist/recovery.py`, `building/` | mode, current goal, active plan, step states, checkpoints in SQLite | turns goals into plans, plans into action requests; retries; resumes after a restart | pausing in mid-action, goals that replace one another while a plan runs, lost results |
| **R&D** | `rnd/`, `tokens/` | cycle rows in SQLite, result files, a file lock, a token ledger | every five game days a coding harness may work on the project within a token budget | two processes, crashes between a file and its row, cancelling, budget races |
| **Control centre, harness, driver** | `control-center/`, `rnd-runner/`, `dsh-integration/` | a child process, a workspace | a desktop UI that starts and stops the Agent; external coding processes | shutdown against kill |

The Bridge connects to the gateway. It sends `HELLO`, snapshots, events and
`ACTION_RESULT`s; the gateway sends `ACTION_REQUEST`s, bind and unbind,
`SAFE_IDLE` and resynchronisation. A request is identified by a `request_id`
that the runtime derives from plan, step and attempt; both ends cache results
under it. The runtime calls the gateway with `await`; the R&D service runs as a
task of the same event loop and shares only the database with the rest.

### Components and what makes them correct

- *Motion arbiter, action engine, reflexes*: one action owns the body; an
  emergency takes it over at once; a duplicate is answered and never executed;
  every action gets exactly one verdict; the checkpoint names the running action.
- *Maid controller, socket client, saved data*: nothing of an old connection or
  an old maid goes on under a new one; an interrupted action is reported.
- *Gateway*: every caller gets its result, an error or a timeout; no state of an
  old connection is taken for the new one's.
- *Runtime, goals, recovery, building*: a step whose effect is unknown is not
  blindly repeated; a paused goal is resumed; old plans do not act for new goals.
- *R&D*: at most one cycle is owned by one process at a time; a cycle that ended
  never runs again; the token budget is exceeded only by what is out of its hands.

## Modules

| module | models |
|---|---|
| `MotionArbiter` | `controller/MotionArbiter.java`, `MotionPriority`, `MotionLease`: pure operators on a lease |
| `MaidBody` | `action/ActionEngine.java`, `AbstractMaidAction`, how the actions under `action/impl` begin and end, `reflex/ReflexEngine.java`: each method maps the record `body` to the record it leaves |
| `MaidController` | `controller/MaidAiController.java` with `transport/MaidWsClient.java`, `persist/MaidAiSavedData.java`, commands and the server's life cycle: the state machine |
| `ActionContract` | the abstract specification: what the Bridge promises about request ids |
| `BoundedCache` | the result cache both ends keep: `ActionEngine.replayResults` and `BridgeGateway._action_cache` |
| `AgentGateway` | `transport/ws_server.py`: callers of `request_action`, their futures, the result cache, HELLO, snapshots and the bound maid, over connections that come and go |
| `BridgeSockets` | `transport/MaidWsClient.java` against `BridgeGateway._handler`: which client object holds which connection, and which one the gateway serves |
| `PlanSteps` | `brain/autonomous_loop.py` from `_execute_plan` to `_execute_action_step`, `persist/recovery.py` for steps: one plan, its nodes, retries, loops, request ids |
| `RuntimeGoals` | `brain/autonomous_loop.py` (`start`, `pause`, `stop`, `_run`, `_on_snapshot`, `submit_user_goal`), `goal/manager.py`, recovery and the store's queries: modes, goals, parents and children, which plan runs |
| `BuildingDsl` | `building/dsl.py`, `building/planner.py`: the primitives, the integer line, conflicts, rotation |
| `Building` | `building/executor.py` with the Bridge's `BuildChunkAction`: segments, checkpoint, decorations |
| `RndCycle` | `rnd/trigger.py`, the life of a cycle in `rnd/service.py`, `rnd/locks.py`: creation, lock, claim, suspension, ending, recovery, over several processes |
| `RndPipeline` | what a RUNNING cycle does: `_run_claimed`, `_run_coding_harness_claimed`, thresholds and reviews, outcomes |
| `RndValidator` | `rnd-runner/.../harness.py` and `validate_workspace` of `rnd/harness.py`: the process with the last word on a workspace |
| `RndDelivery` | composes `RndPipeline` and `RndValidator` with the driver's edits |
| `DshAdapter` | `rnd/dsh_adapter.py` and `dsh-integration/src/maidai-driver.ts`: the coding harness as a child process, its pipes and its ends |
| `RndBudget` | `tokens/budget_guard.py`, `rnd/api_budget_proxy.py`, the budgeted `complete` of the provider |
| `RndSession` | composes `DshAdapter` and `RndBudget` over several runs of a cycle |
| `MC...` | the constants of the runs; `MCBuilding` also checks the line algorithm by an ASSUME |
| `...Proofs` | the theorems: `MaidControllerProofs` (with the executor), `BridgeLinkProofs` (gateway and sockets), `PlanStepsProofs`, `RuntimeGoalsProofs`, `BuildingProofs`, `RndCycleProofs`, `RndDeliveryProofs` (with the pipeline), `RndSessionProofs` |

`MaidController` and `AgentGateway` are the two ends of the link, each with the
other as an environment that may send or lose anything; `BridgeSockets` is the
link itself. `PlanSteps` is the caller of the gateway: it keeps, per request id,
what gateway and body remember. `RuntimeGoals` has many plans and leaves out
what one does; `PlanSteps` has one plan and leaves out where it comes from. In
the same way `RndCycle` has the rows and the processes and leaves out the work,
which `RndDelivery` and `RndSession` take up from two sides: the decisions and
what is on disk, and the child process with its budget.

### How `MaidController` corresponds to the code

The server thread executes one tick of the controller as `BeginTick` (the
reconnect attempt), any number of handlers (`inbound.poll` in
`MaidWsClient.tick`), `DrainDone`, `ReadLink` (`isConnected()` into a local),
`SettleLink` (greeting a new connection, `safeIdle` on a lost one) and
`ServeMaid` (reflexes, then the action). `phase` says which of them is next.
`SocketOpens`, `ConnectFails` and `SocketCloses` are the callbacks of the HTTP
client's threads and may happen between any two steps. Between two ticks a maid
may unload, load or die (`MaidMoves`), an operator may use `/maidai`
(`Command...`) and the world may be saved. `Stop`, `Exit`, `Crash` and `Start`
are the life of the server: `Stop` followed by `Start` is a second world in the
same JVM, where the arbiter and the reflex engine of the static controller
survive and the engine does not.

`body` has the fields of `ActionEngine`, `MotionArbiter`, `ReflexEngine` and the
checkpoint; three fields (`runs`, `forgotten`, `sent`) and the variables
`orphan`, `host` and `missed` are history that no action reads. `missed` is what the
controller overlooked while the present action ran: `binding` (a bind or unbind that
could not find the maid), `maid` (she could not be found in the tick that read a lost
link), `handshake` (a lost link whose greeting came before a tick read the loss),
`connection` (a link that opened, or an action that came, before the controller read
that there is one) and `reconnect` (a client replaced by command).

What an action does to the world is abstracted to how it may start (refused,
already satisfied, running, ended with the lease given back), what a tick of it
may do (go on, give the lease back, end with or without giving it back) and its
priority. A malformed request, observations and the two stop requests are kinds
of their own. Messages that change nothing (lists, status) are left out, as are
heartbeat times: the heartbeat timeout is a `SocketCloses`.

`Environment` lists what the world may do in a run (unloading, death, reconnect
commands, handshakes in mid-tick, late messages, connections lost before they
are greeted, restarts, exits, crashes). No theorem assumes anything of it.

### How `AgentGateway` corresponds to the code

The gateway lives in one asyncio loop, so the code between two awaits is one
action. A call of `request_action` answers from the cache (`CallCached`), joins a
registered future (`CallJoins`), or registers one and sends (`CallSends`, `Sent`,
`SendFails`), and ends by the result, the failed future, the timeout or a
cancellation. `fut[c]` is the future that call `c` created, `on[c]` the one it
awaits. `Connect`, `OnHello`, `OnSnapshot`, `OnResult` and `Disconnect` are
`_handler` and the branches of `_on_message`; `FailWaiters` is `_fail_waiters`.
`TimeOut` needs no clock: a deadline may fire whenever the call still waits.
A request id has one caller at a time (`Free`): the runtime executes one plan and
`pause()` awaits the task it cancels. A connection may end before the Bridge has sent
the HELLO and the snapshot it queued for it, and then sends them over the next one.
`greeted` and the field `old` of the snapshot are history: which HELLOs a connection has
seen, its own or late ones, and for which connection a snapshot was queued.

`MayCancel` lets `pause()` cancel a call at any await.

### How `BridgeSockets` corresponds to the code

`Dial` is the first line of `MaidWsClient.tick` with `connect`; `DialSucceeds` and
`Land` are the two halves of its `whenComplete`, which runs on a thread of the
HTTP client (`connecting` is cleared first, `socket` assigned last);
`NearCloses` is `onClose` and `onError`; `Replace` is `reconnect()`, and a stop
followed by the start of the next world. `Handshake` is the first lines of
`_handler`, which refuse a second connection with code 1013, and `HandlerEnds`
its `finally`. A dial may last 3 s, the least time between two dials (the connect timeout
is 5 s), so it may be repeated before its socket lands, and `Replace` may come while one
is in flight. `raced` is history: the attempts that were under way when their client was
replaced or dialled again.

### How `PlanSteps` corresponds to the code

`pc` is where the coroutine of the plan is. A plan is a sequence of nodes: an action, an
IF with one branch, a loop (REPEAT, UNTIL, WHILE) with one action in it, PAUSE or ABORT.
`Enter` to `LoopRound` are `_execute_nodes` and `_execute_loop`, `StepBegins` to `Wake`
are `_execute_action_step`: the request id is (step, attempt) because the code takes a
uuid5 of plan, step and attempt. `bridge` is what gateway and body know of an id; an id
that has an answer is answered from it. `Pause`, `Resume`, `Restart` and `Update` are
the user and the process; `plan` is memory and `disk` the store, which is written where
the code writes it. Environment steps come in only where the coroutine is `Parked`.
Branch conditions and postconditions are Booleans of the environment. A review of the
strategy (`AskStrategy`) keeps the plan or replaces it.

### How `RuntimeGoals` corresponds to the code

`runner` is where `_run` is, `task` where the plan task is. `Arrive`, `Revalidate`,
`Process`, `Verify`, `Choose`, `Think` and `Decided` are the body of `_on_snapshot`
between its awaits; `Begin`, `Check`, `ActionEnds`, `NeedsMaterial` and `Adjusted` the
plan task as far as goals see it. A goal is its status, its parent and the plan to
resume after it; every goal has one plan at a time. `SetGoal`, `Replace`, `CreateChild`
and the endings are the methods of the goal manager and the store's updates they cause.
`Anytime` lets the user submit goals while plans run and models think. `Loaded` is the
order in which the store hands out the goal to take up (`store.py:305`): an active goal
before any other, then the one saved last. What another open goal goes back to is older
and is not saved again while that goal is open, so it is never the one that is loaded.

### How `Building` corresponds to the code

A document is compiled by the operators of `BuildingDsl` and refused on a conflict.
`Execute` is the start of `execute`, `Ask` chooses a segment from the last snapshot,
`Take` reads the answer and saves the checkpoint, `GoOn`, `SkipDecoration`,
`ReportMissing`, `ReportFailure` and `Complete` are the ways on. `Finds`, `Places`,
`Lacks`, `ChunkDone` and `ChunkFails` are the ticks of the action in the body. A
segment's request id is made of the build and the saved segment number, so only the
current one is kept. `Gone` is a lost answer, a cancellation or the death of the Agent;
`BridgeRestarts` that of the game.

### How `RndCycle` corresponds to the code

`row` is the table `rnd_cycles` with, per cycle, its result file and whether its input
was written; `lock` the file lock of the operating system, which dies with its process.
`stage` says what a process does: down, recovering (`main.py` before the runtime
starts), idle (up), stopping. `job` is the write it is in the middle of: a result file
and a row are written one after the other, and another process or a crash may come
between. `pending` are the days for which `_on_snapshot` will create a cycle;
`Preparation` is the creation with its input (`CreateFails`: its directory cannot be made,
and the row is FAILED at once), `RunTask` takes the lock and claims the
row, `EndWork`, `CloseTask`, `SuspendTask`, `FinalizeCut` and `BuryTask` are the ways a
task ends. `SaveProgress` is the saving of progress during the work, which also sets the
row RUNNING: while the row is protected this changes nothing, and it is there for the
world in which it is not.

### How the other research modules correspond

`RndPipeline`: `pc` is the next await or decision of a run. Work that is on disk (plan,
proposal, repair, workspace, session, completed phases, checkpoint, reviews, attempts)
survives `Suspend` and `Crash`; the next `Start` decides from it where to go on. `level`
is how many thresholds the spent budget has passed, which any model call may raise.
`Raise` is an exception at any await.

`RndValidator`: a file is the area it lies in. `area` says how each would fare if it
were built, `changed` what git status shows, `report` the file `runner_result.json`,
`astray` that a validator outlived the Agent that started it and may still write that
file (`StrayReports`).

`DshAdapter`: `inbox` and `outbox` are the pipes, `lock` is `_command_lock`, `want` the
request id the reader waits for. `Begin` to `PhaseEnds` drive a phase, `Cancel` to
`SuspendOver` are the shielded suspension with its half minute of patience, `Finally` to
`TerminateCloses` the end. A cancellation may hit every await: the phases (`Cancel`), the
wait for the suspension (`CancelSuspending`) and `terminate()` and its clean-up
(`CancelFinally`). The driver may answer, chatter, fail, hang or die at any point. An
answer is what `_wait_result` takes for one: a message with the awaited id, one with no
id at all, or the end of the pipe. `marked` is what `service.py:727` makes of it.
`finished`, `ailing`, `told` and `cut` are history.

`RndBudget`: each handler thread of the proxy asks (`Post`), is granted a cap computed
from the ledger under `_request_lock` (`Grant`), and ends with what is recorded for it,
more or less than granted (`Answered`), or with nothing (`Broken`): a failed call, a
search without usage, a call of a proxy that is closed. The thread records after its last
chunk was passed on, so the driver may have gone on, the phase ended and the director
been granted a review by then. The director's call (`DirectorAsks`) does not take the
lock, and ends the cycle if it finds the ledger over the budget (`Overrun`). `ProxyStops`
and `ProxyClosed` are the two halves of `close()`, which joins no handler.

## Runs

| run | world | checks |
|---|---|---|
| `core` | two maids, two reflexes, a task and a stop request over one cache slot; links come and go, worlds restart; two runs per request; maids are interchangeable (symmetry) | `TypeOK`; `ExecutedOnce`: a request runs again only if it was forgotten; `KeepsContract`: the controller implements `ActionContract` |
| `unruly` | one fight, two maids, one escape; death, unloading, reconnect commands, handshakes in mid-tick, late messages, links lost before they are greeted, restarts; symmetry of the maids | `NoOrphanRuns`: no action outlives its connection, unless the controller overlooked something while it ran (`missed`); `ActionStaysWithMaid`: it runs on the maid it was started for, unless a bind or unbind could not find her; `PendingIsActive`: the checkpoint names the running action; `EscapeTakesBody` |
| `restarts` | one task, a timeout of two ticks; unloading, restarts, exits, crashes between any two steps, handshakes in mid-tick, late messages, links lost before they are greeted; fairness | `OneVerdict`: only the notice of an interruption contradicts a result; `ActionEnds`; `InterruptedReported` |
| `gateway` | two calls of two requests, one cache slot; cancellation, timeouts, disconnections, greetings and snapshots of earlier connections; fairness | `WaitersAwake`: nobody waits for a future that nothing can resolve; `NoStaleState`: a snapshot of an earlier connection is seen only behind a HELLO of it, and makes nothing ready once the connection's own HELLO has come; `OwnersEnd`, `JoinersEnd` |
| `sockets` | two client objects, three connections, every disturbance at any time, during dials too; fairness | `NoZombie`: no open connection is left behind, but attempts that were raced; `Reconnects`: a link left alone comes up for good, unless such a leftover holds the gateway |
| `plan_steps` | four plans that hold every kind of node; one step unsafe to repeat, one the state can confirm; one retry, two rounds, two faults; fairness | `DoneMeansDone`; `LostNotReplayed`: a lost unsafe action is not asked for again after a restart; `DoneNotRepeated`: a step that was taken for done is asked for again only where an interrupt marked its node anew and a restart took the answer from the gateway; `PlanEnds` |
| `plan_repeat` | as `plan_steps` | the finding below (`OwnResult`) |
| `runtime_goals` | three goals remembered at once, two events of the user or the world, one restart; fairness | `CheckedFirst`: a saved plan acts only after it was checked against the world; `MaterialFirst`: a parent waits as long as the goal that gathers its material is open, and only the success of that goal makes it active again; `WorkGoesOn` |
| `building` | three small buildings (a decoration between required blocks, one below them, a wall with a step) and larger ones that are compiled only; stock of at most three, segments of two, two faults; fairness | `Claims`: what is saved as built stands; `CompleteMeans`; `ExecutionEnds`; `NeverStarves`: a decoration takes nothing a required block needs |
| `rnd_cycle` | two processes, two due days, crashes between any two writes; fairness | `OneRunner`, `OneActive`, `ResultAgrees`, `OutcomeKept`, `FoundIsEnded` |
| `rnd_pipeline` | both paths of a cycle, two targets, one area touched by the driver, one suspension or crash; fairness | `ReviewedOnce`: a threshold is reviewed once; `OutcomeEarned`; `DeliveredIsSound`: what is delivered passed the checks its brief asks for; `CycleEnds` |
| `rnd_session` | two runs of up to three commands, cancelled once or more at any await; two proxy threads and the director before a budget of 7, with requests of at most 4 and recorded usage of 4; fairness | `OwnAnswers`: no answer is taken for another's; `NoDriverLeft`: what a task and its finally leave of the driver; `BudgetKept`: the ledger exceeds the budget only by what answers took beyond their grants, and by one request if a thread and the director raced; `StopEnds` |

### Bounds, and why they are enough

- `MaxRuns` (one or two actions per request id) bounds the history counters of
  `MaidController`; a `Timeout` of one or two ticks lets an action be ended by every
  other cause before and in the same tick as its timeout. Requests interact only through
  the slot, the lease and the cache, so two requests with one cache slot reach the busy,
  duplicate, evicted and stopped cases; a third adds no new pair.
- `unruly`: two maids are the one an action was started for and another that is bound
  after her; one request is enough, because nothing of what is overlooked concerns a
  second. Each of the exceptions is reached: without any of them TLC finds a violation.
- `gateway`: two calls of one request meet over a future (one owns it, one joins it),
  since a request has one caller at a time; a result may arrive for any request, asked
  or not, so the second request evicts the first one's result without a third call.
- `sockets`: three connections are one that is served, one that is dialled and one whose
  end is not noticed yet; clients and connections are used again, so replacements are
  not bounded.
- `plan_steps`: two nodes put every kind next to an action, before or after it. One
  retry distinguishes the last attempt from an earlier one, two rounds the first from a
  later. Two faults are, for instance, a pause and a restart, or a lost connection and a
  preemption. Three were tried too and show nothing new; the theorems need no bound.
- `runtime_goals`: three goals are a parent, its child and one that replaces either;
  goals that nothing refers to are forgotten and their numbers used again. Two events,
  of which one may be a restart, put a restart before or after a replacement, a pause, a
  death, an error or a lost link. Two restarts, and `Anytime`, were tried too; the
  theorems lift the safety part to any number of goals, events and restarts.
- `building`: a decoration shares its item with required blocks above or beside it in
  one document and has an item of its own in another; segments of two split each, and a
  stock of three runs out within each. Two faults are a lost answer and a restart of
  either end, or two failures of one segment. The line algorithm is checked for all ends
  at distance four.
- `rnd_cycle`: what one process does to another takes two, what a day does to the one
  before it takes two days. Crashes and restarts are not bounded. The theorems below
  lift the safety part to any number of both.
- `rnd_pipeline`: one break at every await and write, in every state a run can be in, so
  every saved state a single run leaves is resumed from; two breaks are out of TLC's
  reach with the validator (1.65 million states with one).
- `rnd_session`: three commands and the suspension are enough for a given-up command, a
  later one and an answer of either in the pipe. Of the budget of 7 the first request is
  granted exactly what it is recorded with, 4, and the next one, beside a thread or the
  director, less than that.

### Fairness

- `MaidController`: the game loop. A server that is not stopped keeps ticking and each
  tick goes through all its steps, so `BeginTick` to `ServeMaid` are weakly fair;
  nothing is assumed of the network, the maid, the operator or of how an action goes.
  `ActionEnds` therefore has as premise that the maid stays served, and
  `InterruptedReported` that the link comes up again and again.
- `AgentGateway`: the event loop runs every ready callback and fires every deadline
  (`EventLoop`); nothing is assumed of the Bridge or the connection.
- `BridgeSockets`: the game ticks, callbacks run, a dial ends within its timeout, and
  the loop of the Agent starts and ends its handlers. `Reconnects` promises a link only
  if from some point on no dial fails, no link is lost, no heartbeat times out and no
  client is replaced.
- `PlanSteps`: the coroutine goes on (`Interpreter`), because each of its awaits has a
  deadline. Answers and the link are owed by nobody.
- `RuntimeGoals`: the two tasks go on, the Bridge comes back (`LinkReturns`), and a
  review falls due again and again: it depends on a timer, so `Think` is strongly fair.
- `Building`: the executor's coroutine goes on and the server ticks (`Chunk`).
- `RndCycle`: a process that is up goes on, and work ends, since every call of a model,
  the driver or a build has a timeout. A crash, a stop or a new start is owed by nobody.
- `RndPipeline`: every await has a timeout, and an interrupted cycle is recovered by the
  next start, which is `RndCycle`'s matter.
- `RndSession`: the coroutines run and their waits time out; the driver and the provider
  owe nothing, and the user may cancel again and again.

Deadlock is checked except where the modelled activity really stops: bounded plans,
goals, buildings and sessions that are over, and processes that are all down.

## What does not hold

### The finding

`plan_repeat` (`OwnResult`): the request id of a step is made of plan, step and attempt,
and `_reset_nodes` (`autonomous_loop.py:391`) sets the attempt of a loop's body back to
0 in every round. From the second round on the gateway and the Bridge answer the id from
their caches, so the step is marked DONE and the body does not act.
`agent-core/tests/test_03_minimal_acceptance.py:101` expects one call per round of a
loop of three; its stub counts calls without the caches.

### Limits of the passing properties

A name at the head of an entry is a definition of its module, and a constant names a
world reached by changing it; TLC shows the violation. The other entries say what the
models let happen, or what the code does beyond them. None of these contradicts a line of the documentation clearly
enough to be called a finding, and none may be forgotten.

Bridge and link:

- `IdleHoldsNothing` (`MaidController`): `BreakBlockAction` and others finish by
  `succeed()` alone. The lease of the finished action stays, and the next navigating
  task is refused with `MOTION_BUSY` until something forces a stop.
- `NoOrphanRuns` and `ActionStaysWithMaid` have exceptions, and each is something the
  code does. `safeIdle()` is called once, in the tick that reads the link as down, and does
  nothing if the maid cannot be found then, so her action runs on under the next
  connection (`maid`). A link that drops and returns between two readings, or whose
  message is handled before the tick reads that there is a link, is never read as lost
  (`connection`, `handshake`); a replaced client takes its action along (`reconnect`). An
  unbind skips cancelling when the maid cannot be found, so the engine still holds her
  action when another maid is bound (`binding`).
- A maid who dies with an action running leaves it and its lease in place: `find()`
  returns living maids only, so no tick resolves her any more.
- `NeverTwice` (`MaidController`): the replay cache dies with the engine, so a request
  repeated after a restart is executed a second time.
- `CallsEnd` (`AgentGateway`): a caller cancelled by `pause()` leaves its future
  registered, because `CancelledError` is no `Exception`. The next caller of the id
  joins that future without a timeout: while the link stays up and the result is not
  sent, the plan hangs. `JoinersEnd` says what is left of it.
- `NoStaleState` does not say that no old state is seen. The outbound queue of the Bridge
  outlives a connection, so a HELLO and a snapshot queued for one that ended at once are
  sent over the next one first, and `resync_ready` is true with the old state until the
  connection's own HELLO comes.
- `NoZombie` and `Reconnects` except the connections in `raced`. `/maidai reconnect` while
  a dial is in flight closes the client object, the dial completes, its callback stores
  the socket although the client is closed, and nobody ticks it: the gateway serves this
  connection and refuses all others. And a dial that took 3 s may be repeated between
  `connecting.set(false)` and `socket = ws`, and the refused second connection overwrites
  the served first one.

Runtime:

- `LostNotReplayed` is about restarts. Within one run a step that ended in
  TRANSPORT_ERROR is retried under a new request id, whether or not it may be replayed.
- `PlanEnds` says that a plan ends, not that it is finished. `pause()` keeps the attempt
  of the running step, so after `resume()` the same id is answered with the cached
  CANCELLED and the plan is ABORTED.
- An interrupt that is seen at the entry of a node marks it anew although it was DONE; a
  PAUSE node is met again by every resumption and so is never passed; the exit of
  `_execute_action_step` after its loop of tries is unreachable.
- With `Anytime`, a goal submitted while a plan runs replaces the goal, and the old
  plan's task goes on: its steps act under the new goal, and what it returns is applied
  to it. A goal that succeeded may be reopened by a late NO_MATERIAL.
- A material goal that fails leaves its parent PAUSED_MATERIALS for ever; the mode ERROR
  is left only by `start()`, which takes no lifecycle lock.
- `CompleteMeans` and `Claims` are about a world in which cells are only filled: a
  building that is demolished while it is built is reported BUILD_COMPLETE. The indices
  an answer reports are not validated, `build_id` ignores the content of the blueprint,
  a decoration given up is given up for all later executions, and any other failure is
  reported as NO_MATERIAL when an item is missing too.

Research:

- `OneRunner`, `OneActive`, `ResultAgrees` and `OutcomeKept` need `LateFinalizers`
  false: a finalizer that runs without the lock (`service.py:958`, a task cut before it
  claimed, or one whose exception is found later) writes over what a second process,
  started meanwhile, has done with the row.
- `SuspendedResumes` (`RndCycle`): cycles are recovered only at the start of `main.py`.
  Stopping and starting the runtime within one process leaves a suspended cycle
  suspended, and no other can be created, although the page of the control centre says
  it goes on.
- `ResumeGoesOn` (`RndPipeline`): a workspace or session that cannot be taken up again
  ends the cycle as FAILED. `RepairIsBuilt`: on the direct path the workspace exists
  already when the repair is to be built, so the second attempt always fails in its
  preparation.
- A verdict FAIL or CHECKPOINT_STOP is lost if the run is interrupted during validation;
  `force_closed` is lost if 95 per cent are crossed during FINALIZE and the Agent dies;
  a crash after the result and before the handoff leaves COMPLETED without one;
  WAITING_USER never publishes; a FAIL is ignored once 95 per cent are spent; a driver
  that is not available on resumption makes the plan be paid for again.
- `DeliveredIsSound` speaks of uncommitted work: the validator asks git status, the
  delivered diff is taken against the baseline, so what the driver commits is delivered
  unchecked. An area whose tests are gone counts as sound. The guard against an empty
  change never bites, because the service itself writes `.maidai-rnd/brief.json` after
  the baseline. The driver may write that file too. On the direct path nothing writes a
  brief, so this repository's own runner refuses (`RND_BRIEF_MISSING`), and
  `_apply_patch` is never called: a success there needs another runner.
- `DshAdapter`: the row says SUSPENDED when patience ends, while the
  driver may still work on its command until `terminate()` has its turn.
- `MarkedIsSaved` (`DshAdapter`): a cancelled cycle is marked `suspended`
  (`service.py:727`) when `suspend()` returns anything but None. `_wait_result` returns
  also for an error, which carries no request id and may be that of the command that was
  given up, and for a driver that exits; neither has saved a session, although
  `service.py:734` reports it as kept. `OwnAnswers` says what holds: without an error or a
  death of the driver the mark is true.
- A cancellation during the `finally` (`service.py:756-764`) is no `Exception`, so
  `suppress` lets it pass: `_close_streams` and `proxy.close()` are skipped or cut.
  `self.process` and the proxy stay; a driver that reads its `terminate` or the end of
  its stdin exits by itself, but one whose shutdown failed (`closing` is set by then)
  stays for ever. What the next cycle of the process meets is a proxy that belongs to
  another cycle, or a driver of another workspace: it FAILS at its start, and its own
  `finally` clears both. `NoDriverLeft` says what such a task may leave.
- A second cancellation while the suspension is awaited leaves the row RUNNING until
  `_cancel_rnd_tasks` suspends it (`StopSaves`), and the suspension goes on behind its
  shield.
- The ledger may go over the budget, by what `BudgetKept` says: usage is recorded as the
  provider reports it, or estimated from the bytes of a stream with its framing, and not
  held to the grant; the estimate of a search omits its `system` text; a straggler of the
  proxy records after the director was granted a review. Not in the ledger at all are the
  usage of a stream that broke, a search without usage, and what a handler records after
  its proxy was closed, which goes to the empty cycle id or, if the proxy serves again by
  then, to the next cycle; retries of a provider spend after one check. The overrun ends a
  cycle only where the director finds it (`RND_PROVIDER_OVERRAN_CAP`); the proxy's own
  calls are then merely refused.

## Proofs

Every safety property that a passing run checks is also a theorem, for every value of
the constants that satisfies the named ASSUMEs of the modules (each is evaluated by TLC
in a run). Only the theorems of `RndCycle` have a hypothesis of their own,
`~LateFinalizers`; *Limits* above says what happens without it. Each proof has an inductive
invariant; the conjuncts named below are the ones without which induction fails.

**`MaidControllerProofs`**, for any requests, maids, cache size, timeout and environment.
First lemmas about each operator of `MaidBody` (what it preserves), then the controller,
whose steps need only be matched with the operators they call.

- `Invariant`: `Spec => []IInv`: `ControllerTypes` and `Sound(body)`, which has
  `CheckpointOK`, `MemoryOK` (a running request has no cached result, and no request
  two), `RunsOK` (a request that ran and was not forgotten is running or cached),
  `VerdictsOK` (the verdicts on one run agree, and a running action has none yet) and
  `Disciplined`. From it follow `TypeCorrect`, `CheckpointNamesActive`
  (`PendingIsActive`), `OneMemoryPerRequest`, `IdempotentUntilForgotten`
  (`ExecutedOnce`), `VerdictsAgree` (`OneVerdict`) and, with what a tick does to the
  lease, `EscapesPrevail` (`EscapeTakesBody`). Without `RunsOK`, a state in which a
  request ran once and is neither running, cached nor forgotten would let it run again.
- `ContractKept` (`KeepsContract`): the controller implements `ActionContract`. `StepKinds`
  sorts the steps: a request is handled, a call ends the running action (`Ending`), the
  engine is new, or nothing the contract speaks of changes. `Serving` says what a
  handler may do to the memory; each kind is a step of the contract or a stutter.
- `ActionsStay` (`ActionStaysWithMaid`). `HostOK` adds that the bound maid is the host of
  a running action, and one of `Maids`, unless a binding was missed.
- `NoActionOrphaned` (`NoOrphanRuns`). `OrphanOK` says, unless a loss was missed, that a
  lost link of the running action is not up again and was up when the controller last
  read it, so that the next reading is a loss, and that once it is read the action runs no
  further than to the end of that reading, where `safeIdle` stops it. The four exceptions
  are no technicality: TLC finds an orphan for each of them.

**`BridgeLinkProofs`**, the gateway for any calls, requests, sessions, maids and cache
size, and the sockets for any clients and connections.

- `GatewayInvariant`, `GatewayTypes`; `NobodyForgotten` (`WaitersAwake`): a registered
  future is pending, of its own request and over an open connection, a call awaits
  another's future only if that one has begun, and a request has one caller at a time;
  without the last, the timeout of one caller could drop the future of another.
  `StateIsFresh` (`NoStaleState`): nothing has a session before a HELLO came over the
  connection, a snapshot of an earlier connection is behind a HELLO of that one, and once
  the connection's own HELLO has come the state is ready only by a snapshot after it
  (`Greeting`).
- `SocketsInvariant`, `OneServed` (types; `_ws` and the handlers agree);
  `NothingLeftOpen` (`NoZombie`): but for the raced ones only the current client has an
  attempt, only one (`OneAttempt`), and none while it is connected (`OneDial`).

**`PlanStepsProofs`**, for any plan, number of retries, rounds and faults.

- `PlanInvariant`; `DoneIsDone` (`DoneMeansDone`), `LostIsNotReplayed`
  (`LostNotReplayed`), `DoneIsNotRepeated` (`DoneNotRepeated`). The invariant says where
  the interpreter is (`AtNode`), that what lies behind it has ended (`BehindEnded`), that
  an unsafe action that was lost has blocked the plan in memory and on disk
  (`LostStops`), that the answer that is looked at is the remembered one
  (`AnswerIsKept`), and of a step taken for done that memory and store keep it so
  (`TakenStays`) and that its answer is known under the id it still has (`TakenKnown`).
  The steps are of four kinds: at a node, elsewhere, about the plan as a whole, and the
  restart, which takes the plan from the store.

**`RuntimeGoalsProofs`**, for any number of goals, events and restarts, with `Anytime` or not.

- `GoalsInvariant`; `SavedPlansWait` (`CheckedFirst`), `MaterialComesFirst`
  (`MaterialFirst`). What a goal goes back to rests and is held by no other (`HeldApart`),
  no goal but the current one is active together with the plan that is to run
  (`OthersRest`), a plan that ran when the process ended is neither current nor at work
  before it was checked (`UncheckedRuns`), and between the loading of a goal and its
  check nothing runs (`RestoredOnce`). Most steps change no more than the status of the
  current goal (`Stays`) or make a new one (`Makes`). An attempt at this proof showed
  that `MaterialFirst` fails if any open goal may be loaded after a restart: it holds
  because of the order of `store.py:305`, which is now `Loaded`.

**`BuildingProofs`**, for any documents, rotations, segment size, stock and faults.

- `ClaimsStand` (`Claims`), `CompleteBuilds` (`CompleteMeans`). `Claims` alone is not
  inductive: the executor believes the answer that is kept for it. `Honest` adds that
  the answer and the count of the action in the body name only cells that hold their block.
- `ReserveInvariant`; `BuildNeverStarves` (`NeverStarves`). For every item that nobody
  takes from the maid there is a set of decorations that contains all that may still be
  placed, and material for it beyond what the required blocks lack (`Covers`). An old
  snapshot is too old at most by what was placed since (`SnapshotOld`); the decorations
  chosen from it are the lowest ones, so those of two snapshots are nested (`FirstIs`).
  `BuildingAssumption` has what `dsl.py:11` and `planner.py` make of a document:
  quarter turns, and finitely many blocks with integer coordinates.

**`RndCycleProofs`**, for any number of processes and due days, with `~LateFinalizers`.

- `RunnersAlone` (`OneRunner`), `CyclesAlone` (`OneActive`), `ResultsAgree`
  (`ResultAgrees`), `OutcomesKept` (the action property `OutcomeKept`). A row and its
  result are written apart, so the invariant says what each half of a write finds:
  `HalfWritten` (between the two the row is as the first half found it), `JobTasks`
  (which task a write belongs to), `StagesKept` (what a process can be in the middle
  of), `LockHeld` (a task that runs holds the lock, and so does recovery),
  `PreparedAlone` (a cycle that is being prepared is known to its creator alone),
  `TaskRows` and `RowsKept`. The key lemma is `WritersApart`: two processes never write
  one row at once, because a writer has the lock, is alone, or writes a row nobody else
  has seen.

**`RndDeliveryProofs`**, for any thresholds, targets, areas, suspensions and crashes.

- `PipelineInvariant`; `ReviewsOnce` (`ReviewedOnce`: a threshold is in the saved
  checkpoint before the model is asked, `SavedFirst`), `OutcomesEarned`
  (`OutcomeEarned`: the phases are done in order, `PhasesInOrder`, the paths share only
  the checks, `PathsApart`, and a good result is written last, `GoodIsLast`).
- `DeliveryRunsPipeline`: `DeliverySpec => Spec`, so both hold of the composition.
- `DeliveryInvariant`; `DeliveriesAreSound` (`DeliveredIsSound`): a validator runs at the
  end only (`RunsAtEnd`), and at each of its steps what it has found so far is true of
  the workspace as it is now (`SeenSoFar`).

**`RndSessionProofs`**, for any number of phases, runs, proxy threads, events and tokens.

- `SessionInvariant`; `AnswersOwn` (`OwnAnswers`), `DriversLeave` (`NoDriverLeft`): what
  may lie in the two pipes (`PipesSound`: a completion in them is that of a completed
  command, and an error or an exit has been noted), what a mark rests on (`Meant`), who
  holds the lock at which await (`LockKept`), and what a task leaves at its end
  (`Leaving`: nothing, or a driver with a command in its inbox that ends it).
- `BudgetInvariant`; `BudgetHolds` (`BudgetKept`). With the grants under way the ledger
  stays within budget, excess and the cost of a race (`GrantsFit`, by `LimitFits`); of the
  proxy's threads only the holder of the lock is at the provider (`CallsApart`), and the
  director is there only between two phases (`ReviewHeld`).

Only model-checked: liveness (`ActionEnds`, `InterruptedReported`, `OwnersEnd`,
`JoinersEnd`, `Reconnects`, `FoundIsEnded`, `CycleEnds`, `StopEnds`, `PlanEnds`,
`WorkGoesOn`, `ExecutionEnds`), since fairness and ENABLED are outside the prover's
reach; and the line of `BuildingDsl`, a recursive function, whose straightness an ASSUME
of `MCBuilding` checks over bounded ends, since induction over data is outside it too.
The finding is a counterexample that TLC found.

## Plan

Done: the Bridge executor and controller with `ActionContract`; gateway and sockets; the
research cycle, its pipeline, validator, driver and budget; plans, goals and buildings;
a proof of every safety property that a run checks.

Left, in this order:

1. `ActionLink`: the gateway and `ActionContract` over a lossy channel, so that the
   knowledge `PlanSteps` keeps per request id becomes a refinement.
2. `EventPipeline`: the publisher's bounded buffer with the gateway's seen set and
   queue.
3. Control requests (`request_message`) of the gateway.

## Not modelled, and why

- World access (observation, inventory, crafting, smelting), the protocol's JSON codec,
  the capability graph, threats, memory and skills: pure functions of large inputs, or
  input and output without a protocol of their own. Where their results matter to a
  module they are nondeterministic inputs.
- The choice of plans by a language model, prompts, research pages and documents, HTTP
  providers and keys: the plan, the verdict or the answer is an input.
- The event publisher and the event queue: nothing but memory and statistics depends on
  a lost event. At 512 and 1000 events the oldest are dropped.
- The control API dispatches to operations that are modelled; the control centre is a
  UI. Its shutdown of the Agent, and `stop_agent`, which kills the process although a
  comment says it does not (`process_supervisor.py:219`), are the crashes of `RndCycle`
  and `RuntimeGoals`.
- The strategic review and the reflections of the runtime, which end in the same
  replacement of goal and plan as `Adjusted`.
- Individual actions under `action/impl` beyond how they start, yield and end.
