----------------------------- MODULE RndSession -----------------------------
(***************************************************************************)
(* The driver and its budget together, as rnd/service.py uses them: the proxy *)
(* is up from before the first command to after the last terminate(), the     *)
(* driver asks it for model calls while it works on a task, and between two   *)
(* phases the director may call the provider itself for a checkpoint review,  *)
(* while a thread of the proxy may still be about to record its last call.    *)
(* A run may be followed by another one of the same cycle after a restart.    *)
(***************************************************************************)
EXTENDS DshAdapter, RndBudget

CONSTANT MaxRuns    \* bound of the model: runs of the cycle

VARIABLE runs

vars == <<sessionVars, budgetVars, runs>>

TypeOK == SessionTypeOK /\ BudgetTypeOK /\ runs \in 1..MaxRuns

Init == SessionInit /\ BudgetInit /\ runs = 1

\* PHASE_PURPOSES of the phase of the n-th command.
Purpose(id) == CASE id = 1 -> "rnd_design" [] id = 2 -> "rnd_development" [] OTHER -> "rnd_finalize"

\* The task is inside the director's call.
Reviewing == call[Director].at = "sent"

\* What the adapter and the task do by themselves.
SessionStep ==
    /\ \/ Launched \/ LaunchFails \/ ReadOther \/ PhaseEnds
       \/ SuspendSends \/ SuspendAnswered \/ SuspendCloses \/ SuspendOver
       \/ Finally \/ Terminated \/ TerminateCloses
       \/ Conclude /\ ~Reviewing
    /\ UNCHANGED <<budgetVars, runs>>

DriverStep ==
    /\ DriverStarts \/ DriverTakes \/ DriverEvent \/ DriverEnds \/ DriverDies
    /\ UNCHANGED <<budgetVars, runs>>

\* The proxy is started before the first checkpoint is looked at.
Serve ==
    /\ task = "begin" /\ task' = "between"
    /\ ProxyStart
    /\ UNCHANGED <<driverVars, adapterVars, sus, handler, row, marked, told, cut, runs>>

BeginStep == Begin /\ ~Reviewing /\ SetPhase(Purpose(next)) /\ UNCHANGED runs

\* A cancelled review is a call that breaks.
CancelStep ==
    /\ Cancel
    /\ IF Reviewing THEN Broken(Director) ELSE UNCHANGED budgetVars
    /\ UNCHANGED runs

CancelAgain ==
    /\ CancelSuspending \/ CancelFinally
    /\ UNCHANGED <<budgetVars, runs>>

\* The end of the finally: close() of the proxy.
CloseBegins ==
    /\ task = "unserve" /\ ProxyStops
    /\ UNCHANGED <<sessionVars, runs>>

CloseEnds ==
    /\ task = "unserve" /\ ProxyClosed
    /\ task' = "over"
    /\ UNCHANGED <<driverVars, adapterVars, sus, handler, row, marked, told, cut, runs>>

\* A cancellation hits close() while it waits for the server.
CancelClose ==
    /\ task = "unserve" /\ server = "closing"
    /\ task' = "over"
    /\ UNCHANGED <<driverVars, adapterVars, sus, handler, row, marked, told, cut, budgetVars, runs>>

Request(s) == busy # 0 /\ Post(s) /\ UNCHANGED <<sessionVars, runs>>

Granted(s) == (Grant(s, purpose) \/ Grant(s, "rnd_research")) /\ UNCHANGED <<sessionVars, runs>>

Ends(s) == (Answered(s) \/ Broken(s)) /\ UNCHANGED <<sessionVars, runs>>

\* _apply_due_checkpoints, before and after each phase.
Review == task = "between" /\ DirectorAsks("rnd_design") /\ UNCHANGED <<sessionVars, runs>>

\* BudgetExceeded is not handled there: the cycle fails.
ReviewRefused ==
    /\ task = "between" /\ DirectorRefused("rnd_design")
    /\ Leave("ENDED")
    /\ UNCHANGED <<driverVars, adapterVars, sus, marked, told, cut, runs>>

\* The review is there, unless it is broken or the ledger is over the budget now.
ReviewEnds ==
    /\ Reviewing
    /\ \/ /\ Answered(Director)
          /\ Overrun' => Leave("ENDED")
          /\ ~Overrun' => UNCHANGED <<task, row, handler>>
       \/ /\ Broken(Director)
          /\ Leave("ENDED")
    /\ UNCHANGED <<driverVars, adapterVars, sus, marked, told, cut, runs>>

\* The process has ended, and the next one resumes the cycle: pipes, threads, lock
\* and driver are new.
Resume ==
    /\ task = "over" /\ row # "ENDED" /\ runs < MaxRuns
    /\ runs' = runs + 1
    /\ proc' = "none" /\ inbox' = <<>> /\ outbox' = <<>> /\ busy' = 0 /\ chat' = 0
    /\ next' = 1 /\ want' = 0 /\ lock' = "free"
    /\ task' = "begin" /\ sus' = "none" /\ handler' = TRUE /\ row' = "RUNNING"
    /\ marked' = FALSE /\ finished' = {} /\ ailing' = FALSE /\ told' = {} /\ cut' = FALSE
    /\ call' = [s \in Slots \cup {Director} |-> NoCall] /\ reqlock' = Free
    /\ server' = "off" /\ purpose' = "rnd_development"
    /\ UNCHANGED <<used, excess, raced>>

Next ==
    \/ SessionStep \/ DriverStep \/ Serve \/ BeginStep \/ CancelStep \/ CancelAgain
    \/ StopSaves /\ UNCHANGED <<budgetVars, runs>>
    \/ CloseBegins \/ CloseEnds \/ CancelClose
    \/ Review \/ ReviewRefused \/ ReviewEnds \/ Resume
    \/ \E s \in Slots : Request(s) \/ Granted(s) \/ Ends(s)

Spec == Init /\ [][Next]_vars

\* The coroutines run, and every wait has a timeout; the driver owes nothing.
FairSpec ==
    /\ Spec
    /\ WF_vars(SessionStep) /\ WF_vars(BeginStep) /\ WF_vars(CloseBegins) /\ WF_vars(CloseEnds)
    /\ WF_vars(SuspendSends /\ UNCHANGED <<budgetVars, runs>>)

=============================================================================
