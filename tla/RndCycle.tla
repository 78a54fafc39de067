------------------------------- MODULE RndCycle -------------------------------
(***************************************************************************)
(* The life of the research cycles: rnd/trigger.py creates one for a due     *)
(* game day, rnd/service.py claims, runs, suspends, ends and recovers it,    *)
(* rnd/locks.py is the file lock, and brain/autonomous_loop.py owns the task *)
(* that runs it.  A cycle is a row of SQLite and a directory with its input  *)
(* and its result file; both outlive the process.  Everything else dies with *)
(* it, the file lock included.                                                *)
(*                                                                          *)
(* One asyncio loop per process: what lies between two awaits is one step of  *)
(* it, but a result file and a row are written one after the other, so        *)
(* another process, or a crash, may come between the two (variable job).      *)
(* A day is the k-th due day; runtime_period_end_day grows with it, so a      *)
(* period is empty exactly if a later day has a row.                          *)
(***************************************************************************)
EXTENDS Naturals, FiniteSets, Sequences, SequencesExt

CONSTANTS Procs,          \* agent processes that share a database
          NoProc,         \* no process: a free lock, a row without owner_pid
          MaxDay,         \* bound of the model: due days of the game
          LateFinalizers  \* whether a second process may be up while one still
                          \*   has a finalizer to run without the lock

ASSUME RndAssumption == /\ NoProc \notin Procs
                        /\ MaxDay \in Nat \ {0}
                        /\ LateFinalizers \in BOOLEAN

Days == 1..MaxDay

VARIABLES row,      \* the rows of rnd_cycles, with their result file and input
          lock,     \* .rnd-cycle.lock
          today,    \* the last due day of the game
          stage,    \* what each process does
          on,       \* whether its runtime loop is alive
          pending,  \* _pending_rnd_days
          task,     \* the task of a cycle, if the process has one
          todo,     \* rows its recovery still has to look at
          found,    \* rows its recovery will resume
          job       \* the write of a result and a row it is in the middle of

diskVars == <<row, lock>>
procVars == <<stage, on, pending, task, todo, found, job>>
vars == <<diskVars, today, procVars>>

Active == {"CREATED", "RUNNING", "SUSPENDED"}
Final  == {"COMPLETED", "STAGE_COMPLETED", "FAILED", "WAITING_USER"}
Rows   == [status : {"NONE"} \cup Active \cup Final, owner : Procs \cup {NoProc},
           result : {"none", "SUSPENDED", "CANCELLED"} \cup Final, input : BOOLEAN]
Tasks  == {"none", "queued", "working", "cancelled", "closing", "leaving", "cut", "died"}
Kinds  == {"none", "prepare", "recover", "close", "finish", "suspend", "cut", "refuse", "died"}
NoJob  == [kind |-> "none", day |-> 0, status |-> "NONE"]

TypeOK ==
    /\ row \in [Days -> Rows]
    /\ lock \in Procs \cup {NoProc}
    /\ today \in 0..MaxDay
    /\ stage \in [Procs -> {"down", "recovering", "idle", "stopping"}]
    /\ on \in [Procs -> BOOLEAN]
    /\ pending \in [Procs -> Seq(Days)]
    /\ task \in [Procs -> [Days -> Tasks]]
    /\ todo \in [Procs -> SUBSET Days] /\ found \in [Procs -> SUBSET Days]
    /\ job \in [Procs -> [kind : Kinds, day : 0..MaxDay,
                          status : {"NONE"} \cup Active \cup Final]]

NoRow == [status |-> "NONE", owner |-> NoProc, result |-> "none", input |-> FALSE]

\* A row an earlier version left behind when it was closed in mid-cycle.
LegacyRow == [status |-> "WAITING_USER", owner |-> NoProc, result |-> "CANCELLED", input |-> TRUE]

Init ==
    /\ row \in {[d \in Days |-> NoRow],
                [d \in Days |-> IF d = 1 THEN LegacyRow ELSE NoRow]}
    /\ lock = NoProc
    /\ today = IF row[1] = NoRow THEN 0 ELSE 1
    /\ stage = [p \in Procs |-> "down"] /\ on = [p \in Procs |-> FALSE]
    /\ pending = [p \in Procs |-> <<>>]
    /\ task = [p \in Procs |-> [d \in Days |-> "none"]]
    /\ todo = [p \in Procs |-> {}] /\ found = [p \in Procs |-> {}]
    /\ job = [p \in Procs |-> NoJob]

-----------------------------------------------------------------------------
IsActive(d) == row[d].status \in Active

\* WAITING_USER rows are left alone, unless closing the software made them.
Unfinished(d) ==
    \/ IsActive(d)
    \/ row[d].status = "WAITING_USER" /\ row[d].result = "CANCELLED"

\* Mutant: a failed or waiting cycle counts as interrupted.
HasResult(d) == row[d].result \in {"COMPLETED", "STAGE_COMPLETED"}

\* _terminal_outcome of the result file.
HasOutcome(d) == row[d].result \in Final

Owned(p, d) == row[d].owner \in {NoProc, p}
Free(p)     == stage[p] \in {"idle", "stopping"} /\ job[p] = NoJob
Alone(p)    == \A q \in Procs \ {p} : stage[q] = "down"
\* Its next write of a row may come without the lock.
Finalizing(p) ==
    \/ stage[p] = "stopping" \/ job[p].kind \in {"prepare", "refuse"}
    \/ \E d \in Days : task[p][d] = "died"

Put(d, status, owner) == row' = [row EXCEPT ![d].status = status, ![d].owner = owner]
SetTask(p, d, t)      == task' = [task EXCEPT ![p][d] = t]
Job(p, kind, d, s)    == job' = [job EXCEPT ![p] = [kind |-> kind, day |-> d, status |-> s]]
EndJob(p)             == job' = [job EXCEPT ![p] = NoJob]

\* _write_result, the first half of every way to end or suspend a cycle.
Write(p, kind, d, s) ==
    /\ row' = [row EXCEPT ![d].result = s]
    /\ Job(p, kind, d, s)

-----------------------------------------------------------------------------
(* A process starts: main.run, then recover_rnd_cycles. *)

Boot(p) ==
    /\ stage[p] = "down"
    /\ LateFinalizers \/ \A q \in Procs : ~Finalizing(q)
    /\ stage' = [stage EXCEPT ![p] = "recovering"]
    /\ todo' = [todo EXCEPT ![p] = {d \in Days : Unfinished(d)}]
    /\ UNCHANGED <<diskVars, today, on, pending, task, found, job>>

\* Active rows come first, oldest first.
NextToRecover(p, d) ==
    /\ stage[p] = "recovering" /\ job[p] = NoJob /\ d \in todo[p]
    /\ \A e \in todo[p] : e < d => IsActive(d) /\ ~IsActive(e)
    /\ \A e \in todo[p] : e > d => IsActive(d) \/ ~IsActive(e)

RecoverSkip(p, d) ==
    /\ NextToRecover(p, d) /\ lock # NoProc
    /\ todo' = [todo EXCEPT ![p] = @ \ {d}]
    /\ UNCHANGED <<diskVars, today, stage, on, pending, task, found, job>>

\* Mutant: the lock is taken for granted.
RecoverReadUnlocked(p, d) ==
    /\ NextToRecover(p, d)
    /\ Job(p, "recover", d, row[d].status)
    /\ UNCHANGED <<diskVars, today, stage, on, pending, task, todo, found>>

\* The row is read again under the lock.
RecoverRead(p, d) ==
    /\ NextToRecover(p, d) /\ lock = NoProc
    /\ lock' = p
    /\ Job(p, "recover", d, row[d].status)
    /\ UNCHANGED <<row, today, stage, on, pending, task, todo, found>>

Recovered(p, d) ==
    /\ lock' = NoProc
    /\ todo' = [todo EXCEPT ![p] = @ \ {d}]
    /\ EndJob(p)

\* Then its result file; the row changes only if it is still as it was read.
\* A cycle without input is closed, by whether it left artefacts of a stage.
RecoverApply(p) ==
    LET d      == job[p].day
        seen   == job[p].status
        legacy == seen = "WAITING_USER" /\ row[d].result = "CANCELLED"
        other  == \E e \in Days \ {d} : IsActive(e)
    IN  /\ job[p].kind = "recover"
        /\ \/ /\ seen \notin Active /\ ~legacy
              /\ Recovered(p, d)
              /\ UNCHANGED <<row, found>>
           \/ /\ seen \in Active
              /\ HasOutcome(d)
              /\ Put(d, row[d].result, NoProc)
              /\ Recovered(p, d)
              /\ UNCHANGED found
           \/ /\ legacy \/ (seen \in Active /\ ~HasOutcome(d))
              /\ row[d].input
              /\ IF row[d].status = seen /\ ~(legacy /\ other)
                 THEN /\ Put(d, "CREATED", NoProc)
                      /\ found' = [found EXCEPT ![p] = @ \cup {d}]
                 ELSE UNCHANGED <<row, found>>
              /\ Recovered(p, d)
           \/ /\ seen \in Active /\ ~HasOutcome(d)
              /\ ~row[d].input
              /\ \E o \in {"FAILED", "STAGE_COMPLETED"} : Write(p, "close", d, o)
              /\ UNCHANGED <<lock, todo, found>>
        /\ UNCHANGED <<today, stage, on, pending, task>>

\* Mutant: the recovered cycles get no task.
RecoverDoneIdle(p) ==
    /\ stage[p] = "recovering" /\ todo[p] = {} /\ job[p] = NoJob
    /\ stage' = [stage EXCEPT ![p] = "idle"]
    /\ found' = [found EXCEPT ![p] = {}]
    /\ UNCHANGED <<diskVars, today, on, pending, task, todo, job>>

RecoverDone(p) ==
    /\ stage[p] = "recovering" /\ todo[p] = {} /\ job[p] = NoJob
    /\ stage' = [stage EXCEPT ![p] = "idle"]
    /\ task' = [task EXCEPT ![p] = [d \in Days |-> IF d \in found[p] THEN "queued" ELSE @[d]]]
    /\ found' = [found EXCEPT ![p] = {}]
    /\ UNCHANGED <<diskVars, today, on, pending, todo, job>>

-----------------------------------------------------------------------------
(* A due day: the snapshot handler of the runtime loop. *)

DayPasses ==
    /\ today < MaxDay
    /\ today' = today + 1
    /\ UNCHANGED <<diskVars, procVars>>

\* start() does not wait for a stop() in progress.
Start(p) ==
    /\ Free(p) /\ ~on[p]
    /\ on' = [on EXCEPT ![p] = TRUE]
    /\ UNCHANGED <<diskVars, today, stage, pending, task, todo, found, job>>

NoteDue(p) ==
    IF /\ today > 0 /\ ~Contains(pending[p], today)
       /\ \A d \in Days : d >= today => row[d].status = "NONE"
    THEN Append(pending[p], today) ELSE pending[p]

\* Mutant: only a cycle that runs keeps a new one out.
CreatableBeside(d) ==
    /\ \A e \in Days : row[e].status # "RUNNING"
    /\ \A e \in Days : e >= d => row[e].status = "NONE"

Creatable(d) ==
    /\ \A e \in Days : ~IsActive(e)
    /\ \A e \in Days : e >= d => row[e].status = "NONE"

\* The due day is queued; the first of the queue becomes a cycle if no task of
\* this process is alive.
OnSnapshot(p) ==
    LET queue == NoteDue(p)
        idle  == \A d \in Days : task[p][d] \in {"none", "cut", "died"}
        d     == Head(queue)
    IN  /\ on[p] /\ Free(p)
        /\ \/ /\ queue # pending[p] /\ (~idle \/ (~Creatable(d) /\ row[d].status = "NONE"))
              /\ pending' = [pending EXCEPT ![p] = queue]
              /\ UNCHANGED <<row, job>>
           \/ /\ queue # <<>> /\ idle /\ row[d].status # "NONE"
              /\ pending' = [pending EXCEPT ![p] = Tail(queue)]
              /\ UNCHANGED <<row, job>>
           \/ /\ queue # <<>> /\ idle /\ Creatable(d)
              /\ pending' = [pending EXCEPT ![p] = Tail(queue)]
              /\ Put(d, "CREATED", NoProc)
              /\ Job(p, "prepare", d, "CREATED")
        /\ UNCHANGED <<lock, today, stage, on, task, todo, found>>

\* The directory cannot be made: a second write, whatever the row says by now.
CreateFails(p) ==
    LET d == job[p].day
    IN  /\ job[p].kind = "prepare" /\ ~row[d].input
        /\ Put(d, "FAILED", row[d].owner)
        /\ EndJob(p)
        /\ UNCHANGED <<lock, today, stage, on, pending, task, todo, found>>

PrepareInput(p) ==
    /\ job[p].kind = "prepare" /\ ~row[job[p].day].input
    /\ row' = [row EXCEPT ![job[p].day].input = TRUE]
    /\ UNCHANGED <<lock, today, procVars>>

QueueTask(p) ==
    /\ job[p].kind = "prepare" /\ row[job[p].day].input
    /\ SetTask(p, job[p].day, "queued")
    /\ EndJob(p)
    /\ UNCHANGED <<diskVars, today, stage, on, pending, todo, found>>

\* fail_preparation, whoever owns the row.
PrepareFails(p) ==
    /\ job[p].kind = "prepare"
    /\ IF IsActive(job[p].day)
       THEN Write(p, "refuse", job[p].day, "FAILED")
       ELSE EndJob(p) /\ UNCHANGED row
    /\ UNCHANGED <<lock, today, stage, on, pending, task, todo, found>>

-----------------------------------------------------------------------------
(* The task of a cycle: RndService.run and what it awaits. *)

\* The lock, then the claim: neither waits, so no other step of the process
\* comes between them, and those of others do not touch the lock they find taken.
RunTask(p, d) ==
    /\ Free(p) /\ task[p][d] = "queued"
    /\ IF lock = NoProc /\ row[d].status = "CREATED"
       THEN lock' = p /\ Put(d, "RUNNING", p) /\ SetTask(p, d, "working")
       ELSE SetTask(p, d, "none") /\ UNCHANGED diskVars
    /\ UNCHANGED <<today, stage, on, pending, todo, found, job>>

\* Every save of progress writes RUNNING, whatever the row says.
SaveProgress(p, d) ==
    /\ Free(p) /\ task[p][d] \in {"working", "cancelled"}
    /\ Put(d, "RUNNING", row[d].owner)
    /\ UNCHANGED <<lock, today, procVars>>

EndWork(p, d, outcome) ==
    /\ Free(p) /\ task[p][d] = "working"
    /\ Write(p, "finish", d, outcome)
    /\ UNCHANGED <<lock, today, stage, on, pending, task, todo, found>>

\* Mutant: the result that was written stays.
HandoffFailsQuietly(p) ==
    /\ job[p].kind = "finish" /\ job[p].status # "FAILED"
    /\ Job(p, "finish", job[p].day, "FAILED")
    /\ UNCHANGED <<diskVars, today, stage, on, pending, task, todo, found>>

\* Publishing the handoff fails after the result was written.
HandoffFails(p) ==
    /\ job[p].kind = "finish" /\ job[p].status # "FAILED"
    /\ Write(p, "finish", job[p].day, "FAILED")
    /\ UNCHANGED <<lock, today, stage, on, pending, task, todo, found>>

\* An error of the handler that should have closed the cycle (a database that
\* is locked, a disk that is full) ends the task and frees the lock.
TaskDies(p, d) ==
    /\ task[p][d] = "working" /\ (Free(p) \/ (job[p].kind = "finish" /\ job[p].day = d))
    /\ LateFinalizers \/ Alone(p)
    /\ SetTask(p, d, "died")
    /\ EndJob(p)
    /\ lock' = NoProc
    /\ UNCHANGED <<row, today, stage, on, pending, todo, found>>

\* _rnd_task_done and finalize_unhandled_task, without the lock.
BuryTask(p, d) ==
    /\ Free(p) /\ task[p][d] = "died"
    /\ IF IsActive(d) /\ (row[d].status = "RUNNING" => Owned(p, d))
       THEN Write(p, "died", d, "FAILED") /\ UNCHANGED task
       ELSE SetTask(p, d, "none") /\ UNCHANGED <<row, job>>
    /\ UNCHANGED <<lock, today, stage, on, pending, todo, found>>

CloseTask(p, d) ==
    /\ Free(p) /\ task[p][d] \in {"closing", "leaving"}
    /\ SetTask(p, d, IF task[p][d] = "leaving" THEN "cut" ELSE "none")
    /\ lock' = NoProc
    /\ UNCHANGED <<row, today, stage, on, pending, todo, found, job>>

-----------------------------------------------------------------------------
(* The runtime stops: _cancel_rnd_tasks, then a finalizer for every task. *)

Stop(p) ==
    /\ stage[p] = "idle" /\ job[p] = NoJob
    /\ LateFinalizers \/ Alone(p)
    /\ stage' = [stage EXCEPT ![p] = "stopping"]
    /\ on' = [on EXCEPT ![p] = FALSE]
    /\ task' = [task EXCEPT ![p] = [d \in Days |->
                  CASE @[d] = "queued"  -> "cut"
                    [] @[d] = "working" -> "cancelled"
                    [] @[d] = "closing" -> "leaving"
                    [] OTHER            -> @[d]]]
    /\ UNCHANGED <<diskVars, today, pending, todo, found, job>>

MaySuspend(p, d) ==
    \/ row[d].status = "CREATED"
    \/ row[d].status = "RUNNING" /\ Owned(p, d)

\* The cancelled task suspends its cycle under the lock.
SuspendTask(p, d) ==
    /\ Free(p) /\ task[p][d] = "cancelled"
    /\ IF MaySuspend(p, d)
       THEN Write(p, "suspend", d, "SUSPENDED") /\ UNCHANGED task
       ELSE SetTask(p, d, "leaving") /\ UNCHANGED <<row, job>>
    /\ UNCHANGED <<lock, today, stage, on, pending, todo, found>>

\* Once all have ended, the cycle of each is suspended again without it.
FinalizeCut(p, d) ==
    /\ Free(p) /\ task[p][d] = "cut"
    /\ \A e \in Days : task[p][e] \in {"none", "cut", "died"}
    /\ IF MaySuspend(p, d)
       THEN Write(p, "cut", d, "SUSPENDED") /\ UNCHANGED task
       ELSE SetTask(p, d, "none") /\ UNCHANGED <<row, job>>
    /\ UNCHANGED <<lock, today, stage, on, pending, todo, found>>

\* The second half of a finalizer: _update, whatever the row says by now.
Commit(p) ==
    LET d == job[p].day
        k == job[p].kind
    IN  /\ k \in {"close", "finish", "suspend", "cut", "refuse", "died"}
        /\ Put(d, job[p].status, NoProc)
        /\ EndJob(p)
        /\ IF k = "close" THEN lock' = NoProc /\ todo' = [todo EXCEPT ![p] = @ \ {d}]
           ELSE UNCHANGED <<lock, todo>>
        /\ CASE k = "finish"         -> SetTask(p, d, "closing")
             [] k = "suspend"        -> SetTask(p, d, "leaving")
             [] k \in {"cut", "died"} -> SetTask(p, d, "none")
             [] OTHER                -> UNCHANGED task
        /\ UNCHANGED <<today, stage, on, pending, found>>

StopDone(p) ==
    /\ stage[p] = "stopping" /\ job[p] = NoJob
    /\ \A d \in Days : task[p][d] = "none"
    /\ stage' = [stage EXCEPT ![p] = "idle"]
    /\ UNCHANGED <<diskVars, today, on, pending, task, todo, found, job>>

\* The end of the process: in order, or at any moment.
GoDown(p) ==
    /\ stage' = [stage EXCEPT ![p] = "down"]
    /\ on' = [on EXCEPT ![p] = FALSE]
    /\ pending' = [pending EXCEPT ![p] = <<>>]
    /\ task' = [task EXCEPT ![p] = [d \in Days |-> "none"]]
    /\ todo' = [todo EXCEPT ![p] = {}] /\ found' = [found EXCEPT ![p] = {}]
    /\ EndJob(p)
    /\ lock' = IF lock = p THEN NoProc ELSE lock
    /\ UNCHANGED <<row, today>>

Exit(p) ==
    /\ stage[p] = "idle" /\ job[p] = NoJob /\ ~on[p]
    /\ \A d \in Days : task[p][d] = "none"
    /\ GoDown(p)

Crash(p) == stage[p] # "down" /\ GoDown(p)

-----------------------------------------------------------------------------
Recovery(p) ==
    \/ \E d \in Days : RecoverSkip(p, d) \/ RecoverRead(p, d)
    \/ RecoverApply(p)
    \/ RecoverDone(p)

Preparation(p) == CreateFails(p) \/ PrepareInput(p) \/ QueueTask(p) \/ PrepareFails(p)

TaskStep(p, d) ==
    \/ RunTask(p, d)
    \/ \E o \in Final : EndWork(p, d, o)
    \/ CloseTask(p, d)
    \/ SuspendTask(p, d)
    \/ FinalizeCut(p, d)
    \/ BuryTask(p, d)

Next ==
    \/ DayPasses
    \/ \E p \in Procs :
        \/ Boot(p) \/ Start(p) \/ Stop(p) \/ StopDone(p) \/ Exit(p) \/ Crash(p)
        \/ Recovery(p) \/ OnSnapshot(p) \/ Preparation(p) \/ Commit(p) \/ HandoffFails(p)
        \/ \E d \in Days : TaskStep(p, d) \/ SaveProgress(p, d) \/ TaskDies(p, d)

Spec == Init /\ [][Next]_vars

\* A process that is up goes on, and work on a cycle ends: every call of a
\* model, the driver or a build has a timeout.
FairSpec ==
    /\ Spec
    /\ \A p \in Procs :
        /\ WF_vars(Recovery(p)) /\ WF_vars(Preparation(p)) /\ WF_vars(Commit(p))
        /\ WF_vars(StopDone(p)) /\ WF_vars(OnSnapshot(p))
        /\ \A d \in Days : WF_vars(TaskStep(p, d))

-----------------------------------------------------------------------------
(* Whatever the processes do, a cycle is run by one task at a time, and while  *)
(* it is worked on its row says that it runs and who runs it: what one_runner  *)
(* relies on is the file lock together with the claim, over all processes.     *)
OneRunner ==
    \A p, q \in Procs, d, e \in Days :
        task[p][d] = "working" =>
            /\ task[q][e] = "working" => p = q /\ d = e
            /\ lock = p
            /\ row[d].status = "RUNNING" /\ row[d].owner = p

\* At most one cycle is unfinished: creation, recovery of an old row and every
\* finalizer keep it, with several processes and a crash between any two steps.
OneActive == \A d, e \in Days : IsActive(d) /\ IsActive(e) => d = e

(* A cycle that has ended has the outcome its result file says, unless it never *)
(* got a directory; a suspended one says it is suspended.  File and row are     *)
(* written apart, so a crash between the two is repaired or harmless.           *)
ResultAgrees ==
    \A d \in Days :
        /\ row[d].status \in Final =>
              \/ row[d].result = row[d].status
              \/ row[d].status = "WAITING_USER" /\ row[d].result = "CANCELLED"
              \/ row[d].status = "FAILED" /\ row[d].result = "none"
        /\ row[d].status = "SUSPENDED" =>
              row[d].result \in {"SUSPENDED"} \cup Final

\* Once the outcome of a cycle is on disk, work on it is never started again:
\* a crash before the row is updated does not run the cycle twice.
OutcomeKept ==
    [][\A d \in Days, p \in Procs :
          task[p][d] = "queued" /\ task'[p][d] = "working" => row[d].result \notin Final]_vars

(* An active cycle that a starting process finds is brought to an end, whatever *)
(* the crash before it left of the row, its result and its input; unless the     *)
(* process is stopped or dies, or another one is there to hold the lock.          *)
FoundIsEnded ==
    \A p \in Procs, d \in Days :
        stage[p] = "recovering" /\ d \in todo[p] /\ IsActive(d) ~>
            \/ ~IsActive(d)
            \/ stage[p] \in {"down", "stopping"}
            \/ ~Alone(p)

(* A suspended cycle goes on once the runtime is started again: the page of the  *)
(* control centre promises so, and nobody else may create a cycle meanwhile.      *)
SuspendedResumes ==
    \A p \in Procs, d \in Days :
        stage[p] = "idle" /\ on[p] /\ row[d].status = "SUSPENDED" ~>
            row[d].status # "SUSPENDED" \/ ~on[p]
============================================================================
