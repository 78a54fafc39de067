----------------------------- MODULE DshAdapter -----------------------------
(***************************************************************************)
(* The coding harness as a child process (rnd/dsh_adapter.py), what the       *)
(* service does with it when its task ends or is cancelled, and the driver    *)
(* itself (dsh-integration/src/maidai-driver.ts).  Commands go down stdin,    *)
(* messages with the id of their command come up stdout.  One coroutine reads *)
(* at a time, the one that holds _command_lock: the task of the cycle ("run", *)
(* and "end" in its finally) or the shielded suspend().  The driver handles   *)
(* one command after the other.  A cancellation may come at every await of    *)
(* the task, those of its finally included, and more than once.               *)
(***************************************************************************)
EXTENDS Naturals, Sequences, FiniteSets

CONSTANTS MaxCommands,  \* bound of the model: phases driven in one run
          MaxEvents     \* bound of the model: events between two answers

ASSUME AdapterAssumption == MaxCommands \in Nat /\ MaxEvents \in Nat

VARIABLES proc,     \* self.process: none, starting, up, stuck (it failed to
                    \* shut down and answers nothing more), or exited
          inbox,    \* commands the driver has not taken yet
          busy,     \* the command whose task it works on, or 0
          outbox,   \* messages nobody has read yet
          chat,     \* events since the last answer
          lock,     \* holder of _command_lock
          want,     \* request id the holder waits for
          next,     \* the id of the next command
          task,     \* where the task of the cycle is
          sus,      \* where the suspend() it started is
          handler,  \* whether the driver's events are saved to the row
          row,      \* the row of the cycle, as far as it matters here
          marked,   \* whether this run wrote dsh_last_finish_reason = "suspended"
          finished, \* history: commands the driver has completed
          ailing,   \* history: the driver reported an error, or died
          told,     \* history: commands counted as completed phases
          cut       \* history: a cancellation hit terminate() in the finally

driverVars  == <<inbox, busy, outbox, chat, finished, ailing>>
adapterVars == <<proc, lock, want, next>>
taskVars    == <<task, sus, handler, row, marked, told, cut>>
sessionVars == <<driverVars, adapterVars, taskVars>>

Ids      == 0..(MaxCommands + 3)
Command  == [id : Ids, type : {"work", "suspend", "terminate", "eof"}]
Message  == [id : Ids, type : {"event", "completed", "failed", "error", "closed"}]

SessionTypeOK ==
    /\ proc \in {"none", "starting", "up", "stuck", "exited"}
    /\ inbox \in Seq(Command) /\ outbox \in Seq(Message)
    /\ busy \in Ids /\ want \in Ids /\ next \in Ids \ {0}
    /\ chat \in 0..MaxEvents
    /\ lock \in {"free", "run", "suspend", "end"}
    /\ task \in {"begin", "between", "launch", "wait", "suspending",
                 "finally", "terminating", "closing", "unserve", "over"}
    /\ sus \in {"none", "lock", "wait", "close", "answered", "failed"}
    /\ {handler, marked, ailing, cut} \subseteq BOOLEAN
    /\ row \in {"RUNNING", "SUSPENDED", "ENDED"}
    /\ finished \subseteq Command /\ told \subseteq Ids

SessionInit ==
    /\ proc = "none" /\ inbox = <<>> /\ outbox = <<>> /\ busy = 0 /\ chat = 0
    /\ lock = "free" /\ want = 0 /\ next = 1
    /\ task = "begin" /\ sus = "none" /\ handler = TRUE /\ row = "RUNNING"
    /\ marked = FALSE /\ finished = {} /\ ailing = FALSE /\ told = {} /\ cut = FALSE

\* returncode is None
Alive == proc \in {"starting", "up", "stuck"}

-----------------------------------------------------------------------------
(* The driver: a queue of commands, one handled at a time. *)

Emit(m) == outbox' = Append(outbox, m)

DriverStarts ==
    /\ proc = "starting"
    /\ proc' = "up" /\ Emit([id |-> 0, type |-> "event"])
    /\ UNCHANGED <<inbox, busy, chat, finished, ailing, lock, want, next, taskVars>>

\* A task is begun.  To suspend, to terminate or to find stdin closed is to save
\* the session, to answer and to exit; when saving it fails, `closing` stays set.
DriverTakes ==
    /\ proc = "up" /\ busy = 0 /\ inbox # <<>>
    /\ LET c == Head(inbox)
       IN  \/ /\ c.type = "work"
              /\ busy' = c.id /\ inbox' = Tail(inbox)
              /\ UNCHANGED <<proc, outbox, finished, ailing>>
           \/ /\ c.type # "work"
              /\ Emit([id |-> c.id, type |-> "closed"])
              /\ finished' = finished \cup {c}
              /\ proc' = "exited" /\ inbox' = <<>>
              /\ UNCHANGED <<busy, ailing>>
           \/ /\ c.type # "work"
              /\ Emit([id |-> 0, type |-> "error"])
              /\ proc' = "stuck" /\ inbox' = Tail(inbox) /\ ailing' = TRUE
              /\ UNCHANGED <<busy, finished>>
    /\ UNCHANGED <<chat, lock, want, next, taskVars>>

DriverEvent ==
    /\ proc = "up" /\ busy # 0 /\ chat < MaxEvents
    /\ chat' = chat + 1
    /\ Emit([id |-> busy, type |-> "event"])
    /\ UNCHANGED <<inbox, busy, finished, ailing, adapterVars, taskVars>>

\* The turn ends; an error is reported without the id of its command.
DriverEnds ==
    /\ proc = "up" /\ busy # 0
    /\ \/ /\ Emit([id |-> busy, type |-> "completed"])
          /\ finished' = finished \cup {[id |-> busy, type |-> "work"]}
          /\ UNCHANGED ailing
       \/ /\ Emit([id |-> busy, type |-> "failed"])
          /\ UNCHANGED <<finished, ailing>>
       \/ /\ Emit([id |-> 0, type |-> "error"])
          /\ ailing' = TRUE /\ UNCHANGED finished
    /\ busy' = 0 /\ chat' = 0
    /\ UNCHANGED <<inbox, adapterVars, taskVars>>

DriverDies ==
    /\ Alive
    /\ proc' = "exited" /\ inbox' = <<>> /\ busy' = 0 /\ ailing' = TRUE
    /\ UNCHANGED <<outbox, chat, finished, lock, want, next, taskVars>>

-----------------------------------------------------------------------------
(* The adapter's side of the pipe. *)

Take(r)  == lock = "free" /\ lock' = r
Release  == lock' = "free"

\* _send
Send(type) ==
    /\ inbox' = Append(inbox, [id |-> next, type |-> type])
    /\ want' = next /\ next' = next + 1

\* _close_streams: stdin is closed, and ten seconds later the process killed.
CloseStreams ==
    /\ proc' = "none" /\ inbox' = <<>> /\ outbox' = <<>> /\ busy' = 0 /\ chat' = 0

\* Mutant: whatever comes is taken for the answer.
AnyAnswer(m) == m.type # "event"

\* A message that ends the wait of the holder of the lock: what carries no id at
\* all is taken for its answer too.
Answers(m) == m.type # "event" /\ m.id \in {0, want}

\* One line of stdout that is not the answer; persist_event saves the event,
\* and RUNNING with it.
ReadOther ==
    /\ lock # "free" /\ outbox # <<>> /\ ~Answers(Head(outbox))
    /\ task = "launch" => Head(outbox).type # "event"
    /\ outbox' = Tail(outbox)
    /\ row' = IF handler /\ Head(outbox).type = "event" /\ Head(outbox).id \in {0, want}
              THEN "RUNNING" ELSE row
    /\ UNCHANGED <<inbox, busy, chat, finished, ailing, adapterVars,
                   task, sus, handler, marked, told, cut>>

\* How the wait of r ends: its answer, the end of the pipe, or no line for
\* half an hour.
Waited(r) ==
    /\ lock = r
    /\ \/ outbox # <<>> /\ Answers(Head(outbox)) /\ outbox' = Tail(outbox)
       \/ outbox = <<>> /\ UNCHANGED outbox

-----------------------------------------------------------------------------
(* The task: a command for each phase. *)

\* The finally begins: the handler is taken back before anything is awaited.
Leave(status) == task' = "finally" /\ row' = status /\ handler' = FALSE

\* _run; _launch starts the driver if there is none.
Begin ==
    /\ task = "between" /\ next <= MaxCommands
    /\ Take("run")
    /\ IF proc \in {"none", "exited"}
       THEN /\ proc' = "starting" /\ inbox' = <<>> /\ outbox' = <<>>
            /\ task' = "launch" /\ UNCHANGED <<want, next>>
       ELSE /\ Send("work") /\ task' = "wait" /\ UNCHANGED <<proc, outbox>>
    /\ UNCHANGED <<busy, chat, finished, ailing, sus, handler, row, marked, told, cut>>

\* The first line is the ready of the driver.
Launched ==
    /\ task = "launch" /\ proc = "up" /\ outbox # <<>>
    /\ outbox' = Tail(outbox)
    /\ Send("work") /\ task' = "wait"
    /\ UNCHANGED <<busy, chat, finished, ailing, proc, lock, sus, handler, row, marked, told, cut>>

\* It is something else, the driver exits, or it takes too long and is killed.
LaunchFails ==
    /\ task = "launch"
    /\ \/ proc = "up" /\ outbox' = <<>> /\ UNCHANGED <<proc, inbox, busy, chat>>
       \/ proc = "exited" /\ UNCHANGED <<proc, inbox, outbox, busy, chat>>
       \/ proc = "starting" /\ CloseStreams
    /\ Release /\ Leave("ENDED")
    /\ UNCHANGED <<finished, ailing, want, next, sus, marked, told, cut>>

\* The phase is completed, or the cycle has failed.
PhaseEnds ==
    /\ task = "wait"
    /\ Waited("run")
    /\ Release
    /\ IF outbox # <<>> /\ Head(outbox).type = "completed"
       THEN told' = told \cup {want} /\ task' = "between" /\ UNCHANGED <<row, handler>>
       ELSE Leave("ENDED") /\ UNCHANGED told
    /\ UNCHANGED <<inbox, busy, chat, finished, ailing, proc, want, next, sus, marked, cut>>

\* All phases are done, a checkpoint stops the cycle, or something is raised.
Conclude ==
    /\ task = "between"
    /\ Leave("ENDED")
    /\ UNCHANGED <<driverVars, adapterVars, sus, marked, told, cut>>

-----------------------------------------------------------------------------
(* The task is cancelled: suspend(), half a minute of patience, the finally. *)

\* Mutant: the cancelled command keeps the lock.
CancelLocked ==
    /\ task \in {"begin", "between", "launch", "wait"}
    /\ task' = "suspending"
    /\ sus' = IF Alive THEN "lock" ELSE "failed"
    /\ UNCHANGED <<driverVars, adapterVars, handler, row, marked, told, cut>>

Cancel ==
    /\ task \in {"begin", "between", "launch", "wait"}
    /\ task' = "suspending"
    /\ lock' = IF lock = "run" THEN "free" ELSE lock
    /\ sus' = IF Alive THEN "lock" ELSE "failed"
    /\ UNCHANGED <<driverVars, proc, want, next, handler, row, marked, told, cut>>

SuspendSends ==
    /\ sus = "lock"
    /\ \/ Alive /\ Take("suspend") /\ Send("suspend") /\ sus' = "wait"
       \/ ~Alive /\ sus' = "failed" /\ UNCHANGED <<lock, inbox, want, next>>
    /\ UNCHANGED <<busy, outbox, chat, finished, ailing, proc, task, handler, row, marked, told, cut>>

\* Any answer will do, the end of the pipe included; no line is an exception.
SuspendAnswered ==
    /\ sus = "wait"
    /\ Waited("suspend")
    /\ IF outbox # <<>> \/ proc = "exited"
       THEN sus' = "close" /\ UNCHANGED lock
       ELSE sus' = "failed" /\ Release
    /\ UNCHANGED <<inbox, busy, chat, finished, ailing, proc, want, next,
                   task, handler, row, marked, told, cut>>

SuspendCloses ==
    /\ sus = "close"
    /\ CloseStreams /\ Release
    /\ sus' = "answered"
    /\ UNCHANGED <<finished, ailing, want, next, task, handler, row, marked, told, cut>>

\* suspend() has returned a result or nothing, or half a minute is over: the row is
\* marked in the first case, and finalize_cancelled called in all.
SuspendOver ==
    /\ task = "suspending"
    /\ marked' = (sus = "answered")
    /\ Leave("SUSPENDED")
    /\ UNCHANGED <<driverVars, adapterVars, sus, told, cut>>

\* A second cancellation: neither, and suspend() goes on behind its shield.
CancelSuspending ==
    /\ task = "suspending"
    /\ Leave(row)
    /\ UNCHANGED <<driverVars, adapterVars, sus, marked, told, cut>>

\* Mutant: a driver that was told to suspend is left to itself.
FinallyTrusting ==
    /\ task = "finally"
    /\ IF row = "SUSPENDED" \/ ~Alive
       THEN task' = "unserve" /\ UNCHANGED <<driverVars, adapterVars>>
       ELSE /\ Take("end") /\ Send("terminate")
            /\ task' = "terminating"
            /\ UNCHANGED <<busy, outbox, chat, finished, ailing, proc>>
    /\ UNCHANGED <<sus, handler, row, marked, told, cut>>

\* terminate() waits for the lock; by then the driver may be gone.
Finally ==
    /\ task = "finally"
    /\ \/ /\ ~Alive
          /\ CloseStreams
          /\ task' = "unserve"
          /\ UNCHANGED <<finished, ailing, lock, want, next>>
       \/ /\ Alive
          /\ Take("end") /\ Send("terminate")
          /\ task' = "terminating"
          /\ UNCHANGED <<busy, outbox, chat, finished, ailing, proc>>
    /\ UNCHANGED <<sus, handler, row, marked, told, cut>>

Terminated ==
    /\ task = "terminating"
    /\ Waited("end")
    /\ task' = "closing"
    /\ UNCHANGED <<inbox, busy, chat, finished, ailing, adapterVars,
                   sus, handler, row, marked, told, cut>>

TerminateCloses ==
    /\ task = "closing"
    /\ CloseStreams /\ Release
    /\ task' = "unserve"
    /\ UNCHANGED <<finished, ailing, want, next, sus, handler, row, marked, told, cut>>

\* A cancellation of the finally is no Exception for suppress(): the lock is given
\* back and nothing is closed but, after an answer, stdin.  self.process stays.
CancelFinally ==
    /\ \/ task = "finally" /\ (lock # "free" \/ proc = "exited")
       \/ task \in {"terminating", "closing"}
    /\ task' = "over" /\ cut' = TRUE
    /\ lock' = IF lock = "end" THEN "free" ELSE lock
    /\ inbox' = IF task = "closing" /\ Alive THEN Append(inbox, [id |-> 0, type |-> "eof"]) ELSE inbox
    /\ UNCHANGED <<busy, outbox, chat, finished, ailing, proc, want, next,
                   sus, handler, row, marked, told>>

\* _cancel_rnd_tasks, whose stop cancelled the task, suspends a cycle that still runs.
StopSaves ==
    /\ task = "over" /\ row = "RUNNING"
    /\ row' = "SUSPENDED"
    /\ UNCHANGED <<driverVars, adapterVars, task, sus, handler, marked, told, cut>>

-----------------------------------------------------------------------------
\* Whatever answers of commands that were given up are still in the pipe: a phase
\* counts as completed only if the driver has completed that very command, and a
\* suspension is marked as done only if the driver has done one, or has failed.
OwnAnswers ==
    /\ \A i \in told : [id |-> i, type |-> "work"] \in finished
    /\ marked => ailing \/ \E c \in finished : c.type = "suspend"

\* A suspension that is marked as done, and a task that ended and was not cancelled
\* in its finally, leave no driver; a task that ended in any other way leaves at most
\* a driver that was told to end.
NoDriverLeft ==
    /\ marked \/ (task = "over" /\ ~cut) => proc = "none" /\ busy = 0
    /\ task = "over" /\ proc \in {"starting", "up"} =>
          \E i \in 1..Len(inbox) : inbox[i].type # "work"

\* A stop comes to its end, with a driver that answers, hangs or dies, and
\* however often it is repeated.
StopEnds == task = "suspending" ~> task = "over"

\* A row is marked suspended only when the driver has saved its session.  It does not
\* hold: an error of another command or the exit of the driver counts too
\* (service.py 724-732).
MarkedIsSaved == marked => \E c \in finished : c.type = "suspend"
=============================================================================
