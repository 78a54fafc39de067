--------------------------- MODULE RndCycleProofs ---------------------------
(***************************************************************************)
(* The safety of the research cycles, for any number of Agent processes and   *)
(* due days, in the world where no second process starts while one still has  *)
(* a finalizer to run without the lock.  One inductive invariant carries all   *)
(* four theorems: the lock protects what is worked on, and everything that is  *)
(* written without it is written by a process that is alone, or concerns a row *)
(* no other process has seen yet.                                              *)
(***************************************************************************)
EXTENDS RndCycle, TLAPS

Holding == {"working", "cancelled", "closing", "leaving"}

\* The file lock: a task that runs, or its end, has it, and so has recovery.
LockHeld ==
    /\ \A p \in Procs, d \in Days : task[p][d] \in Holding => lock = p
    /\ \A p \in Procs, d, e \in Days :
          task[p][d] \in Holding /\ task[p][e] \in Holding => d = e
    /\ \A p \in Procs : job[p].kind \in {"recover", "close"} => lock = p

\* What a process can be in the middle of at each stage of its life.
StagesKept ==
    \A p \in Procs :
        /\ stage[p] = "down" => lock # p /\ job[p] = NoJob
        /\ stage[p] \in {"down", "recovering"} => \A d \in Days : task[p][d] = "none"
        /\ stage[p] # "recovering" => todo[p] = {} /\ found[p] = {}
        /\ job[p].kind \in {"recover", "close"} => stage[p] = "recovering"
        /\ stage[p] = "recovering" => job[p].kind \in {"none", "recover", "close"}
        /\ stage[p] = "stopping" => Alone(p)
        /\ \A d \in Days : task[p][d] \in {"cut", "cancelled", "leaving"} => stage[p] = "stopping"
        /\ \A d \in Days : task[p][d] = "died" => Alone(p)

\* The task a write belongs to.
JobTasks ==
    \A p \in Procs :
        /\ job[p].kind = "none" => job[p] = NoJob
        /\ job[p].kind # "none" => job[p].day \in Days /\ row[job[p].day].status # "NONE"
        /\ job[p].kind = "finish" => task[p][job[p].day] = "working"
        /\ job[p].kind = "suspend" => task[p][job[p].day] = "cancelled"
        /\ job[p].kind = "cut" => task[p][job[p].day] = "cut"
        /\ job[p].kind = "died" => task[p][job[p].day] = "died"
        /\ job[p].kind \in {"finish", "close", "refuse", "died"} => job[p].status \in Final
        /\ job[p].kind \in {"suspend", "cut"} => job[p].status = "SUSPENDED"

\* Between the two halves of a write the row is as the first half found it.
HalfWritten ==
    \A p \in Procs :
        /\ job[p].kind = "recover" /\ job[p].status \in Active => IsActive(job[p].day)
        /\ job[p].kind \in {"close", "finish", "suspend", "cut", "refuse", "died"} =>
              IsActive(job[p].day) /\ row[job[p].day].result = job[p].status

\* A cycle that is being prepared is known to its creator alone.
PreparedAlone ==
    \A p \in Procs : job[p].kind \in {"prepare", "refuse"} =>
        /\ row[job[p].day].status = "CREATED"
        /\ job[p].kind = "prepare" => row[job[p].day].result = "none"
        /\ \A q \in Procs : /\ job[p].day \notin todo[q] \cup found[q]
                            /\ task[q][job[p].day] = "none"
                            /\ q # p => job[q].kind = "none" \/ job[q].day # job[p].day

\* The row of a task.
TaskRows ==
    \A p \in Procs, d \in Days :
        /\ task[p][d] \in {"working", "cancelled"} =>
              row[d].status = "RUNNING" /\ row[d].owner = p
        /\ task[p][d] # "none" \/ d \in todo[p] \cup found[p] => row[d].status # "NONE"
        /\ (task[p][d] = "queued" \/ d \in found[p]) /\ row[d].status = "CREATED" =>
              row[d].result \notin Final /\ row[d].input

RowsKept ==
    /\ \A d \in Days : row[d].status = "NONE" => row[d].result = "none"
    /\ OneActive /\ ResultAgrees

IInv ==
    /\ ~LateFinalizers /\ TypeOK
    /\ LockHeld /\ StagesKept /\ JobTasks /\ HalfWritten /\ PreparedAlone /\ TaskRows /\ RowsKept

-----------------------------------------------------------------------------
LEMMA DaysAreNumbers == /\ Days \subseteq Nat /\ 0 \notin Days /\ 1 \in Days
                        /\ \A d \in Nat \ {0} : d <= MaxDay => d \in Days
  BY RndAssumption DEF Days

LEMMA DaysAreDays == Days \subseteq 0..MaxDay
  BY RndAssumption DEF Days

LEMMA CycleStarts == ~LateFinalizers /\ Init => IInv
  <1> SUFFICES ASSUME ~LateFinalizers, Init PROVE IInv
    OBVIOUS
  <1> USE RndAssumption, DaysAreNumbers
  <1>1. TypeOK
    <2>1. NoRow \in Rows /\ LegacyRow \in Rows /\ 1 \in 0..MaxDay
      BY DEF Rows, NoRow, LegacyRow, Active, Final
    <2>2. row \in [Days -> Rows]
      BY <2>1 DEF Init
    <2>3. today \in 0..MaxDay
      BY <2>1 DEF Init
    <2>4. pending \in [Procs -> Seq(Days)]
      BY DEF Init
    <2>5. job \in [Procs -> [kind : Kinds, day : 0..MaxDay, status : {"NONE"} \cup Active \cup Final]]
      BY DEF Init, NoJob, Kinds
    <2> QED
      BY <2>2, <2>3, <2>4, <2>5 DEF Init, TypeOK, Tasks
  <1>2. LockHeld /\ StagesKept /\ JobTasks /\ HalfWritten /\ PreparedAlone /\ TaskRows
    BY DEF Init, LockHeld, Holding, StagesKept, JobTasks, HalfWritten, PreparedAlone, TaskRows,
           NoJob, Alone
  <1>3. RowsKept
    <2>1. \A d \in Days : row[d] = NoRow \/ (d = 1 /\ row[d] = LegacyRow)
      BY DEF Init
    <2> QED
      BY <2>1 DEF RowsKept, OneActive, ResultAgrees, IsActive, NoRow, LegacyRow, Active, Final
  <1> QED
    BY <1>1, <1>2, <1>3 DEF IInv

-----------------------------------------------------------------------------
(* What the updates of the rows, the jobs and the tasks keep. *)

LEMMA RowTypes ==
    ASSUME TypeOK, NEW d \in Days
    PROVE  /\ \A s \in {"NONE"} \cup Active \cup Final, o \in Procs \cup {NoProc} :
                 [row EXCEPT ![d].status = s, ![d].owner = o] \in [Days -> Rows]
           /\ \A s \in {"SUSPENDED"} \cup Final : [row EXCEPT ![d].result = s] \in [Days -> Rows]
           /\ [row EXCEPT ![d].input = TRUE] \in [Days -> Rows]
           /\ row[d].status \in {"NONE"} \cup Active \cup Final /\ row[d].owner \in Procs \cup {NoProc}
  <1>1. row[d] \in Rows
    BY DEF TypeOK
  <1>2. /\ \A s \in {"NONE"} \cup Active \cup Final, o \in Procs \cup {NoProc} :
              [row[d] EXCEPT !.status = s, !.owner = o] \in Rows
        /\ \A s \in {"SUSPENDED"} \cup Final : [row[d] EXCEPT !.result = s] \in Rows
        /\ [row[d] EXCEPT !.input = TRUE] \in Rows
    BY <1>1 DEF Rows
  <1>3. row[d].status \in {"NONE"} \cup Active \cup Final /\ row[d].owner \in Procs \cup {NoProc}
    BY <1>1 DEF Rows
  <1> QED
    BY <1>2, <1>3 DEF TypeOK

LEMMA JobTypes ==
    ASSUME TypeOK, NEW p \in Procs
    PROVE  /\ \A k \in Kinds, d \in 0..MaxDay, s \in {"NONE"} \cup Active \cup Final :
                 [job EXCEPT ![p] = [kind |-> k, day |-> d, status |-> s]] \in
                   [Procs -> [kind : Kinds, day : 0..MaxDay, status : {"NONE"} \cup Active \cup Final]]
           /\ [job EXCEPT ![p] = NoJob] \in
                [Procs -> [kind : Kinds, day : 0..MaxDay, status : {"NONE"} \cup Active \cup Final]]
           /\ job[p].status \in {"NONE"} \cup Active \cup Final
  <1>1. 0 \in 0..MaxDay /\ "none" \in Kinds
    BY RndAssumption DEF Kinds
  <1> QED
    BY <1>1 DEF TypeOK, NoJob

(* Two processes never write the row of one cycle at once: whoever writes has *)
(* the lock, or is the only process, or prepares a cycle nobody else knows.     *)
LEMMA WritersApart ==
    ASSUME IInv, NEW p \in Procs, NEW q \in Procs, p # q,
           job[p].kind \notin {"none", "prepare"}, job[q].kind \notin {"none", "prepare"}
    PROVE  job[p].day # job[q].day
  <1>1. ASSUME NEW r \in Procs, job[r].kind \notin {"none", "prepare"}
        PROVE  stage[r] # "down" /\ (lock = r \/ Alone(r) \/ job[r].kind = "refuse")
    <2>1. job[r].kind \in Kinds /\ job[r].day \in Days
      BY <1>1 DEF IInv, TypeOK, JobTasks
    <2>2. stage[r] # "down"
      BY <1>1 DEF IInv, StagesKept, NoJob
    <2>3. job[r].kind \in {"recover", "close"} => lock = r
      BY DEF IInv, LockHeld
    <2>4. job[r].kind \in {"finish", "suspend"} => lock = r
      BY <2>1 DEF IInv, LockHeld, JobTasks, Holding
    <2>5. ASSUME job[r].kind \in {"cut", "died"} PROVE Alone(r)
      <3>1. task[r][job[r].day] \in {"cut", "died"}
        BY <2>1, <2>5 DEF IInv, JobTasks
      <3>2. \A e \in Days : task[r][e] \in {"cut", "died"} => Alone(r)
        BY DEF IInv, StagesKept
      <3> QED
        BY <2>1, <3>1, <3>2
    <2> QED
      BY <1>1, <2>1, <2>2, <2>3, <2>4, <2>5 DEF Kinds
  <1>2. ~Alone(p) /\ ~Alone(q)
    BY <1>1 DEF Alone
  <1>3. lock # p \/ lock # q
    OBVIOUS
  <1>4. job[p].kind = "refuse" \/ job[q].kind = "refuse"
    BY <1>1, <1>2, <1>3
  <1> QED
    BY <1>4 DEF IInv, PreparedAlone

LEMMA TaskTypes ==
    ASSUME TypeOK, NEW p \in Procs, NEW d \in Days, NEW t \in Tasks
    PROVE  [task EXCEPT ![p][d] = t] \in [Procs -> [Days -> Tasks]]
  BY DEF TypeOK

-----------------------------------------------------------------------------
\* A process starts and lists the rows it finds unfinished.
LEMMA Boots ==
    ASSUME IInv, NEW p \in Procs, Boot(p)
    PROVE  IInv'
  <1> USE RndAssumption, DaysAreNumbers
  <1>1. TypeOK'
    BY RowTypes, JobTypes, TaskTypes DEF IInv, TypeOK, Tasks, Kinds, NoJob, Active, Final,
       JobTasks, Boot, Finalizing, Unfinished,
           IsActive, diskVars
  <1>2. LockHeld'
    BY <1>1 DEF IInv, TypeOK, LockHeld, Holding, StagesKept, NoJob, Boot, Finalizing,
       Unfinished, IsActive,
           diskVars
  <1>3. StagesKept'
    BY <1>1 DEF IInv, TypeOK, StagesKept, LockHeld, Holding, Alone, JobTasks, NoJob, Boot,
       Finalizing, Unfinished,
           IsActive, diskVars
  <1>4. JobTasks'
    BY <1>1 DEF IInv, TypeOK, JobTasks, StagesKept, LockHeld, Holding, HalfWritten,
       PreparedAlone, NoJob, Active,
           Final, IsActive, Boot, Finalizing, Unfinished, diskVars
  <1>5. HalfWritten'
    BY <1>1 DEF IInv, TypeOK, HalfWritten, JobTasks, StagesKept, LockHeld, Holding,
       PreparedAlone, TaskRows,
           Alone, IsActive, NoJob, Active, Final, Boot, Finalizing, Unfinished,
           diskVars
  <1>6. PreparedAlone'
    BY <1>1 DEF IInv, TypeOK, PreparedAlone, JobTasks, HalfWritten, StagesKept, LockHeld,
       Holding, TaskRows,
           RowsKept, Alone, NoJob, Active, Final, IsActive, Boot, Finalizing,
           Unfinished, diskVars
  <1>7. TaskRows'
    BY <1>1 DEF IInv, TypeOK, TaskRows, JobTasks, HalfWritten, StagesKept, LockHeld,
       Holding, PreparedAlone,
           RowsKept, Alone, Active, Final, NoJob, IsActive, Boot, Finalizing,
           Unfinished, diskVars
  <1>8. RowsKept'
    BY <1>1 DEF IInv, TypeOK, RowsKept, OneActive, ResultAgrees, IsActive, Active, Final,
       Boot, Finalizing,
           Unfinished, diskVars
  <1> QED
    BY <1>1, <1>2, <1>3, <1>4, <1>5, <1>6, <1>7, <1>8 DEF IInv

\* A row whose lock is taken is left alone.
LEMMA Skips ==
    ASSUME IInv, NEW p \in Procs, NEW d \in Days, RecoverSkip(p, d)
    PROVE  IInv'
  <1> USE RndAssumption, DaysAreNumbers
  <1>1. TypeOK'
    BY RowTypes, JobTypes, TaskTypes DEF IInv, TypeOK, Tasks, Kinds, NoJob, Active, Final,
       JobTasks, RecoverSkip, NextToRecover,
           diskVars
  <1>2. LockHeld'
    BY <1>1 DEF IInv, TypeOK, LockHeld, Holding, StagesKept, NoJob, RecoverSkip,
       NextToRecover, diskVars
  <1>3. StagesKept'
    BY <1>1 DEF IInv, TypeOK, StagesKept, LockHeld, Holding, Alone, JobTasks, NoJob,
       RecoverSkip, NextToRecover,
           diskVars
  <1>4. JobTasks'
    BY <1>1 DEF IInv, TypeOK, JobTasks, StagesKept, LockHeld, Holding, HalfWritten,
       PreparedAlone, NoJob, Active,
           Final, IsActive, RecoverSkip, NextToRecover, diskVars
  <1>5. HalfWritten'
    BY <1>1 DEF IInv, TypeOK, HalfWritten, JobTasks, StagesKept, LockHeld, Holding,
       PreparedAlone, TaskRows,
           Alone, IsActive, NoJob, Active, Final, RecoverSkip, NextToRecover,
           diskVars
  <1>6. PreparedAlone'
    BY <1>1 DEF IInv, TypeOK, PreparedAlone, JobTasks, HalfWritten, StagesKept, LockHeld,
       Holding, TaskRows,
           RowsKept, Alone, NoJob, Active, Final, IsActive, RecoverSkip,
           NextToRecover, diskVars
  <1>7. TaskRows'
    BY <1>1 DEF IInv, TypeOK, TaskRows, JobTasks, HalfWritten, StagesKept, LockHeld,
       Holding, PreparedAlone,
           RowsKept, Alone, Active, Final, NoJob, IsActive, RecoverSkip,
           NextToRecover, diskVars
  <1>8. RowsKept'
    BY <1>1 DEF IInv, TypeOK, RowsKept, OneActive, ResultAgrees, IsActive, Active, Final,
       RecoverSkip,
           NextToRecover, diskVars
  <1> QED
    BY <1>1, <1>2, <1>3, <1>4, <1>5, <1>6, <1>7, <1>8 DEF IInv

\* A row is read under the lock.
LEMMA Reads ==
    ASSUME IInv, NEW p \in Procs, NEW d \in Days, RecoverRead(p, d)
    PROVE  IInv'
  <1> USE RndAssumption, DaysAreNumbers
  <1>a. /\ lock' = p
        /\ job' = [job EXCEPT ![p] = [kind |-> "recover", day |-> d, status |-> row[d].status]]
        /\ UNCHANGED <<row, today, stage, on, pending, task, todo, found>>
    BY DEF RecoverRead, NextToRecover, Job
  <1>b. /\ d \in todo[p] /\ stage[p] = "recovering" /\ job[p] = NoJob /\ lock = NoProc
        /\ row[d].status # "NONE"
    BY RowTypes, JobTypes DEF RecoverRead, NextToRecover, Job, IInv, StagesKept, JobTasks,
       TaskRows, HalfWritten, HasOutcome, IsActive, Creatable, MaySuspend, Owned, Active,
       NoJob
  <1>1. TypeOK'
    <2>1. row' \in [Days -> Rows]
      BY <1>a DEF IInv, TypeOK
    <2>2. job' \in [Procs -> [kind : Kinds, day : 0..MaxDay, status : {"NONE"} \cup Active \cup Final]]
      BY <1>a, <1>b, JobTypes, RowTypes, DaysAreDays DEF IInv, TypeOK, Kinds, Active, Final
    <2>3. task' \in [Procs -> [Days -> Tasks]]
      BY <1>a, <1>b, TaskTypes DEF IInv, TypeOK, Tasks
    <2> QED
      BY <1>a, <1>b, <2>1, <2>2, <2>3 DEF IInv, TypeOK
  <1>2. LockHeld'
    BY <1>a, <1>b, <1>1, DaysAreDays DEF IInv, TypeOK, LockHeld, Holding, StagesKept, NoJob
  <1>3. StagesKept'
    BY <1>a, <1>b, <1>1, DaysAreDays DEF IInv, TypeOK, StagesKept, LockHeld, Holding, Alone,
         JobTasks, NoJob
  <1>4. JobTasks'
    BY <1>a, <1>b, <1>1, DaysAreDays DEF IInv, TypeOK, JobTasks, StagesKept, LockHeld,
         Holding, HalfWritten, PreparedAlone, NoJob, Active, Final, IsActive
  <1>5. HalfWritten'
    BY <1>a, <1>b, <1>1, DaysAreDays DEF IInv, TypeOK, HalfWritten, JobTasks, StagesKept,
         LockHeld, Holding, PreparedAlone, TaskRows, Alone, IsActive, NoJob, Active, Final
  <1>6. PreparedAlone'
    BY <1>a, <1>b, <1>1, DaysAreDays DEF IInv, TypeOK, PreparedAlone, JobTasks, HalfWritten,
         StagesKept, LockHeld, Holding, TaskRows, RowsKept, Alone, NoJob, Active, Final,
         IsActive
  <1>7. TaskRows'
    BY <1>a, <1>b, <1>1, DaysAreDays DEF IInv, TypeOK, TaskRows, JobTasks, HalfWritten,
         StagesKept, LockHeld, Holding, PreparedAlone, RowsKept, Alone, Active, Final,
         NoJob, IsActive
  <1>8. RowsKept'
    BY <1>a, <1>b, <1>1, DaysAreDays DEF IInv, TypeOK, RowsKept, OneActive, ResultAgrees,
         IsActive, Active, Final
  <1> QED
    BY <1>1, <1>2, <1>3, <1>4, <1>5, <1>6, <1>7, <1>8 DEF IInv

\* What recovery makes of the row it read.
LEMMA Applies ==
    ASSUME IInv, NEW p \in Procs, RecoverApply(p)
    PROVE  IInv'
  <1> USE RndAssumption, DaysAreNumbers
  <1>p. PICK d \in Days : job[p].day = d
    BY DEF RecoverApply, IInv, JobTasks
  <1>1. CASE /\ row' = row
               /\ lock' = NoProc
               /\ todo' = [todo EXCEPT ![p] = @ \ {d}]
               /\ job' = [job EXCEPT ![p] = NoJob]
               /\ UNCHANGED <<today, stage, on, pending, task, found>>
    <2>a. /\ row' = row
          /\ lock' = NoProc
          /\ todo' = [todo EXCEPT ![p] = @ \ {d}]
          /\ job' = [job EXCEPT ![p] = NoJob]
          /\ UNCHANGED <<today, stage, on, pending, task, found>>
      BY <1>1
    <2>b. /\ job[p].kind = "recover"
          /\ job[p].day = d
      BY <1>1, <1>p, RowTypes, JobTypes DEF RecoverApply, IInv, JobTasks, HalfWritten,
         RowsKept, OneActive
    <2>1. TypeOK'
      <3>1. row' \in [Days -> Rows]
        BY <2>a DEF IInv, TypeOK
      <3>2. job' \in [Procs -> [kind : Kinds, day : 0..MaxDay, status : {"NONE"} \cup Active \cup Final]]
        BY <2>a, <2>b, JobTypes, RowTypes, DaysAreDays DEF IInv, TypeOK, Kinds, Active, Final
      <3>3. task' \in [Procs -> [Days -> Tasks]]
        BY <2>a, <2>b, TaskTypes DEF IInv, TypeOK, Tasks
      <3> QED
        BY <2>a, <2>b, <3>1, <3>2, <3>3 DEF IInv, TypeOK
    <2>c. /\ row' = row
          /\ lock' = NoProc
          /\ todo' = [todo EXCEPT ![p] = @ \ {d}]
          /\ \A q \in Procs : q # p => job'[q] = job[q]
          /\ job'[p] = NoJob
          /\ UNCHANGED <<today, stage, on, pending, task, found>>
      BY <2>a DEF IInv, TypeOK, Rows
    <2>2. LockHeld'
      BY <2>a, <2>b, <2>1, <1>1, <1>p, DaysAreDays DEF IInv, TypeOK, LockHeld, Holding,
           StagesKept, NoJob
    <2>3. StagesKept'
      BY <2>a, <2>b, <2>1, <1>1, <1>p, DaysAreDays DEF IInv, TypeOK, StagesKept, LockHeld,
           Holding, Alone, JobTasks, NoJob
    <2>4. JobTasks'
      BY <2>a, <2>b, <2>1, <1>1, <1>p, DaysAreDays DEF IInv, TypeOK, JobTasks, StagesKept,
           LockHeld, Holding, HalfWritten, PreparedAlone, NoJob, Active, Final, IsActive
    <2>5. HalfWritten'
      BY <2>a, <2>b, <2>1, <1>1, <1>p, DaysAreDays DEF IInv, TypeOK, HalfWritten, JobTasks,
           StagesKept, LockHeld, Holding, PreparedAlone, TaskRows, Alone, IsActive, NoJob,
           Active, Final
    <2>6. PreparedAlone'
      <3> SUFFICES ASSUME NEW q \in Procs, job'[q].kind \in {"prepare", "refuse"}
                 PROVE  /\ row'[job'[q].day].status = "CREATED"
                        /\ job'[q].kind = "prepare" => row'[job'[q].day].result = "none"
                        /\ \A r \in Procs : /\ job'[q].day \notin todo'[r] \cup found'[r]
                                            /\ task'[r][job'[q].day] = "none"
                                            /\ r # q => job'[r].kind = "none" \/ job'[r].day # job'[q].day
        BY DEF PreparedAlone
      <3>1. /\ q # p /\ job'[q] = job[q] /\ job[q].kind \in {"prepare", "refuse"}
            /\ job[q].day \in Days /\ job[q].day # d
        BY <2>c, <2>b, <1>1, <1>p DEF IInv, PreparedAlone, JobTasks, NoJob
      <3>2. \A r \in Procs : job'[r] = job[r] \/ job'[r].kind = "none" \/ job'[r].day = d
        BY <2>c DEF NoJob
      <3>3. row'[job[q].day] = row[job[q].day]
        BY <2>c, <3>1
      <3>4. \A r \in Procs : /\ todo'[r] \subseteq todo[r] /\ found'[r] \subseteq found[r] \cup {d}
                           /\ task'[r][job[q].day] = task[r][job[q].day]
        BY <2>c, <3>1 DEF IInv, TypeOK
      <3> QED
        BY <3>1, <3>2, <3>3, <3>4 DEF IInv, PreparedAlone
    <2>7. TaskRows'
      BY <2>a, <2>b, <2>1, <1>1, <1>p, DaysAreDays DEF IInv, TypeOK, TaskRows, JobTasks,
           HalfWritten, StagesKept, LockHeld, Holding, PreparedAlone, RowsKept, Alone,
           Active, Final, NoJob, IsActive
    <2>8. RowsKept'
      BY <2>a, <2>b, <2>1, <1>1, <1>p, DaysAreDays DEF IInv, TypeOK, RowsKept, OneActive,
           ResultAgrees, IsActive, Active, Final
    <2> QED
      BY <2>1, <2>2, <2>3, <2>4, <2>5, <2>6, <2>7, <2>8 DEF IInv
  <1>2. CASE /\ job[p].status \in Active /\ row[d].result \in Final
               /\ row' = [row EXCEPT ![d].status = row[d].result, ![d].owner = NoProc]
               /\ lock' = NoProc
               /\ todo' = [todo EXCEPT ![p] = @ \ {d}]
               /\ job' = [job EXCEPT ![p] = NoJob]
               /\ UNCHANGED <<today, stage, on, pending, task, found>>
    <2>a. /\ row' = [row EXCEPT ![d].status = row[d].result, ![d].owner = NoProc]
          /\ lock' = NoProc
          /\ todo' = [todo EXCEPT ![p] = @ \ {d}]
          /\ job' = [job EXCEPT ![p] = NoJob]
          /\ UNCHANGED <<today, stage, on, pending, task, found>>
      BY <1>2
    <2>b. /\ job[p].kind = "recover"
          /\ IsActive(d)
          /\ row[d].result \in Final
          /\ job[p].day = d
      BY <1>2, <1>p, RowTypes, JobTypes DEF RecoverApply, IInv, JobTasks, HalfWritten,
         RowsKept, OneActive
    <2>1. TypeOK'
      <3>0. /\ TypeOK /\ NoProc \in Procs \cup {NoProc}
            /\ row[d].result \in {"NONE"} \cup Active \cup Final
        BY <2>a, <2>b, JobTypes DEF IInv, Active, Final
      <3>a. [row EXCEPT ![d].status = row[d].result, ![d].owner = NoProc] \in [Days -> Rows]
        BY <3>0, RowTypes
      <3>1. row' \in [Days -> Rows]
        BY <2>a, <3>a
      <3>2. job' \in [Procs -> [kind : Kinds, day : 0..MaxDay, status : {"NONE"} \cup Active \cup Final]]
        BY <2>a, <2>b, JobTypes, RowTypes, DaysAreDays DEF IInv, TypeOK, Kinds, Active, Final
      <3>3. task' \in [Procs -> [Days -> Tasks]]
        BY <2>a, <2>b, TaskTypes DEF IInv, TypeOK, Tasks
      <3> QED
        BY <2>a, <2>b, <3>1, <3>2, <3>3 DEF IInv, TypeOK
    <2>c. /\ \A e \in Days : e # d => row'[e] = row[e]
          /\ row'[d].status = row[d].result /\ row'[d].owner = NoProc
          /\ row'[d].result = row[d].result /\ (row[d].input => row'[d].input)
          /\ lock' = NoProc
          /\ todo' = [todo EXCEPT ![p] = @ \ {d}]
          /\ \A q \in Procs : q # p => job'[q] = job[q]
          /\ job'[p] = NoJob
          /\ UNCHANGED <<today, stage, on, pending, task, found>>
      BY <2>a DEF IInv, TypeOK, Rows
    <2>2. LockHeld'
      BY <2>a, <2>b, <2>1, <1>2, <1>p, DaysAreDays DEF IInv, TypeOK, LockHeld, Holding,
           StagesKept, NoJob
    <2>3. StagesKept'
      BY <2>a, <2>b, <2>1, <1>2, <1>p, DaysAreDays DEF IInv, TypeOK, StagesKept, LockHeld,
           Holding, Alone, JobTasks, NoJob
    <2>4. JobTasks'
      BY <2>a, <2>b, <2>1, <1>2, <1>p, DaysAreDays DEF IInv, TypeOK, JobTasks, StagesKept,
           LockHeld, Holding, HalfWritten, PreparedAlone, NoJob, Active, Final, IsActive
    <2>5. HalfWritten'
      BY SMTT(30), <2>a, <2>b, <2>1, <1>2, <1>p, DaysAreDays DEF IInv, TypeOK,
         HalfWritten, JobTasks,
           StagesKept, LockHeld, Holding, PreparedAlone, TaskRows, Alone, IsActive, NoJob,
           Active, Final
    <2>6. PreparedAlone'
      <3> SUFFICES ASSUME NEW q \in Procs, job'[q].kind \in {"prepare", "refuse"}
                 PROVE  /\ row'[job'[q].day].status = "CREATED"
                        /\ job'[q].kind = "prepare" => row'[job'[q].day].result = "none"
                        /\ \A r \in Procs : /\ job'[q].day \notin todo'[r] \cup found'[r]
                                            /\ task'[r][job'[q].day] = "none"
                                            /\ r # q => job'[r].kind = "none" \/ job'[r].day # job'[q].day
        BY DEF PreparedAlone
      <3>1. /\ q # p /\ job'[q] = job[q] /\ job[q].kind \in {"prepare", "refuse"}
            /\ job[q].day \in Days /\ job[q].day # d
        BY <2>c, <2>b, <1>2, <1>p DEF IInv, PreparedAlone, JobTasks, NoJob
      <3>2. \A r \in Procs : job'[r] = job[r] \/ job'[r].kind = "none" \/ job'[r].day = d
        BY <2>c DEF NoJob
      <3>3. row'[job[q].day] = row[job[q].day]
        BY <2>c, <3>1
      <3>4. \A r \in Procs : /\ todo'[r] \subseteq todo[r] /\ found'[r] \subseteq found[r] \cup {d}
                           /\ task'[r][job[q].day] = task[r][job[q].day]
        BY <2>c, <3>1 DEF IInv, TypeOK
      <3> QED
        BY <3>1, <3>2, <3>3, <3>4 DEF IInv, PreparedAlone
    <2>7. TaskRows'
      BY SMTT(30), <2>a, <2>b, <2>1, <1>2, <1>p, DaysAreDays DEF IInv, TypeOK, TaskRows,
         JobTasks,
           HalfWritten, StagesKept, LockHeld, Holding, PreparedAlone, RowsKept, Alone,
           Active, Final, NoJob, IsActive
    <2>8. RowsKept'
      BY SMTT(30), <2>a, <2>b, <2>1, <1>2, <1>p, DaysAreDays DEF IInv, TypeOK, RowsKept,
         OneActive,
           ResultAgrees, IsActive, Active, Final
    <2> QED
      BY <2>1, <2>2, <2>3, <2>4, <2>5, <2>6, <2>7, <2>8 DEF IInv
  <1>3. CASE /\ row[d].input /\ row[d].result \notin Final
               /\ \/ IsActive(d)
                  \/ row[d].status = "WAITING_USER" /\ \A e \in Days \ {d} : ~IsActive(e)
               /\ row' = [row EXCEPT ![d].status = "CREATED", ![d].owner = NoProc]
               /\ lock' = NoProc
               /\ todo' = [todo EXCEPT ![p] = @ \ {d}]
               /\ found' = [found EXCEPT ![p] = @ \cup {d}]
               /\ job' = [job EXCEPT ![p] = NoJob]
               /\ UNCHANGED <<today, stage, on, pending, task>>
    <2>a. /\ row' = [row EXCEPT ![d].status = "CREATED", ![d].owner = NoProc]
          /\ lock' = NoProc
          /\ todo' = [todo EXCEPT ![p] = @ \ {d}]
          /\ found' = [found EXCEPT ![p] = @ \cup {d}]
          /\ job' = [job EXCEPT ![p] = NoJob]
          /\ UNCHANGED <<today, stage, on, pending, task>>
      BY <1>3
    <2>b. /\ job[p].kind = "recover"
          /\ row[d].input /\ row[d].result \notin Final
          /\ \A e \in Days \ {d} : ~IsActive(e)
          /\ job[p].day = d
      BY <1>3, <1>p, RowTypes, JobTypes DEF RecoverApply, IInv, JobTasks, HalfWritten,
         RowsKept, OneActive
    <2>1. TypeOK'
      <3>0. /\ TypeOK /\ NoProc \in Procs \cup {NoProc}
            /\ "CREATED" \in {"NONE"} \cup Active \cup Final
        BY <2>a, <2>b, JobTypes DEF IInv, Active, Final
      <3>a. [row EXCEPT ![d].status = "CREATED", ![d].owner = NoProc] \in [Days -> Rows]
        BY <3>0, RowTypes
      <3>1. row' \in [Days -> Rows]
        BY <2>a, <3>a
      <3>2. job' \in [Procs -> [kind : Kinds, day : 0..MaxDay, status : {"NONE"} \cup Active \cup Final]]
        BY <2>a, <2>b, JobTypes, RowTypes, DaysAreDays DEF IInv, TypeOK, Kinds, Active, Final
      <3>3. task' \in [Procs -> [Days -> Tasks]]
        BY <2>a, <2>b, TaskTypes DEF IInv, TypeOK, Tasks
      <3> QED
        BY <2>a, <2>b, <3>1, <3>2, <3>3 DEF IInv, TypeOK
    <2>c. /\ \A e \in Days : e # d => row'[e] = row[e]
          /\ row'[d].status = "CREATED" /\ row'[d].owner = NoProc
          /\ row'[d].result = row[d].result /\ (row[d].input => row'[d].input)
          /\ lock' = NoProc
          /\ todo' = [todo EXCEPT ![p] = @ \ {d}]
          /\ found' = [found EXCEPT ![p] = @ \cup {d}]
          /\ \A q \in Procs : q # p => job'[q] = job[q]
          /\ job'[p] = NoJob
          /\ UNCHANGED <<today, stage, on, pending, task>>
      BY <2>a DEF IInv, TypeOK, Rows
    <2>2. LockHeld'
      BY <2>a, <2>b, <2>1, <1>3, <1>p, DaysAreDays DEF IInv, TypeOK, LockHeld, Holding,
           StagesKept, NoJob
    <2>3. StagesKept'
      BY <2>a, <2>b, <2>1, <1>3, <1>p, DaysAreDays DEF IInv, TypeOK, StagesKept, LockHeld,
           Holding, Alone, JobTasks, NoJob
    <2>4. JobTasks'
      BY <2>a, <2>b, <2>1, <1>3, <1>p, DaysAreDays DEF IInv, TypeOK, JobTasks, StagesKept,
           LockHeld, Holding, HalfWritten, PreparedAlone, NoJob, Active, Final, IsActive
    <2>5. HalfWritten'
      BY SMTT(30), <2>a, <2>b, <2>1, <1>3, <1>p, DaysAreDays DEF IInv, TypeOK,
         HalfWritten, JobTasks,
           StagesKept, LockHeld, Holding, PreparedAlone, TaskRows, Alone, IsActive, NoJob,
           Active, Final
    <2>6. PreparedAlone'
      <3> SUFFICES ASSUME NEW q \in Procs, job'[q].kind \in {"prepare", "refuse"}
                 PROVE  /\ row'[job'[q].day].status = "CREATED"
                        /\ job'[q].kind = "prepare" => row'[job'[q].day].result = "none"
                        /\ \A r \in Procs : /\ job'[q].day \notin todo'[r] \cup found'[r]
                                            /\ task'[r][job'[q].day] = "none"
                                            /\ r # q => job'[r].kind = "none" \/ job'[r].day # job'[q].day
        BY DEF PreparedAlone
      <3>1. /\ q # p /\ job'[q] = job[q] /\ job[q].kind \in {"prepare", "refuse"}
            /\ job[q].day \in Days /\ job[q].day # d
        BY <2>c, <2>b, <1>3, <1>p DEF IInv, PreparedAlone, JobTasks, NoJob
      <3>2. \A r \in Procs : job'[r] = job[r] \/ job'[r].kind = "none" \/ job'[r].day = d
        BY <2>c DEF NoJob
      <3>3. row'[job[q].day] = row[job[q].day]
        BY <2>c, <3>1
      <3>4. \A r \in Procs : /\ todo'[r] \subseteq todo[r] /\ found'[r] \subseteq found[r] \cup {d}
                           /\ task'[r][job[q].day] = task[r][job[q].day]
        BY <2>c, <3>1 DEF IInv, TypeOK
      <3> QED
        BY <3>1, <3>2, <3>3, <3>4 DEF IInv, PreparedAlone
    <2>7. TaskRows'
      BY SMTT(30), <2>a, <2>b, <2>1, <1>3, <1>p, DaysAreDays DEF IInv, TypeOK, TaskRows,
         JobTasks,
           HalfWritten, StagesKept, LockHeld, Holding, PreparedAlone, RowsKept, Alone,
           Active, Final, NoJob, IsActive
    <2>8. RowsKept'
      BY <2>a, <2>b, <2>1, <1>3, <1>p, DaysAreDays DEF IInv, TypeOK, RowsKept, OneActive,
           ResultAgrees, IsActive, Active, Final
    <2> QED
      BY <2>1, <2>2, <2>3, <2>4, <2>5, <2>6, <2>7, <2>8 DEF IInv
  <1>4. ASSUME NEW o \in {"FAILED", "STAGE_COMPLETED"},
               job[p].status \in Active, ~row[d].input,
               row' = [row EXCEPT ![d].result = o],
               job' = [job EXCEPT ![p] = [kind |-> "close", day |-> d, status |-> o]],
               UNCHANGED <<lock, today, stage, on, pending, task, todo, found>>
        PROVE  IInv'
    <2>a. /\ row' = [row EXCEPT ![d].result = o]
          /\ job' = [job EXCEPT ![p] = [kind |-> "close", day |-> d, status |-> o]]
          /\ UNCHANGED <<lock, today, stage, on, pending, task, todo, found>>
      BY <1>4
    <2>b. /\ job[p].kind = "recover"
          /\ IsActive(d)
          /\ job[p].day = d
      BY <1>4, <1>p, RowTypes, JobTypes DEF RecoverApply, IInv, JobTasks, HalfWritten,
         RowsKept, OneActive
    <2>1. TypeOK'
      <3>0. /\ TypeOK /\ NoProc \in Procs \cup {NoProc}
            /\ o \in {"SUSPENDED"} \cup Final
        BY <2>a, <2>b, JobTypes DEF IInv, Active, Final
      <3>a. [row EXCEPT ![d].result = o] \in [Days -> Rows]
        BY <3>0, RowTypes
      <3>1. row' \in [Days -> Rows]
        BY <2>a, <3>a
      <3>2. job' \in [Procs -> [kind : Kinds, day : 0..MaxDay, status : {"NONE"} \cup Active \cup Final]]
        <4>1. /\ "close" \in Kinds /\ d \in 0..MaxDay /\ TypeOK
              /\ o \in {"NONE"} \cup Active \cup Final
          BY DaysAreDays DEF Kinds, Final, IInv
        <4> QED
          BY <2>a, <4>1, JobTypes
      <3>3. task' \in [Procs -> [Days -> Tasks]]
        BY <2>a, <2>b, TaskTypes DEF IInv, TypeOK, Tasks
      <3> QED
        BY <2>a, <2>b, <3>1, <3>2, <3>3 DEF IInv, TypeOK
    <2>c. /\ \A e \in Days : e # d => row'[e] = row[e]
          /\ row'[d].status = row[d].status /\ row'[d].owner = row[d].owner
          /\ row'[d].result = o /\ (row[d].input => row'[d].input)
          /\ \A q \in Procs : q # p => job'[q] = job[q]
          /\ job'[p] = [kind |-> "close", day |-> d, status |-> o]
          /\ UNCHANGED <<lock, today, stage, on, pending, task, todo, found>>
      BY <2>a DEF IInv, TypeOK, Rows
    <2>2. LockHeld'
      BY <2>a, <2>b, <2>1, <1>4, <1>p, DaysAreDays DEF IInv, TypeOK, LockHeld, Holding,
           StagesKept, NoJob
    <2>3. StagesKept'
      BY <2>a, <2>b, <2>1, <1>4, <1>p, DaysAreDays DEF IInv, TypeOK, StagesKept, LockHeld,
           Holding, Alone, JobTasks, NoJob
    <2>4. JobTasks'
      BY <2>a, <2>b, <2>1, <1>4, <1>p, DaysAreDays DEF IInv, TypeOK, JobTasks, StagesKept,
           LockHeld, Holding, HalfWritten, PreparedAlone, NoJob, Active, Final, IsActive
    <2>5. HalfWritten'
      BY <2>a, <2>b, <2>1, <1>4, <1>p, DaysAreDays DEF IInv, TypeOK, HalfWritten, JobTasks,
           StagesKept, LockHeld, Holding, PreparedAlone, TaskRows, Alone, IsActive, NoJob,
           Active, Final
    <2>6. PreparedAlone'
      <3> SUFFICES ASSUME NEW q \in Procs, job'[q].kind \in {"prepare", "refuse"}
                 PROVE  /\ row'[job'[q].day].status = "CREATED"
                        /\ job'[q].kind = "prepare" => row'[job'[q].day].result = "none"
                        /\ \A r \in Procs : /\ job'[q].day \notin todo'[r] \cup found'[r]
                                            /\ task'[r][job'[q].day] = "none"
                                            /\ r # q => job'[r].kind = "none" \/ job'[r].day # job'[q].day
        BY DEF PreparedAlone
      <3>1. /\ q # p /\ job'[q] = job[q] /\ job[q].kind \in {"prepare", "refuse"}
            /\ job[q].day \in Days /\ job[q].day # d
        BY <2>c, <2>b, <1>4, <1>p DEF IInv, PreparedAlone, JobTasks, NoJob
      <3>2. \A r \in Procs : job'[r] = job[r] \/ job'[r].kind = "none" \/ job'[r].day = d
        BY <2>c DEF NoJob
      <3>3. row'[job[q].day] = row[job[q].day]
        BY <2>c, <3>1
      <3>4. \A r \in Procs : /\ todo'[r] \subseteq todo[r] /\ found'[r] \subseteq found[r] \cup {d}
                           /\ task'[r][job[q].day] = task[r][job[q].day]
        BY <2>c, <3>1 DEF IInv, TypeOK
      <3> QED
        BY <3>1, <3>2, <3>3, <3>4 DEF IInv, PreparedAlone
    <2>7. TaskRows'
      <3> SUFFICES ASSUME NEW q \in Procs, NEW e \in Days
                 PROVE  /\ task[q][e] \in {"working", "cancelled"} =>
                              row'[e].status = "RUNNING" /\ row'[e].owner = q
                        /\ task[q][e] # "none" \/ e \in todo[q] \cup found[q] => row'[e].status # "NONE"
                        /\ (task[q][e] = "queued" \/ e \in found[q]) /\ row'[e].status = "CREATED" =>
                              row'[e].result \notin Final /\ row'[e].input
        BY <2>a DEF TaskRows
      <3>1. /\ row'[e].status = row[e].status /\ row'[e].owner = row[e].owner
            /\ (row[e].input => row'[e].input) /\ (e # d => row'[e].result = row[e].result)
        BY <2>a DEF IInv, TypeOK, Rows
      <3>2. TaskRows /\ StagesKept
        BY DEF IInv
      <3>3. ASSUME task[q][d] = "queued" \/ d \in found[q], row[d].status = "CREATED"
            PROVE  FALSE
        <4>1. row[d].input
          BY <3>2, <3>3 DEF TaskRows
        <4>2. stage[q] # "down" => q = p \/ ~Alone(p)
          BY DEF Alone
        <4> QED
          BY <4>1, <4>2, <3>2, <3>3, <2>b, <1>4, <1>p DEF StagesKept
      <3> QED
        BY <3>1, <3>2, <3>3 DEF TaskRows
    <2>8. RowsKept'
      BY <2>a, <2>b, <2>1, <1>4, <1>p, DaysAreDays DEF IInv, TypeOK, RowsKept, OneActive,
           ResultAgrees, IsActive, Active, Final
    <2> QED
      BY <2>1, <2>2, <2>3, <2>4, <2>5, <2>6, <2>7, <2>8 DEF IInv
  <1>5. /\ job[p].kind = "recover" /\ job[p].day \in Days
        /\ job[p].status \in Active => IsActive(job[p].day)
        /\ \A e \in Days : IsActive(e) /\ IsActive(job[p].day) => e = job[p].day
    BY DEF RecoverApply, IInv, JobTasks, HalfWritten, RowsKept, OneActive
  <1> QED
    BY <1>p, <1>1, <1>2, <1>3, <1>4, <1>5
    DEF RecoverApply, Recovered, Put, Write, Job, EndJob, HasOutcome, Active, Final

\* Recovery ends, and the cycles it found get their tasks.
LEMMA Recovers ==
    ASSUME IInv, NEW p \in Procs, RecoverDone(p)
    PROVE  IInv'
  <1> USE RndAssumption, DaysAreNumbers
  <1>1. TypeOK'
    BY DEF IInv, TypeOK, Tasks, RecoverDone, diskVars
  <1>2. LockHeld'
    BY <1>1 DEF IInv, TypeOK, LockHeld, Holding, StagesKept, NoJob, RecoverDone, diskVars
  <1>3. StagesKept'
    <2>1. /\ stage[p] = "recovering" /\ todo[p] = {} /\ job[p] = NoJob
          /\ stage'[p] = "idle" /\ found'[p] = {}
          /\ \A d \in Days : task'[p][d] \in {"none", "queued"}
          /\ UNCHANGED <<lock, job, todo>>
      BY DEF RecoverDone, diskVars, IInv, TypeOK, StagesKept
    <2>2. \A q \in Procs \ {p} : stage'[q] = stage[q] /\ task'[q] = task[q] /\ found'[q] = found[q]
      BY DEF RecoverDone, IInv, TypeOK
    <2>3. StagesKept
      BY DEF IInv
    <2>4. \A q \in Procs \ {p} : ~Alone(q)
      BY <2>1 DEF Alone
    <2> SUFFICES ASSUME NEW q \in Procs
               PROVE
      /\ stage'[q] = "down" => lock' # q /\ job'[q] = NoJob
      /\ stage'[q] \in {"down", "recovering"} => \A d \in Days : task'[q][d] = "none"
      /\ stage'[q] # "recovering" => todo'[q] = {} /\ found'[q] = {}
      /\ job'[q].kind \in {"recover", "close"} => stage'[q] = "recovering"
      /\ stage'[q] = "recovering" => job'[q].kind \in {"none", "recover", "close"}
      /\ stage'[q] = "stopping" => Alone(q)'
      /\ \A d \in Days : task'[q][d] \in {"cut", "cancelled", "leaving"} => stage'[q] = "stopping"
      /\ \A d \in Days : task'[q][d] = "died" => Alone(q)'
      BY DEF StagesKept
    <2>5. CASE q = p
      BY <2>1, <2>5 DEF NoJob
    <2>6. CASE q # p
      BY <2>1, <2>2, <2>3, <2>4, <2>6 DEF StagesKept
    <2> QED BY <2>5, <2>6
  <1>4. JobTasks'
    BY <1>1 DEF IInv, TypeOK, JobTasks, StagesKept, LockHeld, Holding, HalfWritten,
       PreparedAlone, NoJob, Active,
           Final, IsActive, RecoverDone, diskVars
  <1>5. HalfWritten'
    BY <1>1 DEF IInv, TypeOK, HalfWritten, JobTasks, StagesKept, LockHeld, Holding,
       PreparedAlone, TaskRows,
           Alone, IsActive, NoJob, Active, Final, RecoverDone, diskVars
  <1>6. PreparedAlone'
    BY <1>1 DEF IInv, TypeOK, PreparedAlone, JobTasks, HalfWritten, StagesKept, LockHeld,
       Holding, TaskRows,
           RowsKept, Alone, NoJob, Active, Final, IsActive, RecoverDone, diskVars
  <1>7. TaskRows'
    BY <1>1 DEF IInv, TypeOK, TaskRows, JobTasks, HalfWritten, StagesKept, LockHeld,
       Holding, PreparedAlone,
           RowsKept, Alone, Active, Final, NoJob, IsActive, RecoverDone, diskVars
  <1>8. RowsKept'
    BY <1>1 DEF IInv, TypeOK, RowsKept, OneActive, ResultAgrees, IsActive, Active, Final,
       RecoverDone, diskVars
  <1> QED
    BY <1>1, <1>2, <1>3, <1>4, <1>5, <1>6, <1>7, <1>8 DEF IInv

\* A day passes.
LEMMA Passes ==
    ASSUME IInv, DayPasses
    PROVE  IInv'
  <1> USE RndAssumption, DaysAreNumbers
  <1>1. TypeOK'
    BY DEF IInv, TypeOK, Tasks, DayPasses, diskVars, procVars
  <1>2. LockHeld'
    BY <1>1 DEF IInv, TypeOK, LockHeld, Holding, StagesKept, NoJob, DayPasses, diskVars,
       procVars
  <1>3. StagesKept'
    BY <1>1 DEF IInv, TypeOK, StagesKept, LockHeld, Holding, Alone, JobTasks, NoJob,
       DayPasses, diskVars, procVars
  <1>4. JobTasks'
    BY <1>1 DEF IInv, TypeOK, JobTasks, StagesKept, LockHeld, Holding, HalfWritten,
       PreparedAlone, NoJob, Active,
           Final, IsActive, DayPasses, diskVars, procVars
  <1>5. HalfWritten'
    BY <1>1 DEF IInv, TypeOK, HalfWritten, JobTasks, StagesKept, LockHeld, Holding,
       PreparedAlone, TaskRows,
           Alone, IsActive, NoJob, Active, Final, DayPasses, diskVars, procVars
  <1>6. PreparedAlone'
    BY <1>1 DEF IInv, TypeOK, PreparedAlone, JobTasks, HalfWritten, StagesKept, LockHeld,
       Holding, TaskRows,
           RowsKept, Alone, NoJob, Active, Final, IsActive, DayPasses, diskVars,
           procVars
  <1>7. TaskRows'
    BY <1>1 DEF IInv, TypeOK, TaskRows, JobTasks, HalfWritten, StagesKept, LockHeld,
       Holding, PreparedAlone,
           RowsKept, Alone, Active, Final, NoJob, IsActive, DayPasses, diskVars,
           procVars
  <1>8. RowsKept'
    BY <1>1 DEF IInv, TypeOK, RowsKept, OneActive, ResultAgrees, IsActive, Active, Final,
       DayPasses, diskVars,
           procVars
  <1> QED
    BY <1>1, <1>2, <1>3, <1>4, <1>5, <1>6, <1>7, <1>8 DEF IInv

\* The runtime loop starts.
LEMMA Begins ==
    ASSUME IInv, NEW p \in Procs, Start(p)
    PROVE  IInv'
  <1> USE RndAssumption, DaysAreNumbers
  <1>1. TypeOK'
    BY RowTypes, JobTypes, TaskTypes DEF IInv, TypeOK, Tasks, Kinds, NoJob, Active, Final,
       JobTasks, Start, diskVars
  <1>2. LockHeld'
    BY <1>1 DEF IInv, TypeOK, LockHeld, Holding, StagesKept, NoJob, Start, diskVars
  <1>3. StagesKept'
    BY <1>1 DEF IInv, TypeOK, StagesKept, LockHeld, Holding, Alone, JobTasks, NoJob, Start,
       diskVars
  <1>4. JobTasks'
    BY <1>1 DEF IInv, TypeOK, JobTasks, StagesKept, LockHeld, Holding, HalfWritten,
       PreparedAlone, NoJob, Active,
           Final, IsActive, Start, diskVars
  <1>5. HalfWritten'
    BY <1>1 DEF IInv, TypeOK, HalfWritten, JobTasks, StagesKept, LockHeld, Holding,
       PreparedAlone, TaskRows,
           Alone, IsActive, NoJob, Active, Final, Start, diskVars
  <1>6. PreparedAlone'
    BY <1>1 DEF IInv, TypeOK, PreparedAlone, JobTasks, HalfWritten, StagesKept, LockHeld,
       Holding, TaskRows,
           RowsKept, Alone, NoJob, Active, Final, IsActive, Start, diskVars
  <1>7. TaskRows'
    BY <1>1 DEF IInv, TypeOK, TaskRows, JobTasks, HalfWritten, StagesKept, LockHeld,
       Holding, PreparedAlone,
           RowsKept, Alone, Active, Final, NoJob, IsActive, Start, diskVars
  <1>8. RowsKept'
    BY <1>1 DEF IInv, TypeOK, RowsKept, OneActive, ResultAgrees, IsActive, Active, Final,
       Start, diskVars
  <1> QED
    BY <1>1, <1>2, <1>3, <1>4, <1>5, <1>6, <1>7, <1>8 DEF IInv

\* The snapshot handler queues a day and creates a cycle.
LEMMA Creates ==
    ASSUME IInv, NEW p \in Procs, OnSnapshot(p)
    PROVE  IInv'
  <1> USE RndAssumption, DaysAreNumbers
  <1>a. pending[p] \in Seq(Days) /\ today \in Nat
    BY DEF IInv, TypeOK
  <1>b. NoteDue(p) \in Seq(Days)
    <2>1. today > 0 => today \in Days
      BY <1>a DEF IInv, TypeOK, Days
    <2> QED
      BY <1>a, <2>1 DEF NoteDue
  <1>c. pending' \in [Procs -> Seq(Days)]
    <2>1. NoteDue(p) # <<>> => Tail(NoteDue(p)) \in Seq(Days)
      BY <1>b
    <2>2. \E s \in Seq(Days) : pending' = [pending EXCEPT ![p] = s]
      BY <1>b, <2>1 DEF OnSnapshot
    <2> QED
      BY <2>2 DEF IInv, TypeOK
  <1>p. PICK d \in Days : NoteDue(p) # <<>> => d = Head(NoteDue(p))
    <2>1. NoteDue(p) # <<>> => Head(NoteDue(p)) \in Days
      BY <1>b
    <2> QED
      BY <2>1
  <1>1. CASE row' = row /\ job' = job
    <2>a. /\ row' = row
          /\ UNCHANGED <<lock, today, stage, on, task, todo, found, job>>
      BY <1>1, <1>p, <1>c DEF OnSnapshot, Put, Job, Free
    <2>b. /\ pending' \in [Procs -> Seq(Days)]
      BY <1>1, <1>p, <1>c, RowTypes, JobTypes DEF OnSnapshot, Creatable, Free
    <2>1. TypeOK'
      <3>1. row' \in [Days -> Rows]
        BY <2>a DEF IInv, TypeOK
      <3>2. job' \in [Procs -> [kind : Kinds, day : 0..MaxDay, status : {"NONE"} \cup Active \cup Final]]
        BY <2>a, <2>b, JobTypes, RowTypes, DaysAreDays DEF IInv, TypeOK, Kinds, Active, Final
      <3>3. task' \in [Procs -> [Days -> Tasks]]
        BY <2>a, <2>b, TaskTypes DEF IInv, TypeOK, Tasks
      <3> QED
        BY <2>a, <2>b, <3>1, <3>2, <3>3 DEF IInv, TypeOK
    <2>2. LockHeld'
      BY <2>a, <2>b, <2>1, <1>1, <1>p, <1>c, DaysAreDays DEF IInv, TypeOK, LockHeld,
           Holding, StagesKept, NoJob
    <2>3. StagesKept'
      BY <2>a, <2>b, <2>1, <1>1, <1>p, <1>c, DaysAreDays DEF IInv, TypeOK, StagesKept,
           LockHeld, Holding, Alone, JobTasks, NoJob
    <2>4. JobTasks'
      BY <2>a, <2>b, <2>1, <1>1, <1>p, <1>c, DaysAreDays DEF IInv, TypeOK, JobTasks,
           StagesKept, LockHeld, Holding, HalfWritten, PreparedAlone, NoJob, Active, Final,
           IsActive
    <2>5. HalfWritten'
      BY <2>a, <2>b, <2>1, <1>1, <1>p, <1>c, DaysAreDays DEF IInv, TypeOK, HalfWritten,
           JobTasks, StagesKept, LockHeld, Holding, PreparedAlone, TaskRows, Alone,
           IsActive, NoJob, Active, Final
    <2>6. PreparedAlone'
      BY <2>a, <2>b, <2>1, <1>1, <1>p, <1>c, DaysAreDays DEF IInv, TypeOK, PreparedAlone,
           JobTasks, HalfWritten, StagesKept, LockHeld, Holding, TaskRows, RowsKept, Alone,
           NoJob, Active, Final, IsActive
    <2>7. TaskRows'
      BY <2>a, <2>b, <2>1, <1>1, <1>p, <1>c, DaysAreDays DEF IInv, TypeOK, TaskRows,
           JobTasks, HalfWritten, StagesKept, LockHeld, Holding, PreparedAlone, RowsKept,
           Alone, Active, Final, NoJob, IsActive
    <2>8. RowsKept'
      BY <2>a, <2>b, <2>1, <1>1, <1>p, <1>c, DaysAreDays DEF IInv, TypeOK, RowsKept,
           OneActive, ResultAgrees, IsActive, Active, Final
    <2> QED
      BY <2>1, <2>2, <2>3, <2>4, <2>5, <2>6, <2>7, <2>8 DEF IInv
  <1>2. CASE /\ NoteDue(p) # <<>> /\ Creatable(d)
               /\ row' = [row EXCEPT ![d].status = "CREATED", ![d].owner = NoProc]
               /\ job' = [job EXCEPT ![p] = [kind |-> "prepare", day |-> d, status |-> "CREATED"]]
    <2>a. /\ row' = [row EXCEPT ![d].status = "CREATED", ![d].owner = NoProc]
          /\ job' = [job EXCEPT ![p] = [kind |-> "prepare", day |-> d, status |-> "CREATED"]]
          /\ UNCHANGED <<lock, today, stage, on, task, todo, found>>
      BY <1>2, <1>p, <1>c DEF OnSnapshot, Put, Job, Free
    <2>b. /\ pending' \in [Procs -> Seq(Days)]
          /\ job[p] = NoJob /\ stage[p] \in {"idle", "stopping"}
          /\ \A e \in Days : ~IsActive(e)
          /\ row[d].status = "NONE"
      BY <1>2, <1>p, <1>c, RowTypes, JobTypes DEF OnSnapshot, Creatable, Free
    <2>1. TypeOK'
      <3>0. /\ TypeOK /\ NoProc \in Procs \cup {NoProc}
            /\ "CREATED" \in {"NONE"} \cup Active \cup Final
        BY <2>a, <2>b, JobTypes DEF IInv, Active, Final
      <3>a. [row EXCEPT ![d].status = "CREATED", ![d].owner = NoProc] \in [Days -> Rows]
        BY <3>0, RowTypes
      <3>1. row' \in [Days -> Rows]
        BY <2>a, <3>a
      <3>2. job' \in [Procs -> [kind : Kinds, day : 0..MaxDay, status : {"NONE"} \cup Active \cup Final]]
        BY <2>a, <2>b, JobTypes, RowTypes, DaysAreDays DEF IInv, TypeOK, Kinds, Active, Final
      <3>3. task' \in [Procs -> [Days -> Tasks]]
        BY <2>a, <2>b, TaskTypes DEF IInv, TypeOK, Tasks
      <3> QED
        BY <2>a, <2>b, <3>1, <3>2, <3>3 DEF IInv, TypeOK
    <2>2. LockHeld'
      BY <2>a, <2>b, <2>1, <1>2, <1>p, <1>c, DaysAreDays DEF IInv, TypeOK, LockHeld,
           Holding, StagesKept, NoJob
    <2>3. StagesKept'
      BY <2>a, <2>b, <2>1, <1>2, <1>p, <1>c, DaysAreDays DEF IInv, TypeOK, StagesKept,
           LockHeld, Holding, Alone, JobTasks, NoJob
    <2>4. JobTasks'
      BY <2>a, <2>b, <2>1, <1>2, <1>p, <1>c, DaysAreDays DEF IInv, TypeOK, JobTasks,
           StagesKept, LockHeld, Holding, HalfWritten, PreparedAlone, NoJob, Active, Final,
           IsActive
    <2>5. HalfWritten'
      BY SMTT(30), <2>a, <2>b, <2>1, <1>2, <1>p, <1>c, DaysAreDays DEF IInv, TypeOK,
         HalfWritten,
           JobTasks, StagesKept, LockHeld, Holding, PreparedAlone, TaskRows, Alone,
           IsActive, NoJob, Active, Final
    <2>6. PreparedAlone'
      BY SMTT(30), <2>a, <2>b, <2>1, <1>2, <1>p, <1>c, DaysAreDays DEF IInv, TypeOK,
         PreparedAlone,
           JobTasks, HalfWritten, StagesKept, LockHeld, Holding, TaskRows, RowsKept, Alone,
           NoJob, Active, Final, IsActive
    <2>7. TaskRows'
      BY <2>a, <2>b, <2>1, <1>2, <1>p, <1>c, DaysAreDays DEF IInv, TypeOK, TaskRows,
           JobTasks, HalfWritten, StagesKept, LockHeld, Holding, PreparedAlone, RowsKept,
           Alone, Active, Final, NoJob, IsActive
    <2>8. RowsKept'
      BY <2>a, <2>b, <2>1, <1>2, <1>p, <1>c, DaysAreDays DEF IInv, TypeOK, RowsKept,
           OneActive, ResultAgrees, IsActive, Active, Final
    <2> QED
      BY <2>1, <2>2, <2>3, <2>4, <2>5, <2>6, <2>7, <2>8 DEF IInv
  <1> QED
    BY <1>p, <1>1, <1>2 DEF OnSnapshot, Put, Job

\* The directory of a new cycle cannot be made.
LEMMA CreationFails ==
    ASSUME IInv, NEW p \in Procs, CreateFails(p)
    PROVE  IInv'
  <1> USE RndAssumption, DaysAreNumbers
  <1> DEFINE d == job[p].day
  <1>a. /\ row' = [row EXCEPT ![d].status = "FAILED", ![d].owner = row[d].owner]
        /\ job' = [job EXCEPT ![p] = NoJob]
        /\ UNCHANGED <<lock, today, stage, on, pending, task, todo, found>>
    BY DEF CreateFails, Put, EndJob
  <1>b. /\ job[p].kind = "prepare"
        /\ d \in Days
        /\ row[d].result = "none" /\ row[d].status = "CREATED"
    BY RowTypes, JobTypes DEF CreateFails, IInv, JobTasks, PreparedAlone
  <1> HIDE DEF d
  <1>c. d = job[p].day
    BY DEF d
  <1>1. TypeOK'
    <2>0. /\ TypeOK /\ NoProc \in Procs \cup {NoProc}
          /\ "FAILED" \in {"NONE"} \cup Active \cup Final
      BY <1>a, <1>b, JobTypes DEF IInv, Active, Final
    <2>a. [row EXCEPT ![d].status = "FAILED", ![d].owner = row[d].owner] \in [Days -> Rows]
      <3>1. row[d].owner \in Procs \cup {NoProc}
        BY <2>0, <1>b DEF TypeOK, Rows
      <3> QED
        BY <2>0, <3>1, <1>b, RowTypes
    <2>1. row' \in [Days -> Rows]
      BY <1>a, <2>a
    <2>2. job' \in [Procs -> [kind : Kinds, day : 0..MaxDay, status : {"NONE"} \cup Active \cup Final]]
      BY <1>a, <1>b, JobTypes, RowTypes, DaysAreDays DEF IInv, TypeOK, Kinds, Active, Final, NoJob
    <2>3. task' \in [Procs -> [Days -> Tasks]]
      BY <1>a, <1>b, TaskTypes DEF IInv, TypeOK, Tasks
    <2> QED
      BY <1>a, <1>b, <2>1, <2>2, <2>3 DEF IInv, TypeOK
  <1>2. LockHeld'
    BY <1>a, <1>b, <1>1, <1>c, DaysAreDays DEF IInv, TypeOK, LockHeld,
         Holding, StagesKept, NoJob
  <1>3. StagesKept'
    BY <1>a, <1>b, <1>1, <1>c, DaysAreDays DEF IInv, TypeOK, StagesKept,
         LockHeld, Holding, Alone, JobTasks, NoJob
  <1>4. JobTasks'
    BY <1>a, <1>b, <1>1, <1>c, DaysAreDays DEF IInv, TypeOK, JobTasks,
         StagesKept, LockHeld, Holding, HalfWritten, PreparedAlone, NoJob, Active, Final,
         IsActive
  <1>5. HalfWritten'
    BY SMTT(30), <1>a, <1>b, <1>1, <1>c, DaysAreDays DEF IInv, TypeOK,
       HalfWritten,
         JobTasks, StagesKept, LockHeld, Holding, PreparedAlone, TaskRows, Alone,
         IsActive, NoJob, Active, Final
  <1>6. PreparedAlone'
    BY SMTT(30), <1>a, <1>b, <1>1, <1>c, DaysAreDays DEF IInv, TypeOK,
       PreparedAlone,
         JobTasks, HalfWritten, StagesKept, LockHeld, Holding, TaskRows, RowsKept, Alone,
         NoJob, Active, Final, IsActive
  <1>7. TaskRows'
    BY SMTT(30), <1>a, <1>b, <1>1, <1>c, DaysAreDays DEF IInv, TypeOK, TaskRows,
         JobTasks, HalfWritten, StagesKept, LockHeld, Holding, PreparedAlone, RowsKept,
         Alone, Active, Final, NoJob, IsActive
  <1>8. RowsKept'
    <2>1. /\ row'[d].status = "FAILED" /\ row'[d].result = "none"
          /\ \A e \in Days : e # d => row'[e] = row[e]
      BY <1>a, <1>b DEF IInv, TypeOK, Rows
    <2> QED
      BY <2>1 DEF IInv, RowsKept, OneActive, ResultAgrees, IsActive, Active, Final
  <1> QED
    BY <1>1, <1>2, <1>3, <1>4, <1>5, <1>6, <1>7, <1>8 DEF IInv

\* The input of a new cycle is prepared.
LEMMA Prepares ==
    ASSUME IInv, NEW p \in Procs, PrepareInput(p)
    PROVE  IInv'
  <1> USE RndAssumption, DaysAreNumbers
  <1>1. TypeOK'
    BY RowTypes, JobTypes, TaskTypes DEF IInv, TypeOK, Tasks, Kinds, NoJob, Active, Final,
       JobTasks, PrepareInput, procVars
  <1>2. LockHeld'
    BY <1>1 DEF IInv, TypeOK, LockHeld, Holding, StagesKept, NoJob, PrepareInput, procVars
  <1>3. StagesKept'
    BY <1>1 DEF IInv, TypeOK, StagesKept, LockHeld, Holding, Alone, JobTasks, NoJob,
       PrepareInput, procVars
  <1>4. JobTasks'
    BY <1>1 DEF IInv, TypeOK, JobTasks, StagesKept, LockHeld, Holding, HalfWritten,
       PreparedAlone, NoJob, Active,
           Final, IsActive, PrepareInput, procVars
  <1>5. HalfWritten'
    BY <1>1 DEF IInv, TypeOK, HalfWritten, JobTasks, StagesKept, LockHeld, Holding,
       PreparedAlone, TaskRows,
           Alone, IsActive, NoJob, Active, Final, PrepareInput, procVars
  <1>6. PreparedAlone'
    BY <1>1 DEF IInv, TypeOK, PreparedAlone, JobTasks, HalfWritten, StagesKept, LockHeld,
       Holding, TaskRows,
           RowsKept, Alone, NoJob, Active, Final, IsActive, PrepareInput, procVars
  <1>7. TaskRows'
    BY <1>1 DEF IInv, TypeOK, TaskRows, JobTasks, HalfWritten, StagesKept, LockHeld,
       Holding, PreparedAlone,
           RowsKept, Alone, Active, Final, NoJob, IsActive, PrepareInput, procVars
  <1>8. RowsKept'
    BY <1>1 DEF IInv, TypeOK, RowsKept, OneActive, ResultAgrees, IsActive, Active, Final,
       PrepareInput, procVars
  <1> QED
    BY <1>1, <1>2, <1>3, <1>4, <1>5, <1>6, <1>7, <1>8 DEF IInv

\* The new cycle gets its task.
LEMMA Queues ==
    ASSUME IInv, NEW p \in Procs, QueueTask(p)
    PROVE  IInv'
  <1> USE RndAssumption, DaysAreNumbers
  <1>a. /\ task' = [task EXCEPT ![p][job[p].day] = "queued"]
        /\ job' = [job EXCEPT ![p] = NoJob]
        /\ UNCHANGED <<row, lock, today, stage, on, pending, todo, found>>
    BY DEF QueueTask, SetTask, EndJob, diskVars
  <1>b. /\ stage[p] \notin {"down", "recovering"}
        /\ job[p].kind = "prepare" /\ row[job[p].day].input
        /\ job[p].day \in Days
    BY RowTypes, JobTypes DEF QueueTask, SetTask, EndJob, diskVars, IInv, StagesKept,
       JobTasks, TaskRows, HalfWritten, HasOutcome, IsActive, Creatable, MaySuspend,
       Owned, Active, NoJob
  <1>1. TypeOK'
    <2>1. row' \in [Days -> Rows]
      BY <1>a DEF IInv, TypeOK
    <2>2. job' \in [Procs -> [kind : Kinds, day : 0..MaxDay, status : {"NONE"} \cup Active \cup Final]]
      BY <1>a, <1>b, JobTypes, RowTypes, DaysAreDays DEF IInv, TypeOK, Kinds, Active, Final
    <2>3. task' \in [Procs -> [Days -> Tasks]]
      BY <1>a, <1>b, TaskTypes DEF IInv, TypeOK, Tasks
    <2> QED
      BY <1>a, <1>b, <2>1, <2>2, <2>3 DEF IInv, TypeOK
  <1>2. LockHeld'
    BY <1>a, <1>b, <1>1, DaysAreDays DEF IInv, TypeOK, LockHeld, Holding, StagesKept, NoJob
  <1>3. StagesKept'
    BY <1>a, <1>b, <1>1, DaysAreDays DEF IInv, TypeOK, StagesKept, LockHeld, Holding, Alone,
         JobTasks, NoJob
  <1>4. JobTasks'
    BY <1>a, <1>b, <1>1, DaysAreDays DEF IInv, TypeOK, JobTasks, StagesKept, LockHeld,
         Holding, HalfWritten, PreparedAlone, NoJob, Active, Final, IsActive
  <1>5. HalfWritten'
    BY <1>a, <1>b, <1>1, DaysAreDays DEF IInv, TypeOK, HalfWritten, JobTasks, StagesKept,
         LockHeld, Holding, PreparedAlone, TaskRows, Alone, IsActive, NoJob, Active, Final
  <1>6. PreparedAlone'
    BY <1>a, <1>b, <1>1, DaysAreDays DEF IInv, TypeOK, PreparedAlone, JobTasks, HalfWritten,
         StagesKept, LockHeld, Holding, TaskRows, RowsKept, Alone, NoJob, Active, Final,
         IsActive
  <1>7. TaskRows'
    BY <1>a, <1>b, <1>1, DaysAreDays DEF IInv, TypeOK, TaskRows, JobTasks, HalfWritten,
         StagesKept, LockHeld, Holding, PreparedAlone, RowsKept, Alone, Active, Final,
         NoJob, IsActive
  <1>8. RowsKept'
    BY <1>a, <1>b, <1>1, DaysAreDays DEF IInv, TypeOK, RowsKept, OneActive, ResultAgrees,
         IsActive, Active, Final
  <1> QED
    BY <1>1, <1>2, <1>3, <1>4, <1>5, <1>6, <1>7, <1>8 DEF IInv

\* A preparation fails.
LEMMA Refuses ==
    ASSUME IInv, NEW p \in Procs, PrepareFails(p)
    PROVE  IInv'
  <1> USE RndAssumption, DaysAreNumbers
  <1>1. CASE IsActive(job[p].day)
    <2>a. /\ row' = [row EXCEPT ![job[p].day].result = "FAILED"]
          /\ job' = [job EXCEPT ![p] = [kind |-> "refuse", day |-> job[p].day, status |-> "FAILED"]]
          /\ UNCHANGED <<lock, today, stage, on, pending, task, todo, found>>
      BY <1>1 DEF PrepareFails, Write, Job, EndJob, IsActive
    <2>b. /\ job[p].kind = "prepare"
          /\ job[p].day \in Days
      BY <1>1, RowTypes, JobTypes DEF PrepareFails, Write, Job, EndJob, IsActive, IInv,
         StagesKept, JobTasks, TaskRows, HalfWritten, HasOutcome, Creatable, MaySuspend,
         Owned, Active, NoJob
    <2>1. TypeOK'
      <3>1. row' \in [Days -> Rows]
        BY <2>a, <2>b, <1>1, RowTypes, JobTypes DEF IInv, TypeOK, HalfWritten, JobTasks,
           IsActive, Active, Final
      <3>2. job' \in [Procs -> [kind : Kinds, day : 0..MaxDay, status : {"NONE"} \cup Active \cup Final]]
        BY <2>a, <2>b, JobTypes, RowTypes, DaysAreDays DEF IInv, TypeOK, Kinds, Active, Final
      <3>3. task' \in [Procs -> [Days -> Tasks]]
        BY <2>a, <2>b, TaskTypes DEF IInv, TypeOK, Tasks
      <3> QED
        BY <2>a, <2>b, <3>1, <3>2, <3>3 DEF IInv, TypeOK
    <2>2. LockHeld'
      BY <2>a, <2>b, <2>1, <1>1, DaysAreDays DEF IInv, TypeOK, LockHeld, Holding,
           StagesKept, NoJob
    <2>3. StagesKept'
      BY <2>a, <2>b, <2>1, <1>1, DaysAreDays DEF IInv, TypeOK, StagesKept, LockHeld,
           Holding, Alone, JobTasks, NoJob
    <2>4. JobTasks'
      BY <2>a, <2>b, <2>1, <1>1, DaysAreDays DEF IInv, TypeOK, JobTasks, StagesKept,
           LockHeld, Holding, HalfWritten, PreparedAlone, NoJob, Active, Final, IsActive
    <2>5. HalfWritten'
      BY <2>a, <2>b, <2>1, <1>1, DaysAreDays DEF IInv, TypeOK, HalfWritten, JobTasks,
           StagesKept, LockHeld, Holding, PreparedAlone, TaskRows, Alone, IsActive, NoJob,
           Active, Final
    <2>6. PreparedAlone'
      BY <2>a, <2>b, <2>1, <1>1, DaysAreDays DEF IInv, TypeOK, PreparedAlone, JobTasks,
           HalfWritten, StagesKept, LockHeld, Holding, TaskRows, RowsKept, Alone, NoJob,
           Active, Final, IsActive
    <2>7. TaskRows'
      BY <2>a, <2>b, <2>1, <1>1, DaysAreDays DEF IInv, TypeOK, TaskRows, JobTasks,
           HalfWritten, StagesKept, LockHeld, Holding, PreparedAlone, RowsKept, Alone,
           Active, Final, NoJob, IsActive
    <2>8. RowsKept'
      BY <2>a, <2>b, <2>1, <1>1, DaysAreDays DEF IInv, TypeOK, RowsKept, OneActive,
           ResultAgrees, IsActive, Active, Final
    <2> QED
      BY <2>1, <2>2, <2>3, <2>4, <2>5, <2>6, <2>7, <2>8 DEF IInv
  <1>2. CASE ~IsActive(job[p].day)
    <2>a. /\ job' = [job EXCEPT ![p] = NoJob]
          /\ UNCHANGED <<row, lock, today, stage, on, pending, task, todo, found>>
      BY <1>2 DEF PrepareFails, Write, Job, EndJob, IsActive
    <2>b. /\ job[p].kind = "prepare"
          /\ job[p].day \in Days
      BY <1>2, RowTypes, JobTypes DEF PrepareFails, Write, Job, EndJob, IsActive, IInv,
         StagesKept, JobTasks, TaskRows, HalfWritten, HasOutcome, Creatable, MaySuspend,
         Owned, Active, NoJob
    <2>1. TypeOK'
      <3>1. row' \in [Days -> Rows]
        BY <2>a DEF IInv, TypeOK
      <3>2. job' \in [Procs -> [kind : Kinds, day : 0..MaxDay, status : {"NONE"} \cup Active \cup Final]]
        BY <2>a, <2>b, JobTypes, RowTypes, DaysAreDays DEF IInv, TypeOK, Kinds, Active, Final
      <3>3. task' \in [Procs -> [Days -> Tasks]]
        BY <2>a, <2>b, TaskTypes DEF IInv, TypeOK, Tasks
      <3> QED
        BY <2>a, <2>b, <3>1, <3>2, <3>3 DEF IInv, TypeOK
    <2>2. LockHeld'
      BY <2>a, <2>b, <2>1, <1>2, DaysAreDays DEF IInv, TypeOK, LockHeld, Holding,
           StagesKept, NoJob
    <2>3. StagesKept'
      BY <2>a, <2>b, <2>1, <1>2, DaysAreDays DEF IInv, TypeOK, StagesKept, LockHeld,
           Holding, Alone, JobTasks, NoJob
    <2>4. JobTasks'
      BY <2>a, <2>b, <2>1, <1>2, DaysAreDays DEF IInv, TypeOK, JobTasks, StagesKept,
           LockHeld, Holding, HalfWritten, PreparedAlone, NoJob, Active, Final, IsActive
    <2>5. HalfWritten'
      BY <2>a, <2>b, <2>1, <1>2, DaysAreDays DEF IInv, TypeOK, HalfWritten, JobTasks,
           StagesKept, LockHeld, Holding, PreparedAlone, TaskRows, Alone, IsActive, NoJob,
           Active, Final
    <2>6. PreparedAlone'
      BY <2>a, <2>b, <2>1, <1>2, DaysAreDays DEF IInv, TypeOK, PreparedAlone, JobTasks,
           HalfWritten, StagesKept, LockHeld, Holding, TaskRows, RowsKept, Alone, NoJob,
           Active, Final, IsActive
    <2>7. TaskRows'
      BY <2>a, <2>b, <2>1, <1>2, DaysAreDays DEF IInv, TypeOK, TaskRows, JobTasks,
           HalfWritten, StagesKept, LockHeld, Holding, PreparedAlone, RowsKept, Alone,
           Active, Final, NoJob, IsActive
    <2>8. RowsKept'
      BY <2>a, <2>b, <2>1, <1>2, DaysAreDays DEF IInv, TypeOK, RowsKept, OneActive,
           ResultAgrees, IsActive, Active, Final
    <2> QED
      BY <2>1, <2>2, <2>3, <2>4, <2>5, <2>6, <2>7, <2>8 DEF IInv
  <1> QED
    BY <1>1, <1>2

\* A task takes the lock and claims its row.
LEMMA Runs ==
    ASSUME IInv, NEW p \in Procs, NEW d \in Days, RunTask(p, d)
    PROVE  IInv'
  <1> USE RndAssumption, DaysAreNumbers
  <1>1. CASE lock = NoProc /\ row[d].status = "CREATED"
    <2>a. /\ lock' = p
          /\ row' = [row EXCEPT ![d].status = "RUNNING", ![d].owner = p]
          /\ task' = [task EXCEPT ![p][d] = "working"]
          /\ UNCHANGED <<today, stage, on, pending, todo, found, job>>
      BY <1>1 DEF RunTask, Free, Put, SetTask, diskVars
    <2>b. /\ task[p][d] = "queued" /\ job[p] = NoJob /\ stage[p] \in {"idle", "stopping"}
      BY <1>1, RowTypes, JobTypes DEF RunTask, Free, Put, SetTask, diskVars, IInv,
         StagesKept, JobTasks, TaskRows, HalfWritten, HasOutcome, IsActive, Creatable,
         MaySuspend, Owned, Active, NoJob
    <2>1. TypeOK'
      <3>1. row' \in [Days -> Rows]
        BY <2>a, <2>b, <1>1, RowTypes, JobTypes DEF IInv, TypeOK, HalfWritten, JobTasks,
           IsActive, Active, Final
      <3>2. job' \in [Procs -> [kind : Kinds, day : 0..MaxDay, status : {"NONE"} \cup Active \cup Final]]
        BY <2>a, <2>b, JobTypes, RowTypes, DaysAreDays DEF IInv, TypeOK, Kinds, Active, Final
      <3>3. task' \in [Procs -> [Days -> Tasks]]
        BY <2>a, <2>b, TaskTypes DEF IInv, TypeOK, Tasks
      <3> QED
        BY <2>a, <2>b, <3>1, <3>2, <3>3 DEF IInv, TypeOK
    <2>2. LockHeld'
      BY <2>a, <2>b, <2>1, <1>1, DaysAreDays DEF IInv, TypeOK, LockHeld, Holding,
           StagesKept, NoJob
    <2>3. StagesKept'
      BY <2>a, <2>b, <2>1, <1>1, DaysAreDays DEF IInv, TypeOK, StagesKept, LockHeld,
           Holding, Alone, JobTasks, NoJob
    <2>4. JobTasks'
      BY <2>a, <2>b, <2>1, <1>1, DaysAreDays DEF IInv, TypeOK, JobTasks, StagesKept,
           LockHeld, Holding, HalfWritten, PreparedAlone, NoJob, Active, Final, IsActive
    <2>5. HalfWritten'
      BY <2>a, <2>b, <2>1, <1>1, DaysAreDays DEF IInv, TypeOK, HalfWritten, JobTasks,
           StagesKept, LockHeld, Holding, PreparedAlone, TaskRows, Alone, IsActive, NoJob,
           Active, Final
    <2>6. PreparedAlone'
      BY <2>a, <2>b, <2>1, <1>1, DaysAreDays DEF IInv, TypeOK, PreparedAlone, JobTasks,
           HalfWritten, StagesKept, LockHeld, Holding, TaskRows, RowsKept, Alone, NoJob,
           Active, Final, IsActive
    <2>7. TaskRows'
      BY <2>a, <2>b, <2>1, <1>1, DaysAreDays DEF IInv, TypeOK, TaskRows, JobTasks,
           HalfWritten, StagesKept, LockHeld, Holding, PreparedAlone, RowsKept, Alone,
           Active, Final, NoJob, IsActive
    <2>8. RowsKept'
      BY <2>a, <2>b, <2>1, <1>1, DaysAreDays DEF IInv, TypeOK, RowsKept, OneActive,
           ResultAgrees, IsActive, Active, Final
    <2> QED
      BY <2>1, <2>2, <2>3, <2>4, <2>5, <2>6, <2>7, <2>8 DEF IInv
  <1>2. CASE ~(lock = NoProc /\ row[d].status = "CREATED")
    <2>a. /\ task' = [task EXCEPT ![p][d] = "none"]
          /\ UNCHANGED <<row, lock, today, stage, on, pending, todo, found, job>>
      BY <1>2 DEF RunTask, Free, Put, SetTask, diskVars
    <2>b. /\ task[p][d] = "queued" /\ job[p] = NoJob
      BY <1>2, RowTypes, JobTypes DEF RunTask, Free, Put, SetTask, diskVars, IInv,
         StagesKept, JobTasks, TaskRows, HalfWritten, HasOutcome, IsActive, Creatable,
         MaySuspend, Owned, Active, NoJob
    <2>1. TypeOK'
      <3>1. row' \in [Days -> Rows]
        BY <2>a DEF IInv, TypeOK
      <3>2. job' \in [Procs -> [kind : Kinds, day : 0..MaxDay, status : {"NONE"} \cup Active \cup Final]]
        BY <2>a, <2>b, JobTypes, RowTypes, DaysAreDays DEF IInv, TypeOK, Kinds, Active, Final
      <3>3. task' \in [Procs -> [Days -> Tasks]]
        BY <2>a, <2>b, TaskTypes DEF IInv, TypeOK, Tasks
      <3> QED
        BY <2>a, <2>b, <3>1, <3>2, <3>3 DEF IInv, TypeOK
    <2>2. LockHeld'
      BY <2>a, <2>b, <2>1, <1>2, DaysAreDays DEF IInv, TypeOK, LockHeld, Holding,
           StagesKept, NoJob
    <2>3. StagesKept'
      BY <2>a, <2>b, <2>1, <1>2, DaysAreDays DEF IInv, TypeOK, StagesKept, LockHeld,
           Holding, Alone, JobTasks, NoJob
    <2>4. JobTasks'
      BY <2>a, <2>b, <2>1, <1>2, DaysAreDays DEF IInv, TypeOK, JobTasks, StagesKept,
           LockHeld, Holding, HalfWritten, PreparedAlone, NoJob, Active, Final, IsActive
    <2>5. HalfWritten'
      BY <2>a, <2>b, <2>1, <1>2, DaysAreDays DEF IInv, TypeOK, HalfWritten, JobTasks,
           StagesKept, LockHeld, Holding, PreparedAlone, TaskRows, Alone, IsActive, NoJob,
           Active, Final
    <2>6. PreparedAlone'
      BY <2>a, <2>b, <2>1, <1>2, DaysAreDays DEF IInv, TypeOK, PreparedAlone, JobTasks,
           HalfWritten, StagesKept, LockHeld, Holding, TaskRows, RowsKept, Alone, NoJob,
           Active, Final, IsActive
    <2>7. TaskRows'
      BY <2>a, <2>b, <2>1, <1>2, DaysAreDays DEF IInv, TypeOK, TaskRows, JobTasks,
           HalfWritten, StagesKept, LockHeld, Holding, PreparedAlone, RowsKept, Alone,
           Active, Final, NoJob, IsActive
    <2>8. RowsKept'
      BY <2>a, <2>b, <2>1, <1>2, DaysAreDays DEF IInv, TypeOK, RowsKept, OneActive,
           ResultAgrees, IsActive, Active, Final
    <2> QED
      BY <2>1, <2>2, <2>3, <2>4, <2>5, <2>6, <2>7, <2>8 DEF IInv
  <1> QED
    BY <1>1, <1>2

\* Progress is saved.
LEMMA Saves ==
    ASSUME IInv, NEW p \in Procs, NEW d \in Days, SaveProgress(p, d)
    PROVE  IInv'
  <1> USE RndAssumption, DaysAreNumbers
  <1>c. [row EXCEPT ![d].status = "RUNNING", ![d].owner = row[d].owner] = row
    <2>1. row[d].status = "RUNNING" /\ row[d] \in Rows
      BY DEF SaveProgress, IInv, TaskRows, TypeOK
    <2>2. [row[d] EXCEPT !.status = "RUNNING", !.owner = row[d].owner] = row[d]
      BY <2>1 DEF Rows
    <2> QED
      BY <2>2 DEF IInv, TypeOK
  <1>a. /\ row' = row
        /\ UNCHANGED <<lock, today, stage, on, pending, task, todo, found, job>>
    BY <1>c DEF SaveProgress, Free, Put, procVars
  <1>b. /\ task[p][d] \in {"working", "cancelled"}
        /\ row[d].status = "RUNNING" /\ job[p] = NoJob
    BY <1>c, RowTypes, JobTypes DEF SaveProgress, Free, Put, procVars, IInv, StagesKept,
       JobTasks, TaskRows, HalfWritten, HasOutcome, IsActive, Creatable, MaySuspend,
       Owned, Active, NoJob
  <1>1. TypeOK'
    <2>1. row' \in [Days -> Rows]
      BY <1>a DEF IInv, TypeOK
    <2>2. job' \in [Procs -> [kind : Kinds, day : 0..MaxDay, status : {"NONE"} \cup Active \cup Final]]
      BY <1>a, <1>b, JobTypes, RowTypes, DaysAreDays DEF IInv, TypeOK, Kinds, Active, Final
    <2>3. task' \in [Procs -> [Days -> Tasks]]
      BY <1>a, <1>b, TaskTypes DEF IInv, TypeOK, Tasks
    <2> QED
      BY <1>a, <1>b, <2>1, <2>2, <2>3 DEF IInv, TypeOK
  <1>2. LockHeld'
    BY <1>a, <1>b, <1>1, <1>c, DaysAreDays DEF IInv, TypeOK, LockHeld, Holding, StagesKept,
         NoJob
  <1>3. StagesKept'
    BY <1>a, <1>b, <1>1, <1>c, DaysAreDays DEF IInv, TypeOK, StagesKept, LockHeld, Holding,
         Alone, JobTasks, NoJob
  <1>4. JobTasks'
    BY <1>a, <1>b, <1>1, <1>c, DaysAreDays DEF IInv, TypeOK, JobTasks, StagesKept, LockHeld,
         Holding, HalfWritten, PreparedAlone, NoJob, Active, Final, IsActive
  <1>5. HalfWritten'
    BY <1>a, <1>b, <1>1, <1>c, DaysAreDays DEF IInv, TypeOK, HalfWritten, JobTasks,
         StagesKept, LockHeld, Holding, PreparedAlone, TaskRows, Alone, IsActive, NoJob,
         Active, Final
  <1>6. PreparedAlone'
    BY <1>a, <1>b, <1>1, <1>c, DaysAreDays DEF IInv, TypeOK, PreparedAlone, JobTasks,
         HalfWritten, StagesKept, LockHeld, Holding, TaskRows, RowsKept, Alone, NoJob,
         Active, Final, IsActive
  <1>7. TaskRows'
    BY <1>a, <1>b, <1>1, <1>c, DaysAreDays DEF IInv, TypeOK, TaskRows, JobTasks,
         HalfWritten, StagesKept, LockHeld, Holding, PreparedAlone, RowsKept, Alone, Active,
         Final, NoJob, IsActive
  <1>8. RowsKept'
    BY <1>a, <1>b, <1>1, <1>c, DaysAreDays DEF IInv, TypeOK, RowsKept, OneActive,
         ResultAgrees, IsActive, Active, Final
  <1> QED
    BY <1>1, <1>2, <1>3, <1>4, <1>5, <1>6, <1>7, <1>8 DEF IInv

\* The work ends, and its result is written.
LEMMA Works ==
    ASSUME IInv, NEW p \in Procs, NEW d \in Days, NEW o \in Final, EndWork(p, d, o)
    PROVE  IInv'
  <1> USE RndAssumption, DaysAreNumbers
  <1>a. /\ row' = [row EXCEPT ![d].result = o]
        /\ job' = [job EXCEPT ![p] = [kind |-> "finish", day |-> d, status |-> o]]
        /\ UNCHANGED <<lock, today, stage, on, pending, task, todo, found>>
    BY DEF EndWork, Free, Write, Job
  <1>b. /\ task[p][d] = "working" /\ job[p] = NoJob
        /\ row[d].status = "RUNNING"
    BY RowTypes, JobTypes DEF EndWork, Free, Write, Job, IInv, StagesKept, JobTasks,
       TaskRows, HalfWritten, HasOutcome, IsActive, Creatable, MaySuspend, Owned, Active,
       NoJob
  <1>1. TypeOK'
    <2>1. row' \in [Days -> Rows]
      BY <1>a, <1>b, RowTypes, JobTypes DEF IInv, TypeOK, HalfWritten, JobTasks, IsActive,
         Active, Final
    <2>2. job' \in [Procs -> [kind : Kinds, day : 0..MaxDay, status : {"NONE"} \cup Active \cup Final]]
      BY <1>a, <1>b, JobTypes, RowTypes, DaysAreDays DEF IInv, TypeOK, Kinds, Active, Final
    <2>3. task' \in [Procs -> [Days -> Tasks]]
      BY <1>a, <1>b, TaskTypes DEF IInv, TypeOK, Tasks
    <2> QED
      BY <1>a, <1>b, <2>1, <2>2, <2>3 DEF IInv, TypeOK
  <1>2. LockHeld'
    BY <1>a, <1>b, <1>1, DaysAreDays DEF IInv, TypeOK, LockHeld, Holding, StagesKept, NoJob
  <1>3. StagesKept'
    BY <1>a, <1>b, <1>1, DaysAreDays DEF IInv, TypeOK, StagesKept, LockHeld, Holding, Alone,
         JobTasks, NoJob
  <1>4. JobTasks'
    BY <1>a, <1>b, <1>1, DaysAreDays DEF IInv, TypeOK, JobTasks, StagesKept, LockHeld,
         Holding, HalfWritten, PreparedAlone, NoJob, Active, Final, IsActive
  <1>5. HalfWritten'
    BY <1>a, <1>b, <1>1, DaysAreDays DEF IInv, TypeOK, HalfWritten, JobTasks, StagesKept,
         LockHeld, Holding, PreparedAlone, TaskRows, Alone, IsActive, NoJob, Active, Final
  <1>6. PreparedAlone'
    BY <1>a, <1>b, <1>1, DaysAreDays DEF IInv, TypeOK, PreparedAlone, JobTasks, HalfWritten,
         StagesKept, LockHeld, Holding, TaskRows, RowsKept, Alone, NoJob, Active, Final,
         IsActive
  <1>7. TaskRows'
    BY <1>a, <1>b, <1>1, DaysAreDays DEF IInv, TypeOK, TaskRows, JobTasks, HalfWritten,
         StagesKept, LockHeld, Holding, PreparedAlone, RowsKept, Alone, Active, Final,
         NoJob, IsActive
  <1>8. RowsKept'
    BY <1>a, <1>b, <1>1, DaysAreDays DEF IInv, TypeOK, RowsKept, OneActive, ResultAgrees,
         IsActive, Active, Final
  <1> QED
    BY <1>1, <1>2, <1>3, <1>4, <1>5, <1>6, <1>7, <1>8 DEF IInv

\* The handoff fails.
LEMMA Fails ==
    ASSUME IInv, NEW p \in Procs, HandoffFails(p)
    PROVE  IInv'
  <1> USE RndAssumption, DaysAreNumbers
  <1>1. TypeOK'
    <2>1. job[p].day \in Days /\ "FAILED" \in {"SUSPENDED"} \cup Final
      BY DEF HandoffFails, IInv, JobTasks, Final
    <2>2. [row EXCEPT ![job[p].day].result = "FAILED"] \in [Days -> Rows]
      BY <2>1, RowTypes DEF IInv
    <2>3. [job EXCEPT ![p] = [kind |-> "finish", day |-> job[p].day, status |-> "FAILED"]] \in
            [Procs -> [kind : Kinds, day : 0..MaxDay, status : {"NONE"} \cup Active \cup Final]]
      BY <2>1, JobTypes, DaysAreDays DEF IInv, Kinds, Final
    <2> QED
      BY <2>2, <2>3 DEF IInv, TypeOK, HandoffFails, Write, Job
  <1>2. LockHeld'
    BY <1>1 DEF IInv, TypeOK, LockHeld, Holding, StagesKept, NoJob, HandoffFails, Write, Job
  <1>3. StagesKept'
    BY <1>1 DEF IInv, TypeOK, StagesKept, LockHeld, Holding, Alone, JobTasks, NoJob,
       HandoffFails, Write, Job
  <1>4. JobTasks'
    BY <1>1 DEF IInv, TypeOK, JobTasks, StagesKept, LockHeld, Holding, HalfWritten,
       PreparedAlone, NoJob, Active,
           Final, IsActive, HandoffFails, Write, Job
  <1>5. HalfWritten'
    BY <1>1 DEF IInv, TypeOK, HalfWritten, JobTasks, StagesKept, LockHeld, Holding,
       PreparedAlone, TaskRows,
           Alone, IsActive, NoJob, Active, Final, HandoffFails, Write, Job
  <1>6. PreparedAlone'
    BY <1>1 DEF IInv, TypeOK, PreparedAlone, JobTasks, HalfWritten, StagesKept, LockHeld,
       Holding, TaskRows,
           RowsKept, Alone, NoJob, Active, Final, IsActive, HandoffFails, Write, Job
  <1>7. TaskRows'
    BY <1>1 DEF IInv, TypeOK, TaskRows, JobTasks, HalfWritten, StagesKept, LockHeld,
       Holding, PreparedAlone,
           RowsKept, Alone, Active, Final, NoJob, IsActive, HandoffFails, Write, Job
  <1>8. RowsKept'
    BY <1>1 DEF IInv, TypeOK, RowsKept, OneActive, ResultAgrees, IsActive, Active, Final,
       HalfWritten, JobTasks,
           HandoffFails, Write, Job
  <1> QED
    BY <1>1, <1>2, <1>3, <1>4, <1>5, <1>6, <1>7, <1>8 DEF IInv

\* A task dies with its handler.
LEMMA Dies ==
    ASSUME IInv, NEW p \in Procs, NEW d \in Days, TaskDies(p, d)
    PROVE  IInv'
  <1> USE RndAssumption, DaysAreNumbers
  <1>a. /\ task' = [task EXCEPT ![p][d] = "died"]
        /\ job' = [job EXCEPT ![p] = NoJob]
        /\ lock' = NoProc
        /\ UNCHANGED <<row, today, stage, on, pending, todo, found>>
    BY DEF TaskDies, Free, SetTask, EndJob
  <1>b. /\ task[p][d] = "working" /\ Alone(p)
        /\ job[p] = NoJob \/ (job[p].kind = "finish" /\ job[p].day = d)
        /\ stage[p] # "recovering"
    BY RowTypes, JobTypes DEF TaskDies, Free, SetTask, EndJob, IInv, StagesKept, JobTasks,
       TaskRows, HalfWritten, HasOutcome, IsActive, Creatable, MaySuspend, Owned, Active,
       NoJob
  <1>1. TypeOK'
    <2>1. row' \in [Days -> Rows]
      BY <1>a DEF IInv, TypeOK
    <2>2. job' \in [Procs -> [kind : Kinds, day : 0..MaxDay, status : {"NONE"} \cup Active \cup Final]]
      BY <1>a, <1>b, JobTypes, RowTypes, DaysAreDays DEF IInv, TypeOK, Kinds, Active, Final
    <2>3. task' \in [Procs -> [Days -> Tasks]]
      BY <1>a, <1>b, TaskTypes DEF IInv, TypeOK, Tasks
    <2> QED
      BY <1>a, <1>b, <2>1, <2>2, <2>3 DEF IInv, TypeOK
  <1>2. LockHeld'
    BY <1>a, <1>b, <1>1, DaysAreDays DEF IInv, TypeOK, LockHeld, Holding, StagesKept, NoJob
  <1>3. StagesKept'
    BY <1>a, <1>b, <1>1, DaysAreDays DEF IInv, TypeOK, StagesKept, LockHeld, Holding, Alone,
         JobTasks, NoJob
  <1>4. JobTasks'
    BY <1>a, <1>b, <1>1, DaysAreDays DEF IInv, TypeOK, JobTasks, StagesKept, LockHeld,
         Holding, HalfWritten, PreparedAlone, NoJob, Active, Final, IsActive
  <1>5. HalfWritten'
    BY <1>a, <1>b, <1>1, DaysAreDays DEF IInv, TypeOK, HalfWritten, JobTasks, StagesKept,
         LockHeld, Holding, PreparedAlone, TaskRows, Alone, IsActive, NoJob, Active, Final
  <1>6. PreparedAlone'
    BY <1>a, <1>b, <1>1, DaysAreDays DEF IInv, TypeOK, PreparedAlone, JobTasks, HalfWritten,
         StagesKept, LockHeld, Holding, TaskRows, RowsKept, Alone, NoJob, Active, Final,
         IsActive
  <1>7. TaskRows'
    BY <1>a, <1>b, <1>1, DaysAreDays DEF IInv, TypeOK, TaskRows, JobTasks, HalfWritten,
         StagesKept, LockHeld, Holding, PreparedAlone, RowsKept, Alone, Active, Final,
         NoJob, IsActive
  <1>8. RowsKept'
    BY <1>a, <1>b, <1>1, DaysAreDays DEF IInv, TypeOK, RowsKept, OneActive, ResultAgrees,
         IsActive, Active, Final
  <1> QED
    BY <1>1, <1>2, <1>3, <1>4, <1>5, <1>6, <1>7, <1>8 DEF IInv

\* The end of a task that died.
LEMMA Buries ==
    ASSUME IInv, NEW p \in Procs, NEW d \in Days, BuryTask(p, d)
    PROVE  IInv'
  <1> USE RndAssumption, DaysAreNumbers
  <1>1. CASE IsActive(d) /\ (row[d].status = "RUNNING" => Owned(p, d))
    <2>a. /\ row' = [row EXCEPT ![d].result = "FAILED"]
          /\ job' = [job EXCEPT ![p] = [kind |-> "died", day |-> d, status |-> "FAILED"]]
          /\ UNCHANGED <<lock, today, stage, on, pending, task, todo, found>>
      BY <1>1 DEF BuryTask, Free, Write, Job, SetTask, IsActive
    <2>b. /\ task[p][d] = "died" /\ job[p] = NoJob /\ Alone(p)
          /\ stage[p] \in {"idle", "stopping"}
          /\ found[p] = {} /\ todo[p] = {}
      BY <1>1, RowTypes, JobTypes DEF BuryTask, Free, IInv, StagesKept, Alone, IsActive,
         NoJob
    <2>1. TypeOK'
      <3>1. row' \in [Days -> Rows]
        BY <2>a, <2>b, <1>1, RowTypes, JobTypes DEF IInv, TypeOK, HalfWritten, JobTasks,
           IsActive, Active, Final
      <3>2. job' \in [Procs -> [kind : Kinds, day : 0..MaxDay, status : {"NONE"} \cup Active \cup Final]]
        BY <2>a, <2>b, JobTypes, RowTypes, DaysAreDays DEF IInv, TypeOK, Kinds, Active, Final
      <3>3. task' \in [Procs -> [Days -> Tasks]]
        BY <2>a, <2>b, TaskTypes DEF IInv, TypeOK, Tasks
      <3> QED
        BY <2>a, <2>b, <3>1, <3>2, <3>3 DEF IInv, TypeOK
    <2>2. LockHeld'
      BY <2>a, <2>b, <2>1, <1>1, DaysAreDays DEF IInv, TypeOK, LockHeld, Holding,
           StagesKept, NoJob, Owned, MaySuspend
    <2>3. StagesKept'
      BY <2>a, <2>b, <2>1, <1>1, DaysAreDays DEF IInv, TypeOK, StagesKept, LockHeld,
           Holding, Alone, JobTasks, NoJob, Owned, MaySuspend
    <2>4. JobTasks'
      BY <2>a, <2>b, <2>1, <1>1, DaysAreDays DEF IInv, TypeOK, JobTasks, StagesKept,
           LockHeld, Holding, HalfWritten, PreparedAlone, NoJob, Active, Final, IsActive,
           Owned, MaySuspend
    <2>5. HalfWritten'
      BY <2>a, <2>b, <2>1, <1>1, DaysAreDays DEF IInv, TypeOK, HalfWritten, JobTasks,
           StagesKept, LockHeld, Holding, PreparedAlone, TaskRows, Alone, IsActive, NoJob,
           Active, Final, Owned, MaySuspend
    <2>6. PreparedAlone'
      BY <2>a, <2>b, <2>1, <1>1, DaysAreDays DEF IInv, TypeOK, PreparedAlone, JobTasks,
           HalfWritten, StagesKept, LockHeld, Holding, TaskRows, RowsKept, Alone, NoJob,
           Active, Final, IsActive, Owned, MaySuspend
    <2>7. TaskRows'
      <3> SUFFICES ASSUME NEW q \in Procs, NEW e \in Days
                 PROVE  /\ task[q][e] \in {"working", "cancelled"} =>
                              row'[e].status = "RUNNING" /\ row'[e].owner = q
                        /\ task[q][e] # "none" \/ e \in todo[q] \cup found[q] => row'[e].status # "NONE"
                        /\ (task[q][e] = "queued" \/ e \in found[q]) /\ row'[e].status = "CREATED" =>
                              row'[e].result \notin Final /\ row'[e].input
        BY <2>a DEF TaskRows
      <3>1. /\ row'[e].status = row[e].status /\ row'[e].owner = row[e].owner
            /\ (row[e].input => row'[e].input) /\ (e # d => row'[e].result = row[e].result)
        BY <2>a DEF IInv, TypeOK, Rows
      <3>2. TaskRows /\ StagesKept
        BY DEF IInv
      <3>3. ASSUME task[q][d] = "queued" \/ d \in found[q], row[d].status = "CREATED"
            PROVE  FALSE
        <4>1. row[d].input
          BY <3>2, <3>3 DEF TaskRows
        <4>2. stage[q] # "down" => q = p \/ ~Alone(p)
          BY DEF Alone
        <4> QED
          BY <4>1, <4>2, <3>2, <3>3, <2>b, <1>1 DEF StagesKept
      <3> QED
        BY <3>1, <3>2, <3>3 DEF TaskRows
    <2>8. RowsKept'
      BY <2>a, <2>b, <2>1, <1>1, DaysAreDays DEF IInv, TypeOK, RowsKept, OneActive,
           ResultAgrees, IsActive, Active, Final, Owned, MaySuspend
    <2> QED
      BY <2>1, <2>2, <2>3, <2>4, <2>5, <2>6, <2>7, <2>8 DEF IInv
  <1>2. CASE ~(IsActive(d) /\ (row[d].status = "RUNNING" => Owned(p, d)))
    <2>a. /\ task' = [task EXCEPT ![p][d] = "none"]
          /\ UNCHANGED <<row, lock, today, stage, on, pending, todo, found, job>>
      BY <1>2 DEF BuryTask, Free, Write, Job, SetTask, IsActive
    <2>b. /\ task[p][d] = "died" /\ job[p] = NoJob
      BY <1>2, RowTypes, JobTypes DEF BuryTask, Free, IInv, StagesKept, Alone, IsActive,
         NoJob
    <2>1. TypeOK'
      <3>1. row' \in [Days -> Rows]
        BY <2>a DEF IInv, TypeOK
      <3>2. job' \in [Procs -> [kind : Kinds, day : 0..MaxDay, status : {"NONE"} \cup Active \cup Final]]
        BY <2>a, <2>b, JobTypes, RowTypes, DaysAreDays DEF IInv, TypeOK, Kinds, Active, Final
      <3>3. task' \in [Procs -> [Days -> Tasks]]
        BY <2>a, <2>b, TaskTypes DEF IInv, TypeOK, Tasks
      <3> QED
        BY <2>a, <2>b, <3>1, <3>2, <3>3 DEF IInv, TypeOK
    <2>2. LockHeld'
      BY <2>a, <2>b, <2>1, <1>2, DaysAreDays DEF IInv, TypeOK, LockHeld, Holding,
           StagesKept, NoJob, Owned, MaySuspend
    <2>3. StagesKept'
      BY <2>a, <2>b, <2>1, <1>2, DaysAreDays DEF IInv, TypeOK, StagesKept, LockHeld,
           Holding, Alone, JobTasks, NoJob, Owned, MaySuspend
    <2>4. JobTasks'
      BY <2>a, <2>b, <2>1, <1>2, DaysAreDays DEF IInv, TypeOK, JobTasks, StagesKept,
           LockHeld, Holding, HalfWritten, PreparedAlone, NoJob, Active, Final, IsActive,
           Owned, MaySuspend
    <2>5. HalfWritten'
      BY <2>a, <2>b, <2>1, <1>2, DaysAreDays DEF IInv, TypeOK, HalfWritten, JobTasks,
           StagesKept, LockHeld, Holding, PreparedAlone, TaskRows, Alone, IsActive, NoJob,
           Active, Final, Owned, MaySuspend
    <2>6. PreparedAlone'
      BY <2>a, <2>b, <2>1, <1>2, DaysAreDays DEF IInv, TypeOK, PreparedAlone, JobTasks,
           HalfWritten, StagesKept, LockHeld, Holding, TaskRows, RowsKept, Alone, NoJob,
           Active, Final, IsActive, Owned, MaySuspend
    <2>7. TaskRows'
      BY <2>a, <2>b, <2>1, <1>2, DaysAreDays DEF IInv, TypeOK, TaskRows, JobTasks,
           HalfWritten, StagesKept, LockHeld, Holding, PreparedAlone, RowsKept, Alone,
           Active, Final, NoJob, IsActive, Owned, MaySuspend
    <2>8. RowsKept'
      BY <2>a, <2>b, <2>1, <1>2, DaysAreDays DEF IInv, TypeOK, RowsKept, OneActive,
           ResultAgrees, IsActive, Active, Final, Owned, MaySuspend
    <2> QED
      BY <2>1, <2>2, <2>3, <2>4, <2>5, <2>6, <2>7, <2>8 DEF IInv
  <1> QED
    BY <1>1, <1>2

\* A task ends and frees the lock.
LEMMA Closes ==
    ASSUME IInv, NEW p \in Procs, NEW d \in Days, CloseTask(p, d)
    PROVE  IInv'
  <1> USE RndAssumption, DaysAreNumbers
  <1>1. TypeOK'
    BY RowTypes, JobTypes, TaskTypes DEF IInv, TypeOK, Tasks, Kinds, NoJob, Active, Final,
       JobTasks, CloseTask, Free, SetTask
  <1>2. LockHeld'
    BY <1>1 DEF IInv, TypeOK, LockHeld, Holding, StagesKept, NoJob, CloseTask, Free, SetTask
  <1>3. StagesKept'
    BY <1>1 DEF IInv, TypeOK, StagesKept, LockHeld, Holding, Alone, JobTasks, NoJob,
       CloseTask, Free, SetTask
  <1>4. JobTasks'
    BY <1>1 DEF IInv, TypeOK, JobTasks, StagesKept, LockHeld, Holding, HalfWritten,
       PreparedAlone, NoJob, Active,
           Final, IsActive, CloseTask, Free, SetTask
  <1>5. HalfWritten'
    BY <1>1 DEF IInv, TypeOK, HalfWritten, JobTasks, StagesKept, LockHeld, Holding,
       PreparedAlone, TaskRows,
           Alone, IsActive, NoJob, Active, Final, CloseTask, Free, SetTask
  <1>6. PreparedAlone'
    BY <1>1 DEF IInv, TypeOK, PreparedAlone, JobTasks, HalfWritten, StagesKept, LockHeld,
       Holding, TaskRows,
           RowsKept, Alone, NoJob, Active, Final, IsActive, CloseTask, Free, SetTask
  <1>7. TaskRows'
    BY <1>1 DEF IInv, TypeOK, TaskRows, JobTasks, HalfWritten, StagesKept, LockHeld,
       Holding, PreparedAlone,
           RowsKept, Alone, Active, Final, NoJob, IsActive, CloseTask, Free, SetTask
  <1>8. RowsKept'
    BY <1>1 DEF IInv, TypeOK, RowsKept, OneActive, ResultAgrees, IsActive, Active, Final,
       CloseTask, Free, SetTask
  <1> QED
    BY <1>1, <1>2, <1>3, <1>4, <1>5, <1>6, <1>7, <1>8 DEF IInv

\* The runtime stops.
LEMMA Stops ==
    ASSUME IInv, NEW p \in Procs, Stop(p)
    PROVE  IInv'
  <1> USE RndAssumption, DaysAreNumbers
  <1>1. TypeOK'
    <2>1. \A d \in Days : task[p][d] \in Tasks
      BY DEF IInv, TypeOK
    <2>2. [d \in Days |-> CASE task[p][d] = "queued"  -> "cut"
                            [] task[p][d] = "working" -> "cancelled"
                            [] task[p][d] = "closing" -> "leaving"
                            [] OTHER                  -> task[p][d]] \in [Days -> Tasks]
      BY <2>1 DEF Tasks
    <2>3. task' \in [Procs -> [Days -> Tasks]]
      BY <2>2 DEF IInv, TypeOK, Stop
    <2> QED
      BY <2>3 DEF IInv, TypeOK, Stop, diskVars
  <1>2. LockHeld'
    BY <1>1 DEF IInv, TypeOK, LockHeld, Holding, StagesKept, NoJob, Stop, diskVars
  <1>3. StagesKept'
    BY <1>1 DEF IInv, TypeOK, StagesKept, LockHeld, Holding, Alone, JobTasks, NoJob, Stop,
       diskVars
  <1>4. JobTasks'
    BY SMTT(30), <1>1 DEF IInv, TypeOK, JobTasks, StagesKept, LockHeld, Holding,
       HalfWritten, PreparedAlone, NoJob, Active,
           Final, IsActive, Stop, diskVars
  <1>5. HalfWritten'
    BY <1>1 DEF IInv, TypeOK, HalfWritten, JobTasks, StagesKept, LockHeld, Holding,
       PreparedAlone, TaskRows,
           Alone, IsActive, NoJob, Active, Final, Stop, diskVars
  <1>6. PreparedAlone'
    BY <1>1 DEF IInv, TypeOK, PreparedAlone, JobTasks, HalfWritten, StagesKept, LockHeld,
       Holding, TaskRows,
           RowsKept, Alone, NoJob, Active, Final, IsActive, Stop, diskVars
  <1>7. TaskRows'
    BY <1>1 DEF IInv, TypeOK, TaskRows, JobTasks, HalfWritten, StagesKept, LockHeld,
       Holding, PreparedAlone,
           RowsKept, Alone, Active, Final, NoJob, IsActive, Stop, diskVars
  <1>8. RowsKept'
    BY <1>1 DEF IInv, TypeOK, RowsKept, OneActive, ResultAgrees, IsActive, Active, Final,
       Stop, diskVars
  <1> QED
    BY <1>1, <1>2, <1>3, <1>4, <1>5, <1>6, <1>7, <1>8 DEF IInv

\* A cancelled task suspends its cycle.
LEMMA Suspends ==
    ASSUME IInv, NEW p \in Procs, NEW d \in Days, SuspendTask(p, d)
    PROVE  IInv'
  <1> USE RndAssumption, DaysAreNumbers
  <1>1. CASE MaySuspend(p, d)
    <2>a. /\ row' = [row EXCEPT ![d].result = "SUSPENDED"]
          /\ job' = [job EXCEPT ![p] = [kind |-> "suspend", day |-> d, status |-> "SUSPENDED"]]
          /\ UNCHANGED <<lock, today, stage, on, pending, task, todo, found>>
      BY <1>1 DEF SuspendTask, MaySuspend, Free, Write, Job, SetTask
    <2>b. /\ task[p][d] = "cancelled" /\ job[p] = NoJob /\ Alone(p)
      BY <1>1, RowTypes, JobTypes DEF SuspendTask, MaySuspend, Free, Write, Job, SetTask,
         IInv, StagesKept, JobTasks, TaskRows, HalfWritten, HasOutcome, IsActive,
         Creatable, Owned, Active, NoJob
    <2>1. TypeOK'
      <3>1. row' \in [Days -> Rows]
        BY <2>a, <2>b, <1>1, RowTypes, JobTypes DEF IInv, TypeOK, HalfWritten, JobTasks,
           IsActive, Active, Final
      <3>2. job' \in [Procs -> [kind : Kinds, day : 0..MaxDay, status : {"NONE"} \cup Active \cup Final]]
        BY <2>a, <2>b, JobTypes, RowTypes, DaysAreDays DEF IInv, TypeOK, Kinds, Active, Final
      <3>3. task' \in [Procs -> [Days -> Tasks]]
        BY <2>a, <2>b, TaskTypes DEF IInv, TypeOK, Tasks
      <3> QED
        BY <2>a, <2>b, <3>1, <3>2, <3>3 DEF IInv, TypeOK
    <2>2. LockHeld'
      BY <2>a, <2>b, <2>1, <1>1, DaysAreDays DEF IInv, TypeOK, LockHeld, Holding,
           StagesKept, NoJob, Owned, MaySuspend
    <2>3. StagesKept'
      BY <2>a, <2>b, <2>1, <1>1, DaysAreDays DEF IInv, TypeOK, StagesKept, LockHeld,
           Holding, Alone, JobTasks, NoJob, Owned, MaySuspend
    <2>4. JobTasks'
      BY <2>a, <2>b, <2>1, <1>1, DaysAreDays DEF IInv, TypeOK, JobTasks, StagesKept,
           LockHeld, Holding, HalfWritten, PreparedAlone, NoJob, Active, Final, IsActive,
           Owned, MaySuspend
    <2>5. HalfWritten'
      BY <2>a, <2>b, <2>1, <1>1, DaysAreDays DEF IInv, TypeOK, HalfWritten, JobTasks,
           StagesKept, LockHeld, Holding, PreparedAlone, TaskRows, Alone, IsActive, NoJob,
           Active, Final, Owned, MaySuspend
    <2>6. PreparedAlone'
      BY <2>a, <2>b, <2>1, <1>1, DaysAreDays DEF IInv, TypeOK, PreparedAlone, JobTasks,
           HalfWritten, StagesKept, LockHeld, Holding, TaskRows, RowsKept, Alone, NoJob,
           Active, Final, IsActive, Owned, MaySuspend
    <2>7. TaskRows'
      BY <2>a, <2>b, <2>1, <1>1, DaysAreDays DEF IInv, TypeOK, TaskRows, JobTasks,
           HalfWritten, StagesKept, LockHeld, Holding, PreparedAlone, RowsKept, Alone,
           Active, Final, NoJob, IsActive, Owned, MaySuspend
    <2>8. RowsKept'
      BY <2>a, <2>b, <2>1, <1>1, DaysAreDays DEF IInv, TypeOK, RowsKept, OneActive,
           ResultAgrees, IsActive, Active, Final, Owned, MaySuspend
    <2> QED
      BY <2>1, <2>2, <2>3, <2>4, <2>5, <2>6, <2>7, <2>8 DEF IInv
  <1>2. CASE ~MaySuspend(p, d)
    <2>a. /\ task' = [task EXCEPT ![p][d] = "leaving"]
          /\ UNCHANGED <<row, lock, today, stage, on, pending, todo, found, job>>
      BY <1>2 DEF SuspendTask, MaySuspend, Free, Write, Job, SetTask
    <2>b. /\ task[p][d] = "cancelled" /\ job[p] = NoJob
      BY <1>2, RowTypes, JobTypes DEF SuspendTask, MaySuspend, Free, Write, Job, SetTask,
         IInv, StagesKept, JobTasks, TaskRows, HalfWritten, HasOutcome, IsActive,
         Creatable, Owned, Active, NoJob
    <2>1. TypeOK'
      <3>1. row' \in [Days -> Rows]
        BY <2>a DEF IInv, TypeOK
      <3>2. job' \in [Procs -> [kind : Kinds, day : 0..MaxDay, status : {"NONE"} \cup Active \cup Final]]
        BY <2>a, <2>b, JobTypes, RowTypes, DaysAreDays DEF IInv, TypeOK, Kinds, Active, Final
      <3>3. task' \in [Procs -> [Days -> Tasks]]
        BY <2>a, <2>b, TaskTypes DEF IInv, TypeOK, Tasks
      <3> QED
        BY <2>a, <2>b, <3>1, <3>2, <3>3 DEF IInv, TypeOK
    <2>2. LockHeld'
      BY <2>a, <2>b, <2>1, <1>2, DaysAreDays DEF IInv, TypeOK, LockHeld, Holding,
           StagesKept, NoJob, Owned, MaySuspend
    <2>3. StagesKept'
      BY <2>a, <2>b, <2>1, <1>2, DaysAreDays DEF IInv, TypeOK, StagesKept, LockHeld,
           Holding, Alone, JobTasks, NoJob, Owned, MaySuspend
    <2>4. JobTasks'
      BY <2>a, <2>b, <2>1, <1>2, DaysAreDays DEF IInv, TypeOK, JobTasks, StagesKept,
           LockHeld, Holding, HalfWritten, PreparedAlone, NoJob, Active, Final, IsActive,
           Owned, MaySuspend
    <2>5. HalfWritten'
      BY <2>a, <2>b, <2>1, <1>2, DaysAreDays DEF IInv, TypeOK, HalfWritten, JobTasks,
           StagesKept, LockHeld, Holding, PreparedAlone, TaskRows, Alone, IsActive, NoJob,
           Active, Final, Owned, MaySuspend
    <2>6. PreparedAlone'
      BY <2>a, <2>b, <2>1, <1>2, DaysAreDays DEF IInv, TypeOK, PreparedAlone, JobTasks,
           HalfWritten, StagesKept, LockHeld, Holding, TaskRows, RowsKept, Alone, NoJob,
           Active, Final, IsActive, Owned, MaySuspend
    <2>7. TaskRows'
      BY <2>a, <2>b, <2>1, <1>2, DaysAreDays DEF IInv, TypeOK, TaskRows, JobTasks,
           HalfWritten, StagesKept, LockHeld, Holding, PreparedAlone, RowsKept, Alone,
           Active, Final, NoJob, IsActive, Owned, MaySuspend
    <2>8. RowsKept'
      BY <2>a, <2>b, <2>1, <1>2, DaysAreDays DEF IInv, TypeOK, RowsKept, OneActive,
           ResultAgrees, IsActive, Active, Final, Owned, MaySuspend
    <2> QED
      BY <2>1, <2>2, <2>3, <2>4, <2>5, <2>6, <2>7, <2>8 DEF IInv
  <1> QED
    BY <1>1, <1>2

\* The finalizer of a cut task.
LEMMA Cuts ==
    ASSUME IInv, NEW p \in Procs, NEW d \in Days, FinalizeCut(p, d)
    PROVE  IInv'
  <1> USE RndAssumption, DaysAreNumbers
  <1>1. CASE MaySuspend(p, d)
    <2>a. /\ row' = [row EXCEPT ![d].result = "SUSPENDED"]
          /\ job' = [job EXCEPT ![p] = [kind |-> "cut", day |-> d, status |-> "SUSPENDED"]]
          /\ UNCHANGED <<lock, today, stage, on, pending, task, todo, found>>
      BY <1>1 DEF FinalizeCut, MaySuspend, Free, Write, Job, SetTask
    <2>b. /\ task[p][d] = "cut" /\ job[p] = NoJob /\ Alone(p) /\ stage[p] = "stopping"
          /\ IsActive(d)
      BY <1>1, RowTypes, JobTypes DEF FinalizeCut, MaySuspend, Free, Write, Job, SetTask,
         IInv, StagesKept, JobTasks, TaskRows, HalfWritten, HasOutcome, IsActive,
         Creatable, Owned, Active, NoJob
    <2>1. TypeOK'
      <3>1. row' \in [Days -> Rows]
        BY <2>a, <2>b, <1>1, RowTypes, JobTypes DEF IInv, TypeOK, HalfWritten, JobTasks,
           IsActive, Active, Final
      <3>2. job' \in [Procs -> [kind : Kinds, day : 0..MaxDay, status : {"NONE"} \cup Active \cup Final]]
        BY <2>a, <2>b, JobTypes, RowTypes, DaysAreDays DEF IInv, TypeOK, Kinds, Active, Final
      <3>3. task' \in [Procs -> [Days -> Tasks]]
        BY <2>a, <2>b, TaskTypes DEF IInv, TypeOK, Tasks
      <3> QED
        BY <2>a, <2>b, <3>1, <3>2, <3>3 DEF IInv, TypeOK
    <2>2. LockHeld'
      BY <2>a, <2>b, <2>1, <1>1, DaysAreDays DEF IInv, TypeOK, LockHeld, Holding,
           StagesKept, NoJob, Owned, MaySuspend
    <2>3. StagesKept'
      BY <2>a, <2>b, <2>1, <1>1, DaysAreDays DEF IInv, TypeOK, StagesKept, LockHeld,
           Holding, Alone, JobTasks, NoJob, Owned, MaySuspend
    <2>4. JobTasks'
      BY <2>a, <2>b, <2>1, <1>1, DaysAreDays DEF IInv, TypeOK, JobTasks, StagesKept,
           LockHeld, Holding, HalfWritten, PreparedAlone, NoJob, Active, Final, IsActive,
           Owned, MaySuspend
    <2>5. HalfWritten'
      BY <2>a, <2>b, <2>1, <1>1, DaysAreDays DEF IInv, TypeOK, HalfWritten, JobTasks,
           StagesKept, LockHeld, Holding, PreparedAlone, TaskRows, Alone, IsActive, NoJob,
           Active, Final, Owned, MaySuspend
    <2>6. PreparedAlone'
      BY <2>a, <2>b, <2>1, <1>1, DaysAreDays DEF IInv, TypeOK, PreparedAlone, JobTasks,
           HalfWritten, StagesKept, LockHeld, Holding, TaskRows, RowsKept, Alone, NoJob,
           Active, Final, IsActive, Owned, MaySuspend
    <2>7. TaskRows'
      BY <2>a, <2>b, <2>1, <1>1, DaysAreDays DEF IInv, TypeOK, TaskRows, JobTasks,
           HalfWritten, StagesKept, LockHeld, Holding, PreparedAlone, RowsKept, Alone,
           Active, Final, NoJob, IsActive, Owned, MaySuspend
    <2>8. RowsKept'
      BY <2>a, <2>b, <2>1, <1>1, DaysAreDays DEF IInv, TypeOK, RowsKept, OneActive,
           ResultAgrees, IsActive, Active, Final, Owned, MaySuspend
    <2> QED
      BY <2>1, <2>2, <2>3, <2>4, <2>5, <2>6, <2>7, <2>8 DEF IInv
  <1>2. CASE ~MaySuspend(p, d)
    <2>a. /\ task' = [task EXCEPT ![p][d] = "none"]
          /\ UNCHANGED <<row, lock, today, stage, on, pending, todo, found, job>>
      BY <1>2 DEF FinalizeCut, MaySuspend, Free, Write, Job, SetTask
    <2>b. /\ task[p][d] = "cut" /\ job[p] = NoJob
      BY <1>2, RowTypes, JobTypes DEF FinalizeCut, MaySuspend, Free, Write, Job, SetTask,
         IInv, StagesKept, JobTasks, TaskRows, HalfWritten, HasOutcome, IsActive,
         Creatable, Owned, Active, NoJob
    <2>1. TypeOK'
      <3>1. row' \in [Days -> Rows]
        BY <2>a DEF IInv, TypeOK
      <3>2. job' \in [Procs -> [kind : Kinds, day : 0..MaxDay, status : {"NONE"} \cup Active \cup Final]]
        BY <2>a, <2>b, JobTypes, RowTypes, DaysAreDays DEF IInv, TypeOK, Kinds, Active, Final
      <3>3. task' \in [Procs -> [Days -> Tasks]]
        BY <2>a, <2>b, TaskTypes DEF IInv, TypeOK, Tasks
      <3> QED
        BY <2>a, <2>b, <3>1, <3>2, <3>3 DEF IInv, TypeOK
    <2>2. LockHeld'
      BY <2>a, <2>b, <2>1, <1>2, DaysAreDays DEF IInv, TypeOK, LockHeld, Holding,
           StagesKept, NoJob, Owned, MaySuspend
    <2>3. StagesKept'
      BY <2>a, <2>b, <2>1, <1>2, DaysAreDays DEF IInv, TypeOK, StagesKept, LockHeld,
           Holding, Alone, JobTasks, NoJob, Owned, MaySuspend
    <2>4. JobTasks'
      BY <2>a, <2>b, <2>1, <1>2, DaysAreDays DEF IInv, TypeOK, JobTasks, StagesKept,
           LockHeld, Holding, HalfWritten, PreparedAlone, NoJob, Active, Final, IsActive,
           Owned, MaySuspend
    <2>5. HalfWritten'
      BY <2>a, <2>b, <2>1, <1>2, DaysAreDays DEF IInv, TypeOK, HalfWritten, JobTasks,
           StagesKept, LockHeld, Holding, PreparedAlone, TaskRows, Alone, IsActive, NoJob,
           Active, Final, Owned, MaySuspend
    <2>6. PreparedAlone'
      BY <2>a, <2>b, <2>1, <1>2, DaysAreDays DEF IInv, TypeOK, PreparedAlone, JobTasks,
           HalfWritten, StagesKept, LockHeld, Holding, TaskRows, RowsKept, Alone, NoJob,
           Active, Final, IsActive, Owned, MaySuspend
    <2>7. TaskRows'
      BY <2>a, <2>b, <2>1, <1>2, DaysAreDays DEF IInv, TypeOK, TaskRows, JobTasks,
           HalfWritten, StagesKept, LockHeld, Holding, PreparedAlone, RowsKept, Alone,
           Active, Final, NoJob, IsActive, Owned, MaySuspend
    <2>8. RowsKept'
      BY <2>a, <2>b, <2>1, <1>2, DaysAreDays DEF IInv, TypeOK, RowsKept, OneActive,
           ResultAgrees, IsActive, Active, Final, Owned, MaySuspend
    <2> QED
      BY <2>1, <2>2, <2>3, <2>4, <2>5, <2>6, <2>7, <2>8 DEF IInv
  <1> QED
    BY <1>1, <1>2

\* The second half of a write.
LEMMA Commits ==
    ASSUME IInv, NEW p \in Procs, Commit(p)
    PROVE  IInv'
  <1> USE RndAssumption, DaysAreNumbers
  <1>p. PICK d \in Days : job[p].day = d
    BY DEF Commit, IInv, JobTasks
  <1>b. /\ job[p].kind \in {"close", "finish", "suspend", "cut", "refuse", "died"}
        /\ IsActive(d) /\ row[d].result = job[p].status
    BY <1>p DEF Commit, IInv, HalfWritten
  <1>c. /\ \A e \in Days : e # d => row'[e] = row[e]
        /\ \A q \in Procs : q # p => job'[q] = job[q]
        /\ job'[p] = NoJob /\ found' = found
        /\ \A q \in Procs : todo'[q] \subseteq todo[q]
        /\ \A q \in Procs, e \in Days : e # d => task'[q][e] = task[q][e]
    <2>1. /\ row' = [row EXCEPT ![d].status = job[p].status, ![d].owner = NoProc]
          /\ job' = [job EXCEPT ![p] = NoJob] /\ found' = found
          /\ todo' = [todo EXCEPT ![p] = @ \ {d}] \/ todo' = todo
      BY <1>p DEF Commit, Put, EndJob
    <2>2. task' = task \/ \E t \in Tasks : task' = [task EXCEPT ![p][d] = t]
      BY <1>p, <1>b DEF Commit, SetTask, Tasks
    <2>3. TypeOK
      BY DEF IInv
    <2>4. \A q \in Procs, e \in Days : e # d => task'[q][e] = task[q][e]
      <3>1. CASE task' = task
        BY <3>1
      <3>2. ASSUME NEW t \in Tasks, task' = [task EXCEPT ![p][d] = t]
            PROVE  \A q \in Procs, e \in Days : e # d => task'[q][e] = task[q][e]
        BY <2>3, <3>2 DEF TypeOK
      <3> QED
        BY <2>2, <3>1, <3>2
    <2>5. /\ \A e \in Days : e # d => row'[e] = row[e]
          /\ \A q \in Procs : q # p => job'[q] = job[q]
          /\ job'[p] = NoJob
      BY <2>1, <2>3 DEF TypeOK
    <2>6. \A q \in Procs : todo'[q] \subseteq todo[q]
      <3>1. CASE todo' = todo
        BY <3>1
      <3>2. CASE todo' = [todo EXCEPT ![p] = @ \ {d}]
        BY <2>3, <3>2 DEF TypeOK
      <3> QED
        BY <2>1, <3>1, <3>2
    <2> QED
      BY <2>1, <2>4, <2>5, <2>6
  <1>d. ASSUME NEW q \in Procs, job'[q].kind \notin {"none", "prepare"}
        PROVE  /\ job'[q] = job[q] /\ job[q].day \in Days /\ job[q].day # d
               /\ row'[job[q].day] = row[job[q].day]
    <2>1. q # p /\ job'[q] = job[q]
      BY <1>c, <1>d DEF NoJob
    <2>2. job[q].day \in Days
      BY <1>d, <2>1 DEF IInv, JobTasks
    <2>3. job[q].day # d
      BY <1>p, <1>b, <1>d, <2>1, WritersApart
    <2> QED
      BY <1>c, <2>1, <2>2, <2>3
  <1>h. HalfWritten'
    BY <1>d DEF IInv, HalfWritten, IsActive
  <1>g. PreparedAlone'
    <2> SUFFICES ASSUME NEW q \in Procs, job'[q].kind \in {"prepare", "refuse"}
                 PROVE  /\ row'[job'[q].day].status = "CREATED"
                        /\ job'[q].kind = "prepare" => row'[job'[q].day].result = "none"
                        /\ \A r \in Procs : /\ job'[q].day \notin todo'[r] \cup found'[r]
                                            /\ task'[r][job'[q].day] = "none"
                                            /\ r # q => \/ job'[r].kind = "none"
                                                        \/ job'[r].day # job'[q].day
      BY DEF PreparedAlone
    <2>1. /\ q # p /\ job'[q] = job[q] /\ job[q].kind \in {"prepare", "refuse"}
          /\ job[q].day \in Days
      BY <1>c DEF IInv, JobTasks, NoJob
    <2>2. job[q].day # d
      BY <1>p, <1>b, <2>1 DEF IInv, PreparedAlone
    <2>3. \A r \in Procs : job'[r] = job[r] \/ job'[r].kind = "none"
      BY <1>c DEF NoJob
    <2>4. row'[job[q].day] = row[job[q].day]
      BY <1>c, <2>1, <2>2
    <2>5. \A r \in Procs : task'[r][job[q].day] = task[r][job[q].day]
      BY <1>c, <2>1, <2>2
    <2> QED
      BY <1>c, <2>1, <2>3, <2>4, <2>5 DEF IInv, PreparedAlone
  <1>1. CASE job[p].kind = "close"
    <2>a. /\ row' = [row EXCEPT ![d].status = job[p].status, ![d].owner = NoProc]
          /\ job' = [job EXCEPT ![p] = NoJob]
          /\ lock' = NoProc
          /\ todo' = [todo EXCEPT ![p] = @ \ {d}]
          /\ UNCHANGED <<today, stage, on, pending, task, found>>
      BY <1>1, <1>p DEF Commit, Put, EndJob, SetTask
    <2>b. /\ stage[p] = "recovering"
          /\ job[p].day = d
          /\ IsActive(d) /\ job[p].status \in Final
          /\ row[d].result = job[p].status
      BY <1>1, <1>p, RowTypes, JobTypes DEF IInv, StagesKept, JobTasks, HalfWritten,
         PreparedAlone, Active, Final
    <2>1. TypeOK'
      <3>0. /\ TypeOK /\ NoProc \in Procs \cup {NoProc}
            /\ job[p].status \in {"NONE"} \cup Active \cup Final
        BY <2>a, <2>b, JobTypes DEF IInv, Active, Final
      <3>a. [row EXCEPT ![d].status = job[p].status, ![d].owner = NoProc] \in [Days -> Rows]
        BY <3>0, RowTypes
      <3>1. row' \in [Days -> Rows]
        BY <2>a, <3>a
      <3>2. job' \in [Procs -> [kind : Kinds, day : 0..MaxDay, status : {"NONE"} \cup Active \cup Final]]
        BY <2>a, <2>b, JobTypes, RowTypes, DaysAreDays DEF IInv, TypeOK, Kinds, Active, Final
      <3>3. task' \in [Procs -> [Days -> Tasks]]
        BY <2>a, <2>b, TaskTypes DEF IInv, TypeOK, Tasks
      <3> QED
        BY <2>a, <2>b, <3>1, <3>2, <3>3 DEF IInv, TypeOK
    <2>c. /\ \A e \in Days : e # d => row'[e] = row[e]
          /\ row'[d].status = job[p].status /\ row'[d].owner = NoProc
          /\ row'[d].result = row[d].result /\ (row[d].input => row'[d].input)
          /\ \A q \in Procs : q # p => job'[q] = job[q]
          /\ job'[p] = NoJob
          /\ lock' = NoProc
          /\ todo' = [todo EXCEPT ![p] = @ \ {d}]
          /\ UNCHANGED <<today, stage, on, pending, task, found>>
      BY <2>a DEF IInv, TypeOK, Rows
    <2>2. LockHeld'
      BY <2>a, <2>b, <2>1, <1>1, <1>p, DaysAreDays DEF IInv, TypeOK, LockHeld, Holding,
           StagesKept, NoJob
    <2>3. StagesKept'
      BY <2>a, <2>b, <2>1, <1>1, <1>p, DaysAreDays DEF IInv, TypeOK, StagesKept, LockHeld,
           Holding, Alone, JobTasks, NoJob
    <2>4. JobTasks'
      BY <2>a, <2>b, <2>1, <1>1, <1>p, DaysAreDays DEF IInv, TypeOK, JobTasks, StagesKept,
           LockHeld, Holding, HalfWritten, PreparedAlone, NoJob, Active, Final, IsActive
    <2>7. TaskRows'
      BY SMTT(30), <2>a, <2>b, <2>1, <1>1, <1>p, DaysAreDays DEF IInv, TypeOK, TaskRows,
         JobTasks,
           HalfWritten, StagesKept, LockHeld, Holding, PreparedAlone, RowsKept, Alone,
           Active, Final, NoJob, IsActive
    <2>8. RowsKept'
      BY <2>c, <2>b, <1>1, <1>p DEF IInv, RowsKept, OneActive, ResultAgrees, IsActive,
           Active, Final
    <2> QED
      BY <1>h, <1>g, <2>1, <2>2, <2>3, <2>4, <2>7, <2>8 DEF IInv
  <1>2. CASE job[p].kind = "finish"
    <2>a. /\ row' = [row EXCEPT ![d].status = job[p].status, ![d].owner = NoProc]
          /\ job' = [job EXCEPT ![p] = NoJob]
          /\ task' = [task EXCEPT ![p][d] = "closing"]
          /\ UNCHANGED <<lock, today, stage, on, pending, todo, found>>
      BY <1>2, <1>p DEF Commit, Put, EndJob, SetTask
    <2>b. /\ job[p].day = d
          /\ task[p][d] = "working" /\ IsActive(d) /\ job[p].status \in Final
          /\ row[d].result = job[p].status
      BY <1>2, <1>p, RowTypes, JobTypes DEF IInv, StagesKept, JobTasks, HalfWritten,
         PreparedAlone, Active, Final
    <2>1. TypeOK'
      <3>0. /\ TypeOK /\ NoProc \in Procs \cup {NoProc}
            /\ job[p].status \in {"NONE"} \cup Active \cup Final
        BY <2>a, <2>b, JobTypes DEF IInv, Active, Final
      <3>a. [row EXCEPT ![d].status = job[p].status, ![d].owner = NoProc] \in [Days -> Rows]
        BY <3>0, RowTypes
      <3>1. row' \in [Days -> Rows]
        BY <2>a, <3>a
      <3>2. job' \in [Procs -> [kind : Kinds, day : 0..MaxDay, status : {"NONE"} \cup Active \cup Final]]
        BY <2>a, <2>b, JobTypes, RowTypes, DaysAreDays DEF IInv, TypeOK, Kinds, Active, Final
      <3>3. task' \in [Procs -> [Days -> Tasks]]
        BY <2>a, <2>b, TaskTypes DEF IInv, TypeOK, Tasks
      <3> QED
        BY <2>a, <2>b, <3>1, <3>2, <3>3 DEF IInv, TypeOK
    <2>c. /\ \A e \in Days : e # d => row'[e] = row[e]
          /\ row'[d].status = job[p].status /\ row'[d].owner = NoProc
          /\ row'[d].result = row[d].result /\ (row[d].input => row'[d].input)
          /\ \A q \in Procs : q # p => job'[q] = job[q]
          /\ job'[p] = NoJob
          /\ task' = [task EXCEPT ![p][d] = "closing"]
          /\ UNCHANGED <<lock, today, stage, on, pending, todo, found>>
      BY <2>a DEF IInv, TypeOK, Rows
    <2>2. LockHeld'
      BY <2>a, <2>b, <2>1, <1>2, <1>p, DaysAreDays DEF IInv, TypeOK, LockHeld, Holding,
           StagesKept, NoJob
    <2>3. StagesKept'
      BY <2>a, <2>b, <2>1, <1>2, <1>p, DaysAreDays DEF IInv, TypeOK, StagesKept, LockHeld,
           Holding, Alone, JobTasks, NoJob
    <2>4. JobTasks'
      BY <2>a, <2>b, <2>1, <1>2, <1>p, DaysAreDays DEF IInv, TypeOK, JobTasks, StagesKept,
           LockHeld, Holding, HalfWritten, PreparedAlone, NoJob, Active, Final, IsActive
    <2>7. TaskRows'
      BY SMTT(30), <2>a, <2>b, <2>1, <1>2, <1>p, DaysAreDays DEF IInv, TypeOK, TaskRows,
         JobTasks,
           HalfWritten, StagesKept, LockHeld, Holding, PreparedAlone, RowsKept, Alone,
           Active, Final, NoJob, IsActive
    <2>8. RowsKept'
      BY <2>c, <2>b, <1>2, <1>p DEF IInv, RowsKept, OneActive, ResultAgrees, IsActive,
           Active, Final
    <2> QED
      BY <1>h, <1>g, <2>1, <2>2, <2>3, <2>4, <2>7, <2>8 DEF IInv
  <1>3. CASE job[p].kind = "suspend"
    <2>a. /\ row' = [row EXCEPT ![d].status = job[p].status, ![d].owner = NoProc]
          /\ job' = [job EXCEPT ![p] = NoJob]
          /\ task' = [task EXCEPT ![p][d] = "leaving"]
          /\ UNCHANGED <<lock, today, stage, on, pending, todo, found>>
      BY <1>3, <1>p DEF Commit, Put, EndJob, SetTask
    <2>b. /\ job[p].day = d
          /\ task[p][d] = "cancelled" /\ IsActive(d) /\ job[p].status = "SUSPENDED"
          /\ row[d].result = job[p].status
      BY <1>3, <1>p, RowTypes, JobTypes DEF IInv, StagesKept, JobTasks, HalfWritten,
         PreparedAlone, Active, Final
    <2>1. TypeOK'
      <3>0. /\ TypeOK /\ NoProc \in Procs \cup {NoProc}
            /\ job[p].status \in {"NONE"} \cup Active \cup Final
        BY <2>a, <2>b, JobTypes DEF IInv, Active, Final
      <3>a. [row EXCEPT ![d].status = job[p].status, ![d].owner = NoProc] \in [Days -> Rows]
        BY <3>0, RowTypes
      <3>1. row' \in [Days -> Rows]
        BY <2>a, <3>a
      <3>2. job' \in [Procs -> [kind : Kinds, day : 0..MaxDay, status : {"NONE"} \cup Active \cup Final]]
        BY <2>a, <2>b, JobTypes, RowTypes, DaysAreDays DEF IInv, TypeOK, Kinds, Active, Final
      <3>3. task' \in [Procs -> [Days -> Tasks]]
        BY <2>a, <2>b, TaskTypes DEF IInv, TypeOK, Tasks
      <3> QED
        BY <2>a, <2>b, <3>1, <3>2, <3>3 DEF IInv, TypeOK
    <2>c. /\ \A e \in Days : e # d => row'[e] = row[e]
          /\ row'[d].status = job[p].status /\ row'[d].owner = NoProc
          /\ row'[d].result = row[d].result /\ (row[d].input => row'[d].input)
          /\ \A q \in Procs : q # p => job'[q] = job[q]
          /\ job'[p] = NoJob
          /\ task' = [task EXCEPT ![p][d] = "leaving"]
          /\ UNCHANGED <<lock, today, stage, on, pending, todo, found>>
      BY <2>a DEF IInv, TypeOK, Rows
    <2>2. LockHeld'
      BY <2>a, <2>b, <2>1, <1>3, <1>p, DaysAreDays DEF IInv, TypeOK, LockHeld, Holding,
           StagesKept, NoJob
    <2>3. StagesKept'
      BY <2>a, <2>b, <2>1, <1>3, <1>p, DaysAreDays DEF IInv, TypeOK, StagesKept, LockHeld,
           Holding, Alone, JobTasks, NoJob
    <2>4. JobTasks'
      BY <2>a, <2>b, <2>1, <1>3, <1>p, DaysAreDays DEF IInv, TypeOK, JobTasks, StagesKept,
           LockHeld, Holding, HalfWritten, PreparedAlone, NoJob, Active, Final, IsActive
    <2>7. TaskRows'
      BY <2>a, <2>b, <2>1, <1>3, <1>p, DaysAreDays DEF IInv, TypeOK, TaskRows, JobTasks,
           HalfWritten, StagesKept, LockHeld, Holding, PreparedAlone, RowsKept, Alone,
           Active, Final, NoJob, IsActive
    <2>8. RowsKept'
      BY <2>c, <2>b, <1>3, <1>p DEF IInv, RowsKept, OneActive, ResultAgrees, IsActive,
           Active, Final
    <2> QED
      BY <1>h, <1>g, <2>1, <2>2, <2>3, <2>4, <2>7, <2>8 DEF IInv
  <1>4. CASE job[p].kind \in {"cut", "died"}
    <2>a. /\ row' = [row EXCEPT ![d].status = job[p].status, ![d].owner = NoProc]
          /\ job' = [job EXCEPT ![p] = NoJob]
          /\ task' = [task EXCEPT ![p][d] = "none"]
          /\ UNCHANGED <<lock, today, stage, on, pending, todo, found>>
      BY <1>4, <1>p DEF Commit, Put, EndJob, SetTask
    <2>b. /\ job[p].day = d
          /\ task[p][d] \in {"cut", "died"} /\ IsActive(d) /\ job[p].status \in {"SUSPENDED"} \cup Final
          /\ row[d].result = job[p].status
          /\ Alone(p)
      BY <1>4, <1>p, RowTypes, JobTypes DEF IInv, StagesKept, JobTasks, HalfWritten
    <2>1. TypeOK'
      <3>0. /\ TypeOK /\ NoProc \in Procs \cup {NoProc}
            /\ job[p].status \in {"NONE"} \cup Active \cup Final
        BY <2>a, <2>b, JobTypes DEF IInv, Active, Final
      <3>a. [row EXCEPT ![d].status = job[p].status, ![d].owner = NoProc] \in [Days -> Rows]
        BY <3>0, RowTypes
      <3>1. row' \in [Days -> Rows]
        BY <2>a, <3>a
      <3>2. job' \in [Procs -> [kind : Kinds, day : 0..MaxDay, status : {"NONE"} \cup Active \cup Final]]
        BY <2>a, <2>b, JobTypes, RowTypes, DaysAreDays DEF IInv, TypeOK, Kinds, Active, Final
      <3>3. task' \in [Procs -> [Days -> Tasks]]
        BY <2>a, <2>b, TaskTypes DEF IInv, TypeOK, Tasks
      <3> QED
        BY <2>a, <2>b, <3>1, <3>2, <3>3 DEF IInv, TypeOK
    <2>c. /\ \A e \in Days : e # d => row'[e] = row[e]
          /\ row'[d].status = job[p].status /\ row'[d].owner = NoProc
          /\ row'[d].result = row[d].result /\ (row[d].input => row'[d].input)
          /\ \A q \in Procs : q # p => job'[q] = job[q]
          /\ job'[p] = NoJob
          /\ task' = [task EXCEPT ![p][d] = "none"]
          /\ UNCHANGED <<lock, today, stage, on, pending, todo, found>>
      BY <2>a DEF IInv, TypeOK, Rows
    <2>2. LockHeld'
      BY <2>a, <2>b, <2>1, <1>4, <1>p, DaysAreDays DEF IInv, TypeOK, LockHeld, Holding,
           StagesKept, NoJob
    <2>3. StagesKept'
      BY <2>a, <2>b, <2>1, <1>4, <1>p, DaysAreDays DEF IInv, TypeOK, StagesKept, LockHeld,
           Holding, Alone, JobTasks, NoJob
    <2>4. JobTasks'
      BY <2>a, <2>b, <2>1, <1>4, <1>p, DaysAreDays DEF IInv, TypeOK, JobTasks, StagesKept,
           LockHeld, Holding, HalfWritten, PreparedAlone, NoJob, Active, Final, IsActive
    <2>7. TaskRows'
      BY SMTT(30), <2>a, <2>b, <2>1, <1>4, <1>p, DaysAreDays DEF IInv, TypeOK, TaskRows,
         JobTasks,
           HalfWritten, StagesKept, LockHeld, Holding, PreparedAlone, RowsKept, Alone,
           Active, Final, NoJob, IsActive
    <2>8. RowsKept'
      BY <2>c, <2>b, <1>4, <1>p DEF IInv, RowsKept, OneActive, ResultAgrees, IsActive,
           Active, Final
    <2> QED
      BY <1>h, <1>g, <2>1, <2>2, <2>3, <2>4, <2>7, <2>8 DEF IInv
  <1>5. CASE job[p].kind = "refuse"
    <2>a. /\ row' = [row EXCEPT ![d].status = job[p].status, ![d].owner = NoProc]
          /\ job' = [job EXCEPT ![p] = NoJob]
          /\ UNCHANGED <<lock, today, stage, on, pending, task, todo, found>>
      BY <1>5, <1>p DEF Commit, Put, EndJob, SetTask
    <2>b. /\ job[p].day = d
          /\ row[d].status = "CREATED" /\ job[p].status \in Final
          /\ row[d].result = job[p].status
      BY <1>5, <1>p, RowTypes, JobTypes DEF IInv, StagesKept, JobTasks, HalfWritten,
         PreparedAlone, Active, Final
    <2>1. TypeOK'
      <3>0. /\ TypeOK /\ NoProc \in Procs \cup {NoProc}
            /\ job[p].status \in {"NONE"} \cup Active \cup Final
        BY <2>a, <2>b, JobTypes DEF IInv, Active, Final
      <3>a. [row EXCEPT ![d].status = job[p].status, ![d].owner = NoProc] \in [Days -> Rows]
        BY <3>0, RowTypes
      <3>1. row' \in [Days -> Rows]
        BY <2>a, <3>a
      <3>2. job' \in [Procs -> [kind : Kinds, day : 0..MaxDay, status : {"NONE"} \cup Active \cup Final]]
        BY <2>a, <2>b, JobTypes, RowTypes, DaysAreDays DEF IInv, TypeOK, Kinds, Active, Final
      <3>3. task' \in [Procs -> [Days -> Tasks]]
        BY <2>a, <2>b, TaskTypes DEF IInv, TypeOK, Tasks
      <3> QED
        BY <2>a, <2>b, <3>1, <3>2, <3>3 DEF IInv, TypeOK
    <2>c. /\ \A e \in Days : e # d => row'[e] = row[e]
          /\ row'[d].status = job[p].status /\ row'[d].owner = NoProc
          /\ row'[d].result = row[d].result /\ (row[d].input => row'[d].input)
          /\ \A q \in Procs : q # p => job'[q] = job[q]
          /\ job'[p] = NoJob
          /\ UNCHANGED <<lock, today, stage, on, pending, task, todo, found>>
      BY <2>a DEF IInv, TypeOK, Rows
    <2>2. LockHeld'
      BY <2>a, <2>b, <2>1, <1>5, <1>p, DaysAreDays DEF IInv, TypeOK, LockHeld, Holding,
           StagesKept, NoJob
    <2>3. StagesKept'
      BY <2>a, <2>b, <2>1, <1>5, <1>p, DaysAreDays DEF IInv, TypeOK, StagesKept, LockHeld,
           Holding, Alone, JobTasks, NoJob
    <2>4. JobTasks'
      BY <2>a, <2>b, <2>1, <1>5, <1>p, DaysAreDays DEF IInv, TypeOK, JobTasks, StagesKept,
           LockHeld, Holding, HalfWritten, PreparedAlone, NoJob, Active, Final, IsActive
    <2>7. TaskRows'
      BY <2>a, <2>b, <2>1, <1>5, <1>p, DaysAreDays DEF IInv, TypeOK, TaskRows, JobTasks,
           HalfWritten, StagesKept, LockHeld, Holding, PreparedAlone, RowsKept, Alone,
           Active, Final, NoJob, IsActive
    <2>8. RowsKept'
      BY <2>c, <2>b, <1>5, <1>p DEF IInv, RowsKept, OneActive, ResultAgrees, IsActive,
           Active, Final
    <2> QED
      BY <1>h, <1>g, <2>1, <2>2, <2>3, <2>4, <2>7, <2>8 DEF IInv
  <1> QED
    BY <1>1, <1>2, <1>3, <1>4, <1>5, <1>b DEF Commit

\* The runtime has stopped.
LEMMA Ends ==
    ASSUME IInv, NEW p \in Procs, StopDone(p)
    PROVE  IInv'
  <1> USE RndAssumption, DaysAreNumbers
  <1>1. TypeOK'
    BY RowTypes, JobTypes, TaskTypes DEF IInv, TypeOK, Tasks, Kinds, NoJob, Active, Final,
       JobTasks, StopDone, diskVars
  <1>2. LockHeld'
    BY <1>1 DEF IInv, TypeOK, LockHeld, Holding, StagesKept, NoJob, StopDone, diskVars
  <1>3. StagesKept'
    BY <1>1 DEF IInv, TypeOK, StagesKept, LockHeld, Holding, Alone, JobTasks, NoJob,
       StopDone, diskVars
  <1>4. JobTasks'
    BY <1>1 DEF IInv, TypeOK, JobTasks, StagesKept, LockHeld, Holding, HalfWritten,
       PreparedAlone, NoJob, Active,
           Final, IsActive, StopDone, diskVars
  <1>5. HalfWritten'
    BY <1>1 DEF IInv, TypeOK, HalfWritten, JobTasks, StagesKept, LockHeld, Holding,
       PreparedAlone, TaskRows,
           Alone, IsActive, NoJob, Active, Final, StopDone, diskVars
  <1>6. PreparedAlone'
    BY <1>1 DEF IInv, TypeOK, PreparedAlone, JobTasks, HalfWritten, StagesKept, LockHeld,
       Holding, TaskRows,
           RowsKept, Alone, NoJob, Active, Final, IsActive, StopDone, diskVars
  <1>7. TaskRows'
    BY <1>1 DEF IInv, TypeOK, TaskRows, JobTasks, HalfWritten, StagesKept, LockHeld,
       Holding, PreparedAlone,
           RowsKept, Alone, Active, Final, NoJob, IsActive, StopDone, diskVars
  <1>8. RowsKept'
    BY <1>1 DEF IInv, TypeOK, RowsKept, OneActive, ResultAgrees, IsActive, Active, Final,
       StopDone, diskVars
  <1> QED
    BY <1>1, <1>2, <1>3, <1>4, <1>5, <1>6, <1>7, <1>8 DEF IInv

\* A process ends, in order or by a crash.
LEMMA Downs ==
    ASSUME IInv, NEW p \in Procs, GoDown(p)
    PROVE  IInv'
  <1> USE RndAssumption, DaysAreNumbers
  <1>1. TypeOK'
    <2>1. [d \in Days |-> "none"] \in [Days -> Tasks]
      BY DEF Tasks
    <2>2. task' \in [Procs -> [Days -> Tasks]]
      BY <2>1 DEF IInv, TypeOK, GoDown
    <2>3. pending' \in [Procs -> Seq(Days)]
      BY DEF IInv, TypeOK, GoDown
    <2>4. job' = [job EXCEPT ![p] = NoJob]
      BY DEF GoDown, EndJob
    <2>5. job' \in [Procs -> [kind : Kinds, day : 0..MaxDay, status : {"NONE"} \cup Active \cup Final]]
      BY <2>4, JobTypes DEF IInv
    <2> QED
      BY <2>2, <2>3, <2>5 DEF IInv, TypeOK, GoDown
  <1>2. LockHeld'
    BY <1>1 DEF IInv, TypeOK, LockHeld, Holding, StagesKept, NoJob, GoDown, EndJob
  <1>3. StagesKept'
    BY <1>1 DEF IInv, TypeOK, StagesKept, LockHeld, Holding, Alone, JobTasks, NoJob, GoDown,
       EndJob
  <1>4. JobTasks'
    BY <1>1 DEF IInv, TypeOK, JobTasks, StagesKept, LockHeld, Holding, HalfWritten,
       PreparedAlone, NoJob, Active,
           Final, IsActive, GoDown, EndJob
  <1>5. HalfWritten'
    BY <1>1 DEF IInv, TypeOK, HalfWritten, JobTasks, StagesKept, LockHeld, Holding,
       PreparedAlone, TaskRows,
           Alone, IsActive, NoJob, Active, Final, GoDown, EndJob
  <1>6. PreparedAlone'
    BY <1>1 DEF IInv, TypeOK, PreparedAlone, JobTasks, HalfWritten, StagesKept, LockHeld,
       Holding, TaskRows,
           RowsKept, Alone, NoJob, Active, Final, IsActive, GoDown, EndJob
  <1>7. TaskRows'
    BY <1>1 DEF IInv, TypeOK, TaskRows, JobTasks, HalfWritten, StagesKept, LockHeld,
       Holding, PreparedAlone,
           RowsKept, Alone, Active, Final, NoJob, IsActive, GoDown, EndJob
  <1>8. RowsKept'
    BY <1>1 DEF IInv, TypeOK, RowsKept, OneActive, ResultAgrees, IsActive, Active, Final,
       GoDown, EndJob
  <1> QED
    BY <1>1, <1>2, <1>3, <1>4, <1>5, <1>6, <1>7, <1>8 DEF IInv

-----------------------------------------------------------------------------
\* Every step keeps the invariant.
LEMMA StepsKeep == IInv /\ [Next]_vars => IInv'
  <1> SUFFICES ASSUME IInv, [Next]_vars PROVE IInv'
    OBVIOUS
  <1>1. CASE DayPasses
    BY <1>1, Passes
  <1>2. ASSUME NEW p \in Procs,
               \/ Boot(p) \/ Start(p) \/ Stop(p) \/ StopDone(p) \/ Exit(p) \/ Crash(p)
               \/ Recovery(p) \/ OnSnapshot(p) \/ Preparation(p) \/ Commit(p) \/ HandoffFails(p)
        PROVE  IInv'
    <2>1. CASE Boot(p) \/ Start(p) \/ Stop(p) \/ StopDone(p)
      BY <2>1, Boots, Begins, Stops, Ends
    <2>2. CASE Exit(p) \/ Crash(p)
      BY <2>2, Downs DEF Exit, Crash
    <2>3. CASE Recovery(p)
      BY <2>3, Skips, Reads, Applies, Recovers DEF Recovery
    <2>4. CASE OnSnapshot(p) \/ Commit(p) \/ HandoffFails(p)
      BY <2>4, Creates, Commits, Fails
    <2>5. CASE Preparation(p)
      BY <2>5, CreationFails, Prepares, Queues, Refuses DEF Preparation
    <2> QED
      BY <1>2, <2>1, <2>2, <2>3, <2>4, <2>5
  <1>3. ASSUME NEW p \in Procs, NEW d \in Days,
               TaskStep(p, d) \/ SaveProgress(p, d) \/ TaskDies(p, d)
        PROVE  IInv'
    <2>1. CASE SaveProgress(p, d) \/ TaskDies(p, d)
      BY <2>1, Saves, Dies
    <2>2. CASE TaskStep(p, d)
      BY <2>2, Runs, Works, Closes, Suspends, Cuts, Buries DEF TaskStep
    <2> QED
      BY <1>3, <2>1, <2>2
  <1>4. CASE UNCHANGED vars
    <2>1. UNCHANGED <<row, lock, today, stage, on, pending, task, todo, found, job>>
      BY <1>4 DEF vars, diskVars, procVars
    <2> QED
      BY <2>1 DEF IInv, TypeOK, LockHeld, StagesKept, JobTasks, HalfWritten, PreparedAlone,
         TaskRows, RowsKept, OneActive, ResultAgrees, IsActive, Alone
  <1> QED
    BY <1>1, <1>2, <1>3, <1>4 DEF Next

LEMMA AlwaysIInv == ~LateFinalizers /\ Spec => []IInv
  BY CycleStarts, StepsKeep, PTL DEF Spec

-----------------------------------------------------------------------------
(* A cycle is run by one task at a time, in whatever process, and its row says *)
(* so meanwhile: RndService.run behind the file lock and the claim.             *)
THEOREM RunnersAlone == ~LateFinalizers /\ Spec => []OneRunner
  <1>1. IInv => OneRunner
    BY DEF IInv, LockHeld, TaskRows, OneRunner, Holding, TypeOK
  <1> QED
    BY <1>1, AlwaysIInv, PTL

(* At most one cycle is unfinished: ensure_due creates none beside it, and       *)
(* neither recovery nor any finalizer revives a second.                          *)
THEOREM CyclesAlone == ~LateFinalizers /\ Spec => []OneActive
  <1>1. IInv => OneActive
    BY DEF IInv, RowsKept
  <1> QED
    BY <1>1, AlwaysIInv, PTL

(* The row of a cycle that ended says what its result file says, although the    *)
(* two are written apart and a crash may come between them.                      *)
THEOREM ResultsAgree == ~LateFinalizers /\ Spec => []ResultAgrees
  <1>1. IInv => ResultAgrees
    BY DEF IInv, RowsKept
  <1> QED
    BY <1>1, AlwaysIInv, PTL

(* A cycle whose outcome is on disk is never worked on again: the claim of       *)
(* RndService.run finds no CREATED row with a final result.                      *)
THEOREM OutcomesKept == ~LateFinalizers /\ Spec => OutcomeKept
  <1>1. IInv /\ [Next]_vars =>
          [\A d \in Days, p \in Procs :
             task[p][d] = "queued" /\ task'[p][d] = "working" => row[d].result \notin Final]_vars
    <2> SUFFICES ASSUME IInv, [Next]_vars, NEW d \in Days, NEW p \in Procs,
                        task[p][d] = "queued", task'[p][d] = "working"
                 PROVE  row[d].result \notin Final
      OBVIOUS
    <2>1. row[d].status = "CREATED"
      <3>0. /\ task \in [Procs -> [Days -> Tasks]]
            /\ job[p].kind = "finish" => task[p][job[p].day] = "working"
        BY DEF IInv, TypeOK, JobTasks
      <3>1. CASE \E q \in Procs, e \in Days : RunTask(q, e)
        <4>1. PICK q \in Procs, e \in Days : RunTask(q, e)
          BY <3>1
        <4>2. \/ row[e].status = "CREATED" /\ task' = [task EXCEPT ![q][e] = "working"]
              \/ task' = [task EXCEPT ![q][e] = "none"]
          BY <4>1 DEF RunTask, SetTask
        <4>3. q = p /\ e = d
          BY <3>0, <4>2
        <4> QED
          BY <3>0, <4>2, <4>3
      <3>2. CASE \E q \in Procs, e \in Days, t \in Tasks \ {"working"} :
                   task' = [task EXCEPT ![q][e] = t]
        BY <3>0, <3>2
      <3>3. CASE task' = task
        BY <3>3
      <3>4. CASE \E q \in Procs : Stop(q) \/ RecoverDone(q) \/ GoDown(q)
        BY <3>0, <3>4 DEF Stop, RecoverDone, GoDown
      <3>5. ASSUME NEW q \in Procs, Commit(q)
            PROVE  \/ task' = task
                   \/ \E e \in Days, t \in Tasks \ {"working"} : task' = [task EXCEPT ![q][e] = t]
        <4>1. job[q].day \in Days
          BY <3>5 DEF Commit, IInv, JobTasks
        <4> QED
          BY <3>5, <4>1 DEF Commit, SetTask, Tasks
      <3>6. ASSUME NEW q \in Procs, QueueTask(q)
            PROVE  \E e \in Days, t \in Tasks \ {"working"} : task' = [task EXCEPT ![q][e] = t]
        <4>1. job[q].day \in Days
          BY <3>6 DEF QueueTask, IInv, JobTasks
        <4> QED
          BY <3>6, <4>1 DEF QueueTask, SetTask, Tasks
      <3>7. ASSUME NEW q \in Procs, NEW e \in Days,
                   \/ CloseTask(q, e) \/ SuspendTask(q, e) \/ FinalizeCut(q, e)
                   \/ BuryTask(q, e) \/ TaskDies(q, e)
            PROVE  \/ task' = task
                   \/ \E t \in Tasks \ {"working"} : task' = [task EXCEPT ![q][e] = t]
        BY <3>7 DEF CloseTask, SuspendTask, FinalizeCut, BuryTask, TaskDies, SetTask, Tasks
      <3>8. ASSUME NEW q \in Procs,
                   \/ Boot(q) \/ Start(q) \/ StopDone(q) \/ RecoverApply(q) \/ OnSnapshot(q)
                   \/ CreateFails(q) \/ PrepareInput(q) \/ PrepareFails(q) \/ HandoffFails(q)
                   \/ \E e \in Days : \/ RecoverSkip(q, e) \/ RecoverRead(q, e) \/ SaveProgress(q, e)
                                     \/ \E o \in Final : EndWork(q, e, o)
            PROVE  task' = task
        BY <3>8 DEF Boot, Start, StopDone, RecoverApply, OnSnapshot, CreateFails, PrepareInput, PrepareFails,
           HandoffFails, RecoverSkip, RecoverRead, SaveProgress, EndWork, procVars
      <3>9. CASE DayPasses \/ UNCHANGED vars
        BY <3>3, <3>9 DEF DayPasses, vars, procVars
      <3>10. ASSUME NEW q \in Procs,
                    \/ Boot(q) \/ Start(q) \/ Stop(q) \/ StopDone(q) \/ Exit(q) \/ Crash(q)
                    \/ Recovery(q) \/ OnSnapshot(q) \/ Preparation(q) \/ Commit(q) \/ HandoffFails(q)
             PROVE  row[d].status = "CREATED"
        BY <3>2, <3>3, <3>4, <3>5, <3>6, <3>8, <3>10 DEF Exit, Crash, Recovery, Preparation
      <3>11. ASSUME NEW q \in Procs, NEW e \in Days,
                    TaskStep(q, e) \/ SaveProgress(q, e) \/ TaskDies(q, e)
             PROVE  row[d].status = "CREATED"
        BY <3>1, <3>2, <3>3, <3>7, <3>8, <3>11 DEF TaskStep
      <3> QED
        BY <3>9, <3>10, <3>11 DEF Next
    <2> QED
      BY <2>1 DEF IInv, TaskRows
  <1> QED
    BY <1>1, AlwaysIInv, PTL DEF Spec, OutcomeKept
=============================================================================
