------------------------------ MODULE Building ------------------------------
(***************************************************************************)
(* Building a blueprint (building/executor.py) through the body of the maid:  *)
(* what may be placed is counted from the last snapshot, segments go to the   *)
(* build_chunk action of the Bridge, and the blocks reported as placed are    *)
(* saved.  A segment has one request id, made of the build and the saved      *)
(* number of the segment, and the Bridge answers an id it knows from memory,  *)
(* so only the request and the answer of the current number are kept here.    *)
(* An execution may lose its answer, fail or die with the Agent at any point, *)
(* and is repeated by the plan or after a restart.                            *)
(***************************************************************************)
EXTENDS BuildingDsl

CONSTANTS Items,     \* the building materials
          Documents, \* the documents compiled
          Rotations, \* the rotations asked for
          Segment,   \* the smaller of the two segment sizes
          MaxBlocks, \* bound of the model: larger blueprints are not built
          MaxStock,  \* bound of the model: what the maid carries of one item
          MaxFaults  \* bound of the model: failures, lost answers and crashes

\* What compiles has cells with integer coordinates (dsl.py:11), of known items, and
\* no more than 100000 of them (dsl.py:154); planner.py:34 knows four rotations.
ASSUME BuildingAssumption ==
    /\ Segment \in Nat \ {0} /\ MaxStock \in Nat /\ MaxFaults \in Nat
    /\ Rotations \subseteq {0, 90, 180, 270}
    /\ \A d \in Documents : Compiles(d) =>
         /\ IsFiniteSet(Blueprint(d))
         /\ Blueprint(d) \subseteq [x : Int, y : Int, z : Int, item : Items, optional : BOOLEAN]

VARIABLES document, blocks, rotation, \* what is built
          world,   \* the cells that hold the block they should
          stock,   \* what the maid carries
          seen,    \* the inventory of the last snapshot
          disk,    \* the row of building_checkpoints
          run,     \* the execution
          chunk,   \* the build_chunk action in the body
          answer,  \* the result of the current request, as the Bridge keeps it
          taken,   \* history: the items somebody else took of
          faults

target == <<document, blocks, rotation>>
body   == <<world, stock, chunk, answer>>
rest   == <<seen, taken>>
vars   == <<target, body, rest, disk, run, faults>>

Required == {b \in blocks : ~b.optional}
NoAnswer == [code |-> "none", done |-> {}, failed |-> {}]
NoChunk  == [on |-> FALSE, todo |-> {}, done |-> {}]
NoRun    == [at |-> "idle", done |-> {}, skip |-> {}, todo |-> {}, got |-> NoAnswer, grew |-> FALSE,
             end |-> "none"]
NoSeen   == [i \in Items |-> -1]
Codes    == {"BUILD_CHUNK_COMPLETE", "NO_MATERIAL", "FAILED"}
Ends     == {"none", "BUILD_COMPLETE", "NO_MATERIAL", "FAILED", "BUILD_POSTCONDITION_FAILED",
             "NO_SNAPSHOT", "exception"}
Answers  == [code : Codes \cup {"none"}, done : SUBSET blocks, failed : SUBSET blocks]

TypeOK ==
    /\ \A b, c \in blocks : SameCell(b, c) => b = c
    /\ world \subseteq {Cell(b, rotation) : b \in blocks}
    /\ stock \in [Items -> 0..MaxStock] /\ seen \in [Items -> -1..MaxStock]
    /\ disk \in [done : SUBSET blocks, skip : SUBSET (blocks \ Required),
                 status : {"RUNNING", "PAUSED", "PAUSED_MATERIALS", "DONE"}]
    /\ run \in [at : {"idle", "next", "asked", "judge"}, done : SUBSET blocks, skip : SUBSET blocks,
                todo : SUBSET blocks, got : Answers, grew : BOOLEAN, end : Ends]
    /\ chunk \in [on : BOOLEAN, todo : SUBSET blocks, done : SUBSET blocks]
    /\ answer \in Answers /\ taken \subseteq Items
    /\ faults \in 0..MaxFaults

Init ==
    /\ document \in Documents /\ rotation \in Rotations
    /\ Compiles(document) /\ blocks = Blueprint(document)
    /\ world = {} /\ stock \in [Items -> 0..MaxStock] /\ seen = NoSeen
    /\ disk = [done |-> {}, skip |-> {}, status |-> "RUNNING"]
    /\ run = NoRun /\ chunk = NoChunk /\ answer = NoAnswer
    /\ taken = {} /\ faults = 0

Of(i, set) == Cardinality({b \in set : b.item = i})
First(n, set) == {b \in set : Cardinality({c \in set : Before(c, b)}) < n}

-----------------------------------------------------------------------------
(* execute(). *)

Ended(code, status) ==
    /\ run' = [NoRun EXCEPT !.end = code]
    /\ disk' = [disk EXCEPT !.status = status]

\* "Required material is reserved first": of each item the optional blocks get
\* what the snapshot has beyond the required blocks that are left.
Surplus(i) == seen[i] - Of(i, Required \ disk.done)

\* Mutant: everything in the inventory is there for the taking.
DecorationsGreedy ==
    UNION {First(seen[i], {b \in (blocks \ Required) \ (disk.done \cup disk.skip) : b.item = i}) : i \in Items}

Decorations ==
    UNION {First(Surplus(i), {b \in (blocks \ Required) \ (disk.done \cup disk.skip) : b.item = i}) : i \in Items}

\* Mutant: what the inventory has nothing of is left out.
RunnableAffordable == {b \in Required \ disk.done : seen[b.item] > 0} \cup Decorations

Runnable == (Required \ disk.done) \cup Decorations

AlreadyBuilt ==
    /\ run.at = "idle" /\ Required \subseteq disk.done /\ disk.status = "DONE"
    /\ Ended("BUILD_COMPLETE", "DONE")
    /\ UNCHANGED <<target, body, rest, faults>>

NoSnapshot ==
    /\ run.at = "idle" /\ ~(Required \subseteq disk.done /\ disk.status = "DONE")
    /\ seen = NoSeen
    /\ Ended("NO_SNAPSHOT", "PAUSED")
    /\ UNCHANGED <<target, body, rest, faults>>

Execute ==
    /\ run.at = "idle" /\ ~(Required \subseteq disk.done /\ disk.status = "DONE")
    /\ seen # NoSeen /\ Cardinality(blocks) <= MaxBlocks
    /\ LET todo == Runnable
           skip == (blocks \ Required) \ (disk.done \cup Decorations)
       IN  IF todo = {}
           THEN /\ run' = [NoRun EXCEPT !.end = "BUILD_COMPLETE"]
                /\ disk' = [disk EXCEPT !.skip = skip, !.status = "DONE"]
           ELSE /\ run' = [NoRun EXCEPT !.at = "next", !.done = disk.done, !.skip = skip, !.todo = todo]
                /\ UNCHANGED disk
    /\ UNCHANGED <<target, body, rest, faults>>

\* client.execute: a request the Bridge is busy with, or has answered, is not
\* carried out again.
Ask ==
    /\ run.at = "next" /\ run.todo # {}
    /\ run' = [run EXCEPT !.at = "asked"]
    /\ chunk' = IF chunk.on \/ answer # NoAnswer THEN chunk
                ELSE [on |-> TRUE, todo |-> First(Segment, run.todo), done |-> {}]
    /\ UNCHANGED <<target, world, stock, answer, rest, disk, faults>>

\* Mutant: a segment that was answered counts as built.
ReportedAll(a) == a.done \cup First(Segment, run.todo)

Reported(a) == a.done

\* The result is there: its blocks are saved and the number of the segment goes up.
Take ==
    /\ run.at = "asked" /\ answer # NoAnswer
    /\ LET done == run.done \cup Reported(answer)
       IN  /\ run' = [run EXCEPT !.at = "judge", !.done = done, !.todo = @ \ done,
                                 !.got = answer, !.grew = done # run.done]
           /\ disk' = [done |-> done, skip |-> run.skip,
                       status |-> IF answer.code = "BUILD_CHUNK_COMPLETE" THEN "RUNNING" ELSE "PAUSED"]
    /\ answer' = NoAnswer
    /\ UNCHANGED <<target, world, stock, chunk, rest, faults>>

Judge == run.at = "judge" /\ UNCHANGED <<target, body, rest, faults>>

GoOn ==
    /\ Judge /\ run.got.code = "BUILD_CHUNK_COMPLETE"
    /\ IF run.grew
       THEN run' = [run EXCEPT !.at = "next", !.got = NoAnswer] /\ UNCHANGED disk
       ELSE Ended("BUILD_POSTCONDITION_FAILED", "PAUSED")

LackedDecoration == run.got.code = "NO_MATERIAL" /\ run.got.failed \ Required # {}

Dropped == {b \in run.todo \ Required : \E f \in run.got.failed : b.item = f.item}

\* Mutant: the decorations that are given up stay in the queue.
SkipDecorationOnly ==
    /\ Judge /\ LackedDecoration
    /\ run' = [run EXCEPT !.at = "next", !.skip = @ \cup Dropped, !.got = NoAnswer]
    /\ disk' = [disk EXCEPT !.skip = run.skip \cup Dropped, !.status = "RUNNING"]

SkipDecoration ==
    /\ Judge /\ LackedDecoration
    /\ run' = [run EXCEPT !.at = "next", !.skip = @ \cup Dropped, !.todo = @ \ Dropped, !.got = NoAnswer]
    /\ disk' = [disk EXCEPT !.skip = run.skip \cup Dropped, !.status = "RUNNING"]

\* MaterialPlanner.missing, from the newest snapshot.
Missing == {i \in Items : Of(i, Required \ run.done) > seen[i]}

ReportMissing ==
    /\ Judge /\ run.got.code \in {"NO_MATERIAL", "FAILED"} /\ ~LackedDecoration
    /\ run.got.code = "NO_MATERIAL" \/ Missing # {}
    /\ Ended("NO_MATERIAL", "PAUSED_MATERIALS")

ReportFailure ==
    /\ Judge /\ run.got.code = "FAILED" /\ Missing = {}
    /\ Ended("FAILED", disk.status)

Complete ==
    /\ run.at = "next" /\ run.todo = {}
    /\ IF Required \subseteq run.done THEN Ended("BUILD_COMPLETE", "DONE")
       ELSE Ended("BUILD_POSTCONDITION_FAILED", "PAUSED")
    /\ UNCHANGED <<target, body, rest, faults>>

-----------------------------------------------------------------------------
(* The build_chunk action, one block at a time from the bottom. *)

Lowest == CHOOSE b \in chunk.todo : \A c \in chunk.todo \ {b} : Before(b, c)

Finish(code, done, failed) ==
    /\ chunk' = NoChunk
    /\ answer' = [code |-> code, done |-> done, failed |-> failed]

Finds ==
    /\ chunk.on /\ chunk.todo # {} /\ Cell(Lowest, rotation) \in world
    /\ chunk' = [chunk EXCEPT !.todo = @ \ {Lowest}, !.done = @ \cup {Lowest}]
    /\ UNCHANGED <<target, world, stock, answer, rest, disk, run, faults>>

Places ==
    /\ chunk.on /\ chunk.todo # {} /\ Cell(Lowest, rotation) \notin world
    /\ stock[Lowest.item] > 0
    /\ world' = world \cup {Cell(Lowest, rotation)}
    /\ stock' = [stock EXCEPT ![Lowest.item] = @ - 1]
    /\ chunk' = [chunk EXCEPT !.todo = @ \ {Lowest}, !.done = @ \cup {Lowest}]
    /\ UNCHANGED <<target, answer, rest, disk, run, faults>>

Lacks ==
    /\ chunk.on /\ chunk.todo # {} /\ Cell(Lowest, rotation) \notin world
    /\ stock[Lowest.item] = 0
    /\ Finish("NO_MATERIAL", chunk.done, {Lowest})
    /\ UNCHANGED <<target, world, stock, rest, disk, run, faults>>

ChunkDone ==
    /\ chunk.on /\ chunk.todo = {}
    /\ Finish("BUILD_CHUNK_COMPLETE", chunk.done, {})
    /\ UNCHANGED <<target, world, stock, rest, disk, run, faults>>

Fault == faults < MaxFaults /\ faults' = faults + 1

\* Not visible, occupied, protected (with the blocks so far), or timed out,
\* cancelled and preempted (without them).
ChunkFails ==
    /\ Fault /\ chunk.on /\ chunk.todo # {}
    /\ \E done \in {chunk.done, {}} : Finish("FAILED", done, IF done = {} THEN {} ELSE {Lowest})
    /\ UNCHANGED <<target, world, stock, rest, disk, run>>

-----------------------------------------------------------------------------
(* The rest of the world. *)

Snapshot ==
    /\ seen # stock /\ seen' = stock
    /\ UNCHANGED <<target, body, taken, disk, run, faults>>

\* The material goal, or the player, brings one.
Gather ==
    /\ run.at = "idle" /\ ~chunk.on
    /\ \E i \in Items : stock[i] < MaxStock /\ stock' = [stock EXCEPT ![i] = @ + 1]
    /\ UNCHANGED <<target, world, chunk, answer, rest, disk, run, faults>>

\* Somebody takes one out of her inventory.
Taking ==
    /\ Fault
    /\ \E i \in Items : /\ stock[i] > 0 /\ stock' = [stock EXCEPT ![i] = @ - 1]
                       /\ taken' = taken \cup {i}
    /\ UNCHANGED <<target, world, chunk, answer, seen, disk, run>>

\* The answer does not come (the socket breaks, the wait is over), or the task
\* is cancelled, or the Agent dies: the execution is gone, and the body goes on.
Gone ==
    /\ Fault /\ run.at # "idle"
    /\ run' = [NoRun EXCEPT !.end = "exception"]
    /\ UNCHANGED <<target, body, rest, disk>>

\* The game restarts: its Bridge has forgotten the request, or knows it as
\* interrupted; the sockets break.
BridgeRestarts ==
    /\ Fault /\ (chunk.on \/ answer # NoAnswer)
    /\ chunk' = NoChunk
    /\ answer' \in {NoAnswer, [NoAnswer EXCEPT !.code = "FAILED"]}
    /\ run' = IF run.at = "asked" THEN [NoRun EXCEPT !.end = "exception"] ELSE run
    /\ UNCHANGED <<target, world, stock, rest, disk>>

Executor == Ask \/ Take \/ GoOn \/ SkipDecoration \/ ReportMissing \/ ReportFailure \/ Complete

Chunk == Finds \/ Places \/ Lacks \/ ChunkDone

Next ==
    \/ AlreadyBuilt \/ NoSnapshot \/ Execute \/ Executor \/ Chunk
    \/ ChunkFails \/ Snapshot \/ Gather \/ Taking \/ Gone \/ BridgeRestarts

Spec == Init /\ [][Next]_vars

\* The coroutine goes on and the server ticks; nothing makes the runtime execute,
\* a snapshot arrive or the material come.
FairSpec == Spec /\ WF_vars(Executor) /\ WF_vars(Chunk)

-----------------------------------------------------------------------------
\* "The executor never marks a block complete merely because a segment number
\* advanced" (executor.py:19): what is saved as built stands in the world,
\* however answers were lost, repeated or answered from memory.
Claims == \A b \in disk.done \cup run.done : Cell(b, rotation) \in world

\* When a build is reported complete, every required block stands, in a cell of
\* its own, and none was given up with the decorations.
CompleteMeans == run.end = "BUILD_COMPLETE" => \A b \in Required : Cell(b, rotation) \in world

\* Every execution ends: no segment is asked for again and again.
ExecutionEnds == run.at # "idle" ~> run.at = "idle"

\* "An optional decoration can never starve the build" (executor.py:82): none is
\* placed of which the required blocks still need all there is, although the
\* snapshot may be older than the blocks that
\* were placed since; items that somebody took of are left out.
NeverStarves ==
    [][\A b \in blocks \ Required :
          b.item \notin taken /\ Cell(b, rotation) \in world' \ world =>
            stock[b.item] > Cardinality({r \in Required : r.item = b.item /\ Cell(r, rotation) \notin world})
      ]_vars
=============================================================================
