--------------------------- MODULE BuildingProofs ---------------------------
(***************************************************************************)
(* What the building executor calls built stands in the world, a build it     *)
(* reports complete has every required block, and no decoration is placed     *)
(* with material that a required block still lacks: for every set of          *)
(* documents and rotations, every size of segment and any number of faults.   *)
(***************************************************************************)
EXTENDS Building, TLAPS, FiniteSetTheorems

\* The executor's and the body's records have the fields they are read by.
RunShape  == run = [at |-> run.at, done |-> run.done, skip |-> run.skip, todo |-> run.todo,
                    got |-> run.got, grew |-> run.grew, end |-> run.end]
DiskShape == disk = [done |-> disk.done, skip |-> disk.skip, status |-> disk.status]
ChunkShape == chunk = [on |-> chunk.on, todo |-> chunk.todo, done |-> chunk.done]
Shape == RunShape /\ DiskShape /\ ChunkShape

\* The cells of these blocks hold the block they should.
Stand(set) == \A b \in set : Cell(b, rotation) \in world

\* Claims alone is not inductive: the executor believes the answer that is kept
\* for it, and the answer repeats what the action in the body has counted.
Honest == Stand(chunk.done) /\ Stand(answer.done) /\ Stand(run.done) /\ Stand(disk.done)

BuildInv == Shape /\ Honest /\ CompleteMeans

\* What stands stays, as long as cells are only filled.
LEMMA StandKept ==
    ASSUME NEW set, Stand(set), world \subseteq world', UNCHANGED rotation
    PROVE  Stand(set)'
  BY DEF Stand

\* The first two facts of the invariant's induction: it holds initially.
LEMMA BuildStarts == Init => BuildInv
  BY DEF Init, BuildInv, Shape, RunShape, DiskShape, ChunkShape, Honest, Stand, CompleteMeans,
         NoRun, NoChunk, NoAnswer

\* The steps of the executor that neither take an answer nor end.
LEMMA ExecutorSteps ==
    ASSUME BuildInv, NoSnapshot \/ Ask \/ GoOn \/ SkipDecoration \/ ReportMissing \/ ReportFailure
    PROVE  BuildInv'
  <1>1. UNCHANGED <<blocks, rotation, world, answer>> /\ (chunk' = chunk \/ chunk'.done = {})
    BY DEF NoSnapshot, Ask, GoOn, SkipDecoration, ReportMissing, ReportFailure, Judge,
           target, body, rest
  <1>2. disk'.done = disk.done /\ run'.done \subseteq run.done
    BY DEF BuildInv, Shape, RunShape, DiskShape, NoSnapshot, Ask, GoOn, SkipDecoration,
           ReportMissing, ReportFailure, Judge, Ended, NoRun
  <1>3. run'.end # "BUILD_COMPLETE" \/ run'.end = run.end
    BY DEF BuildInv, Shape, RunShape, NoSnapshot, Ask, GoOn, SkipDecoration,
           ReportMissing, ReportFailure, Judge, Ended, NoRun
  <1>4. RunShape' /\ DiskShape'
    BY DEF BuildInv, Shape, RunShape, DiskShape, NoSnapshot, Ask, GoOn,
           SkipDecoration, ReportMissing, ReportFailure, Judge, Ended, NoRun
  <1>5. ChunkShape'
    BY DEF BuildInv, Shape, ChunkShape, NoSnapshot, Ask, GoOn,
           SkipDecoration, ReportMissing, ReportFailure, Judge, body
  <1> QED
    BY <1>1, <1>2, <1>3, <1>4, <1>5 DEF BuildInv, Shape, Honest, Stand, CompleteMeans, Required

\* An execution that ends or starts: BUILD_COMPLETE is reported only with all
\* required blocks saved.
LEMMA Endings ==
    ASSUME BuildInv, AlreadyBuilt \/ Execute \/ Complete
    PROVE  BuildInv'
  <1>1. UNCHANGED <<blocks, rotation, world, answer, chunk>>
    BY DEF AlreadyBuilt, Execute, Complete, target, body, rest
  <1>2. disk'.done = disk.done /\ (run'.done = {} \/ run'.done = disk.done) /\ Shape'
    BY <1>1 DEF BuildInv, Shape, RunShape, DiskShape, ChunkShape, AlreadyBuilt, Execute, Complete,
                Ended, NoRun
  <1>3. run'.end = "BUILD_COMPLETE" => Required \subseteq disk.done \/ Required \subseteq run.done
    BY DEF AlreadyBuilt, Execute, Complete, Ended, NoRun, Runnable
  <1> QED
    BY <1>1, <1>2, <1>3 DEF BuildInv, Honest, Stand, CompleteMeans, Required

\* The answer is believed, and what it counts stands.
LEMMA Believed ==
    ASSUME BuildInv, Take
    PROVE  BuildInv'
  <1>1. UNCHANGED <<blocks, rotation, world, chunk>> /\ answer'.done = {}
    BY DEF Take, target, rest, NoAnswer
  <1>2. /\ run'.done = run.done \cup answer.done /\ disk'.done = run.done \cup answer.done
        /\ run'.end = run.end /\ Shape'
    BY <1>1 DEF BuildInv, Shape, RunShape, DiskShape, ChunkShape, Take, Reported
  <1> QED
    BY <1>1, <1>2 DEF BuildInv, Honest, Stand, CompleteMeans, Required

\* The body counts a block only when it found or placed it.
LEMMA BodySteps ==
    ASSUME BuildInv, Chunk \/ ChunkFails
    PROVE  BuildInv'
  <1>1. UNCHANGED <<blocks, rotation, run, disk>> /\ world \subseteq world'
    BY DEF Chunk, ChunkFails, Finds, Places, Lacks, ChunkDone, Finish, target, rest
  <1>2. ChunkShape'
    BY DEF BuildInv, Shape, ChunkShape, Chunk, ChunkFails, Finds, Places, Lacks, ChunkDone,
           Finish, NoChunk
  <1>3. \A b \in chunk'.done : b \in chunk.done \/ Cell(b, rotation) \in world'
    <2>1. CASE Finds \/ Places
      <3>1. chunk' = [chunk EXCEPT !.todo = @ \ {Lowest}, !.done = @ \cup {Lowest}]
        BY <2>1 DEF Finds, Places
      <3>2. chunk'.done = chunk.done \cup {Lowest}
        BY <3>1 DEF BuildInv, Shape, ChunkShape
      <3>3. Cell(Lowest, rotation) \in world'
        BY <2>1 DEF Finds, Places
      <3> QED
        BY <3>2, <3>3
    <2>2. CASE Lacks \/ ChunkDone \/ ChunkFails
      BY <2>2 DEF Lacks, ChunkDone, ChunkFails, Finish, NoChunk
    <2> QED
      BY <2>1, <2>2 DEF Chunk
  <1>4. answer'.done = answer.done \/ answer'.done = chunk.done \/ answer'.done = {}
    BY DEF Chunk, ChunkFails, Finds, Places, Lacks, ChunkDone, Finish
  <1>5. Honest'
    BY <1>1, <1>3, <1>4 DEF BuildInv, Honest, Stand
  <1>6. CompleteMeans'
    BY <1>1 DEF BuildInv, CompleteMeans, Required
  <1> QED
    BY <1>1, <1>2, <1>5, <1>6 DEF BuildInv, Shape, RunShape, DiskShape

\* Snapshots, material and faults count nothing as built.
LEMMA OutsideSteps ==
    ASSUME BuildInv, Snapshot \/ Gather \/ Taking \/ Gone \/ BridgeRestarts
    PROVE  BuildInv'
  <1>1. UNCHANGED <<blocks, rotation, world, disk>>
    BY DEF Snapshot, Gather, Taking, Gone, BridgeRestarts, target, body, rest
  <1>2. /\ chunk' = chunk \/ chunk' = NoChunk
        /\ answer' = answer \/ answer'.done = {}
        /\ run' = run \/ run' = [NoRun EXCEPT !.end = "exception"]
    BY DEF Snapshot, Gather, Taking, Gone, BridgeRestarts, target, body, rest, NoAnswer
  <1> QED
    BY <1>1, <1>2 DEF BuildInv, Shape, RunShape, DiskShape, ChunkShape, Honest, Stand,
                      CompleteMeans, Required, NoChunk, NoRun

LEMMA BuildStep == BuildInv /\ [Next]_vars => BuildInv'
  <1> SUFFICES ASSUME BuildInv, [Next]_vars PROVE BuildInv'
    OBVIOUS
  <1>1. CASE AlreadyBuilt \/ Execute \/ Complete
    BY <1>1, Endings
  <1>2. CASE NoSnapshot \/ Ask \/ GoOn \/ SkipDecoration \/ ReportMissing \/ ReportFailure
    BY <1>2, ExecutorSteps
  <1>3. CASE Take
    BY <1>3, Believed
  <1>4. CASE Chunk \/ ChunkFails
    BY <1>4, BodySteps
  <1>5. CASE Snapshot \/ Gather \/ Taking \/ Gone \/ BridgeRestarts
    BY <1>5, OutsideSteps
  <1>6. CASE UNCHANGED vars
    BY <1>6 DEF vars, target, body, rest, BuildInv, Shape, RunShape, DiskShape, ChunkShape,
        Honest, Stand,
                CompleteMeans, Required
  <1> QED
    BY <1>1, <1>2, <1>3, <1>4, <1>5, <1>6 DEF Next, Executor

\* "The executor never marks a block complete merely because a segment number
\* advanced" (executor.py:19), with lost answers, faults and restarts.
THEOREM ClaimsStand == Spec => []Claims
  <1>1. BuildInv => Claims
    BY DEF BuildInv, Honest, Stand, Claims
  <1> QED
    BY <1>1, BuildStarts, BuildStep, PTL DEF Spec

\* A build that execute() reports as BUILD_COMPLETE has all its required blocks.
THEOREM CompleteBuilds == Spec => []CompleteMeans
  <1>1. BuildInv => CompleteMeans
    BY DEF BuildInv
  <1> QED
    BY <1>1, BuildStarts, BuildStep, PTL DEF Spec
-----------------------------------------------------------------------------
(* The decorations never starve the build.  A block is a decoration when it is *)
(* optional.                                                                  *)

Optional(i) == {b \in blocks \ Required : b.item = i}

\* What is built has cells of its own, with integer coordinates.
Setting ==
    /\ IsFiniteSet(blocks)
    /\ blocks \subseteq [x : Int, y : Int, z : Int, item : Items, optional : BOOLEAN]
    /\ rotation \in {0, 90, 180, 270}

\* The blocks of item i in the set that stand, and those that do not.
Stands(i, set) == {b \in set : b.item = i /\ Cell(b, rotation) \in world}
Lacking(i, set) == {b \in set : b.item = i /\ Cell(b, rotation) \notin world}

\* The row of a build that no answer has come for.
Fresh == disk.done = {} /\ disk.skip = {}

Candidates == (blocks \ Required) \ (disk.done \cup disk.skip)

\* What the execution has left is what was neither built nor left out, and its row
\* agrees with it.
RunCovers ==
    /\ run.skip \subseteq blocks \ Required
    /\ run.at # "idle" => /\ run.done = disk.done
                          /\ blocks \ Required \subseteq run.todo \cup run.skip \cup run.done
                          /\ disk.skip \subseteq run.skip \cup run.done
    /\ run.at = "idle" => run.todo = {}

\* A snapshot may be too old by what was placed since.
SnapshotOld ==
    Fresh => \A i \in Items \ taken : seen[i] <= stock[i] + Cardinality(Stands(i, blocks))

\* The decorations that may still be placed or chosen are in a set for which there is
\* material beyond what the required blocks lack; for a fresh build it is what some
\* snapshot had a surplus for, the lowest of them, and every one that stands is of it.
Covers(W, i) ==
    /\ \A b \in (run.todo \cup chunk.todo) \ Required : b.item = i => b \in W
    /\ W = {} \/ stock[i] >= Cardinality(Lacking(i, Required)) + Cardinality(Lacking(i, W))
    /\ Fresh => /\ \E n \in Int : W = First(n, Optional(i))
                /\ Stands(i, Optional(i)) \subseteq W
    /\ ~Fresh => \A b \in Candidates : b.item = i => b \in W

Reserved == \A i \in Items \ taken : \E W \in SUBSET Optional(i) : Covers(W, i)

ReserveInv == TypeOK /\ Setting /\ RunCovers /\ SnapshotOld /\ Reserved

\* Blocks with cells of their own.
Apart(S) ==
    /\ IsFiniteSet(S)
    /\ S \subseteq [x : Int, y : Int, z : Int, item : Items, optional : BOOLEAN]
    /\ \A b, c \in S : SameCell(b, c) => b = c

\* Bottom-up is a strict linear order of such blocks.
LEMMA Order ==
    ASSUME NEW S, Apart(S)
    PROVE  /\ \A b \in S : ~Before(b, b)
           /\ \A b, c \in S : b # c => Before(b, c) \/ Before(c, b)
           /\ \A b, c, d \in S : Before(b, c) /\ Before(c, d) => Before(b, d)
  <1>1. \A b \in S : b.x \in Int /\ b.y \in Int /\ b.z \in Int
    BY DEF Apart
  <1>2. \A b, c \in S : b # c => Before(b, c) \/ Before(c, b)
    <2> SUFFICES ASSUME NEW b \in S, NEW c \in S, b # c PROVE Before(b, c) \/ Before(c, b)
      OBVIOUS
    <2>1. ~(b.x = c.x /\ b.y = c.y /\ b.z = c.z)
      BY DEF Apart, SameCell
    <2> QED
      BY <1>1, <2>1 DEF Before
  <1> QED
    BY <1>1, <1>2 DEF Before

Earlier(S, b) == {c \in S : Before(c, b)}

LEMMA EarlierLess ==
    ASSUME NEW S, Apart(S), NEW b \in S
    PROVE  /\ Cardinality(Earlier(S, b)) \in Nat
           /\ \A c \in S : Before(b, c) => Cardinality(Earlier(S, b)) < Cardinality(Earlier(S, c))
  <1>1. \A c \in S : IsFiniteSet(Earlier(S, c)) /\ Cardinality(Earlier(S, c)) \in Nat
    BY FS_Subset, FS_CardinalityType DEF Apart, Earlier
  <1>2. ASSUME NEW c \in S, Before(b, c)
        PROVE  Cardinality(Earlier(S, b)) < Cardinality(Earlier(S, c))
    <2>1. Earlier(S, b) \subseteq Earlier(S, c) /\ b \in Earlier(S, c) /\ b \notin Earlier(S, b)
      BY <1>2, Order DEF Earlier
    <2>2. /\ Cardinality(Earlier(S, b)) <= Cardinality(Earlier(S, c))
          /\ Cardinality(Earlier(S, b)) # Cardinality(Earlier(S, c))
      BY <1>1, <2>1, FS_Subset
    <2> QED
      BY <1>1, <2>2
  <1> QED
    BY <1>1, <1>2

LEMMA LowestIs ==
    ASSUME NEW S, Apart(S), S # {}
    PROVE  \E b \in S : \A c \in S \ {b} : Before(b, c)
  <1> DEFINE Ranks == {Cardinality(Earlier(S, b)) : b \in S}
  <1>1. Ranks \subseteq Nat /\ Ranks # {}
    BY EarlierLess
  <1>2. PICK n \in Ranks : \A m \in Ranks : ~(<<m, n>> \in OpToRel(<, Nat))
    <2> HIDE DEF Ranks
    <2> QED
      BY <1>1, WFMin, NatLessThanWellFounded, Zenon
  <1>3. PICK b \in S : n = Cardinality(Earlier(S, b))
    BY <1>2
  <1>4. ASSUME NEW c \in S \ {b}, ~Before(b, c)
        PROVE  FALSE
    <2>1. Before(c, b)
      BY <1>4, Order
    <2>2. Cardinality(Earlier(S, c)) < n /\ Cardinality(Earlier(S, c)) \in Ranks
      BY <1>3, <2>1, EarlierLess
    <2> QED
      BY <1>1, <1>2, <1>3, <2>2, Zenon DEF OpToRel
  <1> QED
    BY <1>4

\* First takes the lowest, as many as asked for, and more if more are asked for.
LEMMA FirstIs ==
    ASSUME NEW S, Apart(S), NEW n \in Int
    PROVE  /\ First(n, S) \subseteq S /\ IsFiniteSet(First(n, S))
           /\ First(n, S) # {} => Cardinality(First(n, S)) <= n
           /\ n <= 0 => First(n, S) = {}
           /\ \A m \in Int : m <= n => First(m, S) \subseteq First(n, S)
  <1>1. First(n, S) = {b \in S : Cardinality(Earlier(S, b)) < n}
    BY DEF First, Earlier
  <1>2. \A b \in S : Cardinality(Earlier(S, b)) \in Nat
    BY EarlierLess
  <1>3. First(n, S) \subseteq S /\ IsFiniteSet(First(n, S)) /\ (n <= 0 => First(n, S) = {})
    BY <1>1, <1>2, FS_Subset DEF Apart
  <1>4. ASSUME n > 0
        PROVE  Cardinality(First(n, S)) <= n
    <2> DEFINE f == [b \in First(n, S) |-> Cardinality(Earlier(S, b))]
    <2>1. f \in [First(n, S) -> 0..(n - 1)]
      BY <1>1, <1>2
    <2>2. ASSUME NEW b \in First(n, S), NEW c \in First(n, S), f[b] = f[c]
          PROVE  b = c
      <3>1. b \in S /\ c \in S /\ Cardinality(Earlier(S, b)) = Cardinality(Earlier(S, c))
        BY <1>3, <2>2
      <3>2. ~Before(b, c) /\ ~Before(c, b)
        BY <3>1, EarlierLess
      <3> QED
        BY <3>1, <3>2, Order
    <2>3. f \in Injection(First(n, S), 0..(n - 1))
      BY <2>1, <2>2 DEF Injection, IsInjective
    <2>4. IsFiniteSet(0..(n - 1)) /\ Cardinality(0..(n - 1)) = n
      BY <1>4, FS_Interval
    <2> QED
      BY <2>3, <2>4, FS_Injection
  <1>5. ASSUME NEW m \in Int, m <= n
        PROVE  First(m, S) \subseteq First(n, S)
    BY <1>2, <1>5 DEF First, Earlier
  <1> QED
    BY <1>3, <1>4, <1>5

\* A cell of the world is that of one block.
LEMMA CellsApart ==
    ASSUME Setting, NEW b \in blocks, NEW c \in blocks, Cell(b, rotation) = Cell(c, rotation)
    PROVE  SameCell(b, c)
  <1>1. b.x \in Int /\ b.z \in Int /\ c.x \in Int /\ c.z \in Int
    BY DEF Setting
  <1> QED
    BY <1>1 DEF Setting, Cell, SameCell

\* The parts of TypeOK that the lemmas need.
LEMMA Typed ==
    ASSUME TypeOK, Setting
    PROVE  /\ Apart(blocks) /\ \A S \in SUBSET blocks : Apart(S)
           /\ Required \subseteq blocks /\ \A i \in Items : Optional(i) \subseteq blocks /\ Apart(Optional(i))
           /\ \A i \in Items : stock[i] \in Nat /\ seen[i] \in Int
           /\ run.todo \subseteq blocks /\ run.done \subseteq blocks /\ run.skip \subseteq blocks
           /\ chunk.todo \subseteq blocks /\ chunk.done \subseteq blocks
           /\ disk.done \subseteq blocks /\ disk.skip \subseteq blocks \ Required
  <1>1. /\ \A i \in Items : stock[i] \in Nat /\ seen[i] \in Int
        /\ run.todo \subseteq blocks /\ run.done \subseteq blocks /\ run.skip \subseteq blocks
        /\ chunk.todo \subseteq blocks /\ chunk.done \subseteq blocks
        /\ disk.done \subseteq blocks /\ disk.skip \subseteq blocks \ Required
    BY BuildingAssumption DEF TypeOK
  <1>2. \A S \in SUBSET blocks : Apart(S)
    BY FS_Subset DEF TypeOK, Setting, Apart
  <1>3. Required \subseteq blocks /\ \A i \in Items : Optional(i) \subseteq blocks
    BY DEF Required, Optional
  <1> QED
    BY <1>1, <1>2, <1>3

\* What is counted is finite.
LEMMA Counted ==
    ASSUME TypeOK, Setting, NEW S \in SUBSET blocks, NEW i
    PROVE  /\ IsFiniteSet(Lacking(i, S)) /\ Cardinality(Lacking(i, S)) \in Nat
           /\ IsFiniteSet(Stands(i, S)) /\ Cardinality(Stands(i, S)) \in Nat
           /\ Of(i, S) = Cardinality(Lacking(i, S)) + Cardinality(Stands(i, S))
  <1>1. IsFiniteSet(Lacking(i, S)) /\ IsFiniteSet(Stands(i, S))
    BY FS_Subset DEF Setting, Lacking, Stands
  <1>2. Cardinality(Lacking(i, S)) \in Nat /\ Cardinality(Stands(i, S)) \in Nat
    BY <1>1, FS_CardinalityType
  <1>3. /\ {b \in S : b.item = i} = Lacking(i, S) \cup Stands(i, S)
        /\ Lacking(i, S) \cap Stands(i, S) = {}
    BY DEF Lacking, Stands
  <1>4. Cardinality(Lacking(i, S) \cup Stands(i, S)) = Cardinality(Lacking(i, S)) + Cardinality(Stands(i, S)) - 0
    BY <1>1, <1>3, FS_Union, FS_EmptySet
  <1>5. Of(i, S) = Cardinality(Lacking(i, S) \cup Stands(i, S))
    BY <1>3, Zenon DEF Of
  <1> QED
    BY <1>1, <1>2, <1>4, <1>5

LEMMA LowestInChunk ==
    ASSUME TypeOK, Setting, chunk.todo # {}
    PROVE  Lowest \in chunk.todo /\ Lowest \in blocks /\ Lowest.item \in Items
  <1>1. Apart(chunk.todo) /\ chunk.todo \subseteq blocks
    BY Typed
  <1>2. \E b \in chunk.todo : \A c \in chunk.todo \ {b} : Before(b, c)
    BY <1>1, LowestIs
  <1>3. Lowest \in chunk.todo
    BY <1>2 DEF Lowest
  <1> QED
    BY <1>1, <1>3 DEF Setting

\* Placing a block: its cell stands, one less is lacking in the sets it is in, and none
\* more in any other.
LEMMA PlacedCounts ==
    ASSUME TypeOK, Setting, Places, NEW S \in SUBSET blocks, NEW i
    PROVE  /\ Cardinality(Lacking(i, S)') <= Cardinality(Lacking(i, S))
           /\ i = Lowest.item /\ Lowest \in S => Cardinality(Lacking(i, S)') < Cardinality(Lacking(i, S))
           /\ Cardinality(Stands(i, S)') >= Cardinality(Stands(i, S))
           /\ i = Lowest.item /\ Lowest \in S => Cardinality(Stands(i, S)') > Cardinality(Stands(i, S))
           /\ Cardinality(Lacking(i, S)') \in Nat /\ Cardinality(Stands(i, S)') \in Nat
  <1> DEFINE l == Lacking(i, S)  l2 == {b \in S : b.item = i /\ Cell(b, rotation) \notin world'}
             s == Stands(i, S)   s2 == {b \in S : b.item = i /\ Cell(b, rotation) \in world'}
  <1>1. /\ world' = world \cup {Cell(Lowest, rotation)} /\ Cell(Lowest, rotation) \notin world
        /\ UNCHANGED rotation
    BY DEF Places, target
  <1>2. Lacking(i, S)' = l2 /\ Stands(i, S)' = s2
    BY <1>1 DEF Lacking, Stands
  <1>3. l2 \subseteq l /\ s \subseteq s2
    BY <1>1 DEF Lacking, Stands
  <1>4. i = Lowest.item /\ Lowest \in S => Lowest \in l /\ Lowest \notin l2 /\ Lowest \in s2 /\ Lowest \notin s
    BY <1>1 DEF Lacking, Stands
  <1>5. IsFiniteSet(l) /\ IsFiniteSet(s2)
    <2>1. s2 \subseteq blocks /\ IsFiniteSet(blocks)
      BY DEF Setting
    <2> QED
      BY <2>1, Counted, FS_Subset
  <1> HIDE DEF l, l2, s, s2
  <1>6. /\ Cardinality(l2) <= Cardinality(l) /\ (Cardinality(l2) = Cardinality(l) => l2 = l)
        /\ Cardinality(s) <= Cardinality(s2) /\ (Cardinality(s) = Cardinality(s2) => s = s2)
        /\ IsFiniteSet(l2) /\ IsFiniteSet(s)
    BY <1>3, <1>5, FS_Subset
  <1>7. Cardinality(l2) \in Nat /\ Cardinality(l) \in Nat /\ Cardinality(s) \in Nat /\ Cardinality(s2) \in Nat
    BY <1>5, <1>6, FS_CardinalityType
  <1>8. /\ Lacking(i, S)' = l2 /\ Stands(i, S)' = s2
        /\ Lacking(i, S) = l /\ Stands(i, S) = s
    BY <1>2 DEF l, s
  <1> QED
    BY <1>4, <1>6, <1>7, <1>8

\* Setting and types.
LEMMA SettingKept ==
    ASSUME Setting, [Next]_vars
    PROVE  Setting' /\ UNCHANGED target
  <1>1. UNCHANGED target
    BY DEF Next, Executor, Chunk, AlreadyBuilt, NoSnapshot, Execute, Ask, Take, GoOn, SkipDecoration,
           ReportMissing, ReportFailure, Judge, Complete, Finds, Places, Lacks, ChunkDone, ChunkFails,
           Snapshot, Gather, Taking, Gone, BridgeRestarts, vars
  <1> QED
    BY <1>1 DEF Setting, target

LEMMA RunTyped ==
    ASSUME TypeOK, Setting, RunCovers, [Next]_vars
    PROVE  /\ run' \in [at : {"idle", "next", "asked", "judge"}, done : SUBSET blocks, skip : SUBSET blocks,
                        todo : SUBSET blocks, got : Answers, grew : BOOLEAN, end : Ends]
           /\ disk' \in [done : SUBSET blocks, skip : SUBSET (blocks \ Required),
                         status : {"RUNNING", "PAUSED", "PAUSED_MATERIALS", "DONE"}]
  <1> DEFINE Runs == [at : {"idle", "next", "asked", "judge"}, done : SUBSET blocks, skip : SUBSET blocks,
                      todo : SUBSET blocks, got : Answers, grew : BOOLEAN, end : Ends]
             Rows == [done : SUBSET blocks, skip : SUBSET (blocks \ Required),
                      status : {"RUNNING", "PAUSED", "PAUSED_MATERIALS", "DONE"}]
  <1>1. run \in Runs /\ disk \in Rows /\ answer \in Answers /\ NoAnswer \in Answers
    BY DEF TypeOK, Answers, NoAnswer
  <1>2. ASSUME NEW end \in Ends
        PROVE  [NoRun EXCEPT !.end = end] \in Runs
    BY <1>1, <1>2 DEF NoRun
  <1>3. ASSUME NEW code \in Ends, NEW status \in {"RUNNING", "PAUSED", "PAUSED_MATERIALS", "DONE"},
               Ended(code, status)
        PROVE  run' \in Runs /\ disk' \in Rows
    BY <1>1, <1>2, <1>3 DEF Ended
  <1>4. CASE AlreadyBuilt \/ NoSnapshot \/ ReportMissing \/ ReportFailure \/ Complete
    BY <1>1, <1>3, <1>4 DEF AlreadyBuilt, NoSnapshot, ReportMissing, ReportFailure, Complete, Ends
  <1>5. CASE Execute
    <2>1. Runnable \subseteq blocks /\ (blocks \ Required) \ (disk.done \cup Decorations) \subseteq blocks \ Required
      BY DEF Runnable, Decorations, Required, First
    <2>2. "BUILD_COMPLETE" \in Ends /\ "none" \in Ends
      BY DEF Ends
    <2>3. CASE Runnable = {}
      <3>1. /\ run' = [NoRun EXCEPT !.end = "BUILD_COMPLETE"]
            /\ disk' = [disk EXCEPT !.skip = (blocks \ Required) \ (disk.done \cup Decorations),
                                    !.status = "DONE"]
        BY <1>5, <2>3 DEF Execute
      <3> QED
        BY <1>1, <1>2, <2>1, <2>2, <3>1
    <2>4. CASE Runnable # {}
      <3>1. /\ disk' = disk
            /\ run' = [NoRun EXCEPT !.at = "next", !.done = disk.done, !.todo = Runnable,
                        !.skip = (blocks \ Required) \ (disk.done \cup Decorations)]
        BY <1>5, <2>4 DEF Execute
      <3> QED
        BY <1>1, <2>1, <2>2, <3>1 DEF NoRun
    <2> QED
      BY <2>3, <2>4
  <1>6. CASE Ask
    BY <1>1, <1>6 DEF Ask, rest
  <1>7. CASE Take
    <2>1. run.done \cup Reported(answer) \subseteq blocks
      BY <1>1 DEF Reported, Answers
    <2>2. run.skip \subseteq blocks \ Required
      BY DEF RunCovers
    <2> QED
      BY <1>1, <1>7, <2>1, <2>2 DEF Take
  <1>8. CASE GoOn
    BY <1>1, <1>3, <1>8 DEF GoOn, Ends
  <1>9. CASE SkipDecoration
    <2>1. run.skip \subseteq blocks \ Required /\ Dropped \subseteq blocks \ Required
      BY <1>1 DEF RunCovers, Dropped
    <2>2. run' = [run EXCEPT !.at = "next", !.skip = @ \cup Dropped, !.todo = @ \ Dropped, !.got = NoAnswer]
      BY <1>9 DEF SkipDecoration
    <2>3. disk' = [disk EXCEPT !.skip = run.skip \cup Dropped, !.status = "RUNNING"]
      BY <1>9 DEF SkipDecoration
    <2>4. run' \in Runs
      BY <1>1, <2>1, <2>2
    <2>5. disk' \in Rows
      BY <1>1, <2>1, <2>3
    <2> QED
      BY <2>4, <2>5
  <1>10. CASE UNCHANGED <<run, disk>>
    BY <1>1, <1>10
  <1>11. CASE Gone \/ BridgeRestarts
    <2>1. /\ run' = run \/ run' = [NoRun EXCEPT !.end = "exception"]
          /\ UNCHANGED disk
      BY <1>11 DEF Gone, BridgeRestarts
    <2>2. [NoRun EXCEPT !.end = "exception"] \in Runs
      BY <1>2 DEF Ends
    <2> QED
      BY <1>1, <2>1, <2>2
  <1> QED
    BY <1>4, <1>5, <1>6, <1>7, <1>8, <1>9, <1>10, <1>11 DEF Next, Executor, Chunk, Finds, Places, Lacks,
       ChunkDone, ChunkFails, Snapshot, Gather, Taking, vars

LEMMA BodyTyped ==
    ASSUME TypeOK, Setting, [Next]_vars
    PROVE  /\ world' \subseteq {Cell(b, rotation) : b \in blocks}
           /\ stock' \in [Items -> 0..MaxStock] /\ seen' \in [Items -> -1..MaxStock]
           /\ chunk' \in [on : BOOLEAN, todo : SUBSET blocks, done : SUBSET blocks]
           /\ answer' \in Answers /\ taken' \subseteq Items
           /\ faults' \in 0..MaxFaults
  <1> DEFINE Chunks == [on : BOOLEAN, todo : SUBSET blocks, done : SUBSET blocks]
  <1>1. /\ world \subseteq {Cell(b, rotation) : b \in blocks}
        /\ stock \in [Items -> 0..MaxStock] /\ seen \in [Items -> -1..MaxStock]
        /\ chunk \in Chunks /\ answer \in Answers /\ taken \subseteq Items /\ faults \in 0..MaxFaults
        /\ run.todo \subseteq blocks /\ MaxStock \in Nat /\ MaxFaults \in Nat
    BY BuildingAssumption DEF TypeOK
  <1>2. NoAnswer \in Answers /\ NoChunk \in Chunks /\ [NoAnswer EXCEPT !.code = "FAILED"] \in Answers
    BY DEF NoAnswer, NoChunk, Answers, Codes
  <1>3. chunk.todo # {} => Lowest \in chunk.todo /\ Lowest \in blocks /\ Lowest.item \in Items
    BY LowestInChunk
  <1>4. CASE AlreadyBuilt \/ NoSnapshot \/ Execute \/ GoOn \/ SkipDecoration \/ ReportMissing \/ ReportFailure
             \/ Complete
    BY <1>1, <1>4 DEF AlreadyBuilt, NoSnapshot, Execute, GoOn, SkipDecoration, ReportMissing,
        ReportFailure,
       Complete, Judge, body, rest
  <1>5. CASE Ask
    <2>1. First(Segment, run.todo) \subseteq blocks
      BY <1>1 DEF First
    <2> QED
      BY <1>1, <1>5, <2>1 DEF Ask, rest
  <1>6. CASE Take
    BY <1>1, <1>2, <1>6 DEF Take, rest
  <1>7. CASE Finds
    <2>1. chunk' = [chunk EXCEPT !.todo = @ \ {Lowest}, !.done = @ \cup {Lowest}] /\ Lowest \in blocks
      BY <1>3, <1>7 DEF Finds
    <2>2. chunk' \in Chunks
      BY <1>1, <2>1
    <2> QED
      BY <1>1, <1>7, <2>2 DEF Finds, rest
  <1>8. CASE Places
    <2>1. chunk' = [chunk EXCEPT !.todo = @ \ {Lowest}, !.done = @ \cup {Lowest}] /\ Lowest \in blocks
          /\ Lowest.item \in Items
      BY <1>3, <1>8 DEF Places
    <2>2. chunk' \in Chunks
      BY <1>1, <2>1
    <2>3. stock' \in [Items -> 0..MaxStock]
      BY <1>1, <1>8, <2>1 DEF Places
    <2>4. world' \subseteq {Cell(b, rotation) : b \in blocks}
      BY <1>1, <1>8, <2>1 DEF Places
    <2> QED
      BY <1>1, <1>8, <2>2, <2>3, <2>4 DEF Places, rest
  <1>9. CASE Lacks \/ ChunkDone \/ ChunkFails
    <2>1. \E code \in Codes, done \in SUBSET blocks, failed \in SUBSET blocks : Finish(code, done, failed)
      <3>1. chunk.done \subseteq blocks
        BY <1>1
      <3>2. CASE Lacks
        BY <1>3, <3>1, <3>2 DEF Lacks, Codes
      <3>3. CASE ChunkDone
        BY <3>1, <3>3 DEF ChunkDone, Codes
      <3>4. CASE ChunkFails
        <4>1. PICK done \in {chunk.done, {}} : Finish("FAILED", done, IF done = {} THEN {} ELSE {Lowest})
          BY <3>4 DEF ChunkFails
        <4>2. Lowest \in blocks
          BY <1>3, <3>4 DEF ChunkFails
        <4> QED
          BY <3>1, <4>1, <4>2 DEF Codes
      <3> QED
        BY <1>9, <3>2, <3>3, <3>4
    <2>2. chunk' \in Chunks /\ answer' \in Answers
      BY <1>2, <2>1 DEF Finish, Answers
    <2> QED
      BY <1>1, <1>9, <2>2 DEF Lacks, ChunkDone, ChunkFails, Fault, rest
  <1>10. CASE Snapshot
    BY <1>1, <1>10 DEF Snapshot, body
  <1>11. CASE Gather
    BY <1>1, <1>11 DEF Gather, rest
  <1>12. CASE Taking
    BY <1>1, <1>12 DEF Taking, Fault
  <1>13. CASE Gone
    BY <1>1, <1>13 DEF Gone, Fault, body, rest
  <1>14. CASE BridgeRestarts
    BY <1>1, <1>2, <1>14 DEF BridgeRestarts, Fault, rest
  <1>15. CASE UNCHANGED vars
    BY <1>1, <1>15 DEF vars, body, rest
  <1> QED
    BY <1>4, <1>5, <1>6, <1>7, <1>8, <1>9, <1>10, <1>11, <1>12, <1>13, <1>14, <1>15
        DEF Next, Executor, Chunk

LEMMA TypesKept ==
    ASSUME TypeOK, Setting, RunCovers, [Next]_vars
    PROVE  TypeOK'
  <1>1. UNCHANGED <<document, blocks, rotation>>
    BY SettingKept DEF target
  <1>2. Answers' = Answers /\ Required' = Required
    BY <1>1 DEF Answers, Required
  <1>3. \A b, c \in blocks' : SameCell(b, c) => b = c
    BY <1>1 DEF TypeOK
  <1> QED
    BY <1>1, <1>2, <1>3, RunTyped, BodyTyped DEF TypeOK

LEMMA CoversKept ==
    ASSUME TypeOK, Setting, RunCovers, [Next]_vars
    PROVE  RunCovers'
  <1>1. UNCHANGED blocks /\ Required' = Required
    BY SettingKept DEF target, Required
  <1>2. /\ run.skip \subseteq blocks \ Required
        /\ run.at # "idle" => /\ run.done = disk.done
                              /\ blocks \ Required \subseteq run.todo \cup run.skip \cup run.done
                              /\ disk.skip \subseteq run.skip \cup run.done
        /\ run.at = "idle" => run.todo = {}
    BY DEF RunCovers
  <1>3. /\ RunShape /\ DiskShape /\ disk.skip \subseteq blocks \ Required
    BY DEF TypeOK, RunShape, DiskShape
  <1>4. CASE run'.at = "idle" /\ run'.todo = {} /\ run'.skip = {}
    BY <1>1, <1>4 DEF RunCovers
  <1>5. CASE AlreadyBuilt \/ NoSnapshot \/ ReportMissing \/ ReportFailure \/ Complete \/ Gone
    BY <1>4, <1>5 DEF AlreadyBuilt, NoSnapshot, ReportMissing, ReportFailure, Complete, Gone,
        Ended, NoRun
  <1>6. CASE Execute
    <2>1. CASE Runnable = {}
      BY <1>4, <1>6, <2>1 DEF Execute, NoRun
    <2>2. CASE Runnable # {}
      <3>1. /\ run' = [NoRun EXCEPT !.at = "next", !.done = disk.done,
                                    !.skip = (blocks \ Required) \ (disk.done \cup Decorations), !.todo = Runnable]
            /\ UNCHANGED disk
        BY <1>6, <2>2 DEF Execute
      <3>2. /\ run'.at = "next" /\ run'.done = disk.done /\ run'.todo = Runnable
            /\ run'.skip = (blocks \ Required) \ (disk.done \cup Decorations)
        BY <3>1 DEF NoRun
      <3>3. Decorations \subseteq Runnable /\ Decorations \cap disk.skip = {}
        BY DEF Runnable, Decorations, First
      <3> QED
        BY <1>1, <1>3, <3>1, <3>2, <3>3 DEF RunCovers
    <2> QED
      BY <2>1, <2>2
  <1>7. CASE Ask \/ (GoOn /\ run.grew)
    <2>1. /\ UNCHANGED disk /\ run'.at # "idle" /\ run.at # "idle"
          /\ run'.done = run.done /\ run'.todo = run.todo /\ run'.skip = run.skip
      BY <1>3, <1>7 DEF Ask, GoOn, Judge, RunShape
    <2> QED
      BY <1>1, <1>2, <2>1 DEF RunCovers
  <1>8. CASE GoOn /\ ~run.grew
    BY <1>4, <1>8 DEF GoOn, Ended, NoRun
  <1>9. CASE Take
    <2> DEFINE done == run.done \cup Reported(answer)
    <2>1. /\ run'.at = "judge" /\ run'.done = done /\ run'.todo = run.todo \ done /\ run'.skip = run.skip
          /\ disk'.done = done /\ disk'.skip = run.skip /\ run.at # "idle"
      BY <1>3, <1>9 DEF Take, RunShape
    <2> HIDE DEF done
    <2>2. run.done \subseteq done
      BY DEF done
    <2> QED
      BY <1>1, <1>2, <2>1, <2>2 DEF RunCovers
  <1>10. CASE SkipDecoration
    <2>1. /\ run'.at = "next" /\ run'.done = run.done /\ run'.todo = run.todo \ Dropped
          /\ run'.skip = run.skip \cup Dropped /\ disk'.done = disk.done
          /\ disk'.skip = run.skip \cup Dropped /\ run.at # "idle"
      BY <1>3, <1>10 DEF SkipDecoration, Judge, RunShape, DiskShape
    <2>2. Dropped \subseteq blocks \ Required
      BY DEF Dropped, TypeOK
    <2> QED
      BY <1>1, <1>2, <2>1, <2>2 DEF RunCovers
  <1>11. CASE UNCHANGED <<run, disk>>
    BY <1>1, <1>2, <1>11 DEF RunCovers
  <1>12. CASE BridgeRestarts
    BY <1>4, <1>11, <1>12 DEF BridgeRestarts, NoRun
  <1> QED
    BY <1>5, <1>6, <1>7, <1>8, <1>9, <1>10, <1>11, <1>12
        DEF Next, Executor, Chunk, Finds, Places, Lacks,
       ChunkDone, ChunkFails, Snapshot, Gather, Taking, vars

\* Once something was saved the row is not fresh any more.
LEMMA FreshEnds ==
    ASSUME TypeOK, Setting, RunCovers, [Next]_vars, Fresh'
    PROVE  Fresh
  <1>1. RunShape /\ DiskShape /\ disk.skip \subseteq blocks \ Required
    BY DEF TypeOK, RunShape, DiskShape
  <1>2. CASE Execute
    <2>1. disk'.done = disk.done
      BY <1>1, <1>2 DEF Execute, DiskShape
    <2>2. CASE Runnable = {}
      <3>1. disk'.skip = (blocks \ Required) \ (disk.done \cup Decorations)
        BY <1>1, <1>2, <2>2 DEF Execute, DiskShape
      <3>2. Decorations = {}
        BY <2>2 DEF Runnable
      <3> QED
        BY <1>1, <2>1, <3>1, <3>2 DEF Fresh
    <2>3. CASE Runnable # {}
      BY <1>2, <2>3 DEF Execute, Fresh
    <2> QED
      BY <2>2, <2>3
  <1>3. CASE Take
    <2>1. /\ disk'.done = run.done \cup Reported(answer) /\ disk'.skip = run.skip /\ run.at # "idle"
      BY <1>3 DEF Take
    <2> QED
      BY <2>1 DEF Fresh, RunCovers
  <1>4. CASE SkipDecoration
    <2>1. disk'.done = disk.done /\ disk'.skip = run.skip \cup Dropped /\ run.at # "idle"
      BY <1>1, <1>4 DEF SkipDecoration, Judge, DiskShape
    <2> QED
      BY <2>1 DEF Fresh, RunCovers
  <1>5. CASE AlreadyBuilt \/ NoSnapshot \/ GoOn \/ ReportMissing \/ ReportFailure \/ Complete
    <2>1. disk'.done = disk.done /\ disk'.skip = disk.skip
      BY <1>1, <1>5 DEF AlreadyBuilt, NoSnapshot, GoOn, ReportMissing, ReportFailure, Complete,
          Ended, DiskShape
    <2> QED
      BY <2>1 DEF Fresh
  <1>6. CASE UNCHANGED disk
    BY <1>6 DEF Fresh
  <1> QED
    BY <1>2, <1>3, <1>4, <1>5, <1>6 DEF Next, Executor, Chunk, Ask, Finds, Places, Lacks, ChunkDone,
       ChunkFails, Snapshot, Gather, Taking, Gone, BridgeRestarts, vars

\* Steps that neither place, nor count, nor choose anything.
LEMMA OtherSteps ==
    ASSUME TypeOK, Setting, RunCovers, [Next]_vars, ~(Places \/ Snapshot \/ Gather \/ Taking \/ Execute)
    PROVE  /\ UNCHANGED <<blocks, rotation, world, stock, seen, taken>>
           /\ run'.todo \cup chunk'.todo \subseteq run.todo \cup chunk.todo
           /\ \/ disk'.done = disk.done /\ disk'.skip = disk.skip
              \/ (blocks \ Required) \ (disk'.done \cup disk'.skip) \subseteq run.todo
  <1>1. RunShape /\ DiskShape /\ ChunkShape
    BY DEF TypeOK, RunShape, DiskShape, ChunkShape
  <1>2. CASE AlreadyBuilt \/ NoSnapshot \/ GoOn \/ ReportMissing \/ ReportFailure \/ Complete
    <2>1. disk'.done = disk.done /\ disk'.skip = disk.skip /\ (run'.todo = run.todo \/ run'.todo = {})
      BY <1>1, <1>2 DEF AlreadyBuilt, NoSnapshot, GoOn, ReportMissing, ReportFailure, Complete,
          Ended, NoRun,
         Judge, DiskShape, RunShape
    <2> QED
      BY <1>2, <2>1 DEF AlreadyBuilt, NoSnapshot, GoOn, ReportMissing, ReportFailure, Complete, Judge,
         target, body, rest
  <1>3. CASE Ask
    <2>1. run'.todo = run.todo /\ (chunk' = chunk \/ chunk'.todo = First(Segment, run.todo))
      BY <1>1, <1>3 DEF Ask, RunShape
    <2>2. First(Segment, run.todo) \subseteq run.todo
      BY DEF First
    <2> QED
      BY <1>3, <2>1, <2>2 DEF Ask, target, rest
  <1>4. CASE Take
    <2> DEFINE done == run.done \cup Reported(answer)
    <2>1. /\ run'.todo = run.todo \ done /\ disk'.done = done /\ disk'.skip = run.skip /\ run.at # "idle"
          /\ UNCHANGED <<blocks, rotation, world, stock, seen, taken, chunk>>
      BY <1>1, <1>4 DEF Take, target, rest, RunShape
    <2>2. run.done \subseteq done
      OBVIOUS
    <2> HIDE DEF done
    <2> QED
      BY <2>1, <2>2 DEF RunCovers
  <1>5. CASE SkipDecoration
    <2>1. /\ run'.todo = run.todo \ Dropped /\ disk'.done = disk.done /\ disk'.skip = run.skip \cup Dropped
          /\ run.at # "idle" /\ UNCHANGED <<blocks, rotation, world, stock, seen, taken, chunk>>
      BY <1>1, <1>5 DEF SkipDecoration, Judge, target, body, rest, RunShape, DiskShape
    <2> QED
      BY <2>1 DEF RunCovers
  <1>6. CASE Finds
    <2>1. chunk'.todo = chunk.todo \ {Lowest}
      BY <1>1, <1>6 DEF Finds, ChunkShape
    <2> QED
      BY <1>6, <2>1 DEF Finds, target, rest
  <1>7. CASE Lacks \/ ChunkDone \/ ChunkFails
    <2>1. chunk'.todo = {}
      BY <1>7 DEF Lacks, ChunkDone, ChunkFails, Finish, NoChunk
    <2> QED
      BY <1>7, <2>1 DEF Lacks, ChunkDone, ChunkFails, target, rest
  <1>8. CASE Gone \/ BridgeRestarts
    <2>1. (run' = run \/ run'.todo = {}) /\ (chunk' = chunk \/ chunk'.todo = {})
      BY <1>8 DEF Gone, BridgeRestarts, NoRun, NoChunk, body
    <2> QED
      BY <1>8, <2>1 DEF Gone, BridgeRestarts, target, body, rest
  <1>9. CASE UNCHANGED vars
    BY <1>9 DEF vars, target, body, rest
  <1> QED
    BY <1>2, <1>3, <1>4, <1>5, <1>6, <1>7, <1>8, <1>9 DEF Next, Executor, Chunk

LEMMA SnapshotKept ==
    ASSUME ReserveInv, [Next]_vars
    PROVE  SnapshotOld'
  <1>0. TypeOK /\ Setting /\ RunCovers /\ SnapshotOld
    BY DEF ReserveInv
  <1> SUFFICES ASSUME Fresh', NEW i \in Items, i \notin taken'
               PROVE  seen'[i] <= stock'[i] + Cardinality(Stands(i, blocks)')
    BY DEF SnapshotOld
  <1> DEFINE n == Cardinality(Stands(i, blocks))
  <1>1. Fresh /\ UNCHANGED <<blocks, rotation>>
    BY <1>0, FreshEnds, SettingKept DEF target
  <1>2. n \in Nat /\ stock[i] \in Nat /\ seen[i] \in Int
    BY <1>0, Counted, Typed
  <1>3. i \notin taken => seen[i] <= stock[i] + n
    BY <1>0, <1>1 DEF SnapshotOld
  <1>4. UNCHANGED world => Stands(i, blocks)' = Stands(i, blocks)
    BY <1>1 DEF Stands
  <1> HIDE DEF n
  <1>5. CASE Places
    <2>1. /\ Lowest \in blocks /\ Lowest.item \in Items
      BY <1>0, <1>5, LowestInChunk DEF Places
    <2>2. UNCHANGED <<seen, taken>> /\ stock' = [stock EXCEPT ![Lowest.item] = @ - 1]
      BY <1>5 DEF Places, rest
    <2>3. stock'[i] = IF i = Lowest.item THEN stock[i] - 1 ELSE stock[i]
      BY <1>0, <2>1, <2>2 DEF TypeOK
    <2>4. /\ Cardinality(Stands(i, blocks)') >= n
          /\ i = Lowest.item => Cardinality(Stands(i, blocks)') > n
          /\ Cardinality(Stands(i, blocks)') \in Nat
      <3>1. PICK S \in SUBSET blocks : S = blocks
        OBVIOUS
      <3>2. /\ Cardinality(Stands(i, S)') >= Cardinality(Stands(i, S))
            /\ i = Lowest.item => Cardinality(Stands(i, S)') > Cardinality(Stands(i, S))
            /\ Cardinality(Stands(i, S)') \in Nat
        BY <1>0, <1>5, <2>1, <3>1, PlacedCounts
      <3>3. Stands(i, S)' = Stands(i, blocks)' /\ Stands(i, S) = Stands(i, blocks)
        BY <1>1, <3>1 DEF Stands
      <3> QED
        BY <3>2, <3>3 DEF n
    <2> QED
      BY <1>2, <1>3, <2>2, <2>3, <2>4
  <1>6. CASE Snapshot
    BY <1>2, <1>4, <1>6 DEF Snapshot, body, n
  <1>7. CASE Gather
    <2>1. stock'[i] \in {stock[i], stock[i] + 1} /\ UNCHANGED <<seen, world, taken>>
      BY <1>0, <1>7 DEF Gather, rest, TypeOK
    <2> QED
      BY <1>2, <1>3, <1>4, <2>1 DEF n
  <1>8. CASE Taking
    <2>1. stock'[i] = stock[i] /\ UNCHANGED <<seen, world>> /\ i \notin taken
      BY <1>0, <1>8 DEF Taking, TypeOK
    <2> QED
      BY <1>2, <1>3, <1>4, <2>1 DEF n
  <1>9. CASE Execute
    BY <1>2, <1>3, <1>4, <1>9 DEF Execute, body, rest, n
  <1>10. CASE ~(Places \/ Snapshot \/ Gather \/ Taking \/ Execute)
    <2>1. UNCHANGED <<world, stock, seen, taken>>
      BY <1>0, <1>10, OtherSteps
    <2> QED
      BY <1>2, <1>3, <1>4, <2>1 DEF n
  <1> QED
    BY <1>5, <1>6, <1>7, <1>8, <1>9, <1>10

\* Each of these steps keeps the set that covers what may be placed.
LEMMA PlacesCovers ==
    ASSUME TypeOK, Setting, Places, NEW i \in Items, NEW W \in SUBSET Optional(i), Covers(W, i)
    PROVE  Covers(W, i)'
  <1>1. /\ UNCHANGED <<blocks, rotation, run, disk>> /\ Required' = Required /\ Optional(i)' = Optional(i)
    BY DEF Places, target, rest, Required, Optional
  <1>2. Lowest \in chunk.todo /\ Lowest \in blocks /\ Lowest.item \in Items
    BY LowestInChunk DEF Places
  <1>3. chunk'.todo = chunk.todo \ {Lowest}
    BY DEF Places, TypeOK
  <1>4. stock'[i] = IF i = Lowest.item THEN stock[i] - 1 ELSE stock[i]
    BY <1>2 DEF Places, TypeOK
  <1>5. ASSUME W # {}
        PROVE  stock'[i] >= Cardinality(Lacking(i, Required)') + Cardinality(Lacking(i, W)')
    <2>1. PICK R \in SUBSET blocks : R = Required
      BY DEF Required
    <2>2. W \in SUBSET blocks
      BY DEF Optional
    <2>3. /\ Cardinality(Lacking(i, R)') <= Cardinality(Lacking(i, R))
          /\ i = Lowest.item /\ Lowest \in R => Cardinality(Lacking(i, R)') < Cardinality(Lacking(i, R))
          /\ Cardinality(Lacking(i, R)') \in Nat /\ Cardinality(Lacking(i, R)) \in Nat
      BY PlacedCounts, Counted
    <2>4. /\ Cardinality(Lacking(i, W)') <= Cardinality(Lacking(i, W))
          /\ i = Lowest.item /\ Lowest \in W => Cardinality(Lacking(i, W)') < Cardinality(Lacking(i, W))
          /\ Cardinality(Lacking(i, W)') \in Nat /\ Cardinality(Lacking(i, W)) \in Nat
      BY <2>2, PlacedCounts, Counted
    <2>5. i = Lowest.item => Lowest \in R \/ Lowest \in W
      BY <1>2, <2>1 DEF Covers
    <2>6. Lacking(i, Required)' = Lacking(i, R)' /\ Lacking(i, Required) = Lacking(i, R)
      BY <1>1, <2>1 DEF Lacking
    <2>7. stock[i] \in Nat /\ stock[i] >= Cardinality(Lacking(i, R)) + Cardinality(Lacking(i, W))
      BY <1>5, <2>1, Typed DEF Covers
    <2>8. stock'[i] >= Cardinality(Lacking(i, R)') + Cardinality(Lacking(i, W)')
      BY <1>4, <2>3, <2>4, <2>5, <2>7
    <2> QED
      BY <2>6, <2>8
  <1>6. Fresh => Stands(i, Optional(i))' \subseteq W
    <2> SUFFICES ASSUME Fresh, NEW b \in Optional(i), Cell(b, rotation) \in world', b.item = i
                 PROVE  b \in W
      BY <1>1 DEF Stands
    <2>1. CASE Cell(b, rotation) \in world
      BY <2>1 DEF Covers, Stands
    <2>2. CASE Cell(b, rotation) = Cell(Lowest, rotation)
      <3>1. b = Lowest /\ b \notin Required
        BY <1>2, <2>2, CellsApart DEF Optional, TypeOK
      <3> QED
        BY <1>2, <3>1 DEF Covers
    <2> QED
      BY <2>1, <2>2 DEF Places
  <1>7. Fresh' = Fresh /\ Candidates' = Candidates
    BY <1>1 DEF Fresh, Candidates
  <1> QED
    BY <1>1, <1>3, <1>5, <1>6, <1>7 DEF Covers, First

LEMMA StockCovers ==
    ASSUME TypeOK, Setting, Snapshot \/ Gather \/ Taking, NEW i \in Items, i \notin taken',
           NEW W \in SUBSET Optional(i), Covers(W, i)
    PROVE  Covers(W, i)'
  <1>1. UNCHANGED <<blocks, rotation, world, run, chunk, disk>>
    BY DEF Snapshot, Gather, Taking, target, body, rest
  <1>2. stock'[i] \in {stock[i], stock[i] + 1}
    BY DEF Snapshot, Gather, Taking, body, TypeOK
  <1>3. Lacking(i, Required)' = Lacking(i, Required) /\ Lacking(i, W)' = Lacking(i, W)
    BY <1>1 DEF Lacking, Required
  <1>4. /\ Cardinality(Lacking(i, Required)) \in Nat /\ Cardinality(Lacking(i, W)) \in Nat /\ stock[i] \in Nat
    <2>1. Required \in SUBSET blocks /\ W \in SUBSET blocks
      BY DEF Required, Optional
    <2> QED
      BY <2>1, Counted, Typed
  <1>5. /\ Required' = Required /\ Optional(i)' = Optional(i) /\ Fresh' = Fresh /\ Candidates' = Candidates
    BY <1>1 DEF Required, Optional, Fresh, Candidates
  <1>6. stock'[i] >= stock[i] /\ stock'[i] \in Nat
    BY <1>2, <1>4
  <1>7. Stands(i, Optional(i))' = Stands(i, Optional(i))
    BY <1>1, <1>5 DEF Stands
  <1> QED
    BY <1>1, <1>3, <1>4, <1>5, <1>6, <1>7 DEF Covers, First

LEMMA OtherCovers ==
    ASSUME TypeOK, Setting, RunCovers, [Next]_vars, ~(Places \/ Snapshot \/ Gather \/ Taking \/ Execute),
           NEW i \in Items, NEW W \in SUBSET Optional(i), Covers(W, i)
    PROVE  Covers(W, i)'
  <1>1. /\ UNCHANGED <<blocks, rotation, world, stock, seen, taken>>
        /\ run'.todo \cup chunk'.todo \subseteq run.todo \cup chunk.todo
        /\ \/ disk'.done = disk.done /\ disk'.skip = disk.skip
           \/ (blocks \ Required) \ (disk'.done \cup disk'.skip) \subseteq run.todo
    BY OtherSteps
  <1>2. Required' = Required /\ Optional(i)' = Optional(i)
    BY <1>1 DEF Required, Optional
  <1>3. Lacking(i, Required)' = Lacking(i, Required) /\ Lacking(i, W)' = Lacking(i, W)
    BY <1>1, <1>2 DEF Lacking
  <1>4. Fresh' => Fresh
    BY FreshEnds
  <1>5. ~Fresh' => \A b \in Candidates' : b.item = i => b \in W
    <2>1. Candidates' = (blocks \ Required) \ (disk'.done \cup disk'.skip)
      BY <1>1, <1>2 DEF Candidates
    <2>2. CASE disk'.done = disk.done /\ disk'.skip = disk.skip
      BY <2>1, <2>2 DEF Candidates, Fresh, Covers
    <2>3. CASE (blocks \ Required) \ (disk'.done \cup disk'.skip) \subseteq run.todo
      BY <2>1, <2>3 DEF Covers
    <2> QED
      BY <1>1, <2>2, <2>3
  <1>6. Fresh' => (\E n \in Int : W = First(n, Optional(i)')) /\ Stands(i, Optional(i))' \subseteq W
    <2>1. Stands(i, Optional(i))' = Stands(i, Optional(i))
      BY <1>1, <1>2 DEF Stands
    <2> QED
      BY <1>2, <1>4, <2>1 DEF Covers
  <1> QED
    BY <1>1, <1>2, <1>3, <1>5, <1>6 DEF Covers, First

\* What a snapshot has a surplus for can be placed and leave the required blocks theirs.
LEMMA SurplusCovers ==
    ASSUME TypeOK, Setting, SnapshotOld, Fresh, NEW i \in Items \ taken,
           First(Surplus(i), Optional(i)) # {},
           Stands(i, Optional(i)) \subseteq First(Surplus(i), Optional(i))
    PROVE  stock[i] >= Cardinality(Lacking(i, Required))
                         + Cardinality(Lacking(i, First(Surplus(i), Optional(i))))
  <1> DEFINE D == First(Surplus(i), Optional(i))
  <1>1. /\ Required \in SUBSET blocks /\ Apart(Optional(i)) /\ Optional(i) \subseteq blocks
        /\ stock[i] \in Nat /\ seen[i] \in Int
    BY Typed
  <1>2. /\ Of(i, Required) = Cardinality(Lacking(i, Required)) + Cardinality(Stands(i, Required))
        /\ Cardinality(Lacking(i, Required)) \in Nat /\ Cardinality(Stands(i, Required)) \in Nat
        /\ IsFiniteSet(Stands(i, Required))
    BY <1>1, Counted
  <1>3. Surplus(i) = seen[i] - Of(i, Required)
    <2>1. Required \ disk.done = Required
      BY DEF Fresh
    <2> QED
      BY <2>1 DEF Surplus
  <1>4. /\ D \subseteq Optional(i) /\ Cardinality(D) <= Surplus(i)
    BY <1>1, <1>2, <1>3, FirstIs
  <1>5. /\ Of(i, D) = Cardinality(Lacking(i, D)) + Cardinality(Stands(i, D))
        /\ Cardinality(Lacking(i, D)) \in Nat /\ Cardinality(Stands(i, D)) \in Nat
        /\ IsFiniteSet(Stands(i, D))
    <2>1. D \in SUBSET blocks
      BY <1>1, <1>4
    <2> HIDE DEF D
    <2> QED
      BY <2>1, Counted
  <1>6. Of(i, D) = Cardinality(D)
    <2>1. {b \in D : b.item = i} = D
      BY <1>4 DEF Optional
    <2> QED
      BY <2>1 DEF Of
  <1>7. Cardinality(Stands(i, blocks)) <= Cardinality(Stands(i, Required)) + Cardinality(Stands(i, D))
    <2>1. Stands(i, Required) \cap Stands(i, D) = {}
      BY <1>4 DEF Stands, Optional
    <2>2. Stands(i, blocks) \subseteq Stands(i, Required) \cup Stands(i, D)
      BY DEF Stands, Optional
    <2> HIDE DEF D
    <2>3. /\ Cardinality(Stands(i, Required) \cup Stands(i, D))
               = Cardinality(Stands(i, Required)) + Cardinality(Stands(i, D)) - 0
          /\ IsFiniteSet(Stands(i, Required) \cup Stands(i, D))
      BY <1>2, <1>5, <2>1, FS_Union, FS_EmptySet
    <2>4. Cardinality(Stands(i, blocks)) <= Cardinality(Stands(i, Required) \cup Stands(i, D))
      BY <2>2, <2>3, FS_Subset
    <2> QED
      BY <1>2, <1>5, <2>3, <2>4
  <1>8. seen[i] <= stock[i] + Cardinality(Stands(i, blocks)) /\ Cardinality(Stands(i, blocks)) \in Nat
    BY Counted DEF SnapshotOld
  <1> HIDE DEF D
  <1>9. stock[i] >= Cardinality(Lacking(i, Required)) + Cardinality(Lacking(i, D))
    BY <1>1, <1>2, <1>3, <1>4, <1>5, <1>6, <1>7, <1>8
  <1> QED
    BY <1>9 DEF D

\* An execution chooses decorations: of a fresh build those that the newer of two
\* snapshots, or the older, has a surplus for; else some of the candidates.
LEMMA ExecuteCovers ==
    ASSUME TypeOK, Setting, RunCovers, SnapshotOld, Execute, NEW i \in Items \ taken,
           NEW W \in SUBSET Optional(i), Covers(W, i)
    PROVE  \E V \in SUBSET Optional(i) : Covers(V, i)'
  <1> DEFINE D == First(Surplus(i), {b \in (blocks \ Required) \ (disk.done \cup disk.skip) : b.item = i})
  <1>1. /\ UNCHANGED <<blocks, rotation, world, stock, seen, taken, chunk>>
        /\ Required' = Required /\ Optional(i)' = Optional(i)
    BY DEF Execute, target, body, rest, Required, Optional
  <1>2. Apart(Optional(i)) /\ Surplus(i) \in Int /\ D \subseteq Optional(i)
    <2>1. Apart(Optional(i)) /\ seen[i] \in Int
      BY Typed
    <2>2. Of(i, Required \ disk.done) \in Nat
      <3>1. Required \ disk.done \in SUBSET blocks
        BY DEF Required
      <3> QED
        BY <3>1, Counted
    <2> QED
      BY <2>1, <2>2 DEF Surplus, First, Optional
  <1>3. \A b \in run'.todo \ Required : b.item = i => b \in D
    <2>1. run'.todo \subseteq Runnable
      BY DEF Execute, NoRun
    <2>2. SUFFICES ASSUME NEW b \in Decorations, b.item = i
                   PROVE  b \in D
      BY <2>1 DEF Runnable, Required
    <2>3. PICK j \in Items :
            b \in First(Surplus(j), {c \in (blocks \ Required) \ (disk.done \cup disk.skip) : c.item = j})
      BY DEF Decorations
    <2>4. b.item = j
      BY <2>3 DEF First
    <2> QED
      BY <2>2, <2>3, <2>4
  <1>4. Fresh' => Fresh
    <2>1. Next
      BY DEF Next
    <2> QED
      BY <2>1, FreshEnds
  <1>5. \/ disk'.done = disk.done /\ disk'.skip = disk.skip
        \/ Candidates' = {}
    <2>1. CASE Runnable = {}
      <3>1. disk'.done = disk.done /\ disk'.skip = (blocks \ Required) \ (disk.done \cup Decorations)
        BY <2>1 DEF Execute, TypeOK
      <3>2. Decorations = {}
        BY <2>1 DEF Runnable
      <3>3. Candidates' = (blocks \ Required) \ (disk'.done \cup disk'.skip)
        BY <1>1 DEF Candidates
      <3> QED
        BY <3>1, <3>2, <3>3
    <2>2. CASE Runnable # {}
      BY <2>2 DEF Execute
    <2> QED
      BY <2>1, <2>2
  <1>6. Candidates' \subseteq Candidates
    BY <1>1, <1>5 DEF Candidates
  <1>7. \A V : Lacking(i, Required)' = Lacking(i, Required) /\ Lacking(i, V)' = Lacking(i, V)
    BY <1>1 DEF Lacking
  <1>8. Stands(i, Optional(i))' = Stands(i, Optional(i))
    BY <1>1 DEF Stands
  <1>9. CASE D \subseteq W
    <2>1. \A b \in (run'.todo \cup chunk'.todo) \ Required' : b.item = i => b \in W
      BY <1>1, <1>3, <1>9 DEF Covers
    <2>2. W = {} \/ stock'[i] >= Cardinality(Lacking(i, Required)') + Cardinality(Lacking(i, W)')
      BY <1>1, <1>7 DEF Covers
    <2>3. Fresh' => (\E n \in Int : W = First(n, Optional(i)')) /\ Stands(i, Optional(i))' \subseteq W
      BY <1>1, <1>4, <1>8 DEF Covers
    <2>4. ~Fresh' => \A b \in Candidates' : b.item = i => b \in W
      <3>1. CASE ~Fresh
        BY <1>6, <3>1 DEF Covers
      <3>2. CASE Fresh
        <4>1. ~Fresh' => Candidates' = {}
          BY <1>5, <3>2 DEF Fresh
        <4> QED
          BY <4>1
      <3> QED
        BY <3>1, <3>2
    <2>5. Covers(W, i)'
      BY <2>1, <2>2, <2>3, <2>4 DEF Covers, First
    <2> QED
      BY <1>1, <2>5
  <1>10. CASE Fresh /\ W \subseteq D /\ D # {}
    <2>1. D = First(Surplus(i), Optional(i))
      <3>1. {b \in (blocks \ Required) \ (disk.done \cup disk.skip) : b.item = i} = Optional(i)
        BY <1>10 DEF Optional, Fresh
      <3> QED
        BY <3>1
    <2> HIDE DEF D
    <2>2. Stands(i, Optional(i)) \subseteq D
      BY <1>10 DEF Covers
    <2>3. stock[i] >= Cardinality(Lacking(i, Required)) + Cardinality(Lacking(i, D))
      BY <1>10, <2>1, <2>2, SurplusCovers
    <2>4. PICK V \in SUBSET Optional(i) : V = D
      BY <1>2
    <2>5. \A b \in (run'.todo \cup chunk'.todo) \ Required' : b.item = i => b \in V
      BY <1>1, <1>3, <1>10, <2>4 DEF Covers
    <2>6. stock'[i] >= Cardinality(Lacking(i, Required)') + Cardinality(Lacking(i, V)')
      BY <1>1, <1>7, <2>3, <2>4
    <2>7. (\E n \in Int : V = First(n, Optional(i)')) /\ Stands(i, Optional(i))' \subseteq V
      BY <1>1, <1>2, <1>8, <2>1, <2>2, <2>4
    <2>8. ~Fresh' => \A b \in Candidates' : b.item = i => b \in V
      <3>1. ~Fresh' => Candidates' = {}
        BY <1>5, <1>10 DEF Fresh
      <3> QED
        BY <3>1
    <2>9. Covers(V, i)'
      BY <2>5, <2>6, <2>7, <2>8 DEF Covers, First
    <2> QED
      BY <1>1, <2>9
  <1>11. Fresh => D \subseteq W \/ W \subseteq D
    <2> SUFFICES ASSUME Fresh PROVE D \subseteq W \/ W \subseteq D
      OBVIOUS
    <2>1. D = First(Surplus(i), Optional(i))
      <3>1. {b \in (blocks \ Required) \ (disk.done \cup disk.skip) : b.item = i} = Optional(i)
        BY DEF Optional, Fresh
      <3> QED
        BY <3>1
    <2>2. PICK n \in Int : W = First(n, Optional(i))
      BY DEF Covers
    <2> HIDE DEF D
    <2>3. n <= Surplus(i) \/ Surplus(i) <= n
      BY <1>2
    <2> QED
      BY <1>2, <2>1, <2>2, <2>3, FirstIs
  <1>12. ~Fresh => D \subseteq W
    BY DEF Covers, Candidates, First
  <1> QED
    BY <1>9, <1>10, <1>11, <1>12

LEMMA ReservedKept ==
    ASSUME ReserveInv, [Next]_vars
    PROVE  Reserved'
  <1>0. TypeOK /\ Setting /\ RunCovers /\ SnapshotOld /\ Reserved
    BY DEF ReserveInv
  <1> SUFFICES ASSUME NEW i \in Items, i \notin taken'
               PROVE  \E V \in SUBSET Optional(i)' : Covers(V, i)'
    BY DEF Reserved
  <1>1. Optional(i)' = Optional(i)
    BY <1>0, SettingKept DEF target, Optional, Required
  <1>2. i \notin taken
    <2>1. taken \subseteq taken'
      <3>1. CASE Places \/ Snapshot \/ Gather \/ Taking \/ Execute
        BY <3>1 DEF Places, Snapshot, Gather, Taking, Execute, body, rest
      <3>2. CASE ~(Places \/ Snapshot \/ Gather \/ Taking \/ Execute)
        BY <1>0, <3>2, OtherSteps
      <3> QED
        BY <3>1, <3>2
    <2> QED
      BY <2>1
  <1>3. PICK W \in SUBSET Optional(i) : Covers(W, i)
    BY <1>0, <1>2 DEF Reserved
  <1>4. CASE Places
    BY <1>0, <1>1, <1>3, <1>4, PlacesCovers
  <1>5. CASE Snapshot \/ Gather \/ Taking
    BY <1>0, <1>1, <1>3, <1>5, StockCovers
  <1>6. CASE Execute
    BY <1>0, <1>1, <1>2, <1>3, <1>6, ExecuteCovers
  <1>7. CASE ~(Places \/ Snapshot \/ Gather \/ Taking \/ Execute)
    BY <1>0, <1>1, <1>3, <1>7, OtherCovers
  <1> QED
    BY <1>4, <1>5, <1>6, <1>7

LEMMA ReserveInit ==
    ASSUME Init
    PROVE  ReserveInv
  <1>1. Setting
    BY BuildingAssumption DEF Init, Setting
  <1>2. TypeOK
    <2>1. MaxStock \in Nat /\ MaxFaults \in Nat
      BY BuildingAssumption
    <2>2. \A b, c \in blocks : SameCell(b, c) => b = c
      BY DEF Init, Compiles
    <2>3. run \in [at : {"idle", "next", "asked", "judge"}, done : SUBSET blocks, skip : SUBSET blocks,
                   todo : SUBSET blocks, got : Answers, grew : BOOLEAN, end : Ends]
      BY DEF Init, NoRun, NoAnswer, Answers, Ends
    <2>4. chunk \in [on : BOOLEAN, todo : SUBSET blocks, done : SUBSET blocks] /\ answer \in Answers
      BY DEF Init, NoChunk, NoAnswer, Answers
    <2>5. disk \in [done : SUBSET blocks, skip : SUBSET (blocks \ Required),
                    status : {"RUNNING", "PAUSED", "PAUSED_MATERIALS", "DONE"}]
      BY DEF Init
    <2>6. seen \in [Items -> -1..MaxStock] /\ stock \in [Items -> 0..MaxStock] /\ faults \in 0..MaxFaults
          /\ world \subseteq {Cell(b, rotation) : b \in blocks} /\ taken \subseteq Items
      BY <2>1 DEF Init, NoSeen
    <2> QED
      BY <2>2, <2>3, <2>4, <2>5, <2>6 DEF TypeOK
  <1>3. RunCovers
    BY DEF Init, RunCovers, NoRun
  <1>4. SnapshotOld
    <2> SUFFICES ASSUME NEW i \in Items
                 PROVE  seen[i] <= stock[i] + Cardinality(Stands(i, blocks))
      BY DEF SnapshotOld
    <2>1. stock[i] \in Nat /\ Cardinality(Stands(i, blocks)) \in Nat /\ seen[i] = -1
      BY <1>1, <1>2, Typed, Counted DEF Init, NoSeen
    <2> QED
      BY <2>1
  <1>5. Reserved
    <2> SUFFICES ASSUME NEW i \in Items
                 PROVE  Covers({}, i)
      BY DEF Reserved
    <2>1. {} = First(0, Optional(i))
      BY <1>1, <1>2, Typed, FirstIs
    <2>2. Stands(i, Optional(i)) = {}
      BY DEF Stands, Init
    <2> QED
      BY <2>1, <2>2 DEF Covers, Init, Fresh, NoRun, NoChunk
  <1> QED
    BY <1>1, <1>2, <1>3, <1>4, <1>5 DEF ReserveInv

\* Types, and the reserve of required material, for every set of documents and any stock.
THEOREM ReserveInvariant == Spec => []ReserveInv
  <1>1. Init => ReserveInv
    BY ReserveInit
  <1>2. ReserveInv /\ [Next]_vars => ReserveInv'
    BY SettingKept, TypesKept, CoversKept, SnapshotKept, ReservedKept DEF ReserveInv
  <1> QED
    BY <1>1, <1>2, PTL DEF Spec

\* "An optional decoration can never starve the build" (executor.py:82), with snapshots
\* that are too old, lost answers, failures, restarts and repeated executions.
THEOREM BuildNeverStarves == Spec => NeverStarves
  <1>1. ReserveInv /\ [Next]_vars =>
          [\A b \in blocks \ Required :
              b.item \notin taken /\ Cell(b, rotation) \in world' \ world =>
                stock[b.item] > Cardinality({r \in Required : r.item = b.item /\ Cell(r, rotation) \notin world})
          ]_vars
    <2> SUFFICES ASSUME ReserveInv, [Next]_vars, NEW b \in blocks \ Required, b.item \notin taken,
                        Cell(b, rotation) \in world' \ world
                 PROVE  stock[b.item] > Cardinality(Lacking(b.item, Required))
      BY DEF Lacking
    <2>0. TypeOK /\ Setting /\ RunCovers /\ Reserved /\ b.item \in Items
      BY DEF ReserveInv, Setting
    <2>1. Places
      <3>1. ~(Snapshot \/ Gather \/ Taking \/ Execute)
        BY DEF Snapshot, Gather, Taking, Execute, body
      <3> QED
        BY <2>0, <3>1, OtherSteps
    <2>2. Lowest \in chunk.todo /\ Lowest \in blocks
      BY <2>0, <2>1, LowestInChunk DEF Places
    <2>3. Cell(b, rotation) = Cell(Lowest, rotation)
      BY <2>1 DEF Places
    <2>4. b = Lowest
      BY <2>0, <2>2, <2>3, CellsApart DEF TypeOK
    <2>5. PICK W \in SUBSET Optional(b.item) : Covers(W, b.item)
      BY <2>0 DEF Reserved
    <2>6. b \in W
      BY <2>2, <2>4, <2>5 DEF Covers
    <2>7. stock[b.item] >= Cardinality(Lacking(b.item, Required)) + Cardinality(Lacking(b.item, W))
      BY <2>5, <2>6 DEF Covers
    <2>8. b \in Lacking(b.item, W)
      BY <2>6 DEF Lacking
    <2>9. /\ IsFiniteSet(Lacking(b.item, W)) /\ Cardinality(Lacking(b.item, W)) \in Nat
          /\ Cardinality(Lacking(b.item, Required)) \in Nat /\ stock[b.item] \in Nat
      <3>1. W \in SUBSET blocks /\ Required \in SUBSET blocks
        BY DEF Optional, Required
      <3> QED
        BY <2>0, <3>1, Counted, Typed
    <2>10. Cardinality(Lacking(b.item, W)) # 0
      BY <2>8, <2>9, FS_EmptySet
    <2> QED
      BY <2>7, <2>9, <2>10
  <1> QED
    BY <1>1, ReserveInvariant, PTL DEF Spec, NeverStarves

=============================================================================
