---------------------------- MODULE BuildingDsl ----------------------------
(***************************************************************************)
(* The building language (building/dsl.py): a document is a sequence of       *)
(* primitives, each expands to blocks, and compile_dsl joins them or refuses. *)
(* A block is its cell with an item; what a block looks like is left out.     *)
(* BuildPlanner (building/planner.py) turns and moves the cells to the world. *)
(***************************************************************************)
EXTENDS Integers, Sequences, FiniteSets, FiniteSetsExt, Functions

Between(a, b) == Min({a, b})..Max({a, b})
Distance(a, b) == IF a <= b THEN b - a ELSE a - b
Toward(a, b)   == IF a < b THEN 1 ELSE -1

Block(x, y, z, o) == [x |-> x, y |-> y, z |-> z, item |-> o.item, optional |-> o.optional]

Floor(o) == {Block(x, o.y, z, o) : x \in Between(o.x1, o.x2), z \in Between(o.z1, o.z2)}

\* _line: each step moves along one axis or both, as the error says; the loop
\* leaves at the far end, which it meets after as many steps as the longer axis.
Line(a, b) ==
    LET dx == Distance(a.x, b.x)
        dz == Distance(a.z, b.z)
        Walk[n \in Nat] ==
          IF n = 0 THEN [x |-> a.x, z |-> a.z, error |-> dx - dz]
          ELSE LET p == Walk[n - 1]
                   onX == 2 * p.error > -dz
                   onZ == 2 * p.error < dx
               IN  [x     |-> p.x + IF onX THEN Toward(a.x, b.x) ELSE 0,
                    z     |-> p.z + IF onZ THEN Toward(a.z, b.z) ELSE 0,
                    error |-> p.error - (IF onX THEN dz ELSE 0) + (IF onZ THEN dx ELSE 0)]
    IN  {<<Walk[n].x, Walk[n].z>> : n \in 0..Max({dx, dz})}

Wall(o) == {Block(p[1], o.start.y + dy, p[2], o) : p \in Line(o.start, o.end), dy \in 0..o.height - 1}

Box(o) ==
    LET cells == (0..o.size.x - 1) \X (0..o.size.y - 1) \X (0..o.size.z - 1)
        Shell(c) == c[1] \in {0, o.size.x - 1} \/ c[2] \in {0, o.size.y - 1} \/ c[3] \in {0, o.size.z - 1}
    IN  {Block(o.x + c[1], o.y + c[2], o.z + c[3], o) : c \in {d \in cells : o.hollow => Shell(d)}}

Outline(o) ==
    {b \in Floor(o) : b.x \in {o.x1, o.x2} \/ b.z \in {o.z1, o.z2}}

\* Two posts one block higher than the opening, and the lintel between them.
Doorway(o) ==
    LET At(along, up) == Block(o.x + (IF o.axis = "X" THEN along ELSE 0), o.y + up,
                               o.z + (IF o.axis = "Z" THEN along ELSE 0), o)
    IN  {At(along, up) : along \in {0, o.width + 1}, up \in 0..o.height}
          \cup {At(along, o.height) : along \in 1..o.width}

Expand(o) ==
    CASE o.op = "floor"   -> Floor(o)
      [] o.op = "wall"    -> Wall(o)
      [] o.op = "box"     -> Box(o)
      [] o.op = "outline" -> Outline(o)
      [] o.op = "doorway" -> Doorway(o)

\* The integer checks of the primitives.
Proper(o) ==
    CASE o.op = "wall"    -> o.start.y = o.end.y /\ o.height >= 1
      [] o.op = "box"     -> Min({o.size.x, o.size.y, o.size.z}) >= 1
      [] o.op = "doorway" -> o.width >= 1 /\ o.height >= 2
      [] OTHER            -> TRUE

Blueprint(document) == UNION {Expand(o) : o \in Range(document)}

SameCell(b, c) == b.x = c.x /\ b.y = c.y /\ b.z = c.z

\* compile_dsl does not raise.
Compiles(document) ==
    /\ document # <<>> /\ \A o \in Range(document) : Proper(o)
    /\ \A b, c \in Blueprint(document) : SameCell(b, c) => b = c

\* BuildPlanner.rotate and placements: where a block goes in the world.
Cell(b, rotation) ==
    CASE rotation = 0   -> [x |-> b.x,  y |-> b.y, z |-> b.z,  item |-> b.item]
      [] rotation = 90  -> [x |-> -b.z, y |-> b.y, z |-> b.x,  item |-> b.item]
      [] rotation = 180 -> [x |-> -b.x, y |-> b.y, z |-> -b.z, item |-> b.item]
      [] rotation = 270 -> [x |-> b.z,  y |-> b.y, z |-> -b.x, item |-> b.item]

\* Bottom-up; within a layer by index, of which only the order matters.
Before(b, c) ==
    \/ b.y < c.y
    \/ b.y = c.y /\ b.x < c.x
    \/ b.y = c.y /\ b.x = c.x /\ b.z < c.z
=============================================================================
