----------------------------- MODULE MCBuilding -----------------------------
EXTENDS Building, TLC
CONSTANTS stone, gold
At(x, y, z)  == [x |-> x, y |-> y, z |-> z]
With(i, o)   == [item |-> i, optional |-> o]
Row(n, m, y) == [op |-> "floor", x1 |-> m, x2 |-> n, z1 |-> 0, z2 |-> 0, y |-> y]
WallTo(p, h) == [op |-> "wall", start |-> At(0, 0, 0), end |-> p, height |-> h]

\* A decoration between required blocks of its item; one below; a wall with a step.
Built ==
    {<<Row(0, 0, 0) @@ With(stone, FALSE), Row(0, 0, 1) @@ With(stone, TRUE), Row(0, 0, 2) @@ With(stone, FALSE)>>,
     <<Row(0, 0, 0) @@ With(gold, TRUE), Row(1, 1, 0) @@ With(stone, FALSE), Row(0, 1, 1) @@ With(gold, FALSE)>>,
     <<WallTo(At(2, 0, 1), 1) @@ With(stone, FALSE)>>}

\* Compiled only: walls of every slope, and what the other primitives make.
Larger ==
    {<<WallTo(At(x, 0, z), 6) @@ With(stone, FALSE)>> : x \in {-4, 3}, z \in {0, 2}}
      \cup {<<[op |-> "box", x |-> 0, y |-> 0, z |-> 0, size |-> At(3, 3, 3), hollow |-> TRUE] @@ With(stone, FALSE),
              [op |-> "doorway", x |-> 3, y |-> 0, z |-> 0, width |-> 1, height |-> 2, axis |-> "Z"] @@ With(gold, TRUE)>>,
            <<[op |-> "outline", x1 |-> 0, x2 |-> 2, z1 |-> 0, z2 |-> 2, y |-> 0] @@ With(stone, FALSE)>>}

\* Two primitives that want the same cell of different items.
Conflicting == {<<Row(0, 1, 0) @@ With(stone, FALSE), Row(1, 2, 0) @@ With(gold, FALSE)>>}

AllDocuments == Built \cup Larger \cup Conflicting

\* A wall has one cell per step of its longer side, each the nearest to the
\* straight line: what the integer arithmetic of _line is for.
Corners == {[x |-> x, z |-> z] : x \in -4..4, z \in -4..4}

ASSUME WallsAreStraight ==
    \A b \in Corners :
      LET line == Line([x |-> 0, z |-> 0], b)
          n    == Max({Distance(0, b.x), Distance(0, b.z)})
      IN  /\ Cardinality(line) = n + 1 /\ <<b.x, b.z>> \in line
          /\ \A p \in line : 2 * Distance(p[1] * b.z, p[2] * b.x) <= n
=============================================================================
