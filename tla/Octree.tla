-------------------------------- MODULE Octree --------------------------------
(***************************************************************************)
(* The octrees by which the program loops over the cells and the faces of  *)
(* a solid (parflow_lib/grgeom_octree.c and grgeom_octree.h).              *)
(*                                                                         *)
(* A node is <<depth, x, y, z>>: the cube of 2^(L - depth) cells a side    *)
(* with that index among the cubes of its depth, L being the depth of the  *)
(* single cells.  A tree has the set of its branch nodes, the set of the   *)
(* nodes that carry each flag, and the faces of its cells as pairs of a    *)
(* node and a direction.                                                   *)
(***************************************************************************)
EXTENDS Integers, FiniteSets

Axes == 1..3
Root == <<0, 0, 0, 0>>

\* Unit steps: a face is named by the direction it is passed in.
Step(a, s) == <<IF a = 1 THEN s ELSE 0, IF a = 2 THEN s ELSE 0, IF a = 3 THEN s ELSE 0>>
Moved(c, d) == <<c[1] + d[1], c[2] + d[2], c[3] + d[3]>>

\* The children in the order of the octants, x the fastest.
Child(n, o) == <<n[1] + 1, 2 * n[2] + (o % 2), 2 * n[3] + ((o \div 2) % 2), 2 * n[4] + (o \div 4)>>
Children(n) == {Child(n, o) : o \in 0..7}

NewOctree == [branch |-> {}, faces |-> {},
              empty |-> {Root}, outside |-> {}, inside |-> {}, full |-> {}]

IsLeaf(t, n) == n \notin t.branch

\* The nodes become branches; children that are new are empty leaves.
NewOctreeChildren(t, nodes) ==
  LET split == nodes \ t.branch
  IN  [t EXCEPT !.branch = @ \cup split,
                !.empty = @ \cup UNION {Children(n) : n \in split}]

\* The leaf's flag is replaced.
SetLeafFlag(t, nodes, flag) ==
  LET Kept(f) == IF f = flag THEN t[f] \cup nodes ELSE t[f] \ nodes
  IN  [t EXCEPT !.empty = Kept("empty"), !.outside = Kept("outside"),
                !.inside = Kept("inside"), !.full = Kept("full")]

\* The node of depth l above a cell: its indices are read bit by bit from the
\* top, so indices beyond the tree's range come round to its other side.
NodeAbove(L, c, l) ==
  LET Bits(x) == (x % 2^L) \div 2^(L - l)
  IN  <<l, Bits(c[1]), Bits(c[2]), Bits(c[3])>>

InRange(L, c) == \A a \in Axes : c[a] \in 0..(2^L - 1)

\* GrGeomOctreeFind for a cell in range: the deepest node above it.
Find(t, L, c) ==
  NodeAbove(L, c, CHOOSE l \in 0..L : /\ l = L \/ IsLeaf(t, NodeAbove(L, c, l))
                                      /\ \A m \in 0..(l - 1) : ~IsLeaf(t, NodeAbove(L, c, m)))

\* GrGeomOctreeAddCell for a set of marks [cell, flag, face], and the faces that
\* GrGeomOctreeAddFace sets.  "Inside" is never overwritten, so the order in
\* which the marks are made does not show.
AddCells(t, L, marks) ==
  LET Marked(f) == {NodeAbove(L, m.cell, L) : m \in {x \in marks : x.flag = f}}
      grown == NewOctreeChildren(t, {NodeAbove(L, m.cell, l) : m \in marks, l \in 0..(L - 1)})
  IN  [SetLeafFlag(SetLeafFlag(grown, Marked("outside") \ t.inside, "outside"),
                   Marked("inside"), "inside")
         EXCEPT !.faces = @ \cup {<<NodeAbove(L, m.cell, L), m.face>> : m \in marks}]
--------------------------------------------------------------------------------
\* GrGeomOctreeSetBranchNodeFlags, after the leaves have their flags.  What the
\* traversal hands up from the children of a node is [empty, outside, inside,
\* full].  The entries empty and full of the cells' own depth are not initialised
\* to TRUE, so the first branch with cells for children gets neither flag.
Before(n, m) ==                              \* in the order of the traversal
  \E b \in 0..n[1] :
    LET Octant(x) == ((x[4] \div 2^b) % 2) * 4 + ((x[3] \div 2^b) % 2) * 2 + ((x[2] \div 2^b) % 2)
        Above(x) == <<x[2] \div 2^(b + 1), x[3] \div 2^(b + 1), x[4] \div 2^(b + 1)>>
    IN  Above(n) = Above(m) /\ Octant(n) < Octant(m)

IsFirst(t, L, n) ==
  n[1] = L - 1 /\ \A m \in t.branch : m[1] = L - 1 /\ m # n => Before(n, m)

\* What a branch hands up, given what its own children hand up.
HandedUpMixed(c) ==               \* seeded fault: a part inside does not count
  [c EXCEPT !.empty = c.outside \/ c.empty, !.full = (c.inside \/ c.full) /\ ~c.outside]

HandedUp(c) == [c EXCEPT !.empty = (c.outside \/ c.empty) /\ ~c.inside,
                         !.full  = (c.inside \/ c.full) /\ ~c.outside]

RECURSIVE Collected(_, _, _)
Collected(t, L, n) ==
  LET From(m) == IF IsLeaf(t, m)
                 THEN [empty |-> m \in t.empty, outside |-> m \in t.outside,
                       inside |-> m \in t.inside, full |-> m \in t.full]
                 ELSE HandedUp(Collected(t, L, m))
      got == {From(m) : m \in Children(n)}
  IN  [empty   |-> ~IsFirst(t, L, n) /\ \A g \in got : g.empty,
       outside |-> \E g \in got : g.outside,
       inside  |-> \E g \in got : g.inside,
       full    |-> ~IsFirst(t, L, n) /\ \A g \in got : g.full]

SetBranchNodeFlags(t, L) ==
  LET found == {[node |-> n, got |-> Collected(t, L, n)] : n \in t.branch}
      Flagged(f) == (t[f] \ t.branch) \cup {x.node : x \in {y \in found : y.got[f]}}
  IN  [t EXCEPT !.empty = Flagged("empty"), !.outside = Flagged("outside"),
                !.inside = Flagged("inside"), !.full = Flagged("full")]
--------------------------------------------------------------------------------
\* The loops.  Of each the nodes for whose cells the body is executed; they are
\* disjoint, so that no cell is met twice.
RECURSIVE InteriorNodes(_, _)
InteriorNodes(t, n) ==
  IF IsLeaf(t, n) \/ n \in t.full
  THEN {n} \cap (t.inside \cup t.full)
  ELSE UNION {InteriorNodes(t, m) : m \in Children(n)}

RECURSIVE ExteriorNodes(_, _)
ExteriorNodes(t, n) ==
  IF IsLeaf(t, n) \/ n \in t.empty
  THEN {n} \cap (t.outside \cup t.empty)
  ELSE UNION {ExteriorNodes(t, m) : m \in Children(n)}

RECURSIVE InsideNodes(_, _)
InsideNodes(t, n) ==
  IF IsLeaf(t, n) THEN {n} \cap t.inside
  ELSE IF n \notin t.inside THEN {}
  ELSE UNION {InsideNodes(t, m) : m \in Children(n)}

\* Cells of a node that are in the box [i, n] the loop is restricted to.
NodeCells(L, n, box) ==
  LET inc == 2^(L - n[1])
      Span(a) == {x \in box.i[a]..(box.i[a] + box.n[a] - 1) :
                    n[a + 1] * inc <= x /\ x < (n[a + 1] + 1) * inc}
  IN  Span(1) \X Span(2) \X Span(3)

CellsMet(L, nodes, box) == UNION {NodeCells(L, n, box) : n \in nodes}

\* GrGeomInLoop, GrGeomOutLoop and GrGeomSurfLoop over a box.
InLoop(t, L, box)  == CellsMet(L, InteriorNodes(t, Root), box)
OutLoop(t, L, box) == CellsMet(L, ExteriorNodes(t, Root), box)
SurfLoop(t, L, box) ==
  UNION {NodeCells(L, n, box) \X {f[2] : f \in {g \in t.faces : g[1] = n}} : n \in InsideNodes(t, Root)}
================================================================================
