------------------------------ MODULE Subgrids ------------------------------
(***************************************************************************)
(* Boxes of cells and the set algebra on them: parflow_lib/grid.c and       *)
(* region.c.  A subgrid is a record with, per axis (1 = x, 2 = y, 3 = z),   *)
(* its lowest index i, its number of cells n and its stride s, and the      *)
(* process p it lives on.  All subgrids have the same resolution: the       *)
(* levels that only refined grids use are left out.                         *)
(*                                                                          *)
(* An array of subgrids whose order nothing depends on is a set; the result *)
(* of UnionSubgridArray, whose order fixes the layout of a message, is a    *)
(* sequence.                                                                *)
(***************************************************************************)
EXTENDS Integers, Sequences, FiniteSets

Axis == 1..3

NewSubgrid(i, n, p) == [i |-> i, n |-> n, s |-> <<1, 1, 1>>, p |-> p]

Upper(b, a) == b.i[a] + b.n[a]

Least(x, y) == IF x < y THEN x ELSE y
Greatest(x, y) == IF x > y THEN x ELSE y

\* The cells of a subgrid or of a strided subregion.
Line(b, a) == {b.i[a] + k * b.s[a] : k \in 0..(b.n[a] - 1)}
Cells(b) == Line(b, 1) \X Line(b, 2) \X Line(b, 3)

CellsOf(boxes) == UNION {Cells(b) : b \in boxes}

\* A triple from its three components.
Each(f(_)) == <<f(1), f(2), f(3)>>

\* The subgrids of a set in the order of their lowest cells: z, then y, then x.
Before(b, c) == \E a \in Axis : /\ b.i[a] < c.i[a]
                                /\ \A o \in Axis : o > a => b.i[o] = c.i[o]

InOrder(boxes) ==
  LET upto[k \in 0..Cardinality(boxes)] ==
        IF k = 0 THEN <<>>
        ELSE LET prev == upto[k - 1]
                 rest == boxes \ {prev[j] : j \in DOMAIN prev}
             IN Append(prev, CHOOSE b \in rest : \A c \in rest \ {b} : Before(b, c))
  IN upto[Cardinality(boxes)]

-----------------------------------------------------------------------------
(* IntersectSubgrids: the box common to b and c, in a set that is empty     *)
(* when there is none.  The result is a copy of b.                          *)

IntersectSubgrids(b, c) ==
  LET lo(a) == Greatest(b.i[a], c.i[a])
      hi(a) == Least(Upper(b, a), Upper(c, a))
  IN IF \A a \in Axis : hi(a) > lo(a)
     THEN {[b EXCEPT !.i = Each(lo), !.n = Each(LAMBDA a : hi(a) - lo(a))]}
     ELSE {}

(* SubtractSubgrids: the cells of b outside c.  b is cut along x, then what *)
(* is left of it along y, then along z, below and above c on each axis.     *)

CutBelow(s, c, a) == c.i[a] > s.i[a] /\ c.i[a] < Upper(s, a)
CutAbove(s, c, a) == Upper(c, a) > s.i[a] /\ Upper(c, a) < Upper(s, a)

Below(s, c, a) == [s EXCEPT !.n[a] = c.i[a] - s.i[a]]
Above(s, c, a) == [s EXCEPT !.i[a] = Upper(c, a), !.n[a] = Upper(s, a) - Upper(c, a)]

RestAbove(s, c, a) ==
  IF CutBelow(s, c, a)
  THEN [s EXCEPT !.i[a] = c.i[a], !.n[a] = Upper(s, a) - c.i[a]] ELSE s

Cut(s, c, a) ==
  LET t == RestAbove(s, c, a)
  IN [pieces |-> (IF CutBelow(s, c, a) THEN {Below(s, c, a)} ELSE {})
                   \cup (IF CutAbove(t, c, a) THEN {Above(t, c, a)} ELSE {}),
      rest |-> IF CutAbove(t, c, a) THEN [t EXCEPT !.n[a] = Upper(c, a) - t.i[a]] ELSE t]

SubtractSubgrids(b, c) ==
  IF \E a \in Axis : c.i[a] >= Upper(b, a) \/ Upper(c, a) <= b.i[a]
  THEN {b}
  ELSE LET x == Cut(b, c, 1)
           y == Cut(x.rest, c, 2)
           z == Cut(y.rest, c, 3)
       IN x.pieces \cup y.pieces \cup z.pieces

-----------------------------------------------------------------------------
(* UnionSubgridArray: disjoint boxes with the same cells.  The bounds of    *)
(* the boxes divide the space into blocks.  Rows of adjacent covered blocks *)
(* are joined along x, then rows of equal boxes along y, then along z.      *)

Edges(boxes, a) == {b.i[a] : b \in boxes} \cup {Upper(b, a) : b \in boxes}

Blocks(boxes) ==
  LET ex == Edges(boxes, 1)
      ey == Edges(boxes, 2)
      ez == Edges(boxes, 3)
      next(e, x) == CHOOSE y \in e : y > x /\ \A z \in e : z <= x \/ z >= y
      covered(c) == \E b \in boxes : \A a \in Axis : b.i[a] <= c[a] /\ c[a] < Upper(b, a)
  IN {NewSubgrid(c, <<next(ex, c[1]) - c[1], next(ey, c[2]) - c[2], next(ez, c[3]) - c[3]>>, 0) :
        c \in {d \in ex \X ey \X ez : covered(d)}}

\* b and c are equal but for their place and extent on axis a.
Aligned(b, c, a) == \A o \in Axis \ {a} : b.i[o] = c.i[o] /\ b.n[o] = c.n[o]

Join(boxes, a) ==
  LET row(h) == {b \in boxes : Aligned(h, b, a)}
      heads == {h \in boxes : \A b \in row(h) : Upper(b, a) # h.i[a]}
      end(h, r) == CHOOSE u \in {Upper(b, a) : b \in r} :
                     /\ u > h.i[a]
                     /\ \A b \in r : b.i[a] # u
                     /\ \A b \in r : (b.i[a] > h.i[a] /\ b.i[a] < u) => \E c \in r : Upper(c, a) = b.i[a]
  IN {[h EXCEPT !.n[a] = end(h, row(h)) - h.i[a]] : h \in heads}

UnionSubgridArray(boxes) == InOrder(Join(Join(Join(Blocks(boxes), 1), 2), 3))

-----------------------------------------------------------------------------
(* ProjectSubgrid: the cells x of b with (x + off) a multiple of the stride *)
(* on every axis; a set that is empty when there is none.                   *)

RoundUp(x, st) == ((x + st - 1) \div st) * st

ProjectSubgrid(b, st, off) ==
  LET lo(a) == RoundUp(b.i[a] + off[a], st) - off[a]
      hi(a) == RoundUp(b.i[a] + off[a] + b.n[a], st) - off[a]
      n(a) == (hi(a) - lo(a)) \div st
  IN IF \A a \in Axis : n(a) > 0
     THEN {[b EXCEPT !.i = Each(lo), !.n = Each(n), !.s = <<st, st, st>>]} ELSE {}

=============================================================================
