---------------------------- MODULE BoxClustering ----------------------------
(***************************************************************************)
(* The clustering of tagged cells into boxes by which the program replaces *)
(* the octree in its loops (parflow_lib/clustering.c, index_space.c).      *)
(*                                                                         *)
(* A box is [lo, up], both corners included.  The vector of tags is the    *)
(* set of its tagged cells, and the histogram of a box is read from it.    *)
(* The smallest box allowed is one cell, on each axis.                     *)
(***************************************************************************)
EXTENDS Integers, Sequences, FiniteSets, FiniteSetsExt

Dims == 1..3

BoxNumberCells(b) == [d \in Dims |-> b.up[d] - b.lo[d] + 1]
BoxSize(b) == BoxNumberCells(b)[1] * BoxNumberCells(b)[2] * BoxNumberCells(b)[3]

TagsIn(tags, b) == {c \in tags : \A d \in Dims : c[d] \in b.lo[d]..b.up[d]}

HistogramBoxGetTags(tags, d, x) == Cardinality({c \in tags : c[d] = x})

\* The bounds of the nonzero entries of each axis' histogram.
FindBoundBoxForTags(tags) ==
  [lo |-> [d \in Dims |-> Min({c[d] : c \in tags})],
   up |-> [d \in Dims |-> Max({c[d] : c \in tags})]]

\* (lo + hi) / 2 in C.
Middle(lo, hi) == IF lo + hi < 0 THEN -((-(lo + hi)) \div 2) ELSE (lo + hi) \div 2

\* The zeros of the histogram, as distances from the middle; none is looked for
\* beyond the nearer end.
ZeroDistances(tags, d, lo, hi) ==
  LET mid == Middle(lo, hi)
  IN  {ic \in 0..(hi - lo) :
         /\ lo <= mid - ic /\ mid + ic <= hi - 1
         /\ \E x \in {mid - ic, mid + ic} : HistogramBoxGetTags(tags, d, x) = 0}

FindZeroCutPoint(tags, d, lo, hi) ==
  LET mid == Middle(lo, hi)
      ic  == Min(ZeroDistances(tags, d, lo, hi))
  IN  IF HistogramBoxGetTags(tags, d, mid - ic) = 0 THEN mid - ic ELSE mid + ic

\* The cut after which the Laplacian of the histogram changes its sign by the
\* largest amount, the first of several; else the middle.
CutAtLaplacian(tags, d, lo, hi) ==
  LET Tags(x) == HistogramBoxGetTags(tags, d, x)
      Lap(x) == Tags(x - 1) - 2 * Tags(x) + Tags(x + 1)
      Delta(x) == IF Lap(x + 1) > Lap(x) THEN Lap(x + 1) - Lap(x) ELSE Lap(x) - Lap(x + 1)
      turns == {x \in (lo + 1)..(hi - 2) : (Lap(x) < 0) # (Lap(x + 1) < 0)}
      sharpest == {x \in turns : \A y \in turns : Delta(y) <= Delta(x)}
  IN  IF turns = {} THEN Middle(lo, hi) ELSE Min(sharpest)

\* The axes from the longest to the shortest, by the code's exchanges, which do
\* not keep the order of equal ones.
Sorted(n) ==
  LET Exchanged(s, i, j) == IF n[s[i]] < n[s[j]] THEN [s EXCEPT ![i] = s[j], ![j] = s[i]] ELSE s
  IN  Exchanged(Exchanged(Exchanged(<<1, 2, 3>>, 1, 2), 1, 3), 2, 3)

\* The two halves of a bound box, cut at a zero along the longest axis that has
\* one, else along the longest axis.
SplitTagBoundBox(tags, b) ==
  LET n == BoxNumberCells(b)
      sorted == Sorted(n)
      zeros == {s \in Dims : /\ n[sorted[s]] >= 2
                             /\ ZeroDistances(tags, sorted[s], b.lo[sorted[s]], b.up[sorted[s]]) # {}}
      d == sorted[IF zeros = {} THEN 1 ELSE Min(zeros)]
      cut == IF zeros = {} THEN CutAtLaplacian(tags, d, b.lo[d], b.up[d])
             ELSE FindZeroCutPoint(tags, d, b.lo[d], b.up[d])
  IN  [lft |-> [b EXCEPT !.up[d] = cut], rgt |-> [b EXCEPT !.lo[d] = cut + 1]]

\* A box needs no cut: all its cells are tagged.  Seeded fault: most of them are,
\* as in the algorithm this one is derived from.
IsCoveredMostly(num_tags, num_cells) == 10 * num_tags >= 7 * num_cells

IsCovered(num_tags, num_cells) == num_tags >= num_cells

\* FindBoxesContainingTags, and BergerRigoutsos, which begins with the subgrid
\* and num_ghost layers: the list of boxes.
RECURSIVE FindBoxesContainingTags(_)
FindBoxesContainingTags(tags) ==
  LET bound == FindBoundBoxForTags(tags)
      split == SplitTagBoundBox(tags, bound)
      lft == FindBoxesContainingTags(TagsIn(tags, split.lft))
      rgt == FindBoxesContainingTags(TagsIn(tags, split.rgt))
  IN  IF tags = {} THEN << >>
      ELSE IF IsCovered(Cardinality(tags), BoxSize(bound)) \/ BoxSize(bound) = 1 THEN <<bound>>
      ELSE IF Len(lft) > 1 \/ Len(rgt) > 1 \/ BoxSize(lft[1]) + BoxSize(rgt[1]) < BoxSize(bound)
           THEN lft \o rgt
      ELSE <<bound>>
--------------------------------------------------------------------------------
\* The cells of a box that a loop restricted to [i, n] meets.
BoxCells(b, box) ==
  LET Span(d) == {x \in box.i[d]..(box.i[d] + box.n[d] - 1) : b.lo[d] <= x /\ x <= b.up[d]}
  IN  Span(1) \X Span(2) \X Span(3)

\* GrGeomInLoopBoxes, and GrGeomSurfLoopBoxes for each face: the cells met.
InLoopBoxes(boxes, box) == UNION {BoxCells(boxes[k], box) : k \in DOMAIN boxes}
SurfLoopBoxes(boxes, box) == UNION {InLoopBoxes(boxes[f], box) \X {f} : f \in DOMAIN boxes}
================================================================================
