---------------------------- MODULE IndicatorSolid ----------------------------
(***************************************************************************)
(* How the program turns an indicator field into a solid: the octree that  *)
(* GrGeomOctreeFromInd builds on a rank from its own subgrid and two layers*)
(* of ghost cells around it, and the boxes that ComputeBoxes makes of it,   *)
(* in which the tags of the neighbouring ranks' cells take part.           *)
(*                                                                         *)
(* Decks are records with the size bg of the background grid (which begins *)
(* at index 0), the rank's subgrid sub = [i, n], and the set inside of the *)
(* background's cells that hold the indicator.  Ghost cells beyond the     *)
(* background hold -1 (Geometries), which is no indicator.  Refinement     *)
(* levels are left out: min_l and max_l are 0.                             *)
(***************************************************************************)
EXTENDS Octree, BoxClustering

CONSTANT Decks

ASSUME DecksAssumption ==
  \A d \in Decks : \A a \in Axes :
    d.bg[a] \in Nat \ {0} /\ d.sub.i[a] >= 0 /\ d.sub.i[a] + d.sub.n[a] <= d.bg[a]

VARIABLES
  deck,
  stage,      \* next part of GrGeomOctreeFromInd: "z", "y", "x", "fill",
              \* "label", of GrGeomNewSolid: "interior", "surface", or "done",
              \* or "fault" once a null pointer is followed
  tree,       \* solid_octree
  boxes       \* interior_boxes and surface_boxes

vars == <<deck, stage, tree, boxes>>

\* GrGeomGetOctreeInfo: the octree is the smallest that holds the background.
bg_level == CHOOSE L \in 0..31 : /\ \A a \in Axes : deck.bg[a] <= 2^L
                                 /\ L = 0 \/ \E a \in Axes : deck.bg[a] > 2^(L - 1)

\* The subgrid and its ghost layers.
AllFirst(a) == deck.sub.i[a] - 2
AllLast(a)  == deck.sub.i[a] + deck.sub.n[a] + 1

Known == {c \in deck.inside : \A a \in Axes : c[a] \in AllFirst(a)..AllLast(a)}

\* Positions are in half cells: RealSpaceX(ix) is 2 * ix + 1, the background's
\* lower edge 0 and the octree's upper edge 2 * 2^bg_level.  pfround rounds half
\* a cell away from zero, so an edge becomes the index beyond it.
IndexSpace(x2) == LET h == x2 - 1 IN IF h < 0 THEN -((1 - h) \div 2) ELSE (h + 1) \div 2
Begin(a) == IndexSpace(IF 2 * AllFirst(a) + 1 > 0 THEN 2 * AllFirst(a) + 1 ELSE 0)
End(a)   == IndexSpace(IF 2 * AllLast(a) + 1 < 2 * 2^bg_level THEN 2 * AllLast(a) + 1
                       ELSE 2 * 2^bg_level)

Extent(a) == Begin(a)..End(a)
--------------------------------------------------------------------------------
Init ==
  /\ deck \in Decks
  /\ stage = "z"
  /\ tree = NewOctree
  /\ boxes = [interior |-> << >>, surface |-> << >>]

\* Along the lines of axis a, two neighbours of which one holds the indicator
\* have a face between them; each that lies in the extent is marked.  The last
\* two ghost cells of a line are not compared.
\* Seeded fault: one pair less is compared.
CellRangeShort(a, b) == IF a = b THEN AllFirst(a)..(AllLast(a) - 3) ELSE Extent(b)

CellRange(a, b) == IF a = b THEN AllFirst(a)..(AllLast(a) - 2) ELSE Extent(b)

Crossings(a) ==
  {c \in CellRange(a, 1) \X CellRange(a, 2) \X CellRange(a, 3) :
     (c \in Known) # (Moved(c, Step(a, 1)) \in Known)}

Mark(c, a, s) == [cell |-> c, flag |-> IF c \in Known THEN "inside" ELSE "outside",
                  face |-> Step(a, s)]

AddFaces(a) ==
  {m \in {Mark(c, a, 1) : c \in Crossings(a)}
           \cup {Mark(Moved(c, Step(a, 1)), a, -1) : c \in Crossings(a)} :
     m.cell[a] \in Extent(a)}

AddFacesInZ ==
  /\ stage = "z" /\ stage' = "y"
  /\ tree' = AddCells(tree, bg_level, AddFaces(3))
  /\ UNCHANGED <<deck, boxes>>

AddFacesInY ==
  /\ stage = "y" /\ stage' = "x"
  /\ tree' = AddCells(tree, bg_level, AddFaces(2))
  /\ UNCHANGED <<deck, boxes>>

AddFacesInX ==
  /\ stage = "x" /\ stage' = "fill"
  /\ tree' = AddCells(tree, bg_level, AddFaces(1))
  /\ UNCHANGED <<deck, boxes>>

\* The cells that the fill pass looks up.  The indicator is read at k - k_begin
\* in an array that begins at the first ghost cell, so where the extent begins
\* later than that it is the indicator of a cell below.  The steps of k over the
\* rest of a node skip only cells whose lookup would change nothing.
LookedUp ==
  {c \in Extent(1) \X Extent(2) \X Extent(3) :
     Moved(c, Step(3, AllFirst(3) - Begin(3))) \in Known}

\* Empty nodes found become full: a cell itself, a larger node by eight full
\* children.
Filled(t, L, nodes) ==
  LET large == {n \in nodes : n[1] < L}
  IN  SetLeafFlag(NewOctreeChildren(t, large),
                  {n \in nodes : n[1] = L} \cup UNION {Children(n) : n \in large}, "full")

Fill ==
  /\ stage = "fill"
  /\ \A c \in LookedUp : InRange(bg_level, c)
  /\ stage' = "label"
  /\ tree' = Filled(tree, bg_level, {Find(tree, bg_level, c) : c \in LookedUp} \cap tree.empty)
  /\ UNCHANGED <<deck, boxes>>

\* GrGeomOctreeFind returns NULL beyond the tree, and its flag is read.
FillFaults ==
  /\ stage = "fill"
  /\ \E c \in LookedUp : ~InRange(bg_level, c)
  /\ stage' = "fault"
  /\ UNCHANGED <<deck, tree, boxes>>

Label ==
  /\ stage = "label" /\ stage' = "interior"
  /\ tree' = SetBranchNodeFlags(tree, bg_level)
  /\ UNCHANGED <<deck, boxes>>

--------------------------------------------------------------------------------
OwnCells == LET Span(a) == deck.sub.i[a]..(deck.sub.i[a] + deck.sub.n[a] - 1)
            IN  Span(1) \X Span(2) \X Span(3)

Faces == {Step(a, s) : a \in Axes, s \in {-1, 1}}

\* The cells of the neighbours that VectorUpdateAll fetches.
FaceGhosts == {Moved(c, f) : c \in OwnCells, f \in Faces} \ OwnCells

\* The tags are set by a loop over the own subgrid and fetched from the
\* neighbours, whose loops meet their cells of the solid likewise.
ComputeInteriorBoxes ==
  /\ stage = "interior" /\ stage' = "surface"
  /\ boxes' = [boxes EXCEPT !.interior =
                 FindBoxesContainingTags(InLoop(tree, bg_level, deck.sub)
                                           \cup (FaceGhosts \cap deck.inside))]
  /\ UNCHANGED <<deck, tree>>

\* One bit of the tags for each face.
FaceTags(f) ==
  {cf[1] : cf \in {x \in SurfLoop(tree, bg_level, deck.sub) : x[2] = f}}
    \cup {c \in FaceGhosts \cap deck.inside : Moved(c, f) \notin deck.inside}

ComputeSurfaceBoxes ==
  /\ stage = "surface" /\ stage' = "done"
  /\ boxes' = [boxes EXCEPT !.surface = [f \in Faces |-> FindBoxesContainingTags(FaceTags(f))]]
  /\ UNCHANGED <<deck, tree>>

Ended == stage \in {"done", "fault"} /\ UNCHANGED vars

Next == \/ AddFacesInZ \/ AddFacesInY \/ AddFacesInX \/ Fill \/ FillFaults \/ Label
        \/ ComputeInteriorBoxes \/ ComputeSurfaceBoxes \/ Ended

Spec == Init /\ [][Next]_vars
--------------------------------------------------------------------------------
Own == deck.inside \cap OwnCells

\* A loop over the inside of the solid meets exactly the cells of the subgrid
\* that hold the indicator, and one over the outside exactly the others, whatever
\* shape they form and however the branches above them are labelled.
LoopsMeetIndicator ==
  stage = "done" => /\ InLoop(tree, bg_level, deck.sub) = Own
                    /\ OutLoop(tree, bg_level, deck.sub) = OwnCells \ Own

\* A loop over the surface meets every face between a cell of the subgrid that
\* holds the indicator and a neighbour, on this rank or another, that does not,
\* and no other face.
SurfLoopMeetsBoundary ==
  stage = "done" =>
    SurfLoop(tree, bg_level, deck.sub) =
      {cf \in Own \X Faces : Moved(cf[1], cf[2]) \notin deck.inside}

\* Loops by boxes replace loops by the octree: over the subgrid they meet the same
\* cells and faces, and with a layer of the neighbours' cells around it exactly
\* those of the solid.  No cell is met twice.
BoxesReplaceOctree ==
  LET around == [i |-> [a \in Axes |-> deck.sub.i[a] - 1], n |-> [a \in Axes |-> deck.sub.n[a] + 2]]
      Exact(bs, cells) == /\ InLoopBoxes(bs, around) = cells
                          /\ MapThenSumSet(LAMBDA k : BoxSize(bs[k]), DOMAIN bs) = Cardinality(cells)
      solid == deck.inside \cap (OwnCells \cup FaceGhosts)
  IN  stage = "done" =>
        /\ InLoopBoxes(boxes.interior, deck.sub) = InLoop(tree, bg_level, deck.sub)
        /\ SurfLoopBoxes(boxes.surface, deck.sub) = SurfLoop(tree, bg_level, deck.sub)
        /\ Exact(boxes.interior, solid)
        /\ \A f \in Faces : Exact(boxes.surface[f], {c \in solid : Moved(c, f) \notin deck.inside})

\* Every cell that is looked up is in the tree: the indices are found
\* "accounting for bounds".
LookupsInBounds == stage # "fault"
================================================================================
