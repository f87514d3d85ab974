----------------------------- MODULE VectorUpdate -----------------------------
(***************************************************************************)
(* From the input deck to ghost cells that hold their owners' values: the   *)
(* distribution of the user's grid (distribute_usergrid.c, process_grid.c,  *)
(* create_grid.c), the grids the solvers derive from it, the vector and its *)
(* communication packages (vector.c), and one update of the vector.         *)
(*                                                                          *)
(* Every rank computes its regions by itself from the same list of          *)
(* subgrids; nothing but this agreement makes what one rank packs fit what  *)
(* the other unpacks.  AmpsExchange models the exchange protocol; here the  *)
(* content of the messages is what matters.                                 *)
(*                                                                          *)
(* Decks is the set of input decks, records with                            *)
(*   n      cells per axis of the user's grid                               *)
(*   procs  number of ranks                                                 *)
(*   topo   Process.Topology P, Q, R; a zero asks for an automatic choice   *)
(*   boxes  the subgrids of ProcessGrid.*, a sequence, empty when not given *)
(*   kind   the grid of the vector: the flow grid or one derived from it    *)
(*   mode   the update mode                                                 *)
(*   ghost  the number of ghost layers of the vector                        *)
(***************************************************************************)
EXTENDS CommRegions

CONSTANT Decks

ASSUME DecksAssumption ==
  \A d \in Decks : /\ d.n \in [Axis -> Nat \ {0}]
                   /\ d.procs \in Nat \ {0}
                   /\ d.topo \in [Axis -> Nat]
                   \* else the automatic choice divides by zero
                   /\ d.procs <= d.n[1] * d.n[2] * d.n[3]

VARIABLES
  deck,   \* the input deck of the run
  stage,  \* how far each rank is
  all,    \* all subgrids of the vector's grid, the same on each rank
  comp,   \* per rank: the compute package of the mode
  pkg,    \* per rank: the data space of the vector and its invoices
  data,   \* per rank: the vector, a function from array positions to values
  wire    \* wire[p][q]: the packed message from p to q, or NoMessage

vars == <<deck, stage, all, comp, pkg, data, wire>>

Ranks == 0..(deck.procs - 1)

NoMessage == <<"no message">>

\* Contents of a ghost cell before any update.
Stale == <<"stale">>

-----------------------------------------------------------------------------
(* DistributeUserGrid.                                                      *)

\* pqr_to_xyz that forgets the cells the earlier processes have in excess.
pqr_to_xyzEven(pqr, m, l) == pqr * m

pqr_to_xyz(pqr, m, l) == pqr * m + Least(pqr, l)

pqr_to_nxyz(pqr, m, l) == IF pqr < l THEN m + 1 ELSE m

pqr_to_process(p, q, r, t) == (r * t[2] + q) * t[1] + p

\* The values (int)pow(k, 1.0/3.0) may have: the root of a cube may come out just below.
CubeRoots(k) ==
  LET root == CHOOSE m \in 0..k : m * m * m <= k /\ (m + 1) * (m + 1) * (m + 1) > k
  IN {root} \cup (IF root * root * root = k /\ root > 1 THEN {root - 1} ELSE {})

\* P, Q and R for blocks of m cells a side.
BlockTopology(n, m) ==
  [a \in Axis |-> LET whole == n[a] \div m
                  IN whole + (IF n[a] % m > whole THEN 1 ELSE 0)]

Volume(t) == t[1] * t[2] * t[3]

\* The first block size from m on that does not ask for too many processes.
AutomaticTopology(n, procs, m) ==
  BlockTopology(n, CHOOSE k \in m..(m + Volume(n)) :
                     /\ Volume(BlockTopology(n, k)) <= procs
                     /\ \A j \in m..(k - 1) : Volume(BlockTopology(n, j)) > procs)

Topologies(d) ==
  IF \E a \in Axis : d.topo[a] = 0
  THEN {AutomaticTopology(d.n, d.procs, m) : m \in CubeRoots(Volume(d.n) \div d.procs)}
  ELSE {d.topo}

TopologySubgrids(n, t) ==
  LET lo(a, k) == pqr_to_xyz(k, n[a] \div t[a], n[a] % t[a])
      size(a, k) == pqr_to_nxyz(k, n[a] \div t[a], n[a] % t[a])
  IN {NewSubgrid(<<lo(1, p), lo(2, q), lo(3, r)>>, <<size(1, p), size(2, q), size(3, r)>>,
                 pqr_to_process(p, q, r, t)) :
        p \in 0..(t[1] - 1), q \in 0..(t[2] - 1), r \in 0..(t[3] - 1)}

\* The grids SolverRichardsInitInstanceXtra and its like derive from the flow grid.
Derived(b, kind) ==
  CASE kind = "grid" -> b
    [] kind = "grid2d" -> [b EXCEPT !.i[3] = 0, !.n[3] = 1]
    [] kind = "x_grid" -> [b EXCEPT !.n[1] = @ + 1]
    [] kind = "y_grid" -> [b EXCEPT !.n[2] = @ + 1]
    [] kind = "z_grid" -> [b EXCEPT !.n[3] = @ + 1]

\* GetGridSubgrids
Own(r) == {b \in all : b.p = r}

-----------------------------------------------------------------------------
Init ==
  /\ deck \in Decks
  /\ stage = [r \in Ranks |-> "start"]
  /\ all = {}
  /\ comp = <<>>
  /\ pkg = <<>>
  /\ data = <<>>
  /\ wire = [p \in Ranks |-> [q \in Ranks |-> NoMessage]]

\* A list of subgrids in the deck is taken as it is.
ReadProcessGrid ==
  /\ \A r \in Ranks : stage[r] = "start"
  /\ deck.boxes # <<>>
  /\ all' = {Derived(b, deck.kind) : b \in Elements(deck.boxes)}
  /\ stage' = [r \in Ranks |-> "grid"]
  /\ UNCHANGED <<deck, comp, pkg, data, wire>>

\* All ranks compute the same list; it must have a place for each of them.
CreateGrid ==
  /\ \A r \in Ranks : stage[r] = "start"
  /\ deck.boxes = <<>>
  /\ \E t \in Topologies(deck) :
       /\ Volume(t) = deck.procs
       /\ all' = {Derived(b, deck.kind) : b \in TopologySubgrids(deck.n, t)}
  /\ stage' = [r \in Ranks |-> "grid"]
  /\ UNCHANGED <<deck, comp, pkg, data, wire>>

\* "Incorrect process allocation input": every rank exits.
RefuseGrid ==
  /\ \A r \in Ranks : stage[r] = "start"
  /\ deck.boxes = <<>>
  /\ \E t \in Topologies(deck) : Volume(t) # deck.procs
  /\ stage' = [r \in Ranks |-> "exit"]
  /\ UNCHANGED <<deck, all, comp, pkg, data, wire>>

Mine(r) == CHOOSE b \in Own(r) : TRUE

\* The last step of CreateGrid and of the derived grids, for the deck's mode.
CreateComputePkgs ==
  /\ \A r \in Ranks : stage[r] = "grid" /\ Cardinality(Own(r)) = 1
  /\ comp' = [r \in Ranks |-> ComputePkg(Mine(r), all, deck.mode)]
  /\ stage' = [r \in Ranks |-> "regions"]
  /\ UNCHANGED <<deck, all, pkg, data, wire>>

\* NewTempVector: the subgrid and its ghost layers, on all sides.
DataSpace(b) == [b EXCEPT !.i = Each(LAMBDA a : b.i[a] - deck.ghost),
                          !.n = Each(LAMBDA a : b.n[a] + 2 * deck.ghost)]

\* The cell at a position of the array of a data space.
CellAt(space, pos) == <<space.i[1] + (pos % space.n[1]),
                        space.i[2] + ((pos \div space.n[1]) % space.n[2]),
                        space.i[3] + (pos \div (space.n[1] * space.n[2]))>>

\* A cell's value is the cell itself; copies of a cell on several ranks agree.
FreshData(r) ==
  LET space == DataSpace(Mine(r))
      own == Cells(Mine(r))
  IN [k \in 0..(Volume(space.n) - 1) |->
        IF CellAt(space, k) \in own THEN CellAt(space, k) ELSE Stale]

\* NewVectorCommPkg gives the vector of a rank with one subgrid its packages.
NewVector ==
  /\ \A r \in Ranks : stage[r] = "regions"
  /\ pkg' = [r \in Ranks |->
              [send |-> NewCommPkg(comp[r].send, DataSpace(Mine(r))),
               recv |-> NewCommPkg(comp[r].recv, DataSpace(Mine(r)))]]
  /\ data' = [r \in Ranks |-> FreshData(r)]
  /\ stage' = [r \in Ranks |-> "vector"]
  /\ UNCHANGED <<deck, all, comp, wire>>

\* "NewVectorCommPkg can't be used with number subgrids > 1"
RefuseVector ==
  /\ \A r \in Ranks : stage[r] = "grid"
  /\ \E r \in Ranks : Cardinality(Own(r)) > 1
  /\ stage' = [r \in Ranks |-> "exit"]
  /\ UNCHANGED <<deck, all, comp, pkg, data, wire>>

\* The values at the positions a list of parts visits.
Pack(r, parts) == LET w == WalkAll(parts) IN [m \in DOMAIN w |-> data[r][w[m]]]

InitVectorUpdate(r) ==
  /\ stage[r] = "vector"
  /\ wire' = [wire EXCEPT ![r] = [q \in Ranks |->
                IF q \in DOMAIN pkg[r].send THEN Pack(r, pkg[r].send[q]) ELSE @[q]]]
  /\ stage' = [stage EXCEPT ![r] = "sent"]
  /\ UNCHANGED <<deck, all, comp, pkg, data>>

\* What the messages to r, each long enough, leave in its array.
Unpacked(r) ==
  LET placed(q) == LET w == WalkAll(pkg[r].recv[q])
                   IN {<<w[m], wire[q][r][m]>> : m \in DOMAIN w}
      written == UNION {placed(q) : q \in DOMAIN pkg[r].recv}
  IN [k \in DOMAIN data[r] |->
        IF \E x \in written : x[1] = k
        THEN (CHOOSE x \in written : x[1] = k)[2] ELSE data[r][k]]

\* Every receive of the package is complete: its message is there, and no longer than expected.
Arrived(r) == \A q \in DOMAIN pkg[r].recv :
                /\ wire[q][r] # NoMessage
                /\ Len(wire[q][r]) = Len(WalkAll(pkg[r].recv[q]))

FinalizeVectorUpdate(r) ==
  /\ stage[r] = "sent"
  /\ Arrived(r)
  /\ data' = [data EXCEPT ![r] = Unpacked(r)]
  /\ wire' = [q \in Ranks |-> [wire[q] EXCEPT ![r] =
                IF q \in DOMAIN pkg[r].recv THEN NoMessage ELSE @]]
  /\ stage' = [stage EXCEPT ![r] = "done"]
  /\ UNCHANGED <<deck, all, comp, pkg>>

Ended == (\A r \in Ranks : stage[r] \in {"done", "exit"}) /\ UNCHANGED vars

Next ==
  \/ ReadProcessGrid
  \/ CreateGrid
  \/ RefuseGrid
  \/ CreateComputePkgs
  \/ NewVector
  \/ RefuseVector
  \/ \E r \in Ranks : InitVectorUpdate(r)
  \/ \E r \in Ranks : FinalizeVectorUpdate(r)
  \/ Ended

Spec == Init /\ [][Next]_vars

-----------------------------------------------------------------------------
(* Properties.                                                              *)

Even(c) == (c[1] + c[2] + c[3]) % 2 = 0

\* The colour of the points a mode communicates, and of those it computes.
Communicated(c) == CASE deck.mode = "RPoint" -> Even(c)
                     [] deck.mode = "BPoint" -> ~Even(c)
                     [] OTHER -> TRUE
Computed(c) == CASE deck.mode = "RPoint" -> ~Even(c)
                 [] deck.mode = "BPoint" -> Even(c)
                 [] OTHER -> TRUE

Moved(c, e) == Each(LAMBDA a : c[a] + e[a])

\* The cells of other ranks that the stencil reaches from the cells of r.
Needed(r) == {c \in CellsOf(all) \ Cells(Mine(r)) :
                /\ Communicated(c)
                /\ \E e \in Stencil(deck.mode) : Moved(c, e) \in Cells(Mine(r))}

\* DistributeUserGrid: for every grid size and process topology the subgrids
\* divide the user's grid, no cell is lost or doubled, and each rank has one.
SubgridsPartition ==
  (stage[0] = "grid" /\ deck.boxes = <<>> /\ deck.kind = "grid") =>
    /\ CellsOf(all) = (0..(deck.n[1] - 1)) \X (0..(deck.n[2] - 1)) \X (0..(deck.n[3] - 1))
    /\ \A b, c \in all : b = c \/ Cells(b) \cap Cells(c) = {}
    /\ \A r \in Ranks : Cardinality(Own(r)) = 1

\* CommRegFromStencil, NewCommPkgInfo: after FinalizeVectorUpdate a rank's array
\* holds the owner's value of every cell its stencil reaches, wherever the sender
\* had it and in whatever order it was packed, and no other position has changed.
GhostsCurrent ==
  \A r \in Ranks : stage[r] = "done" =>
    \A held \in {Cells(Mine(r)) \cup Needed(r)}, k \in DOMAIN data[r] :
      LET c == CellAt(DataSpace(Mine(r)), k)
      IN data[r][k] = IF c \in held THEN c ELSE Stale

\* ComputeRegFromStencil: between InitVectorUpdate and FinalizeVectorUpdate a rank
\* computes its independent region.  It writes no cell that is being sent and reads
\* no cell that is being received, and with the dependent region, which waits, it
\* makes up the rank's cells (of the mode's colour), each computed once.
OverlapIsSafe ==
  (stage[0] = "regions" /\ deck.kind \in {"grid", "grid2d"}) =>
    \A r \in Ranks :
      LET ind == CellsOf(comp[r].ind)
          dep == CellsOf(comp[r].dep)
          sent == CellsOf(AllBoxes(comp[r].send))
          received == CellsOf(AllBoxes(comp[r].recv))
      IN /\ ind \cap sent = {}
         /\ \A c \in ind, e \in Stencil(deck.mode) : Moved(c, e) \notin received
         /\ ind \cup dep = {c \in Cells(Mine(r)) : Computed(c)}
         /\ ind \cap dep = {}
         /\ \A b, c \in comp[r].ind \cup comp[r].dep : b = c \/ Cells(b) \cap Cells(c) = {}

\* CommRegFromStencil, ProjectRBPoint: the two ends of an exchange agree although
\* each computed its regions alone.  Rank q waits for a message of p exactly when p
\* sends it one, and both see it as the same boxes of cells in the same order.
MessagesFit ==
  (stage[0] = "regions") =>
    \A p, q \in Ranks :
      LET sent == comp[p].send
          awaited == comp[q].recv
      IN /\ q \in DOMAIN sent <=> p \in DOMAIN awaited
         /\ q \in DOMAIN sent =>
              /\ Len(sent[q]) = Len(awaited[p])
              /\ \A k \in DOMAIN sent[q] : Cells(sent[q][k]) = Cells(awaited[p][k])

=============================================================================
