----------------------------- MODULE CommRegions -----------------------------
(***************************************************************************)
(* Which cells a process sends, receives and computes for an update mode:   *)
(* parflow_lib/reg_from_stenc.c, comm_pkg.c and communication.c.            *)
(*                                                                          *)
(* NewVectorCommPkg refuses a process with several subgrids, so a region    *)
(* here belongs to the one subgrid, mine, of a process.  A send or receive  *)
(* region is a function from the processes at the other end to the boxes    *)
(* exchanged with them, in message order.                                   *)
(***************************************************************************)
EXTENDS Subgrids

-----------------------------------------------------------------------------
(* CreateComputePkgs: the stencils of the update modes.                     *)

Star == {<<-1, 0, 0>>, <<1, 0, 0>>, <<0, -1, 0>>, <<0, 1, 0>>, <<0, 0, -1>>, <<0, 0, 1>>}

Cube(k) == ((-k)..k) \X ((-k)..k) \X ((-k)..k)

\* The 27 points around the centre, and behind each face two more layers of nine.
Godunov ==
  Cube(1) \cup {c \in Cube(3) : \E a \in Axis :
                  /\ c[a] \in {-3, -2, 2, 3}
                  /\ \A o \in Axis \ {a} : c[o] \in -1..1}

Stencil(mode) ==
  CASE mode \in {"All", "RPoint", "BPoint"} -> Star
    [] mode = "All2" -> Star \cup {Each(LAMBDA a : 2 * e[a]) : e \in Star}
    [] mode = "VelZ" -> Star \cup {<<0, 0, 2>>, <<0, 0, -2>>}
    [] mode = "Godunov" -> Godunov
    [] mode = "PGS1" -> Cube(1)
    [] mode = "PGS2" -> Cube(2)
    [] mode = "PGS3" -> Cube(3)
    [] mode = "PGS4" -> Cube(4)

Red == << <<1, 0, 0>>, <<0, 1, 0>>, <<0, 0, 1>>, <<1, 1, 1>> >>
Black == << <<0, 0, 0>>, <<1, 1, 0>>, <<1, 0, 1>>, <<0, 1, 1>> >>

-----------------------------------------------------------------------------
(* CommRegFromStencil.                                                      *)

\* The parts outside b of b moved by each element of the stencil.
Shifted(b, stencil) ==
  UNION {SubtractSubgrids([b EXCEPT !.i = Each(LAMBDA a : b.i[a] + e[a])], b) : e \in stencil}

\* Neighbours as found when only the moved corner cell is looked at.
GetGridNeighborsCorner(mine, all, stencil) ==
  {b \in all : \E e \in stencil :
     IntersectSubgrids(b, [mine EXCEPT !.i = Each(LAMBDA a : mine.i[a] + e[a]),
                                       !.n = <<1, 1, 1>>]) # {}} \ {mine}

GetGridNeighbors(mine, all, stencil) ==
  {b \in all : \E c \in Shifted(mine, stencil) : IntersectSubgrids(b, c) # {}}

\* The boxes of `pieces` that share cells with b, clipped to it.
Clipped(b, pieces) == UNION {IntersectSubgrids(b, c) : c \in pieces}

\* Union by process: from sets of boxes to the boxes of each process in order.
\* The process that the code stores in each box is the argument of the function.
ByProcess(boxes) ==
  [p \in {q \in DOMAIN boxes : boxes[q] # {}} |-> UnionSubgridArray(boxes[p])]

On(boxes, p) == {b \in boxes : b.p = p}

Processes(boxes) == {b.p : b \in boxes}

CommRegFromStencil(mine, all, stencil) ==
  LET neighbors == GetGridNeighbors(mine, all, stencil)
  IN [send |-> ByProcess([p \in Processes(neighbors) |->
                 UNION {Clipped(mine, Shifted(b, stencil)) : b \in On(neighbors, p)}]),
      recv |-> ByProcess([p \in Processes(neighbors) |->
                 UNION {Clipped(b, Shifted(mine, stencil)) : b \in On(neighbors, p)}])]

-----------------------------------------------------------------------------
(* ComputeRegFromStencil: the dependent region is what is sent, the         *)
(* independent one what is left of the subgrid.                             *)

AllBoxes(region) == UNION {{region[p][k] : k \in DOMAIN region[p]} : p \in DOMAIN region}

Elements(seq) == {seq[k] : k \in DOMAIN seq}

\* Only the last dependent box is taken away.
SubtractLast(ir, dr) ==
  IF dr = <<>> THEN ir ELSE UNION {SubtractSubgrids(b, dr[Len(dr)]) : b \in ir}

\* The boxes of ir without the cells of the boxes of the sequence dr.
SubtractFrom(ir, dr) ==
  LET after[k \in 0..Len(dr)] ==
        IF k = 0 THEN ir
        ELSE UNION {SubtractSubgrids(b, dr[k]) : b \in after[k - 1]}
  IN after[Len(dr)]

ComputeRegFromStencil(mine, send) ==
  LET dep == IF AllBoxes(send) = {} THEN <<>> ELSE UnionSubgridArray(AllBoxes(send))
  IN [dep |-> Elements(dep), ind |-> SubtractFrom({mine}, dep)]

-----------------------------------------------------------------------------
(* ProjectRegion and ProjectRBPoint: the points of one colour; a box        *)
(* without a point of the colour is deleted.                                *)

ProjectSeq(boxes, off) ==
  LET proj[k \in 0..Len(boxes)] ==
        IF k = 0 THEN <<>>
        ELSE LET s == ProjectSubgrid(boxes[k], 2, off)
             IN IF s = {} THEN proj[k - 1] ELSE Append(proj[k - 1], CHOOSE b \in s : TRUE)
  IN proj[Len(boxes)]

ProjectRB(boxes, colour) ==
  ProjectSeq(boxes, colour[1]) \o ProjectSeq(boxes, colour[2])
    \o ProjectSeq(boxes, colour[3]) \o ProjectSeq(boxes, colour[4])

ProjectRBSet(boxes, colour) == UNION {ProjectSubgrid(b, 2, colour[k]) : b \in boxes, k \in 1..4}

\* A process none of whose boxes is left is no longer a partner.
ProjectRBRegion(region, colour) ==
  [p \in {q \in DOMAIN region : ProjectRB(region[q], colour) # <<>>} |->
     ProjectRB(region[p], colour)]

\* The compute package of a mode: send, recv, dep and ind.
ComputePkg(mine, all, mode) ==
  LET comm == CommRegFromStencil(mine, all, Stencil(mode))
      comp == ComputeRegFromStencil(mine, comm.send)
      project(sent, computed) ==
        [send |-> ProjectRBRegion(comm.send, sent), recv |-> ProjectRBRegion(comm.recv, sent),
         dep |-> ProjectRBSet(comp.dep, computed), ind |-> ProjectRBSet(comp.ind, computed)]
  IN CASE mode = "RPoint" -> project(Black, Red)
       [] mode = "BPoint" -> project(Red, Black)
       [] OTHER -> [send |-> comm.send, recv |-> comm.recv, dep |-> comp.dep, ind |-> comp.ind]

-----------------------------------------------------------------------------
(* NewCommPkgInfo: where a box lies in the array of a data space, as an     *)
(* offset and, for each of dim loops, a length and a stride.                *)

\* Removing a loop and forgetting its stride.
DropLoopKeepStride(info, i) ==
  [info EXCEPT !.dim = @ - 1,
               !.len = [j \in 1..4 |-> IF j >= i /\ j < 4 THEN @[j + 1] ELSE @[j]]]

\* Removing loop i of length 1: the later loops move down.
DropLoop(info, i) ==
  [info EXCEPT !.dim = @ - 1,
               !.len = [j \in 1..4 |-> IF j >= i /\ j < 4 THEN @[j + 1] ELSE @[j]],
               !.sa = [j \in 1..4 |-> IF j >= i /\ j < 4 THEN @[j + 1] ELSE @[j]]]

DropLoops(info) ==
  LET after[i \in 0..4] ==
        IF i = 0 THEN info
        ELSE LET before == after[i - 1]
             IN IF i <= before.dim /\ before.len[i] = 1 THEN DropLoop(before, i) ELSE before
  IN after[4]

\* The strides that amps takes: from the end of the inner loops to the next start.
Strides(info) ==
  LET inner[i \in 0..4] == IF i = 0 THEN 0 ELSE inner[i - 1] + info.sa[i] * (info.len[i] - 1)
  IN [i \in 1..info.dim |-> info.sa[i] - inner[i - 1]]

NewCommPkgInfo(data, comm) ==
  LET nx == data.n[1]
      ny == data.n[2]
      nz == data.n[3]
      info == DropLoops(
                [dim |-> 4, len |-> <<comm.n[1], comm.n[2], comm.n[3], 1>>,
                 sa |-> <<comm.s[1], comm.s[2] * nx, comm.s[3] * ny * nx, nz * ny * nx>>])
  IN [offset |-> (comm.i[1] - data.i[1]) + (comm.i[2] - data.i[2]) * nx
                   + (comm.i[3] - data.i[3]) * nx * ny,
      dim |-> info.dim, len |-> SubSeq(info.len, 1, info.dim), stride |-> Strides(info)]

\* NewCommPkg: one invoice per process, a part for each of its boxes.
NewCommPkg(region, data) ==
  [p \in DOMAIN region |-> [k \in DOMAIN region[p] |-> NewCommPkgInfo(data, region[p][k])]]

-----------------------------------------------------------------------------
(* amps_create_mpi_type: the positions a strided part of an invoice visits, *)
(* in message order.  Each loop repeats what the inner loops visit.         *)

Walk(part) ==
  LET size[d \in 0..part.dim] == IF d = 0 THEN 1 ELSE size[d - 1] * part.len[d]
      extent[d \in 0..part.dim] ==
        IF d = 0 THEN 0 ELSE extent[d - 1] + (part.len[d] - 1) * (extent[d - 1] + part.stride[d])
      index(m, d) == (m \div size[d - 1]) % part.len[d]
      position(m) ==
        LET upto[d \in 0..part.dim] ==
              IF d = 0 THEN part.offset
              ELSE upto[d - 1] + index(m, d) * (extent[d - 1] + part.stride[d])
        IN upto[part.dim]
  IN [m \in 1..size[part.dim] |-> position(m - 1)]

WalkAll(parts) ==
  LET upto[k \in 0..Len(parts)] == IF k = 0 THEN <<>> ELSE upto[k - 1] \o Walk(parts[k])
  IN upto[Len(parts)]

=============================================================================
