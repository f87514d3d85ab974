---------------------------- MODULE MCVectorUpdate ----------------------------
(***************************************************************************)
(* Instance of VectorUpdate: small grids with cells that do not divide      *)
(* evenly, subgrids thinner than the stencil is deep, more processes than   *)
(* cells along an axis, topologies chosen by the user, by the program and   *)
(* given box by box, and every update mode with the number of ghost layers  *)
(* the code gives the vectors it uses the mode on.                          *)
(***************************************************************************)
EXTENDS VectorUpdate

Deck(n, topo, procs, boxes, kind, mode) ==
  [n |-> n, topo |-> topo, procs |-> procs, boxes |-> boxes, kind |-> kind, mode |-> mode,
   ghost |-> CASE mode \in {"All", "RPoint", "BPoint", "PGS1"} -> 1
               [] mode \in {"All2", "VelZ", "PGS2"} -> 2
               [] mode \in {"Godunov", "PGS3"} -> 3
               [] mode = "PGS4" -> 4]

\* Face and colour modes on all splits of a few grids between two to four ranks.
Splits == {<<2, 1, 1>>, <<1, 1, 3>>, <<2, 2, 1>>, <<1, 2, 2>>}
PlainDecks == {Deck(n, t, Volume(t), <<>>, "grid", mode) :
                 n \in {<<3, 2, 2>>, <<5, 3, 3>>, <<4, 5, 3>>}, t \in Splits,
                 mode \in {"All", "RPoint", "BPoint"}}
               \cup {Deck(<<3, 3, 5>>, <<2, 2, 2>>, 8, <<>>, "grid", "RPoint"),
                     Deck(<<5, 3, 2>>, <<3, 2, 1>>, 6, <<>>, "grid", "PGS1")}

\* Deep stencils over thin subgrids.
DeepDecks == {Deck(<<3, 2, 1>>, <<3, 1, 1>>, 3, <<>>, "grid", mode) :
                 mode \in {"All2", "PGS1", "PGS2", "PGS3", "Godunov"}}
               \cup {Deck(<<2, 3, 2>>, <<2, 2, 1>>, 4, <<>>, "grid", mode) :
                       mode \in {"All2", "PGS1", "Godunov"}}
               \cup {Deck(<<2, 1, 1>>, <<2, 1, 1>>, 2, <<>>, "grid", "PGS4")}

\* Grids derived from the flow grid, with a cell of each axis for each process.
DerivedDecks == {Deck(<<3, 2, 3>>, t, Volume(t), <<>>, km[1], km[2]) : t \in Splits,
                   km \in {<<"grid2d", "All">>, <<"x_grid", "All">>, <<"y_grid", "All">>,
                           <<"z_grid", "VelZ">>}}

\* Topologies with more processes than cells, wrong ones, and ones left to the program.
OddDecks == {Deck(n, t, p, <<>>, "grid", "All") :
               n \in {<<1, 3, 2>>, <<2, 2, 2>>, <<4, 3, 2>>, <<7, 2, 3>>},
               t \in {<<2, 1, 1>>, <<1, 3, 1>>, <<0, 0, 0>>}, p \in 1..6}
              \cup {Deck(<<8, 4, 4>>, <<0, 0, 0>>, 2, <<>>, "grid", "All")}

\* Subgrids given one by one: an irregular division, and two subgrids on one rank.
Box(i, n, p) == NewSubgrid(i, n, p)
BoxDecks == {Deck(<<4, 2, 1>>, <<1, 1, 1>>, 3, boxes, "grid", mode) :
               boxes \in {<<Box(<<0, 0, 0>>, <<1, 2, 1>>, 0), Box(<<1, 0, 0>>, <<3, 1, 1>>, 1),
                            Box(<<1, 1, 0>>, <<3, 1, 1>>, 2)>>,
                          <<Box(<<0, 0, 0>>, <<3, 1, 1>>, 2), Box(<<3, 0, 0>>, <<1, 2, 1>>, 0),
                            Box(<<0, 1, 0>>, <<3, 1, 1>>, 1)>>},
               mode \in {"All", "PGS1", "Godunov"}}
             \cup {Deck(<<4, 2, 1>>, <<1, 1, 1>>, 1,
                        <<Box(<<0, 0, 0>>, <<2, 2, 1>>, 0), Box(<<2, 0, 0>>, <<2, 2, 1>>, 0)>>,
                        "grid", "All")}

MCDecks == PlainDecks \cup DeepDecks \cup DerivedDecks \cup OddDecks \cup BoxDecks
=============================================================================
