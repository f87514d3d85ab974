------------------------------ MODULE MCIndicator ------------------------------
(* Indicator fields on small backgrounds, seen by ranks that own all or part  *)
(* of them.                                                                   *)
EXTENDS IndicatorSolid

Box(i, n) == (i[1]..(i[1] + n[1] - 1)) \X (i[2]..(i[2] + n[2] - 1)) \X (i[3]..(i[3] + n[3] - 1))

Deck(bg, i, n, inside) == [bg |-> bg, sub |-> [i |-> i, n |-> n], inside |-> inside]

Whole(bg, fields) == {Deck(bg, <<0, 0, 0>>, bg, f) : f \in fields}

\* Every field of a few small backgrounds, on one rank and on ranks that own a
\* part along each axis.
SmallDecks ==
  Whole(<<3, 2, 2>>, SUBSET Box(<<0, 0, 0>>, <<3, 2, 2>>))
    \cup Whole(<<4, 1, 2>>, SUBSET Box(<<0, 0, 0>>, <<4, 1, 2>>))
    \cup {Deck(<<4, 2, 1>>, s[1], s[2], f) :
            s \in {<< <<0, 0, 0>>, <<1, 2, 1>> >>, << <<1, 0, 0>>, <<3, 1, 1>> >>,
                   << <<3, 1, 0>>, <<1, 1, 1>> >>},
            f \in SUBSET Box(<<0, 0, 0>>, <<4, 2, 1>>)}
    \cup {Deck(<<5, 1, 3>>, <<2, 0, k>>, <<2, 1, 1>>, f) :
            k \in {0, 1, 2}, f \in SUBSET Box(<<1, 0, 0>>, <<3, 1, 3>>)}

\* Larger solids with an interior, so that nodes above single cells are filled
\* and labelled: a block, with a hole or a notch, on a rank or split.
Holes == {{}, {<<2, 2, 2>>}, Box(<<3, 3, 3>>, <<2, 2, 2>>), Box(<<0, 0, 0>>, <<6, 2, 3>>),
          Box(<<1, 1, 0>>, <<1, 1, 7>>)}
Blocks == {Box(<<0, 0, 0>>, <<6, 6, 7>>), Box(<<0, 0, 0>>, <<5, 6, 4>>), Box(<<1, 0, 2>>, <<4, 5, 4>>)}
LargeDecks ==
  {Deck(<<6, 6, 7>>, s[1], s[2], b \ h) :
     b \in Blocks, h \in Holes,
     s \in {<< <<0, 0, 0>>, <<6, 6, 7>> >>, << <<0, 0, 3>>, <<6, 6, 4>> >>,
            << <<2, 3, 0>>, <<4, 3, 3>> >>}}

\* A background whose number of cells along z is the octree's: the program
\* fails when one of its topmost cells holds the indicator.
TallDecks == Whole(<<1, 2, 4>>, SUBSET Box(<<0, 0, 0>>, <<1, 2, 4>>))

MCDecks == SmallDecks \cup LargeDecks \cup TallDecks
================================================================================
