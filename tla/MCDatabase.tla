------------------------------- MODULE MCDatabase -------------------------------
EXTENDS InputDatabase

\* Key 3 may be given any kind of value, key 5 two, the others one, so that the
\* keys come in every order and the tree in every shape.
MCKeys == 1..7
MCDeckValues ==
  [k \in MCKeys |-> IF k = 3 THEN {253, Text, TooLong}
                 ELSE IF k = 5 THEN {500, 600} ELSE {100 * k}]

MCCalls == {
  [get |-> "String", key |-> 1, default |-> None],
  [get |-> "Int",    key |-> 3, default |-> None],
  [get |-> "Int",    key |-> 3, default |-> 700],
  [get |-> "Double", key |-> 3, default |-> 1250],
  [get |-> "Double", key |-> 5, default |-> None],
  [get |-> "String", key |-> 5, default |-> 0],
  [get |-> "Double", key |-> 7, default |-> 3],      \* finer than %f, as 1e-7
  [get |-> "String", key |-> 7, default |-> Text]}
================================================================================
