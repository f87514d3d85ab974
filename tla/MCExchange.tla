------------------------------- MODULE MCExchange -------------------------------
EXTENDS AmpsExchange, TLC

\* Three ranks in a row: the middle one exchanges with both others.
MCRanks == {1, 2, 3}
MCRecvs == (1 :> {2}) @@ (2 :> {1, 3}) @@ (3 :> {2})

\* The same vector twice, another one, a vector freed and made again.
MCProgram == <<[op |-> "update", vec |-> "x"], [op |-> "update", vec |-> "x"],
               [op |-> "update", vec |-> "y"], [op |-> "free", vec |-> "y"],
               [op |-> "update", vec |-> "y"], [op |-> "update", vec |-> "x"]>>
================================================================================
