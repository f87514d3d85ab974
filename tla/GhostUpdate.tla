------------------------------- MODULE GhostUpdate -------------------------------
(***************************************************************************)
(* What InitVectorUpdate and FinalizeVectorUpdate promise to the numerical *)
(* kernels: when a rank returns from its k-th update, the ghost cells it   *)
(* computes with hold the values its neighbours had for their k-th update, *)
(* and no neighbour is more than one update behind.                        *)
(***************************************************************************)
EXTENDS Integers

CONSTANTS
  Ranks,
  Recvs     \* Recvs[r]: the ranks r gets ghost cells from

VARIABLES
  done,     \* number of updates a rank has finalized
  seen      \* seen[r][s]: the update of s whose values r computed with last

ghostVars == <<done, seen>>

Init == /\ done = [r \in Ranks |-> 0]
        /\ seen = [r \in Ranks |-> [s \in Recvs[r] |-> 0]]

Update(r) ==
  /\ \A s \in Recvs[r] : done[s] >= done[r]
  /\ done' = [done EXCEPT ![r] = @ + 1]
  /\ seen' = [seen EXCEPT ![r] = [s \in Recvs[r] |-> done[r] + 1]]

Next == \E r \in Ranks : Update(r)

Spec == Init /\ [][Next]_ghostVars
================================================================================
