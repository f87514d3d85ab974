------------------------------ MODULE MCKinsol ------------------------------
(* Series of nonlinear solves, with and without a preconditioner, with the   *)
(* Jacobian or difference quotients, under both global strategies.           *)
EXTENDS KinsolSolver

Deck(mxiter, strategy, matvec, pc, maxl, maxlrst) ==
  [mxiter |-> mxiter, strategy |-> strategy, matvec |-> matvec, pc |-> pc,
   maxl |-> maxl, maxlrst |-> maxlrst]

MCDecks ==
  {Deck(2, "LineSearch", j, p, 1, 0) : j \in BOOLEAN, p \in BOOLEAN}
    \cup {Deck(3, "InexactNewton", j, p, 1, 1) : j \in BOOLEAN, p \in BOOLEAN}
    \cup {Deck(1, "InexactNewton", j, p, 2, 1) : j \in BOOLEAN, p \in BOOLEAN}
================================================================================
