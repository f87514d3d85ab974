---------------------------- MODULE SimulationClock ----------------------------
(***************************************************************************)
(* What a caller of the Richards solver may rely on, without the steps it  *)
(* takes to get there: a state is loaded (or there is none), the caller    *)
(* names a time to reach, and simulated time moves forward, never beyond   *)
(* that time, until the solver stops.  Every step starts from a state that *)
(* is the result of a converged solve; any other state is shown only when  *)
(* the solver stops with it.                                               *)
(***************************************************************************)
EXTENDS Integers

VARIABLES
  now,     \* simulated time
  goal,    \* the time to reach
  valid,   \* the state at `now' is a converged one
  status   \* "idle", "loaded", "running", "stopped"

clockVars == <<now, goal, valid, status>>

Init == status = "idle" /\ valid = FALSE /\ now = 0 /\ goal = 0

Load == /\ status = "idle"
        /\ status' = "loaded"
        /\ valid' \in BOOLEAN
        /\ now' \in Nat
        /\ UNCHANGED goal

Begin == /\ status = "loaded"
         /\ status' = "running"
         /\ goal' \in Nat
         /\ valid => goal' > now
         /\ UNCHANGED <<now, valid>>

Step == /\ status = "running" /\ valid
        /\ now' > now /\ now' <= goal
        /\ valid' \in BOOLEAN
        /\ status' \in {"running", "stopped"}
        /\ ~valid' \/ now' = goal => status' = "stopped"
        /\ UNCHANGED goal

\* The solver gives up without a new state.
Abort == /\ status = "running"
         /\ status' = "stopped"
         /\ UNCHANGED <<now, goal, valid>>

Next == Load \/ Begin \/ Step \/ Abort

Spec == Init /\ [][Next]_clockVars
================================================================================
