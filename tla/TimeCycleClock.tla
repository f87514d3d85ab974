----------------------------- MODULE TimeCycleClock -----------------------------
(***************************************************************************)
(* A clock that visits every tick of a run and looks the time cycles up    *)
(* the way problem_bc_pressure.c (interval in force) and                   *)
(* select_time_step.c (next transition) do.  The operators of              *)
(* TimeCycleData are compared with reference definitions that number the   *)
(* base units of the run 1, 2, 3, ...; unit u ends at start + u units.     *)
(***************************************************************************)
EXTENDS TimeCycleData, FiniteSets

CONSTANTS
  Runs,     \* set of pairs <<problem, cycle>> to look at
  Horizon   \* number of ticks a run is followed for

ASSUME RunsAssumption ==
  /\ Horizon \in Nat
  /\ \A r \in Runs : /\ IsCycle(r[2])
                     /\ r[1].start_time \in Nat /\ r[1].stop_time \in Nat
                     /\ r[1].start_time % BaseTimeUnit = 0

VARIABLES run, now
vars == <<run, now>>

Problem == run[1]
Cycle   == run[2]

Init == /\ run \in Runs
        /\ now = run[1].start_time

Tick == /\ now < Problem.start_time + Horizon
        /\ now' = now + 1
        /\ UNCHANGED run

Next == Tick
Spec == Init /\ [][Next]_vars
--------------------------------------------------------------------------------
\* The unit of the run that a time belongs to: the first one that has not ended
\* before it.
UnitOf(time) ==
  (time - Problem.start_time + BaseTimeUnit - 1) \div BaseTimeUnit

WholeUnit == (now - Problem.start_time) % BaseTimeUnit = 0

\* The interval (from 0) unit u >= 1 of the run lies in: the number of intervals
\* of the cycle that are over when the unit begins.
IntervalOfUnit(u) ==
  IF Cycle.repeat >= 0 /\ u > Cycle.repeat * CycleLength(Cycle)
  THEN Len(Cycle.ends) - 1
  ELSE Cardinality({i \in DOMAIN Cycle.ends :
                      Cycle.ends[i] <= (u - 1) % CycleLength(Cycle)})

\* The times after now and before the end of the cycle's validity at which the
\* interval changes.
FutureChanges ==
  {time \in (now + 1)..(TimeDefined(Problem, Cycle) - 1) :
     /\ (time - Problem.start_time) % BaseTimeUnit = 0
     /\ IntervalOfUnit(UnitOf(time)) # IntervalOfUnit(UnitOf(time) + 1)}

AtChange ==
  /\ WholeUnit /\ now > Problem.start_time
  /\ IntervalOfUnit(UnitOf(now)) # IntervalOfUnit(UnitOf(now) + 1)
--------------------------------------------------------------------------------
\* At the end of every base unit of the run the interval number computed by
\* TimeCycleDataComputeIntervalNumber (C remainder of `units - 1', running
\* totals, repeat count) is the interval that unit lies in.
IntervalMatchesTimeline ==
  WholeUnit /\ now > Problem.start_time =>
    ComputeIntervalNumber(Problem, now, Cycle) = IntervalOfUnit(UnitOf(now))

\* From the start of the run, and from every whole unit inside an interval, the
\* distance computed by TimeCycleDataComputeNextTransition is the distance to
\* the first change of interval, and -1 exactly when there is none.  (At the time
\* of a change the code answers -1, or the end of the cycle after it.)
NextTransitionIsFirstChange ==
  WholeUnit /\ ~AtChange =>
    LET d == ComputeNextTransition(Problem, now, {Cycle})
    IN  IF FutureChanges = {} THEN d = -1
        ELSE /\ now + d \in FutureChanges
             /\ \A time \in FutureChanges : now + d <= time
================================================================================
