----------------------------- MODULE TimeCycleData -----------------------------
(***************************************************************************)
(* Time cycles (parflow_lib/time_cycle_data.c): which interval of a        *)
(* repeating cycle of boundary or well data is in force at a time, and how *)
(* far away the next change of interval is.                                *)
(*                                                                         *)
(* Times are integers counted in ticks; BaseTimeUnit is the number of      *)
(* ticks of TimingInfo.BaseUnit and TimeEpsilon that of TIME_EPSILON.  A   *)
(* cycle is a record                                                       *)
(*    ends   : the running totals of the interval lengths in base units    *)
(*             (the values `total' takes in the code's while loop)         *)
(*    repeat : Cycle.<name>.Repeat, negative for "the whole simulation".   *)
(* A problem p is a record with at least start_time and stop_time.         *)
(***************************************************************************)
EXTENDS Integers, Sequences

CONSTANTS
  BaseTimeUnit,  \* ticks in one TimingInfo.BaseUnit
  TimeEpsilon    \* TIME_EPSILON in ticks

ASSUME TimeCycleAssumption ==
  /\ BaseTimeUnit \in Nat \ {0}
  /\ TimeEpsilon \in Nat \ {0}

\* What ReadGlobalTimeCycleData accepts of a cycle and NewTimeCycleData stores:
\* at least one interval, every interval of positive length.
IsCycle(c) ==
  /\ c.ends \in Seq(Nat) /\ c.ends # << >>
  /\ c.ends[1] > 0
  /\ \A i \in 1..(Len(c.ends) - 1) : c.ends[i] < c.ends[i + 1]
  /\ c.repeat \in Int

CycleLength(c) == c.ends[Len(c.ends)]

\* The C remainder: it has the sign of the dividend.
CRem(a, b) == IF a < 0 THEN -((-a) % b) ELSE a % b

\* pfround(time / (base / SUBDIVISIONS)) / SUBDIVISIONS: whole base units.
\* The rounding to 1/1000 of a unit is exact on ticks.
DiscretizedTime(time) == time \div BaseTimeUnit

IntervalsCompletedLate(p, time, c) ==   \* seeded fault: the `- 1' is missing
  CRem(DiscretizedTime(time) - DiscretizedTime(p.start_time), CycleLength(c))

IntervalsCompleted(p, time, c) ==
  CRem(DiscretizedTime(time) - DiscretizedTime(p.start_time) - 1, CycleLength(c))

\* Where the loop `while (intervals_completed >= total)' stops (from 1).
CurrentIntervals(p, time, c) ==
  LET done == IntervalsCompleted(p, time, c)
  IN  {i \in DOMAIN c.ends :
         done < c.ends[i] /\ \A j \in 1..(i - 1) : done >= c.ends[j]}

\* TimeCycleDataComputeIntervalNumber, counting intervals from 0.
ComputeIntervalNumber(p, time, c) ==
  IF c.repeat < 0 \/ time < c.repeat * CycleLength(c) * BaseTimeUnit
  THEN (CHOOSE i \in CurrentIntervals(p, time, c) : TRUE) - 1
  ELSE Len(c.ends) - 1

\* time_defined: until when the cycle is followed.
TimeDefined(p, c) ==
  IF c.repeat > 0 THEN c.repeat * CycleLength(c) * BaseTimeUnit ELSE p.stop_time

TransitionTimesNoWrap(p, time, c) ==    \* seeded fault: `n++' is missing
  LET n == (DiscretizedTime(time) - DiscretizedTime(p.start_time))
             \div CycleLength(c)
  IN  {p.start_time + (n * CycleLength(c) + (c.ends[i] % CycleLength(c))) * BaseTimeUnit :
         i \in {j \in CurrentIntervals(p, time, c) : Len(c.ends) > 1}}

\* The transition the body of the loop over cycles finds for one cycle: none
\* or one.
TransitionTimes(p, time, c) ==
  LET n == (DiscretizedTime(time) - DiscretizedTime(p.start_time))
             \div CycleLength(c)
      transition(i) ==
        IF i = Len(c.ends)
        THEN p.start_time + (n + 1) * CycleLength(c) * BaseTimeUnit
        ELSE p.start_time + (n * CycleLength(c) + c.ends[i]) * BaseTimeUnit
  IN  {x \in {transition(i) : i \in CurrentIntervals(p, time, c)} :
         /\ x < TimeDefined(p, c)
         /\ time < TimeDefined(p, c)
         /\ Len(c.ends) > 1}

\* TimeCycleDataComputeNextTransition over the set of cycles of a kind of data:
\* the distance to the nearest transition found, or -1.
ComputeNextTransition(p, time, cycles) ==
  LET deltas == {x - time : x \in UNION {TransitionTimes(p, time, c) : c \in cycles}}
  IN  IF \E d \in deltas : d > TimeEpsilon /\ \A e \in deltas : d <= e
      THEN CHOOSE d \in deltas : d > TimeEpsilon /\ \A e \in deltas : d <= e
      ELSE -1
================================================================================
