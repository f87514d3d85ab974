--------------------------- MODULE TimeCycle_proofs ---------------------------
(***************************************************************************)
(* Proofs that the time cycles of time_cycle_data.c follow the timeline of *)
(* the run, for every cycle, every base unit and every time.               *)
(***************************************************************************)
EXTENDS TimeCycleClock, FiniteSetTheorems, WellFoundedInduction, TLAPS

\* A set of naturals that is not empty has a least element.
LEMMA LeastNumber ==
  ASSUME NEW S, S \subseteq Nat, S # {}
  PROVE  \E x \in S : \A y \in S : x <= y
<1> DEFINE R == OpToRel(<, Nat)
<1>1. IsWellFoundedOn(R, Nat)
  BY NatLessThanWellFounded
<1>2. \A x, y \in S : y < x => <<y, x>> \in R
  BY DEF OpToRel
<1> HIDE DEF R
<1>3. PICK x \in S : \A y \in S : ~(<<y, x>> \in R)
  BY <1>1, WFMin
<1>4. \A y \in S : ~(y < x)
  BY <1>2, <1>3
<1>5. \A y \in S : x <= y
  BY <1>4
<1> QED
  BY <1>5

\* A quotient is the only number whose multiple leaves a remainder in range.
LEMMA DivisionIs ==
  ASSUME NEW a \in Int, NEW b \in Nat \ {0}, NEW q \in Int, NEW r \in Nat,
         a = q * b + r, r < b
  PROVE  a \div b = q /\ a % b = r
<1> DEFINE k == a \div b
           m == a % b
<1>1. k \in Int /\ m \in Int /\ 0 <= m /\ m < b /\ a = k * b + m
  OBVIOUS
<1> HIDE DEF k, m
<1>2. CASE k >= q + 1
  <2>1. k * b >= (q + 1) * b
    BY <1>1, <1>2
  <2>2. (q + 1) * b = q * b + b /\ q * b \in Int /\ k * b \in Int
    BY <1>1
  <2> QED
    BY <1>1, <2>1, <2>2
<1>3. CASE q >= k + 1
  <2>1. q * b >= (k + 1) * b
    BY <1>1, <1>3
  <2>2. (k + 1) * b = k * b + b /\ q * b \in Int /\ k * b \in Int
    BY <1>1
  <2> QED
    BY <1>1, <2>1, <2>2
<1>4. k = q
  BY <1>1, <1>2, <1>3
<1>5. m = r
  <2>1. q * b \in Int
    OBVIOUS
  <2> QED
    BY <1>1, <1>4, <2>1
<1> QED
  BY <1>4, <1>5 DEF k, m

\* Quotient and remainder of a natural number.
LEMMA DivisionOf ==
  ASSUME NEW a \in Nat, NEW b \in Nat \ {0}
  PROVE  a \div b \in Nat /\ a % b \in Nat /\ a % b < b /\ a = (a \div b) * b + (a % b)
<1>1. a \div b \in Int /\ a % b \in Nat /\ a % b < b
  OBVIOUS
<1>2. a = (a \div b) * b + (a % b)
  OBVIOUS
<1>3. a \div b >= 0
  OBVIOUS
<1> QED
  BY <1>1, <1>2, <1>3
--------------------------------------------------------------------------------
\* The running totals of a cycle ascend, and the last one is its length.
LEMMA EndsAscend ==
  ASSUME NEW c, IsCycle(c)
  PROVE  /\ \A i, j \in DOMAIN c.ends : i < j => c.ends[i] < c.ends[j]
         /\ \A i \in DOMAIN c.ends : c.ends[i] \in Nat \ {0} /\ c.ends[i] <= CycleLength(c)
         /\ Len(c.ends) \in Nat \ {0} /\ DOMAIN c.ends = 1..Len(c.ends)
         /\ CycleLength(c) \in Nat \ {0}
<1> DEFINE E == c.ends
           n == Len(E)
<1>1. /\ E \in Seq(Nat) /\ n \in Nat \ {0} /\ DOMAIN E = 1..n
      /\ E[1] > 0 /\ \A i \in 1..(n - 1) : E[i] < E[i + 1]
      /\ \A i \in 1..n : E[i] \in Nat
  BY DEF IsCycle
<1>2. CycleLength(c) = E[n]
  BY DEF CycleLength
<1> HIDE DEF E, n
<1>3. \A i, j \in 1..n : i < j => E[i] < E[j]
  <2> SUFFICES ASSUME NEW i \in 1..n
               PROVE  {j \in 1..n : i < j /\ ~(E[i] < E[j])} = {}
    OBVIOUS
  <2> DEFINE S == {j \in 1..n : i < j /\ ~(E[i] < E[j])}
  <2> SUFFICES ASSUME S # {} PROVE FALSE
    OBVIOUS
  <2>1. S \subseteq Nat
    OBVIOUS
  <2>2. PICK x \in S : \A y \in S : x <= y
    BY <2>1, LeastNumber
  <2>3. x \in 1..n /\ i < x /\ ~(E[i] < E[x])
    OBVIOUS
  <2>4. x - 1 \in 1..(n - 1) /\ x - 1 \in 1..n /\ i <= x - 1 /\ (x - 1) + 1 = x
    BY <1>1, <2>3
  <2>5. E[x - 1] < E[x] /\ E[x - 1] \in Nat /\ E[x] \in Nat /\ E[i] \in Nat
    BY <1>1, <2>3, <2>4
  <2>6. x - 1 \notin S
    BY <2>2, <2>4
  <2>7. i = x - 1 \/ E[i] < E[x - 1]
    BY <2>4, <2>6
  <2> QED
    BY <2>3, <2>5, <2>7
<1>4. \A i \in 1..n : E[i] \in Nat \ {0}
  <2> SUFFICES ASSUME NEW i \in 1..n PROVE E[i] \in Nat \ {0}
    OBVIOUS
  <2>1. 1 \in 1..n /\ E[1] \in Nat /\ E[i] \in Nat
    BY <1>1
  <2>2. i = 1 \/ E[1] < E[i]
    BY <1>1, <1>3, <2>1
  <2> QED
    BY <1>1, <2>1, <2>2
<1>5. \A i \in 1..n : E[i] <= E[n]
  <2> SUFFICES ASSUME NEW i \in 1..n PROVE E[i] <= E[n]
    OBVIOUS
  <2>1. n \in 1..n /\ E[n] \in Nat /\ E[i] \in Nat
    BY <1>1
  <2>2. i = n \/ E[i] < E[n]
    BY <1>1, <1>3, <2>1
  <2> QED
    BY <2>1, <2>2
<1>6. n \in 1..n
  BY <1>1
<1> QED
  BY <1>1, <1>2, <1>3, <1>4, <1>5, <1>6 DEF E, n

\* Interval i of a cycle holds the units m, counted from 0 in the cycle, from the
\* end of the interval before it up to its own end.
Holds(c, i, m) == /\ i \in DOMAIN c.ends /\ m < c.ends[i]
                  /\ \A j \in 1..(i - 1) : m >= c.ends[j]

\* Every unit of a cycle lies in one interval.
LEMMA UnitHasInterval ==
  ASSUME NEW c, IsCycle(c), NEW m \in Int, m < CycleLength(c)
  PROVE  \E i \in DOMAIN c.ends : Holds(c, i, m)
<1> DEFINE S == {i \in DOMAIN c.ends : m < c.ends[i]}
<1>1. /\ Len(c.ends) \in Nat \ {0} /\ DOMAIN c.ends = 1..Len(c.ends)
      /\ \A i \in DOMAIN c.ends : c.ends[i] \in Nat
  BY EndsAscend
<1>2. Len(c.ends) \in S
  BY <1>1 DEF CycleLength
<1>3. S \subseteq Nat /\ S # {}
  BY <1>1, <1>2
<1>4. PICK i \in S : \A j \in S : i <= j
  BY <1>3, LeastNumber
<1>5. \A j \in 1..(i - 1) : m >= c.ends[j]
  <2> SUFFICES ASSUME NEW j \in 1..(i - 1) PROVE m >= c.ends[j]
    OBVIOUS
  <2>1. j \in DOMAIN c.ends /\ ~(i <= j)
    BY <1>1
  <2>2. ~(m < c.ends[j]) /\ c.ends[j] \in Nat
    BY <1>1, <1>4, <2>1
  <2> QED
    BY <2>2
<1> QED
  BY <1>4, <1>5 DEF Holds

LEMMA IntervalIsUnique ==
  ASSUME NEW c, IsCycle(c), NEW m \in Int, NEW i, NEW k, Holds(c, i, m), Holds(c, k, m)
  PROVE  i = k
<1>1. /\ Len(c.ends) \in Nat \ {0} /\ DOMAIN c.ends = 1..Len(c.ends)
      /\ \A j \in DOMAIN c.ends : c.ends[j] \in Nat
  BY EndsAscend
<1>2. i \in 1..Len(c.ends) /\ k \in 1..Len(c.ends)
  BY <1>1 DEF Holds
<1>3. CASE i < k
  <2>1. i \in 1..(k - 1)
    BY <1>1, <1>2, <1>3
  <2>2. m >= c.ends[i] /\ m < c.ends[i] /\ c.ends[i] \in Nat
    BY <1>1, <2>1 DEF Holds
  <2> QED
    BY <2>2
<1>4. CASE k < i
  <2>1. k \in 1..(i - 1)
    BY <1>1, <1>2, <1>4
  <2>2. m >= c.ends[k] /\ m < c.ends[k] /\ c.ends[k] \in Nat
    BY <1>1, <2>1 DEF Holds
  <2> QED
    BY <2>2
<1> QED
  BY <1>1, <1>2, <1>3, <1>4

\* The intervals over before unit m begins are those before the one it lies in.
LEMMA IntervalsBefore ==
  ASSUME NEW c, IsCycle(c), NEW m \in Int, NEW i, Holds(c, i, m)
  PROVE  Cardinality({j \in DOMAIN c.ends : c.ends[j] <= m}) = i - 1
<1>1. /\ Len(c.ends) \in Nat \ {0} /\ DOMAIN c.ends = 1..Len(c.ends)
      /\ \A j \in DOMAIN c.ends : c.ends[j] \in Nat
      /\ \A j, k \in DOMAIN c.ends : j < k => c.ends[j] < c.ends[k]
  BY EndsAscend
<1>2. i \in 1..Len(c.ends) /\ m < c.ends[i] /\ \A j \in 1..(i - 1) : m >= c.ends[j]
  BY <1>1 DEF Holds
<1>3. {j \in DOMAIN c.ends : c.ends[j] <= m} = 1..(i - 1)
  <2>1. ASSUME NEW j \in DOMAIN c.ends, c.ends[j] <= m
        PROVE  j \in 1..(i - 1)
    <3>1. j \in 1..Len(c.ends) /\ c.ends[j] \in Nat /\ c.ends[i] \in Nat
      BY <1>1, <1>2
    <3>2. c.ends[j] < c.ends[i]
      BY <1>2, <2>1, <3>1
    <3>3. ~(i < j) /\ i # j
      <4>1. i < j => c.ends[i] < c.ends[j]
        BY <1>1, <1>2
      <4> QED
        BY <3>1, <3>2, <4>1
    <3> QED
      BY <1>1, <1>2, <3>1, <3>3
  <2>2. ASSUME NEW j \in 1..(i - 1)
        PROVE  j \in DOMAIN c.ends /\ c.ends[j] <= m
    <3>1. j \in DOMAIN c.ends /\ c.ends[j] \in Nat /\ m >= c.ends[j]
      BY <1>1, <1>2
    <3> QED
      BY <3>1
  <2> QED
    BY <2>1, <2>2
<1>4. i \in Int /\ 1 \in Int /\ i - 1 \in Int /\ i >= 1
  BY <1>1, <1>2
<1>5. Cardinality(1..(i - 1)) = IF 1 > i - 1 THEN 0 ELSE (i - 1) - 1 + 1
  BY <1>4, FS_Interval
<1>6. Cardinality(1..(i - 1)) = i - 1
  BY <1>4, <1>5
<1> QED
  BY <1>3, <1>6
--------------------------------------------------------------------------------
\* The run does not change, and its time does not lie before its start.
ClockInv == run \in Runs /\ now \in Nat /\ now >= Problem.start_time

LEMMA ClockInvariance == Spec => []ClockInv
<1>1. Init => ClockInv
  BY RunsAssumption DEF Init, ClockInv, Problem
<1>2. ClockInv /\ [Next]_vars => ClockInv'
  BY RunsAssumption DEF ClockInv, Next, Tick, vars, Problem
<1> QED
  BY <1>1, <1>2, PTL DEF Spec

\* What is known of a run and its cycle.
LEMMA RunFacts ==
  ASSUME ClockInv
  PROVE  /\ IsCycle(Cycle) /\ Cycle.repeat \in Int
         /\ CycleLength(Cycle) \in Nat \ {0}
         /\ BaseTimeUnit \in Nat \ {0} /\ TimeEpsilon \in Nat \ {0}
         /\ Problem.start_time \in Nat /\ Problem.stop_time \in Nat
         /\ Problem.start_time % BaseTimeUnit = 0
<1>1. IsCycle(Cycle)
  BY RunsAssumption DEF ClockInv, Cycle
<1>2. Cycle.repeat \in Int
  BY <1>1 DEF IsCycle
<1>3. CycleLength(Cycle) \in Nat \ {0}
  BY <1>1, EndsAscend
<1> QED
  BY <1>1, <1>2, <1>3, RunsAssumption, TimeCycleAssumption DEF ClockInv, Problem

\* A time v units after the start: its unit, and its distance from the start in
\* the code's base units.
LEMMA TimeOfUnit ==
  ASSUME ClockInv, NEW v \in Nat, NEW time,
         time = Problem.start_time + v * BaseTimeUnit
  PROVE  /\ time \in Nat /\ (time - Problem.start_time) % BaseTimeUnit = 0
         /\ UnitOf(time) = v
         /\ DiscretizedTime(time) - DiscretizedTime(Problem.start_time) = v
<1> DEFINE B == BaseTimeUnit
           start == Problem.start_time
           s == start \div B
<1>1. B \in Nat \ {0} /\ start \in Nat /\ start % B = 0
  BY RunFacts
<1> HIDE DEF B, start
<1>2. v * B \in Nat
  BY <1>1
<1>3. time \in Nat /\ time - start = v * B
  BY <1>1, <1>2 DEF B, start
<1>4. (time - start) % B = 0
  <2>1. time - start = v * B + 0
    BY <1>2, <1>3
  <2> QED
    BY <1>1, <1>2, <1>3, <2>1, DivisionIs
<1>5. (time - start + B - 1) \div B = v
  <2>1. time - start + B - 1 = v * B + (B - 1) /\ time - start + B - 1 \in Int
        /\ B - 1 \in Nat /\ B - 1 < B
    BY <1>1, <1>2, <1>3
  <2> QED
    BY <1>1, <2>1, DivisionIs
<1>6. s \in Int /\ start = s * B + 0 /\ s * B \in Int
  BY <1>1
<1> HIDE DEF s
<1>7. (s + v) * B = s * B + v * B
  BY <1>1, <1>6
<1>8. time = (s + v) * B + 0 /\ s + v \in Int
  BY <1>1, <1>2, <1>3, <1>6, <1>7
<1>9. time \div B = s + v
  BY <1>1, <1>3, <1>8, DivisionIs
<1>10. time \div B - start \div B = v
  BY <1>6, <1>9 DEF s
<1> QED
  BY <1>3, <1>4, <1>5, <1>10 DEF UnitOf, DiscretizedTime, B, start

\* A whole unit is some number of units after the start.
LEMMA WholeUnitIs ==
  ASSUME ClockInv, WholeUnit
  PROVE  \E u \in Nat : now = Problem.start_time + u * BaseTimeUnit
<1> DEFINE B == BaseTimeUnit
           a == now - Problem.start_time
           q == a \div B
<1>1. B \in Nat \ {0} /\ a \in Nat /\ a % B = 0 /\ Problem.start_time \in Nat
  BY RunFacts DEF WholeUnit, ClockInv
<1> HIDE DEF a, B
<1>2. q \in Int /\ a = q * B
  <2>1. q \in Int /\ a = q * B + (a % B)
    BY <1>1
  <2> HIDE DEF q
  <2>2. q * B \in Int
    BY <1>1, <2>1
  <2> QED
    BY <1>1, <2>1, <2>2
<1>3. q >= 0
  BY <1>1
<1> HIDE DEF q
<1>4. now = Problem.start_time + q * B
  <2>1. now = Problem.start_time + a
    BY <1>1 DEF a, ClockInv
  <2> QED
    BY <1>2, <2>1
<1> QED
  BY <1>2, <1>3, <1>4 DEF B

\* The interval of a unit, while the cycle is still repeated.
LEMMA IntervalInCycle ==
  ASSUME ClockInv, NEW v \in Nat \ {0}, NEW i,
         Holds(Cycle, i, (v - 1) % CycleLength(Cycle)),
         Cycle.repeat < 0 \/ v <= Cycle.repeat * CycleLength(Cycle)
  PROVE  IntervalOfUnit(v) = i - 1
<1> DEFINE m == (v - 1) % CycleLength(Cycle)
<1>1. IsCycle(Cycle) /\ Cycle.repeat \in Int /\ CycleLength(Cycle) \in Nat \ {0}
  BY RunFacts
<1>2. m \in Int
  BY <1>1
<1>3. Cycle.repeat * CycleLength(Cycle) \in Int
  BY <1>1
<1>4. ~(Cycle.repeat >= 0 /\ v > Cycle.repeat * CycleLength(Cycle))
  BY <1>1, <1>3
<1>5. Cardinality({j \in DOMAIN Cycle.ends : Cycle.ends[j] <= m}) = i - 1
  BY <1>1, <1>2, IntervalsBefore
<1> QED
  BY <1>4, <1>5 DEF IntervalOfUnit

\* The last unit of a cycle lies in its last interval.
LEMMA LastUnitOfCycle ==
  ASSUME NEW c, IsCycle(c)
  PROVE  Holds(c, Len(c.ends), CycleLength(c) - 1)
<1> DEFINE n == Len(c.ends)
<1>1. /\ n \in Nat \ {0} /\ DOMAIN c.ends = 1..n
      /\ \A i \in DOMAIN c.ends : c.ends[i] \in Nat
      /\ \A i, j \in DOMAIN c.ends : i < j => c.ends[i] < c.ends[j]
      /\ CycleLength(c) \in Nat
  BY EndsAscend
<1>2. CycleLength(c) = c.ends[n]
  BY DEF CycleLength
<1> HIDE DEF n
<1>3. n \in 1..n
  BY <1>1
<1>4. ASSUME NEW j \in 1..(n - 1) PROVE CycleLength(c) - 1 >= c.ends[j]
  <2>1. j \in 1..n /\ j < n
    BY <1>1
  <2>2. c.ends[j] < CycleLength(c) /\ c.ends[j] \in Nat
    BY <1>1, <1>2, <1>3, <2>1
  <2> QED
    BY <1>1, <2>2
<1>5. CycleLength(c) - 1 < c.ends[n]
  BY <1>1, <1>2
<1>6. Holds(c, n, CycleLength(c) - 1)
  BY <1>1, <1>3, <1>4, <1>5 DEF Holds
<1> QED
  BY <1>6 DEF n

\* The one interval the code's loop stops at, u units after the start.
LEMMA CurrentInterval ==
  ASSUME ClockInv, NEW u \in Nat, now = Problem.start_time + u * BaseTimeUnit
  PROVE  /\ IntervalsCompleted(Problem, now, Cycle)
              = IF u = 0 THEN -(1 % CycleLength(Cycle))
                ELSE (u - 1) % CycleLength(Cycle)
         /\ \E i \in DOMAIN Cycle.ends :
              /\ Holds(Cycle, i, IntervalsCompleted(Problem, now, Cycle))
              /\ CurrentIntervals(Problem, now, Cycle) = {i}
<1> DEFINE L == CycleLength(Cycle)
           done == IntervalsCompleted(Problem, now, Cycle)
<1>1. IsCycle(Cycle) /\ L \in Nat \ {0}
  BY RunFacts
<1>2. DiscretizedTime(now) - DiscretizedTime(Problem.start_time) = u
  BY TimeOfUnit
<1>3. done = CRem(u - 1, L)
  BY <1>2 DEF IntervalsCompleted
<1> HIDE DEF done, L
<1>4. done = IF u = 0 THEN -(1 % L) ELSE (u - 1) % L
  BY <1>1, <1>3 DEF CRem
<1>5. done \in Int /\ done < L
  <2>1. 1 % L \in 0..(L - 1) /\ (u - 1) % L \in 0..(L - 1)
    BY <1>1
  <2> QED
    BY <1>1, <1>4, <2>1
<1>6. PICK i \in DOMAIN Cycle.ends : Holds(Cycle, i, done)
  BY <1>1, <1>5, UnitHasInterval DEF L
<1>7. \A k : k \in CurrentIntervals(Problem, now, Cycle) <=> Holds(Cycle, k, done)
  BY DEF CurrentIntervals, Holds, done
<1>8. \A k : Holds(Cycle, k, done) => k = i
  BY <1>1, <1>5, <1>6, IntervalIsUnique
<1>9. CurrentIntervals(Problem, now, Cycle) = {i}
  BY <1>6, <1>7, <1>8
<1> QED
  BY <1>4, <1>6, <1>9 DEF done, L

\* The interval TimeCycleDataComputeIntervalNumber finds at the end of a base unit
\* is the one that unit lies in, for endless cycles from any start time and for
\* counted ones in a run from time 0 (the count is taken from time 0).
THEOREM IntervalsFollowTimeline ==
  ASSUME \A r \in Runs : r[2].repeat < 0 \/ r[1].start_time = 0
  PROVE  Spec => []IntervalMatchesTimeline
<1>1. ClockInv => IntervalMatchesTimeline
  <2> SUFFICES ASSUME ClockInv, WholeUnit, now > Problem.start_time
               PROVE  ComputeIntervalNumber(Problem, now, Cycle)
                        = IntervalOfUnit(UnitOf(now))
    BY DEF IntervalMatchesTimeline
  <2> DEFINE L == CycleLength(Cycle)
             B == BaseTimeUnit
             rep == Cycle.repeat
  <2>1. /\ IsCycle(Cycle) /\ rep \in Int /\ L \in Nat \ {0} /\ B \in Nat \ {0}
        /\ Problem.start_time \in Nat
    BY RunFacts
  <2>2. rep < 0 \/ Problem.start_time = 0
    BY DEF ClockInv, Cycle, Problem
  <2>3. PICK u \in Nat : now = Problem.start_time + u * B
    BY WholeUnitIs
  <2>4. u # 0
    BY <2>1, <2>3
  <2>5. UnitOf(now) = u
    BY <2>3, TimeOfUnit
  <2>6. PICK i \in DOMAIN Cycle.ends :
          /\ Holds(Cycle, i, (u - 1) % L)
          /\ CurrentIntervals(Problem, now, Cycle) = {i}
    BY <2>3, <2>4, CurrentInterval
  <2>7. (CHOOSE k \in CurrentIntervals(Problem, now, Cycle) : TRUE) = i
    BY <2>6
  <2>8. CASE rep < 0
    <3>1. ComputeIntervalNumber(Problem, now, Cycle) = i - 1
      BY <2>7, <2>8 DEF ComputeIntervalNumber
    <3>2. IntervalOfUnit(u) = i - 1
      BY <2>4, <2>6, <2>8, IntervalInCycle
    <3> QED
      BY <2>5, <3>1, <3>2
  <2>9. CASE rep >= 0
    <3> DEFINE K == rep * L
    <3>1. K \in Nat /\ now = u * B /\ u * B \in Nat /\ K * B \in Nat
      BY <2>1, <2>2, <2>3, <2>9
    <3>2. rep * L * B = K * B
      OBVIOUS
    <3> HIDE DEF K
    <3>3. now < K * B <=> u < K
      <4>1. u < K => u * B < K * B
        BY <2>1, <3>1
      <4>2. u >= K => u * B >= K * B
        BY <2>1, <3>1
      <4> QED
        BY <3>1, <4>1, <4>2
    <3>4. CASE u < K
      <4>1. ComputeIntervalNumber(Problem, now, Cycle) = i - 1
        BY <2>7, <3>2, <3>3, <3>4 DEF ComputeIntervalNumber
      <4>2. u <= rep * L
        BY <3>1, <3>4 DEF K
      <4>3. IntervalOfUnit(u) = i - 1
        BY <2>4, <2>6, <4>2, IntervalInCycle
      <4> QED
        BY <2>5, <4>1, <4>3
    <3>5. CASE u >= K
      <4>1. ~(now < K * B) /\ ~(rep < 0)
        BY <2>1, <2>9, <3>1, <3>3, <3>5
      <4>2. ComputeIntervalNumber(Problem, now, Cycle) = Len(Cycle.ends) - 1
        BY <3>2, <4>1 DEF ComputeIntervalNumber
      <4>3. CASE u > K
        BY <2>5, <2>9, <4>2, <4>3 DEF IntervalOfUnit, K
      <4>4. CASE u = K
        <5>1. u - 1 = (rep - 1) * L + (L - 1) /\ u - 1 \in Int /\ rep - 1 \in Int
              /\ L - 1 \in Nat /\ L - 1 < L
          <6>1. (rep - 1) * L = rep * L - L
            BY <2>1
          <6>2. rep * L = u /\ u \in Int
            BY <4>4 DEF K
          <6> QED
            BY <2>1, <6>1, <6>2
        <5>2. (u - 1) % L = L - 1
          BY <2>1, <5>1, DivisionIs
        <5>3. Holds(Cycle, Len(Cycle.ends), (u - 1) % L)
          BY <2>1, <5>2, LastUnitOfCycle
        <5>4. u <= rep * L
          BY <3>1, <4>4 DEF K
        <5>5. IntervalOfUnit(u) = Len(Cycle.ends) - 1
          BY <2>4, <5>3, <5>4, IntervalInCycle
        <5> QED
          BY <2>5, <4>2, <5>5
      <4> QED
        BY <3>1, <3>5, <4>3, <4>4
    <3> QED
      BY <3>1, <3>4, <3>5
  <2> QED
    BY <2>1, <2>8, <2>9
<1> QED
  BY <1>1, ClockInvariance, PTL
--------------------------------------------------------------------------------
\* The cycle is endless, or counted from the beginning of a run that starts at 0.
CountedFromStart ==
  Cycle.repeat < 0 \/ (Cycle.repeat > 0 /\ Problem.start_time = 0)

\* Up to TimeDefined the cycle is still repeated.
LEMMA StillRepeated ==
  ASSUME ClockInv, CountedFromStart, NEW v \in Nat,
         Problem.start_time + v * BaseTimeUnit < TimeDefined(Problem, Cycle)
  PROVE  Cycle.repeat < 0 \/ v + 1 <= Cycle.repeat * CycleLength(Cycle)
<1> DEFINE L == CycleLength(Cycle)
           B == BaseTimeUnit
           rep == Cycle.repeat
           K == rep * L
<1>1. rep \in Int /\ L \in Nat \ {0} /\ B \in Nat \ {0}
  BY RunFacts
<1>2. SUFFICES ASSUME rep > 0, Problem.start_time = 0
               PROVE  v + 1 <= K
  BY DEF CountedFromStart
<1>3. K \in Nat /\ v * B \in Nat
  BY <1>1, <1>2
<1>4. TimeDefined(Problem, Cycle) = K * B
  BY <1>2 DEF TimeDefined
<1>5. v * B < K * B
  BY <1>2, <1>3, <1>4
<1> HIDE DEF K
<1>6. ~(v >= K)
  <2>1. v >= K => v * B >= K * B
    BY <1>1, <1>3
  <2>2. K * B \in Nat
    BY <1>1, <1>3
  <2> QED
    BY <1>3, <1>5, <2>1, <2>2
<1> QED
  BY <1>3, <1>6

\* Unit w of cycle n, counted from 0.
LEMMA UnitOfCycle ==
  ASSUME NEW L \in Nat \ {0}, NEW n \in Nat, NEW w \in Nat, w < L
  PROVE  n * L \in Nat /\ n * L + w \in Nat /\ (n * L + w) % L = w
         /\ (n * L + w) \div L = n
<1>1. n * L \in Nat
  OBVIOUS
<1> DEFINE v == n * L + w
<1>2. v \in Int /\ v = n * L + w /\ n * L + w \in Nat
  BY <1>1
<1> HIDE DEF v
<1>3. v % L = w /\ v \div L = n
  BY <1>2, DivisionIs
<1> QED
  BY <1>1, <1>2, <1>3

\* Within an interval nothing changes: unit n * L + w and the one after it lie in
\* interval i if both w - 1 and w do.
LEMMA NoChangeInside ==
  ASSUME ClockInv, NEW n \in Nat, NEW w \in Nat \ {0}, w < CycleLength(Cycle), NEW i,
         Holds(Cycle, i, w - 1), Holds(Cycle, i, w),
         \/ Cycle.repeat < 0
         \/ n * CycleLength(Cycle) + w + 1 <= Cycle.repeat * CycleLength(Cycle)
  PROVE  /\ IntervalOfUnit(n * CycleLength(Cycle) + w) = i - 1
         /\ IntervalOfUnit(n * CycleLength(Cycle) + w + 1) = i - 1
<1> DEFINE L == CycleLength(Cycle)
           v == n * L + w
           K == Cycle.repeat * L
<1>1. L \in Nat \ {0} /\ Cycle.repeat \in Int
  BY RunFacts
<1>2. n * L \in Nat /\ K \in Int
  BY <1>1
<1>3. v \in Nat \ {0} /\ v + 1 \in Nat \ {0} /\ v - 1 = n * L + (w - 1)
      /\ (v + 1) - 1 = n * L + w /\ w - 1 \in Nat /\ w - 1 < L
  BY <1>1, <1>2
<1>4. (v - 1) % L = w - 1 /\ ((v + 1) - 1) % L = w
  <2> HIDE DEF v
  <2>1. (n * L + (w - 1)) % L = w - 1
    <3>1. w - 1 \in Nat /\ w - 1 < L
      BY <1>3
    <3> HIDE DEF L
    <3> QED
      BY <1>1, <3>1, UnitOfCycle
  <2>2. (n * L + w) % L = w
    BY <1>1, UnitOfCycle
  <2> HIDE DEF L
  <2> QED
    BY <1>3, <2>1, <2>2
<1>5. Cycle.repeat < 0 \/ (v <= K /\ v + 1 <= K)
  BY <1>2, <1>3
<1> HIDE DEF v
<1>6. IntervalOfUnit(v) = i - 1 /\ IntervalOfUnit(v + 1) = i - 1
  BY <1>3, <1>4, <1>5, IntervalInCycle
<1> QED
  BY <1>6 DEF v

\* At the end of an interval of a cycle with several intervals the interval
\* changes, to the next one or back to the first.
LEMMA ChangeAtEnd ==
  ASSUME ClockInv, NEW n \in Nat, NEW i \in DOMAIN Cycle.ends, Len(Cycle.ends) > 1,
         \/ Cycle.repeat < 0
         \/ n * CycleLength(Cycle) + Cycle.ends[i] + 1
              <= Cycle.repeat * CycleLength(Cycle)
  PROVE  IntervalOfUnit(n * CycleLength(Cycle) + Cycle.ends[i])
           # IntervalOfUnit(n * CycleLength(Cycle) + Cycle.ends[i] + 1)
<1> DEFINE E == Cycle.ends
           len == Len(E)
           L == CycleLength(Cycle)
           e == E[i]
           N == n * L
           v == N + e
           K == Cycle.repeat * L
<1>1. L \in Nat \ {0} /\ Cycle.repeat \in Int /\ IsCycle(Cycle)
  BY RunFacts
<1>2. /\ len \in Nat \ {0} /\ DOMAIN E = 1..len
      /\ \A j \in DOMAIN E : E[j] \in Nat \ {0} /\ E[j] <= L
      /\ \A j, k \in DOMAIN E : j < k => E[j] < E[k]
  BY <1>1, EndsAscend
<1>3. E[len] = L
  BY DEF CycleLength
<1> HIDE DEF E, len, L
<1>4. e \in Nat \ {0} /\ e <= L /\ i \in 1..len /\ len > 1
  BY <1>2 DEF E, len
<1>5. N \in Nat /\ K \in Int
  BY <1>1
<1>13. Cycle.repeat < 0 \/ v + 1 <= K
  BY DEF L, e, E
<1> HIDE DEF e, N, K
<1>6. v \in Nat \ {0} /\ v + 1 \in Nat \ {0} /\ v - 1 = N + (e - 1)
      /\ (v + 1) - 1 = v /\ e - 1 \in Nat /\ e - 1 < L
  BY <1>1, <1>4, <1>5
<1> HIDE DEF v
<1>7. Cycle.repeat < 0 \/ (v <= K /\ v + 1 <= K)
  BY <1>5, <1>6, <1>13
<1>8. (v - 1) % L = e - 1
  <2>1. (n * L + (e - 1)) % L = e - 1
    BY <1>1, <1>6, UnitOfCycle
  <2> QED
    BY <1>6, <2>1 DEF N
<1>9. Holds(Cycle, i, e - 1)
  <2>1. ASSUME NEW j \in 1..(i - 1) PROVE e - 1 >= E[j]
    <3>1. j \in 1..len /\ j < i
      BY <1>2, <1>4
    <3>2. E[j] \in Nat /\ E[j] < e
      BY <1>2, <1>4, <3>1 DEF e
    <3> QED
      BY <1>4, <3>2
  <2>2. e - 1 < e
    BY <1>4
  <2> QED
    BY <1>2, <1>4, <2>1, <2>2 DEF Holds, E, e
<1>10. IntervalOfUnit(v) = i - 1
  BY <1>6, <1>7, <1>8, <1>9, IntervalInCycle DEF L, K
<1>11. CASE i < len
  <2>1. i + 1 \in 1..len /\ i < i + 1
    BY <1>2, <1>4, <1>11
  <2>2. e < E[i + 1] /\ E[i + 1] \in Nat /\ E[i + 1] <= L
    BY <1>2, <1>4, <2>1 DEF e
  <2>3. e < L
    BY <1>1, <1>4, <2>2
  <2>4. ((v + 1) - 1) % L = e
    <3>1. (n * L + e) % L = e
      BY <1>1, <1>4, <2>3, UnitOfCycle
    <3> QED
      BY <1>6, <3>1 DEF v, N
  <2>5. Holds(Cycle, i + 1, e)
    <3>1. ASSUME NEW j \in 1..((i + 1) - 1) PROVE e >= E[j]
      <4>1. j \in 1..len /\ (j = i \/ j < i)
        BY <1>2, <1>4
      <4>2. E[j] \in Nat /\ (E[j] = e \/ E[j] < e)
        BY <1>2, <1>4, <4>1 DEF e
      <4> QED
        BY <1>4, <4>2
    <3> QED
      BY <1>2, <2>1, <2>2, <3>1 DEF Holds, E
  <2>6. IntervalOfUnit(v + 1) = (i + 1) - 1
    BY <1>6, <1>7, <2>4, <2>5, IntervalInCycle DEF L, K
  <2>7. i - 1 # (i + 1) - 1
    BY <1>4
  <2> QED
    BY <1>10, <2>6, <2>7 DEF v, N, L, e, E
<1>12. CASE i = len
  <2>1. e = L
    BY <1>3, <1>12 DEF e
  <2>2. v = (n + 1) * L + 0 /\ n + 1 \in Nat /\ 0 \in Nat /\ 0 < L
    BY <1>1, <1>5, <2>1 DEF v, N
  <2>3. ((v + 1) - 1) % L = 0
    <3>1. ((n + 1) * L + 0) % L = 0
      BY <1>1, <2>2, UnitOfCycle
    <3> QED
      BY <1>6, <2>2, <3>1
  <2>4. Holds(Cycle, 1, 0)
    <3>1. 1 \in 1..len /\ 0 < E[1]
      BY <1>2
    <3> QED
      BY <1>2, <3>1 DEF Holds, E
  <2>5. IntervalOfUnit(v + 1) = 1 - 1
    BY <1>6, <1>7, <2>3, <2>4, IntervalInCycle DEF L, K
  <2>6. i - 1 # 1 - 1
    BY <1>4, <1>12
  <2> QED
    BY <1>10, <2>5, <2>6 DEF v, N, L, e, E
<1> QED
  BY <1>2, <1>4, <1>11, <1>12

\* A cycle with a single interval never changes.
LEMMA OneInterval ==
  ASSUME ClockInv, Len(Cycle.ends) = 1, NEW v \in Nat \ {0}
  PROVE  IntervalOfUnit(v) = 0
<1> DEFINE L == CycleLength(Cycle)
           m == (v - 1) % L
<1>1. L \in Nat \ {0} /\ Cycle.repeat \in Int /\ IsCycle(Cycle)
  BY RunFacts
<1>2. m \in Int /\ m < L
  BY <1>1
<1>3. DOMAIN Cycle.ends = {1}
  <2>1. DOMAIN Cycle.ends = 1..1
    BY <1>1, EndsAscend
  <2> QED
    BY <2>1
<1>4. Holds(Cycle, 1, m)
  BY <1>1, <1>2, <1>3, UnitHasInterval
<1>5. Cardinality({j \in DOMAIN Cycle.ends : Cycle.ends[j] <= m}) = 1 - 1
  BY <1>1, <1>2, <1>4, IntervalsBefore
<1> QED
  BY <1>5 DEF IntervalOfUnit

\* The transition the code finds for interval i in cycle n is the end of that
\* interval, also where it wraps to the next cycle.
LEMMA OneTransition ==
  ASSUME ClockInv, NEW u \in Nat, now = Problem.start_time + u * BaseTimeUnit,
         NEW i \in DOMAIN Cycle.ends, CurrentIntervals(Problem, now, Cycle) = {i},
         NEW n \in Nat, n = u \div CycleLength(Cycle)
  PROVE  TransitionTimes(Problem, now, Cycle) =
           {x \in {Problem.start_time
                     + (n * CycleLength(Cycle) + Cycle.ends[i]) * BaseTimeUnit} :
              /\ x < TimeDefined(Problem, Cycle)
              /\ now < TimeDefined(Problem, Cycle)
              /\ Len(Cycle.ends) > 1}
<1> DEFINE L == CycleLength(Cycle)
           B == BaseTimeUnit
           start == Problem.start_time
           e == Cycle.ends[i]
           X == start + (n * L + e) * B
           f(k) == IF k = Len(Cycle.ends)
                   THEN start + (n + 1) * L * B
                   ELSE start + (n * L + Cycle.ends[k]) * B
<1>1. DiscretizedTime(now) - DiscretizedTime(start) = u
  BY TimeOfUnit
<1>2. IsCycle(Cycle) /\ L \in Nat \ {0} /\ B \in Nat \ {0} /\ start \in Nat
  BY RunFacts
<1>3. e \in Nat
  BY <1>2, EndsAscend
<1>4. f(i) = X
  <2>1. CASE i = Len(Cycle.ends)
    <3>1. e = L
      BY <2>1 DEF CycleLength
    <3> HIDE DEF L, e
    <3>2. (n + 1) * L = n * L + L
      BY <1>2
    <3> QED
      BY <2>1, <3>1, <3>2
  <2>2. CASE i # Len(Cycle.ends)
    BY <2>2
  <2> QED
    BY <2>1, <2>2
<1>5. {f(k) : k \in {i}} = {X}
  BY <1>4
<1>6. TransitionTimes(Problem, now, Cycle) =
        {x \in {f(k) : k \in {i}} :
           /\ x < TimeDefined(Problem, Cycle)
           /\ now < TimeDefined(Problem, Cycle)
           /\ Len(Cycle.ends) > 1}
  BY <1>1 DEF TransitionTimes
<1> QED
  BY <1>5, <1>6

\* The distance TimeCycleDataComputeNextTransition answers for one cycle.
LEMMA DistanceIs ==
  ASSUME NEW p, NEW time \in Int, NEW c
  PROVE  /\ TransitionTimes(p, time, c) = {} =>
              ComputeNextTransition(p, time, {c}) = -1
         /\ \A X \in Int :
              TransitionTimes(p, time, c) = {X} /\ X - time > TimeEpsilon =>
                ComputeNextTransition(p, time, {c}) = X - time
<1> DEFINE T == TransitionTimes(p, time, c)
           deltas == {x - time : x \in UNION {TransitionTimes(p, time, k) : k \in {c}}}
<1>1. deltas = {x - time : x \in T}
  OBVIOUS
<1>2. ComputeNextTransition(p, time, {c}) =
        IF \E d \in deltas : d > TimeEpsilon /\ \A e \in deltas : d <= e
        THEN CHOOSE d \in deltas : d > TimeEpsilon /\ \A e \in deltas : d <= e
        ELSE -1
  BY DEF ComputeNextTransition
<1> HIDE DEF deltas, T
<1>3. T = {} => deltas = {}
  BY <1>1
<1>4. ASSUME T = {} PROVE ComputeNextTransition(p, time, {c}) = -1
  BY <1>2, <1>3, <1>4
<1>5. ASSUME NEW X \in Int, T = {X}, X - time > TimeEpsilon
      PROVE  ComputeNextTransition(p, time, {c}) = X - time
  <2>1. deltas = {X - time}
    BY <1>1, <1>5
  <2>2. X - time <= X - time
    OBVIOUS
  <2>3. \E d \in deltas : d > TimeEpsilon /\ \A e \in deltas : d <= e
    BY <1>5, <2>1, <2>2
  <2>4. (CHOOSE d \in deltas : d > TimeEpsilon /\ \A e \in deltas : d <= e) = X - time
    BY <2>1, <2>3
  <2> QED
    BY <1>2, <2>3, <2>4
<1> QED
  BY <1>4, <1>5 DEF T

\* Before TimeDefined and away from a change, the unit that begins now lies in the
\* interval the code's loop stops at.
LEMMA BetweenChanges ==
  ASSUME ClockInv, CountedFromStart, ~AtChange, Len(Cycle.ends) > 1,
         now < TimeDefined(Problem, Cycle),
         NEW u \in Nat, now = Problem.start_time + u * BaseTimeUnit,
         NEW i \in DOMAIN Cycle.ends,
         Holds(Cycle, i, IntervalsCompleted(Problem, now, Cycle))
  PROVE  Holds(Cycle, i, u % CycleLength(Cycle))
<1> DEFINE E == Cycle.ends
           len == Len(E)
           L == CycleLength(Cycle)
           n == u \div L
           r == u % L
           done == IntervalsCompleted(Problem, now, Cycle)
<1>1. /\ IsCycle(Cycle) /\ L \in Nat \ {0} /\ BaseTimeUnit \in Nat \ {0}
      /\ Problem.start_time \in Nat /\ Cycle.repeat \in Int
  BY RunFacts
<1>2. /\ len \in Nat \ {0} /\ DOMAIN E = 1..len
      /\ \A j \in DOMAIN E : E[j] \in Nat \ {0} /\ E[j] <= L
      /\ \A j, k \in DOMAIN E : j < k => E[j] < E[k]
  BY <1>1, EndsAscend
<1>3. E[len] = L
  BY DEF CycleLength
<1>4. done = IF u = 0 THEN -(1 % L) ELSE (u - 1) % L
  BY CurrentInterval
<1>5. n \in Nat /\ r \in Nat /\ r < L /\ u = n * L + r
  BY <1>1, DivisionOf
<1>6. Cycle.repeat < 0 \/ u + 1 <= Cycle.repeat * L
  BY StillRepeated
<1>7. UnitOf(now) = u /\ WholeUnit
  BY TimeOfUnit DEF WholeUnit
<1>8. u > 0 => IntervalOfUnit(u) = IntervalOfUnit(u + 1)
  <2>1. u > 0 => now > Problem.start_time
    BY <1>1
  <2> QED
    BY <1>7, <2>1 DEF AtChange
<1>9. ASSUME NEW k \in 1..len, n * L + E[k] = u PROVE u = 0
  <2>1. k \in DOMAIN Cycle.ends
    BY <1>2, <1>9
  <2>2. \/ Cycle.repeat < 0
        \/ n * CycleLength(Cycle) + Cycle.ends[k] + 1
             <= Cycle.repeat * CycleLength(Cycle)
    BY <1>6, <1>9
  <2>3. n \in Nat
    BY <1>5
  <2> HIDE DEF n
  <2>4. IntervalOfUnit(n * CycleLength(Cycle) + Cycle.ends[k])
          # IntervalOfUnit(n * CycleLength(Cycle) + Cycle.ends[k] + 1)
    BY <2>1, <2>2, <2>3, ChangeAtEnd
  <2>5. IntervalOfUnit(u) # IntervalOfUnit(u + 1)
    BY <1>9, <2>4
  <2> QED
    BY <1>8, <2>5
<1> HIDE DEF E, len, L, n, r, done
<1>10. i \in 1..len /\ len > 1 /\ done < E[i] /\ \A j \in 1..(i - 1) : done >= E[j]
  BY <1>2 DEF Holds, E, len, done
<1>11. CASE u = 0
  <2>1. r = 0
    BY <1>1, <1>5, <1>11 DEF r
  <2>2. 1 \in 1..len /\ E[1] \in Nat \ {0}
    BY <1>2
  <2>3. done <= 0 /\ done \in Int
    BY <1>1, <1>4, <1>11
  <2>4. i = 1
    <3> SUFFICES ASSUME i # 1 PROVE FALSE
      OBVIOUS
    <3>1. 1 \in 1..(i - 1)
      BY <1>2, <1>10
    <3> QED
      BY <1>10, <2>2, <2>3, <3>1
  <2>5. Holds(Cycle, 1, 0)
    BY <1>2, <2>2 DEF Holds, E
  <2> QED
    BY <2>1, <2>4, <2>5 DEF r, L
<1>12. CASE u > 0 /\ r = 0
  \* The end of a cycle: the interval changes there.
  <2>1. n \in Nat \ {0}
    BY <1>1, <1>5, <1>12
  <2>2. n - 1 \in Nat /\ n * L = (n - 1) * L + L
    BY <1>1, <2>1
  <2>3. len \in 1..len /\ len \in DOMAIN Cycle.ends
    BY <1>2 DEF E
  <2>4. (n - 1) * L + E[len] = u
    <3>1. n * L \in Nat
      BY <1>1, <1>5
    <3> QED
      BY <1>3, <1>5, <1>12, <2>2, <3>1
  <2>5. \/ Cycle.repeat < 0
        \/ (n - 1) * CycleLength(Cycle) + Cycle.ends[len] + 1
             <= Cycle.repeat * CycleLength(Cycle)
    BY <1>6, <2>4 DEF E, L
  <2>6. IntervalOfUnit((n - 1) * CycleLength(Cycle) + Cycle.ends[len])
          # IntervalOfUnit((n - 1) * CycleLength(Cycle) + Cycle.ends[len] + 1)
    BY <2>2, <2>3, <2>5, ChangeAtEnd
  <2>7. IntervalOfUnit(u) # IntervalOfUnit(u + 1)
    BY <2>4, <2>6 DEF E, L
  <2> QED
    BY <1>8, <1>12, <2>7
<1>13. CASE u > 0 /\ r > 0
  <2>1. done = r - 1
    <3>1. r - 1 \in Nat /\ r - 1 < L
      BY <1>1, <1>5, <1>13
    <3>2. (n * L + (r - 1)) % L = r - 1
      BY <1>1, <1>5, <3>1, UnitOfCycle
    <3>3. u - 1 = n * L + (r - 1)
      <4>1. n * L \in Nat
        BY <1>1, <1>5
      <4> QED
        BY <1>5, <4>1
    <3> QED
      BY <1>4, <1>13, <3>2, <3>3
  <2>2. r # E[i]
    BY <1>5, <1>9, <1>10, <1>13
  <2>3. E[i] \in Nat
    BY <1>2, <1>10
  <2>4. r < E[i]
    <3>1. r \in Nat /\ r - 1 < E[i]
      BY <1>5, <1>10, <2>1
    <3> QED
      BY <2>2, <2>3, <3>1
  <2>5. ASSUME NEW j \in 1..(i - 1) PROVE r >= E[j]
    <3>1. j \in 1..len
      BY <1>2, <1>10
    <3>2. done >= E[j] /\ E[j] \in Nat
      BY <1>2, <1>10, <3>1
    <3> QED
      BY <1>5, <2>1, <3>2
  <2>6. Holds(Cycle, i, r)
    BY <2>4, <2>5 DEF Holds, E
  <2> QED
    BY <2>6 DEF r, L
<1> QED
  BY <1>5, <1>11, <1>12, <1>13

\* A future change lies some whole number of units ahead, and before TimeDefined.
LEMMA FutureChangeIs ==
  ASSUME ClockInv, NEW u \in Nat, now = Problem.start_time + u * BaseTimeUnit,
         NEW time \in FutureChanges
  PROVE  /\ time \in Int /\ time < TimeDefined(Problem, Cycle)
         /\ \E v \in Nat : /\ time = Problem.start_time + v * BaseTimeUnit /\ v > u
                           /\ IntervalOfUnit(v) # IntervalOfUnit(v + 1)
<1> DEFINE B == BaseTimeUnit
           start == Problem.start_time
           TD == TimeDefined(Problem, Cycle)
           a == time - start
           v == a \div B
<1>1. B \in Nat \ {0} /\ start \in Nat /\ now \in Nat /\ now >= start /\ u * B \in Nat
  BY RunFacts DEF ClockInv
<1>2. TD \in Int
  <2>1. CycleLength(Cycle) \in Nat /\ Cycle.repeat \in Int /\ Problem.stop_time \in Nat
    BY RunFacts
  <2> QED
    BY <1>1, <2>1 DEF TimeDefined
<1>3. /\ time \in (now + 1)..(TD - 1) /\ a % B = 0
      /\ IntervalOfUnit(UnitOf(time)) # IntervalOfUnit(UnitOf(time) + 1)
  BY DEF FutureChanges
<1> HIDE DEF B, start, TD, a
<1>4. time \in Int /\ time < TD /\ a \in Nat /\ time = start + a /\ a > u * B
  BY <1>1, <1>2, <1>3 DEF a, start, B
<1>5. v \in Nat /\ a = v * B
  <2>1. v \in Nat /\ a = v * B + (a % B)
    BY <1>1, <1>4, DivisionOf
  <2> HIDE DEF v
  <2>2. v * B \in Nat
    BY <1>1, <2>1
  <2> QED
    BY <1>3, <2>1, <2>2
<1> HIDE DEF v
<1>6. time = start + v * B
  BY <1>4, <1>5
<1>7. UnitOf(time) = v
  BY <1>5, <1>6, TimeOfUnit DEF start, B
<1>8. v > u
  <2>1. u >= v => u * B >= v * B
    BY <1>1, <1>5
  <2>2. v * B \in Nat
    BY <1>1, <1>5
  <2> QED
    BY <1>1, <1>4, <1>5, <2>1, <2>2
<1> QED
  BY <1>3, <1>4, <1>5, <1>6, <1>7, <1>8 DEF start, B, TD

\* From the start of the run, and from every whole unit at which the interval does
\* not change, TimeCycleDataComputeNextTransition answers the distance to the first
\* change before TimeDefined, or -1 if there is none; base units are longer than
\* TIME_EPSILON, and a cycle is endless or counted from time 0.
THEOREM TransitionsFollowTimeline ==
  ASSUME TimeEpsilon < BaseTimeUnit,
         \A r \in Runs : r[2].repeat < 0 \/ (r[2].repeat > 0 /\ r[1].start_time = 0)
  PROVE  Spec => []NextTransitionIsFirstChange
<1>1. ClockInv => NextTransitionIsFirstChange
  <2> DEFINE E == Cycle.ends
             L == CycleLength(Cycle)
             B == BaseTimeUnit
             start == Problem.start_time
             TD == TimeDefined(Problem, Cycle)
             d == ComputeNextTransition(Problem, now, {Cycle})
  <2>1. SUFFICES ASSUME ClockInv, WholeUnit, ~AtChange
                 PROVE  IF FutureChanges = {} THEN d = -1
                        ELSE /\ now + d \in FutureChanges
                             /\ \A time \in FutureChanges : now + d <= time
    BY DEF NextTransitionIsFirstChange
  <2>2. CountedFromStart
    BY <2>1 DEF ClockInv, Cycle, Problem, CountedFromStart
  <2>3. /\ IsCycle(Cycle) /\ L \in Nat \ {0} /\ B \in Nat \ {0} /\ start \in Nat
        /\ Cycle.repeat \in Int /\ TimeEpsilon \in Nat /\ now \in Nat
        /\ Problem.stop_time \in Nat
    BY <2>1, RunFacts DEF ClockInv
  <2>4. TD \in Int
    BY <2>3 DEF TimeDefined
  <2>5. /\ Len(E) \in Nat \ {0} /\ DOMAIN E = 1..Len(E)
        /\ \A j \in DOMAIN E : E[j] \in Nat \ {0} /\ E[j] <= L
    BY <2>3, EndsAscend
  <2>6. PICK u \in Nat : now = start + u * B
    BY <2>1, WholeUnitIs
  <2>7. PICK i \in DOMAIN E :
          /\ Holds(Cycle, i, IntervalsCompleted(Problem, now, Cycle))
          /\ CurrentIntervals(Problem, now, Cycle) = {i}
    BY <2>1, <2>6, CurrentInterval
  <2> DEFINE n == u \div L
             r == u % L
             e == E[i]
             x == n * L + e
             X == start + x * B
  <2>8. n \in Nat /\ r \in Nat /\ r < L /\ u = n * L + r
    BY <2>3, DivisionOf
  <2>9. TransitionTimes(Problem, now, Cycle) =
          {y \in {X} : y < TD /\ now < TD /\ Len(E) > 1}
    BY <2>1, <2>6, <2>7, <2>8, OneTransition
  <2>10. TransitionTimes(Problem, now, Cycle) = {} => d = -1
    BY <2>3, DistanceIs
  <2>11. CASE Len(E) = 1
    <3>1. d = -1
      BY <2>9, <2>10, <2>11
    <3>2. FutureChanges = {}
      <4> SUFFICES ASSUME NEW time \in FutureChanges PROVE FALSE
        OBVIOUS
      <4>1. PICK v \in Nat : v > u /\ IntervalOfUnit(v) # IntervalOfUnit(v + 1)
        BY <2>1, <2>6, FutureChangeIs
      <4>2. v \in Nat \ {0} /\ v + 1 \in Nat \ {0}
        BY <4>1
      <4> QED
        BY <2>1, <2>11, <4>1, <4>2, OneInterval
    <3> QED
      BY <3>1, <3>2
  <2>12. CASE Len(E) > 1 /\ ~(now < TD)
    <3>1. d = -1
      BY <2>9, <2>10, <2>12
    <3>2. FutureChanges = {}
      <4>1. (now + 1)..(TD - 1) = {}
        BY <2>3, <2>4, <2>12
      <4> QED
        BY <4>1 DEF FutureChanges
    <3> QED
      BY <3>1, <3>2
  <2>13. CASE Len(E) > 1 /\ now < TD
    <3>1. Holds(Cycle, i, r)
      BY <2>1, <2>2, <2>6, <2>7, <2>13, BetweenChanges
    <3>2. e \in Nat \ {0} /\ e <= L /\ i \in 1..Len(E)
      BY <2>5, <2>7
    <3>3. r < e /\ \A j \in 1..(i - 1) : r >= E[j]
      BY <3>1 DEF Holds
    <3> HIDE DEF n, r, e, L, B, start, TD
    <3>4. n * L \in Nat
      BY <2>3, <2>8
    <3>5. x \in Nat /\ u < x
      <4> DEFINE N == n * L
      <4>1. N \in Nat /\ u = N + r /\ x = N + e
        BY <2>8, <3>4
      <4> HIDE DEF N, x
      <4> QED
        BY <2>8, <3>2, <3>3, <4>1
    \* Between now and the end of the interval nothing changes.
    <3>6. ASSUME NEW v \in Nat, u < v, v < x, start + v * B < TD
          PROVE  IntervalOfUnit(v) = IntervalOfUnit(v + 1)
      <4> DEFINE w == v - n * L
      <4>1. /\ w \in Nat \ {0} /\ w < e /\ w < L /\ w > r
            /\ v = n * L + w
        BY <2>3, <2>8, <3>2, <3>3, <3>4, <3>6
      <4> HIDE DEF w
      <4>2. Cycle.repeat < 0 \/ v + 1 <= Cycle.repeat * CycleLength(Cycle)
        BY <2>1, <2>2, <3>6, StillRepeated DEF start, B, TD
      <4>3. Holds(Cycle, i, w) /\ Holds(Cycle, i, w - 1)
        <5>1. w < e /\ w - 1 < e /\ w - 1 >= r /\ w >= r
          BY <2>8, <3>2, <4>1
        <5>2. ASSUME NEW j \in 1..(i - 1) PROVE w >= E[j] /\ w - 1 >= E[j]
          <6>1. j \in 1..Len(E)
            BY <2>5, <3>2
          <6>2. E[j] \in Nat /\ r >= E[j] /\ r \in Nat
            BY <2>5, <2>8, <3>3, <6>1
          <6> QED
            BY <4>1, <5>1, <6>2
        <5> QED
          BY <2>7, <5>1, <5>2 DEF Holds, e
      <4>4. /\ IntervalOfUnit(n * CycleLength(Cycle) + w) = i - 1
            /\ IntervalOfUnit(n * CycleLength(Cycle) + w + 1) = i - 1
        BY <2>1, <2>8, <4>1, <4>2, <4>3, NoChangeInside DEF L
      <4> QED
        BY <4>1, <4>4 DEF L
    <3>7. ASSUME NEW time \in FutureChanges PROVE X <= time
      <4>1. time \in Int /\ time < TD
        BY <2>1, <2>6, FutureChangeIs DEF TD, start, B
      <4>2. PICK v \in Nat : /\ time = start + v * B /\ v > u
                             /\ IntervalOfUnit(v) # IntervalOfUnit(v + 1)
        BY <2>1, <2>6, FutureChangeIs DEF start, B
      <4>3. ~(v < x)
        BY <3>6, <4>1, <4>2
      <4> HIDE DEF x
      <4>4. v >= x => v * B >= x * B
        BY <2>3, <3>5
      <4>5. v * B \in Nat /\ x * B \in Nat
        BY <2>3, <3>5
      <4> QED
        BY <2>3, <3>5, <4>2, <4>3, <4>4, <4>5
    <3>8. CASE X < TD
      <4> HIDE DEF x
      <4>1. x * B \in Nat /\ u * B \in Nat /\ (x - u) * B = x * B - u * B
            /\ (x - u) * B >= B
        <5>1. x - u \in Nat \ {0}
          BY <3>5
        <5> QED
          BY <2>3, <3>5, <5>1
      <4>2. X \in Int /\ X - now > TimeEpsilon /\ X > now
        BY <2>3, <2>6, <4>1 DEF B
      <4>3. TransitionTimes(Problem, now, Cycle) = {X}
        BY <2>9, <2>13, <3>8
      <4>4. d = X - now
        BY <2>3, <4>2, <4>3, DistanceIs
      <4>5. now + d = X
        BY <2>3, <4>2, <4>4
      <4>6. X \in FutureChanges
        <5>1. UnitOf(X) = x /\ (X - start) % B = 0
          BY <2>1, <3>5, TimeOfUnit DEF start, B
        <5>2. Cycle.repeat < 0 \/ x + 1 <= Cycle.repeat * CycleLength(Cycle)
          BY <2>1, <2>2, <3>5, <3>8, StillRepeated DEF start, B, TD
        <5>3. IntervalOfUnit(x) # IntervalOfUnit(x + 1)
          BY <2>1, <2>7, <2>8, <2>13, <5>2, ChangeAtEnd DEF x, L, e
        <5>4. X \in (now + 1)..(TD - 1)
          BY <2>3, <2>4, <3>8, <4>2
        <5> QED
          BY <5>1, <5>3, <5>4 DEF FutureChanges, start, B, TD
      <4> HIDE DEF X, d
      <4> QED
        BY <3>7, <4>5, <4>6
    <3>9. CASE ~(X < TD)
      <4>1. d = -1
        BY <2>9, <2>10, <3>9
      <4>2. FutureChanges = {}
        <5> SUFFICES ASSUME NEW time \in FutureChanges PROVE FALSE
          OBVIOUS
        <5>1. time \in Int /\ time < TD
          BY <2>1, <2>6, FutureChangeIs DEF TD, start, B
        <5>2. X <= time
          BY <3>7
        <5>3. X \in Int
          <6>1. x * B \in Nat
            BY <2>3, <3>5
          <6> HIDE DEF x
          <6> QED
            BY <2>3, <6>1
        <5> HIDE DEF X
        <5> QED
          BY <2>4, <3>9, <5>1, <5>2, <5>3
      <4> QED
        BY <4>1, <4>2
    <3> QED
      BY <3>8, <3>9
  <2>14. Len(E) = 1 \/ Len(E) > 1
    <3>1. \A k \in Nat \ {0} : k = 1 \/ k > 1
      OBVIOUS
    <3> QED
      BY <2>5, <3>1
  <2> QED
    BY <2>11, <2>12, <2>13, <2>14
<1> QED
  BY <1>1, ClockInvariance, PTL
================================================================================
