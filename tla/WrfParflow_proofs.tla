--------------------------- MODULE WrfParflow_proofs ---------------------------
(***************************************************************************)
(* Proof that ParFlow keeps in step with WRF, for every input deck, every  *)
(* step of WRF and any number of calls.  The invariants of the stand-alone *)
(* program (RichardsTimeLoop_proofs) do not all hold here: after a call    *)
(* that has failed WRF goes on from its own time.                          *)
(***************************************************************************)
EXTENDS WrfParflow, RichardsTimeLoop_proofs

\* Time and state within a call.
CallClock ==
  /\ pc \in Attempts \cup {"end", "returned"} => Transient /\ t <= stop
  /\ pc \in {"finish", "end", "returned"} => pressure.time = t

\* Calls end a whole number of WRF's steps after the start.
CallGrid ==
  pc \notin {"setup", "ready"} =>
    \E k \in 0..MaxCalls : stop = problem.start_time + k * WrfDt

WrfInv == TypeOK /\ EndInv /\ CallClock /\ CallGrid

\* The control WRF's calls use is a proper one.
LEMMA WrfControlType == IsTimeStep(WrfControl)
BY WrfAssumption DEF WrfControl, IsTimeStep

\* A multiple of a number leaves no remainder.
LEMMA MultipleHasNoRemainder ==
  ASSUME NEW k \in Int, NEW b \in Nat \ {0}
  PROVE  (k * b) % b = 0
<1> DEFINE a == k * b
<1>1. a \in Int /\ a = k * b + 0
  OBVIOUS
<1> HIDE DEF a
<1>2. a \div b = k
  BY <1>1, QuotientIs
<1>3. a = (a \div b) * b + (a % b) /\ a % b \in Int
  BY <1>1
<1>4. a % b = a - k * b
  BY <1>1, <1>2, <1>3
<1> QED
  BY <1>1, <1>4 DEF a

\* No step ends beyond the stop time of the call, even one cut at a dump that is
\* overdue.
LEMMA TakeStepStop ==
  ASSUME TypeOK, NEW t0 \in Int, NEW d \in Int, TakeStep(t0, d)
  PROVE  t' <= stop
<1> DEFINE d3 == DumpDt(problem, t0, LsmDt(problem, t0, d))
<1>1. DumpTime(problem, dump_index) \in Int /\ stop \in Int /\ ct \in Int
  BY DumpTimeType DEF TypeOK
<1>2. LsmDt(problem, t0, d) \in Int
  BY <1>1 DEF LsmDt
<1>3. d3 \in Int
  BY <1>1, <1>2 DEF DumpDt
<1>4. t' = t0 + LastDt(t0, d3)
  BY DEF TakeStep
<1> HIDE DEF d3
<1> QED
  BY <1>1, <1>3, <1>4 DEF LastDt

\* WRF's time is an integer, and after the call to come a whole number of its
\* steps from the start.
LEMMA NextCall ==
  ASSUME TypeOK, CallGrid, wrfparflowadvance
  PROVE  /\ wrf_time \in Int
         /\ \E k \in 0..MaxCalls : stop' = problem.start_time + k * WrfDt
<1> DEFINE start == problem.start_time
<1>1. start \in Int /\ WrfDt \in Nat \ {0} /\ MaxCalls \in Nat
  BY ProblemsAssumption, WrfAssumption DEF TypeOK
<1>2. /\ pc \in {"ready", "returned"} /\ stop' = wrf_time + WrfDt
      /\ wrf_time < start + MaxCalls * WrfDt
  BY DEF wrfparflowadvance, Advance
<1>3. PICK k \in 0..MaxCalls : wrf_time = start + k * WrfDt
  <2>1. CASE pc = "ready"
    <3>1. wrf_time = start /\ start = start + 0 * WrfDt /\ 0 \in 0..MaxCalls
      BY <1>1, <2>1 DEF wrf_time
    <3> QED
      BY <3>1
  <2>2. CASE pc = "returned"
    <3>1. wrf_time = stop
      BY <2>2 DEF wrf_time
    <3> QED
      BY <2>2, <3>1 DEF CallGrid
  <2> QED
    BY <1>2, <2>1, <2>2
<1> HIDE DEF start
<1>4. k < MaxCalls
  <2> SUFFICES ASSUME k = MaxCalls PROVE FALSE
    BY <1>1
  <2>1. k * WrfDt \in Int
    BY <1>1
  <2> QED
    BY <1>1, <1>2, <1>3, <2>1
<1>5. (k + 1) * WrfDt = k * WrfDt + WrfDt /\ k * WrfDt \in Int
  BY <1>1
<1>6. stop' = start + (k + 1) * WrfDt /\ k + 1 \in 0..MaxCalls
  BY <1>1, <1>2, <1>3, <1>4, <1>5
<1>7. wrf_time \in Int
  BY <1>1, <1>3, <1>5
<1>8. \E j \in 0..MaxCalls : stop' = start + j * WrfDt
  BY <1>6
<1> QED
  BY <1>7, <1>8 DEF start

\* The types are kept by the calls WRF makes.
LEMMA WrfTypeStep == TypeOK /\ CallGrid /\ [WrfNext]_vars => TypeOK'
<1>1. SUFFICES ASSUME TypeOK, CallGrid, [WrfNext]_vars
               PROVE  TypeOK'
  OBVIOUS
<1>2. CASE wrfparflowinit \/ AdvanceStep \/ UNCHANGED vars
  BY <1>1, <1>2, TypeStep DEF wrfparflowinit, Next
<1>3. CASE wrfparflowadvance
  <2> DEFINE from == wrf_time
  <2>1. from \in Int /\ WrfDt \in Nat
    BY <1>1, <1>3, NextCall, WrfAssumption
  <2>2. Advance(from, from + WrfDt, WrfControl)
    BY <1>3 DEF wrfparflowadvance
  <2> HIDE DEF from
  <2>3. SelectTimeStep(problem, WrfControl, 0, from) \in Int
    BY <1>1, <2>1, WrfControlType, SelectTimeStepPositive DEF TypeOK
  <2>4. problem.clm_reuse \in Nat \ {0} /\ problem.start_count \in Int
    BY <1>1, ProblemsAssumption DEF TypeOK
  <2> QED
    BY <1>1, <2>1, <2>2, <2>3, <2>4, WrfControlType
    DEF Advance, TypeOK, Locations, state, counts, output
<1> QED
  BY <1>1, <1>2, <1>3 DEF WrfNext

\* The deck is that of the first call.
LEMMA WrfDeckFixed ==
  ASSUME [WrfNext]_vars
  PROVE  problem' = problem /\ (Transient' <=> Transient)
<1>1. CASE wrfparflowinit \/ AdvanceStep \/ UNCHANGED vars
  BY <1>1, DeckFixed DEF wrfparflowinit, Next
<1>2. CASE wrfparflowadvance
  BY <1>2 DEF wrfparflowadvance, Advance, Transient, Allocated
<1> QED
  BY <1>1, <1>2 DEF WrfNext

\* Whenever a call of wrfparflowadvance_ returns with its last solve converged,
\* below the iteration limit and with batch time left, ParFlow's time and state
\* are WRF's, whatever the calls before have come to.
THEOREM ParflowKeepsWrfTime == WrfSpec => []InStepWithWrf
<1> USE DEF deck, clock, flags, meteo, state, counts, output, Attempts
<1>1. Init => WrfInv
  <2> SUFFICES ASSUME Init PROVE WrfInv
    OBVIOUS
  <2>1. TypeOK
    BY TypeInit
  <2> QED
    BY <2>1 DEF Init, WrfInv, EndInv, CallClock, CallGrid
<1>2. WrfInv /\ [WrfNext]_vars => WrfInv'
  <2>1. SUFFICES ASSUME WrfInv, [WrfNext]_vars
                 PROVE  WrfInv'
    OBVIOUS
  <2>2. TypeOK /\ EndInv /\ CallClock /\ CallGrid
    BY <2>1 DEF WrfInv
  <2>3. TypeOK'
    BY <2>1, <2>2, WrfTypeStep
  <2>4. problem' = problem /\ (Transient' <=> Transient)
    BY <2>1, WrfDeckFixed
  <2>5. CASE UNCHANGED vars
    BY <2>2, <2>3, <2>4, <2>5
    DEF WrfInv, EndInv, EndReason, CallClock, CallGrid, vars
  <2>6. CASE wrfparflowinit
    BY <2>3, <2>6 DEF wrfparflowinit, Setup, WrfInv, EndInv, CallClock, CallGrid
  <2>7. CASE wrfparflowadvance
    <3>1. pc' = "step" /\ take_more_time_steps' = (problem.start_count >= 0)
      BY <2>7 DEF wrfparflowadvance, Advance
    <3>2. EndInv' /\ CallClock'
      BY <2>4, <3>1 DEF EndInv, CallClock, Transient, Allocated
    <3>3. CallGrid'
      <4>1. PICK k \in 0..MaxCalls : stop' = problem.start_time + k * WrfDt
        BY <2>2, <2>7, NextCall
      <4> QED
        BY <2>4, <4>1 DEF CallGrid
    <3> QED
      BY <2>3, <3>2, <3>3 DEF WrfInv
  <2>8. CASE AdvanceStep
    <3>1. EndInv'
      BY <2>2, <2>8, EndStep DEF CallClock
    <3>2. CallGrid'
      <4>1. pc \notin {"setup", "ready"} /\ stop' = stop
        BY <2>8 DEF AdvanceStep, BeginTimeStep, SelectStep, RetryStep, TakeStep,
           TimeIncrementTooSmall, CopyUnallocatedVector, SolveConverges, SolveFails,
           FinishStep, LogFullExit, ReturnFromAdvance
      <4> QED
        BY <2>2, <2>4, <4>1 DEF CallGrid
    <3>3. CallClock'
      <4>1. CASE SelectStep
        <5>1. SelectTimeStep(problem, control, dt, t) \in Int /\ t \in Int
          BY <2>2, SelectTimeStepPositive DEF TypeOK
        <5>2. t' <= stop
          BY <2>2, <4>1, <5>1, TakeStepStop DEF SelectStep
        <5>3. pc' = "solve" /\ Transient /\ stop' = stop
          BY <4>1 DEF SelectStep, TakeStep, Transient
        <5> QED
          BY <2>4, <5>2, <5>3 DEF CallClock
      <4>2. CASE RetryStep
        <5>1. t - dt \in Int /\ dt \div 2 \in Int
          BY <2>2 DEF TypeOK
        <5>2. t' <= stop
          BY <2>2, <4>2, <5>1, TakeStepStop DEF RetryStep
        <5>3. pc = "retry" /\ pc' = "solve" /\ stop' = stop
          BY <4>2 DEF RetryStep, TakeStep
        <5> QED
          BY <2>2, <2>4, <5>2, <5>3 DEF CallClock
      <4>3. CASE BeginTimeStep \/ TimeIncrementTooSmall \/ CopyUnallocatedVector
        BY <4>3 DEF BeginTimeStep, TimeIncrementTooSmall, CopyUnallocatedVector,
                    CallClock
      <4>4. CASE SolveConverges \/ SolveFails
        BY <2>2, <2>4, <4>4 DEF SolveConverges, SolveFails, CallClock
      <4>5. CASE (\E halt \in BOOLEAN : FinishStep(halt)) \/ LogFullExit
        BY <2>2, <2>4, <4>5 DEF FinishStep, LogFullExit, CallClock
      <4>6. CASE ReturnFromAdvance
        BY <2>2, <2>4, <4>6 DEF ReturnFromAdvance, CallClock
      <4> QED
        BY <2>8, <4>1, <4>2, <4>3, <4>4, <4>5, <4>6 DEF AdvanceStep
    <3> QED
      BY <2>3, <3>1, <3>2, <3>3 DEF WrfInv
  <2> QED
    BY <2>1, <2>5, <2>6, <2>7, <2>8 DEF WrfNext
<1>3. WrfInv => InStepWithWrf
  <2> SUFFICES ASSUME WrfInv, pc = "returned", pressure.ok,
                      iteration_number < problem.max_iterations,
                      ~problem.time_limit, problem.max_failures > 0
               PROVE  /\ t = wrf_time /\ pressure.time = wrf_time
                      /\ (t - problem.start_time) % WrfDt = 0
                      /\ t <= problem.start_time + MaxCalls * WrfDt
    BY DEF InStepWithWrf
  <2>1. iteration_number \in Int /\ problem.max_iterations \in Nat
        /\ problem.max_failures \in Nat /\ problem.start_time \in Int
        /\ WrfDt \in Nat \ {0} /\ MaxCalls \in Nat
    BY ProblemsAssumption, WrfAssumption DEF WrfInv, TypeOK
  <2>2. t = stop
    BY <2>1 DEF WrfInv, EndInv, EndReason
  <2>3. wrf_time = stop /\ pressure.time = t
    BY DEF WrfInv, CallClock, wrf_time
  <2>4. PICK k \in 0..MaxCalls : stop = problem.start_time + k * WrfDt
    BY DEF WrfInv, CallGrid
  <2>5. k * WrfDt \in Int /\ k * WrfDt <= MaxCalls * WrfDt
        /\ MaxCalls * WrfDt \in Int
    BY <2>1
  <2>6. t - problem.start_time = k * WrfDt
    BY <2>1, <2>2, <2>4, <2>5
  <2>7. (t - problem.start_time) % WrfDt = 0
    BY <2>1, <2>6, MultipleHasNoRemainder
  <2>8. t <= problem.start_time + MaxCalls * WrfDt
    BY <2>1, <2>2, <2>4, <2>5
  <2> QED
    BY <2>2, <2>3, <2>7, <2>8
<1> QED
  BY <1>1, <1>2, <1>3, PTL DEF WrfSpec
================================================================================
