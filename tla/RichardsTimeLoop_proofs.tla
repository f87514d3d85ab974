------------------------ MODULE RichardsTimeLoop_proofs ------------------------
(***************************************************************************)
(* Proofs about the time loop of the Richards solver, for every set of     *)
(* input decks that satisfies ProblemsAssumption.                          *)
(***************************************************************************)
EXTENDS RichardsTimeLoop, TLAPS

\* The last running total of interval lengths is positive.
LEMMA LastTotalPositive ==
  ASSUME NEW s \in Seq(Nat), s # << >>, s[1] > 0,
         \A i \in 1..(Len(s) - 1) : s[i] < s[i + 1]
  PROVE  s[Len(s)] \in Nat \ {0}
<1>1. CASE Len(s) = 1
  BY <1>1
<1>2. CASE Len(s) > 1
  <2>1. s[Len(s) - 1] \in Nat /\ s[Len(s)] \in Nat
    BY <1>2
  <2>2. s[Len(s) - 1] < s[(Len(s) - 1) + 1]
    BY <1>2
  <2> QED
    BY <2>1, <2>2
<1> QED
  BY <1>1, <1>2

\* The length of a cycle is a positive number of base units.
LEMMA CycleLengthType ==
  ASSUME NEW c, IsCycle(c)
  PROVE  CycleLength(c) \in Nat \ {0}
BY LastTotalPositive DEF IsCycle, CycleLength

\* A next transition is an integer number of ticks.
LEMMA NextTransitionType ==
  ASSUME NEW p \in Problems, NEW time \in Int, NEW cycles,
         \A c \in cycles : IsCycle(c)
  PROVE  ComputeNextTransition(p, time, cycles) \in Int
<1>1. \A c \in cycles : TransitionTimes(p, time, c) \subseteq Int
  <2>1. SUFFICES ASSUME NEW c \in cycles
                 PROVE  TransitionTimes(p, time, c) \subseteq Int
    OBVIOUS
  <2>2. p.start_time \in Int /\ BaseTimeUnit \in Nat \ {0}
    BY ProblemsAssumption, TimeCycleAssumption
  <2>3. CycleLength(c) \in Nat \ {0}
    BY CycleLengthType
  <2>4. DiscretizedTime(time) \in Int /\ DiscretizedTime(p.start_time) \in Int
    BY <2>2 DEF DiscretizedTime
  <2>5. (DiscretizedTime(time) - DiscretizedTime(p.start_time))
           \div CycleLength(c) \in Int
    BY <2>3, <2>4
  <2>6. \A i \in CurrentIntervals(p, time, c) : c.ends[i] \in Int
    BY DEF CurrentIntervals, IsCycle
  <2> QED
    BY <2>2, <2>3, <2>5, <2>6 DEF TransitionTimes
<1> QED
  BY <1>1 DEF ComputeNextTransition

\* SelectTimeStep returns a positive step.
LEMMA SelectTimeStepPositive ==
  ASSUME NEW p \in Problems, NEW c, IsTimeStep(c), NEW d \in Int, NEW time \in Int
  PROVE  SelectTimeStep(p, c, d, time) \in Nat \ {0}
<1>1. ControlDt(c, d) \in Nat \ {0}
  BY DEF ControlDt, IsTimeStep
<1>2. ComputeNextTransition(p, time, p.well_cycles) \in Int
  BY NextTransitionType, ProblemsAssumption
<1>3. ComputeNextTransition(p, time, p.bc_cycles) \in Int
  BY NextTransitionType, ProblemsAssumption
<1> QED
  BY <1>1, <1>2, <1>3 DEF SelectTimeStep
--------------------------------------------------------------------------------
\* What a run of AdvanceRichards keeps about time and state: who may step, that
\* t, dt and the two state vectors agree, and that t stays within the call.
Attempts == {"solve", "retry", "finish"}

ClockInv ==
  /\ pc \in Attempts \cup {"end", "returned", "done"} => Transient
  /\ pc = "crashed" => ~Transient
  /\ Transient /\ pc = "ready" =>
       pressure.ok /\ pressure.time = problem.start_time
  /\ ~Transient /\ pc = "ready" => ~pressure.ok
  /\ Transient /\ pc \in {"step", "select"} =>
       pressure.ok /\ pressure.time = t /\ t < stop
  /\ pc = "retry" => ~pressure.ok
  /\ pc \in Attempts =>
       dt > 0 /\ old_pressure.ok /\ old_pressure.time + dt = t /\ t <= stop
  /\ pc = "finish" =>
       /\ pressure.time = t /\ (take_more_time_steps => pressure.ok)
       /\ pressure.ok \/ conv_failures >= problem.max_failures
  /\ pc \in {"end", "returned", "done"} => pressure.time = t /\ t <= stop

\* The land surface model's time lies ahead of every step.
LsmInv ==
  Transient /\ problem.lsm =>
    /\ pc \in {"step", "select"} \cup Attempts => cdt > 0
    /\ pc = "select" => t < ct
    /\ pc \in {"step", "end", "returned"} \cup Attempts => t <= ct

\* The next dump lies ahead of every step; a step without a dump ends before it,
\* and one with a dump ends at it or at the stop time.
DumpInv ==
  Transient /\ problem.dump_interval > 0 =>
    /\ pc \in {"ready", "step", "select"} =>
         Published.time < DumpTime(problem, dump_index)
    /\ pc \in Attempts =>
         /\ t - dt < DumpTime(problem, dump_index)
         /\ t <= DumpTime(problem, dump_index) + TimeEpsilon
         /\ ~dump_files => t < DumpTime(problem, dump_index)
         /\ dump_files => \/ t = stop
                          \/ DumpTime(problem, dump_index) - TimeEpsilon <= t

\* The stand-alone program makes one call, from the start to the stop time.
CallInv ==
  /\ pc \in {"setup", "ready"} => dump_index = 1
  /\ pc \notin {"setup", "ready"} => stop = problem.stop_time

\* Nothing is summed before the run, and then SumsCoverRun.
SumsInv ==
  /\ pc = "setup" => trans_sum = 0 /\ reported = 0
  /\ SumsCoverRun

\* One log entry for the initial state and one for each step counted, and a
\* step is begun below the iteration limit or as the first one.
LogInv ==
  /\ Len(log) <= problem.max_iterations + 1
  /\ problem.logging /\ Transient
       /\ pc \in {"ready", "step", "select"} \cup Attempts =>
       /\ Len(log) = iteration_number - problem.start_count + 1
       /\ \/ iteration_number = problem.start_count
          \/ iteration_number < problem.max_iterations

IInv == /\ TypeOK /\ ClockInv /\ LsmInv /\ DumpInv /\ CallInv /\ SumsInv
        /\ DumpsOnIntervalOrAtStop
--------------------------------------------------------------------------------
\* Types of the times dumps are due at.
LEMMA DumpTimeType ==
  ASSUME NEW p \in Problems, NEW i \in Nat
  PROVE  DumpTime(p, i) \in Int /\ ClmDumpTime(p, i) \in Int
BY ProblemsAssumption DEF DumpTime, ClmDumpTime

\* What TakeStep makes of a step of length d from t0: a step forward by at most
\* d that ends at the stop time at the latest.
LEMMA TakeStepClock ==
  ASSUME TypeOK, NEW t0 \in Int, NEW d \in Nat \ {0}, TakeStep(t0, d),
         t0 < stop,
         problem.dump_interval > 0 => t0 < DumpTime(problem, dump_index)
  PROVE  /\ dt' \in Int /\ dt' > 0 /\ dt' <= d
         /\ t' \in Int /\ t' = t0 + dt' /\ t' - dt' = t0 /\ t' <= stop
<1> DEFINE D  == DumpTime(problem, dump_index)
           d2 == LsmDt(problem, t0, d)
           d3 == DumpDt(problem, t0, d2)
<1>1. D \in Int /\ TimeEpsilon \in Nat \ {0} /\ problem.dump_interval \in Int
  BY DumpTimeType, TimeCycleAssumption, ProblemsAssumption DEF TypeOK
<1>2. d2 \in Int /\ d2 > 0 /\ d2 <= d
  BY TimeCycleAssumption DEF TypeOK, TakeStep, LsmDt, LsmTooSmall
<1>3. d3 \in Int /\ d3 > 0 /\ d3 <= d2
  BY <1>1, <1>2 DEF DumpDt
<1>4. stop \in Int
  BY DEF TypeOK
<1>5. dt' = LastDt(t0, d3) /\ t' = t0 + LastDt(t0, d3)
  BY DEF TakeStep
<1>6. LastDt(t0, d3) \in Int /\ LastDt(t0, d3) > 0 /\ LastDt(t0, d3) <= d3
      /\ t0 + LastDt(t0, d3) <= stop
  BY <1>3, <1>4 DEF LastDt
<1>7. (t0 + LastDt(t0, d3)) - LastDt(t0, d3) = t0
  BY <1>6
<1>8. LastDt(t0, d3) <= d
  BY <1>2, <1>3, <1>6
<1>9. t' \in Int /\ t' <= stop
  BY <1>5, <1>6
<1> HIDE DEF d3
<1> QED
  BY <1>5, <1>6, <1>7, <1>8, <1>9

\* It does not pass the land surface model's time, if that lies ahead.
LEMMA TakeStepLsm ==
  ASSUME TypeOK, NEW t0 \in Int, NEW d \in Nat \ {0}, TakeStep(t0, d),
         t0 < stop,
         problem.dump_interval > 0 => t0 < DumpTime(problem, dump_index),
         problem.lsm
  PROVE  t' <= ct
<1> DEFINE D  == DumpTime(problem, dump_index)
           d2 == LsmDt(problem, t0, d)
           d3 == DumpDt(problem, t0, d2)
<1>1. D \in Int /\ TimeEpsilon \in Nat \ {0} /\ problem.dump_interval \in Int
      /\ ct \in Int /\ stop \in Int
  BY DumpTimeType, TimeCycleAssumption, ProblemsAssumption DEF TypeOK
<1>2. d2 \in Int /\ t0 + d2 <= ct
  BY <1>1 DEF LsmDt
<1>3. d3 \in Int /\ d3 <= d2
  BY <1>1, <1>2 DEF DumpDt
<1>4. t' = t0 + LastDt(t0, d3)
  BY DEF TakeStep
<1> QED
  BY <1>1, <1>2, <1>3, <1>4 DEF LastDt

\* It ends before the next dump is due, or raises the flag for that dump and ends
\* at most TIME_EPSILON later.
LEMMA TakeStepDump ==
  ASSUME TypeOK, NEW t0 \in Int, NEW d \in Nat \ {0}, TakeStep(t0, d),
         t0 < stop, problem.dump_interval > 0,
         t0 < DumpTime(problem, dump_index)
  PROVE  /\ t' <= DumpTime(problem, dump_index) + TimeEpsilon
         /\ ~dump_files' => t' < DumpTime(problem, dump_index)
         /\ dump_files' => \/ t' = stop
                           \/ DumpTime(problem, dump_index) - TimeEpsilon <= t'
<1> DEFINE D  == DumpTime(problem, dump_index)
           d2 == LsmDt(problem, t0, d)
           d3 == DumpDt(problem, t0, d2)
<1>1. D \in Int /\ TimeEpsilon \in Nat \ {0} /\ ct \in Int /\ stop \in Int
  BY DumpTimeType, TimeCycleAssumption, ProblemsAssumption DEF TypeOK
<1>2. d2 \in Int
  BY <1>1 DEF LsmDt
<1>3. d3 \in Int /\ t0 + d3 <= D + TimeEpsilon
      /\ (d2 + TimeEpsilon <= D - t0 => t0 + d3 < D)
  BY <1>1, <1>2 DEF DumpDt
<1>4. t' = t0 + LastDt(t0, d3)
  BY DEF TakeStep
<1>5. t' <= t0 + d3
  BY <1>1, <1>3, <1>4 DEF LastDt
<1>6. dump_files' <=> d2 + TimeEpsilon > D - t0
  <2>1. dump_files' = DumpFlag(problem, t0, d2)
    BY DEF TakeStep
  <2>2. problem.dump_interval \in Int
    BY ProblemsAssumption DEF TypeOK
  <2> QED
    BY <1>1, <1>2, <2>1, <2>2 DEF DumpFlag
<1>7. t' = stop \/ t' = t0 + d3
  BY <1>1, <1>3, <1>4 DEF LastDt
<1>8. d2 + TimeEpsilon > D - t0 => D - TimeEpsilon <= t0 + d3
  BY <1>1, <1>2 DEF DumpDt
<1>9. t' <= D + TimeEpsilon
  BY <1>1, <1>3, <1>5, <1>7
<1>10. d2 + TimeEpsilon <= D - t0 => t' < D
  BY <1>1, <1>3, <1>5, <1>7
<1>11. ~(d2 + TimeEpsilon > D - t0) => d2 + TimeEpsilon <= D - t0
  BY <1>1, <1>2
<1> HIDE DEF D, d2, d3
<1>12. d2 + TimeEpsilon > D - t0 => t' = stop \/ D - TimeEpsilon <= t'
  BY <1>7, <1>8
<1>13. /\ t' <= D + TimeEpsilon
       /\ ~dump_files' => t' < D
       /\ dump_files' => t' = stop \/ D - TimeEpsilon <= t'
  BY <1>6, <1>9, <1>10, <1>11, <1>12
<1> QED
  BY <1>13 DEF D

\* Types of what TakeStep assigns.
LEMMA TakeStepType ==
  ASSUME TypeOK, NEW t0 \in Int, NEW d \in Int, TakeStep(t0, d)
  PROVE  /\ dt' \in Int /\ t' \in Int
         /\ dump_files' \in BOOLEAN /\ clm_dump_files' \in BOOLEAN
<1>1. DumpTime(problem, dump_index) \in Int /\ stop \in Int /\ ct \in Int
  BY DumpTimeType DEF TypeOK
<1>2. LsmDt(problem, t0, d) \in Int
  BY <1>1 DEF LsmDt
<1>3. DumpDt(problem, t0, LsmDt(problem, t0, d)) \in Int
  BY <1>1, <1>2 DEF DumpDt
<1>4. LastDt(t0, DumpDt(problem, t0, LsmDt(problem, t0, d))) \in Int
  BY <1>1, <1>3 DEF LastDt
<1> QED
  BY <1>4 DEF TakeStep, DumpFlag, ClmDumpFlag
--------------------------------------------------------------------------------
\* The files a step writes have the type of files.
LEMMA NewFilesType ==
  ASSUME TypeOK
  PROVE  files \o NewFiles \in Seq(Files)
<1>1. File("dump", file_number, dump_index) \in Files
  BY DEF TypeOK, File, Files
<1>2. File("clm", file_number, clm_dump_index) \in Files
  BY DEF TypeOK, File, Files
<1>3. NewFiles \in Seq(Files)
  <2>1. (IF FilesDumped THEN <<File("dump", file_number, dump_index)>>
         ELSE << >>) \in Seq(Files)
    BY <1>1
  <2>2. (IF ClmFilesDumped THEN <<File("clm", file_number, clm_dump_index)>>
         ELSE << >>) \in Seq(Files)
    BY <1>2
  <2> QED
    BY <2>1, <2>2 DEF NewFiles
<1> QED
  BY <1>3 DEF TypeOK
--------------------------------------------------------------------------------
\* The types are kept by every step.
LEMMA TypeStep == TypeOK /\ [Next]_vars => TypeOK'
<1> USE DEF deck, clock, flags, meteo, state, counts, output
<1>1. SUFFICES ASSUME TypeOK, [Next]_vars
               PROVE  TypeOK'
  OBVIOUS
<1>2. CASE UNCHANGED vars
  BY <1>1, <1>2 DEF TypeOK, vars
<1>3. CASE Setup
  <2>1. problem.start_time \in Int /\ problem.start_count \in Int
    BY <1>1, ProblemsAssumption DEF TypeOK
  <2>2. pressure' \in [time : Int, ok : BOOLEAN]
    BY <1>3, <2>1 DEF Setup, None
  <2>3. log' \in Seq(LogEntries)
    <3>1. \A d \in Int :
            LogEntry(problem.start_count, problem.start_time, d) \in LogEntries
      BY <2>1 DEF LogEntry, LogEntries
    <3> QED
      BY <1>3, <2>1, <3>1 DEF Setup
  <2>4. files' \in Seq(Files)
    <3>1. [kind |-> "init", num |-> problem.start_count,
           time |-> problem.start_time, ok |-> TRUE, index |-> 0] \in Files
      BY <2>1 DEF Files
    <3> QED
      BY <1>3, <3>1 DEF Setup
  <2> QED
    BY <1>1, <1>3, <2>1, <2>2, <2>3, <2>4 DEF Setup, TypeOK, Locations
<1>4. CASE SolverRichardsAdvance
  <2>1. /\ problem.start_time \in Int /\ problem.stop_time \in Int
        /\ problem.clm_reuse \in Nat \ {0} /\ IsTimeStep(problem.time_step)
        /\ problem.start_count \in Int
    BY <1>1, ProblemsAssumption DEF TypeOK
  <2>2. SelectTimeStep(problem, problem.time_step, 0, problem.start_time) \in Int
    BY <1>1, <2>1, SelectTimeStepPositive DEF TypeOK
  <2> QED
    BY <1>1, <1>4, <2>1, <2>2
    DEF SolverRichardsAdvance, Advance, TypeOK, Locations
<1>5. CASE BeginTimeStep
  <2>1. problem.clm_reuse \in Nat \ {0}
    BY <1>1, ProblemsAssumption DEF TypeOK
  <2> QED
    BY <1>1, <1>5, <2>1 DEF BeginTimeStep, ReuseOver, TypeOK, Locations
<1>6. CASE SelectStep
  <2>1. SelectTimeStep(problem, control, dt, t) \in Int
    BY <1>1, SelectTimeStepPositive DEF TypeOK
  <2>2. /\ dt' \in Int /\ t' \in Int
        /\ dump_files' \in BOOLEAN /\ clm_dump_files' \in BOOLEAN
    BY <1>1, <1>6, <2>1, TakeStepType DEF SelectStep, TypeOK
  <2> QED
    BY <1>1, <1>6, <2>2 DEF SelectStep, TakeStep, TypeOK, Locations
<1>7. CASE RetryStep
  <2>1. t - dt \in Int /\ dt \div 2 \in Int
    BY <1>1 DEF TypeOK
  <2>2. /\ dt' \in Int /\ t' \in Int
        /\ dump_files' \in BOOLEAN /\ clm_dump_files' \in BOOLEAN
    BY <1>1, <1>7, <2>1, TakeStepType DEF RetryStep
  <2> QED
    BY <1>1, <1>7, <2>2 DEF RetryStep, TakeStep, TypeOK, Locations
<1>8. CASE TimeIncrementTooSmall \/ CopyUnallocatedVector \/ Teardown
  BY <1>1, <1>8 DEF TimeIncrementTooSmall, CopyUnallocatedVector, Teardown,
                    TypeOK, Locations
<1>9. CASE SolveConverges
  BY <1>1, <1>9 DEF SolveConverges, TypeOK, Locations
<1>10. CASE SolveFails
  BY <1>1, <1>10 DEF SolveFails, TypeOK, Locations
<1>11. ASSUME NEW halt \in BOOLEAN, FinishStep(halt)
       PROVE  TypeOK'
  <2>1. files' \in Seq(Files)
    BY <1>1, <1>11, NewFilesType DEF FinishStep
  <2>2. log' \in Seq(LogEntries)
    <3>1. LogEntry(iteration_number + 1, t, IF AnyFileDumped THEN file_number ELSE -1)
            \in LogEntries
      BY <1>1 DEF TypeOK, LogEntry, LogEntries
    <3> QED
      BY <1>1, <1>11, <3>1 DEF FinishStep, TypeOK
  <2>3. trans_sum' \in Int /\ reported' \in Int
    BY <1>1, <1>11 DEF FinishStep, AddToSums, TypeOK
  <2>4. take_more_time_steps' \in BOOLEAN
    BY <1>1, <1>11 DEF FinishStep, MoreTimeSteps, TypeOK
  <2> QED
    BY <1>1, <1>11, <2>1, <2>2, <2>3, <2>4 DEF FinishStep, TypeOK, Locations
<1>12. CASE LogFullExit
  <2>1. files' \in Seq(Files)
    BY <1>1, <1>12, NewFilesType DEF LogFullExit
  <2>2. trans_sum' \in Int /\ reported' \in Int
    BY <1>1, <1>12 DEF LogFullExit, AddToSums, TypeOK
  <2> QED
    BY <1>1, <1>12, <2>1, <2>2 DEF LogFullExit, TypeOK, Locations
<1>13. CASE ReturnFromAdvance
  <2>1. File("end", file_number, 0) \in Files
    BY <1>1 DEF TypeOK, File, Files
  <2>2. files' \in Seq(Files)
    BY <1>1, <1>13, <2>1 DEF ReturnFromAdvance, TypeOK
  <2>3. trans_sum' \in Int /\ reported' \in Int
    BY <1>1, <1>13 DEF ReturnFromAdvance, TypeOK
  <2> QED
    BY <1>1, <1>13, <2>2, <2>3 DEF ReturnFromAdvance, TypeOK, Locations
<1> QED
  BY <1>1, <1>2, <1>3, <1>4, <1>5, <1>6, <1>7, <1>8, <1>9, <1>10, <1>11, <1>12,
     <1>13 DEF Next, AdvanceStep

\* The types hold initially.
LEMMA TypeInit == Init => TypeOK
<1> SUFFICES ASSUME Init PROVE TypeOK
  OBVIOUS
<1>1. problem.clm_reuse \in Nat \ {0} /\ IsTimeStep(problem.time_step)
  BY ProblemsAssumption DEF Init
<1>2. IsTimeStep(control)
  BY <1>1 DEF Init
<1>3. log \in Seq(LogEntries) /\ files \in Seq(Files)
  BY DEF Init
<1>4. pressure \in [time : Int, ok : BOOLEAN]
      /\ old_pressure \in [time : Int, ok : BOOLEAN]
  BY DEF Init, None
<1>5. /\ t \in Int /\ dt \in Int /\ ct \in Int /\ cdt \in Int /\ stop \in Int
      /\ conv_failures \in Nat /\ istep \in Nat /\ forcing \in Nat
      /\ iteration_number \in Int /\ file_number \in Int
      /\ dump_index \in Nat /\ clm_dump_index \in Nat
      /\ trans_sum \in Int /\ reported \in Int
  BY DEF Init
<1>6. clm_next \in 1..problem.clm_reuse
  BY <1>1 DEF Init
<1>7. problem \in Problems /\ pc \in Locations
  BY DEF Init, Locations
<1>8. /\ take_more_time_steps \in BOOLEAN
      /\ dump_files \in BOOLEAN /\ clm_dump_files \in BOOLEAN
  BY DEF Init
<1> QED
  BY <1>2, <1>3, <1>4, <1>5, <1>6, <1>7, <1>8 DEF TypeOK

\* Type correctness of the time loop: every counter, time and flag of
\* AdvanceRichards stays in its range, for every input deck.
THEOREM TypeCorrect == Spec => []TypeOK
BY TypeInit, TypeStep, PTL DEF Spec
--------------------------------------------------------------------------------
\* The input deck does not change during a run.
LEMMA DeckFixed ==
  ASSUME [Next]_vars
  PROVE  problem' = problem /\ (Transient' <=> Transient)
<1>1. problem' = problem
  BY DEF vars, deck, Next, AdvanceStep, Setup, SolverRichardsAdvance, Advance,
         BeginTimeStep, SelectStep, RetryStep, TakeStep, TimeIncrementTooSmall,
         CopyUnallocatedVector, SolveConverges, SolveFails, FinishStep,
         LogFullExit, ReturnFromAdvance, Teardown
<1> QED
  BY <1>1 DEF Transient, Allocated

\* The two actions that call the nonlinear solver, first attempt and retry.
LEMMA AttemptFacts ==
  ASSUME IInv, SelectStep \/ RetryStep
  PROVE  /\ Transient /\ pc' = "solve"
         /\ UNCHANGED <<problem, stop, ct, cdt, dump_index>>
         /\ UNCHANGED <<trans_sum, reported, files>>
         /\ dt' > 0 /\ t' <= stop
         /\ old_pressure'.ok /\ old_pressure'.time + dt' = t'
         /\ problem.print_sums =>
              reported + trans_sum = old_pressure'.time - problem.start_time
         /\ problem.lsm => t' <= ct
         /\ problem.dump_interval > 0 =>
              /\ t' - dt' < DumpTime(problem, dump_index)
              /\ t' <= DumpTime(problem, dump_index) + TimeEpsilon
              /\ ~dump_files' => t' < DumpTime(problem, dump_index)
              /\ dump_files' => \/ t' = stop
                                \/ DumpTime(problem, dump_index) - TimeEpsilon <= t'
<1> USE DEF IInv
<1>1. PICK t0 \in Int, d \in Nat \ {0} :
        /\ TakeStep(t0, d) /\ Transient /\ t0 < stop
        /\ old_pressure'.ok /\ old_pressure'.time = t0
        /\ problem.dump_interval > 0 => t0 < DumpTime(problem, dump_index)
        /\ problem.print_sums =>
             reported + trans_sum = old_pressure'.time - problem.start_time
  <2>1. CASE SelectStep
    <3>1. SelectTimeStep(problem, control, dt, t) \in Nat \ {0} /\ t \in Int
      BY SelectTimeStepPositive DEF TypeOK
    <3>2. Transient /\ pc = "select" /\ old_pressure' = pressure
      BY <2>1 DEF SelectStep, Transient
    <3>3. t < stop /\ pressure.ok /\ pressure.time = t
      BY <3>2 DEF ClockInv
    <3>4. Published = pressure
      BY <3>2 DEF Published
    <3>8. pressure.time - problem.start_time \in Int
      BY ProblemsAssumption DEF TypeOK
    <3>5. problem.dump_interval > 0 => t < DumpTime(problem, dump_index)
      BY <3>2, <3>3, <3>4 DEF DumpInv
    <3>6. problem.print_sums =>
            reported + trans_sum = pressure.time - problem.start_time
      BY <3>2, <3>3, <3>8 DEF SumsInv, SumsCoverRun, Converged, KeptFailure
    <3>7. TakeStep(t, SelectTimeStep(problem, control, dt, t))
      BY <2>1 DEF SelectStep
    <3> QED
      BY <3>1, <3>2, <3>3, <3>5, <3>6, <3>7
  <2>2. CASE RetryStep
    <3>1. pc = "retry" /\ old_pressure' = old_pressure /\ dt \div 2 > TimeEpsilon
      BY <2>2 DEF RetryStep
    <3>2. Transient /\ dt > 0 /\ old_pressure.ok /\ t <= stop
          /\ old_pressure.time + dt = t
      BY <3>1 DEF ClockInv, Attempts
    <3>3. t \in Int /\ dt \in Int /\ stop \in Int /\ TimeEpsilon \in Nat \ {0}
          /\ old_pressure.time \in Int
      BY TimeCycleAssumption DEF TypeOK
    <3>4. t - dt \in Int /\ dt \div 2 \in Nat \ {0} /\ t - dt < stop
          /\ old_pressure.time = t - dt
      BY <3>1, <3>2, <3>3
    <3>5. problem.dump_interval > 0 => t - dt < DumpTime(problem, dump_index)
      BY <3>1, <3>2 DEF DumpInv, Attempts
    <3>6. problem.print_sums =>
            reported + trans_sum = old_pressure.time - problem.start_time
      <4>1. old_pressure.time - problem.start_time \in Int
        BY ProblemsAssumption DEF TypeOK
      <4> QED
        BY <3>1, <3>2, <4>1 DEF SumsInv, SumsCoverRun, Converged, KeptFailure
    <3>7. TakeStep(t - dt, dt \div 2)
      BY <2>2 DEF RetryStep
    <3> QED
      BY <3>1, <3>2, <3>4, <3>5, <3>6, <3>7
  <2> QED
    BY <2>1, <2>2
<1>2. /\ dt' > 0 /\ t' = t0 + dt' /\ t' - dt' = t0 /\ t' <= stop
  BY <1>1, TakeStepClock
<1>3. problem.lsm => t' <= ct
  BY <1>1, TakeStepLsm
<1>4. problem.dump_interval > 0 =>
         /\ t' <= DumpTime(problem, dump_index) + TimeEpsilon
         /\ ~dump_files' => t' < DumpTime(problem, dump_index)
         /\ dump_files' => \/ t' = stop
                           \/ DumpTime(problem, dump_index) - TimeEpsilon <= t'
  BY <1>1, TakeStepDump
<1>5. /\ pc' = "solve" /\ UNCHANGED <<problem, stop, ct, cdt, dump_index>>
      /\ UNCHANGED <<trans_sum, reported, files>>
  BY <1>1 DEF TakeStep, deck, counts, output
<1> QED
  BY <1>1, <1>2, <1>3, <1>4, <1>5
--------------------------------------------------------------------------------
\* Time, step and state vectors stay in agreement.
LEMMA ClockStep == IInv /\ [Next]_vars => ClockInv'
<1> USE DEF deck, clock, flags, state, Attempts
<1>1. SUFFICES ASSUME IInv, [Next]_vars
               PROVE  ClockInv'
  OBVIOUS
<1>2. TypeOK /\ ClockInv
  BY <1>1 DEF IInv
<1>3. problem' = problem /\ (Transient' <=> Transient)
  BY <1>1, DeckFixed
<1>4. CASE UNCHANGED vars
  BY <1>2, <1>3, <1>4 DEF ClockInv, vars
<1>5. CASE Setup
  <2>1. Transient <=> Allocated(problem)
    BY DEF Transient
  <2> QED
    BY <1>2, <1>3, <1>5, <2>1 DEF Setup, ClockInv, None
<1>6. CASE SolverRichardsAdvance
  <2>1. Transient => problem.start_time < problem.stop_time
    BY DEF Transient, Allocated
  <2> QED
    BY <1>2, <1>3, <1>6, <2>1 DEF SolverRichardsAdvance, Advance, ClockInv
<1>7. CASE BeginTimeStep
  BY <1>2, <1>3, <1>7 DEF BeginTimeStep, ClockInv
<1>8. CASE SelectStep \/ RetryStep
  BY <1>1, <1>3, <1>8, AttemptFacts DEF ClockInv
<1>9. CASE TimeIncrementTooSmall
  BY <1>2, <1>3, <1>9 DEF TimeIncrementTooSmall, ClockInv
<1>10. CASE CopyUnallocatedVector
  BY <1>2, <1>3, <1>10 DEF CopyUnallocatedVector, ClockInv, Transient
<1>11. CASE SolveConverges
  BY <1>2, <1>3, <1>11 DEF SolveConverges, ClockInv
<1>12. CASE SolveFails
  <2>1. conv_failures \in Nat /\ problem.max_failures \in Nat
    BY <1>2, ProblemsAssumption DEF TypeOK
  <2>2. pc' = "finish" => conv_failures' >= problem'.max_failures
    BY <1>3, <1>12, <2>1 DEF SolveFails
  <2> QED
    BY <1>2, <1>3, <1>12, <2>2 DEF SolveFails, ClockInv
<1>13. ASSUME NEW halt \in BOOLEAN, FinishStep(halt)
       PROVE  ClockInv'
  <2>1. MoreTimeSteps(halt) => t < stop /\ pressure.ok
    BY <1>2, <1>13 DEF FinishStep, MoreTimeSteps, ClockInv
  <2> QED
    BY <1>2, <1>3, <1>13, <2>1 DEF FinishStep, ClockInv
<1>14. CASE LogFullExit
  BY <1>2, <1>3, <1>14 DEF LogFullExit, ClockInv
<1>15. CASE ReturnFromAdvance \/ Teardown
  BY <1>2, <1>3, <1>15 DEF ReturnFromAdvance, Teardown, ClockInv
<1> QED
  BY <1>1, <1>4, <1>5, <1>6, <1>7, <1>8, <1>9, <1>10, <1>11, <1>12, <1>13,
     <1>14, <1>15 DEF Next, AdvanceStep

\* The land surface model is never overtaken.
LEMMA LsmStep == IInv /\ [Next]_vars => LsmInv'
<1> USE DEF deck, clock, flags, state, Attempts
<1>1. SUFFICES ASSUME IInv, [Next]_vars
               PROVE  LsmInv'
  OBVIOUS
<1>2. TypeOK /\ LsmInv
  BY <1>1 DEF IInv
<1>3. problem' = problem /\ (Transient' <=> Transient)
  BY <1>1, DeckFixed
<1>4. CASE UNCHANGED vars
  BY <1>2, <1>3, <1>4 DEF LsmInv, vars
<1>5. CASE Setup
  BY <1>2, <1>3, <1>5 DEF Setup, LsmInv
<1>6. CASE SolverRichardsAdvance
  <2>1. problem.start_time \in Int /\ IsTimeStep(problem.time_step)
    BY <1>2, ProblemsAssumption DEF TypeOK
  <2>2. SelectTimeStep(problem, problem.time_step, 0, problem.start_time) \in Nat \ {0}
    BY <1>2, <2>1, SelectTimeStepPositive DEF TypeOK
  <2> QED
    BY <1>2, <1>3, <1>6, <2>1, <2>2 DEF SolverRichardsAdvance, Advance, LsmInv
<1>7. CASE BeginTimeStep
  BY <1>2, <1>3, <1>7 DEF BeginTimeStep, LsmInv, TypeOK
<1>8. CASE SelectStep \/ RetryStep
  <2>1. pc \in {"select"} \cup Attempts
    BY <1>8 DEF SelectStep, RetryStep
  <2> QED
    BY <1>1, <1>2, <1>3, <1>8, <2>1, AttemptFacts DEF LsmInv
<1>9. CASE TimeIncrementTooSmall \/ CopyUnallocatedVector
  BY <1>2, <1>3, <1>9 DEF TimeIncrementTooSmall, CopyUnallocatedVector, LsmInv
<1>10. CASE SolveConverges \/ SolveFails
  BY <1>2, <1>3, <1>10 DEF SolveConverges, SolveFails, LsmInv
<1>11. ASSUME NEW halt \in BOOLEAN, FinishStep(halt)
       PROVE  LsmInv'
  BY <1>2, <1>3, <1>11 DEF FinishStep, LsmInv
<1>12. CASE LogFullExit \/ ReturnFromAdvance \/ Teardown
  BY <1>2, <1>3, <1>12 DEF LogFullExit, ReturnFromAdvance, Teardown, LsmInv
<1> QED
  BY <1>1, <1>4, <1>5, <1>6, <1>7, <1>8, <1>9, <1>10, <1>11, <1>12
  DEF Next, AdvanceStep
\* Dumps are due one interval apart, an interval being longer than TIME_EPSILON.
LEMMA DumpTimeNext ==
  ASSUME NEW p \in Problems, NEW i \in Nat
  PROVE  /\ DumpTime(p, i) \in Int /\ DumpTime(p, i + 1) \in Int
         /\ DumpTime(p, i + 1) = DumpTime(p, i) + p.dump_interval
<1>1. p.start_time \in Int /\ p.dump_interval \in Int
  BY ProblemsAssumption
<1>2. (i + 1) * p.dump_interval = i * p.dump_interval + p.dump_interval
  BY <1>1
<1>3. i * p.dump_interval \in Int
  BY <1>1
<1> QED
  BY <1>1, <1>2, <1>3 DEF DumpTime

\* The next dump stays ahead.
LEMMA DumpStep == IInv /\ [Next]_vars => DumpInv'
<1> USE DEF deck, clock, flags, state, counts, Attempts
<1>1. SUFFICES ASSUME IInv, [Next]_vars,
                      Transient, problem.dump_interval > 0
               PROVE  DumpInv'
  BY DeckFixed DEF DumpInv
<1>2. TypeOK /\ ClockInv /\ DumpInv
  BY <1>1 DEF IInv
<1>3. problem' = problem /\ (Transient' <=> Transient)
  BY <1>1, DeckFixed
<1> DEFINE D == DumpTime(problem, dump_index)
<1>4. dump_index' = dump_index => DumpTime(problem, dump_index)' = D
  BY <1>3 DEF DumpTime
<1> HIDE DEF D
<1>5. CASE UNCHANGED vars
  BY <1>2, <1>3, <1>5 DEF DumpInv, vars, Published, DumpTime
<1>6. CASE Setup
  <2>1. dump_index = 1 /\ dump_index' = 1
    BY <1>1, <1>6 DEF Setup, IInv, CallInv
  <2>2. problem \in Problems /\ problem.start_time \in Int
        /\ problem.dump_interval \in Int
    BY <1>2, ProblemsAssumption DEF TypeOK
  <2>3. DumpTime(problem, dump_index)' = problem.start_time + problem.dump_interval
    BY <1>3, <2>1, <2>2 DEF DumpTime
  <2>4. Published'.time = problem.start_time
    BY <1>1, <1>6 DEF Setup, Published, Transient
  <2>5. Published'.time < DumpTime(problem, dump_index)'
    BY <1>1, <2>2, <2>3, <2>4
  <2> QED
    BY <1>6, <2>5 DEF Setup, DumpInv
<1>7. CASE SolverRichardsAdvance \/ BeginTimeStep
  <2>1. pc \in {"ready", "step"} /\ pc' \in {"step", "select"}
        /\ UNCHANGED <<pressure, dump_index>>
    BY <1>7 DEF SolverRichardsAdvance, Advance, BeginTimeStep
  <2>2. Published' = Published
    BY <2>1 DEF Published
  <2> QED
    BY <1>1, <1>2, <1>3, <1>4, <2>1, <2>2 DEF DumpInv, D
<1>8. CASE SelectStep \/ RetryStep
  <2>1. /\ pc' = "solve" /\ dump_index' = dump_index
        /\ t' - dt' < D /\ t' <= D + TimeEpsilon
        /\ ~dump_files' => t' < D
        /\ dump_files' => t' = stop' \/ D - TimeEpsilon <= t'
    BY <1>1, <1>8, AttemptFacts DEF D
  <2> QED
    BY <1>4, <2>1 DEF DumpInv
<1>9. CASE TimeIncrementTooSmall \/ CopyUnallocatedVector
  BY <1>9 DEF TimeIncrementTooSmall, CopyUnallocatedVector, DumpInv
<1>10. CASE SolveConverges \/ SolveFails
  <2>1. UNCHANGED <<dump_index, t, dt, dump_files, stop>> /\ pc = "solve"
        /\ pc' \in {"retry", "finish"}
    BY <1>10 DEF SolveConverges, SolveFails
  <2> QED
    BY <1>1, <1>2, <1>4, <2>1 DEF DumpInv, D
<1>11. ASSUME NEW halt \in BOOLEAN, FinishStep(halt)
       PROVE  DumpInv'
  <2>1. pc = "finish" /\ pc' \in {"step", "end"} /\ pressure' = pressure
    BY <1>11 DEF FinishStep
  <2>2. Published'.time = t /\ t \in Int
    BY <1>2, <2>1 DEF Published, ClockInv, TypeOK
  <2>3. t < DumpTime(problem, dump_index)'
    <3>1. CASE ~dump_files
      <4>1. dump_index' = dump_index
        BY <1>2, <1>11, <3>1 DEF FinishStep, TypeOK
      <4> QED
        BY <1>1, <1>2, <1>4, <2>1, <3>1, <4>1 DEF DumpInv, D
    <3>2. CASE dump_files
      <4>1. dump_index' = dump_index + 1 /\ dump_index \in Nat /\ problem \in Problems
        BY <1>2, <1>11, <3>2 DEF FinishStep, TypeOK
      <4>2. DumpTime(problem, dump_index)' = D + problem.dump_interval /\ D \in Int
        BY <1>3, <4>1, DumpTimeNext DEF D, DumpTime
      <4>3. t <= D + TimeEpsilon
        BY <1>1, <1>2, <2>1 DEF DumpInv, D
      <4>4. problem.dump_interval \in Int /\ TimeEpsilon \in Int
            /\ problem.dump_interval > TimeEpsilon
        BY <1>1, <4>1, ProblemsAssumption, TimeCycleAssumption
      <4> QED
        BY <2>2, <4>2, <4>3, <4>4
    <3> QED
      BY <3>1, <3>2
  <2> QED
    BY <2>1, <2>2, <2>3 DEF DumpInv
<1>12. CASE LogFullExit \/ ReturnFromAdvance \/ Teardown
  BY <1>12 DEF LogFullExit, ReturnFromAdvance, Teardown, DumpInv
<1> QED
  BY <1>1, <1>5, <1>6, <1>7, <1>8, <1>9, <1>10, <1>11, <1>12 DEF Next, AdvanceStep

\* One call, for the whole run.
LEMMA CallStep == IInv /\ [Next]_vars => CallInv'
<1>1. SUFFICES ASSUME CallInv, problem' = problem, [Next]_vars
               PROVE  CallInv'
  BY DeckFixed DEF IInv
<1> QED
  BY <1>1 DEF CallInv, vars, deck, counts, Next, AdvanceStep, Setup,
     SolverRichardsAdvance, Advance, BeginTimeStep, SelectStep, RetryStep, TakeStep,
     TimeIncrementTooSmall, CopyUnallocatedVector, SolveConverges, SolveFails,
     FinishStep, LogFullExit, ReturnFromAdvance, Teardown
\* The sums keep covering the time computed.
LEMMA SumsStep == IInv /\ [Next]_vars => SumsInv'
<1> USE DEF deck, clock, flags, state, counts, output, Attempts
<1>1. SUFFICES ASSUME IInv, [Next]_vars
               PROVE  SumsInv'
  OBVIOUS
<1>2. TypeOK /\ ClockInv /\ SumsInv
  BY <1>1 DEF IInv
<1>3. problem' = problem /\ (Transient' <=> Transient)
  BY <1>1, DeckFixed
<1>4. trans_sum \in Int /\ reported \in Int /\ dt \in Int /\ t \in Int
      /\ problem.start_time \in Int /\ pressure.time \in Int
      /\ old_pressure.time \in Int
  BY <1>2, ProblemsAssumption DEF TypeOK
<1>5. CASE UNCHANGED vars
  BY <1>2, <1>3, <1>5 DEF SumsInv, SumsCoverRun, Converged, KeptFailure, vars
<1>6. CASE Setup
  <2>1. trans_sum' = 0 /\ reported' = 0 /\ pc' = "ready"
    BY <1>2, <1>6 DEF Setup, SumsInv
  <2>2. Transient => pressure' = [time |-> problem.start_time, ok |-> TRUE]
    BY <1>6 DEF Setup, Transient
  <2> QED
    BY <1>3, <1>4, <2>1, <2>2 DEF SumsInv, SumsCoverRun, Converged, KeptFailure
<1>7. CASE SolverRichardsAdvance \/ BeginTimeStep
  <2>1. /\ pc \in {"ready", "step"} /\ pc' \in {"step", "select"}
        /\ UNCHANGED <<pressure, old_pressure, trans_sum, reported>>
    BY <1>7 DEF SolverRichardsAdvance, Advance, BeginTimeStep
  <2> QED
    BY <1>2, <1>3, <2>1 DEF SumsInv, SumsCoverRun, Converged, KeptFailure
<1>8. CASE SelectStep \/ RetryStep
  <2>1. /\ pc' = "solve" /\ UNCHANGED <<trans_sum, reported>> /\ old_pressure'.ok
        /\ problem.print_sums =>
             reported + trans_sum = old_pressure'.time - problem.start_time
    BY <1>1, <1>8, AttemptFacts
  <2>2. trans_sum + reported \in Int
    BY <1>4
  <2> QED
    BY <1>3, <1>4, <2>1, <2>2 DEF SumsInv, SumsCoverRun, Converged, KeptFailure
<1>9. CASE TimeIncrementTooSmall \/ LogFullExit
  BY <1>9 DEF TimeIncrementTooSmall, LogFullExit, SumsInv, SumsCoverRun
<1>10. CASE CopyUnallocatedVector \/ Teardown
  <2>1. /\ UNCHANGED <<pressure, old_pressure, trans_sum, reported, dt, conv_failures>>
        /\ \/ pc = "select" /\ pc' = "crashed" /\ ~Transient
           \/ pc = "returned" /\ pc' = "done"
    <3>1. CASE CopyUnallocatedVector
      BY <3>1 DEF CopyUnallocatedVector, Transient
    <3>2. CASE Teardown
      BY <3>2 DEF Teardown
    <3> QED
      BY <1>10, <3>1, <3>2
  <2> QED
    BY <1>2, <1>3, <2>1 DEF SumsInv, SumsCoverRun, Converged, KeptFailure
<1>11. CASE SolveConverges \/ SolveFails
  <2>1. pc = "solve" /\ pc' \in {"retry", "finish"}
        /\ UNCHANGED <<old_pressure, trans_sum, reported>>
    BY <1>11 DEF SolveConverges, SolveFails
  <2> QED
    BY <1>2, <1>3, <2>1 DEF SumsInv, SumsCoverRun, Converged, KeptFailure
<1>12. ASSUME NEW halt \in BOOLEAN, FinishStep(halt)
       PROVE  SumsInv'
  <2>1. /\ pc = "finish" /\ pc' \in {"step", "end"} /\ (pc' = "step" => take_more_time_steps)
        /\ UNCHANGED <<pressure, old_pressure, t, dt, conv_failures>>
    BY <1>12 DEF FinishStep, MoreTimeSteps
  <2>2. /\ old_pressure.time + dt = t /\ old_pressure.ok /\ pressure.time = t
        /\ take_more_time_steps => pressure.ok
        /\ pressure.ok \/ conv_failures >= problem.max_failures
    BY <1>2, <2>1 DEF ClockInv
  <2>3. problem.print_sums => reported' + trans_sum' = reported + trans_sum + dt
    BY <1>4, <1>12 DEF FinishStep, AddToSums
  <2>4. problem.print_sums /\ Transient =>
          reported + trans_sum = old_pressure.time - problem.start_time
    BY <1>2, <1>4, <2>1, <2>2 DEF SumsInv, SumsCoverRun, Converged, KeptFailure
  <2>5. problem.print_sums /\ Transient =>
          /\ reported' + trans_sum' = t - problem.start_time
          /\ reported' + trans_sum' = old_pressure.time - problem.start_time + dt
    BY <1>4, <2>2, <2>3, <2>4
  <2>6. CASE pressure.ok
    <3>1. Converged' = pressure /\ KeptFailure' = 0
      BY <2>1, <2>6 DEF Converged, KeptFailure
    <3> QED
      BY <1>3, <1>4, <2>1, <2>2, <2>5, <2>6, <3>1 DEF SumsInv, SumsCoverRun
  <2>7. CASE ~pressure.ok
    <3>1. pc' = "end" /\ Converged' = old_pressure /\ KeptFailure' = dt
      BY <2>1, <2>2, <2>7 DEF Converged, KeptFailure
    <3> QED
      BY <1>3, <2>1, <2>2, <2>5, <2>7, <3>1 DEF SumsInv, SumsCoverRun
  <2> QED
    BY <2>6, <2>7
<1>13. CASE ReturnFromAdvance
  <2>1. /\ pc = "end" /\ pc' = "returned"
        /\ UNCHANGED <<pressure, old_pressure, dt, conv_failures>>
    BY <1>13 DEF ReturnFromAdvance
  <2>2. reported' + trans_sum' = reported + trans_sum
    BY <1>4, <1>13 DEF ReturnFromAdvance
  <2>3. Converged' = Converged /\ KeptFailure' = KeptFailure
    BY <2>1 DEF Converged, KeptFailure
  <2> QED
    BY <1>2, <1>3, <2>1, <2>2, <2>3 DEF SumsInv, SumsCoverRun
<1> QED
  BY <1>1, <1>5, <1>6, <1>7, <1>8, <1>9, <1>10, <1>11, <1>12, <1>13
  DEF Next, AdvanceStep

\* What a step adds to the output.
LEMMA NewFilesElements ==
  ASSUME TypeOK, NEW i \in DOMAIN (files \o NewFiles)
  PROVE  LET f == (files \o NewFiles)[i]
         IN  \/ i \in DOMAIN files /\ f = files[i]
             \/ dump_files /\ f = File("dump", file_number, dump_index)
             \/ f = File("clm", file_number, clm_dump_index)
<1> DEFINE A == IF FilesDumped THEN <<File("dump", file_number, dump_index)>>
                ELSE << >>
           B == IF ClmFilesDumped THEN <<File("clm", file_number, clm_dump_index)>>
                ELSE << >>
<1>1. File("dump", file_number, dump_index) \in Files
      /\ File("clm", file_number, clm_dump_index) \in Files
  BY DEF TypeOK, File, Files
<1>2. A \in Seq(Files) /\ B \in Seq(Files) /\ files \in Seq(Files)
  BY <1>1 DEF TypeOK
<1>3. \A j \in 1..Len(A) : dump_files /\ A[j] = File("dump", file_number, dump_index)
  BY <1>1 DEF FilesDumped
<1>4. \A j \in 1..Len(B) : B[j] = File("clm", file_number, clm_dump_index)
  BY <1>1
<1>5. NewFiles = A \o B
  BY DEF NewFiles
<1> HIDE DEF A, B
<1>6. CASE i \in 1..Len(files)
  BY <1>2, <1>5, <1>6
<1>7. CASE i \notin 1..Len(files)
  <2> DEFINE j == i - Len(files)
  <2>1. NewFiles \in Seq(Files) /\ Len(files) \in Nat
    BY <1>2, <1>5
  <2>2. i \in 1..(Len(files) + Len(NewFiles))
    BY <1>2, <2>1
  <2>3. j \in 1..Len(NewFiles) /\ (files \o NewFiles)[i] = NewFiles[j]
    BY <1>2, <1>7, <2>1, <2>2
  <2>4. Len(A) \in Nat /\ Len(B) \in Nat /\ Len(NewFiles) = Len(A) + Len(B)
    BY <1>2, <1>5
  <2>5. CASE j \in 1..Len(A)
    <3>1. NewFiles[j] = A[j]
      BY <1>2, <1>5, <2>5
    <3> QED
      BY <1>3, <2>3, <2>5, <3>1
  <2>6. CASE j \notin 1..Len(A)
    <3>1. j - Len(A) \in 1..Len(B) /\ NewFiles[j] = B[j - Len(A)]
      BY <1>2, <1>5, <2>3, <2>4, <2>6
    <3> QED
      BY <1>4, <2>3, <3>1
  <2> QED
    BY <2>5, <2>6
<1> QED
  BY <1>6, <1>7
\* Dumps stay on the interval or at the stop time.
LEMMA DumpsStep == IInv /\ [Next]_vars => DumpsOnIntervalOrAtStop'
<1> USE DEF deck, clock, counts, output
<1>1. SUFFICES ASSUME IInv, [Next]_vars, problem.dump_interval > 0,
                      NEW i \in DOMAIN files', files'[i].kind = "dump"
               PROVE  LET late == files'[i].time - DumpTime(problem, files'[i].index)
                      IN  \/ -TimeEpsilon <= late /\ late <= TimeEpsilon
                          \/ files'[i].time = problem.stop_time
  BY DeckFixed DEF DumpsOnIntervalOrAtStop, DumpTime
<1>2. TypeOK /\ DumpsOnIntervalOrAtStop
  BY <1>1 DEF IInv
<1>3. CASE i \in DOMAIN files /\ files'[i] = files[i]
  BY <1>1, <1>2, <1>3 DEF DumpsOnIntervalOrAtStop
<1>4. CASE UNCHANGED files
  BY <1>1, <1>3, <1>4
<1>5. CASE Setup
  BY <1>1, <1>5 DEF Setup
<1>6. CASE pc = "finish" /\ files' = files \o NewFiles
  <2>1. CASE dump_files /\ files'[i] = File("dump", file_number, dump_index)
    <3> DEFINE D == DumpTime(problem, dump_index)
    <3>1. files'[i].time = t /\ files'[i].index = dump_index
      BY <2>1 DEF File
    <3>2. Transient /\ stop = problem.stop_time
      BY <1>1, <1>6 DEF IInv, ClockInv, CallInv, Attempts
    <3>3. t <= D + TimeEpsilon /\ (t = stop \/ D - TimeEpsilon <= t)
      BY <1>1, <1>6, <2>1, <3>2 DEF IInv, DumpInv, Attempts
    <3>4. D \in Int /\ t \in Int /\ TimeEpsilon \in Int
      BY <1>2, DumpTimeType, TimeCycleAssumption DEF TypeOK
    <3> HIDE DEF D
    <3>5. \/ -TimeEpsilon <= t - D /\ t - D <= TimeEpsilon
          \/ t = problem.stop_time
      BY <3>2, <3>3, <3>4
    <3> QED
      BY <3>1, <3>5 DEF D
  <2>2. files'[i] # File("clm", file_number, clm_dump_index)
    BY <1>1 DEF File
  <2>3. \/ i \in DOMAIN files /\ files'[i] = files[i]
        \/ dump_files /\ files'[i] = File("dump", file_number, dump_index)
    BY <1>1, <1>2, <1>6, <2>2, NewFilesElements
  <2> QED
    BY <1>3, <2>1, <2>3
<1>7. CASE ReturnFromAdvance
  <2>1. CASE files' = Append(files, File("end", file_number, 0))
    <3>1. File("end", file_number, 0) \in Files /\ files \in Seq(Files)
      BY <1>2 DEF TypeOK, File, Files
    <3>2. CASE i = Len(files) + 1
      <4>1. files'[i] = File("end", file_number, 0)
        BY <2>1, <3>1, <3>2
      <4> QED
        BY <1>1, <4>1 DEF File
    <3>3. CASE i # Len(files) + 1
      <4>1. i \in DOMAIN files /\ files'[i] = files[i]
        BY <1>1, <2>1, <3>1, <3>3
      <4> QED
        BY <1>3, <4>1
    <3> QED
      BY <3>2, <3>3
  <2> QED
    BY <1>4, <1>7, <2>1 DEF ReturnFromAdvance
<1>8. \/ UNCHANGED files \/ Setup \/ ReturnFromAdvance
      \/ pc = "finish" /\ files' = files \o NewFiles
  BY <1>1 DEF vars, Next, AdvanceStep, SolverRichardsAdvance, Advance,
     BeginTimeStep, SelectStep, RetryStep, TakeStep, TimeIncrementTooSmall,
     CopyUnallocatedVector, SolveConverges, SolveFails, FinishStep, LogFullExit,
     Teardown
<1> QED
  BY <1>4, <1>5, <1>6, <1>7, <1>8

\* IInv is an invariant of the program.
LEMMA Invariance == Spec => []IInv
<1>1. Init => IInv
  <2> SUFFICES ASSUME Init PROVE IInv
    OBVIOUS
  <2>1. TypeOK
    BY TypeInit
  <2>2. ClockInv /\ LsmInv /\ DumpInv /\ CallInv
    BY DEF Init, ClockInv, LsmInv, DumpInv, CallInv, Attempts
  <2>3. SumsInv /\ DumpsOnIntervalOrAtStop
    BY DEF Init, SumsInv, SumsCoverRun, DumpsOnIntervalOrAtStop
  <2> QED
    BY <2>1, <2>2, <2>3 DEF IInv
<1>2. IInv /\ [Next]_vars => IInv'
  BY TypeStep, ClockStep, LsmStep, DumpStep, CallStep, SumsStep, DumpsStep DEF IInv
<1> QED
  BY <1>1, <1>2, PTL DEF Spec
--------------------------------------------------------------------------------
\* No step is computed beyond the stop time, whatever cuts and retries it had.
THEOREM StopTimeRespected == Spec => []NeverPastStop
<1>1. IInv => NeverPastStop
  BY DEF IInv, TypeOK, ClockInv, NeverPastStop, Running, Attempts
<1> QED
  BY <1>1, Invariance, PTL

\* Every solve goes forward by dt from a converged state, and no step begins
\* from the result of a failed solve.
THEOREM StepsFromConvergedStates ==
  Spec => [](SolveFromConvergedState /\ UnconvergedStateIsLast)
<1>1. IInv => SolveFromConvergedState /\ UnconvergedStateIsLast
  BY DEF IInv, ClockInv, SolveFromConvergedState, UnconvergedStateIsLast, Attempts
<1> QED
  BY <1>1, Invariance, PTL

\* In particular a state that did not converge is the last of a stand-alone run:
\* AdvanceRichards begins no further step from it.
THEOREM UnconvergedEndsTheRun == Spec => []UnconvergedStateIsLast
<1> QED
  BY StepsFromConvergedStates, PTL

\* The pace of the land surface model is kept.
THEOREM LandSurfacePace == Spec => []LsmNotOverstepped
<1>1. IInv => LsmNotOverstepped
  BY DEF IInv, TypeOK, LsmInv, LsmNotOverstepped, Running, Attempts
<1> QED
  BY <1>1, Invariance, PTL

\* The dump schedule is kept: no dump is passed over, and each is written at its
\* time or at the end of the run.
THEOREM DumpSchedule == Spec => [](NoDumpMissed /\ DumpsOnIntervalOrAtStop)
<1>1. IInv => NoDumpMissed
  <2> SUFFICES ASSUME IInv, Transient, problem.dump_interval > 0,
                      pc \in {"step", "select"}
               PROVE  t < DumpTime(problem, dump_index)
    BY DEF NoDumpMissed
  <2>1. Published = pressure
    BY DEF Published
  <2>2. pressure.time = t
    BY DEF IInv, ClockInv
  <2> QED
    BY <2>1, <2>2 DEF IInv, DumpInv
<1>2. IInv => DumpsOnIntervalOrAtStop
  BY DEF IInv
<1> QED
  BY <1>1, <1>2, Invariance, PTL

\* In particular every file written as a dump belongs to a dump time, within
\* TIME_EPSILON, or to the stop time.
THEOREM DumpsBelongToTheSchedule == Spec => []DumpsOnIntervalOrAtStop
<1> QED
  BY DumpSchedule, PTL

\* The water balance sums account for the whole run: each converged step once, no
\* attempt that was retried, and the failed attempt that max_failures ended the run
\* with, if there was one.
THEOREM WaterBalanceCoversRun == Spec => []SumsCoverRun
<1>1. IInv => SumsCoverRun
  BY DEF IInv, SumsInv
<1> QED
  BY <1>1, Invariance, PTL
\* A failed attempt is repeated from the time it started at, with a shorter step.
THEOREM RetriesAreShorter == Spec => RetriesShrink
<1>1. IInv /\ [Next]_vars =>
        [pc = "retry" /\ pc' = "solve" => t' - dt' = t - dt /\ dt' < dt]_vars
  <2> SUFFICES ASSUME IInv, Next, pc = "retry", pc' = "solve"
               PROVE  t' - dt' = t - dt /\ dt' < dt
    BY DEF vars
  <2>1. RetryStep
    BY DEF Next, AdvanceStep, Setup, SolverRichardsAdvance, BeginTimeStep,
           SelectStep, TimeIncrementTooSmall, CopyUnallocatedVector, SolveConverges,
           SolveFails, FinishStep, LogFullExit, ReturnFromAdvance, Teardown
  <2>2. TypeOK /\ t \in Int /\ dt \in Int /\ stop \in Int
    BY DEF IInv, TypeOK
  <2>3. Transient /\ dt > 0 /\ t <= stop
    BY DEF IInv, ClockInv, Attempts
  <2>4. problem.dump_interval > 0 => t - dt < DumpTime(problem, dump_index)
    BY <2>3 DEF IInv, DumpInv, Attempts
  <2>5. TakeStep(t - dt, dt \div 2) /\ dt \div 2 > TimeEpsilon
    BY <2>1 DEF RetryStep
  <2>6. t - dt \in Int /\ dt \div 2 \in Nat \ {0} /\ t - dt < stop /\ dt \div 2 < dt
    BY <2>2, <2>3, <2>5, TimeCycleAssumption
  <2>7. t' - dt' = t - dt /\ dt' \in Int /\ dt' <= dt \div 2
    BY <2>2, <2>4, <2>5, <2>6, TakeStepClock
  <2> QED
    BY <2>2, <2>6, <2>7
<1> QED
  BY <1>1, Invariance, PTL DEF Spec, RetriesShrink

\* Unless MaxIter is 0, the stand-alone program stays inside its log arrays even
\* though the test before an entry is one entry too late.
THEOREM LogStaysInArray ==
  ASSUME \A p \in Problems : p.max_iterations > 0
  PROVE  Spec => []LogWithinArray
<1> USE DEF deck, counts, output, Attempts
<1>1. Init => LogInv
  <2> SUFFICES ASSUME Init PROVE LogInv
    OBVIOUS
  <2>1. problem.max_iterations \in Nat
    BY ProblemsAssumption DEF Init
  <2>2. Len(log) = 0
    BY DEF Init
  <2>3. pc = "setup"
    BY DEF Init
  <2> QED
    BY <2>1, <2>2, <2>3 DEF LogInv
<1>2. IInv /\ LogInv /\ [Next]_vars => LogInv'
  <2>1. SUFFICES ASSUME IInv, LogInv, [Next]_vars
                 PROVE  LogInv'
    OBVIOUS
  <2>2. problem' = problem /\ (Transient' <=> Transient)
    BY <2>1, DeckFixed
  <2>3. /\ problem \in Problems /\ log \in Seq(LogEntries) /\ Len(log) \in Nat
        /\ iteration_number \in Int
        /\ problem.start_count \in Int /\ problem.max_iterations \in Nat \ {0}
    BY <2>1, ProblemsAssumption DEF IInv, TypeOK
  <2>4. CASE Setup
    <3>1. iteration_number' = problem.start_count /\ pc' = "ready"
      BY <2>4 DEF Setup
    <3>2. Transient /\ problem.logging => Len(log') = 1
      BY <2>4 DEF Setup, Transient
    <3>3. ~(Transient /\ problem.logging) => Len(log') = 0
      BY <2>4 DEF Setup, Transient
    <3>4. Len(log') <= problem.max_iterations + 1
      <4>1. 0 <= problem.max_iterations + 1 /\ 1 <= problem.max_iterations + 1
        BY <2>3
      <4> QED
        BY <3>2, <3>3, <4>1, Zenon
    <3>5. problem.start_count - problem.start_count + 1 = 1
      BY <2>3
    <3> QED
      BY <2>2, <3>1, <3>2, <3>4, <3>5 DEF LogInv
  <2>5. ASSUME NEW halt \in BOOLEAN, FinishStep(halt)
        PROVE  LogInv'
    <3>1. pc = "finish" /\ iteration_number' = iteration_number + 1
          /\ pc' \in {"step", "end"}
          /\ (pc' = "step" => iteration_number + 1 < problem.max_iterations)
      BY <2>5 DEF FinishStep, MoreTimeSteps
    <3>2. Transient /\ problem.start_count >= 0
      BY <2>1, <3>1 DEF IInv, ClockInv, Transient, Allocated
    <3>3. CASE problem.logging
      <4>1. Len(log') = Len(log) + 1
        BY <2>3, <2>5, <3>3 DEF FinishStep
      <4>2. /\ Len(log) = iteration_number - problem.start_count + 1
            /\ \/ iteration_number = problem.start_count
               \/ iteration_number < problem.max_iterations
        BY <2>1, <3>1, <3>2, <3>3 DEF LogInv
      <4> QED
        BY <2>2, <2>3, <3>1, <3>2, <4>1, <4>2 DEF LogInv
    <3>4. CASE ~problem.logging
      BY <2>1, <2>2, <2>5, <3>4 DEF FinishStep, LogInv
    <3> QED
      BY <3>3, <3>4
  <2>6. CASE UNCHANGED vars
    BY <2>1, <2>2, <2>6 DEF LogInv, vars
  <2>7. CASE SolverRichardsAdvance \/ BeginTimeStep
    BY <2>1, <2>2, <2>7 DEF SolverRichardsAdvance, Advance, BeginTimeStep, LogInv
  <2>8. CASE SelectStep \/ RetryStep
    BY <2>1, <2>2, <2>8 DEF SelectStep, RetryStep, TakeStep, LogInv
  <2>9. CASE SolveConverges \/ SolveFails
    BY <2>1, <2>2, <2>9 DEF SolveConverges, SolveFails, LogInv
  <2>10. CASE \/ TimeIncrementTooSmall \/ CopyUnallocatedVector \/ LogFullExit
              \/ ReturnFromAdvance \/ Teardown
    BY <2>1, <2>2, <2>10 DEF TimeIncrementTooSmall, CopyUnallocatedVector,
       LogFullExit, ReturnFromAdvance, Teardown, LogInv
  <2> QED
    BY <2>1, <2>4, <2>5, <2>6, <2>7, <2>8, <2>9, <2>10 DEF Next, AdvanceStep
<1>3. LogInv => LogWithinArray
  BY DEF LogInv, LogWithinArray
<1> QED
  BY <1>1, <1>2, <1>3, Invariance, PTL DEF Spec
--------------------------------------------------------------------------------
\* Why a call ends: as long as it goes on, no solve has failed for good, and a
\* step is finished with the flag down only after the last failure allowed.
EndReason ==
  \/ t = stop
  \/ iteration_number >= problem.max_iterations
  \/ ~pressure.ok
  \/ problem.time_limit
  \/ problem.max_failures = 0

EndInv ==
  /\ Transient /\ pc \in {"step", "select", "solve", "retry"} => take_more_time_steps
  /\ pc = "select" => conv_failures = 0
  /\ pc = "solve" => conv_failures = 0 \/ conv_failures < problem.max_failures
  /\ pc = "retry" => conv_failures < problem.max_failures
  /\ pc = "finish" =>
       take_more_time_steps \/ ~pressure.ok \/ problem.max_failures = 0
  /\ pc \in {"end", "returned", "done"} => EndReason

\* The turns the land surface model has had: istep - 1 records used up, each
\* clm_reuse times, and the uses of the present one.
Turns == (istep - 1) * problem.clm_reuse + (clm_next - 1)

\* ct is as many of its steps from the start, and the record loaded is the one of
\* the last turn.
ForcingInv ==
  Transient /\ pc \in {"step", "select"} \cup Attempts =>
    /\ cdt > 0 /\ istep >= 1
    /\ ct = problem.start_time + Turns * cdt
    /\ Turns = 0 => pc = "step" /\ t = ct
    /\ Turns > 0 => forcing = IF clm_next = 1 THEN istep - 1 ELSE istep

\* The parts of FilesAndLogAgree: the order of the numbers, and the numbers and
\* the log entries of the files that are counted.
FilesInOrder ==
  \A i, j \in DOMAIN files :
    i < j => \/ files[i].num < files[j].num
             \/ files[i].num = files[j].num /\ files[i].time = files[j].time

Numbered == {i \in DOMAIN files : files[i].kind # "end"}

FilesLogged ==
  /\ {files[i].num : i \in Numbered} = problem.start_count..(file_number - 1)
  /\ problem.logging =>
       \A i \in Numbered :
         \E k \in DOMAIN log : /\ log[k].dumped = files[i].num
                               /\ log[k].time = files[i].time

\* The parts of FilesAndLogAgree, and until the call returns every file has a
\* number below file_number.
FilesInv ==
  /\ pc = "setup" => files = << >>
  /\ pc \notin {"returned", "done", "exit"} =>
       \A i \in DOMAIN files : files[i].num < file_number
  /\ pc # "setup" => problem.start_count <= file_number
  /\ FilesInOrder
  /\ pc \notin {"setup", "exit"} => FilesLogged

\* A step of AdvanceRichards keeps EndInv, whoever has called it.
LEMMA EndStep ==
  ASSUME TypeOK, EndInv, AdvanceStep,
         pc \in Attempts => Transient, pc = "finish" => t <= stop
  PROVE  EndInv'
<1> USE DEF deck, clock, flags, state, counts, Attempts
<1>1. problem' = problem /\ (Transient' <=> Transient)
  BY DeckFixed DEF Next
<1>2. /\ problem.max_failures \in Nat /\ problem.max_iterations \in Nat
      /\ problem.start_count \in Int
  BY ProblemsAssumption DEF TypeOK
<1>3. CASE BeginTimeStep
  BY <1>1, <1>3 DEF BeginTimeStep, EndInv
<1>4. CASE SelectStep \/ RetryStep
  <2>1. Transient /\ pc \in {"select", "retry"} /\ pc' = "solve"
        /\ UNCHANGED <<conv_failures, take_more_time_steps>>
    BY <1>4 DEF SelectStep, RetryStep, TakeStep, Transient
  <2> QED
    BY <1>1, <2>1 DEF EndInv
<1>5. CASE TimeIncrementTooSmall \/ CopyUnallocatedVector
  BY <1>5 DEF TimeIncrementTooSmall, CopyUnallocatedVector, EndInv
<1>6. CASE SolveConverges
  <2>1. pc = "solve" /\ Transient /\ pc' = "finish"
    BY <1>6 DEF SolveConverges
  <2>2. take_more_time_steps /\ conv_failures \in Nat
        /\ (conv_failures = 0 \/ conv_failures < problem.max_failures)
    BY <2>1 DEF EndInv, TypeOK
  <2>3. conv_failures < problem.max_failures \/ problem.max_failures = 0
    BY <1>2, <2>2
  <2> QED
    BY <1>1, <1>6, <2>1, <2>2, <2>3 DEF SolveConverges, EndInv
<1>7. CASE SolveFails
  <2>1. pc = "solve" /\ Transient
    BY <1>7 DEF SolveFails
  <2>2. take_more_time_steps /\ ~pressure'.ok
    BY <1>7, <2>1 DEF SolveFails, EndInv
  <2> QED
    BY <1>1, <1>7, <2>2 DEF SolveFails, EndInv
<1>8. ASSUME NEW halt \in BOOLEAN, FinishStep(halt)
      PROVE  EndInv'
  <2>1. /\ pc = "finish"
        /\ IF MoreTimeSteps(halt) THEN pc' = "step" /\ take_more_time_steps'
                                  ELSE pc' = "end"
        /\ halt => problem.time_limit
        /\ iteration_number' = iteration_number + 1
        /\ UNCHANGED <<t, stop, pressure>>
    BY <1>8 DEF FinishStep
  <2>2. /\ take_more_time_steps \/ ~pressure.ok \/ problem.max_failures = 0
        /\ t <= stop
    BY <2>1 DEF EndInv
  <2>3. t \in Int /\ stop \in Int /\ iteration_number \in Int
    BY DEF TypeOK
  <2>4. ~MoreTimeSteps(halt) => EndReason'
    <3>1. ~(t < stop) => t = stop
      BY <2>2, <2>3
    <3>2. ~(iteration_number + 1 < problem.max_iterations) =>
            iteration_number + 1 >= problem.max_iterations
      BY <1>2, <2>3
    <3> QED
      BY <1>1, <2>1, <2>2, <3>1, <3>2 DEF MoreTimeSteps, EndReason
  <2> QED
    BY <2>1, <2>4 DEF EndInv
<1>9. CASE LogFullExit
  BY <1>9 DEF LogFullExit, EndInv
<1>10. CASE ReturnFromAdvance
  BY <1>1, <1>10 DEF ReturnFromAdvance, EndInv, EndReason
<1> QED
  BY <1>3, <1>4, <1>5, <1>6, <1>7, <1>8, <1>9, <1>10 DEF AdvanceStep

\* A call that has come to its end has reached the stop time or the iteration
\* limit, or its last solve has failed, or the batch job is out of time.
THEOREM EveryEndHasAReason == Spec => []EndsForAReason
<1> USE DEF deck, clock, flags, state, counts, Attempts
<1>1. Init => EndInv
  BY DEF Init, EndInv
<1>2. IInv /\ EndInv /\ [Next]_vars => EndInv'
  <2>1. SUFFICES ASSUME IInv, EndInv, [Next]_vars
                 PROVE  EndInv'
    OBVIOUS
  <2>2. problem' = problem /\ (Transient' <=> Transient)
    BY <2>1, DeckFixed
  <2>3. CASE UNCHANGED vars
    BY <2>1, <2>2, <2>3 DEF EndInv, EndReason, vars
  <2>4. CASE Setup
    BY <2>4 DEF Setup, EndInv
  <2>5. CASE SolverRichardsAdvance
    BY <2>2, <2>5 DEF SolverRichardsAdvance, Advance, EndInv, Transient, Allocated
  <2>6. CASE AdvanceStep
    BY <2>1, <2>6, EndStep DEF IInv, ClockInv
  <2>7. CASE Teardown
    BY <2>1, <2>2, <2>7 DEF Teardown, EndInv, EndReason
  <2> QED
    BY <2>1, <2>3, <2>4, <2>5, <2>6, <2>7 DEF Next
<1>3. EndInv => EndsForAReason
  BY DEF EndInv, EndReason, EndsForAReason
<1> QED
  BY <1>1, <1>2, <1>3, Invariance, PTL DEF Spec

\* A quotient is the only number whose multiple leaves a remainder in range.
LEMMA QuotientIs ==
  ASSUME NEW a \in Int, NEW b \in Nat \ {0}, NEW q \in Int, NEW r \in Nat,
         a = q * b + r, r < b
  PROVE  a \div b = q
<1> DEFINE k == a \div b
           m == a % b
<1>1. k \in Int /\ m \in Int /\ 0 <= m /\ m < b /\ a = k * b + m
  OBVIOUS
<1> HIDE DEF k, m
<1>2. CASE k >= q + 1
  <2>1. k * b >= (q + 1) * b
    BY <1>1, <1>2
  <2>2. (q + 1) * b = q * b + b /\ q * b \in Int /\ k * b \in Int
    BY <1>1
  <2> HIDE DEF k, m
  <2> QED
    BY <1>1, <2>1, <2>2
<1>3. CASE q >= k + 1
  <2>1. q * b >= (k + 1) * b
    BY <1>1, <1>3
  <2>2. (k + 1) * b = k * b + b /\ q * b \in Int /\ k * b \in Int
    BY <1>1
  <2> QED
    BY <1>1, <2>1, <2>2
<1>4. k = q
  BY <1>1, <1>2, <1>3
<1> QED
  BY <1>4 DEF k

\* At its n-th turn the land surface model finds the record 1 + (n - 1) / clm_reuse
\* of the meteorological forcing loaded, and ct is n of its steps from the start.
THEOREM ForcingKeepsStep == Spec => []ForcingInStep
<1> USE DEF deck, clock, flags, meteo, state, counts, Attempts
<1>1. Init => ForcingInv
  BY DEF Init, ForcingInv
<1>2. IInv /\ ForcingInv /\ [Next]_vars => ForcingInv'
  <2>1. SUFFICES ASSUME IInv, ForcingInv, [Next]_vars, Transient
                 PROVE  ForcingInv'
    BY DeckFixed DEF ForcingInv
  <2>2. problem' = problem /\ (Transient' <=> Transient)
    BY <2>1, DeckFixed
  <2>3. /\ TypeOK /\ problem.clm_reuse \in Nat \ {0} /\ problem.start_time \in Int
        /\ IsTimeStep(problem.time_step) /\ problem \in Problems
    BY <2>1, ProblemsAssumption DEF IInv, TypeOK
  <2>4. CASE UNCHANGED vars
    BY <2>1, <2>2, <2>4 DEF ForcingInv, Turns, vars
  <2>5. CASE Setup
    BY <2>5 DEF Setup, ForcingInv
  <2>6. CASE SolverRichardsAdvance
    <3>1. SelectTimeStep(problem, problem.time_step, 0, problem.start_time) \in Nat \ {0}
      BY <2>3, SelectTimeStepPositive
    <3>2. cdt' \in Nat \ {0} /\ t' = problem.start_time /\ ct' = problem.start_time
          /\ istep' = 1 /\ clm_next' = 1 /\ pc' = "step"
      BY <2>6, <3>1 DEF SolverRichardsAdvance, Advance
    <3>3. Turns' = 0
      BY <2>2, <2>3, <3>2 DEF Turns
    <3>4. problem.start_time + 0 * cdt' = problem.start_time
      BY <2>3, <3>2
    <3> QED
      BY <2>2, <3>2, <3>3, <3>4 DEF ForcingInv
  <2>7. CASE BeginTimeStep
    <3> DEFINE n == Turns
    <3>1. pc = "step" /\ pc' = "select" /\ UNCHANGED <<problem, cdt, t>>
      BY <2>7 DEF BeginTimeStep
    <3>2. /\ cdt > 0 /\ istep >= 1 /\ ct = problem.start_time + n * cdt
          /\ n = 0 => t = ct
          /\ n > 0 => forcing = IF clm_next = 1 THEN istep - 1 ELSE istep
      BY <2>1, <3>1 DEF ForcingInv
    <3>3. /\ istep \in Nat /\ clm_next \in 1..problem.clm_reuse
          /\ ct \in Int /\ cdt \in Int /\ t \in Int /\ forcing \in Nat
      BY <2>3 DEF TypeOK
    <3>4. (istep - 1) * problem.clm_reuse \in Nat /\ n \in Nat
          /\ n >= clm_next - 1
      <4>1. istep - 1 \in Nat
        BY <3>2, <3>3
      <4>2. (istep - 1) * problem.clm_reuse \in Nat
        BY <2>3, <4>1
      <4> QED
        BY <2>3, <3>3, <4>2 DEF Turns
    <3>5. CASE t = ct
      <4>1. Turns' = n + 1
        <5>1. CASE ReuseOver
          <6>1. istep' = istep + 1 /\ clm_next' = 1 /\ clm_next = problem.clm_reuse
            BY <2>3, <2>7, <3>3, <3>5, <5>1 DEF BeginTimeStep, ReuseOver
          <6>2. (istep + 1 - 1) * problem.clm_reuse
                  = (istep - 1) * problem.clm_reuse + problem.clm_reuse
            BY <2>3, <3>3
          <6>3. Turns' = (istep + 1 - 1) * problem.clm_reuse + (1 - 1)
            BY <2>2, <2>3, <3>3, <3>4, <6>1 DEF Turns
          <6> QED
            BY <2>3, <3>3, <3>4, <6>1, <6>2, <6>3 DEF Turns
        <5>2. CASE ~ReuseOver
          <6>1. istep' = istep /\ clm_next' = clm_next + 1
            BY <2>7, <3>5, <5>2 DEF BeginTimeStep
          <6>2. Turns' = (istep - 1) * problem.clm_reuse + (clm_next + 1 - 1)
            BY <2>2, <2>3, <3>3, <3>4, <6>1 DEF Turns
          <6> QED
            BY <2>3, <3>3, <3>4, <6>2 DEF Turns
        <5> QED
          BY <5>1, <5>2
      <4>2. ct' = problem.start_time + Turns' * cdt
        <5>1. ct' = ct + cdt
          BY <2>7, <3>5 DEF BeginTimeStep
        <5> HIDE DEF n
        <5>2. (n + 1) * cdt = n * cdt + cdt /\ n * cdt \in Int
          BY <3>3, <3>4
        <5> QED
          BY <2>3, <3>2, <3>3, <4>1, <5>1, <5>2
      <4>3. forcing' = IF clm_next' = 1 THEN istep' - 1 ELSE istep'
        <5>1. forcing' = istep
          <6>1. CASE clm_next = 1
            BY <2>7, <3>5, <6>1 DEF BeginTimeStep
          <6>2. CASE clm_next # 1
            <7>1. n > 0
              BY <3>3, <3>4, <6>2
            <7> QED
              BY <2>7, <3>2, <3>5, <6>2, <7>1 DEF BeginTimeStep
          <6> QED
            BY <6>1, <6>2
        <5>2. CASE ReuseOver
          <6>1. istep' = istep + 1 /\ clm_next' = 1
            BY <2>7, <3>5, <5>2 DEF BeginTimeStep
          <6> QED
            BY <3>3, <5>1, <6>1
        <5>3. CASE ~ReuseOver
          <6>1. istep' = istep /\ clm_next' = clm_next + 1
            BY <2>7, <3>5, <5>3 DEF BeginTimeStep
          <6> QED
            BY <2>3, <3>3, <5>1, <6>1
        <5> QED
          BY <5>2, <5>3
      <4>4. istep' >= 1
        BY <2>7, <3>2, <3>3, <3>5 DEF BeginTimeStep
      <4>5. Turns' # 0
        BY <3>4, <4>1
      <4> QED
        BY <2>2, <3>1, <3>2, <4>2, <4>3, <4>4, <4>5 DEF ForcingInv
    <3>6. CASE t # ct
      <4>1. UNCHANGED <<ct, istep, clm_next, forcing>>
        BY <2>7, <3>6 DEF BeginTimeStep
      <4>2. Turns' = n
        BY <2>2, <4>1 DEF Turns
      <4>3. n # 0
        BY <3>2, <3>6
      <4> HIDE DEF n
      <4> QED
        BY <2>2, <3>1, <3>2, <4>1, <4>2, <4>3 DEF ForcingInv
    <3> QED
      BY <3>5, <3>6
  <2>8. CASE \/ SelectStep \/ RetryStep \/ SolveConverges \/ SolveFails
             \/ \E halt \in BOOLEAN : FinishStep(halt)
    <3>1. pc \in {"select"} \cup Attempts /\ UNCHANGED <<ct, cdt, istep, clm_next, forcing>>
      BY <2>8 DEF SelectStep, RetryStep, TakeStep, SolveConverges, SolveFails, FinishStep
    <3>2. Turns' = Turns
      BY <2>2, <3>1 DEF Turns
    <3>3. /\ cdt > 0 /\ istep >= 1 /\ ct = problem.start_time + Turns * cdt
          /\ Turns # 0
          /\ Turns > 0 => forcing = IF clm_next = 1 THEN istep - 1 ELSE istep
      BY <2>1, <3>1 DEF ForcingInv
    <3> QED
      BY <2>2, <3>1, <3>2, <3>3 DEF ForcingInv
  <2>9. CASE \/ TimeIncrementTooSmall \/ CopyUnallocatedVector \/ LogFullExit
             \/ ReturnFromAdvance \/ Teardown
    BY <2>9 DEF TimeIncrementTooSmall, CopyUnallocatedVector, LogFullExit,
                ReturnFromAdvance, Teardown, ForcingInv
  <2> QED
    BY <2>1, <2>4, <2>5, <2>6, <2>7, <2>8, <2>9 DEF Next, AdvanceStep
<1>3. IInv /\ ForcingInv => ForcingInStep
  <2> SUFFICES ASSUME IInv, ForcingInv, Transient,
                      pc \in {"select", "retry", "solve", "finish"}
               PROVE  LET turns == (ct - problem.start_time) \div cdt
                      IN  /\ ct = problem.start_time + turns * cdt
                          /\ forcing = 1 + ((turns - 1) \div problem.clm_reuse)
    BY DEF ForcingInStep
  <2> DEFINE n == Turns
             reuse == problem.clm_reuse
  <2>1. /\ cdt > 0 /\ istep >= 1 /\ ct = problem.start_time + n * cdt /\ n # 0
        /\ n > 0 => forcing = IF clm_next = 1 THEN istep - 1 ELSE istep
    BY DEF ForcingInv
  <2>2. /\ istep \in Nat /\ clm_next \in 1..reuse /\ cdt \in Nat \ {0} /\ ct \in Int
        /\ reuse \in Nat \ {0} /\ problem.start_time \in Int
    BY <2>1, ProblemsAssumption DEF IInv, TypeOK
  <2>3. n = (istep - 1) * reuse + (clm_next - 1)
    BY DEF Turns
  <2>4. istep - 1 \in Nat /\ clm_next - 1 \in Nat
    BY <2>1, <2>2
  <2>5. (istep - 1) * reuse \in Nat
    BY <2>2, <2>4
  <2>6. n \in Nat /\ n > 0
    BY <2>1, <2>3, <2>4, <2>5
  <2> HIDE DEF n, reuse
  <2>7. ct - problem.start_time = n * cdt + 0 /\ n * cdt \in Int
    BY <2>1, <2>2, <2>6
  <2>8. (ct - problem.start_time) \div cdt = n
    BY <2>2, <2>6, <2>7, QuotientIs
  <2>9. forcing = 1 + ((n - 1) \div reuse)
    <3>1. CASE clm_next = 1
      <4>1. istep - 2 \in Int /\ reuse - 1 \in Nat /\ reuse - 1 < reuse /\ n - 1 \in Int
        BY <2>2, <2>6
      <4>2. (istep - 1) * reuse = (istep - 2) * reuse + reuse
            /\ (istep - 2) * reuse \in Int
        BY <2>2
      <4>3. n - 1 = (istep - 2) * reuse + (reuse - 1)
        BY <2>2, <2>3, <2>5, <3>1, <4>2
      <4>4. (n - 1) \div reuse = istep - 2
        BY <2>2, <4>1, <4>3, QuotientIs
      <4> QED
        BY <2>1, <2>2, <2>6, <3>1, <4>4
    <3>2. CASE clm_next # 1
      <4>1. clm_next - 2 \in Nat /\ clm_next - 2 < reuse /\ n - 1 \in Int
            /\ istep - 1 \in Int
        BY <2>2, <2>6, <3>2
      <4>2. n - 1 = (istep - 1) * reuse + (clm_next - 2)
        BY <2>2, <2>3, <2>5
      <4>3. (n - 1) \div reuse = istep - 1
        BY <2>2, <4>1, <4>2, QuotientIs
      <4> QED
        BY <2>1, <2>2, <2>6, <3>2, <4>3
    <3> QED
      BY <3>1, <3>2
  <2> QED
    BY <2>1, <2>8, <2>9 DEF reuse
<1> QED
  BY <1>1, <1>2, <1>3, Invariance, PTL DEF Spec

\* What a step adds to the output, as numbers and times: files of the current
\* number and time behind the earlier ones, and some exactly if the log says so.
LEMMA NewFilesNumbers ==
  ASSUME TypeOK
  PROVE  /\ DOMAIN files \subseteq DOMAIN (files \o NewFiles)
         /\ \A i \in DOMAIN files : (files \o NewFiles)[i] = files[i]
         /\ \A i \in DOMAIN (files \o NewFiles) :
              \/ i \in DOMAIN files
              \/ /\ \A j \in DOMAIN files : j < i
                 /\ AnyFileDumped
                 /\ (files \o NewFiles)[i].num = file_number
                 /\ (files \o NewFiles)[i].time = t
                 /\ (files \o NewFiles)[i].kind # "end"
         /\ AnyFileDumped => \E i \in DOMAIN (files \o NewFiles) : i \notin DOMAIN files
<1> DEFINE dump == File("dump", file_number, dump_index)
           clm  == File("clm", file_number, clm_dump_index)
           A == IF FilesDumped THEN <<dump>> ELSE << >>
           B == IF ClmFilesDumped THEN <<clm>> ELSE << >>
           N == NewFiles
           F == files \o N
<1>1. dump \in Files /\ clm \in Files /\ files \in Seq(Files)
  BY DEF TypeOK, File, Files
<1>2. /\ dump.num = file_number /\ dump.time = t /\ dump.kind # "end"
      /\ clm.num = file_number /\ clm.time = t /\ clm.kind # "end"
  BY DEF File
<1>3. A \in Seq({dump, clm}) /\ B \in Seq({dump, clm}) /\ N = A \o B
  <2>1. N = A \o B
    BY DEF NewFiles
  <2> HIDE DEF dump, clm, N
  <2>2. <<dump>> \in Seq({dump, clm}) /\ <<clm>> \in Seq({dump, clm})
        /\ << >> \in Seq({dump, clm})
    OBVIOUS
  <2> QED
    BY <2>1, <2>2
<1>4. N \in Seq({dump, clm})
  BY <1>3
<1>5. Len(A) \in Nat /\ Len(B) \in Nat /\ Len(N) = Len(A) + Len(B)
  BY <1>3
<1>6. Len(N) > 0 <=> AnyFileDumped
  <2>1. Len(A) = IF FilesDumped THEN 1 ELSE 0
    OBVIOUS
  <2>2. Len(B) = IF ClmFilesDumped THEN 1 ELSE 0
    OBVIOUS
  <2> HIDE DEF A, B, N
  <2> QED
    BY <1>5, <2>1, <2>2 DEF AnyFileDumped
<1> HIDE DEF A, B, N, dump, clm
<1>7. N \in Seq(Files)
  BY <1>1, <1>4
<1>8. /\ Len(files) \in Nat /\ Len(N) \in Nat /\ DOMAIN files = 1..Len(files)
      /\ Len(F) = Len(files) + Len(N) /\ DOMAIN F = 1..Len(F)
  BY <1>1, <1>7
<1>9. \A i \in DOMAIN files : F[i] = files[i]
  BY <1>1, <1>7
<1>10. \A i \in DOMAIN F : i \notin DOMAIN files =>
          /\ Len(N) > 0 /\ i > Len(files)
          /\ F[i] \in {dump, clm}
  <2> SUFFICES ASSUME NEW i \in DOMAIN F, i \notin DOMAIN files
               PROVE  Len(N) > 0 /\ i > Len(files) /\ F[i] \in {dump, clm}
    OBVIOUS
  <2>1. i \in Int /\ i > Len(files) /\ i <= Len(files) + Len(N)
    BY <1>8
  <2>2. i - Len(files) \in 1..Len(N) /\ F[i] = N[i - Len(files)]
    BY <1>1, <1>7, <1>8, <2>1
  <2>3. N[i - Len(files)] \in {dump, clm}
    BY <1>4, <2>2
  <2> QED
    BY <1>8, <2>1, <2>2, <2>3
<1>11. ASSUME Len(N) > 0 PROVE \E i \in DOMAIN F : i \notin DOMAIN files
  <2>1. Len(F) \in 1..Len(F) /\ Len(F) \notin 1..Len(files)
    BY <1>8, <1>11
  <2> HIDE DEF F
  <2> QED
    BY <1>8, <2>1
<1>12. DOMAIN files \subseteq DOMAIN F
  BY <1>8
<1>13. \A i \in DOMAIN F : i \in DOMAIN files \/
          /\ \A j \in DOMAIN files : j < i
          /\ AnyFileDumped
          /\ F[i].num = file_number
          /\ F[i].time = t
          /\ F[i].kind # "end"
  <2> HIDE DEF F
  <2> SUFFICES ASSUME NEW i \in DOMAIN F, i \notin DOMAIN files
               PROVE  /\ \A j \in DOMAIN files : j < i
                      /\ AnyFileDumped
                      /\ F[i].num = file_number
                      /\ F[i].time = t
                      /\ F[i].kind # "end"
    OBVIOUS
  <2>1. Len(N) > 0 /\ i > Len(files) /\ F[i] \in {dump, clm} /\ i \in Int
    BY <1>8, <1>10
  <2>2. \A j \in DOMAIN files : j < i
    BY <1>8, <2>1
  <2> QED
    BY <1>2, <1>6, <2>1, <2>2
<1> QED
  BY <1>6, <1>9, <1>11, <1>12, <1>13 DEF N

\* FilesAndLogAgree is its two parts.
LEMMA FilesAndLogParts ==
  FilesAndLogAgree <=> /\ FilesInOrder
                       /\ pc \notin {"setup", "exit"} => FilesLogged
BY DEF FilesAndLogAgree, FilesInOrder, FilesLogged, Numbered

\* A step that leaves files, log and numbers alone keeps FilesInv.
LEMMA FilesUntouched ==
  ASSUME FilesInv, UNCHANGED <<problem, files, log, file_number>>,
         \/ pc' = pc
         \/ pc' # "setup" /\ pc \notin {"setup", "exit", "returned", "done"}
         \/ pc = "returned" /\ pc' = "done"
  PROVE  FilesInv'
<1>1. /\ FilesInOrder' <=> FilesInOrder
      /\ FilesLogged' <=> FilesLogged
  BY DEF FilesInOrder, FilesLogged, Numbered
<1>2. FilesInOrder /\ (pc \notin {"setup", "exit"} => FilesLogged)
  BY DEF FilesInv
<1>4. FilesInOrder' /\ (pc' \notin {"setup", "exit"} => FilesLogged')
  BY <1>1, <1>2
<1>5. pc' \notin {"returned", "done", "exit"} =>
        \A i \in DOMAIN files' : files'[i].num < file_number'
  BY DEF FilesInv
<1>6. pc' = "setup" => files' = << >>
  BY DEF FilesInv
<1> QED
  BY <1>4, <1>5, <1>6 DEF FilesInv

\* A step that adds its files, all under the current number, and counts them.
LEMMA FilesAdded ==
  ASSUME TypeOK, FilesInv, pc = "finish", problem' = problem,
         files' = files \o NewFiles
  PROVE  /\ FilesInOrder'
         /\ /\ file_number' = file_number + (IF AnyFileDumped THEN 1 ELSE 0)
            /\ log' = IF problem.logging
                      THEN Append(log, LogEntry(iteration_number + 1, t,
                                       IF AnyFileDumped THEN file_number ELSE -1))
                      ELSE log
            => /\ FilesLogged'
               /\ \A i \in DOMAIN files' : files'[i].num < file_number'
<1> DEFINE F == files \o NewFiles
           New(i) == /\ \A j \in DOMAIN files : j < i
                     /\ AnyFileDumped
                     /\ F[i].num = file_number
                     /\ F[i].time = t
                     /\ F[i].kind # "end"
<1>1. /\ DOMAIN files \subseteq DOMAIN F
      /\ \A i \in DOMAIN files : F[i] = files[i]
      /\ \A i \in DOMAIN F : i \in DOMAIN files \/ New(i)
      /\ AnyFileDumped => \E i \in DOMAIN F : i \notin DOMAIN files
  BY NewFilesNumbers
<1>2. FilesInOrder /\ FilesLogged
  BY DEF FilesInv
<1>3. \A i \in DOMAIN files : files[i].num < file_number
  BY DEF FilesInv
<1>4. files \in Seq(Files) /\ F \in Seq(Files) /\ log \in Seq(LogEntries)
  BY NewFilesType DEF TypeOK
<1>5. /\ file_number \in Int /\ iteration_number \in Int /\ t \in Int
      /\ problem.start_count \in Int /\ problem \in Problems
  BY ProblemsAssumption DEF TypeOK
<1> HIDE DEF F
<1>6. files' = F
  BY DEF F
<1>7. \A i \in DOMAIN F : i \in Int /\ F[i].num \in Int
  <2>1. \A i \in DOMAIN F : i \in Int /\ F[i] \in Files
    BY <1>4
  <2> QED
    BY <2>1 DEF Files
<1>8. FilesInOrder'
  <2> SUFFICES ASSUME NEW i \in DOMAIN F, NEW j \in DOMAIN F, i < j
               PROVE  \/ F[i].num < F[j].num
                      \/ F[i].num = F[j].num /\ F[i].time = F[j].time
    BY <1>6 DEF FilesInOrder
  <2>1. CASE i \in DOMAIN files /\ j \in DOMAIN files
    BY <1>1, <1>2, <2>1 DEF FilesInOrder
  <2>2. CASE i \in DOMAIN files /\ j \notin DOMAIN files
    BY <1>1, <1>3, <2>2
  <2>3. CASE i \notin DOMAIN files /\ j \in DOMAIN files
    <3>1. j < i
      BY <1>1, <2>3
    <3> QED
      BY <1>7, <3>1
  <2>4. CASE i \notin DOMAIN files /\ j \notin DOMAIN files
    BY <1>1, <2>4
  <2> QED
    BY <2>1, <2>2, <2>3, <2>4
<1>9. ASSUME file_number' = file_number + (IF AnyFileDumped THEN 1 ELSE 0)
      PROVE  \A i \in DOMAIN F : F[i].num < file_number'
  <2> SUFFICES ASSUME NEW i \in DOMAIN F
               PROVE  F[i].num < file_number'
    OBVIOUS
  <2>1. CASE i \in DOMAIN files
    <3>1. F[i].num < file_number /\ F[i].num \in Int
      BY <1>1, <1>3, <1>7, <2>1
    <3> QED
      BY <1>5, <1>9, <3>1
  <2>2. CASE i \notin DOMAIN files
    <3>1. AnyFileDumped /\ F[i].num = file_number
      BY <1>1, <2>2
    <3> QED
      BY <1>5, <1>9, <3>1
  <2> QED
    BY <2>1, <2>2
<1>10. ASSUME file_number' = file_number + (IF AnyFileDumped THEN 1 ELSE 0),
              log' = IF problem.logging
                     THEN Append(log, LogEntry(iteration_number + 1, t,
                                      IF AnyFileDumped THEN file_number ELSE -1))
                     ELSE log
       PROVE  FilesLogged'
  <2> DEFINE old == {files[i].num : i \in Numbered}
             new == {F[i].num : i \in Numbered'}
  <2>1. Numbered' = {i \in DOMAIN F : F[i].kind # "end"}
    BY <1>6 DEF Numbered
  <2>2. Numbered = {i \in DOMAIN files : files[i].kind # "end"}
    BY DEF Numbered
  <2>3. old = problem.start_count..(file_number - 1)
    BY <1>2 DEF FilesLogged
  <2>4. new = problem.start_count..(file_number' - 1)
    <3>1. old \subseteq new
      BY <1>1, <2>1, <2>2
    <3>2. CASE AnyFileDumped
      <4>1. PICK i \in DOMAIN F : i \notin DOMAIN files
        BY <1>1, <3>2
      <4>2. file_number \in new
        BY <1>1, <2>1, <4>1
      <4>3. new \subseteq old \cup {file_number}
        BY <1>1, <2>1, <2>2
      <4>4. new = old \cup {file_number}
        BY <3>1, <4>2, <4>3
      <4>5. file_number' = file_number + 1 /\ problem.start_count <= file_number
        <5>1. file_number' = file_number + 1
          BY <1>10, <3>2
        <5>2. problem.start_count <= file_number
          BY DEF FilesInv
        <5> QED
          BY <5>1, <5>2
      <4> HIDE DEF old, new
      <4> QED
        BY <1>5, <2>3, <4>4, <4>5
    <3>3. CASE ~AnyFileDumped
      <4>1. new \subseteq old
        BY <1>1, <2>1, <2>2, <3>3
      <4>2. file_number' = file_number
        BY <1>5, <1>10, <3>3
      <4> HIDE DEF old, new
      <4> QED
        BY <2>3, <3>1, <4>1, <4>2
    <3> QED
      BY <3>2, <3>3
  <2>5. ASSUME problem.logging, NEW i \in Numbered'
        PROVE  \E k \in DOMAIN log' : log'[k].dumped = F[i].num /\ log'[k].time = F[i].time
    <3> DEFINE e == LogEntry(iteration_number + 1, t,
                             IF AnyFileDumped THEN file_number ELSE -1)
    <3>1. e \in LogEntries
      BY <1>5 DEF LogEntry, LogEntries
    <3>2. log' = Append(log, e)
      BY <1>10, <2>5
    <3>3. e.time = t /\ e.dumped = IF AnyFileDumped THEN file_number ELSE -1
      BY DEF LogEntry
    <3> HIDE DEF e
    <3>4. /\ Len(log) + 1 \in DOMAIN log' /\ log'[Len(log) + 1] = e
          /\ \A k \in DOMAIN log : k \in DOMAIN log' /\ log'[k] = log[k]
      BY <1>4, <3>1, <3>2
    <3>5. CASE i \in DOMAIN files
      <4>1. i \in Numbered /\ F[i] = files[i]
        BY <1>1, <2>1, <2>2, <3>5
      <4>2. PICK k \in DOMAIN log : log[k].dumped = files[i].num
                                    /\ log[k].time = files[i].time
        BY <1>2, <2>5, <4>1 DEF FilesLogged
      <4> QED
        BY <3>4, <4>1, <4>2
    <3>6. CASE i \notin DOMAIN files
      <4>1. AnyFileDumped /\ F[i].num = file_number /\ F[i].time = t
        BY <1>1, <2>1, <3>6
      <4> QED
        BY <3>3, <3>4, <4>1
    <3> QED
      BY <3>5, <3>6
  <2>6. problem'.logging = problem.logging /\ problem'.start_count = problem.start_count
    OBVIOUS
  <2> QED
    BY <1>6, <2>4, <2>5, <2>6 DEF FilesLogged
<1> QED
  BY <1>6, <1>8, <1>9, <1>10

\* No file of an earlier time is overwritten, no number is skipped, and the log
\* shows the number and the time of every group of files.
THEOREM OutputAndLogAgree == Spec => []FilesAndLogAgree
<1> USE DEF deck, clock, flags, meteo, state, counts, output
<1>1. Init => FilesInv
  <2> SUFFICES ASSUME Init PROVE FilesInv
    OBVIOUS
  <2>1. files = << >> /\ pc = "setup"
    BY DEF Init
  <2>2. DOMAIN files = {}
    BY <2>1
  <2>3. FilesInOrder
    BY <2>2 DEF FilesInOrder
  <2> QED
    BY <2>1, <2>2, <2>3 DEF FilesInv
<1>2. TypeOK /\ FilesInv /\ [Next]_vars => FilesInv'
  <2>1. SUFFICES ASSUME TypeOK, FilesInv, [Next]_vars
                 PROVE  FilesInv'
    OBVIOUS
  <2>2. problem' = problem
    BY <2>1, DeckFixed
  <2>3. /\ problem \in Problems /\ problem.start_count \in Int
        /\ problem.start_time \in Int /\ file_number \in Int
    BY <2>1, ProblemsAssumption DEF TypeOK
  <2>4. CASE Setup
    <3> DEFINE dumped == Allocated(problem) /\ problem.prints
               f == [kind |-> "init", num |-> problem.start_count,
                     time |-> problem.start_time, ok |-> TRUE, index |-> 0]
               e == LogEntry(problem.start_count, problem.start_time,
                             IF dumped THEN problem.start_count ELSE -1)
    <3>1. /\ pc' = "ready"
          /\ file_number' = problem.start_count + (IF dumped THEN 1 ELSE 0)
          /\ files' = IF dumped THEN <<f>> ELSE << >>
          /\ dumped /\ problem.logging => log' = <<e>>
      BY <2>4 DEF Setup
    <3>2. /\ f.num = problem.start_count /\ f.time = problem.start_time
          /\ f.kind # "end"
      OBVIOUS
    <3>3. e.time = problem.start_time /\ (dumped => e.dumped = problem.start_count)
      BY DEF LogEntry
    <3> HIDE DEF e, f
    <3>4. CASE dumped
      <4>1. files' = <<f>> /\ file_number' = problem.start_count + 1
            /\ (problem.logging => log' = <<e>>)
        BY <3>1, <3>4
      <4>2. /\ DOMAIN files' = {1} /\ files'[1] = f
            /\ problem.logging => DOMAIN log' = {1} /\ log'[1] = e
        BY <4>1
      <4>3. Numbered' = {1}
        BY <3>2, <4>2 DEF Numbered
      <4>4. {files'[i].num : i \in Numbered'} = {problem.start_count}
        BY <3>2, <4>2, <4>3
      <4>5. problem.start_count..(problem.start_count + 1 - 1) = {problem.start_count}
        BY <2>3
      <4>6. FilesLogged'
        BY <2>2, <3>2, <3>3, <3>4, <4>1, <4>2, <4>3, <4>4, <4>5 DEF FilesLogged
      <4>7. FilesInOrder'
        BY <4>2 DEF FilesInOrder
      <4>9. \A i \in DOMAIN files' : files'[i].num < file_number'
        BY <2>3, <3>2, <4>1, <4>2
      <4>10. problem'.start_count <= file_number'
        BY <2>2, <2>3, <4>1
      <4> QED
        BY <3>1, <4>6, <4>7, <4>9, <4>10 DEF FilesInv
    <3>5. CASE ~dumped
      <4>1. DOMAIN files' = {} /\ file_number' = problem.start_count
        BY <2>3, <3>1, <3>5
      <4>2. Numbered' = {}
        BY <4>1 DEF Numbered
      <4>3. problem.start_count..(problem.start_count - 1) = {}
        BY <2>3
      <4>4. FilesLogged'
        BY <2>2, <4>1, <4>2, <4>3 DEF FilesLogged
      <4>5. FilesInOrder'
        BY <4>1 DEF FilesInOrder
      <4>7. problem'.start_count <= file_number'
        BY <2>2, <2>3, <4>1
      <4> QED
        BY <3>1, <4>1, <4>4, <4>5, <4>7 DEF FilesInv
    <3> QED
      BY <3>4, <3>5
  <2>5. ASSUME NEW halt \in BOOLEAN, FinishStep(halt)
        PROVE  FilesInv'
    <3>1. /\ pc = "finish" /\ pc' \in {"step", "end"}
          /\ files' = files \o NewFiles
          /\ file_number' = file_number + (IF AnyFileDumped THEN 1 ELSE 0)
          /\ log' = IF problem.logging
                    THEN Append(log, LogEntry(iteration_number + 1, t,
                                     IF AnyFileDumped THEN file_number ELSE -1))
                    ELSE log
      BY <2>5 DEF FinishStep
    <3>2. /\ FilesInOrder' /\ FilesLogged'
          /\ \A i \in DOMAIN files' : files'[i].num < file_number'
      BY <2>1, <2>2, <3>1, FilesAdded
    <3>4. problem.start_count <= file_number
      BY <2>1, <3>1 DEF FilesInv
    <3>5. problem'.start_count <= file_number'
      BY <2>2, <2>3, <3>1, <3>4
    <3> QED
      BY <3>1, <3>2, <3>5 DEF FilesInv
  <2>6. CASE LogFullExit
    <3>1. pc = "finish" /\ pc' = "exit" /\ files' = files \o NewFiles
          /\ file_number' = file_number
      BY <2>6 DEF LogFullExit
    <3>2. FilesInOrder'
      BY <2>1, <2>2, <3>1, FilesAdded
    <3>4. problem'.start_count <= file_number'
      BY <2>1, <2>2, <3>1 DEF FilesInv
    <3> QED
      BY <3>1, <3>2, <3>4 DEF FilesInv
  <2>7. CASE ReturnFromAdvance
    <3>1. pc = "end" /\ pc' = "returned" /\ UNCHANGED <<log, file_number>>
      BY <2>7 DEF ReturnFromAdvance
    <3>2. CASE files' = files
      BY <2>1, <2>2, <3>1, <3>2, FilesUntouched
    <3>3. CASE files' = Append(files, File("end", file_number, 0))
      <4> DEFINE f == File("end", file_number, 0)
      <4>1. f \in Files /\ files \in Seq(Files)
        BY <2>1 DEF TypeOK, File, Files
      <4>2. f.num = file_number /\ f.kind = "end"
        BY DEF File
      <4> HIDE DEF f
      <4>3. /\ DOMAIN files' = DOMAIN files \cup {Len(files) + 1}
            /\ files'[Len(files) + 1] = f
            /\ \A i \in DOMAIN files : files'[i] = files[i] /\ i < Len(files) + 1
        BY <3>3, <4>1 DEF f
      <4>4. FilesInOrder /\ FilesLogged /\ \A i \in DOMAIN files : files[i].num < file_number
        BY <2>1, <3>1 DEF FilesInv
      <4>5. Numbered' = Numbered
        <5>1. Len(files) + 1 \notin DOMAIN files
          BY <4>1
        <5> QED
          BY <4>2, <4>3, <5>1 DEF Numbered
      <4>6. \A i \in Numbered : files'[i] = files[i]
        BY <4>3 DEF Numbered
      <4>7. FilesLogged'
        <5>1. {files'[i].num : i \in Numbered} = {files[i].num : i \in Numbered}
          BY <4>6
        <5> QED
          BY <2>2, <3>1, <4>4, <4>5, <4>6, <5>1 DEF FilesLogged
      <4>8. FilesInOrder'
        <5> SUFFICES ASSUME NEW i \in DOMAIN files', NEW j \in DOMAIN files', i < j
                     PROVE  \/ files'[i].num < files'[j].num
                            \/ files'[i].num = files'[j].num /\ files'[i].time = files'[j].time
          BY DEF FilesInOrder
        <5>1. i \in DOMAIN files
          BY <4>1, <4>3
        <5>2. CASE j \in DOMAIN files
          BY <4>3, <4>4, <5>1, <5>2 DEF FilesInOrder
        <5>3. CASE j = Len(files) + 1
          BY <4>2, <4>3, <4>4, <5>1, <5>3
        <5> QED
          BY <4>3, <5>2, <5>3
      <4>10. problem'.start_count <= file_number'
        BY <2>1, <2>2, <3>1 DEF FilesInv
      <4> QED
        BY <3>1, <4>7, <4>8, <4>10 DEF FilesInv
    <3> QED
      BY <2>7, <3>2, <3>3 DEF ReturnFromAdvance
  <2>8. CASE UNCHANGED vars
    BY <2>1, <2>8, FilesUntouched DEF vars
  <2>9. CASE SolverRichardsAdvance \/ BeginTimeStep
    BY <2>1, <2>9, FilesUntouched DEF SolverRichardsAdvance, Advance, BeginTimeStep
  <2>10. CASE SelectStep \/ RetryStep
    BY <2>1, <2>10, FilesUntouched DEF SelectStep, RetryStep, TakeStep
  <2>11. CASE TimeIncrementTooSmall \/ CopyUnallocatedVector
    BY <2>1, <2>11, FilesUntouched DEF TimeIncrementTooSmall, CopyUnallocatedVector
  <2>12. CASE SolveConverges \/ SolveFails
    BY <2>1, <2>12, FilesUntouched DEF SolveConverges, SolveFails
  <2>13. CASE Teardown
    BY <2>1, <2>13, FilesUntouched DEF Teardown
  <2> QED
    BY <2>1, <2>4, <2>5, <2>6, <2>7, <2>8, <2>9, <2>10, <2>11, <2>12, <2>13
    DEF Next, AdvanceStep
<1>3. FilesInv => FilesAndLogAgree
  BY FilesAndLogParts DEF FilesInv
<1> QED
  BY <1>1, <1>2, <1>3, TypeCorrect, PTL DEF Spec
--------------------------------------------------------------------------------
\* AdvanceRichards implements SimulationClock: seen from outside, time moves
\* forward by whole accepted steps, failed attempts do not show, and a state
\* that did not converge is shown only when the solver stops.
THEOREM ImplementsSimulationClock == Spec => ImplementsClock
<1> USE DEF deck, clock, flags, meteo, state, counts, output
<1>1. Init => Clock!Init
  BY DEF Init, Clock!Init, Published, None
<1>2. IInv /\ [Next]_vars => [Clock!Next]_(Clock!clockVars)
  <2> DEFINE Status == IF pc = "setup" THEN "idle"
                       ELSE IF pc = "ready" THEN "loaded"
                       ELSE IF pc \in {"end", "returned", "done", "exit", "crashed"}
                            THEN "stopped"
                       ELSE "running"
             Same == Published' = Published /\ stop' = stop /\ Status' = Status
  <2>1. SUFFICES ASSUME IInv, [Next]_vars
                 PROVE  Clock!Next \/ UNCHANGED Clock!clockVars
    OBVIOUS
  <2>2. TypeOK /\ ClockInv
    BY <2>1 DEF IInv
  <2>3. Same => UNCHANGED Clock!clockVars
    BY DEF Clock!clockVars
  <2>4. CASE UNCHANGED vars
    BY <2>3, <2>4 DEF vars, Published
  <2>5. CASE Setup
    <3>1. Published' = pressure' /\ pc = "setup" /\ pc' = "ready" /\ stop' = stop
      BY <2>5 DEF Setup, Published
    <3>2. problem.start_time \in Nat
      BY <2>2, ProblemsAssumption DEF TypeOK
    <3>3. pressure'.time \in Nat /\ pressure'.ok \in BOOLEAN
      BY <2>5, <3>2 DEF Setup, None
    <3>4. Clock!Load
      BY <3>1, <3>3 DEF Clock!Load
    <3> QED
      BY <3>4 DEF Clock!Next
  <2>6. CASE SolverRichardsAdvance
    <3>1. pc = "ready" /\ pc' = "step" /\ pressure' = pressure
          /\ stop' = problem.stop_time
      BY <2>6 DEF SolverRichardsAdvance, Advance
    <3>2. Published = pressure /\ Published' = pressure
      BY <3>1 DEF Published
    <3>3. problem.stop_time \in Nat /\ problem.start_time \in Nat
      BY <2>2, ProblemsAssumption DEF TypeOK
    <3>4. pressure.ok => problem.stop_time > pressure.time
      BY <2>2, <3>1, <3>3 DEF ClockInv, Transient, Allocated
    <3>5. Clock!Begin
      BY <3>1, <3>2, <3>3, <3>4 DEF Clock!Begin
    <3> QED
      BY <3>5 DEF Clock!Next
  <2>7. CASE BeginTimeStep \/ SelectStep \/ RetryStep
    <3>1. Same
      BY <2>7 DEF BeginTimeStep, SelectStep, RetryStep, TakeStep, Published
    <3> QED
      BY <2>3, <3>1
  <2>8. CASE TimeIncrementTooSmall \/ CopyUnallocatedVector
    <3>1. /\ pc \in {"select", "retry"} /\ pc' \in {"exit", "crashed"}
          /\ pc' = "exit" /\ pc = "select" => Transient
          /\ pc' = "crashed" => pc = "select"
          /\ UNCHANGED <<pressure, old_pressure, stop>>
      BY <2>8 DEF TimeIncrementTooSmall, CopyUnallocatedVector, Transient
    <3>2. Published' = Published
      BY <2>2, <3>1 DEF Published, ClockInv
    <3>3. Clock!Abort
      BY <3>1, <3>2 DEF Clock!Abort
    <3> QED
      BY <3>3 DEF Clock!Next
  <2>9. CASE SolveConverges \/ SolveFails
    <3>1. Same
      BY <2>9 DEF SolveConverges, SolveFails, Published
    <3> QED
      BY <2>3, <3>1
  <2>10. CASE (\E halt \in BOOLEAN : FinishStep(halt)) \/ LogFullExit
    <3>1. /\ pc = "finish" /\ pc' \in {"step", "end", "exit"}
          /\ pc' = "step" => pressure.ok /\ t < stop
          /\ UNCHANGED <<pressure, old_pressure, stop>>
      BY <2>2, <2>10 DEF FinishStep, LogFullExit, MoreTimeSteps, ClockInv, Attempts
    <3>2. /\ pressure.time = t /\ old_pressure.time < t /\ t <= stop
          /\ old_pressure.ok /\ pressure.ok \in BOOLEAN
      BY <2>2, <3>1 DEF ClockInv, Attempts, TypeOK
    <3>3. Published = old_pressure
      BY <3>1 DEF Published
    <3>4. CASE pc' = "exit" /\ ~pressure.ok
      <4>1. Published' = old_pressure
        BY <3>1, <3>4 DEF Published
      <4>2. Clock!Abort
        BY <3>1, <3>3, <3>4, <4>1 DEF Clock!Abort
      <4> QED
        BY <4>2 DEF Clock!Next
    <3>5. CASE ~(pc' = "exit" /\ ~pressure.ok)
      <4>1. Published' = pressure
        BY <3>1, <3>5 DEF Published
      <4>2. t = stop => pc' # "step"
        BY <2>2, <3>1 DEF TypeOK
      <4>3. Clock!Step
        BY <3>1, <3>2, <3>3, <4>1, <4>2 DEF Clock!Step
      <4> QED
        BY <4>3 DEF Clock!Next
    <3> QED
      BY <3>4, <3>5
  <2>11. CASE ReturnFromAdvance \/ Teardown
    <3>1. Same
      BY <2>11 DEF ReturnFromAdvance, Teardown, Published
    <3> QED
      BY <2>3, <3>1
  <2> QED
    BY <2>1, <2>4, <2>5, <2>6, <2>7, <2>8, <2>9, <2>10, <2>11 DEF Next, AdvanceStep
<1> QED
  BY <1>1, <1>2, Invariance, PTL DEF Spec, ImplementsClock, Clock!Spec
================================================================================
