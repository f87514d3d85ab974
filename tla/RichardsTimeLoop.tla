---------------------------- MODULE RichardsTimeLoop ----------------------------
(***************************************************************************)
(* The time loop of the Richards solver (parflow_lib/solver_richards.c):   *)
(* SetupRichards, AdvanceRichards and TeardownRichards, with the choice of *)
(* the time step (parflow_lib/select_time_step.c).                         *)
(*                                                                         *)
(* Time is counted in integer ticks.  The nonlinear solver is an outcome:  *)
(* it converges or it does not.  The pressure, density and saturation      *)
(* vectors are one value: the time they are the solution for and whether   *)
(* the solve that produced them converged.                                 *)
(*                                                                         *)
(* `problem' is the input deck of the run, a record with the keys          *)
(*   start_time, stop_time, start_count, dump_interval, dump_at_end,       *)
(*   time_limit (DumpIntervalExecutionTimeLimit set on a SLURM build),     *)
(*   max_iterations, max_failures, time_step, well_cycles, bc_cycles,      *)
(*   lsm (OASIS, CLM or a transient EvapTrans file sets the pace `ct'),    *)
(*   clm_dump_interval, clm_reuse, prints (pressure, saturation, ...),     *)
(*   print_sums (evap_trans_sum, overland_sum), print_clm, logging.        *)
(***************************************************************************)
EXTENDS TimeCycleData

CONSTANT Problems   \* the input decks a run may be started with

\* A time step control: Type0 (Constant) or Type1 (Growth) of select_time_step.c.
IsTimeStep(c) ==
  \/ c.type = "Constant" /\ c.step \in Nat \ {0}
  \/ /\ c.type = "Growth"
     /\ c.initial \in Nat \ {0} /\ c.factor \in Nat \ {0}
     /\ c.min \in Nat \ {0} /\ c.max \in Nat \ {0}

ASSUME ProblemsAssumption ==
  \A p \in Problems :
    /\ p.start_time \in Nat /\ p.stop_time \in Nat
    /\ p.start_count \in Int /\ p.start_count >= -1
    /\ p.max_iterations \in Nat /\ p.max_failures \in Nat
    /\ p.dump_interval \in Int
    /\ p.dump_interval > 0 => p.dump_interval > TimeEpsilon
    /\ p.clm_dump_interval \in Int
    /\ p.clm_reuse \in Nat \ {0}
    /\ IsTimeStep(p.time_step)
    /\ \A c \in p.well_cycles : IsCycle(c)
    /\ \A c \in p.bc_cycles : IsCycle(c)
    /\ p.lsm \in BOOLEAN /\ p.prints \in BOOLEAN /\ p.print_sums \in BOOLEAN
    /\ p.print_clm \in BOOLEAN /\ p.logging \in BOOLEAN
    /\ p.dump_at_end \in BOOLEAN /\ p.time_limit \in BOOLEAN

VARIABLES
  problem,          \* the input deck
  pc,               \* where the program is, see Locations
  \* locals of AdvanceRichards
  control,          \* the module that selects time steps
  stop,             \* stop_time of the call
  t, dt, ct, cdt,
  conv_failures,
  take_more_time_steps,
  dump_files, clm_dump_files,
  istep, clm_next,  \* counters of the meteorological forcing
  forcing,          \* the record of the forcing data that is loaded
  \* instance_xtra
  pressure, old_pressure,
  iteration_number, file_number, dump_index, clm_dump_index,
  trans_sum,        \* time integrated by evap_trans_sum and overland_sum
  log,              \* the *_log arrays up to number_logged
  \* the file system
  files,            \* output files in the order they were written
  reported          \* time covered by all the sums written so far

deck    == <<problem, control, stop>>
clock   == <<t, dt, ct, cdt>>
flags   == <<conv_failures, take_more_time_steps, dump_files, clm_dump_files>>
meteo   == <<istep, clm_next, forcing>>
state   == <<pressure, old_pressure>>
counts  == <<iteration_number, file_number, dump_index, clm_dump_index>>
output  == <<trans_sum, log, files, reported>>
vars    == <<deck, pc, clock, flags, meteo, state, counts, output>>

\* "exit" is exit(1) or PARFLOW_ERROR, "crashed" a dereferenced NULL vector.
Locations == {"setup", "ready", "step", "select", "retry", "solve", "finish",
              "end", "returned", "done", "exit", "crashed"}

\* The stages of AdvanceRichards at which t is the time being computed or the
\* last one computed.
Running == {"step", "select", "retry", "solve", "finish", "end", "returned"}

None == [time |-> 0, ok |-> FALSE]
--------------------------------------------------------------------------------
\* SelectTimeStep: the step of the control module ...
ControlDt(c, d) ==
  IF c.type = "Constant" THEN c.step
  ELSE IF d = 0 THEN c.initial
  ELSE LET raised == IF d * c.factor < c.min THEN c.min ELSE d * c.factor
       IN  IF raised > c.max THEN c.max ELSE raised

\* ... cut at the next transition of the wells, or else of the boundary data.
SelectTimeStep(p, c, d, time) ==
  LET own  == ControlDt(c, d)
      well == ComputeNextTransition(p, time, p.well_cycles)
      bc   == ComputeNextTransition(p, time, p.bc_cycles)
  IN  IF well > 0 /\ own > well THEN well
      ELSE IF bc > 0 /\ own > bc THEN bc
      ELSE own

\* SetupRichards allocates the pressure, saturation, ... vectors only then.
Allocated(p) ==
  /\ p.start_count >= 0
  /\ p.start_time < p.stop_time
  /\ p.start_count <= p.max_iterations

\* instance_xtra's log arrays have max_iterations + 1 elements, but the test
\* before an entry is written is this one.
LogIsFull(p, l) == p.logging /\ Len(l) > p.max_iterations + 1

LogEntries == [seq : Int, time : Int, dumped : Int]

LogEntry(seq, time, dumped) == [seq |-> seq, time |-> time, dumped |-> dumped]

\* One output event: all the files written with one number.
Files == [kind : {"init", "dump", "clm", "end"}, num : Int, time : Int,
          ok : BOOLEAN, index : Nat]

File(kind, num, index) ==
  [kind |-> kind, num |-> num, time |-> t, ok |-> pressure.ok, index |-> index]

\* Time at which the dump with the given index is due.
DumpTime(p, index) == p.start_time + index * p.dump_interval
ClmDumpTime(p, index) == p.start_time + index * p.clm_dump_interval

\* Whether a dump falls into the step of length d from t0, and the length the
\* step has then.
DumpFlagExact(p, t0, d) ==         \* seeded fault: no tolerance
  \/ p.dump_interval > 0 /\ d > DumpTime(p, dump_index) - t0
  \/ p.dump_interval < 0 /\ iteration_number % (-p.dump_interval) = 0

DumpFlag(p, t0, d) ==
  \/ p.dump_interval > 0 /\ d + TimeEpsilon > DumpTime(p, dump_index) - t0
  \/ p.dump_interval < 0 /\ iteration_number % (-p.dump_interval) = 0

DumpDtUncut(p, t0, d) == d         \* seeded fault: dumps do not cut the step

DumpDt(p, t0, d) ==
  LET print_dt == DumpTime(p, dump_index) - t0
  IN  IF /\ p.dump_interval > 0
         /\ d + TimeEpsilon > print_dt
         /\ d - print_dt > TimeEpsilon \/ print_dt - d > TimeEpsilon
      THEN print_dt ELSE d

ClmDumpFlag(p, t0, d) ==
  \/ p.clm_dump_interval > 0 /\ d + TimeEpsilon > ClmDumpTime(p, clm_dump_index) - t0
  \/ p.clm_dump_interval < 0 /\ iteration_number % (-p.clm_dump_interval) = 0

\* A step that would pass the time ct the land surface model waits at ends there.
LsmDtUncut(p, t0, d) == d          \* seeded fault: the pace is ignored

LsmDt(p, t0, d) == IF p.lsm /\ t0 + d > ct THEN ct - t0 ELSE d
LsmTooSmall(p, t0, d) == p.lsm /\ t0 + d > ct /\ ct - t0 <= TimeEpsilon

\* The last step ends at the stop time.
LastDtUncut(t0, d) == d            \* seeded fault: the last step is not cut

LastDt(t0, d) == IF t0 + d >= stop THEN stop - t0 ELSE d
--------------------------------------------------------------------------------
Init ==
  /\ problem \in Problems
  /\ pc = "setup"
  /\ control = problem.time_step /\ stop = 0
  /\ t = 0 /\ dt = 0 /\ ct = 0 /\ cdt = 0
  /\ conv_failures = 0 /\ take_more_time_steps = FALSE
  /\ dump_files = FALSE /\ clm_dump_files = FALSE
  /\ istep = 1 /\ clm_next = 1 /\ forcing = 0
  /\ pressure = None /\ old_pressure = None
  /\ iteration_number = 0 /\ file_number = 0
  /\ dump_index = 1 /\ clm_dump_index = 1
  /\ trans_sum = 0 /\ log = << >> /\ files = << >> /\ reported = 0

\* SetupRichards: counters, initial condition, initial output and log entry.
Setup ==
  /\ pc = "setup"
  /\ pc' = "ready"
  /\ LET go     == Allocated(problem)
         dumped == go /\ problem.prints
         start  == problem.start_time
     IN  /\ iteration_number' = problem.start_count
         /\ file_number' = problem.start_count + (IF dumped THEN 1 ELSE 0)
         /\ pressure' = IF go THEN [time |-> start, ok |-> TRUE] ELSE None
         /\ files' = IF dumped
                     THEN <<[kind |-> "init", num |-> problem.start_count,
                             time |-> start, ok |-> TRUE, index |-> 0]>>
                     ELSE << >>
         /\ log' = IF go /\ problem.logging
                   THEN <<LogEntry(problem.start_count, start,
                                   IF dumped THEN problem.start_count ELSE -1)>>
                   ELSE << >>
  /\ UNCHANGED <<deck, clock, flags, meteo, old_pressure, dump_index,
                 clm_dump_index, trans_sum, reported>>

\* The beginning of AdvanceRichards(start_time, stop_time, time_step_control).
Advance(start_time, stop_time, time_step_control) ==
  /\ pc' = "step"
  /\ control' = time_step_control
  /\ stop' = stop_time
  /\ t' = start_time /\ ct' = start_time
  /\ cdt' = SelectTimeStep(problem, time_step_control, 0, start_time)
  /\ dt' = cdt'
  /\ take_more_time_steps' = (problem.start_count >= 0)
  /\ istep' = 1 /\ clm_next' = 1
  /\ UNCHANGED <<problem, conv_failures, dump_files, clm_dump_files, forcing,
                 state, counts, output>>

\* SolverRichards makes one call, for the whole run.
SolverRichardsAdvance ==
  /\ pc = "ready"
  /\ Advance(problem.start_time, problem.stop_time, problem.time_step)

\* The loaded forcing has been used clm_reuse times.
ReuseOverEarly == clm_next + 1 >= problem.clm_reuse   \* seeded fault: off by one

ReuseOverLate == clm_next > problem.clm_reuse         \* seeded fault: off by one

ReuseOver == clm_next + 1 > problem.clm_reuse

\* Top of the time loop.  When the time the land surface model waits at is
\* reached it gets its turn: new forcing every clm_reuse calls.
BeginTimeStep ==
  /\ pc = "step"
  /\ pc' = "select"
  /\ conv_failures' = 0
  /\ IF t = ct
     THEN /\ ct' = ct + cdt
          /\ forcing' = IF clm_next = 1 THEN istep ELSE forcing
          /\ IF ReuseOver
             THEN istep' = istep + 1 /\ clm_next' = 1
             ELSE istep' = istep /\ clm_next' = clm_next + 1
     ELSE UNCHANGED <<ct, meteo>>
  /\ UNCHANGED <<deck, t, dt, cdt, take_more_time_steps, dump_files,
                 clm_dump_files, state, counts, output>>

\* The part of the convergence loop between the choice of a step d from time t0
\* and the call of the nonlinear solver: land surface model, dumps, stop time.
TakeStep(t0, d) ==
  LET d2 == LsmDt(problem, t0, d)
      d3 == DumpDt(problem, t0, d2)
      d4 == LastDt(t0, d3)
  IN  /\ ~LsmTooSmall(problem, t0, d)
      /\ pc' = "solve"
      /\ dump_files' = DumpFlag(problem, t0, d2)
      /\ clm_dump_files' = ClmDumpFlag(problem, t0, d3)
      /\ dt' = d4
      /\ t' = t0 + d4
      /\ UNCHANGED <<deck, ct, cdt, conv_failures, take_more_time_steps, meteo,
                     counts, output>>

\* First attempt at a step: a new dt, and the old vectors take the current ones.
SelectStep ==
  /\ pc = "select"
  /\ Allocated(problem)
  /\ old_pressure' = pressure
  /\ UNCHANGED pressure
  /\ TakeStep(t, SelectTimeStep(problem, control, dt, t))

RetryStepFromEnd ==                \* seeded fault: t is not set back
  /\ pc = "retry"
  /\ dt \div 2 > TimeEpsilon
  /\ pressure' = old_pressure
  /\ UNCHANGED old_pressure
  /\ TakeStep(t, dt \div 2)

RetryStepUncut ==                  \* seeded fault: the step is not halved
  /\ pc = "retry"
  /\ dt \div 2 > TimeEpsilon
  /\ pressure' = old_pressure
  /\ UNCHANGED old_pressure
  /\ TakeStep(t - dt, dt)

\* Next attempt after a failure: half the step from where it began, and the
\* current vectors take the old ones back.
RetryStep ==
  /\ pc = "retry"
  /\ dt \div 2 > TimeEpsilon
  /\ pressure' = old_pressure
  /\ UNCHANGED old_pressure
  /\ TakeStep(t - dt, dt \div 2)

\* PARFLOW_ERROR: "Time increment is too small ...".
TimeIncrementTooSmall ==
  /\ \/ /\ pc = "retry"
        /\ \/ dt \div 2 <= TimeEpsilon
           \/ LsmTooSmall(problem, t - dt, dt \div 2)
     \/ /\ pc = "select" /\ Allocated(problem)
        /\ LsmTooSmall(problem, t, SelectTimeStep(problem, control, dt, t))
  /\ pc' = "exit"
  /\ UNCHANGED <<deck, clock, flags, meteo, state, counts, output>>

\* The first PFVCopy when SetupRichards has not allocated the vectors.
CopyUnallocatedVector ==
  /\ pc = "select"
  /\ ~Allocated(problem)
  /\ pc' = "crashed"
  /\ UNCHANGED <<deck, clock, flags, meteo, state, counts, output>>

SolveConverges ==
  /\ pc = "solve"
  /\ pc' = "finish"
  /\ pressure' = [time |-> t, ok |-> TRUE]
  /\ take_more_time_steps' =
       (take_more_time_steps /\ conv_failures < problem.max_failures)
  /\ UNCHANGED <<deck, clock, conv_failures, dump_files, clm_dump_files, meteo,
                 old_pressure, counts, output>>

SolveFailsUnnoticed ==             \* seeded fault: the loop is not told to stop
  /\ pc = "solve"
  /\ pressure' = [time |-> t, ok |-> FALSE]
  /\ conv_failures' = conv_failures + 1
  /\ pc' = IF conv_failures + 1 < problem.max_failures THEN "retry" ELSE "finish"
  /\ UNCHANGED <<deck, clock, take_more_time_steps, dump_files, clm_dump_files,
                 meteo, old_pressure, counts, output>>

SolveFails ==
  /\ pc = "solve"
  /\ pressure' = [time |-> t, ok |-> FALSE]
  /\ conv_failures' = conv_failures + 1
  /\ take_more_time_steps' =
       (take_more_time_steps /\ conv_failures + 1 < problem.max_failures)
  /\ pc' = IF conv_failures + 1 < problem.max_failures THEN "retry" ELSE "finish"
  /\ UNCHANGED <<deck, clock, dump_files, clm_dump_files, meteo, old_pressure,
                 counts, output>>

\* Output written after a step: one group of files under the current number.
FilesDumped    == dump_files /\ (problem.prints \/ problem.print_sums)
ClmFilesDumped == clm_dump_files /\ problem.print_clm

AnyFileDumpedPf == FilesDumped     \* seeded fault: CLM output is not counted

AnyFileDumped == FilesDumped \/ ClmFilesDumped

NewFiles ==
  (IF FilesDumped THEN <<File("dump", file_number, dump_index)>> ELSE << >>)
  \o (IF ClmFilesDumped THEN <<File("clm", file_number, clm_dump_index)>> ELSE << >>)

\* The running sums of dt * flux, written and reset by a dump.
AddToSumsNoReset ==                \* seeded fault: the sums are never reset
  /\ problem.print_sums
  /\ trans_sum' = trans_sum + dt
  /\ reported' = IF dump_files THEN reported + trans_sum + dt ELSE reported

AddToSums ==
  IF ~problem.print_sums THEN UNCHANGED <<trans_sum, reported>>
  ELSE IF dump_files
       THEN trans_sum' = 0 /\ reported' = reported + trans_sum + dt
       ELSE trans_sum' = trans_sum + dt /\ UNCHANGED reported

MoreTimeStepsLong(halt) ==         \* seeded fault: one step too many
  /\ take_more_time_steps
  /\ iteration_number <= problem.max_iterations
  /\ t < stop
  /\ ~halt

MoreTimeStepsShort(halt) ==        \* seeded fault: stops a step early
  /\ take_more_time_steps
  /\ iteration_number + 1 < problem.max_iterations
  /\ t + dt < stop
  /\ ~halt

MoreTimeStepsAtStop(halt) ==       \* seeded fault: one more step at the stop time
  /\ take_more_time_steps
  /\ iteration_number + 1 < problem.max_iterations
  /\ t <= stop
  /\ ~halt

\* The new value of take_more_time_steps; halt: the batch job is out of time.
MoreTimeSteps(halt) ==
  /\ take_more_time_steps
  /\ iteration_number + 1 < problem.max_iterations
  /\ t < stop
  /\ ~halt

\* From `iteration_number++' to the end of the time loop's body.
FinishStep(halt) ==
  /\ pc = "finish"
  /\ ~LogIsFull(problem, log)
  /\ halt => dump_files /\ problem.time_limit
  /\ iteration_number' = iteration_number + 1
  /\ dump_index' = dump_index + (IF dump_files THEN 1 ELSE 0)
  /\ clm_dump_index' = clm_dump_index + (IF clm_dump_files THEN 1 ELSE 0)
  /\ files' = files \o NewFiles
  /\ log' = IF problem.logging
            THEN Append(log, LogEntry(iteration_number + 1, t,
                                      IF AnyFileDumped THEN file_number ELSE -1))
            ELSE log
  /\ file_number' = file_number + (IF AnyFileDumped THEN 1 ELSE 0)
  /\ take_more_time_steps' = MoreTimeSteps(halt)
  /\ pc' = IF MoreTimeSteps(halt) THEN "step" ELSE "end"
  /\ AddToSums
  /\ UNCHANGED <<deck, clock, conv_failures, dump_files, clm_dump_files, meteo,
                 state>>

\* exit(1): "max_iterations reached, can't log anymore data", with this step's
\* files already written.
LogFullExit ==
  /\ pc = "finish"
  /\ LogIsFull(problem, log)
  /\ pc' = "exit"
  /\ iteration_number' = iteration_number + 1
  /\ dump_index' = dump_index + (IF dump_files THEN 1 ELSE 0)
  /\ clm_dump_index' = clm_dump_index + (IF clm_dump_files THEN 1 ELSE 0)
  /\ files' = files \o NewFiles
  /\ AddToSums
  /\ UNCHANGED <<deck, clock, flags, meteo, state, file_number, log>>

\* After the loop: DumpAtEnd writes under the next number, without counting it.
ReturnFromAdvance ==
  /\ pc = "end"
  /\ pc' = "returned"
  /\ LET atEnd == problem.dump_at_end
     IN  /\ files' = IF atEnd /\ (problem.prints \/ problem.print_sums)
                     THEN Append(files, File("end", file_number, 0)) ELSE files
         /\ trans_sum' = IF atEnd /\ problem.print_sums THEN 0 ELSE trans_sum
         /\ reported' = IF atEnd /\ problem.print_sums
                        THEN reported + trans_sum ELSE reported
  /\ UNCHANGED <<deck, clock, flags, meteo, state, counts, log>>

\* TeardownRichards: the log is printed and the vectors and arrays are freed.
Teardown ==
  /\ pc = "returned"
  /\ pc' = "done"
  /\ UNCHANGED <<deck, clock, flags, meteo, state, counts, output>>

\* The body of AdvanceRichards, whoever calls it.
AdvanceStep ==
  \/ BeginTimeStep \/ SelectStep \/ RetryStep
  \/ TimeIncrementTooSmall \/ CopyUnallocatedVector
  \/ SolveConverges \/ SolveFails
  \/ \E halt \in BOOLEAN : FinishStep(halt)
  \/ LogFullExit
  \/ ReturnFromAdvance

Next == Setup \/ SolverRichardsAdvance \/ AdvanceStep \/ Teardown

Spec == Init /\ [][Next]_vars
--------------------------------------------------------------------------------
\* The state up to which the run is computed for good: attempts that may still be
\* retried, and steps not yet counted, do not show.
Published ==
  IF pc \in {"solve", "retry", "finish"} \/ (pc = "exit" /\ ~pressure.ok)
  THEN old_pressure ELSE pressure

\* SetupRichards found something to do; otherwise SolverRichards should not step.
Transient == Allocated(problem)

\* The values the variables range over.
TypeOK ==
  /\ problem \in Problems
  /\ pc \in Locations
  /\ IsTimeStep(control)
  /\ t \in Int /\ dt \in Int /\ ct \in Int /\ cdt \in Int /\ stop \in Int
  /\ conv_failures \in Nat
  /\ take_more_time_steps \in BOOLEAN
  /\ dump_files \in BOOLEAN /\ clm_dump_files \in BOOLEAN
  /\ istep \in Nat /\ clm_next \in 1..problem.clm_reuse /\ forcing \in Nat
  /\ pressure \in [time : Int, ok : BOOLEAN]
  /\ old_pressure \in [time : Int, ok : BOOLEAN]
  /\ iteration_number \in Int /\ file_number \in Int
  /\ dump_index \in Nat /\ clm_dump_index \in Nat
  /\ trans_sum \in Int /\ reported \in Int
  /\ log \in Seq(LogEntries)
  /\ files \in Seq(Files)

\* No step is computed beyond the stop time of the call, whatever the time step
\* control, the dump interval and the land surface model ask for.
NeverPastStop == Transient /\ pc \in Running => t <= stop

\* Every solve integrates forward, over exactly dt, from a converged state: the
\* time, the step and the old vectors agree after any number of retries.
SolveFromConvergedState ==
  pc = "solve" => /\ dt > 0
                  /\ old_pressure.ok
                  /\ old_pressure.time + dt = t

\* No step begins from a state whose solve has failed: the run ends with it.
UnconvergedStateIsLast ==
  Transient /\ pc \in {"ready", "step", "select"} => pressure.ok

\* A run paced by a land surface model never computes past the time ct at which
\* the exchange with that model is due.
LsmNotOverstepped == Transient /\ problem.lsm /\ pc \in Running => t <= ct

\* The dump that is due next always lies ahead: no dump time is passed without
\* the dump, and the step cut for it has a positive length.
NoDumpMissed ==
  Transient /\ problem.dump_interval > 0 /\ pc \in {"step", "select"} =>
    t < DumpTime(problem, dump_index)

\* With a positive DumpInterval every dump is written at a multiple of the
\* interval from the start time, give or take TIME_EPSILON, or at the stop time
\* of the run.
DumpsOnIntervalOrAtStop ==
  \A i \in DOMAIN files :
    files[i].kind = "dump" /\ problem.dump_interval > 0 =>
      LET late == files[i].time - DumpTime(problem, files[i].index)
      IN  \/ -TimeEpsilon <= late /\ late <= TimeEpsilon
          \/ files[i].time = problem.stop_time

\* Output numbers: no file of an earlier time is overwritten, none of the numbers
\* from start_count up to file_number is skipped, and the log shown to the user
\* has the number and the time of each group of files.
FilesAndLogAgree ==
  /\ \A i, j \in DOMAIN files :
       i < j => \/ files[i].num < files[j].num
                \/ files[i].num = files[j].num /\ files[i].time = files[j].time
  /\ pc \notin {"setup", "exit"} =>
       LET numbered == {i \in DOMAIN files : files[i].kind # "end"}
       IN  /\ {files[i].num : i \in numbered} = problem.start_count..(file_number - 1)
           /\ problem.logging =>
                \A i \in numbered :
                  \E k \in DOMAIN log : /\ log[k].dumped = files[i].num
                                        /\ log[k].time = files[i].time

\* The last state a solve converged to, as far as its step has been finished.
Converged ==
  IF pc \in {"solve", "retry", "finish"} \/ ~pressure.ok THEN old_pressure ELSE pressure

\* The step of the attempt that a run keeps, and adds to its sums, although it failed:
\* the last one after max_failures.
KeptFailure == IF pc \in {"end", "returned", "done"} /\ ~pressure.ok THEN dt ELSE 0

\* The water balance outputs: the sums already written and the sums being
\* accumulated cover the time from the start to the last converged state, each
\* converged step once and no attempt that was retried.  A failed attempt is in
\* them only when max_failures ended the run with it, and then with its own step.
SumsCoverRun ==
  Transient /\ problem.print_sums /\ pc \notin {"setup", "exit"} =>
    /\ Converged.ok
    /\ reported + trans_sum = Converged.time - problem.start_time + KeptFailure
    /\ KeptFailure # 0 => conv_failures >= problem.max_failures

\* The log arrays have max_iterations + 1 elements.
LogWithinArray == Len(log) <= problem.max_iterations + 1

\* The meteorological forcing keeps step with the land surface model: at its
\* n-th turn the record loaded is number 1 + (n - 1) / clm_reuse.
ForcingInStep ==
  Transient /\ pc \in {"select", "retry", "solve", "finish"} =>
    LET turns == (ct - problem.start_time) \div cdt
    IN  /\ ct = problem.start_time + turns * cdt
        /\ forcing = 1 + ((turns - 1) \div problem.clm_reuse)

\* A run that comes to its end has reached the stop time or the iteration limit,
\* or its last solve has failed, or the batch job is out of time, or max_failures
\* is 0, which ends the run after its first attempt.
EndsForAReason ==
  pc = "done" => \/ t = stop
                 \/ iteration_number >= problem.max_iterations
                 \/ ~pressure.ok
                 \/ problem.time_limit
                 \/ problem.max_failures = 0

\* An attempt that is retried is retried from the same time with less than the
\* step that failed.
RetriesShrink ==
  [][pc = "retry" /\ pc' = "solve" => /\ t' - dt' = t - dt
                                      /\ dt' < dt]_vars

\* A step chosen by SelectTimeStep passes neither the next transition of the wells
\* nor that of the boundary conditions.
StepsEndAtTransitions ==
  [][pc = "select" /\ pc' = "solve" =>
       \A cycles \in {problem.well_cycles, problem.bc_cycles} :
         LET next == ComputeNextTransition(problem, t, cycles)
         IN  next > 0 => dt' <= next]_vars

\* A run without anything to compute (TimingInfo.StartCount < 0, start and stop
\* time equal, ...) makes no attempt to step.
NoStepWithoutState == pc # "crashed"

\* What the loop promises: SimulationClock, with the published state's time as its time.
Clock == INSTANCE SimulationClock WITH
  now    <- Published.time,
  goal   <- stop,
  valid  <- Published.ok,
  status <- (IF pc = "setup" THEN "idle"
             ELSE IF pc = "ready" THEN "loaded"
             ELSE IF pc \in {"end", "returned", "done", "exit", "crashed"} THEN "stopped"
             ELSE "running")

\* The time loop implements SimulationClock.
ImplementsClock == Clock!Spec
================================================================================
