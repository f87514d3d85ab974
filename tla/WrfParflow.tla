------------------------------- MODULE WrfParflow -------------------------------
(***************************************************************************)
(* ParFlow driven by the WRF atmosphere model (parflow_lib/wrf_parflow.c): *)
(* wrfparflowinit_ sets the Richards solver up once, and every call of     *)
(* wrfparflowadvance_ runs AdvanceRichards from WRF's current time over    *)
(* WRF's step, with a time step control of its own.  AdvanceRichards       *)
(* returns no status, so WRF goes on calling.                              *)
(***************************************************************************)
EXTENDS RichardsTimeLoop

CONSTANTS
  WrfDt,      \* the step of WRF, in ticks
  MaxCalls    \* bound: number of calls WRF makes

ASSUME WrfAssumption == WrfDt \in Nat \ {0} /\ MaxCalls \in Nat

\* WRF's clock, which is also the time it has asked ParFlow to reach.
wrf_time == IF pc \in {"setup", "ready"} THEN problem.start_time ELSE stop

\* initial_step, growth_factor, max_step and min_step (dt * 1e-8, one tick here).
WrfControl == [type |-> "Growth", initial |-> WrfDt, factor |-> 2,
               min |-> 1, max |-> WrfDt]

wrfparflowinit == Setup

\* A call for the next step of WRF, whatever the call before has come to.
wrfparflowadvance ==
  /\ pc \in {"ready", "returned"}
  /\ wrf_time < problem.start_time + MaxCalls * WrfDt
  /\ Advance(wrf_time, wrf_time + WrfDt, WrfControl)

WrfNext == wrfparflowinit \/ wrfparflowadvance \/ AdvanceStep

WrfSpec == Init /\ [][WrfNext]_vars
--------------------------------------------------------------------------------
\* ParFlow's time and state are those WRF has asked for whenever WRF gets control
\* back, a whole number of its steps from the start, unless the last solve of this
\* call failed, MaxIter time steps have been taken or the batch job is out of time.
InStepWithWrf ==
  pc = "returned" /\ pressure.ok /\ iteration_number < problem.max_iterations
    /\ ~problem.time_limit /\ problem.max_failures > 0 =>
    /\ t = wrf_time /\ pressure.time = wrf_time
    /\ (t - problem.start_time) % WrfDt = 0
    /\ t <= problem.start_time + MaxCalls * WrfDt
================================================================================
