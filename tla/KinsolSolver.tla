---------------------------- MODULE KinsolSolver ----------------------------
(***************************************************************************)
(* The nonlinear solves of the Richards solver: KinsolNonlinSolver calls    *)
(* KINSol, whose Newton iteration calls the Krylov solver SpgmrSolve for a  *)
(* step, a global strategy that takes the step, and KINStop, which decides  *)
(* whether to go on.  One behaviour is the series of solves of one run;     *)
(* the solver's memory lives from one to the next.                          *)
(*                                                                          *)
(* Vectors and norms are abstracted to what control tells apart: for the    *)
(* scaled max norm of the function at the pressure (uu) and at the trial    *)
(* point (unew), whether it is within 0.01 of the tolerance, within the     *)
(* tolerance, or above it; for every other comparison of reals, both        *)
(* outcomes.  at says where the function was evaluated last: the fluxes,    *)
(* velocities and work vectors that NlFunctionEval leaves behind are those  *)
(* of that point.                                                           *)
(*                                                                          *)
(* ParFlow gives KINSol no constraints, asks for a preconditioner set-up    *)
(* after MSBPRE = 1 iterations, and its callbacks always return 0, so the   *)
(* lsolve of KINLinSolDrv never returns 1 and its loop never goes round.    *)
(* An eta of exactly 1, with which SpgmrSolve returns at once with a zero   *)
(* step, is left out.                                                       *)
(*                                                                          *)
(* Decks is the set of input decks, records with                            *)
(*   mxiter    Solver.Nonlinear.MaxIter                                     *)
(*   strategy  Solver.Nonlinear.Globalization                               *)
(*   matvec    Solver.Nonlinear.UseJacobian                                 *)
(*   pc        Solver.Linear.Preconditioner is not NoPC                     *)
(*   maxl      Solver.Linear.KrylovDimension                                *)
(*   maxlrst   Solver.Linear.MaxRestarts                                    *)
(***************************************************************************)
EXTENDS Integers, FiniteSets

CONSTANTS
  Decks,
  MXNBCF,     \* beta-condition failures a solve may have; 10 in the code
  MaxLong,    \* consecutive steps of maximal length a solve may take; 5
  MaxTrials,  \* bound: evaluations of a line search before lambda underflows
  MaxRetries  \* bound: iterations past mxiter that a solve may make

ASSUME KinsolAssumption ==
  /\ MXNBCF \in Nat /\ MaxLong \in Nat \ {0}
  /\ MaxTrials \in Nat \ {0} /\ MaxRetries \in Nat
  /\ \A d \in Decks : /\ d.mxiter \in Nat \ {0}
                      /\ d.strategy \in {"InexactNewton", "LineSearch"}
                      /\ d.matvec \in BOOLEAN /\ d.pc \in BOOLEAN
                      /\ d.maxl \in Nat \ {0} /\ d.maxlrst \in Nat

\* The return values of KINSol (kinsol.h).
KINSOL_SUCCESS           == 1
KINSOL_INITIAL_GUESS_OK  == 2
KINSOL_LINESEARCH_BCFAIL == 7
KINSOL_KRYLOV_FAILURE    == 8

VARIABLES
  deck,
  stage,    \* where in a solve the program is
  uu,       \* class of the function's norm at the pressure
  unew,     \* class of the function's norm at the trial point
  at,       \* where the function was evaluated last: "uu", "unew" or "else"
  jac,      \* the Jacobian in StateJac belongs to "uu" or is "old"
  new_uu,   \* g_new_uu: the next product evaluates the Jacobian first
  pcAt,     \* the preconditioner belongs to "uu" or is "old"
  ctl,      \* nnilpre, precondcurrent, pthrsh ("high" above 1.5), ncscmx
  kry,      \* SpgmrSolve: vectors l of this cycle, cycles ntries before it
  ls,       \* global strategy: lambda is 1, evaluations, result, maxStepTaken
  cnt,      \* the counters of kin_mem and kinspgmr_mem
  iopt,     \* optional outputs, an array of the caller that outlives a solve
  ret,      \* what KinsolNonlinSolver returned; NotCalled before the first call
  work,     \* history: what this solve really did
  guessed,  \* history: this solve accepted its initial guess
  step      \* history: the last step judged was "tiny", within scsteptol

memory  == <<jac, new_uu, pcAt, ctl>>
results == <<iopt, ret, guessed, step>>
vars == <<deck, stage, uu, unew, at, memory, kry, ls, cnt, results, work>>

Norms == {"guess", "small", "large"}
Counters == {"nni", "nfe", "nbcf", "nbktrk", "npe", "nli", "nps", "ncfl"}
Zero == [c \in Counters |-> 0]
Added(f, g) == [c \in Counters |-> f[c] + g[c]]

NoSearch == [full |-> TRUE, n |-> 0, ret |-> 0, maxStepTaken |-> FALSE]

setupNonNull == deck.pc

\* KINSolInit clears it on every call, after KINSpgmr has set it once.
precondflag == FALSE

\* Iterations between set-ups of the preconditioner that ParFlow asks for.
MSBPRE == 1

NotCalled == -1

\* The counters after the work d, and the history of the solve with it.
Count(d) == /\ cnt' = Added(cnt, d)
            /\ work' = Added(work, d)

\* KINSol returns code: it leaves its counters in iopt, and KinsolNonlinSolver
\* adds them to the totals of the run, which are not kept here, and takes two of
\* the codes for success.
ReturnedEarlyStop(code) ==             \* seeded fault: 3 is accepted as well
  IF code \in {KINSOL_SUCCESS, KINSOL_INITIAL_GUESS_OK, 3} THEN 0 ELSE code

Returned(code) ==
  IF code \in {KINSOL_SUCCESS, KINSOL_INITIAL_GUESS_OK} THEN 0 ELSE code

Return(code, outputs) ==
  /\ stage' = "idle"
  /\ iopt' = outputs
  /\ ret' = Returned(code)
--------------------------------------------------------------------------------
Init ==
  /\ deck \in Decks
  /\ stage = "idle"
  /\ uu = "large" /\ unew = "large" /\ at = "else"
  /\ jac = "old" /\ new_uu = FALSE /\ pcAt = "old"
  /\ ctl = [nnilpre |-> 0, precondcurrent |-> FALSE, pthrsh |-> "low", ncscmx |-> 0]
  /\ kry = [l |-> 0, ntries |-> 0]
  /\ ls = NoSearch
  /\ cnt = Zero /\ iopt = Zero /\ work = Zero
  /\ ret = NotCalled /\ guessed = FALSE /\ step = "normal"

\* KINSolInit resets its own counters; those of the linear solver are reset by
\* KINSpgmrInit, which KINSol calls only if the iteration begins.
NewCounters == [cnt EXCEPT !.nni = 0, !.nfe = 1, !.nbcf = 0, !.nbktrk = 0]

KINSpgmrInitKeeps(c) == c              \* seeded fault: nothing is reset

KINSpgmrInit(c) == [c EXCEPT !.npe = 0, !.nli = 0, !.nps = 0, !.ncfl = 0]

\* A call of KinsolNonlinSolver up to the test of the initial guess: the
\* pressure, the time and the step are new, so no matrix belongs to them.
Call ==
  /\ stage = "idle"
  /\ at' = "uu" /\ jac' = "old" /\ pcAt' = "old"
  /\ work' = [Zero EXCEPT !.nfe = 1]
  /\ step' = "normal"
  /\ UNCHANGED <<deck, unew, new_uu, kry, ls>>

ClearedOutputs == [iopt EXCEPT !.nni = 0, !.nfe = 0, !.nbktrk = 0]

\* KINSolInit returns 1: the guess is accepted, and the outputs that KINSolInit
\* does not clear are still those of the solve before.
KINInitialStop ==
  /\ Call
  /\ uu' = "guess"
  /\ cnt' = NewCounters
  /\ ctl' = [ctl EXCEPT !.nnilpre = 0]
  /\ Return(KINSOL_INITIAL_GUESS_OK, ClearedOutputs)
  /\ guessed' = TRUE

\* KINSolInit returns 0, and KINSol initialises the linear solver.
KINSolInit ==
  /\ Call
  /\ stage' = "newton"
  /\ uu' \in Norms \ {"guess"}
  /\ cnt' = KINSpgmrInit(NewCounters)
  /\ ctl' = [ctl EXCEPT !.nnilpre = 0, !.ncscmx = 0, !.pthrsh = "high"]
  /\ iopt' = KINSpgmrInit(ClearedOutputs)
  /\ guessed' = FALSE
  /\ UNCHANGED ret
--------------------------------------------------------------------------------
\* The head of KINSol's loop, KINLinSolDrv up to the call of lsolve, and the
\* beginning of KINSpgmrSolve: a set-up of the preconditioner at uu if one is
\* due, and the note that the Jacobian has to be evaluated.
NewUuKept == new_uu                    \* seeded fault: the flag is not raised

NewUu == TRUE

SetupDue(nni) == ctl.pthrsh = "high" \/ nni - ctl.nnilpre >= MSBPRE

NewtonIteration ==
  LET nni   == cnt.nni + 1
      setup == SetupDue(nni) /\ setupNonNull
  IN  /\ stage = "newton"
      /\ stage' = "krylov"
      /\ Count([Zero EXCEPT !.nni = 1, !.npe = IF setup THEN 1 ELSE 0])
      /\ ctl' = [ctl EXCEPT !.pthrsh = IF SetupDue(nni) THEN "high" ELSE @,
                            !.precondcurrent = setup,
                            !.nnilpre = IF setup THEN nni ELSE @]
      /\ pcAt' = IF setup THEN "uu" ELSE pcAt
      /\ new_uu' = NewUu
      /\ kry' = [l |-> 0, ntries |-> 0]
      /\ unew' = "large"                   \* work space for the right-hand side
      /\ UNCHANGED <<deck, uu, at, jac, ls, results>>

\* KINSpgmrAtimes: the Jacobian's product, or a difference quotient that
\* evaluates the function elsewhere.
KINSpgmrAtimes ==
  /\ jac' = IF deck.matvec /\ new_uu THEN "uu" ELSE jac
  /\ new_uu' = (new_uu /\ ~deck.matvec)
  /\ at' = IF deck.matvec THEN at ELSE "else"

\* Function evaluations of n products.
Quotients(n) == IF deck.matvec THEN 0 ELSE n

\* Inner iterations of SpgmrSolve with the one under way; every one solves with
\* the preconditioner once.
Inner == kry.ntries * deck.maxl + kry.l + 1
Psolves(n) == IF deck.pc THEN n ELSE 0

\* SpgmrSolve goes on: with the next Krylov vector, or with the next cycle.
\* Seeded fault: one cycle too many.
KrylovIterationRestarts ==
  /\ stage = "krylov"
  /\ \/ kry.l + 1 < deck.maxl /\ kry' = [kry EXCEPT !.l = @ + 1]
     \/ /\ kry.l + 1 = deck.maxl /\ kry.ntries <= deck.maxlrst
        /\ kry' = [l |-> 0, ntries |-> kry.ntries + 1]
  /\ KINSpgmrAtimes
  /\ Count([Zero EXCEPT !.nfe = Quotients(1)])
  /\ UNCHANGED <<deck, stage, uu, unew, pcAt, ctl, ls, results>>

KrylovIteration ==
  /\ stage = "krylov"
  /\ \/ kry.l + 1 < deck.maxl /\ kry' = [kry EXCEPT !.l = @ + 1]
     \/ /\ kry.l + 1 = deck.maxl /\ kry.ntries < deck.maxlrst
        /\ kry' = [l |-> 0, ntries |-> kry.ntries + 1]
  /\ KINSpgmrAtimes
  /\ Count([Zero EXCEPT !.nfe = Quotients(1)])
  /\ UNCHANGED <<deck, stage, uu, unew, pcAt, ctl, ls, results>>

\* The end of SpgmrSolve and the rest of KINSpgmrSolve, which forms one more
\* product.  A residual that is reduced but above eps still gives a step, and
\* counts as a convergence failure.
LinearWork(reduced, failed) ==
  [Zero EXCEPT !.nli  = Inner,
               !.nps  = Psolves(Inner + (IF failed THEN 0 ELSE 1)),
               !.ncfl = IF reduced \/ failed THEN 1 ELSE 0,
               !.nfe  = Quotients(2)]

LastVector == kry.l + 1 = deck.maxl /\ kry.ntries = deck.maxlrst

KINSpgmrSolve ==
  /\ stage = "krylov"
  /\ stage' = "step"
  /\ \E reduced \in {FALSE} \cup {LastVector} : Count(LinearWork(reduced, FALSE))
  /\ KINSpgmrAtimes
  /\ UNCHANGED <<deck, uu, unew, pcAt, ctl, kry, ls, results>>

\* No step: Gram-Schmidt or the QR factorisation breaks down, or the residual is
\* not reduced at all.  KINSol returns at once; uu is what it was.
KINSpgmrSolveFails ==
  /\ stage = "krylov"
  /\ Count(LinearWork(FALSE, TRUE))
  /\ KINSpgmrAtimes
  /\ Return(KINSOL_KRYLOV_FAILURE, cnt')
  /\ UNCHANGED <<deck, uu, unew, pcAt, ctl, kry, ls, guessed, step>>
--------------------------------------------------------------------------------
\* KINInexactNewton takes the whole step.
KINInexactNewton ==
  /\ stage = "step" /\ deck.strategy = "InexactNewton"
  /\ stage' = "stop"
  /\ unew' \in Norms /\ at' = "unew"
  /\ \E long \in BOOLEAN : ls' = [ls EXCEPT !.maxStepTaken = long]
  /\ Count([Zero EXCEPT !.nfe = 1])
  /\ UNCHANGED <<deck, uu, memory, kry, results>>

\* KINLineSearch: an evaluation that does not reduce the norm enough is followed
\* by one with a smaller lambda while lambda is not below rlmin.
Backtrack ==
  /\ stage = "step" /\ deck.strategy = "LineSearch"
  /\ ls.n + 1 < MaxTrials
  /\ ls' = [ls EXCEPT !.full = FALSE, !.n = @ + 1]
  /\ at' = "unew" /\ unew' = "large"
  /\ Count([Zero EXCEPT !.nfe = 1])
  /\ UNCHANGED <<deck, stage, uu, memory, kry, results>>

\* The line search ends after its n-th evaluation.  nbktrk is set, not added to.
EndOfSearch(n, result, long, d) ==
  /\ stage' = "stop"
  /\ ls' = [ls EXCEPT !.n = n, !.ret = result, !.maxStepTaken = long]
  /\ cnt' = [Added(cnt, d) EXCEPT !.nbktrk = n - 1]
  /\ work' = Added(work, d)

\* lambda below rlmin: unew is the pressure again, evaluated once more.
AtAfterFailureTrial == "else"          \* seeded fault: no second evaluation

AtAfterFailure == "unew"

LineSearchFails ==
  /\ stage = "step" /\ deck.strategy = "LineSearch"
  /\ unew' = uu /\ at' = AtAfterFailure
  /\ EndOfSearch(ls.n + 2, 1, FALSE, [Zero EXCEPT !.nfe = 2])
  /\ UNCHANGED <<deck, uu, memory, kry, results>>

\* The alpha condition holds: with a lambda of 1 whether or not the beta
\* condition does, with a smaller one if it does.
LineSearchAccepts ==
  /\ stage = "step" /\ deck.strategy = "LineSearch"
  /\ unew' \in Norms /\ at' = "unew"
  /\ \E long \in BOOLEAN : EndOfSearch(ls.n + 1, 0, long, [Zero EXCEPT !.nfe = 1])
  /\ UNCHANGED <<deck, uu, memory, kry, results>>

\* The alpha condition holds for a smaller lambda and the beta condition does
\* not: lambda is bisected upwards.
Bisect ==
  /\ stage = "step" /\ deck.strategy = "LineSearch" /\ ~ls.full
  /\ stage' = "bisect"
  /\ ls' = [ls EXCEPT !.n = @ + 1]
  /\ at' = "unew" /\ unew' = "large"
  /\ Count([Zero EXCEPT !.nfe = 1])
  /\ UNCHANGED <<deck, uu, memory, kry, results>>

BisectAgain ==
  /\ stage = "bisect"
  /\ ls.n + 1 < MaxTrials + 2
  /\ ls' = [ls EXCEPT !.n = @ + 1]
  /\ Count([Zero EXCEPT !.nfe = 1])
  /\ UNCHANGED <<deck, stage, uu, unew, at, memory, kry, results>>

BisectionAccepts ==
  /\ stage = "bisect"
  /\ unew' \in Norms
  /\ \E long \in BOOLEAN : EndOfSearch(ls.n + 1, 0, long, [Zero EXCEPT !.nfe = 1])
  /\ UNCHANGED <<deck, uu, at, memory, kry, results>>

\* Both conditions cannot be met: the last point that met the first is taken.
BetaConditionFails ==
  /\ stage = "bisect"
  /\ unew' \in Norms
  /\ \E long \in BOOLEAN :
       EndOfSearch(ls.n + 2, 0, long, [Zero EXCEPT !.nfe = 2, !.nbcf = 1])
  /\ UNCHANGED <<deck, uu, at, memory, kry, results>>
--------------------------------------------------------------------------------
\* KINStop: what it returns, and what it leaves in the solver's memory.
Verdict(code, pthrsh, ncscmx, length) ==
  [code |-> code, pthrsh |-> pthrsh, ncscmx |-> ncscmx, step |-> length]

NormalStep ==
  LET n == IF ls.maxStepTaken THEN ctl.ncscmx + 1 ELSE 0
  IN  IF cnt.nni >= deck.mxiter THEN {Verdict(4, ctl.pthrsh, ctl.ncscmx, "normal")}
      ELSE IF n = MaxLong THEN {Verdict(5, ctl.pthrsh, n, "normal")}
      ELSE {Verdict(0, pthrsh, n, "normal") : pthrsh \in {"low", "high"}}

TinyStepRetried ==                     \* seeded fault: always tried again
  {Verdict(0, "high", ctl.ncscmx, "tiny")}

TinyStep ==
  IF ctl.precondcurrent THEN {Verdict(2, ctl.pthrsh, ctl.ncscmx, "tiny")}
  ELSE IF cnt.nni < deck.mxiter + MaxRetries
  THEN {Verdict(0, "high", ctl.ncscmx, "tiny")}
  ELSE {}

KINStop ==
  IF ls.ret = 1
  THEN IF precondflag /\ setupNonNull /\ ~ctl.precondcurrent
       THEN {Verdict(0, "high", ctl.ncscmx, "normal")}
       ELSE {Verdict(3, ctl.pthrsh, ctl.ncscmx, "normal")}
  ELSE IF unew \in {"guess", "small"}
  THEN {Verdict(KINSOL_SUCCESS, ctl.pthrsh, ctl.ncscmx, "normal")}
  ELSE TinyStep \cup NormalStep

\* The rest of KINSol's loop.  Whatever KINStop says, uu becomes unew.
TooManyBetaFailures ==
  /\ stage = "stop" /\ cnt.nbcf > MXNBCF
  /\ Return(KINSOL_LINESEARCH_BCFAIL, cnt)
  /\ ls' = NoSearch
  /\ UNCHANGED <<deck, uu, unew, at, memory, kry, cnt, guessed, work, step>>

EndOfIteration ==
  /\ stage = "stop" /\ cnt.nbcf <= MXNBCF
  /\ \E v \in KINStop :
       /\ ctl' = [ctl EXCEPT !.pthrsh = v.pthrsh, !.ncscmx = v.ncscmx]
       /\ step' = v.step
       /\ IF v.code = 0
          THEN stage' = "newton" /\ UNCHANGED <<iopt, ret>>
          ELSE Return(v.code, cnt)
  /\ uu' = unew
  /\ at' = IF at = "unew" THEN "uu" ELSE at
  /\ jac' = IF ls.ret = 1 THEN jac ELSE "old"
  /\ pcAt' = IF ls.ret = 1 THEN pcAt ELSE "old"
  /\ ls' = NoSearch
  /\ UNCHANGED <<deck, unew, new_uu, kry, cnt, guessed, work>>

Next ==
  \/ KINInitialStop \/ KINSolInit \/ NewtonIteration
  \/ KrylovIteration \/ KINSpgmrSolve \/ KINSpgmrSolveFails
  \/ KINInexactNewton
  \/ Backtrack \/ LineSearchFails \/ LineSearchAccepts
  \/ Bisect \/ BisectAgain \/ BisectionAccepts \/ BetaConditionFails
  \/ TooManyBetaFailures \/ EndOfIteration

Spec == Init /\ [][Next]_vars
--------------------------------------------------------------------------------
\* The values the variables range over: a Krylov cycle stays within maxl vectors,
\* restarts within maxlrst.
WellTyped ==
  /\ deck \in Decks
  /\ stage \in {"idle", "newton", "krylov", "step", "bisect", "stop"}
  /\ uu \in Norms /\ unew \in Norms
  /\ at \in {"uu", "unew", "else"}
  /\ jac \in {"uu", "old"} /\ pcAt \in {"uu", "old"} /\ new_uu \in BOOLEAN
  /\ ctl \in [nnilpre : Nat, precondcurrent : BOOLEAN, pthrsh : {"low", "high"},
              ncscmx : Nat]
  /\ kry \in [l : Nat, ntries : Nat]
  /\ kry.l < deck.maxl /\ kry.ntries <= deck.maxlrst
  /\ ls \in [full : BOOLEAN, n : Nat, ret : {0, 1}, maxStepTaken : BOOLEAN]
  /\ cnt \in [Counters -> Nat] /\ iopt \in [Counters -> Nat]
  /\ work \in [Counters -> Nat]
  /\ ret \in {NotCalled} \cup 0..8 /\ guessed \in BOOLEAN /\ step \in {"tiny", "normal"}

\* Failures of the beta condition are counted per solve: an iteration that goes on has
\* at most MXNBCF behind it, and the one that exceeds them ends the solve.
BetaFailuresBounded ==
  cnt.nbcf <= IF stage \in {"stop", "idle"} THEN MXNBCF + 1 ELSE MXNBCF

\* The variables have their types, and the counts of Krylov vectors, restarts and
\* beta-condition failures their limits (SpgmrSolve, KINSol).
TypeOK == WellTyped /\ BetaFailuresBounded

Over == stage = "idle" /\ ret # NotCalled

\* A pressure the time loop accepts meets the tolerance, or was the end of a
\* step within the step tolerance taken with a current preconditioner; no other
\* way out of KINSol is mistaken for convergence by KinsolNonlinSolver.
AcceptedForAReason ==
  Over /\ ret = 0 => uu \in {"guess", "small"} \/ (step = "tiny" /\ deck.pc)

\* What kinsol.h says of the two codes that KinsolNonlinSolver takes for
\* success: the function is within the tolerance at the pressure returned.
\* KINStop's 2 for a tiny step is the code of an accepted initial guess.
SuccessMeansConverged ==
  Over /\ ret = 0 => uu \in {"guess", "small"}

\* Unless the solve was broken off in the linear solver or by failures of the
\* beta condition, the function was last evaluated at the pressure returned, so
\* the velocities and overland fluxes that the time loop writes next to it are
\* its own.  Line search and difference quotients evaluate it elsewhere.
FluxesOfReturnedPressure ==
  Over /\ ret \notin {KINSOL_LINESEARCH_BCFAIL, KINSOL_KRYLOV_FAILURE} => at = "uu"

\* Every step is computed with the Jacobian and the preconditioner of the
\* pressure it starts from, never with those of an earlier iterate or solve.
LinearSystemCurrent ==
  stage \in {"step", "bisect", "stop"} \/ (stage = "krylov" /\ kry.l + kry.ntries > 0)
    => (deck.matvec => jac = "uu") /\ (deck.pc => pcAt = "uu")

\* With a preconditioner a solve makes at most MaxIter nonlinear iterations.
MaxIterWithPC == deck.pc => cnt.nni <= deck.mxiter

\* What the manual says of MaxIter, with or without a preconditioner.
NeverPastMaxIter == cnt.nni <= deck.mxiter

\* The outputs that kinsol.log reports for a solve, and adds to its totals, are
\* the work of that solve: nothing of an earlier one is in them.  Exempt are
\* solves that accept the initial guess, and backtracks, of which only those of
\* the last line search are reported.
OutputsOfThisSolve ==
  Over /\ ~guessed => \A c \in Counters \ {"nbktrk"} : iopt[c] = work[c]
================================================================================
