------------------------- MODULE KinsolSolver_proofs -------------------------
(***************************************************************************)
(* Proofs about the nonlinear solver, for every set of input decks, every   *)
(* limit of the solver, and any number of solves.                           *)
(***************************************************************************)
EXTENDS KinsolSolver, TLAPS

Newton == {"krylov", "step", "bisect", "stop"}

\* The parts of the inductive invariant.  Iterations: without retries for a tiny
\* step, which a current preconditioner rules out, the next iteration begins
\* only below the limit.
Iterations ==
  /\ ctl.nnilpre <= cnt.nni
  /\ ctl.precondcurrent => deck.pc
  /\ deck.pc => /\ cnt.nni <= deck.mxiter
                /\ stage = "newton" => cnt.nni < deck.mxiter
                /\ stage \in Newton => ctl.precondcurrent /\ pcAt = "uu"

\* The Jacobian is that of uu from the first product of a linear solve on.
Matrices ==
  deck.matvec => /\ stage = "krylov" => new_uu \/ jac = "uu"
                 /\ stage = "krylov" /\ kry.l + kry.ntries > 0 => jac = "uu"
                 /\ stage \in {"step", "bisect", "stop"} => jac = "uu"

\* Every global strategy ends with an evaluation at its result.
Evaluated == stage \in {"bisect", "stop"} => at = "unew"

\* What the counters say while a solve is under way.
Counted ==
  stage # "idle" => \A c \in Counters \ {"nbktrk"} : cnt[c] = work[c]

\* How a solve may have ended.
Ends == AcceptedForAReason /\ FluxesOfReturnedPressure /\ OutputsOfThisSolve

IndInv == WellTyped /\ Iterations /\ Matrices /\ Evaluated /\ Counted /\ Ends

CtlType == [nnilpre : Nat, precondcurrent : BOOLEAN, pthrsh : {"low", "high"}, ncscmx : Nat]
LsType == [full : BOOLEAN, n : Nat, ret : {0, 1}, maxStepTaken : BOOLEAN]

\* Sums of counters are counters.
LEMMA AddedType ==
  ASSUME NEW f \in [Counters -> Nat], NEW g \in [Counters -> Nat]
  PROVE  /\ Added(f, g) \in [Counters -> Nat]
         /\ \A c \in Counters : Added(f, g)[c] = f[c] + g[c]
BY DEF Added

\* The increments of the actions are counters.
LEMMA ZeroType ==
  /\ Zero \in [Counters -> Nat]
  /\ \A c \in Counters : Zero[c] = 0
  /\ \A n \in Nat, m \in Nat :
       /\ [Zero EXCEPT !.nfe = n] \in [Counters -> Nat]
       /\ [Zero EXCEPT !.nni = n, !.npe = m] \in [Counters -> Nat]
       /\ [Zero EXCEPT !.nfe = n, !.nbcf = m] \in [Counters -> Nat]
BY DEF Zero, Counters

\* The inductive invariant holds before the first solve.
LEMMA InitIndInv == Init => IndInv
<1> SUFFICES ASSUME Init PROVE IndInv
  OBVIOUS
<1> USE DEF Init
<1>1. WellTyped
  <2>1. cnt \in [Counters -> Nat] /\ iopt \in [Counters -> Nat] /\ work \in [Counters -> Nat]
    BY ZeroType
  <2>2. kry.l < deck.maxl /\ kry.ntries <= deck.maxlrst
    BY KinsolAssumption
  <2>3. kry \in [l : Nat, ntries : Nat]
    OBVIOUS
  <2>4. ctl \in [nnilpre : Nat, precondcurrent : BOOLEAN, pthrsh : {"low", "high"}, ncscmx : Nat]
    OBVIOUS
  <2>5. ls \in [full : BOOLEAN, n : Nat, ret : {0, 1}, maxStepTaken : BOOLEAN]
    BY DEF NoSearch
  <2> QED
    BY <2>1, <2>2, <2>3, <2>4, <2>5 DEF WellTyped, Norms, NotCalled
<1>2. Iterations
  <2>1. cnt.nni = 0
    BY ZeroType DEF Counters
  <2> QED
    BY <2>1, KinsolAssumption DEF Iterations, Newton
<1>3. Matrices /\ Evaluated /\ Counted /\ Ends
  BY DEF Matrices, Evaluated, Counted, Ends, AcceptedForAReason,
         FluxesOfReturnedPressure, OutputsOfThisSolve, Over
<1> QED
  BY <1>1, <1>2, <1>3 DEF IndInv

\* What a counted step does to counters and history.
LEMMA CountFacts ==
  ASSUME WellTyped, NEW d \in [Counters -> Nat], Count(d)
  PROVE  /\ cnt' \in [Counters -> Nat] /\ work' \in [Counters -> Nat]
         /\ \A c \in Counters : cnt'[c] = cnt[c] + d[c] /\ work'[c] = work[c] + d[c]
         /\ Counted => \A c \in Counters \ {"nbktrk"} :
                          stage # "idle" => cnt'[c] = work'[c]
<1>1. cnt \in [Counters -> Nat] /\ work \in [Counters -> Nat]
  BY DEF WellTyped
<1>2. \A c \in Counters : cnt'[c] = cnt[c] + d[c] /\ work'[c] = work[c] + d[c]
  BY <1>1, AddedType DEF Count
<1> QED
  BY <1>1, <1>2, AddedType DEF Count, Counted

\* The counters a solve begins with.
LEMMA NewCountersFacts ==
  ASSUME WellTyped
  PROVE  /\ NewCounters \in [Counters -> Nat]
         /\ NewCounters.nni = 0
         /\ KINSpgmrInit(NewCounters) \in [Counters -> Nat]
         /\ \A c \in Counters :
              KINSpgmrInit(NewCounters)[c] = [Zero EXCEPT !.nfe = 1][c]
         /\ ClearedOutputs \in [Counters -> Nat]
         /\ KINSpgmrInit(ClearedOutputs) \in [Counters -> Nat]
BY DEF WellTyped, NewCounters, KINSpgmrInit, ClearedOutputs, Counters, Zero

\* An accepted initial guess (KINInitialStop) keeps the inductive invariant.
LEMMA KINInitialStopInv == IndInv /\ KINInitialStop => IndInv'
<1> SUFFICES ASSUME IndInv, KINInitialStop PROVE IndInv'
  OBVIOUS
<1> USE DEF KINInitialStop, Call, Return
<1>0. WellTyped /\ deck' = deck /\ stage' = "idle" /\ ret' = 0
  BY DEF IndInv, Returned, KINSOL_SUCCESS, KINSOL_INITIAL_GUESS_OK
<1>1. WellTyped'
  <2>1. cnt' \in [Counters -> Nat] /\ iopt' \in [Counters -> Nat] /\ work' \in [Counters -> Nat]
    BY <1>0, NewCountersFacts, ZeroType
  <2>2. ctl' \in CtlType
    BY <1>0 DEF WellTyped, CtlType
  <2>3. ret' \in {NotCalled} \cup 0..8 /\ uu' \in Norms /\ guessed' \in BOOLEAN
    BY <1>0 DEF Norms
  <2> QED
    BY <1>0, <2>1, <2>2, <2>3 DEF WellTyped, CtlType
<1>2. Iterations'
  <2>1. ctl'.nnilpre = 0 /\ ctl'.precondcurrent = ctl.precondcurrent /\ cnt'.nni = 0
    BY <1>0, NewCountersFacts DEF WellTyped
  <2> QED
    BY <1>0, <2>1, KinsolAssumption DEF IndInv, Iterations, Newton, WellTyped
<1>3. Matrices' /\ Evaluated' /\ Counted'
  BY <1>0 DEF Matrices, Evaluated, Counted
<1>4. Ends'
  BY <1>0 DEF Ends, AcceptedForAReason, FluxesOfReturnedPressure, OutputsOfThisSolve, Over
<1> QED
  BY <1>1, <1>2, <1>3, <1>4 DEF IndInv

\* The beginning of a solve (KINSolInit, KINSpgmrInit) keeps it.
LEMMA KINSolInitInv == IndInv /\ KINSolInit => IndInv'
<1> SUFFICES ASSUME IndInv, KINSolInit PROVE IndInv'
  OBVIOUS
<1> USE DEF KINSolInit, Call
<1>0. WellTyped /\ deck' = deck /\ stage' = "newton"
  BY DEF IndInv
<1>1. WellTyped'
  <2>1. cnt' \in [Counters -> Nat] /\ iopt' \in [Counters -> Nat] /\ work' \in [Counters -> Nat]
    BY <1>0, NewCountersFacts, ZeroType
  <2>2. ctl' \in CtlType
    BY <1>0 DEF WellTyped, CtlType
  <2> QED
    BY <1>0, <2>1, <2>2 DEF WellTyped, Norms, CtlType
<1>2. Iterations'
  <2>1. ctl'.nnilpre = 0 /\ ctl'.precondcurrent = ctl.precondcurrent
    BY <1>0 DEF WellTyped
  <2>2. cnt'.nni = 0
    BY <1>0, NewCountersFacts DEF Zero, Counters
  <2> QED
    BY <1>0, <2>1, <2>2, KinsolAssumption DEF IndInv, Iterations, Newton, WellTyped
<1>3. Matrices' /\ Evaluated' /\ Ends'
  BY <1>0 DEF Matrices, Evaluated, Ends, AcceptedForAReason, FluxesOfReturnedPressure,
              OutputsOfThisSolve, Over
<1>4. Counted'
  BY <1>0, NewCountersFacts DEF Counted
<1> QED
  BY <1>1, <1>2, <1>3, <1>4 DEF IndInv

\* The head of KINSol's loop, with the set-up of the preconditioner, keeps it.
LEMMA NewtonIterationInv == IndInv /\ NewtonIteration => IndInv'
<1> SUFFICES ASSUME IndInv, NewtonIteration PROVE IndInv'
  OBVIOUS
<1> DEFINE nni   == cnt.nni + 1
           setup == SetupDue(nni) /\ setupNonNull
           d     == [Zero EXCEPT !.nni = 1, !.npe = IF setup THEN 1 ELSE 0]
<1>0. WellTyped /\ deck' = deck /\ stage = "newton" /\ stage' = "krylov" /\ ret' = ret
  BY DEF IndInv, NewtonIteration, results
<1>1. d \in [Counters -> Nat] /\ d.nni = 1 /\ Count(d)
  BY DEF NewtonIteration, Zero, Counters
<1>2. SetupDue(nni)
  BY <1>0 DEF IndInv, Iterations, SetupDue, MSBPRE, WellTyped, CtlType, Counters
<1>3. /\ ctl' \in CtlType
      /\ ctl'.precondcurrent = deck.pc
      /\ ctl'.nnilpre = IF deck.pc THEN nni ELSE ctl.nnilpre
  <2>2. deck.pc \in BOOLEAN /\ nni \in Nat
    BY <1>0, KinsolAssumption DEF WellTyped, Counters
  <2>1. SetupDue(nni) = TRUE /\ setup = deck.pc
    <3>1. SetupDue(nni) = TRUE
      BY <1>2 DEF SetupDue
    <3> QED
      BY <2>2, <3>1 DEF setupNonNull
  <2>3. ctl' = [ctl EXCEPT !.pthrsh = "high", !.precondcurrent = deck.pc,
                           !.nnilpre = IF deck.pc THEN nni ELSE @]
    BY <2>1 DEF NewtonIteration
  <2> QED
    BY <1>0, <2>2, <2>3 DEF WellTyped, CtlType
<1>4. WellTyped'
  <2>1. cnt' \in [Counters -> Nat] /\ work' \in [Counters -> Nat]
    BY <1>0, <1>1, CountFacts
  <2>2. kry' \in [l : Nat, ntries : Nat] /\ kry'.l < deck.maxl /\ kry'.ntries <= deck.maxlrst
    BY <1>0, KinsolAssumption DEF NewtonIteration, WellTyped
  <2>3. new_uu' \in BOOLEAN /\ pcAt' \in {"uu", "old"} /\ unew' \in Norms
    BY <1>0 DEF NewtonIteration, WellTyped, NewUu, Norms
  <2> QED
    BY <1>0, <1>3, <2>1, <2>2, <2>3 DEF NewtonIteration, WellTyped, results, CtlType
<1>5. Iterations'
  <2>1. cnt'.nni = cnt.nni + 1 /\ cnt.nni \in Nat
    BY <1>0, <1>1, CountFacts DEF Counters, WellTyped
  <2>2. deck.pc => pcAt' = "uu"
    BY <1>2 DEF NewtonIteration, setupNonNull
  <2>3. deck.mxiter \in Nat
    BY <1>0, KinsolAssumption DEF WellTyped
  <2>4. ctl.nnilpre \in Nat
    BY <1>0 DEF WellTyped
  <2> QED
    BY <1>0, <1>3, <2>1, <2>2, <2>3, <2>4 DEF IndInv, Iterations, Newton
<1>6. Matrices'
  BY <1>0 DEF Matrices, NewtonIteration, NewUu
<1>7. Evaluated' /\ Ends'
  BY <1>0 DEF Evaluated, Ends, AcceptedForAReason, FluxesOfReturnedPressure,
              OutputsOfThisSolve, Over
<1>8. Counted'
  BY <1>0, <1>1, CountFacts DEF IndInv, Counted
<1> QED
  BY <1>4, <1>5, <1>6, <1>7, <1>8 DEF IndInv

\* After a product the Jacobian, if one is used, is that of uu.
LEMMA AtimesFacts ==
  ASSUME IndInv, stage = "krylov", KINSpgmrAtimes
  PROVE  /\ jac' \in {"uu", "old"} /\ new_uu' \in BOOLEAN /\ at' \in {"uu", "unew", "else"}
         /\ deck.matvec => jac' = "uu"
<1>1. jac \in {"uu", "old"} /\ new_uu \in BOOLEAN /\ at \in {"uu", "unew", "else"}
  BY DEF IndInv, WellTyped
<1>2. deck.matvec => new_uu \/ jac = "uu"
  BY DEF IndInv, Matrices
<1>3. jac' = IF deck.matvec /\ new_uu THEN "uu" ELSE jac
  BY DEF KINSpgmrAtimes
<1>4. new_uu' \in BOOLEAN
  BY DEF KINSpgmrAtimes
<1>5. at' \in {"uu", "unew", "else"}
  BY <1>1 DEF KINSpgmrAtimes
<1> QED
  BY <1>1, <1>2, <1>3, <1>4, <1>5

\* The work of a linear solve counts no nonlinear iteration.
LEMMA LinearWorkType ==
  ASSUME WellTyped, NEW reduced \in BOOLEAN, NEW failed \in BOOLEAN
  PROVE  /\ LinearWork(reduced, failed) \in [Counters -> Nat]
         /\ LinearWork(reduced, failed).nni = 0
<1>1. kry.l \in Nat /\ kry.ntries \in Nat /\ deck.maxl \in Nat
  BY KinsolAssumption DEF WellTyped
<1>2. Inner \in Nat
  BY <1>1 DEF Inner
<1>3. /\ Psolves(Inner + (IF failed THEN 0 ELSE 1)) \in Nat
      /\ Quotients(2) \in Nat
      /\ (IF reduced \/ failed THEN 1 ELSE 0) \in Nat
  BY <1>2 DEF Psolves, Quotients
<1> QED
  BY <1>2, <1>3 DEF LinearWork, Zero, Counters

\* A step of the linear solver that changes neither the pressure nor what the
\* Newton iteration keeps about it.
LEMMA KrylovStep ==
  ASSUME IndInv, stage = "krylov", KINSpgmrAtimes,
         stage' \in {"krylov", "step"},
         UNCHANGED <<deck, uu, unew, pcAt, ctl, ls, results>>,
         kry' \in [l : Nat, ntries : Nat], kry'.l < deck.maxl, kry'.ntries <= deck.maxlrst,
         NEW d \in [Counters -> Nat], d.nni = 0, Count(d)
  PROVE  IndInv'
<1>0. WellTyped /\ Counted
  BY DEF IndInv
<1>1. /\ jac' \in {"uu", "old"} /\ new_uu' \in BOOLEAN /\ at' \in {"uu", "unew", "else"}
      /\ deck.matvec => jac' = "uu"
  BY AtimesFacts
<1>2. /\ cnt' \in [Counters -> Nat] /\ work' \in [Counters -> Nat]
      /\ cnt'.nni = cnt.nni
      /\ \A c \in Counters \ {"nbktrk"} : cnt'[c] = work'[c]
  BY <1>0, CountFacts DEF Counters, WellTyped
<1>3. WellTyped'
  BY <1>0, <1>1, <1>2 DEF WellTyped, results
<1>4. Iterations'
  BY <1>2 DEF IndInv, Iterations, Newton
<1>5. Matrices' /\ Evaluated' /\ Counted'
  BY <1>1, <1>2 DEF Matrices, Evaluated, Counted
<1>6. Ends'
  BY DEF Ends, AcceptedForAReason, FluxesOfReturnedPressure, OutputsOfThisSolve, Over
<1> QED
  BY <1>3, <1>4, <1>5, <1>6 DEF IndInv

\* One more Krylov vector or cycle of SpgmrSolve keeps it.
LEMMA KrylovIterationInv == IndInv /\ KrylovIteration => IndInv'
<1> SUFFICES ASSUME IndInv, KrylovIteration PROVE IndInv'
  OBVIOUS
<1>1. WellTyped /\ KINSpgmrAtimes /\ stage = "krylov" /\ stage' = "krylov"
  BY DEF IndInv, KrylovIteration
<1>2. [Zero EXCEPT !.nfe = Quotients(1)] \in [Counters -> Nat]
  BY ZeroType DEF Quotients
<1>3. [Zero EXCEPT !.nfe = Quotients(1)].nni = 0
  BY ZeroType DEF Counters
<1>4. kry' \in [l : Nat, ntries : Nat] /\ kry'.l < deck.maxl /\ kry'.ntries <= deck.maxlrst
  <2>1. /\ kry.l \in Nat /\ kry.ntries \in Nat /\ kry \in [l : Nat, ntries : Nat]
        /\ deck.maxl \in Nat \ {0} /\ deck.maxlrst \in Nat
        /\ kry.ntries <= deck.maxlrst
    BY <1>1, KinsolAssumption DEF WellTyped
  <2>2. CASE kry.l + 1 < deck.maxl /\ kry' = [kry EXCEPT !.l = @ + 1]
    BY <2>1, <2>2
  <2>3. CASE kry.ntries < deck.maxlrst /\ kry' = [l |-> 0, ntries |-> kry.ntries + 1]
    BY <2>1, <2>3
  <2> QED
    BY <2>2, <2>3 DEF KrylovIteration
<1> QED
  BY <1>1, <1>2, <1>3, <1>4, KrylovStep DEF KrylovIteration

\* The end of a linear solve that gives a step keeps it.
LEMMA KINSpgmrSolveInv == IndInv /\ KINSpgmrSolve => IndInv'
<1> SUFFICES ASSUME IndInv, KINSpgmrSolve PROVE IndInv'
  OBVIOUS
<1>1. WellTyped /\ KINSpgmrAtimes /\ stage = "krylov" /\ stage' = "step"
  BY DEF IndInv, KINSpgmrSolve
<1>2. PICK reduced \in {FALSE} \cup {LastVector} : Count(LinearWork(reduced, FALSE))
  BY DEF KINSpgmrSolve
<1>3. reduced \in BOOLEAN
  BY DEF LastVector
<1>4. kry' \in [l : Nat, ntries : Nat] /\ kry'.l < deck.maxl /\ kry'.ntries <= deck.maxlrst
  BY <1>1 DEF KINSpgmrSolve, WellTyped
<1> QED
  BY <1>1, <1>2, <1>3, <1>4, LinearWorkType, KrylovStep DEF KINSpgmrSolve

\* A linear solve that fails, and with it KINSol, keeps it.
LEMMA KINSpgmrSolveFailsInv == IndInv /\ KINSpgmrSolveFails => IndInv'
<1> SUFFICES ASSUME IndInv, KINSpgmrSolveFails PROVE IndInv'
  OBVIOUS
<1> DEFINE d == LinearWork(FALSE, TRUE)
<1>0. WellTyped /\ Counted /\ KINSpgmrAtimes /\ stage = "krylov" /\ stage' = "idle" /\ Count(d)
  BY DEF IndInv, KINSpgmrSolveFails, Return
<1>1. /\ jac' \in {"uu", "old"} /\ new_uu' \in BOOLEAN /\ at' \in {"uu", "unew", "else"}
  BY <1>0, AtimesFacts
<1>2. d \in [Counters -> Nat] /\ d.nni = 0
  BY <1>0, LinearWorkType
<1>3. /\ cnt' \in [Counters -> Nat] /\ work' \in [Counters -> Nat]
      /\ cnt'.nni = cnt.nni
      /\ \A c \in Counters \ {"nbktrk"} : cnt'[c] = work'[c]
  <2> HIDE DEF d
  <2> QED
    BY <1>0, <1>2, CountFacts DEF Counters, WellTyped
<1>4. ret' = 8 /\ iopt' = cnt'
  BY DEF KINSpgmrSolveFails, Return, Returned, KINSOL_KRYLOV_FAILURE, KINSOL_SUCCESS,
         KINSOL_INITIAL_GUESS_OK
<1>5. WellTyped'
  BY <1>0, <1>1, <1>3, <1>4 DEF KINSpgmrSolveFails, WellTyped
<1>6. Iterations'
  BY <1>0, <1>3 DEF IndInv, Iterations, Newton, KINSpgmrSolveFails
<1>7. Matrices' /\ Evaluated' /\ Counted'
  BY <1>0 DEF Matrices, Evaluated, Counted
<1>8. Ends'
  BY <1>3, <1>4 DEF Ends, AcceptedForAReason, FluxesOfReturnedPressure,
                    OutputsOfThisSolve, Over, KINSOL_KRYLOV_FAILURE
<1> QED
  BY <1>5, <1>6, <1>7, <1>8 DEF IndInv

\* A step of a global strategy: it moves the trial point and nothing else.
LEMMA StrategyStep ==
  ASSUME IndInv, stage \in {"step", "bisect"}, stage' \in {"step", "bisect", "stop"},
         UNCHANGED <<deck, uu, memory, kry, results>>,
         unew' \in Norms, at' = "unew", ls' \in LsType,
         cnt' \in [Counters -> Nat], work' \in [Counters -> Nat], cnt'.nni = cnt.nni,
         \A c \in Counters \ {"nbktrk"} : cnt'[c] = work'[c]
  PROVE  IndInv'
<1>1. WellTyped'
  BY DEF IndInv, WellTyped, LsType, memory, results
<1>2. Iterations'
  BY DEF IndInv, Iterations, Newton, memory
<1>3. Matrices'
  BY DEF IndInv, Matrices, memory
<1>4. Evaluated' /\ Counted'
  BY DEF Evaluated, Counted
<1>5. Ends'
  BY DEF Ends, AcceptedForAReason, FluxesOfReturnedPressure, OutputsOfThisSolve, Over
<1> QED
  BY <1>1, <1>2, <1>3, <1>4, <1>5 DEF IndInv

\* What the counters are after an evaluation of a strategy that goes on.
LEMMA TrialFacts ==
  ASSUME IndInv, stage # "idle", Count([Zero EXCEPT !.nfe = 1])
  PROVE  /\ cnt' \in [Counters -> Nat] /\ work' \in [Counters -> Nat]
         /\ cnt'.nni = cnt.nni
         /\ \A c \in Counters \ {"nbktrk"} : cnt'[c] = work'[c]
<1>1. [Zero EXCEPT !.nfe = 1] \in [Counters -> Nat] /\ [Zero EXCEPT !.nfe = 1].nni = 0
  BY DEF Zero, Counters
<1>2. WellTyped /\ Counted
  BY DEF IndInv
<1>3. cnt'.nni = cnt.nni + [Zero EXCEPT !.nfe = 1].nni /\ cnt.nni \in Nat
  BY <1>1, <1>2, CountFacts DEF Counters, WellTyped
<1>4. cnt'.nni = cnt.nni
  BY <1>1, <1>3
<1> QED
  BY <1>1, <1>2, <1>4, CountFacts

\* What the counters are after a line search.
LEMMA EndOfSearchFacts ==
  ASSUME IndInv, stage # "idle", NEW n \in Nat \ {0}, NEW result \in {0, 1},
         NEW long \in BOOLEAN, NEW d \in [Counters -> Nat], d.nni = 0,
         EndOfSearch(n, result, long, d)
  PROVE  /\ cnt' \in [Counters -> Nat] /\ work' \in [Counters -> Nat]
         /\ cnt'.nni = cnt.nni
         /\ \A c \in Counters \ {"nbktrk"} : cnt'[c] = work'[c]
         /\ ls' \in LsType /\ ls'.ret = result
<1>1. cnt \in [Counters -> Nat] /\ work \in [Counters -> Nat] /\ ls \in LsType
  BY DEF IndInv, WellTyped, LsType
<1>2. /\ Added(cnt, d) \in [Counters -> Nat] /\ Added(work, d) \in [Counters -> Nat]
      /\ \A c \in Counters : Added(cnt, d)[c] = cnt[c] + d[c] /\ Added(work, d)[c] = work[c] + d[c]
  BY <1>1, AddedType
<1>3. cnt' = [Added(cnt, d) EXCEPT !.nbktrk = n - 1] /\ work' = Added(work, d)
  BY DEF EndOfSearch
<1>4. cnt' \in [Counters -> Nat]
      /\ \A c \in Counters \ {"nbktrk"} : cnt'[c] = cnt[c] + d[c]
  BY <1>2, <1>3 DEF Counters
<1>5. cnt'.nni = cnt.nni
  BY <1>1, <1>4 DEF Counters
<1>6. \A c \in Counters \ {"nbktrk"} : cnt[c] = work[c]
  BY DEF IndInv, Counted
<1>7. \A c \in Counters \ {"nbktrk"} : cnt'[c] = work'[c]
  BY <1>2, <1>3, <1>4, <1>6
<1>8. ls' \in LsType /\ ls'.ret = result
  BY <1>1 DEF EndOfSearch, LsType
<1> QED
  BY <1>2, <1>3, <1>4, <1>5, <1>7, <1>8

\* Taking the whole step (KINInexactNewton) keeps it.
LEMMA InexactNewtonInv == IndInv /\ KINInexactNewton => IndInv'
<1> SUFFICES ASSUME IndInv, KINInexactNewton PROVE IndInv'
  OBVIOUS
<1>1. ls' \in LsType
  <2>1. ls \in LsType
    BY DEF IndInv, WellTyped, LsType
  <2> QED
    BY <2>1 DEF LsType, KINInexactNewton
<1> QED
  BY <1>1, TrialFacts, StrategyStep DEF KINInexactNewton

\* The trial points of KINLineSearch keep it.
LEMMA TrialsInv == IndInv /\ (Backtrack \/ Bisect \/ BisectAgain) => IndInv'
<1>1. ASSUME IndInv, Backtrack PROVE IndInv'
  <2>1. ls' \in LsType
    <3>1. ls \in LsType
      BY <1>1 DEF IndInv, WellTyped, LsType
    <3>2. ls.n + 1 \in Nat /\ FALSE \in BOOLEAN
      BY <3>1 DEF LsType
    <3>3. ls' = [ls EXCEPT !.full = FALSE, !.n = ls.n + 1]
      BY <1>1 DEF Backtrack
    <3> QED
      BY <3>1, <3>2, <3>3, Zenon DEF LsType
  <2>2. stage = "step" /\ stage' = "step" /\ unew' \in Norms
    BY <1>1 DEF Backtrack, Norms
  <2> QED
    BY <1>1, <2>1, <2>2, TrialFacts, StrategyStep DEF Backtrack
<1>2. ASSUME IndInv, Bisect PROVE IndInv'
  <2>1. ls' \in LsType
    <3>1. ls \in LsType
      BY <1>2 DEF IndInv, WellTyped, LsType
    <3> QED
      BY <1>2, <3>1 DEF LsType, Bisect
  <2>2. stage = "step" /\ stage' = "bisect" /\ unew' \in Norms
    BY <1>2 DEF Bisect, Norms
  <2> QED
    BY <1>2, <2>1, <2>2, TrialFacts, StrategyStep DEF Bisect
<1>3. ASSUME IndInv, BisectAgain PROVE IndInv'
  <2>1. ls' \in LsType
    <3>1. ls \in LsType
      BY <1>3 DEF IndInv, WellTyped, LsType
    <3> QED
      BY <1>3, <3>1 DEF LsType, BisectAgain
  <2>2. stage = "bisect" /\ stage' = "bisect" /\ unew' \in Norms /\ at' = "unew"
    BY <1>3 DEF IndInv, WellTyped, Evaluated, BisectAgain
  <2> QED
    BY <1>3, <2>1, <2>2, TrialFacts, StrategyStep DEF BisectAgain
<1> QED
  BY <1>1, <1>2, <1>3

\* Every end of KINLineSearch keeps it.
LEMMA LineSearchEndsInv ==
  IndInv /\ (LineSearchFails \/ LineSearchAccepts \/ BisectionAccepts \/ BetaConditionFails)
    => IndInv'
<1> SUFFICES ASSUME IndInv,
                    LineSearchFails \/ LineSearchAccepts \/ BisectionAccepts
                      \/ BetaConditionFails
             PROVE  IndInv'
  OBVIOUS
<1> DEFINE one == [Zero EXCEPT !.nfe = 1]
           two == [Zero EXCEPT !.nfe = 2]
           bcf == [Zero EXCEPT !.nfe = 2, !.nbcf = 1]
<1>1. /\ one \in [Counters -> Nat] /\ one.nni = 0
      /\ two \in [Counters -> Nat] /\ two.nni = 0
      /\ bcf \in [Counters -> Nat] /\ bcf.nni = 0
  BY DEF Zero, Counters
<1>2. ls.n + 1 \in Nat \ {0} /\ ls.n + 2 \in Nat \ {0}
  BY DEF IndInv, WellTyped
<1>3. /\ stage \in {"step", "bisect"} /\ stage' = "stop"
      /\ UNCHANGED <<deck, uu, memory, kry, results>>
      /\ unew' \in Norms /\ at' = "unew"
  BY DEF LineSearchFails, LineSearchAccepts, BisectionAccepts, BetaConditionFails,
         EndOfSearch, AtAfterFailure, IndInv, WellTyped, Evaluated
<1>4. \E n \in Nat \ {0}, result \in {0, 1}, long \in BOOLEAN, d \in {one, two, bcf} :
         EndOfSearch(n, result, long, d)
  BY <1>2 DEF LineSearchFails, LineSearchAccepts, BisectionAccepts, BetaConditionFails
<1> HIDE DEF one, two, bcf
<1>5. PICK n \in Nat \ {0}, result \in {0, 1}, long \in BOOLEAN, d \in {one, two, bcf} :
         EndOfSearch(n, result, long, d)
  BY <1>4
<1>6. d \in [Counters -> Nat] /\ d.nni = 0
  BY <1>1
<1>7. stage # "idle"
  BY <1>3
<1>8. /\ cnt' \in [Counters -> Nat] /\ work' \in [Counters -> Nat]
      /\ cnt'.nni = cnt.nni
      /\ \A c \in Counters \ {"nbktrk"} : cnt'[c] = work'[c]
      /\ ls' \in LsType
  BY <1>5, <1>6, <1>7, EndOfSearchFacts
<1> QED
  BY <1>3, <1>8, StrategyStep

\* Giving up after too many failures of the beta condition keeps it.
LEMMA TooManyBetaFailuresInv == IndInv /\ TooManyBetaFailures => IndInv'
<1> SUFFICES ASSUME IndInv, TooManyBetaFailures PROVE IndInv'
  OBVIOUS
<1>0. WellTyped /\ Counted /\ stage = "stop" /\ stage' = "idle" /\ iopt' = cnt
  BY DEF IndInv, TooManyBetaFailures, Return
<1>1. ret' = 7
  BY DEF TooManyBetaFailures, Return, Returned, KINSOL_LINESEARCH_BCFAIL, KINSOL_SUCCESS,
         KINSOL_INITIAL_GUESS_OK
<1>2. WellTyped'
  <2>1. ls' \in [full : BOOLEAN, n : Nat, ret : {0, 1}, maxStepTaken : BOOLEAN]
    BY DEF TooManyBetaFailures, NoSearch
  <2> QED
    BY <1>0, <1>1, <2>1 DEF WellTyped, TooManyBetaFailures, memory
<1>3. Iterations'
  BY <1>0 DEF IndInv, Iterations, Newton, TooManyBetaFailures, memory
<1>4. Matrices' /\ Evaluated' /\ Counted'
  BY <1>0 DEF Matrices, Evaluated, Counted
<1>5. Ends'
  BY <1>0, <1>1 DEF Ends, AcceptedForAReason, FluxesOfReturnedPressure, OutputsOfThisSolve,
                    Over, Counted, TooManyBetaFailures, KINSOL_LINESEARCH_BCFAIL
<1> QED
  BY <1>2, <1>3, <1>4, <1>5 DEF IndInv

\* The fields of a verdict.
LEMMA VerdictFacts ==
  ASSUME NEW code, NEW pthrsh, NEW ncscmx, NEW length
  PROVE  /\ Verdict(code, pthrsh, ncscmx, length).code = code
         /\ Verdict(code, pthrsh, ncscmx, length).pthrsh = pthrsh
         /\ Verdict(code, pthrsh, ncscmx, length).ncscmx = ncscmx
         /\ Verdict(code, pthrsh, ncscmx, length).step = length
BY DEF Verdict

\* What KINStop may say.
LEMMA KINStopFacts ==
  ASSUME IndInv, stage = "stop", NEW v \in KINStop
  PROVE  /\ v.pthrsh \in {"low", "high"} /\ v.ncscmx \in Nat /\ v.step \in {"tiny", "normal"}
         /\ v.code \in 0..5
         /\ v.code = 0 /\ deck.pc => cnt.nni < deck.mxiter
         /\ v.code = KINSOL_SUCCESS => unew \in {"guess", "small"}
         /\ v.code = KINSOL_INITIAL_GUESS_OK => v.step = "tiny" /\ deck.pc
<1>0. /\ ctl.pthrsh \in {"low", "high"} /\ ctl.ncscmx \in Nat /\ ctl.precondcurrent \in BOOLEAN
      /\ cnt.nni \in Nat /\ deck.mxiter \in Nat
      /\ ctl.precondcurrent => deck.pc
      /\ deck.pc => ctl.precondcurrent
  BY KinsolAssumption DEF IndInv, WellTyped, Iterations, Newton, Counters
<1> DEFINE Says(code, pthrsh, ncscmx, length) ==
             /\ v.code = code /\ v.pthrsh = pthrsh
             /\ v.ncscmx = ncscmx /\ v.step = length
           long == IF ls.maxStepTaken THEN ctl.ncscmx + 1 ELSE 0
<1> USE DEF KINSOL_SUCCESS, KINSOL_INITIAL_GUESS_OK
<1>1. CASE v \in TinyStep
  <2>1. CASE ctl.precondcurrent
    <3>1. Says(2, ctl.pthrsh, ctl.ncscmx, "tiny")
      BY <1>1, <2>1, VerdictFacts DEF TinyStep
    <3> QED
      BY <1>0, <2>1, <3>1
  <2>2. CASE ~ctl.precondcurrent
    <3>1. Says(0, "high", ctl.ncscmx, "tiny")
      BY <1>1, <2>2, VerdictFacts DEF TinyStep
    <3> QED
      BY <1>0, <2>2, <3>1
  <2> QED
    BY <2>1, <2>2
<1>2. CASE v \in NormalStep
  <2>0. long \in Nat
    BY <1>0
  <2>1. CASE cnt.nni >= deck.mxiter
    <3>1. Says(4, ctl.pthrsh, ctl.ncscmx, "normal")
      BY <1>2, <2>1, VerdictFacts DEF NormalStep
    <3> QED
      BY <1>0, <3>1
  <2>2. CASE ~(cnt.nni >= deck.mxiter) /\ long = MaxLong
    <3>1. Says(5, ctl.pthrsh, long, "normal")
      BY <1>2, <2>2, VerdictFacts DEF NormalStep
    <3> QED
      BY <1>0, <2>0, <3>1
  <2>3. CASE ~(cnt.nni >= deck.mxiter) /\ long # MaxLong
    <3>1. PICK pthrsh \in {"low", "high"} : v = Verdict(0, pthrsh, long, "normal")
      BY <1>2, <2>3 DEF NormalStep
    <3>2. Says(0, pthrsh, long, "normal")
      BY <3>1, VerdictFacts
    <3> QED
      BY <1>0, <2>0, <2>3, <3>2
  <2> QED
    BY <2>1, <2>2, <2>3
<1>3. CASE ls.ret = 1
  <2>1. Says(3, ctl.pthrsh, ctl.ncscmx, "normal")
    BY <1>3, VerdictFacts DEF KINStop, precondflag
  <2> QED
    BY <1>0, <2>1
<1>4. CASE ls.ret # 1 /\ unew \in {"guess", "small"}
  <2>1. Says(1, ctl.pthrsh, ctl.ncscmx, "normal")
    BY <1>4, VerdictFacts DEF KINStop
  <2> QED
    BY <1>0, <1>4, <2>1
<1> QED
  BY <1>1, <1>2, <1>3, <1>4 DEF KINStop

\* KINStop's verdict, and the move of uu to unew, keep it.
LEMMA EndOfIterationInv == IndInv /\ EndOfIteration => IndInv'
<1> SUFFICES ASSUME IndInv, EndOfIteration PROVE IndInv'
  OBVIOUS
<1>0. WellTyped /\ Counted /\ Iterations /\ stage = "stop" /\ at' = "uu" /\ uu' = unew
  BY DEF IndInv, EndOfIteration, Evaluated
<1>1. PICK v \in KINStop :
        /\ ctl' = [ctl EXCEPT !.pthrsh = v.pthrsh, !.ncscmx = v.ncscmx]
        /\ step' = v.step
        /\ IF v.code = 0
           THEN stage' = "newton" /\ UNCHANGED <<iopt, ret>>
           ELSE Return(v.code, cnt)
  BY DEF EndOfIteration
<1>2. /\ v.pthrsh \in {"low", "high"} /\ v.ncscmx \in Nat /\ v.step \in {"tiny", "normal"}
      /\ v.code \in 0..5
      /\ v.code = 0 /\ deck.pc => cnt.nni < deck.mxiter
      /\ v.code = KINSOL_SUCCESS => unew \in {"guess", "small"}
      /\ v.code = KINSOL_INITIAL_GUESS_OK => v.step = "tiny" /\ deck.pc
  BY <1>0, KINStopFacts
<1>3. UNCHANGED <<deck, unew, new_uu, kry, cnt, guessed, work>>
  BY DEF EndOfIteration
<1>4. \/ v.code = 0 /\ stage' = "newton" /\ iopt' = iopt /\ ret' = ret
      \/ v.code # 0 /\ stage' = "idle" /\ iopt' = cnt /\ ret' = Returned(v.code)
  BY <1>1 DEF Return
<1>5. Returned(v.code) \in 0..5
  BY <1>2 DEF Returned
<1>6. WellTyped'
  <2>1. ctl' \in CtlType
    BY <1>0, <1>1, <1>2 DEF WellTyped, CtlType
  <2>2. ls' \in LsType /\ jac' \in {"uu", "old"} /\ pcAt' \in {"uu", "old"}
    BY <1>0 DEF EndOfIteration, NoSearch, LsType, WellTyped
  <2>3. iopt' \in [Counters -> Nat] /\ ret' \in {NotCalled} \cup 0..8
        /\ stage' \in {"newton", "idle"} /\ step' \in {"tiny", "normal"}
    BY <1>0, <1>1, <1>2, <1>4, <1>5 DEF WellTyped
  <2> QED
    BY <1>0, <1>3, <2>1, <2>2, <2>3 DEF WellTyped, CtlType, LsType
<1>7. Iterations'
  <2>1. ctl'.nnilpre = ctl.nnilpre /\ ctl'.precondcurrent = ctl.precondcurrent
    BY <1>0, <1>1 DEF WellTyped
  <2> QED
    BY <1>0, <1>2, <1>3, <1>4, <2>1 DEF Iterations, Newton
<1>8. Matrices' /\ Evaluated' /\ Counted'
  BY <1>0, <1>3, <1>4 DEF Matrices, Evaluated, Counted
<1>9. Ends'
  <2>1. CASE v.code = 0
    BY <1>4, <2>1 DEF Ends, AcceptedForAReason, FluxesOfReturnedPressure,
                      OutputsOfThisSolve, Over
  <2>2. CASE v.code # 0
    <3>1. AcceptedForAReason'
      BY <1>0, <1>1, <1>2, <1>3, <1>4, <2>2 DEF AcceptedForAReason, Over, Returned
    <3>2. FluxesOfReturnedPressure'
      BY <1>0 DEF FluxesOfReturnedPressure
    <3>3. OutputsOfThisSolve'
      BY <1>0, <1>3, <1>4, <2>2 DEF OutputsOfThisSolve, Counted
    <3> QED
      BY <3>1, <3>2, <3>3 DEF Ends
  <2> QED
    BY <2>1, <2>2
<1> QED
  BY <1>6, <1>7, <1>8, <1>9 DEF IndInv

\* Every step of the solver, and every stuttering step, keeps it.
LEMMA NextIndInv == IndInv /\ [Next]_vars => IndInv'
<1> SUFFICES ASSUME IndInv, [Next]_vars PROVE IndInv'
  OBVIOUS
<1>1. CASE Next
  BY <1>1, KINInitialStopInv, KINSolInitInv, NewtonIterationInv, KrylovIterationInv,
     KINSpgmrSolveInv, KINSpgmrSolveFailsInv, InexactNewtonInv, TrialsInv,
     LineSearchEndsInv, TooManyBetaFailuresInv, EndOfIterationInv
     DEF Next
<1>2. CASE UNCHANGED vars
  BY <1>2 DEF vars, memory, results, IndInv, WellTyped, Iterations, Matrices, Evaluated,
              Counted, Ends, AcceptedForAReason, FluxesOfReturnedPressure,
              OutputsOfThisSolve, Over
<1> QED
  BY <1>1, <1>2

\* So it holds throughout every series of solves.
LEMMA Invariance == Spec => []IndInv
BY InitIndInv, NextIndInv, PTL DEF Spec

\* Only the failure of a bisection adds to nbcf.
LEMMA OtherWork ==
  ASSUME NEW n \in Nat, NEW m \in Nat
  PROVE  /\ [Zero EXCEPT !.nfe = n] \in [Counters -> Nat]
         /\ [Zero EXCEPT !.nfe = n].nbcf = 0
         /\ [Zero EXCEPT !.nni = n, !.npe = m] \in [Counters -> Nat]
         /\ [Zero EXCEPT !.nni = n, !.npe = m].nbcf = 0
<1>1. [Zero EXCEPT !.nfe = n].nbcf = 0
  BY DEF Zero, Counters
<1>2. [Zero EXCEPT !.nni = n, !.npe = m].nbcf = 0
  BY DEF Zero, Counters
<1> QED
  BY <1>1, <1>2, ZeroType

LEMMA CountKeepsBeta ==
  ASSUME WellTyped, NEW d \in [Counters -> Nat], d.nbcf = 0, Count(d)
  PROVE  cnt'.nbcf = cnt.nbcf
<1>1. cnt.nbcf \in Nat /\ cnt'.nbcf = cnt.nbcf + d.nbcf
  BY CountFacts DEF WellTyped, Counters
<1> QED
  BY <1>1

LEMMA SearchCountsBeta ==
  ASSUME WellTyped, NEW n \in Nat, NEW result, NEW long, NEW d \in [Counters -> Nat],
         EndOfSearch(n, result, long, d)
  PROVE  cnt'.nbcf = cnt.nbcf + d.nbcf /\ stage' = "stop"
<1>1. cnt \in [Counters -> Nat]
  BY DEF WellTyped
<1>2. Added(cnt, d) \in [Counters -> Nat] /\ Added(cnt, d).nbcf = cnt.nbcf + d.nbcf
  BY <1>1, AddedType DEF Counters
<1> QED
  BY <1>2 DEF EndOfSearch, Counters

\* KINSolInit begins a solve with none, a line search adds at most one, and KINSol
\* goes on only while the limit is kept.
LEMMA BetaStep == WellTyped /\ BetaFailuresBounded /\ [Next]_vars => BetaFailuresBounded'
<1> SUFFICES ASSUME WellTyped, BetaFailuresBounded, [Next]_vars PROVE BetaFailuresBounded'
  OBVIOUS
<1>0. /\ cnt \in [Counters -> Nat] /\ cnt.nbcf \in Nat /\ MXNBCF \in Nat
      /\ kry.l \in Nat /\ kry.ntries \in Nat /\ ls.n \in Nat
  BY KinsolAssumption DEF WellTyped, Counters
<1>1. CASE KINInitialStop \/ KINSolInit
  <2>1. cnt'.nbcf = 0
    BY <1>0, <1>1 DEF KINInitialStop, KINSolInit, NewCounters, KINSpgmrInit, Counters
  <2> QED
    BY <1>0, <2>1 DEF BetaFailuresBounded
<1>2. ASSUME cnt'.nbcf = cnt.nbcf, stage # "idle", stage = "stop" => stage' \in {"stop", "idle"}
      PROVE  BetaFailuresBounded'
  BY <1>0, <1>2 DEF BetaFailuresBounded
<1>3. CASE NewtonIteration
  <2>1. PICK m \in Nat : Count([Zero EXCEPT !.nni = 1, !.npe = m])
    BY <1>3 DEF NewtonIteration
  <2>2. cnt'.nbcf = cnt.nbcf
    BY <2>1, OtherWork, CountKeepsBeta
  <2> QED
    BY <1>2, <1>3, <2>2 DEF NewtonIteration
<1>4. CASE KrylovIteration \/ KINSpgmrSolve \/ KINSpgmrSolveFails
  <2>1. /\ stage = "krylov"
        /\ \/ Count([Zero EXCEPT !.nfe = Quotients(1)])
           \/ \E reduced, failed \in BOOLEAN : Count(LinearWork(reduced, failed))
    BY <1>4 DEF KrylovIteration, KINSpgmrSolve, KINSpgmrSolveFails, LastVector
  <2>2. CASE Count([Zero EXCEPT !.nfe = Quotients(1)])
    <3>1. Quotients(1) \in Nat
      BY DEF Quotients
    <3> QED
      BY <1>2, <2>1, <2>2, <3>1, OtherWork, CountKeepsBeta
  <2>3. ASSUME NEW reduced \in BOOLEAN, NEW failed \in BOOLEAN,
               Count(LinearWork(reduced, failed))
        PROVE  BetaFailuresBounded'
    <3>1. LinearWork(reduced, failed) \in [Counters -> Nat]
      BY LinearWorkType
    <3>2. LinearWork(reduced, failed).nbcf = 0
      BY DEF LinearWork, Zero, Counters
    <3> QED
      BY <1>2, <2>1, <2>3, <3>1, <3>2, CountKeepsBeta
  <2> QED
    BY <2>1, <2>2, <2>3
<1>5. CASE KINInexactNewton \/ Backtrack \/ Bisect \/ BisectAgain
  <2>1. stage \in {"step", "bisect"} /\ Count([Zero EXCEPT !.nfe = 1])
    BY <1>5 DEF KINInexactNewton, Backtrack, Bisect, BisectAgain
  <2>2. cnt'.nbcf = cnt.nbcf
    BY <2>1, OtherWork, CountKeepsBeta
  <2> QED
    BY <1>2, <2>1, <2>2
<1>6. CASE LineSearchFails \/ LineSearchAccepts \/ BisectionAccepts \/ BetaConditionFails
  <2>1. stage \in {"step", "bisect"}
    BY <1>6 DEF LineSearchFails, LineSearchAccepts, BisectionAccepts, BetaConditionFails
  <2> DEFINE one == [Zero EXCEPT !.nfe = 1]
             two == [Zero EXCEPT !.nfe = 2]
             bcf == [Zero EXCEPT !.nfe = 2, !.nbcf = 1]
  <2>2. /\ one \in [Counters -> Nat] /\ one.nbcf = 0
        /\ two \in [Counters -> Nat] /\ two.nbcf = 0
        /\ bcf \in [Counters -> Nat] /\ bcf.nbcf = 1
    BY DEF Zero, Counters
  <2>3. \E n \in Nat, result \in {0, 1}, long \in BOOLEAN, d \in {one, two, bcf} :
          EndOfSearch(n, result, long, d)
    <3>1. ls.n + 1 \in Nat /\ ls.n + 2 \in Nat
      BY <1>0
    <3> QED
      BY <1>6, <3>1 DEF LineSearchFails, LineSearchAccepts, BisectionAccepts,
                        BetaConditionFails
  <2> HIDE DEF one, two, bcf
  <2>4. PICK n \in Nat, result \in {0, 1}, long \in BOOLEAN, d \in {one, two, bcf} :
          EndOfSearch(n, result, long, d)
    BY <2>3
  <2>6. d \in [Counters -> Nat] /\ d.nbcf \in {0, 1}
    BY <2>2
  <2>5. cnt'.nbcf = cnt.nbcf + d.nbcf /\ stage' = "stop"
    BY <2>4, <2>6, SearchCountsBeta
  <2> QED
    BY <1>0, <2>1, <2>5, <2>6 DEF BetaFailuresBounded
<1>7. CASE TooManyBetaFailures
  BY <1>2, <1>7 DEF TooManyBetaFailures, Return
<1>8. CASE EndOfIteration
  <2>1. cnt' = cnt /\ cnt.nbcf <= MXNBCF
    BY <1>8 DEF EndOfIteration
  <2> QED
    BY <1>0, <2>1 DEF BetaFailuresBounded
<1>9. CASE UNCHANGED vars
  BY <1>9 DEF vars, BetaFailuresBounded
<1> QED
  BY <1>1, <1>3, <1>4, <1>5, <1>6, <1>7, <1>8, <1>9 DEF Next

\* The state of a solve keeps its type: Krylov vectors stay within maxl, restarts
\* within maxlrst, and no iteration begins with more than MXNBCF failures of the beta
\* condition behind it in its solve.
THEOREM KinsolTypes == Spec => []TypeOK
<1>1. Init => BetaFailuresBounded
  <2>1. Zero.nbcf = 0
    BY DEF Zero, Counters
  <2> QED
    BY <2>1, KinsolAssumption DEF Init, BetaFailuresBounded
<1>2. IndInv /\ BetaFailuresBounded /\ [Next]_vars => IndInv' /\ BetaFailuresBounded'
  BY NextIndInv, BetaStep DEF IndInv
<1>3. IndInv /\ BetaFailuresBounded => TypeOK
  BY DEF IndInv, TypeOK
<1> QED
  BY <1>1, <1>2, <1>3, InitIndInv, PTL DEF Spec

\* KinsolNonlinSolver never tells the time loop that a solve converged when the
\* line search failed, the iterations ran out, the steps were too long, or the
\* linear solver failed.
THEOREM AcceptedSolves == Spec => []AcceptedForAReason
<1>1. IndInv => AcceptedForAReason
  BY DEF IndInv, Ends
<1> QED
  BY <1>1, Invariance, PTL

\* The fluxes next to a pressure that a finished iteration returns are its own.
THEOREM FluxesBelong == Spec => []FluxesOfReturnedPressure
<1>1. IndInv => FluxesOfReturnedPressure
  BY DEF IndInv, Ends
<1> QED
  BY <1>1, Invariance, PTL

\* Steps are computed with current matrices.
THEOREM MatricesCurrent == Spec => []LinearSystemCurrent
<1>1. IndInv => LinearSystemCurrent
  BY DEF IndInv, Iterations, Matrices, LinearSystemCurrent, Newton
<1> QED
  BY <1>1, Invariance, PTL

\* MaxIter bounds the iterations of every solve with a preconditioner.
THEOREM IterationLimit == Spec => []MaxIterWithPC
<1>1. IndInv => MaxIterWithPC
  BY DEF IndInv, Iterations, MaxIterWithPC
<1> QED
  BY <1>1, Invariance, PTL

\* The reported counts of a solve are those of its own work.
THEOREM ReportedWork == Spec => []OutputsOfThisSolve
<1>1. IndInv => OutputsOfThisSolve
  BY DEF IndInv, Ends
<1> QED
  BY <1>1, Invariance, PTL
================================================================================
