----------------------------- MODULE AmpsFindPowers -----------------------------
(***************************************************************************)
(* amps_FindPowers (amps/common/amps_find_powers.c): the powers of two     *)
(* around the number N of ranks, from which amps_BCast builds its tree.    *)
(* The loop shifts `high' down from AMPS_HIGHEST_LONG and `low' up from 1  *)
(* until one of them meets N.                                              *)
(***************************************************************************)
EXTENDS Integers

AMPS_HIGHEST_LONG == 2147483647     \* 0x7fffffff, 31 one bits
AMPS_HIGHEST_LONG_LOG == 31

HighAfter(i) == AMPS_HIGHEST_LONG \div 2^i
LowAfter(i)  == 2^i

LoopEnds(N, i) == HighAfter(i) <= N \/ LowAfter(i) >= N

\* Number of iterations of the loop.
Iterations(N) ==
  CHOOSE i \in 0..30 : LoopEnds(N, i) /\ \A j \in 0..(i - 1) : ~LoopEnds(N, j)

Nnext(N) ==
  LET high == HighAfter(Iterations(N))
  IN  IF high = N THEN N
      ELSE IF high < N THEN high * 2
      ELSE LowAfter(Iterations(N))

LogOf(N) ==
  LET i        == Iterations(N)
      high_log == AMPS_HIGHEST_LONG_LOG - i
  IN  IF HighAfter(i) = N THEN high_log
      ELSE IF HighAfter(i) < N THEN high_log + 1
      ELSE i

Nprev(N) == IF N = Nnext(N) THEN N ELSE Nnext(N) \div 2
================================================================================
