--------------------------------- MODULE MCBCast ---------------------------------
EXTENDS AmpsBCast

\* Two broadcasts in a row; the source of the second one is a node inside the
\* tree of the first.
MCSources == <<0, 2>>

\* amps_FindPowers, for up to 2048 ranks: Nprev is the leading bit of the number
\* of ranks, Nnext the smallest power of two that is not smaller than it, and log
\* the logarithm of Nnext.
ASSUME PowersBracketSize ==
  \A size \in 1..2048 :
    /\ \E k \in 0..11 : Nprev(size) = 2^k
    /\ Nprev(size) <= size /\ size < 2 * Nprev(size)
    /\ Nnext(size) = IF Nprev(size) = size THEN size ELSE 2 * Nprev(size)
    /\ 2^LogOf(size) = Nnext(size)
================================================================================
