-------------------------- MODULE MCKeyframeFilter --------------------------
(* TLC's instances of KeyframeFilter.                                      *)
EXTENDS KeyframeFilter, TLC

Symmetry == Permutations(Callers) \cup Permutations(Loops) \cup Permutations(Timers)

\* TLC goes no further than the first Startup that does not find the filter at rest:
\* NoStuckCache says nothing of what comes after it, and the rest is proved.
Orderly == ~unready
=============================================================================
