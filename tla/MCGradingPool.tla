---------------------------- MODULE MCGradingPool ----------------------------
(* Small instances of GradingPool for TLC. *)
EXTENDS GradingPool, TLC

\* Workers and requests are goroutines: they have no identity in the code.
GoroutineSymmetry == Permutations(Workers) \cup Permutations(Handlers)
==============================================================================
