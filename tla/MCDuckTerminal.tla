---------------------------- MODULE MCDuckTerminal ----------------------------
(* Small instances of DuckTerminal for TLC: a course pulled inside the
   directory of another. *)
EXTENDS DuckTerminal, TLC

CONSTANTS t1, t2, t3, outer, inner, solution, notes

\* A solution of the inner course, and the outer course's marker.
Layout ==
  (solution :> <<<<inner, "merge">>, <<outer, "inner">>>>)
    @@ (notes :> <<<<outer, None>>>>)

Symmetric == Permutations({t1, t2, t3})
==============================================================================
