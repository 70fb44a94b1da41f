--------------------------- MODULE MCVariantContent ---------------------------
(* Small instances of VariantContent for TLC. *)
EXTENDS VariantContent, TLC

\* A slug is a name: documents may use any of them for anything.
SlugSymmetry == Permutations(LessonSlugs) \cup Permutations(ChallengeSlugs)
==============================================================================
