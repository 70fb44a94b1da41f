---------------------------- MODULE MCPulledCourse ----------------------------
(* Small instances of PulledCourse for TLC: courses pulled for the first time,
   again, and over what an earlier version of the CLI left. *)
EXTENDS PulledCourse, TLC

CONSTANTS merge, sort

Slugs == Permutations({merge, sort})
==============================================================================
