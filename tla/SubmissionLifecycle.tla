------------------------- MODULE SubmissionLifecycle -------------------------
(***************************************************************************)
(* What grading promises a learner, without queues, workers or restarts:   *)
(* a submission gets one verdict and keeps it.  A claimed submission comes *)
(* with its verdict, and may get one audit, which leaves the verdict alone.*)
(***************************************************************************)
EXTENDS Naturals, Sequences

CONSTANTS
  Verdicts,  \* what the test run of a submission may end in
  None       \* no verdict yet, no audit yet

VARIABLE submissions  \* in order of arrival: [claimed, verdict, audit]

Accept ==
  submissions' = Append(submissions, [claimed |-> FALSE, verdict |-> None, audit |-> None])

AcceptClaim(verdict) ==
  submissions' = Append(submissions, [claimed |-> TRUE, verdict |-> verdict, audit |-> None])

Judge(n, verdict) ==
  /\ submissions[n].verdict = None
  /\ submissions' = [submissions EXCEPT ![n].verdict = verdict]

Audit(n, verdict) ==
  /\ submissions[n].claimed
  /\ submissions[n].audit = None
  /\ submissions' = [submissions EXCEPT ![n].audit = verdict]

Init == submissions = <<>>

Next ==
  \/ Accept
  \/ \E verdict \in Verdicts :
       \/ AcceptClaim(verdict)
       \/ \E n \in DOMAIN submissions : Judge(n, verdict) \/ Audit(n, verdict)

Spec == Init /\ [][Next]_submissions
==============================================================================
