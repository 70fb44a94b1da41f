----------------------------- MODULE GradingPool -----------------------------
(***************************************************************************)
(* From a submitted solution to its verdict: the submit handlers           *)
(* (internal/web/submit_handlers.go), the submissions table                *)
(* (internal/store/submissions.go) and the worker pool of each duckserver  *)
(* process (internal/grader/pool.go), with crashes, restarts and store and *)
(* grader failures.                                                        *)
(*                                                                         *)
(* One action is one statement against the database, one channel           *)
(* operation, or one run of the grader; between them any other process     *)
(* may move.  Scores, outputs and the version a row is stamped with are    *)
(* left out.                                                               *)
(***************************************************************************)
EXTENDS Naturals, Sequences, FiniteSets

CONSTANTS
  Instances,       \* server processes, now running or not
  Workers,         \* the goroutines of one pool
  Handlers,        \* requests one can have in progress at once
  Users,
  Challenges,
  QueueCapacity,   \* buffer of Pool.queue
  MaxInFlight,     \* maxInFlightSubmissions
  MaxDaily,        \* maxDailySubmissionsPerChallenge
  StoreFailures,   \* whether the pool's calls to the store may fail
  MaxSubmissions,  \* bound on the rows of the submissions table
  MaxCrashes,      \* bound on the processes that die
  None             \* no request, no job, no claim, no audit

ASSUME GradingAssumption ==
  /\ IsFiniteSet(Instances)
  /\ IsFiniteSet(Workers) /\ Workers # {}
  /\ IsFiniteSet(Handlers) /\ Handlers # {}
  /\ QueueCapacity \in Nat \ {0}
  /\ MaxInFlight \in Nat \ {0}
  /\ MaxDaily \in Nat \ {0}
  /\ StoreFailures \in BOOLEAN
  /\ MaxSubmissions \in Nat
  /\ MaxCrashes \in Nat

VARIABLES
  rows,        \* the submissions table, in order of id
  expired,     \* rows 1..expired are more than 24 hours old
  handlers,    \* request -> what it does, or None
  up,          \* processes that run
  recovering,  \* process -> ids Recover read and has yet to enqueue
  queue,       \* process -> Pool.queue
  overflow,    \* process -> ids of goroutines waiting to send to the full queue
  workers,     \* process -> worker -> its job, or None
  crashes,     \* how many processes died
  dropped      \* ghost: ids nobody will grade before the next start, as a worker gave
               \* up on them or the handler did not learn that it had stored them

pool == <<recovering, queue, overflow, workers>>
vars == <<rows, expired, handlers, up, pool, crashes, dropped>>

-----------------------------------------------------------------------------
Verdicts == {"passed", "failed", "error"}
Claims == {"passed", "failed"}

Submission ==
  [user : Users, challenge : Challenges, claimed : BOOLEAN,
   status : Verdicts \cup {"pending", "running"}, audit : Verdicts \cup {None}]
Request ==
  [on : Instances, user : Users, challenge : Challenges, claim : Claims \cup {None}, stored : Nat]
Job ==
  [id : Nat \ {0}, claimed : BOOLEAN,
   step : {"marking", "grading", "saving"}, result : Verdicts \cup {None}]

ASSUME NoneAssumption == None \notin Request \cup Job \cup Verdicts

Ids == DOMAIN rows
Terminal(n) == rows[n].status \in Verdicts
AwaitsAudit(n) == rows[n].claimed /\ rows[n].audit = None

OnlyPending(n) == rows[n].status = "pending" \/ AwaitsAudit(n)   \* mutant: forgets what was running

\* Counted against the in-flight limit, and what Recover picks up.
Unfinished(n) == ~ Terminal(n) \/ AwaitsAudit(n)

Serving(i) == i \in up /\ recovering[i] = {}

-----------------------------------------------------------------------------
(* The submit handlers.                                                     *)

InFlight(u) == {n \in Ids : rows[n].user = u /\ Unfinished(n)}
Today(u, c) == {n \in Ids : n > expired /\ rows[n].user = u /\ rows[n].challenge = c}

LimitedByGrading(u, c) ==   \* mutant: audits are not counted
  \/ Cardinality({n \in InFlight(u) : ~ AwaitsAudit(n)}) >= MaxInFlight
  \/ Cardinality(Today(u, c)) >= MaxDaily

LimitedInFlight(u, c) ==    \* mutant: no limit for the day
  Cardinality(InFlight(u)) >= MaxInFlight

RateLimited(u, c) ==
  Cardinality(InFlight(u)) >= MaxInFlight \/ Cardinality(Today(u, c)) >= MaxDaily

\* A request passed its checks, the rate limit last.
CheckRate(h, i, u, c, claim) ==
  /\ Serving(i)
  /\ handlers[h] = None
  /\ Len(rows) + Cardinality({g \in Handlers : handlers[g] # None}) < MaxSubmissions
  /\ ~ RateLimited(u, c)
  /\ handlers' = [handlers EXCEPT ![h] =
       [on |-> i, user |-> u, challenge |-> c, claim |-> claim, stored |-> 0]]
  /\ UNCHANGED <<rows, expired, up, pool, crashes, dropped>>

NewRow(r) ==
  [user |-> r.user, challenge |-> r.challenge, claimed |-> r.claim # None,
   status |-> IF r.claim = None THEN "pending" ELSE r.claim, audit |-> None]

\* CreateSubmission, or CreateClaimedSubmission with the verdict of the CLI, commits.
Insert(h) ==
  /\ handlers[h] # None
  /\ handlers[h].stored = 0
  /\ rows' = Append(rows, NewRow(handlers[h]))
  /\ UNCHANGED <<expired, up, pool, crashes>>

Create(h) ==
  /\ Insert(h)
  /\ handlers' = [handlers EXCEPT ![h].stored = Len(rows) + 1]
  /\ UNCHANGED dropped

\* The insert commits and its answer does not come: the statement runs under the
\* request's context, which its client may end, and over a connection that may
\* break.  The handler responds with an error and enqueues nothing.
CreateUnanswered(h) ==
  /\ Insert(h)
  /\ handlers' = [handlers EXCEPT ![h] = None]
  /\ dropped' = dropped \cup {Len(rows) + 1}

\* The challenge was archived since it was looked up, or the insert did not commit.
CreateFails(h) ==
  /\ handlers[h] # None
  /\ handlers[h].stored = 0
  /\ handlers' = [handlers EXCEPT ![h] = None]
  /\ UNCHANGED <<rows, expired, up, pool, crashes, dropped>>

-----------------------------------------------------------------------------
(* The queue.                                                               *)

HasRoomForOneMore(i) == Len(queue[i]) <= QueueCapacity   \* mutant: off by one
HasRoom(i) == Len(queue[i]) < QueueCapacity

EnqueueOrDrop(i, n) ==   \* mutant: no goroutine for what does not fit
  /\ queue' = IF HasRoom(i) THEN [queue EXCEPT ![i] = Append(@, n)] ELSE queue
  /\ UNCHANGED overflow

EnqueueTwice(i, n) ==    \* mutant: the goroutine is started in either case
  /\ queue' = IF HasRoom(i) THEN [queue EXCEPT ![i] = Append(@, n)] ELSE queue
  /\ overflow' = [overflow EXCEPT ![i] = @ \cup {n}]

Enqueue(i, n) ==
  IF HasRoom(i)
  THEN /\ queue' = [queue EXCEPT ![i] = Append(@, n)]
       /\ UNCHANGED overflow
  ELSE /\ overflow' = [overflow EXCEPT ![i] = @ \cup {n}]
       /\ UNCHANGED queue

\* The handler enqueues what it stored, and responds.
Schedule(h) ==
  /\ handlers[h] # None
  /\ handlers[h].stored # 0
  /\ Enqueue(handlers[h].on, handlers[h].stored)
  /\ handlers' = [handlers EXCEPT ![h] = None]
  /\ UNCHANGED <<rows, expired, up, recovering, workers, crashes, dropped>>

\* A waiting goroutine's send goes through.
Send(i, n) ==
  /\ n \in overflow[i]
  /\ HasRoom(i)
  /\ queue' = [queue EXCEPT ![i] = Append(@, n)]
  /\ overflow' = [overflow EXCEPT ![i] = @ \ {n}]
  /\ UNCHANGED <<rows, expired, handlers, up, recovering, workers, crashes, dropped>>

-----------------------------------------------------------------------------
(* The workers.                                                             *)

JobAsUnclaimed(n) ==   \* mutant: an audit takes the path of a grading
  [id |-> n, claimed |-> FALSE, step |-> "marking", result |-> None]

JobFor(n) ==
  [id |-> n, claimed |-> rows[n].claimed,
   step |-> IF rows[n].claimed THEN "grading" ELSE "marking", result |-> None]

Idle(i, w) == workers[i][w] = None
At(i, w, step) == ~ Idle(i, w) /\ workers[i][w].step = step

Becomes(i, w, job) == workers' = [workers EXCEPT ![i] = [@ EXCEPT ![w] = job]]

GivesUp(i, w, n) ==
  /\ Becomes(i, w, None)
  /\ dropped' = dropped \cup {n}

\* The worker receives an id and reads its job.
Load(i, w) ==
  /\ Idle(i, w)
  /\ queue[i] # <<>>
  /\ queue' = [queue EXCEPT ![i] = Tail(@)]
  /\ Becomes(i, w, JobFor(Head(queue[i])))
  /\ UNCHANGED <<rows, expired, handlers, up, recovering, overflow, crashes, dropped>>

LoadFails(i, w) ==
  /\ StoreFailures
  /\ Idle(i, w)
  /\ queue[i] # <<>>
  /\ queue' = [queue EXCEPT ![i] = Tail(@)]
  /\ dropped' = dropped \cup {Head(queue[i])}
  /\ UNCHANGED <<rows, expired, handlers, up, recovering, overflow, workers, crashes>>

MarkRunning(i, w) ==
  /\ At(i, w, "marking")
  /\ rows' = [rows EXCEPT ![workers[i][w].id].status = "running"]
  /\ Becomes(i, w, [workers[i][w] EXCEPT !.step = "grading"])
  /\ UNCHANGED <<expired, handlers, up, recovering, queue, overflow, crashes, dropped>>

MarkFails(i, w) ==
  /\ StoreFailures
  /\ At(i, w, "marking")
  /\ GivesUp(i, w, workers[i][w].id)
  /\ UNCHANGED <<rows, expired, handlers, up, recovering, queue, overflow, crashes>>

\* The run ended: its tests passed, or failed, or hit the time limit.
Grade(i, w, verdict) ==
  /\ At(i, w, "grading")
  /\ Becomes(i, w, [workers[i][w] EXCEPT !.step = "saving", !.result = verdict])
  /\ UNCHANGED <<rows, expired, handlers, up, recovering, queue, overflow, crashes, dropped>>

\* The grader itself failed: a submission gets the verdict error, an audit is left.
GraderFails(i, w) ==
  /\ At(i, w, "grading")
  /\ IF workers[i][w].claimed
     THEN GivesUp(i, w, workers[i][w].id)
     ELSE /\ Becomes(i, w, [workers[i][w] EXCEPT !.step = "saving", !.result = "error"])
          /\ UNCHANGED dropped
  /\ UNCHANGED <<rows, expired, handlers, up, recovering, queue, overflow, crashes>>

RecordedOver(row, job) ==   \* mutant: a failed audit revokes the claim
  IF job.claimed THEN [row EXCEPT !.audit = job.result, !.status = job.result]
                 ELSE [row EXCEPT !.status = job.result]

Recorded(row, job) ==
  IF job.claimed THEN [row EXCEPT !.audit = job.result] ELSE [row EXCEPT !.status = job.result]

\* AuditSubmission or CompleteSubmission.
Save(i, w) ==
  LET job == workers[i][w] IN
  /\ At(i, w, "saving")
  /\ rows' = [rows EXCEPT ![job.id] = Recorded(rows[job.id], job)]
  /\ Becomes(i, w, None)
  /\ UNCHANGED <<expired, handlers, up, recovering, queue, overflow, crashes, dropped>>

SaveFails(i, w) ==
  /\ StoreFailures
  /\ At(i, w, "saving")
  /\ GivesUp(i, w, workers[i][w].id)
  /\ UNCHANGED <<rows, expired, handlers, up, recovering, queue, overflow, crashes>>

-----------------------------------------------------------------------------
(* Processes come and go.                                                   *)

Everything == Ids   \* mutant: Recover reads the finished submissions too
Recoverable == {n \in Ids : Unfinished(n)}

\* The pool's workers start, and Recover reads what is unfinished.
Start(i) ==
  /\ i \notin up
  /\ up' = up \cup {i}
  /\ recovering' = [recovering EXCEPT ![i] = Recoverable]
  /\ dropped' = {}
  /\ UNCHANGED <<rows, expired, handlers, queue, overflow, workers, crashes>>

\* Recover enqueues the next of the ids it read, which are in order.
RecoverNext(i) ==
  \E n \in recovering[i] :
    /\ \A m \in recovering[i] : n <= m
    /\ Enqueue(i, n)
    /\ recovering' = [recovering EXCEPT ![i] = @ \ {n}]
    /\ UNCHANGED <<rows, expired, handlers, up, workers, crashes, dropped>>

\* The process ends, by a crash or a shutdown: its queue, its goroutines and
\* its requests are gone.
Crash(i) ==
  /\ i \in up
  /\ crashes < MaxCrashes
  /\ crashes' = crashes + 1
  /\ up' = up \ {i}
  /\ recovering' = [recovering EXCEPT ![i] = {}]
  /\ queue' = [queue EXCEPT ![i] = <<>>]
  /\ overflow' = [overflow EXCEPT ![i] = {}]
  /\ workers' = [workers EXCEPT ![i] = [w \in Workers |-> None]]
  /\ handlers' = [h \in Handlers |->
       IF handlers[h] # None /\ handlers[h].on = i THEN None ELSE handlers[h]]
  /\ UNCHANGED <<rows, expired, dropped>>

\* The oldest row of the last 24 hours leaves the window.
WindowSlides ==
  /\ expired < Len(rows)
  /\ expired' = expired + 1
  /\ UNCHANGED <<rows, handlers, up, pool, crashes, dropped>>

-----------------------------------------------------------------------------
Init ==
  /\ rows = <<>>
  /\ expired = 0
  /\ handlers = [h \in Handlers |-> None]
  /\ up = {}
  /\ recovering = [i \in Instances |-> {}]
  /\ queue = [i \in Instances |-> <<>>]
  /\ overflow = [i \in Instances |-> {}]
  /\ workers = [i \in Instances |-> [w \in Workers |-> None]]
  /\ crashes = 0
  /\ dropped = {}

Submitting(h) ==
  \/ \E i \in Instances, u \in Users, c \in Challenges, claim \in Claims \cup {None} :
       CheckRate(h, i, u, c, claim)
  \/ Create(h)
  \/ CreateUnanswered(h)
  \/ CreateFails(h)
  \/ Schedule(h)

Work(i, w) ==
  \/ Load(i, w)
  \/ MarkRunning(i, w)
  \/ \E verdict \in Verdicts : Grade(i, w, verdict)
  \/ GraderFails(i, w)
  \/ Save(i, w)

WorkFails(i, w) == LoadFails(i, w) \/ MarkFails(i, w) \/ SaveFails(i, w)

Next ==
  \/ \E h \in Handlers : Submitting(h)
  \/ \E i \in Instances :
       \/ \E n \in Ids : Send(i, n)
       \/ \E w \in Workers : Work(i, w) \/ WorkFails(i, w)
       \/ Start(i)
       \/ RecoverNext(i)
       \/ Crash(i)
  \/ WindowSlides

Spec == Init /\ [][Next]_vars

\* A process that is down is started again, a handler past its insert runs on,
\* a worker and a waiting goroutine are scheduled, and a run ends: the grader
\* works under a deadline.
FairSpec ==
  /\ Spec
  /\ \A h \in Handlers : WF_vars(Schedule(h))
  /\ \A i \in Instances :
       /\ WF_vars(Start(i))
       /\ WF_vars(RecoverNext(i))
       /\ \A w \in Workers : WF_vars(Work(i, w))
       /\ \A n \in 1..MaxSubmissions : WF_vars(n \in Ids /\ Send(i, n))

-----------------------------------------------------------------------------
(* What grading promises.                                                   *)

\* Every row, request and job has its type, the ids that are queued or worked
\* on are those of rows, and the channel's buffer is never exceeded.
TypeOK ==
  /\ rows \in Seq(Submission)
  /\ expired \in 0..Len(rows)
  /\ handlers \in [Handlers -> Request \cup {None}]
  /\ \A h \in Handlers : handlers[h] # None => handlers[h].stored \in 0..Len(rows)
  /\ up \in SUBSET Instances
  /\ recovering \in [Instances -> SUBSET Ids]
  /\ queue \in [Instances -> Seq(Ids)]
  /\ \A i \in Instances : Len(queue[i]) <= QueueCapacity
  /\ overflow \in [Instances -> SUBSET Ids]
  /\ workers \in [Instances -> [Workers -> Job \cup {None}]]
  /\ \A i \in Instances, w \in Workers : ~ Idle(i, w) => workers[i][w].id \in Ids
  /\ crashes \in 0..MaxCrashes
  /\ dropped \in SUBSET Ids

\* Where submission n is held for grading, over all processes.
Places(n) ==
  {<<"handler", h>> : h \in {g \in Handlers : handlers[g] # None /\ handlers[g].stored = n}}
    \cup {<<"recovering", i>> : i \in {j \in Instances : n \in recovering[j]}}
    \cup {<<"overflow", i>> : i \in {j \in Instances : n \in overflow[j]}}
    \cup (UNION {{<<"queue", i, k>> : k \in {l \in DOMAIN queue[i] : queue[i][l] = n}} : i \in Instances})
    \cup (UNION {{<<"worker", i, w>> : w \in {x \in Workers : ~ Idle(i, x) /\ workers[i][x].id = n}}
                   : i \in Instances})

\* A server that restarts or overflows its queue never has a submission in two
\* places: no two workers run it, and no late run follows a finished one.
HeldOnce == \A n \in Ids : \A a, b \in Places(n) : a = b

\* What is finished is held by nobody: nothing will touch its row again.
FinishedIsReleased == \A n \in Ids : ~ Unfinished(n) => Places(n) = {}

\* While the server runs, an unfinished submission is on its way to a worker or
\* with one, unless a worker gave up on it for a failing store or grader, or the
\* answer to its insert was lost.  Such a one is nowhere until the next start,
\* and no other is: not one that a full queue or a restart met half way.
NothingForgotten ==
  up # {} => \A n \in Ids : Unfinished(n) => Places(n) # {} \/ n \in dropped

\* A verdict, once given, and an audit, once saved, are never rewritten: not by
\* the audit of a claim, and not by a run that a restart repeated.
VerdictIsFinal ==
  [][\A n \in Ids :
       /\ Terminal(n) => rows'[n].status = rows[n].status
       /\ rows[n].audit # None => rows'[n].audit = rows[n].audit]_vars

\* The limits are checked before the insert and not by it, so concurrent
\* requests exceed them, but by fewer rows than there are requests at once.
LimitsBound ==
  \A u \in Users :
    /\ Cardinality(InFlight(u)) < MaxInFlight + Cardinality(Handlers)
    /\ \A c \in Challenges : Cardinality(Today(u, c)) < MaxDaily + Cardinality(Handlers)

\* What submissions.go:12-16 and the message to the user say of the limits: that
\* they cap what is in flight and what is submitted in a day.
LimitsCap ==
  \A u \in Users :
    /\ Cardinality(InFlight(u)) <= MaxInFlight
    /\ \A c \in Challenges : Cardinality(Today(u, c)) <= MaxDaily

\* Every submission gets a verdict, through every crash, restart and failure of
\* the grader, unless a worker gives up on it because the store fails, or the
\* answer to its insert is lost.
EveryVerdictArrives ==
  \A n \in 1..MaxSubmissions : (n \in Ids) ~> (n \in Ids /\ (Terminal(n) \/ n \in dropped))

\* Queues, workers, crashes and restarts implement one verdict per submission.
Lifecycle == INSTANCE SubmissionLifecycle WITH
  submissions <- [n \in Ids |-> [claimed |-> rows[n].claimed,
                                 verdict |-> IF Terminal(n) THEN rows[n].status ELSE None,
                                 audit |-> rows[n].audit]]

ImplementsSubmissionLifecycle == Lifecycle!Spec
==============================================================================
