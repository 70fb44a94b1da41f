--------------------------- MODULE GradingPoolProofs ---------------------------
(***************************************************************************)
(* What holds of the grading of submissions for any users, challenges,      *)
(* workers, requests, queue and limits, through any number of crashes: types, *)
(* claimed verdicts, daily limits and the end of taken jobs for any number  *)
(* of server processes, the rest for a single one.                          *)
(***************************************************************************)
EXTENDS GradingPool, FiniteSetTheorems, SequenceTheorems, TLAPS

-----------------------------------------------------------------------------
(* What a job is.                                                           *)

\* A job takes the path of its row, and has a result when it comes to save it.
JobsOK ==
  \A i \in Instances, w \in Workers : ~ Idle(i, w) =>
    /\ workers[i][w].claimed = rows[workers[i][w].id].claimed
    /\ workers[i][w].step = "saving" => workers[i][w].result # None
    /\ workers[i][w].step = "marking" => ~ workers[i][w].claimed

TypeInv == TypeOK /\ JobsOK

\* The ids are 1 to the number of rows.
LEMMA IdsAre ==
  ASSUME TypeOK
  PROVE  Len(rows) \in Nat /\ Ids = 1..Len(rows) /\ \A n \in Ids : rows[n] \in Submission
BY DEF TypeOK, Ids

\* A worker takes, changes or drops a job.
LEMMA WorkersChange ==
  ASSUME TypeOK, NEW i \in Instances, NEW w \in Workers, NEW job \in Job \cup {None},
         Becomes(i, w, job)
  PROVE  /\ workers' \in [Instances -> [Workers -> Job \cup {None}]]
         /\ \A j \in Instances, x \in Workers :
              workers'[j][x] = IF j = i /\ x = w THEN job ELSE workers[j][x]
BY DEF TypeOK, Becomes

\* A worker's job, when it has one.
LEMMA JobFacts ==
  ASSUME TypeInv, NEW i \in Instances, NEW w \in Workers, ~ Idle(i, w)
  PROVE  workers[i][w] \in Job /\ workers[i][w].id \in Ids
BY DEF TypeInv, TypeOK, Idle

\* A queue takes one id more while it has room.
LEMMA QueueGrows ==
  ASSUME TypeOK, NEW i \in Instances, NEW n \in Ids, HasRoom(i),
         queue' = [queue EXCEPT ![i] = Append(@, n)]
  PROVE  /\ queue' \in [Instances -> Seq(Ids)]
         /\ \A j \in Instances : Len(queue'[j]) <= QueueCapacity
<1>1. queue[i] \in Seq(Ids) /\ Len(queue[i]) < QueueCapacity
  BY DEF TypeOK, HasRoom
<1>2. Append(queue[i], n) \in Seq(Ids) /\ Len(Append(queue[i], n)) = Len(queue[i]) + 1
  BY <1>1
<1>3. \A j \in Instances : queue'[j] = IF j = i THEN Append(queue[i], n) ELSE queue[j]
  BY DEF TypeOK
<1>4. queue' \in [Instances -> Seq(Ids)]
  BY <1>2 DEF TypeOK
<1>5. \A j \in Instances : Len(queue'[j]) <= QueueCapacity
  BY <1>1, <1>2, <1>3, GradingAssumption DEF TypeOK
<1> QED
  BY <1>4, <1>5

\* An id that is enqueued goes to the queue or waits beside it.
LEMMA EnqueueType ==
  ASSUME TypeOK, NEW i \in Instances, NEW n \in Ids, Enqueue(i, n)
  PROVE  /\ queue' \in [Instances -> Seq(Ids)]
         /\ \A j \in Instances : Len(queue'[j]) <= QueueCapacity
         /\ overflow' \in [Instances -> SUBSET Ids]
<1>1. CASE HasRoom(i)
  BY <1>1, QueueGrows DEF Enqueue, TypeOK
<1>2. CASE ~ HasRoom(i)
  <2>1. overflow' = [overflow EXCEPT ![i] = @ \cup {n}] /\ queue' = queue
    BY <1>2 DEF Enqueue
  <2>2. overflow \in [Instances -> SUBSET Ids]
    BY DEF TypeOK
  <2>3. overflow' \in [Instances -> SUBSET Ids]
    BY <2>1, <2>2
  <2> QED
    BY <2>1, <2>3 DEF TypeOK
<1> QED
  BY <1>1, <1>2

\* A queue gives its first id.
LEMMA QueueShrinks ==
  ASSUME TypeOK, NEW i \in Instances, queue[i] # <<>>,
         queue' = [queue EXCEPT ![i] = Tail(@)]
  PROVE  /\ queue' \in [Instances -> Seq(Ids)]
         /\ \A j \in Instances : Len(queue'[j]) <= QueueCapacity
         /\ Head(queue[i]) \in Ids
<1>1. queue[i] \in Seq(Ids) /\ Len(queue[i]) <= QueueCapacity
  BY DEF TypeOK
<1>2. Tail(queue[i]) \in Seq(Ids) /\ Len(Tail(queue[i])) = Len(queue[i]) - 1
      /\ Len(queue[i]) \in Nat
  BY <1>1
<1>3. \A j \in Instances : queue'[j] = IF j = i THEN Tail(queue[i]) ELSE queue[j]
  BY DEF TypeOK
<1>4. queue' \in [Instances -> Seq(Ids)]
  BY <1>2 DEF TypeOK
<1>5. \A j \in Instances : Len(queue'[j]) <= QueueCapacity
  BY <1>1, <1>2, <1>3, GradingAssumption DEF TypeOK
<1> QED
  BY <1>1, <1>4, <1>5

-----------------------------------------------------------------------------
(* Type correctness.                                                        *)

\* Steps that leave the rows alone keep their part of the types.
LEMMA RowsStayTyped ==
  ASSUME TypeInv, UNCHANGED <<rows, expired>>
  PROVE  rows' \in Seq(Submission) /\ expired' \in 0..Len(rows') /\ Ids' = Ids
BY DEF TypeInv, TypeOK, Ids

\* An insert adds one row, unfinished and with a verdict if it is claimed.
LEMMA InsertedRow ==
  ASSUME TypeOK, NEW h \in Handlers, Insert(h)
  PROVE  LET r == handlers[h]
             n == Len(rows) + 1
         IN /\ r \in Request /\ r # None /\ r.stored = 0
            /\ rows' = Append(rows, NewRow(r))
            /\ rows' \in Seq(Submission) /\ Len(rows') = n /\ Len(rows) \in Nat
            /\ \A m \in Ids : rows'[m] = rows[m]
            /\ Ids \subseteq Ids' /\ n \in Ids' /\ n \notin Ids /\ Ids' = Ids \cup {n}
            /\ rows'[n] = NewRow(r) /\ n # 0
            /\ NewRow(r).user = r.user /\ NewRow(r).challenge = r.challenge
            /\ NewRow(r).claimed = (r.claim # None) /\ NewRow(r).audit = None
            /\ NewRow(r).status = (IF r.claim = None THEN "pending" ELSE r.claim)
            /\ NewRow(r).claimed => NewRow(r).status \in Verdicts
            /\ ~ NewRow(r).claimed => NewRow(r).status \notin Verdicts
<1>1. PICK r, n : r = handlers[h] /\ n = Len(rows) + 1
  OBVIOUS
<1>2. r \in Request /\ r # None /\ r.stored = 0 /\ rows' = Append(rows, NewRow(r))
  BY <1>1 DEF Insert, TypeOK
<1>3. /\ NewRow(r).user = r.user /\ NewRow(r).challenge = r.challenge
      /\ NewRow(r).claimed = (r.claim # None) /\ NewRow(r).audit = None
      /\ NewRow(r).status = (IF r.claim = None THEN "pending" ELSE r.claim)
  BY DEF NewRow
<1>4. /\ NewRow(r) \in Submission
      /\ NewRow(r).claimed => NewRow(r).status \in Verdicts
      /\ ~ NewRow(r).claimed => NewRow(r).status \notin Verdicts
  BY <1>2 DEF NewRow, Submission, Request, Claims, Verdicts
<1>5. /\ rows' \in Seq(Submission) /\ Len(rows') = n /\ Len(rows) \in Nat /\ rows'[n] = NewRow(r)
      /\ Ids = 1..Len(rows) /\ \A m \in Ids : rows'[m] = rows[m]
  BY <1>1, <1>2, <1>4, IdsAre DEF TypeOK
<1>6. Ids' = Ids \cup {n} /\ n \notin Ids /\ n # 0
  <2>1. Ids' = 1..Len(rows')
    BY <1>5 DEF Ids
  <2> QED
    BY <1>1, <1>5, <2>1
<1> QED
  BY <1>1, <1>2, <1>3, <1>4, <1>5, <1>6

\* A row is inserted, whether or not its handler learns of it.
Creates(h) == Create(h) \/ CreateUnanswered(h)

LEMMA CreatesInserts == \A h : Creates(h) => Insert(h)
BY DEF Creates, Create, CreateUnanswered

\* The steps of a request.
LEMMA SubmittingTypeInv ==
  ASSUME TypeInv, NEW h \in Handlers, Submitting(h)
  PROVE  TypeInv'
<1>0. TypeOK /\ JobsOK
  BY DEF TypeInv
<1>1. ASSUME NEW i \in Instances, NEW u \in Users, NEW c \in Challenges,
             NEW claim \in Claims \cup {None}, CheckRate(h, i, u, c, claim)
      PROVE  TypeInv'
  <2> DEFINE new == [on |-> i, user |-> u, challenge |-> c, claim |-> claim, stored |-> 0]
  <2>1. new \in Request /\ new.stored = 0
    BY DEF Request
  <2>2. handlers' = [handlers EXCEPT ![h] = new]
    BY <1>1 DEF CheckRate
  <2>3. UNCHANGED <<rows, expired, up, pool, crashes, dropped>>
    BY <1>1 DEF CheckRate
  <2> HIDE DEF new
  <2>4. handlers' \in [Handlers -> Request \cup {None}]
    BY <1>0, <2>1, <2>2 DEF TypeOK
  <2>5. \A g \in Handlers : handlers'[g] # None => handlers'[g].stored \in 0..Len(rows)
    BY <1>0, <2>1, <2>2, IdsAre DEF TypeOK
  <2> QED
    BY <1>0, <2>3, <2>4, <2>5 DEF TypeInv, TypeOK, JobsOK, Idle, Ids, pool
<1>2. CASE Create(h) \/ CreateUnanswered(h)
  <2> DEFINE r == handlers[h]
             n == Len(rows) + 1
  <2>1. Insert(h) /\ r \in Request
    BY <1>0, <1>2 DEF Create, CreateUnanswered, Insert, TypeOK
  <2>2. /\ rows' \in Seq(Submission) /\ Len(rows') = n /\ Len(rows) \in Nat
        /\ \A m \in Ids : rows'[m] = rows[m]
        /\ Ids \subseteq Ids' /\ n \in Ids'
    BY <1>0, <2>1, InsertedRow
  <2>3. UNCHANGED <<expired, up, pool, crashes>>
    BY <2>1 DEF Insert
  <2>4. dropped' \in SUBSET Ids'
    BY <1>0, <1>2, <2>2 DEF Create, CreateUnanswered, TypeOK
  <2>5. /\ handlers' \in [Handlers -> Request \cup {None}]
        /\ \A g \in Handlers : handlers'[g] # None => handlers'[g].stored \in 0..Len(rows')
    <3>1. CASE Create(h)
      <4>1. handlers' = [handlers EXCEPT ![h] = [r EXCEPT !.stored = n]]
        BY <3>1 DEF Create
      <4>2. [r EXCEPT !.stored = n].stored = n /\ [r EXCEPT !.stored = n] \in Request
        BY <2>1, <2>2 DEF Request
      <4> QED
        BY <1>0, <2>2, <4>1, <4>2 DEF TypeOK
    <3>2. CASE CreateUnanswered(h)
      <4>1. handlers' = [handlers EXCEPT ![h] = None]
        BY <3>2 DEF CreateUnanswered
      <4> QED
        BY <1>0, <2>2, <4>1 DEF TypeOK
    <3> QED
      BY <1>2, <3>1, <3>2
  <2>6. queue' \in [Instances -> Seq(Ids')]
    <3>1. \A i \in Instances : queue[i] \in Seq(Ids')
      BY <1>0, <2>2, SeqMonotonic DEF TypeOK
    <3> QED
      BY <1>0, <2>3, <3>1 DEF TypeOK, pool
  <2>7. TypeOK'
    BY <1>0, <2>2, <2>3, <2>4, <2>5, <2>6 DEF TypeOK, pool, Idle
  <2>8. JobsOK'
    BY <1>0, <2>2, <2>3 DEF JobsOK, TypeOK, pool, Idle
  <2> QED
    BY <2>7, <2>8 DEF TypeInv
<1>3. CASE CreateFails(h)
  BY <1>0, <1>3 DEF CreateFails, TypeInv, TypeOK, JobsOK, Idle, Ids, pool
<1>4. CASE Schedule(h)
  <2>1. handlers[h] \in Request /\ handlers[h].stored \in Ids
    BY <1>0, <1>4, IdsAre DEF Schedule, TypeOK
  <2>2. handlers[h].on \in Instances /\ Enqueue(handlers[h].on, handlers[h].stored)
        /\ handlers' = [handlers EXCEPT ![h] = None]
        /\ UNCHANGED <<rows, expired, up, recovering, workers, crashes, dropped>>
    BY <1>4, <2>1 DEF Schedule, Request
  <2> QED
    BY <1>0, <2>1, <2>2, EnqueueType DEF TypeInv, TypeOK, JobsOK, Idle, Ids
<1> QED
  BY <1>1, <1>2, <1>3, <1>4 DEF Submitting

\* A step of a worker that leaves the rows alone.
LEMMA WorkerTypeInv ==
  ASSUME TypeInv, NEW i \in Instances, NEW w \in Workers, NEW job \in Job \cup {None},
         Becomes(i, w, job),
         job # None =>
           /\ job.id \in Ids
           /\ job.claimed = rows[job.id].claimed
           /\ job.step = "saving" => job.result # None
           /\ job.step = "marking" => ~ job.claimed,
         UNCHANGED <<rows, expired, handlers, up, recovering, overflow, crashes>>,
         queue' \in [Instances -> Seq(Ids)],
         \A j \in Instances : Len(queue'[j]) <= QueueCapacity,
         dropped' \in SUBSET Ids
  PROVE  TypeInv'
<1>1. TypeOK /\ JobsOK
  BY DEF TypeInv
<1>2. /\ workers' \in [Instances -> [Workers -> Job \cup {None}]]
      /\ \A j \in Instances, x \in Workers :
           workers'[j][x] = IF j = i /\ x = w THEN job ELSE workers[j][x]
  BY <1>1, WorkersChange
<1>3. TypeOK'
  BY <1>1, <1>2 DEF TypeOK, Idle, Ids
<1>4. JobsOK'
  BY <1>1, <1>2 DEF JobsOK, Idle
<1> QED
  BY <1>3, <1>4 DEF TypeInv

\* A step of a worker that changes the row of its job.
LEMMA RowTypeInv ==
  ASSUME TypeInv, NEW i \in Instances, NEW w \in Workers, NEW job \in Job \cup {None},
         NEW n \in Ids, NEW row \in Submission, row.claimed = rows[n].claimed,
         rows' = [rows EXCEPT ![n] = row], Becomes(i, w, job),
         job # None =>
           /\ job.id \in Ids
           /\ job.claimed = rows[job.id].claimed
           /\ job.step = "saving" => job.result # None
           /\ job.step = "marking" => ~ job.claimed,
         UNCHANGED <<expired, handlers, up, recovering, queue, overflow, crashes, dropped>>
  PROVE  TypeInv'
<1>1. TypeOK /\ JobsOK
  BY DEF TypeInv
<1>2. /\ workers' \in [Instances -> [Workers -> Job \cup {None}]]
      /\ \A j \in Instances, x \in Workers :
           workers'[j][x] = IF j = i /\ x = w THEN job ELSE workers[j][x]
  BY <1>1, WorkersChange
<1>3. rows \in Seq(Submission) /\ n \in 1..Len(rows)
  BY <1>1, IdsAre DEF TypeOK
<1>4. rows' \in Seq(Submission) /\ Len(rows') = Len(rows)
      /\ \A m \in 1..Len(rows) : rows'[m] = IF m = n THEN row ELSE rows[m]
  BY <1>3, ExceptSeq
<1>5. Ids' = Ids /\ Ids = 1..Len(rows)
  BY <1>1, <1>4, IdsAre DEF Ids
<1>6. \A m \in Ids : rows'[m].claimed = rows[m].claimed
  BY <1>4, <1>5
<1>7. TypeOK'
  BY <1>1, <1>2, <1>4, <1>5 DEF TypeOK, Idle
<1>8. JobsOK'
  BY <1>1, <1>2, <1>6 DEF TypeOK, JobsOK, Idle
<1> QED
  BY <1>7, <1>8 DEF TypeInv

\* The steps of a worker.
LEMMA WorkTypeInv ==
  ASSUME TypeInv, NEW i \in Instances, NEW w \in Workers, Work(i, w) \/ WorkFails(i, w)
  PROVE  TypeInv'
<1> DEFINE job == workers[i][w]
<1>0. TypeOK /\ JobsOK /\ None \notin Job
  BY NoneAssumption DEF TypeInv
<1>q. queue \in [Instances -> Seq(Ids)] /\ (\A j \in Instances : Len(queue[j]) <= QueueCapacity)
      /\ dropped \in SUBSET Ids
  BY <1>0 DEF TypeOK
<1>j. ~ Idle(i, w) =>
        /\ job \in Job /\ job.id \in Ids /\ job.claimed = rows[job.id].claimed
        /\ rows[job.id] \in Submission
        /\ job.step = "saving" => job.result # None
  BY <1>0, JobFacts, IdsAre DEF JobsOK
<1>1. CASE Load(i, w)
  <2>1. queue[i] # <<>> /\ queue' = [queue EXCEPT ![i] = Tail(@)]
        /\ UNCHANGED <<rows, expired, handlers, up, recovering, overflow, crashes, dropped>>
    BY <1>1 DEF Load
  <2> DEFINE n == Head(queue[i])
  <2>2. n \in Ids /\ rows[n] \in Submission
    BY <1>0, <2>1, QueueShrinks, IdsAre
  <2>3. JobFor(n) \in Job /\ JobFor(n).id = n /\ JobFor(n).claimed = rows[n].claimed
        /\ JobFor(n).step # "saving" /\ (JobFor(n).step = "marking" => ~ rows[n].claimed)
    <3>1. n \in Nat \ {0}
      BY <1>0, <2>2, IdsAre
    <3>2. rows[n].claimed \in BOOLEAN
      BY <2>2 DEF Submission
    <3> HIDE DEF n
    <3> QED
      BY <3>1, <3>2 DEF JobFor, Job
  <2>4. Becomes(i, w, JobFor(n))
    BY <1>1 DEF Load
  <2> HIDE DEF n
  <2> QED
    BY <1>0, <1>q, <2>1, <2>2, <2>3, <2>4, QueueShrinks, WorkerTypeInv
<1>2. CASE LoadFails(i, w)
  <2>1. queue[i] # <<>> /\ queue' = [queue EXCEPT ![i] = Tail(@)]
        /\ dropped' = dropped \cup {Head(queue[i])}
        /\ UNCHANGED <<rows, expired, handlers, up, recovering, overflow, workers, crashes>>
    BY <1>2 DEF LoadFails
  <2> QED
    BY <1>0, <1>q, <2>1, QueueShrinks DEF TypeInv, TypeOK, JobsOK, Idle, Ids
<1>3. CASE MarkRunning(i, w)
  <2>1. /\ ~ Idle(i, w) /\ job.step = "marking"
        /\ rows' = [rows EXCEPT ![job.id] = [rows[job.id] EXCEPT !.status = "running"]]
        /\ Becomes(i, w, [job EXCEPT !.step = "grading"])
        /\ UNCHANGED <<expired, handlers, up, recovering, queue, overflow, crashes, dropped>>
    BY <1>3 DEF MarkRunning, At
  <2>2. [rows[job.id] EXCEPT !.status = "running"] \in Submission
        /\ [rows[job.id] EXCEPT !.status = "running"].claimed = rows[job.id].claimed
    BY <1>j, <2>1 DEF Submission
  <2> DEFINE next == [job EXCEPT !.step = "grading"]
  <2>3. next \in Job /\ next.id = job.id /\ next.claimed = job.claimed /\ next.step = "grading"
    BY <1>j, <2>1 DEF Job
  <2> HIDE DEF next
  <2> QED
    BY <1>j, <2>1, <2>2, <2>3, RowTypeInv DEF next
<1>4. CASE MarkFails(i, w) \/ SaveFails(i, w)
  <2>1. ~ Idle(i, w) /\ Becomes(i, w, None) /\ dropped' = dropped \cup {job.id}
        /\ UNCHANGED <<rows, expired, handlers, up, recovering, queue, overflow, crashes>>
    BY <1>4 DEF MarkFails, SaveFails, GivesUp, At
  <2> QED
    BY <1>j, <1>q, <2>1, WorkerTypeInv
<1>5. ASSUME NEW verdict \in Verdicts, Becomes(i, w, [job EXCEPT !.step = "saving", !.result = verdict]),
             ~ Idle(i, w),
             UNCHANGED <<rows, expired, handlers, up, recovering, queue, overflow, crashes, dropped>>
      PROVE  TypeInv'
  <2> DEFINE next == [job EXCEPT !.step = "saving", !.result = verdict]
  <2>1. next \in Job /\ next.id = job.id /\ next.claimed = job.claimed
        /\ next.step = "saving" /\ next.result = verdict
    BY <1>j, <1>5 DEF Job
  <2>2. verdict # None
    BY NoneAssumption
  <2> HIDE DEF next
  <2> QED
    BY <1>j, <1>q, <1>5, <2>1, <2>2, WorkerTypeInv DEF next
<1>6. ASSUME NEW verdict \in Verdicts, Grade(i, w, verdict) PROVE TypeInv'
  BY <1>5, <1>6 DEF Grade, At
<1>7. CASE GraderFails(i, w)
  <2>1. CASE job.claimed
    <3>1. ~ Idle(i, w) /\ Becomes(i, w, None) /\ dropped' = dropped \cup {job.id}
          /\ UNCHANGED <<rows, expired, handlers, up, recovering, queue, overflow, crashes>>
      BY <1>7, <2>1 DEF GraderFails, GivesUp, At
    <3> QED
      BY <1>j, <1>q, <3>1, WorkerTypeInv
  <2>2. CASE ~ job.claimed
    BY <1>5, <1>7, <2>2 DEF GraderFails, At, Verdicts
  <2> QED
    BY <2>1, <2>2
<1>8. CASE Save(i, w)
  <2>1. /\ ~ Idle(i, w) /\ job.step = "saving"
        /\ rows' = [rows EXCEPT ![job.id] = Recorded(rows[job.id], job)]
        /\ Becomes(i, w, None)
        /\ UNCHANGED <<expired, handlers, up, recovering, queue, overflow, crashes, dropped>>
    BY <1>8 DEF Save, At
  <2>2. job.result \in Verdicts
    BY <1>j, <2>1 DEF Job
  <2>3. Recorded(rows[job.id], job) \in Submission
        /\ Recorded(rows[job.id], job).claimed = rows[job.id].claimed
    BY <1>j, <2>1, <2>2 DEF Recorded, Submission
  <2> QED
    BY <1>j, <2>1, <2>3, RowTypeInv
<1> QED
  BY <1>1, <1>2, <1>3, <1>4, <1>6, <1>7, <1>8 DEF Work, WorkFails

\* The steps of a process.
LEMMA ProcessTypeInv ==
  ASSUME TypeInv, NEW i \in Instances,
         (\E n \in Ids : Send(i, n)) \/ Start(i) \/ RecoverNext(i) \/ Crash(i)
  PROVE  TypeInv'
<1>0. TypeOK /\ JobsOK
  BY DEF TypeInv
<1>1. ASSUME NEW n \in Ids, Send(i, n) PROVE TypeInv'
  <2>1. overflow' \in [Instances -> SUBSET Ids]
    BY <1>0, <1>1 DEF Send, TypeOK
  <2> QED
    BY <1>0, <1>1, <2>1, QueueGrows DEF Send, TypeInv, TypeOK, JobsOK, Idle, Ids
<1>2. CASE Start(i)
  <2>1. recovering' = [recovering EXCEPT ![i] = Recoverable] /\ Recoverable \subseteq Ids
    BY <1>2 DEF Start, Recoverable
  <2>2. recovering' \in [Instances -> SUBSET Ids] /\ up' \subseteq Instances
    BY <1>0, <1>2, <2>1 DEF Start, TypeOK
  <2> QED
    BY <1>0, <1>2, <2>2 DEF Start, TypeInv, TypeOK, JobsOK, Idle, Ids
<1>3. CASE RecoverNext(i)
  <2>1. PICK n \in recovering[i] : Enqueue(i, n) /\ recovering' = [recovering EXCEPT ![i] = @ \ {n}]
        /\ UNCHANGED <<rows, expired, handlers, up, workers, crashes, dropped>>
    BY <1>3 DEF RecoverNext
  <2>2. n \in Ids
    BY <1>0, <2>1 DEF TypeOK
  <2>3. recovering' \in [Instances -> SUBSET Ids]
    BY <1>0, <2>1 DEF TypeOK
  <2> QED
    BY <1>0, <2>1, <2>2, <2>3, EnqueueType DEF TypeInv, TypeOK, JobsOK, Idle, Ids
<1>4. CASE Crash(i)
  <2>1. /\ up' = up \ {i} /\ recovering' = [recovering EXCEPT ![i] = {}]
        /\ queue' = [queue EXCEPT ![i] = <<>>] /\ overflow' = [overflow EXCEPT ![i] = {}]
        /\ workers' = [workers EXCEPT ![i] = [w \in Workers |-> None]]
        /\ handlers' = [h \in Handlers |->
             IF handlers[h] # None /\ handlers[h].on = i THEN None ELSE handlers[h]]
        /\ crashes' = crashes + 1 /\ crashes < MaxCrashes
        /\ UNCHANGED <<rows, expired, dropped>>
    BY <1>4 DEF Crash
  <2>2. recovering' \in [Instances -> SUBSET Ids] /\ overflow' \in [Instances -> SUBSET Ids]
    BY <1>0, <2>1 DEF TypeOK
  <2>3. <<>> \in Seq(Ids) /\ Len(<<>>) = 0
    BY EmptySeq
  <2>4. queue' \in [Instances -> Seq(Ids)]
        /\ \A j \in Instances : queue'[j] = IF j = i THEN <<>> ELSE queue[j]
    BY <1>0, <2>1, <2>3 DEF TypeOK
  <2>5. \A j \in Instances : Len(queue'[j]) <= QueueCapacity
    BY <1>0, <2>3, <2>4, GradingAssumption DEF TypeOK
  <2>6. workers' \in [Instances -> [Workers -> Job \cup {None}]]
        /\ \A j \in Instances, w \in Workers :
             workers'[j][w] = IF j = i THEN None ELSE workers[j][w]
    BY <1>0, <2>1 DEF TypeOK
  <2>7. handlers' \in [Handlers -> Request \cup {None}]
        /\ \A h \in Handlers : handlers'[h] # None => handlers'[h] = handlers[h]
    BY <1>0, <2>1 DEF TypeOK
  <2>8. crashes' \in 0..MaxCrashes
    BY <1>0, <2>1, GradingAssumption DEF TypeOK
  <2>9. TypeOK'
    BY <1>0, <2>1, <2>2, <2>4, <2>5, <2>6, <2>7, <2>8 DEF TypeOK, Idle, Ids
  <2>10. JobsOK'
    BY <1>0, <2>1, <2>6 DEF JobsOK, Idle
  <2> QED
    BY <2>9, <2>10 DEF TypeInv
<1> QED
  BY <1>1, <1>2, <1>3, <1>4

\* The invariant is inductive.
LEMMA TypeInvariance == Spec => []TypeInv
<1>1. Init => TypeInv
  <2> SUFFICES ASSUME Init PROVE TypeInv
    OBVIOUS
  <2>1. <<>> \in Seq(Submission) /\ Len(<<>>) = 0 /\ <<>> \in Seq(Ids)
    BY EmptySeq
  <2>2. \A i \in Instances, w \in Workers : Idle(i, w)
    BY DEF Init, Idle
  <2>3. queue \in [Instances -> Seq(Ids)] /\ \A i \in Instances : Len(queue[i]) <= QueueCapacity
    BY <2>1, GradingAssumption DEF Init
  <2> QED
    BY <2>1, <2>2, <2>3, GradingAssumption DEF Init, TypeInv, TypeOK, JobsOK
<1>2. TypeInv /\ [Next]_vars => TypeInv'
  <2> SUFFICES ASSUME TypeInv, [Next]_vars PROVE TypeInv'
    OBVIOUS
  <2>1. CASE WindowSlides
    <3>1. expired' \in 0..Len(rows)
      BY <2>1, IdsAre DEF WindowSlides, TypeInv, TypeOK
    <3> QED
      BY <2>1, <3>1 DEF WindowSlides, TypeInv, TypeOK, JobsOK, Idle, Ids, pool
  <2>2. CASE UNCHANGED vars
    BY <2>2 DEF vars, pool, TypeInv, TypeOK, JobsOK, Idle, Ids
  <2> QED
    BY <2>1, <2>2, SubmittingTypeInv, WorkTypeInv, ProcessTypeInv DEF Next
<1> QED
  BY <1>1, <1>2, PTL DEF Spec

\* Every row, request and job keeps its type, for any number of processes, and
\* no queue is ever fuller than it may be.
THEOREM GradingTypeCorrect == Spec => []TypeOK
BY TypeInvariance, PTL DEF TypeInv

-----------------------------------------------------------------------------
(* Where a submission is held.                                              *)

\* There is one server process, now running or not.
OneServer == \A i, j \in Instances : i = j

AtHandler(h, n) == handlers[h] # None /\ handlers[h].stored = n
Queued(i, n) == \E k \in 1..Len(queue[i]) : queue[i][k] = n
Worked(i, n) == \E w \in Workers : ~ Idle(i, w) /\ workers[i][w].id = n
InPool(i, n) == n \in recovering[i] \/ n \in overflow[i] \/ Queued(i, n) \/ Worked(i, n)
Held(n) == (\E h \in Handlers : AtHandler(h, n)) \/ (\E i \in Instances : InPool(i, n))

\* No queue has an id twice, and no two workers of a process have the same.
QueuedOnce ==
  \A i \in Instances : \A k, l \in 1..Len(queue[i]) : queue[i][k] = queue[i][l] => k = l
WorkedOnce ==
  \A i \in Instances, v, w \in Workers :
    ~ Idle(i, v) /\ ~ Idle(i, w) /\ workers[i][v].id = workers[i][w].id => v = w

\* The places of a process have no id in common, and none with the requests.
PoolApart ==
  \A i \in Instances, n \in Ids :
    /\ n \in recovering[i] => n \notin overflow[i] /\ ~ Queued(i, n) /\ ~ Worked(i, n)
    /\ n \in overflow[i] => ~ Queued(i, n) /\ ~ Worked(i, n)
    /\ Queued(i, n) => ~ Worked(i, n)
HandlersApart ==
  \A h \in Handlers, n \in Ids : AtHandler(h, n) =>
    /\ \A g \in Handlers : AtHandler(g, n) => g = h
    /\ \A i \in Instances : ~ InPool(i, n)

\* A process that is down holds nothing.
DownIsEmpty ==
  /\ \A i \in Instances \ up, n \in Ids : ~ InPool(i, n)
  /\ \A h \in Handlers : handlers[h] # None => handlers[h].on \in up

\* What is held is unfinished, and what is claimed has its verdict.
HeldIsUnfinished == \A n \in Ids : Held(n) => Unfinished(n)
ClaimedIsTerminal == \A n \in Ids : rows[n].claimed => Terminal(n)

\* What is unfinished is held while a process runs, or was given up.
UnfinishedIsHeld == up # {} => \A n \in Ids : Unfinished(n) => Held(n) \/ n \in dropped

ApartInv == QueuedOnce /\ WorkedOnce /\ PoolApart /\ HandlersApart
GradingInv ==
  /\ TypeInv
  /\ ApartInv
  /\ DownIsEmpty
  /\ HeldIsUnfinished
  /\ ClaimedIsTerminal
  /\ UnfinishedIsHeld

\* An id that is appended to a queue is in it, and was not before.
LEMMA AppendQueues ==
  ASSUME TypeOK, QueuedOnce, NEW i \in Instances, NEW n \in Ids, ~ Queued(i, n),
         queue' = [queue EXCEPT ![i] = Append(@, n)]
  PROVE  /\ QueuedOnce'
         /\ \A j \in Instances, m \in Ids : Queued(j, m)' <=> Queued(j, m) \/ (j = i /\ m = n)
<1>1. queue[i] \in Seq(Ids) /\ Len(queue[i]) \in Nat
  BY DEF TypeOK
<1> DEFINE q == Append(queue[i], n)
<1>2. /\ Len(q) = Len(queue[i]) + 1 /\ q[Len(q)] = n
      /\ \A k \in 1..Len(queue[i]) : q[k] = queue[i][k]
  BY <1>1
<1>3. \A j \in Instances : queue'[j] = IF j = i THEN q ELSE queue[j]
  BY DEF TypeOK
<1> HIDE DEF q
<1>4. \A k \in 1..Len(q) : k \in 1..Len(queue[i]) \/ k = Len(q)
  BY <1>1, <1>2
<1>5. QueuedOnce'
  BY <1>1, <1>2, <1>3, <1>4 DEF QueuedOnce, Queued
<1>6. \A m \in Ids : (\E k \in 1..Len(q) : q[k] = m) <=> Queued(i, m) \/ m = n
  BY <1>1, <1>2, <1>4 DEF Queued
<1>7. \A j \in Instances, m \in Ids : Queued(j, m)' <=> Queued(j, m) \/ (j = i /\ m = n)
  BY <1>3, <1>6 DEF Queued
<1> QED
  BY <1>5, <1>7

\* The head of a queue is no longer in it once it is taken, and all else is.
LEMMA TailQueues ==
  ASSUME TypeOK, QueuedOnce, NEW i \in Instances, queue[i] # <<>>,
         queue' = [queue EXCEPT ![i] = Tail(@)]
  PROVE  /\ QueuedOnce' /\ Queued(i, Head(queue[i]))
         /\ \A j \in Instances, m \in Ids :
              Queued(j, m)' <=> Queued(j, m) /\ ~ (j = i /\ m = Head(queue[i]))
<1>1. queue[i] \in Seq(Ids) /\ Len(queue[i]) \in Nat \ {0}
  BY EmptySeq DEF TypeOK
<1> DEFINE q == Tail(queue[i])
           n == Head(queue[i])
<1>2. /\ Len(q) = Len(queue[i]) - 1 /\ n = queue[i][1]
      /\ \A k \in 1..Len(q) : q[k] = queue[i][k + 1]
  BY <1>1
<1>3. \A j \in Instances : queue'[j] = IF j = i THEN q ELSE queue[j]
  BY DEF TypeOK
<1> HIDE DEF q, n
<1>4. \A k \in 1..Len(q) : k + 1 \in 2..Len(queue[i])
  BY <1>1, <1>2
<1>5. \A k \in 2..Len(queue[i]) : k - 1 \in 1..Len(q) /\ q[k - 1] = queue[i][k]
  BY <1>1, <1>2
<1>6. \A k, l \in 1..Len(queue[i]) : queue[i][k] = queue[i][l] => k = l
  BY DEF QueuedOnce
<1>7. \A k, l \in 1..Len(q) : q[k] = q[l] => k = l
  BY <1>1, <1>2, <1>4, <1>6
<1>8. QueuedOnce'
  BY <1>3, <1>7 DEF QueuedOnce
<1>9. \A m \in Ids : (\E k \in 1..Len(q) : q[k] = m) <=> Queued(i, m) /\ m # n
  <2> SUFFICES ASSUME NEW m \in Ids
               PROVE  (\E k \in 1..Len(q) : q[k] = m) <=> Queued(i, m) /\ m # n
    OBVIOUS
  <2>1. ASSUME NEW k \in 1..Len(q), q[k] = m PROVE Queued(i, m) /\ m # n
    BY <1>1, <1>2, <1>4, <1>6, <2>1 DEF Queued
  <2>2. ASSUME NEW k \in 1..Len(queue[i]), queue[i][k] = m, m # n
        PROVE  \E l \in 1..Len(q) : q[l] = m
    <3>1. k \in 2..Len(queue[i])
      BY <1>1, <1>2, <2>2
    <3> QED
      BY <1>5, <2>2, <3>1
  <2> QED
    BY <2>1, <2>2 DEF Queued
<1>10. \A j \in Instances, m \in Ids : Queued(j, m)' <=> Queued(j, m) /\ ~ (j = i /\ m = n)
  <2> SUFFICES ASSUME NEW j \in Instances, NEW m \in Ids
               PROVE  Queued(j, m)' <=> Queued(j, m) /\ ~ (j = i /\ m = n)
    OBVIOUS
  <2>1. CASE j = i
    <3>1. Queued(j, m)' <=> \E k \in 1..Len(q) : q[k] = m
      BY <1>3, <2>1 DEF Queued
    <3> QED
      BY <1>9, <2>1, <3>1
  <2>2. CASE j # i
    BY <1>3, <2>2 DEF Queued
  <2> QED
    BY <2>1, <2>2
<1>11. Queued(i, n)
  BY <1>1, <1>2 DEF Queued
<1> QED
  BY <1>8, <1>10, <1>11 DEF n

\* An idle worker that takes an id nobody works on.
LEMMA WorkerTakes ==
  ASSUME TypeInv, WorkedOnce, NEW i \in Instances, NEW w \in Workers, Idle(i, w),
         NEW job \in Job, job.id \in Ids, ~ Worked(i, job.id), Becomes(i, w, job)
  PROVE  /\ WorkedOnce'
         /\ \A j \in Instances, m \in Ids :
              Worked(j, m)' <=> Worked(j, m) \/ (j = i /\ m = job.id)
<1>1. \A j \in Instances, x \in Workers :
        workers'[j][x] = IF j = i /\ x = w THEN job ELSE workers[j][x]
  BY WorkersChange DEF TypeInv
<1>2. job # None
  BY NoneAssumption
<1> QED
  BY <1>1, <1>2 DEF WorkedOnce, Worked, Idle

\* A worker that lets go of its job.
LEMMA WorkerReleases ==
  ASSUME TypeInv, WorkedOnce, NEW i \in Instances, NEW w \in Workers, ~ Idle(i, w),
         Becomes(i, w, None)
  PROVE  /\ WorkedOnce' /\ Worked(i, workers[i][w].id)
         /\ \A j \in Instances, m \in Ids :
              Worked(j, m)' <=> Worked(j, m) /\ ~ (j = i /\ m = workers[i][w].id)
<1>1. \A j \in Instances, x \in Workers :
        workers'[j][x] = IF j = i /\ x = w THEN None ELSE workers[j][x]
  BY WorkersChange DEF TypeInv
<1> QED
  BY <1>1 DEF WorkedOnce, Worked, Idle

\* A worker that goes on with its job.
LEMMA WorkerGoesOn ==
  ASSUME TypeInv, WorkedOnce, NEW i \in Instances, NEW w \in Workers, ~ Idle(i, w),
         NEW job \in Job, job.id = workers[i][w].id, Becomes(i, w, job)
  PROVE  /\ WorkedOnce'
         /\ \A j \in Instances, m \in Ids : Worked(j, m)' <=> Worked(j, m)
<1>1. \A j \in Instances, x \in Workers :
        workers'[j][x] = IF j = i /\ x = w THEN job ELSE workers[j][x]
  BY WorkersChange DEF TypeInv
<1>2. job # None
  BY NoneAssumption
<1> QED
  BY <1>1, <1>2 DEF WorkedOnce, Worked, Idle

\* An id that no queue has is enqueued: it is now in the queue or beside it.
LEMMA EnqueuePuts ==
  ASSUME TypeOK, QueuedOnce, NEW i \in Instances, NEW n \in Ids, ~ Queued(i, n), Enqueue(i, n)
  PROVE  /\ QueuedOnce'
         /\ \E b \in BOOLEAN : \A j \in Instances, m \in Ids :
              /\ Queued(j, m)' <=> Queued(j, m) \/ (b /\ j = i /\ m = n)
              /\ m \in overflow'[j] <=> m \in overflow[j] \/ (~ b /\ j = i /\ m = n)
<1>1. CASE HasRoom(i)
  <2>1. queue' = [queue EXCEPT ![i] = Append(@, n)] /\ overflow' = overflow
    BY <1>1 DEF Enqueue
  <2>2. /\ QueuedOnce'
        /\ \A j \in Instances, m \in Ids : Queued(j, m)' <=> Queued(j, m) \/ (j = i /\ m = n)
    BY <2>1, AppendQueues
  <2> QED
    BY <2>1, <2>2
<1>2. CASE ~ HasRoom(i)
  <2>1. overflow' = [overflow EXCEPT ![i] = @ \cup {n}] /\ queue' = queue
    BY <1>2 DEF Enqueue
  <2>2. \A j \in Instances, m \in Ids : m \in overflow'[j] <=> m \in overflow[j] \/ (j = i /\ m = n)
    BY <2>1 DEF TypeOK
  <2>3. QueuedOnce' /\ \A j \in Instances, m \in Ids : Queued(j, m)' <=> Queued(j, m)
    BY <2>1 DEF QueuedOnce, Queued
  <2> QED
    BY <2>2, <2>3
<1> QED
  BY <1>1, <1>2

-----------------------------------------------------------------------------
(* Steps that move submissions and leave the rows alone.                    *)

\* What remains to show of such a step once its places are apart.
LEMMA MoveInv ==
  ASSUME GradingInv, TypeInv', ApartInv', UNCHANGED <<rows, up>>, dropped \subseteq dropped',
         \A n \in Ids : Held(n)' => Held(n),
         \A n \in Ids : Held(n) => Held(n)' \/ n \in dropped',
         \A h \in Handlers : handlers'[h] # None => handlers'[h].on \in up,
         \A i \in Instances \ up, n \in Ids : ~ InPool(i, n)'
  PROVE  GradingInv'
<1>1. Ids' = Ids /\ \A n \in Ids : Unfinished(n)' <=> Unfinished(n)
  BY DEF Ids, Unfinished, Terminal, AwaitsAudit
<1>2. DownIsEmpty' /\ HeldIsUnfinished' /\ UnfinishedIsHeld'
  BY <1>1 DEF GradingInv, DownIsEmpty, HeldIsUnfinished, UnfinishedIsHeld
<1>3. ClaimedIsTerminal'
  BY <1>1 DEF GradingInv, ClaimedIsTerminal, Terminal
<1> QED
  BY <1>2, <1>3 DEF GradingInv

\* A step that leaves every place of the pool alone and stores nothing.
LEMMA SamePlacesInv ==
  ASSUME GradingInv, TypeInv', UNCHANGED <<rows, up, recovering, queue, overflow, dropped>>,
         WorkedOnce', \A i \in Instances, n \in Ids : Worked(i, n)' <=> Worked(i, n),
         \A h \in Handlers, n \in Ids : AtHandler(h, n)' <=> AtHandler(h, n),
         \A h \in Handlers : handlers'[h] # None => handlers'[h].on \in up
  PROVE  GradingInv'
<1>1. Ids' = Ids /\ \A i \in Instances, n \in Ids : Queued(i, n)' <=> Queued(i, n)
  BY DEF Ids, Queued
<1>2. \A i \in Instances, n \in Ids : InPool(i, n)' <=> InPool(i, n)
  BY <1>1 DEF InPool
<1>3. \A n \in Ids : Held(n)' <=> Held(n)
  BY <1>2 DEF Held
<1>4. QueuedOnce'
  BY DEF GradingInv, ApartInv, QueuedOnce
<1>5. PoolApart'
  BY <1>1 DEF GradingInv, ApartInv, PoolApart
<1>6. HandlersApart'
  BY <1>1, <1>2 DEF GradingInv, ApartInv, HandlersApart
<1>7. ApartInv'
  BY <1>4, <1>5, <1>6 DEF ApartInv
<1> QED
  BY <1>2, <1>3, <1>7, MoveInv DEF GradingInv, DownIsEmpty

\* A request that is checked, or fails, holds no submission.
LEMMA RequestInv ==
  ASSUME GradingInv, TypeInv', NEW h \in Handlers,
         CreateFails(h) \/ \E i \in Instances, u \in Users, c \in Challenges, claim \in Claims \cup {None} :
                             CheckRate(h, i, u, c, claim)
  PROVE  GradingInv'
<1>1. UNCHANGED <<rows, up, recovering, queue, overflow, workers, dropped>>
  BY DEF CreateFails, CheckRate, pool
<1>2. WorkedOnce' /\ \A i \in Instances, n \in Ids : Worked(i, n)' <=> Worked(i, n)
  BY <1>1 DEF GradingInv, ApartInv, WorkedOnce, Worked, Idle
<1>3. handlers \in [Handlers -> Request \cup {None}] /\ \A n \in Ids : n # 0
  BY IdsAre DEF GradingInv, TypeInv, TypeOK
<1>r. \E r : /\ handlers' = [handlers EXCEPT ![h] = r]
             /\ r = None \/ (r.stored = 0 /\ r.on \in up)
  <2>1. CASE CreateFails(h)
    BY <2>1 DEF CreateFails
  <2>2. ASSUME NEW i \in Instances, NEW u \in Users, NEW c \in Challenges,
               NEW claim \in Claims \cup {None}, CheckRate(h, i, u, c, claim)
        PROVE  \E r : /\ handlers' = [handlers EXCEPT ![h] = r]
                      /\ r = None \/ (r.stored = 0 /\ r.on \in up)
    <3> DEFINE new == [on |-> i, user |-> u, challenge |-> c, claim |-> claim, stored |-> 0]
    <3>1. handlers' = [handlers EXCEPT ![h] = new] /\ i \in up
      BY <2>2 DEF CheckRate, Serving
    <3>2. new.stored = 0 /\ new.on = i
      OBVIOUS
    <3> HIDE DEF new
    <3> QED
      BY <3>1, <3>2
  <2> QED
    BY <2>1, <2>2
<1>h. handlers[h] = None \/ handlers[h].stored = 0
  BY DEF CreateFails, CheckRate
<1>4. \A g \in Handlers \ {h} : handlers'[g] = handlers[g]
  BY <1>3, <1>r
<1>5. \A n \in Ids : ~ AtHandler(h, n) /\ ~ AtHandler(h, n)'
  BY <1>3, <1>r, <1>h DEF AtHandler
<1>6. \A g \in Handlers, n \in Ids : AtHandler(g, n)' <=> AtHandler(g, n)
  BY <1>4, <1>5 DEF AtHandler
<1>7. handlers'[h] # None => handlers'[h].on \in up
  BY <1>3, <1>r
<1>8. \A g \in Handlers : handlers'[g] # None => handlers'[g].on \in up
  BY <1>4, <1>7 DEF GradingInv, DownIsEmpty
<1> QED
  BY <1>1, <1>2, <1>6, <1>8, SamePlacesInv

\* A submission that was stored goes from its request to the queue.
LEMMA ScheduleInv ==
  ASSUME GradingInv, TypeInv', NEW h \in Handlers, Schedule(h)
  PROVE  GradingInv'
<1> DEFINE n == handlers[h].stored
           i == handlers[h].on
<1>1. /\ TypeOK /\ QueuedOnce /\ WorkedOnce /\ PoolApart /\ HandlersApart /\ DownIsEmpty
  BY DEF GradingInv, TypeInv, ApartInv
<1>2. i \in Instances /\ n \in Ids /\ i \in up
  BY <1>1, IdsAre DEF Schedule, TypeOK, Request, DownIsEmpty
<1>3. /\ Enqueue(i, n) /\ handlers' = [handlers EXCEPT ![h] = None]
      /\ UNCHANGED <<rows, expired, up, recovering, workers, crashes, dropped>>
  BY DEF Schedule
<1>4. AtHandler(h, n) /\ \A m \in Ids : AtHandler(h, m) => m = n
  BY DEF Schedule, AtHandler
<1> HIDE DEF n, i
<1>5. (\A g \in Handlers : AtHandler(g, n) => g = h) /\ \A j \in Instances : ~ InPool(j, n)
  BY <1>1, <1>2, <1>4 DEF HandlersApart
<1>6. ~ Queued(i, n) /\ QueuedOnce'
  BY <1>1, <1>2, <1>3, <1>5, EnqueuePuts DEF InPool
<1>7. PICK b \in BOOLEAN : \A j \in Instances, m \in Ids :
              /\ Queued(j, m)' <=> Queued(j, m) \/ (b /\ j = i /\ m = n)
              /\ m \in overflow'[j] <=> m \in overflow[j] \/ (~ b /\ j = i /\ m = n)
  BY <1>1, <1>2, <1>3, <1>6, EnqueuePuts
<1>8. Ids' = Ids /\ WorkedOnce' /\ \A j \in Instances, m \in Ids : Worked(j, m)' <=> Worked(j, m)
  BY <1>1, <1>3 DEF Ids, WorkedOnce, Worked, Idle
<1>9. \A g \in Handlers, m \in Ids : AtHandler(g, m)' <=> AtHandler(g, m) /\ g # h
  BY <1>1, <1>3 DEF AtHandler, TypeOK
<1>10. \A j \in Instances, m \in Ids : InPool(j, m)' <=> InPool(j, m) \/ (j = i /\ m = n)
  BY <1>3, <1>7, <1>8 DEF InPool
<1>11. PoolApart'
  BY <1>1, <1>3, <1>5, <1>7, <1>8 DEF PoolApart, InPool
<1>12. HandlersApart'
  BY <1>1, <1>5, <1>8, <1>9, <1>10 DEF HandlersApart
<1>13. \A m \in Ids : Held(m)' <=> Held(m)
  BY <1>2, <1>4, <1>5, <1>9, <1>10 DEF Held
<1>14. \A g \in Handlers : handlers'[g] # None => handlers'[g].on \in up
  BY <1>1, <1>3 DEF DownIsEmpty, TypeOK
<1>15. \A j \in Instances \ up, m \in Ids : ~ InPool(j, m)'
  BY <1>1, <1>2, <1>10 DEF DownIsEmpty
<1>16. ApartInv'
  BY <1>6, <1>8, <1>11, <1>12 DEF ApartInv
<1> QED
  BY <1>3, <1>13, <1>14, <1>15, <1>16, MoveInv

\* Recover enqueues an id that only it has.
LEMMA RecoverNextInv ==
  ASSUME GradingInv, TypeInv', NEW i \in Instances, RecoverNext(i)
  PROVE  GradingInv'
<1>1. /\ TypeOK /\ QueuedOnce /\ WorkedOnce /\ PoolApart /\ HandlersApart /\ DownIsEmpty
  BY DEF GradingInv, TypeInv, ApartInv
<1>2. PICK n \in recovering[i] :
        /\ Enqueue(i, n) /\ recovering' = [recovering EXCEPT ![i] = @ \ {n}]
        /\ UNCHANGED <<rows, expired, handlers, up, workers, crashes, dropped>>
  BY DEF RecoverNext
<1>3. n \in Ids
  BY <1>1, <1>2 DEF TypeOK
<1>4. n \notin overflow[i] /\ ~ Queued(i, n) /\ ~ Worked(i, n)
  BY <1>1, <1>2, <1>3 DEF PoolApart
<1>5. QueuedOnce'
  BY <1>1, <1>2, <1>3, <1>4, EnqueuePuts
<1>6. PICK b \in BOOLEAN : \A j \in Instances, m \in Ids :
              /\ Queued(j, m)' <=> Queued(j, m) \/ (b /\ j = i /\ m = n)
              /\ m \in overflow'[j] <=> m \in overflow[j] \/ (~ b /\ j = i /\ m = n)
  BY <1>1, <1>2, <1>3, <1>4, EnqueuePuts
<1>7. Ids' = Ids /\ WorkedOnce' /\ \A j \in Instances, m \in Ids : Worked(j, m)' <=> Worked(j, m)
  BY <1>1, <1>2 DEF Ids, WorkedOnce, Worked, Idle
<1>8. \A g \in Handlers, m \in Ids : AtHandler(g, m)' <=> AtHandler(g, m)
  BY <1>2 DEF AtHandler
<1>9. \A j \in Instances, m \in Ids :
        m \in recovering'[j] <=> m \in recovering[j] /\ ~ (j = i /\ m = n)
  BY <1>1, <1>2 DEF TypeOK
<1>10. \A j \in Instances, m \in Ids : InPool(j, m)' <=> InPool(j, m)
  BY <1>2, <1>6, <1>7, <1>9 DEF InPool
<1>11. PoolApart'
  BY <1>1, <1>4, <1>6, <1>7, <1>9 DEF PoolApart
<1>12. HandlersApart'
  BY <1>1, <1>7, <1>8, <1>10 DEF HandlersApart
<1>13. \A m \in Ids : Held(m)' <=> Held(m)
  BY <1>8, <1>10 DEF Held
<1>14. ApartInv'
  BY <1>5, <1>7, <1>11, <1>12 DEF ApartInv
<1> QED
  BY <1>1, <1>2, <1>10, <1>13, <1>14, MoveInv DEF DownIsEmpty

\* A waiting goroutine's id gets into the queue.
LEMMA SendInv ==
  ASSUME GradingInv, TypeInv', NEW i \in Instances, NEW n \in Ids, Send(i, n)
  PROVE  GradingInv'
<1>1. /\ TypeOK /\ QueuedOnce /\ WorkedOnce /\ PoolApart /\ HandlersApart /\ DownIsEmpty
  BY DEF GradingInv, TypeInv, ApartInv
<1>2. /\ n \in overflow[i] /\ queue' = [queue EXCEPT ![i] = Append(@, n)]
      /\ overflow' = [overflow EXCEPT ![i] = @ \ {n}]
      /\ UNCHANGED <<rows, expired, handlers, up, recovering, workers, crashes, dropped>>
  BY DEF Send
<1>3. n \notin recovering[i] /\ ~ Queued(i, n) /\ ~ Worked(i, n)
  BY <1>1, <1>2 DEF PoolApart
<1>4. QueuedOnce' /\ \A j \in Instances, m \in Ids : Queued(j, m)' <=> Queued(j, m) \/ (j = i /\ m = n)
  BY <1>1, <1>2, <1>3, AppendQueues
<1>5. Ids' = Ids /\ WorkedOnce' /\ \A j \in Instances, m \in Ids : Worked(j, m)' <=> Worked(j, m)
  BY <1>1, <1>2 DEF Ids, WorkedOnce, Worked, Idle
<1>6. \A g \in Handlers, m \in Ids : AtHandler(g, m)' <=> AtHandler(g, m)
  BY <1>2 DEF AtHandler
<1>7. \A j \in Instances, m \in Ids :
        m \in overflow'[j] <=> m \in overflow[j] /\ ~ (j = i /\ m = n)
  BY <1>1, <1>2 DEF TypeOK
<1>8. \A j \in Instances, m \in Ids : InPool(j, m)' <=> InPool(j, m)
  BY <1>2, <1>4, <1>5, <1>7 DEF InPool
<1>9. PoolApart'
  BY <1>1, <1>2, <1>3, <1>4, <1>5, <1>7 DEF PoolApart
<1>10. HandlersApart'
  BY <1>1, <1>5, <1>6, <1>8 DEF HandlersApart
<1>11. \A m \in Ids : Held(m)' <=> Held(m)
  BY <1>6, <1>8 DEF Held
<1>12. ApartInv'
  BY <1>4, <1>5, <1>9, <1>10 DEF ApartInv
<1> QED
  BY <1>1, <1>2, <1>8, <1>11, <1>12, MoveInv DEF DownIsEmpty

\* A worker takes the head of the queue, or drops it.
LEMMA LoadInv ==
  ASSUME GradingInv, TypeInv', NEW i \in Instances, NEW w \in Workers,
         Load(i, w) \/ LoadFails(i, w)
  PROVE  GradingInv'
<1> DEFINE n == Head(queue[i])
<1>1. /\ TypeInv /\ TypeOK /\ QueuedOnce /\ WorkedOnce /\ PoolApart /\ HandlersApart /\ DownIsEmpty
  BY DEF GradingInv, TypeInv, ApartInv
<1>2. /\ Idle(i, w) /\ queue[i] # <<>> /\ queue' = [queue EXCEPT ![i] = Tail(@)]
      /\ UNCHANGED <<rows, expired, handlers, up, recovering, overflow, crashes>>
  BY DEF Load, LoadFails
<1>3. n \in Ids /\ rows[n] \in Submission /\ n \in Nat \ {0}
  <2>1. n \in Ids
    BY <1>1, <1>2, QueueShrinks
  <2> HIDE DEF n
  <2> QED
    BY <1>1, <2>1, IdsAre
<1>4. QueuedOnce' /\ Queued(i, n) /\ \A j \in Instances, m \in Ids :
        Queued(j, m)' <=> Queued(j, m) /\ ~ (j = i /\ m = n)
  BY <1>1, <1>2, TailQueues
<1>5. n \notin recovering[i] /\ n \notin overflow[i] /\ ~ Worked(i, n)
  BY <1>1, <1>2, <1>3, <1>4 DEF PoolApart
<1>6. \/ Becomes(i, w, JobFor(n)) /\ dropped' = dropped
      \/ workers' = workers /\ dropped' = dropped \cup {n}
  BY DEF Load, LoadFails
<1> HIDE DEF n
<1>7. Ids' = Ids /\ \A g \in Handlers, m \in Ids : AtHandler(g, m)' <=> AtHandler(g, m)
  BY <1>2 DEF Ids, AtHandler
<1>8. CASE Becomes(i, w, JobFor(n)) /\ dropped' = dropped
  <2>1. JobFor(n) \in Job /\ JobFor(n).id = n
    BY <1>3 DEF JobFor, Job, Submission
  <2>2. WorkedOnce' /\ \A j \in Instances, m \in Ids : Worked(j, m)' <=> Worked(j, m) \/ (j = i /\ m = n)
    BY <1>1, <1>2, <1>3, <1>5, <1>8, <2>1, WorkerTakes
  <2>3. \A j \in Instances, m \in Ids : InPool(j, m)' <=> InPool(j, m)
    BY <1>2, <1>4, <2>2 DEF InPool
  <2>4. PoolApart'
    BY <1>1, <1>2, <1>4, <1>5, <1>7, <2>2 DEF PoolApart
  <2>5. HandlersApart'
    BY <1>1, <1>7, <2>3 DEF HandlersApart
  <2>6. ApartInv' /\ \A m \in Ids : Held(m)' <=> Held(m)
    BY <1>4, <1>7, <2>2, <2>3, <2>4, <2>5 DEF ApartInv, Held
  <2> QED
    BY <1>1, <1>2, <1>8, <2>3, <2>6, MoveInv DEF DownIsEmpty
<1>9. CASE workers' = workers /\ dropped' = dropped \cup {n}
  <2>1. WorkedOnce' /\ \A j \in Instances, m \in Ids : Worked(j, m)' <=> Worked(j, m)
    BY <1>1, <1>9 DEF WorkedOnce, Worked, Idle
  <2>2. \A j \in Instances, m \in Ids :
          InPool(j, m)' <=> InPool(j, m) /\ ~ (j = i /\ m = n)
    BY <1>2, <1>4, <1>5, <2>1 DEF InPool
  <2>3. PoolApart'
    BY <1>1, <1>2, <1>4, <1>7, <2>1 DEF PoolApart
  <2>4. HandlersApart'
    BY <1>1, <1>7, <2>2 DEF HandlersApart
  <2>5. ApartInv' /\ \A m \in Ids : (Held(m)' => Held(m)) /\ (Held(m) => Held(m)' \/ m = n)
    BY <1>4, <1>7, <2>1, <2>2, <2>3, <2>4 DEF ApartInv, Held
  <2> QED
    BY <1>1, <1>2, <1>9, <2>2, <2>5, MoveInv DEF DownIsEmpty
<1> QED
  BY <1>6, <1>8, <1>9

\* A worker gives up on its job.
LEMMA GiveUpInv ==
  ASSUME GradingInv, TypeInv', NEW i \in Instances, NEW w \in Workers, ~ Idle(i, w),
         GivesUp(i, w, workers[i][w].id),
         UNCHANGED <<rows, expired, handlers, up, recovering, queue, overflow, crashes>>
  PROVE  GradingInv'
<1> DEFINE n == workers[i][w].id
<1>1. /\ TypeInv /\ TypeOK /\ QueuedOnce /\ WorkedOnce /\ PoolApart /\ HandlersApart /\ DownIsEmpty
  BY DEF GradingInv, TypeInv, ApartInv
<1>2. Becomes(i, w, None) /\ dropped' = dropped \cup {n}
  BY DEF GivesUp
<1>3. WorkedOnce' /\ Worked(i, n) /\ \A j \in Instances, m \in Ids :
        Worked(j, m)' <=> Worked(j, m) /\ ~ (j = i /\ m = n)
  BY <1>1, <1>2, WorkerReleases
<1>4. n \in Ids
  BY <1>1, JobFacts
<1> HIDE DEF n
<1>5. /\ Ids' = Ids /\ QueuedOnce'
      /\ \A g \in Handlers, m \in Ids : AtHandler(g, m)' <=> AtHandler(g, m)
      /\ \A j \in Instances, m \in Ids : Queued(j, m)' <=> Queued(j, m)
  BY <1>1 DEF Ids, AtHandler, Queued, QueuedOnce
<1>6. n \notin recovering[i] /\ n \notin overflow[i] /\ ~ Queued(i, n)
  BY <1>1, <1>3, <1>4 DEF PoolApart
<1>7. \A j \in Instances, m \in Ids : InPool(j, m)' <=> InPool(j, m) /\ ~ (j = i /\ m = n)
  BY <1>3, <1>5, <1>6 DEF InPool
<1>8. PoolApart'
  BY <1>1, <1>3, <1>5 DEF PoolApart
<1>9. HandlersApart'
  BY <1>1, <1>5, <1>7 DEF HandlersApart
<1>10. ApartInv' /\ \A m \in Ids : (Held(m)' => Held(m)) /\ (Held(m) => Held(m)' \/ m = n)
  BY <1>3, <1>5, <1>7, <1>8, <1>9 DEF ApartInv, Held
<1> QED
  BY <1>1, <1>2, <1>7, <1>10, MoveInv DEF DownIsEmpty

\* A run ends with a verdict that is still to be saved.
LEMMA GradedInv ==
  ASSUME GradingInv, TypeInv', NEW i \in Instances, NEW w \in Workers, ~ Idle(i, w),
         NEW verdict \in Verdicts,
         Becomes(i, w, [workers[i][w] EXCEPT !.step = "saving", !.result = verdict]),
         UNCHANGED <<rows, expired, handlers, up, recovering, queue, overflow, crashes, dropped>>
  PROVE  GradingInv'
<1> DEFINE job == [workers[i][w] EXCEPT !.step = "saving", !.result = verdict]
<1>1. job \in Job /\ job.id = workers[i][w].id
  BY JobFacts DEF GradingInv, Job
<1> HIDE DEF job
<1>2. WorkedOnce' /\ \A j \in Instances, m \in Ids : Worked(j, m)' <=> Worked(j, m)
  BY <1>1, WorkerGoesOn DEF GradingInv, ApartInv, job
<1>3. \A g \in Handlers, m \in Ids : AtHandler(g, m)' <=> AtHandler(g, m)
  BY DEF AtHandler
<1>4. \A g \in Handlers : handlers'[g] # None => handlers'[g].on \in up
  BY DEF GradingInv, DownIsEmpty
<1> QED
  BY <1>2, <1>3, <1>4, SamePlacesInv

-----------------------------------------------------------------------------
(* Steps that change rows, and processes that come and go.                  *)

\* A new row is unfinished, and with its request or with nobody.
LEMMA CreateInv ==
  ASSUME GradingInv, TypeInv', NEW h \in Handlers, Creates(h)
  PROVE  GradingInv'
<1>0. PICK n, r : n = Len(rows) + 1 /\ r = handlers[h]
  OBVIOUS
<1>1. /\ TypeInv /\ TypeOK /\ QueuedOnce /\ WorkedOnce /\ PoolApart /\ HandlersApart /\ DownIsEmpty
  BY DEF GradingInv, TypeInv, ApartInv
<1>i. Insert(h)
  BY CreatesInserts
<1>2. /\ r \in Request /\ r # None /\ r.stored = 0
      /\ UNCHANGED <<expired, up, recovering, queue, overflow, workers, crashes>>
      /\ dropped \subseteq dropped'
  BY <1>0, <1>1, <1>i, InsertedRow DEF Creates, Create, CreateUnanswered, Insert, pool
<1>3. PICK b, q :
        /\ b \in BOOLEAN /\ handlers' = [handlers EXCEPT ![h] = q]
        /\ IF b THEN q # None /\ q.stored = n /\ q.on = r.on ELSE q = None /\ n \in dropped'
  <2>1. CASE Create(h)
    <3>1. handlers' = [handlers EXCEPT ![h] = [r EXCEPT !.stored = n]] /\ n \in Nat
      BY <1>0, <1>1, <2>1, IdsAre DEF Create
    <3>2. /\ [r EXCEPT !.stored = n] \in Request /\ [r EXCEPT !.stored = n].stored = n
          /\ [r EXCEPT !.stored = n].on = r.on
      BY <1>2, <3>1 DEF Request
    <3> QED
      BY <3>1, <3>2, NoneAssumption
  <2>2. CASE CreateUnanswered(h)
    BY <1>0, <2>2 DEF CreateUnanswered
  <2> QED
    BY <2>1, <2>2 DEF Creates
<1>5. /\ \A m \in Ids : rows'[m] = rows[m]
      /\ rows'[n] = NewRow(r) /\ n # 0
      /\ NewRow(r).audit = None
      /\ NewRow(r).claimed => NewRow(r).status \in Verdicts
      /\ ~ NewRow(r).claimed => NewRow(r).status \notin Verdicts
  BY <1>0, <1>1, <1>i, InsertedRow
<1>6. Ids' = Ids \cup {n} /\ n \notin Ids
  BY <1>0, <1>1, <1>i, InsertedRow
<1>7. \A j \in Instances : /\ ~ InPool(j, n) /\ ~ InPool(j, n)'
                          /\ \A m \in Ids' : /\ Queued(j, m)' <=> Queued(j, m)
                                             /\ Worked(j, m)' <=> Worked(j, m)
                                             /\ InPool(j, m)' <=> InPool(j, m)
  <2> SUFFICES ASSUME NEW j \in Instances
               PROVE  /\ ~ InPool(j, n) /\ ~ InPool(j, n)'
                      /\ \A m \in Ids' : /\ Queued(j, m)' <=> Queued(j, m)
                                         /\ Worked(j, m)' <=> Worked(j, m)
                                         /\ InPool(j, m)' <=> InPool(j, m)
    OBVIOUS
  <2>1. n \notin recovering[j] /\ n \notin overflow[j]
    BY <1>1, <1>6 DEF TypeOK
  <2>2. ~ Queued(j, n)
    <3>1. queue[j] \in Seq(Ids)
      BY <1>1 DEF TypeOK
    <3>2. \A k \in 1..Len(queue[j]) : queue[j][k] \in Ids
      BY <3>1
    <3> QED
      BY <1>6, <3>2 DEF Queued
  <2>3. ~ Worked(j, n)
    BY <1>1, <1>6 DEF TypeOK, Worked
  <2>4. \A m : /\ Queued(j, m)' <=> Queued(j, m)
               /\ Worked(j, m)' <=> Worked(j, m)
               /\ InPool(j, m)' <=> InPool(j, m)
    BY <1>2 DEF Queued, Worked, Idle, InPool
  <2>5. ~ InPool(j, n)
    BY <2>1, <2>2, <2>3 DEF InPool
  <2> QED
    BY <2>4, <2>5, <1>2 DEF InPool, Queued, Worked, Idle
<1>8. \A g \in Handlers :
        /\ AtHandler(g, n)' <=> b /\ g = h
        /\ \A m \in Ids : AtHandler(g, m)' <=> AtHandler(g, m)
  <2>1. \A g \in Handlers : handlers'[g] = IF g = h THEN q ELSE handlers[g]
    BY <1>1, <1>3 DEF TypeOK
  <2>2. \A g \in Handlers : handlers[g] # None => handlers[g].stored # n
    <3>1. \A k \in 0..Len(rows) : k = 0 \/ k \in Ids
      BY <1>1, IdsAre
    <3> QED
      BY <1>1, <1>5, <1>6, <3>1 DEF TypeOK
  <2>3. \A m \in Ids : m # 0 /\ m # n
    BY <1>1, <1>6, IdsAre
  <2>4. ASSUME NEW g \in Handlers \ {h}
        PROVE  ~ AtHandler(g, n)' /\ \A m \in Ids : AtHandler(g, m)' <=> AtHandler(g, m)
    BY <2>1, <2>2 DEF AtHandler
  <2>5. (AtHandler(h, n)' <=> b) /\ \A m \in Ids : ~ AtHandler(h, m)' /\ ~ AtHandler(h, m)
    BY <1>0, <1>2, <1>3, <2>1, <2>3 DEF AtHandler
  <2> QED
    BY <2>4, <2>5
<1>9. Unfinished(n)' /\ (rows'[n].claimed => Terminal(n)')
      /\ \A m \in Ids : /\ Unfinished(m)' <=> Unfinished(m)
                        /\ Terminal(m)' <=> Terminal(m)
  BY <1>5 DEF Unfinished, Terminal, AwaitsAudit
<1>10. QueuedOnce' /\ WorkedOnce'
  BY <1>1, <1>2 DEF QueuedOnce, WorkedOnce, Idle
<1>11. PoolApart'
  BY <1>1, <1>2, <1>6, <1>7 DEF PoolApart, InPool
<1>12. HandlersApart'
  BY <1>1, <1>6, <1>7, <1>8 DEF HandlersApart
<1>13. DownIsEmpty'
  <2>1. \A j \in Instances \ up, m \in Ids' : ~ InPool(j, m)'
    BY <1>1, <1>6, <1>7 DEF DownIsEmpty
  <2>2. \A g \in Handlers : handlers'[g] # None => handlers'[g].on \in up
    BY <1>0, <1>1, <1>2, <1>3 DEF DownIsEmpty, TypeOK
  <2> QED
    BY <1>2, <2>1, <2>2 DEF DownIsEmpty
<1>14. \A m \in Ids : Held(m)' <=> Held(m)
  BY <1>6, <1>7, <1>8 DEF Held
<1>15. Held(n)' \/ n \in dropped'
  BY <1>3, <1>8 DEF Held
<1>16. HeldIsUnfinished' /\ UnfinishedIsHeld'
  BY <1>2, <1>6, <1>9, <1>14, <1>15 DEF GradingInv, HeldIsUnfinished, UnfinishedIsHeld
<1>17. ClaimedIsTerminal'
  BY <1>5, <1>6, <1>9 DEF GradingInv, ClaimedIsTerminal
<1> QED
  BY <1>10, <1>11, <1>12, <1>13, <1>16, <1>17 DEF GradingInv, ApartInv

\* A job's row has no verdict while the job is marked, and none of another.
LEMMA WorkedRow ==
  ASSUME GradingInv, NEW i \in Instances, NEW w \in Workers, ~ Idle(i, w)
  PROVE  LET n == workers[i][w].id IN
         /\ n \in Ids /\ workers[i][w] \in Job /\ Worked(i, n) /\ Unfinished(n)
         /\ rows[n] \in Submission /\ workers[i][w].claimed = rows[n].claimed
         /\ IF rows[n].claimed THEN Terminal(n) /\ rows[n].audit = None ELSE ~ Terminal(n)
<1> DEFINE n == workers[i][w].id
<1>1. n \in Ids /\ workers[i][w] \in Job /\ rows[n] \in Submission
      /\ workers[i][w].claimed = rows[n].claimed
  BY JobFacts, IdsAre DEF GradingInv, TypeInv, JobsOK
<1>2. Worked(i, n)
  BY DEF Worked
<1>3. Unfinished(n)
  BY <1>1, <1>2 DEF GradingInv, HeldIsUnfinished, Held, InPool
<1>4. rows[n].claimed \in BOOLEAN /\ (rows[n].claimed => Terminal(n))
  BY <1>1 DEF GradingInv, ClaimedIsTerminal, Submission
<1> HIDE DEF n
<1>5. IF rows[n].claimed THEN Terminal(n) /\ rows[n].audit = None ELSE ~ Terminal(n)
  BY <1>3, <1>4 DEF Unfinished, AwaitsAudit
<1> QED
  BY <1>1, <1>2, <1>3, <1>5 DEF n

\* A submission is marked as running, by the only worker that has it.
LEMMA MarkRunningInv ==
  ASSUME GradingInv, TypeInv', NEW i \in Instances, NEW w \in Workers, MarkRunning(i, w)
  PROVE  GradingInv'
<1> DEFINE n == workers[i][w].id
           job == [workers[i][w] EXCEPT !.step = "grading"]
<1>1. /\ ~ Idle(i, w) /\ workers[i][w].step = "marking"
      /\ rows' = [rows EXCEPT ![n] = [rows[n] EXCEPT !.status = "running"]]
      /\ Becomes(i, w, job)
      /\ UNCHANGED <<expired, handlers, up, recovering, queue, overflow, crashes, dropped>>
  BY DEF MarkRunning, At
<1>2. /\ n \in Ids /\ workers[i][w] \in Job /\ rows[n] \in Submission /\ Unfinished(n)
      /\ ~ rows[n].claimed
  BY <1>1, WorkedRow DEF GradingInv, TypeInv, JobsOK
<1>3. job \in Job /\ job.id = n
  BY <1>2 DEF Job
<1>4. WorkedOnce' /\ \A j \in Instances, m \in Ids : Worked(j, m)' <=> Worked(j, m)
  BY <1>1, <1>3, WorkerGoesOn DEF GradingInv, ApartInv
<1>5. rows \in Seq(Submission) /\ Ids = 1..Len(rows)
  BY IdsAre DEF GradingInv, TypeInv, TypeOK
<1>6. rows'[n].status = "running" /\ rows'[n].claimed = rows[n].claimed
      /\ \A m \in Ids \ {n} : rows'[m] = rows[m]
  BY <1>1, <1>2, <1>5 DEF Submission
<1>7. Ids' = Ids
  BY <1>1 DEF Ids
<1> HIDE DEF n, job
<1>8. \A m \in Ids : /\ Unfinished(m)' <=> Unfinished(m)
                     /\ m # n => (Terminal(m)' <=> Terminal(m)) /\ rows'[m].claimed = rows[m].claimed
  BY <1>2, <1>6 DEF Unfinished, Terminal, AwaitsAudit, Verdicts
<1>9. /\ QueuedOnce'
      /\ \A g \in Handlers, m \in Ids : AtHandler(g, m)' <=> AtHandler(g, m)
      /\ \A j \in Instances, m \in Ids : Queued(j, m)' <=> Queued(j, m)
  BY <1>1 DEF AtHandler, Queued, GradingInv, ApartInv, QueuedOnce
<1>10. \A j \in Instances, m \in Ids : InPool(j, m)' <=> InPool(j, m)
  BY <1>1, <1>4, <1>9 DEF InPool
<1>11. \A m \in Ids : Held(m)' <=> Held(m)
  BY <1>9, <1>10 DEF Held
<1>12. PoolApart'
  BY <1>1, <1>4, <1>7, <1>9 DEF GradingInv, ApartInv, PoolApart
<1>13. HandlersApart'
  BY <1>7, <1>9, <1>10 DEF GradingInv, ApartInv, HandlersApart
<1>14. DownIsEmpty'
  BY <1>1, <1>7, <1>10 DEF GradingInv, DownIsEmpty
<1>15. HeldIsUnfinished' /\ UnfinishedIsHeld'
  BY <1>1, <1>7, <1>8, <1>11 DEF GradingInv, HeldIsUnfinished, UnfinishedIsHeld
<1>16. ClaimedIsTerminal'
  BY <1>2, <1>6, <1>7, <1>8 DEF GradingInv, ClaimedIsTerminal
<1> QED
  BY <1>4, <1>9, <1>12, <1>13, <1>14, <1>15, <1>16 DEF GradingInv, ApartInv

\* A verdict or an audit is saved, and with it the submission is finished and
\* held nowhere.
LEMMA SaveInv ==
  ASSUME OneServer, GradingInv, TypeInv', NEW i \in Instances, NEW w \in Workers, Save(i, w)
  PROVE  GradingInv'
<1>0. PICK job, n : job = workers[i][w] /\ n = job.id
  OBVIOUS
<1>1. /\ ~ Idle(i, w) /\ job.step = "saving"
      /\ rows' = [rows EXCEPT ![n] = Recorded(rows[n], job)]
      /\ Becomes(i, w, None)
      /\ UNCHANGED <<expired, handlers, up, recovering, queue, overflow, crashes, dropped>>
  BY <1>0 DEF Save, At
<1>2. /\ n \in Ids /\ job \in Job /\ rows[n] \in Submission /\ Worked(i, n)
      /\ job.claimed = rows[n].claimed /\ (rows[n].claimed => Terminal(n))
  BY <1>0, <1>1, WorkedRow
<1>3. job.result \in Verdicts /\ job.result # None
  BY <1>0, <1>1, <1>2 DEF GradingInv, TypeInv, JobsOK, Job
<1>4. WorkedOnce' /\ \A j \in Instances, m \in Ids :
        Worked(j, m)' <=> Worked(j, m) /\ ~ (j = i /\ m = n)
  BY <1>0, <1>1, WorkerReleases DEF GradingInv, ApartInv
<1>5. rows \in Seq(Submission) /\ Ids = 1..Len(rows)
  BY IdsAre DEF GradingInv, TypeInv, TypeOK
<1>6. rows'[n] = Recorded(rows[n], job) /\ \A m \in Ids \ {n} : rows'[m] = rows[m]
  BY <1>1, <1>2, <1>5
<1>7. Ids' = Ids
  BY <1>1 DEF Ids
<1>8. ~ Unfinished(n)' /\ Terminal(n)'
  <2>1. CASE rows[n].claimed
    <3>1. rows'[n] = [rows[n] EXCEPT !.audit = job.result]
      BY <1>2, <1>6, <2>1 DEF Recorded
    <3>2. rows'[n].status = rows[n].status /\ rows'[n].audit = job.result
      BY <1>2, <3>1 DEF Submission
    <3> QED
      BY <1>2, <1>3, <2>1, <3>2 DEF Unfinished, Terminal, AwaitsAudit
  <2>2. CASE ~ rows[n].claimed
    <3>1. rows'[n] = [rows[n] EXCEPT !.status = job.result]
      BY <1>2, <1>6, <2>2 DEF Recorded
    <3>2. rows'[n].status = job.result /\ rows'[n].claimed = rows[n].claimed
      BY <1>2, <3>1 DEF Submission
    <3> QED
      BY <1>3, <2>2, <3>2 DEF Unfinished, Terminal, AwaitsAudit
  <2> QED
    BY <2>1, <2>2
<1>9. \A m \in Ids \ {n} : /\ Unfinished(m)' <=> Unfinished(m)
                           /\ Terminal(m)' <=> Terminal(m)
                           /\ rows'[m].claimed = rows[m].claimed
  BY <1>6 DEF Unfinished, Terminal, AwaitsAudit
<1>10. /\ QueuedOnce'
       /\ \A g \in Handlers, m \in Ids : AtHandler(g, m)' <=> AtHandler(g, m)
       /\ \A j \in Instances, m \in Ids : Queued(j, m)' <=> Queued(j, m)
  BY <1>1 DEF AtHandler, Queued, GradingInv, ApartInv, QueuedOnce
<1>11. n \notin recovering[i] /\ n \notin overflow[i] /\ ~ Queued(i, n)
  BY <1>2 DEF GradingInv, ApartInv, PoolApart
<1>12. \A j \in Instances, m \in Ids : InPool(j, m)' <=> InPool(j, m) /\ ~ (j = i /\ m = n)
  BY <1>1, <1>4, <1>10, <1>11 DEF InPool
<1>13. \A g \in Handlers : ~ AtHandler(g, n)
  BY <1>2 DEF GradingInv, ApartInv, HandlersApart, InPool
<1>14. ~ Held(n)' /\ \A m \in Ids \ {n} : Held(m)' <=> Held(m)
  BY <1>2, <1>10, <1>12, <1>13 DEF Held, OneServer
<1>15. PoolApart'
  BY <1>1, <1>4, <1>7, <1>10 DEF GradingInv, ApartInv, PoolApart
<1>16. HandlersApart'
  BY <1>7, <1>10, <1>12 DEF GradingInv, ApartInv, HandlersApart
<1>17. DownIsEmpty'
  BY <1>1, <1>7, <1>12 DEF GradingInv, DownIsEmpty
<1>18. HeldIsUnfinished' /\ UnfinishedIsHeld'
  BY <1>1, <1>7, <1>8, <1>9, <1>14 DEF GradingInv, HeldIsUnfinished, UnfinishedIsHeld
<1>19. ClaimedIsTerminal'
  BY <1>7, <1>8, <1>9 DEF GradingInv, ClaimedIsTerminal
<1> QED
  BY <1>4, <1>10, <1>15, <1>16, <1>17, <1>18, <1>19 DEF GradingInv, ApartInv

\* The only process starts: nothing is held, and it recovers what is unfinished.
LEMMA StartInv ==
  ASSUME OneServer, GradingInv, TypeInv', NEW i \in Instances, Start(i)
  PROVE  GradingInv'
<1>1. /\ i \notin up /\ up' = up \cup {i} /\ recovering' = [recovering EXCEPT ![i] = Recoverable]
      /\ UNCHANGED <<rows, expired, handlers, queue, overflow, workers, crashes>>
  BY DEF Start
<1>2. up \subseteq Instances /\ \A j \in Instances : j = i
  BY DEF GradingInv, TypeInv, TypeOK, OneServer
<1>3. \A h \in Handlers : handlers[h] = None
  BY <1>1, <1>2 DEF GradingInv, DownIsEmpty
<1>4. \A j \in Instances, m \in Ids : ~ InPool(j, m)
  BY <1>1, <1>2 DEF GradingInv, DownIsEmpty
<1>5. Ids' = Ids /\ \A m \in Ids : /\ Unfinished(m)' <=> Unfinished(m)
                                   /\ Terminal(m)' <=> Terminal(m)
  BY <1>1 DEF Ids, Unfinished, Terminal, AwaitsAudit
<1>6. \A j \in Instances, m \in Ids : ~ Queued(j, m)' /\ ~ Worked(j, m)' /\ m \notin overflow'[j]
  BY <1>1, <1>4 DEF InPool, Queued, Worked, Idle
<1>7. recovering'[i] = Recoverable
  BY <1>1 DEF GradingInv, TypeInv, TypeOK
<1>8. \A j \in Instances, m \in Ids : InPool(j, m)' <=> Unfinished(m)
  BY <1>2, <1>6, <1>7 DEF InPool, Recoverable
<1>9. \A h \in Handlers, m \in Ids : ~ AtHandler(h, m)'
  BY <1>1, <1>3 DEF AtHandler
<1>10. \A m \in Ids : Held(m)' <=> Unfinished(m)
  BY <1>8, <1>9 DEF Held
<1>11. QueuedOnce' /\ WorkedOnce'
  BY <1>1 DEF GradingInv, ApartInv, QueuedOnce, WorkedOnce, Idle
<1>12. PoolApart' /\ HandlersApart'
  BY <1>5, <1>6, <1>9 DEF PoolApart, HandlersApart
<1>13. DownIsEmpty'
  BY <1>1, <1>2, <1>3 DEF DownIsEmpty
<1>14. HeldIsUnfinished' /\ UnfinishedIsHeld'
  BY <1>5, <1>10 DEF HeldIsUnfinished, UnfinishedIsHeld
<1>15. ClaimedIsTerminal'
  BY <1>1, <1>5 DEF GradingInv, ClaimedIsTerminal
<1> QED
  BY <1>11, <1>12, <1>13, <1>14, <1>15 DEF GradingInv, ApartInv

\* The only process dies, and all that was held is lost.
LEMMA CrashInv ==
  ASSUME OneServer, GradingInv, TypeInv', NEW i \in Instances, Crash(i)
  PROVE  GradingInv'
<1>1. /\ up' = up \ {i} /\ recovering' = [recovering EXCEPT ![i] = {}]
      /\ queue' = [queue EXCEPT ![i] = <<>>] /\ overflow' = [overflow EXCEPT ![i] = {}]
      /\ workers' = [workers EXCEPT ![i] = [w \in Workers |-> None]]
      /\ handlers' = [h \in Handlers |->
           IF handlers[h] # None /\ handlers[h].on = i THEN None ELSE handlers[h]]
      /\ UNCHANGED <<rows, expired, dropped>>
  BY DEF Crash
<1>2. up' = {} /\ \A j \in Instances : j = i
  BY <1>1 DEF GradingInv, TypeInv, TypeOK, OneServer
<1>3. \A h \in Handlers : handlers'[h] = None
  <2>1. \A h \in Handlers : handlers[h] # None => handlers[h].on = i
    BY <1>2 DEF GradingInv, TypeInv, TypeOK, DownIsEmpty
  <2> QED
    BY <1>1, <2>1
<1>4. recovering'[i] = {} /\ overflow'[i] = {} /\ Len(queue'[i]) = 0
      /\ \A w \in Workers : workers'[i][w] = None
  BY <1>1, EmptySeq DEF GradingInv, TypeInv, TypeOK
<1>5. \A j \in Instances : \A m : ~ Queued(j, m)' /\ ~ Worked(j, m)' /\ ~ InPool(j, m)'
  BY <1>2, <1>4 DEF InPool, Queued, Worked, Idle
<1>6. \A h \in Handlers : \A m : ~ AtHandler(h, m)'
  BY <1>3 DEF AtHandler
<1>7. QueuedOnce' /\ WorkedOnce'
  BY <1>2, <1>4 DEF QueuedOnce, WorkedOnce, Idle
<1>8. PoolApart' /\ HandlersApart'
  BY <1>2, <1>4, <1>5, <1>6 DEF PoolApart, HandlersApart
<1>9. DownIsEmpty'
  BY <1>3, <1>5 DEF DownIsEmpty
<1>10. HeldIsUnfinished' /\ UnfinishedIsHeld'
  BY <1>2, <1>5, <1>6 DEF HeldIsUnfinished, UnfinishedIsHeld, Held
<1>11. ClaimedIsTerminal'
  BY <1>1 DEF GradingInv, ClaimedIsTerminal, Ids, Terminal
<1> QED
  BY <1>7, <1>8, <1>9, <1>10, <1>11 DEF GradingInv, ApartInv

\* The invariant is inductive.
LEMMA GradingNextInv == OneServer /\ GradingInv /\ TypeInv' /\ [Next]_vars => GradingInv'
<1> SUFFICES ASSUME OneServer, GradingInv, TypeInv', [Next]_vars PROVE GradingInv'
  OBVIOUS
<1>1. CASE WindowSlides \/ UNCHANGED vars
  <2>1. UNCHANGED <<rows, handlers, up, recovering, queue, overflow, workers, dropped>>
    BY <1>1 DEF WindowSlides, vars, pool
  <2>2. WorkedOnce' /\ \A i \in Instances, n \in Ids : Worked(i, n)' <=> Worked(i, n)
    BY <2>1 DEF GradingInv, ApartInv, WorkedOnce, Worked, Idle
  <2>3. \A h \in Handlers, n \in Ids : AtHandler(h, n)' <=> AtHandler(h, n)
    BY <2>1 DEF AtHandler
  <2>4. \A h \in Handlers : handlers'[h] # None => handlers'[h].on \in up
    BY <2>1 DEF GradingInv, DownIsEmpty
  <2> QED
    BY <2>1, <2>2, <2>3, <2>4, SamePlacesInv
<1>2. ASSUME NEW h \in Handlers, Submitting(h) PROVE GradingInv'
  BY <1>2, RequestInv, CreateInv, ScheduleInv DEF Submitting, Creates
<1>3. ASSUME NEW i \in Instances, NEW w \in Workers, Work(i, w) \/ WorkFails(i, w)
      PROVE  GradingInv'
  <2>1. CASE Load(i, w) \/ LoadFails(i, w)
    BY <2>1, LoadInv
  <2>2. CASE MarkRunning(i, w)
    BY <2>2, MarkRunningInv
  <2>3. ASSUME NEW verdict \in Verdicts, Grade(i, w, verdict) PROVE GradingInv'
    BY <2>3, GradedInv DEF Grade, At
  <2>4. CASE GraderFails(i, w)
    <3>1. CASE workers[i][w].claimed
      BY <2>4, <3>1, GiveUpInv DEF GraderFails, At
    <3>2. CASE ~ workers[i][w].claimed
      <4>1. "error" \in Verdicts
        BY DEF Verdicts
      <4> QED
        BY <2>4, <3>2, <4>1, GradedInv DEF GraderFails, At
    <3> QED
      BY <3>1, <3>2
  <2>5. CASE Save(i, w)
    BY <2>5, SaveInv
  <2>6. CASE MarkFails(i, w) \/ SaveFails(i, w)
    BY <2>6, GiveUpInv DEF MarkFails, SaveFails, At
  <2> QED
    BY <1>3, <2>1, <2>2, <2>3, <2>4, <2>5, <2>6 DEF Work, WorkFails
<1>4. ASSUME NEW i \in Instances,
             (\E n \in Ids : Send(i, n)) \/ Start(i) \/ RecoverNext(i) \/ Crash(i)
      PROVE  GradingInv'
  BY <1>4, SendInv, StartInv, RecoverNextInv, CrashInv
<1> QED
  BY <1>1, <1>2, <1>3, <1>4 DEF Next

\* The invariant holds of every reachable state of a single server.
LEMMA GradingInvariance == ASSUME OneServer PROVE Spec => []GradingInv
<1>1. Init /\ TypeInv => GradingInv
  <2> SUFFICES ASSUME Init, TypeInv PROVE GradingInv
    OBVIOUS
  <2>1. Ids = {} /\ \A i \in Instances : Len(queue[i]) = 0 /\ \A w \in Workers : Idle(i, w)
    BY EmptySeq DEF Init, Ids, Idle
  <2> QED
    BY <2>1 DEF Init, GradingInv, ApartInv, QueuedOnce, WorkedOnce, PoolApart, HandlersApart,
       DownIsEmpty, HeldIsUnfinished, ClaimedIsTerminal, UnfinishedIsHeld
<1>2. OneServer
  OBVIOUS
<1> QED
  BY <1>1, <1>2, TypeInvariance, GradingNextInv, PTL DEF Spec

-----------------------------------------------------------------------------
(* What the places of a submission are.                                     *)

\* The five kinds of places, one by one.
LEMMA PlacesAre ==
  ASSUME TypeOK, NEW n, NEW p
  PROVE  p \in Places(n) <=>
           \/ \E h \in Handlers : AtHandler(h, n) /\ p = <<"handler", h>>
           \/ \E i \in Instances : n \in recovering[i] /\ p = <<"recovering", i>>
           \/ \E i \in Instances : n \in overflow[i] /\ p = <<"overflow", i>>
           \/ \E i \in Instances : \E k \in 1..Len(queue[i]) :
                queue[i][k] = n /\ p = <<"queue", i, k>>
           \/ \E i \in Instances, w \in Workers :
                ~ Idle(i, w) /\ workers[i][w].id = n /\ p = <<"worker", i, w>>
<1>1. \A i \in Instances : DOMAIN queue[i] = 1..Len(queue[i])
  BY DEF TypeOK
<1> DEFINE H == {<<"handler", h>> : h \in {g \in Handlers : handlers[g] # None /\ handlers[g].stored = n}}
           R == {<<"recovering", i>> : i \in {j \in Instances : n \in recovering[j]}}
           O == {<<"overflow", i>> : i \in {j \in Instances : n \in overflow[j]}}
           Q(i) == {<<"queue", i, k>> : k \in {l \in DOMAIN queue[i] : queue[i][l] = n}}
           W(i) == {<<"worker", i, w>> : w \in {x \in Workers : ~ Idle(i, x) /\ workers[i][x].id = n}}
<1>2. p \in H <=> \E h \in Handlers : AtHandler(h, n) /\ p = <<"handler", h>>
  BY DEF AtHandler
<1>3. p \in R <=> \E i \in Instances : n \in recovering[i] /\ p = <<"recovering", i>>
  OBVIOUS
<1>4. p \in O <=> \E i \in Instances : n \in overflow[i] /\ p = <<"overflow", i>>
  OBVIOUS
<1>5. \A i \in Instances : p \in Q(i) <=>
        \E k \in 1..Len(queue[i]) : queue[i][k] = n /\ p = <<"queue", i, k>>
  BY <1>1
<1>6. \A i \in Instances : p \in W(i) <=>
        \E w \in Workers : ~ Idle(i, w) /\ workers[i][w].id = n /\ p = <<"worker", i, w>>
  OBVIOUS
<1>7. Places(n) = H \cup R \cup O \cup (UNION {Q(i) : i \in Instances})
                                     \cup (UNION {W(i) : i \in Instances})
  BY DEF Places
<1> HIDE DEF H, R, O, Q, W
<1> QED
  BY <1>2, <1>3, <1>4, <1>5, <1>6, <1>7

\* A submission has a place exactly if it is held.
LEMMA PlacedIsHeld ==
  ASSUME TypeOK, NEW n
  PROVE  (Places(n) # {}) <=> Held(n)
<1>1. ASSUME NEW p \in Places(n) PROVE Held(n)
  BY <1>1, PlacesAre DEF Held, InPool, Queued, Worked
<1>2. ASSUME Held(n) PROVE Places(n) # {}
  <2>1. CASE \E h \in Handlers : AtHandler(h, n)
    BY <2>1, PlacesAre
  <2>2. CASE \E i \in Instances : n \in recovering[i] \/ n \in overflow[i]
    <3>1. PICK i \in Instances : n \in recovering[i] \/ n \in overflow[i]
      BY <2>2
    <3>2. <<"recovering", i>> \in Places(n) \/ <<"overflow", i>> \in Places(n)
      BY <3>1, PlacesAre
    <3> QED
      BY <3>2
  <2>3. CASE \E i \in Instances : Queued(i, n)
    <3>1. PICK i \in Instances : Queued(i, n)
      BY <2>3
    <3>2. PICK k \in 1..Len(queue[i]) : queue[i][k] = n
      BY <3>1 DEF Queued
    <3>3. <<"queue", i, k>> \in Places(n)
      BY <3>2, PlacesAre
    <3> QED
      BY <3>3
  <2>4. CASE \E i \in Instances : Worked(i, n)
    <3>1. PICK i \in Instances : Worked(i, n)
      BY <2>4
    <3>2. PICK w \in Workers : ~ Idle(i, w) /\ workers[i][w].id = n
      BY <3>1 DEF Worked
    <3>3. <<"worker", i, w>> \in Places(n)
      BY <3>2, PlacesAre
    <3> QED
      BY <3>3
  <2> QED
    BY <1>2, <2>1, <2>2, <2>3, <2>4 DEF Held, InPool
<1> QED
  BY <1>1, <1>2

\* A single server has a submission in one place.
LEMMA OnePlace ==
  ASSUME OneServer, GradingInv, NEW n \in Ids, NEW a \in Places(n), NEW b \in Places(n)
  PROVE  a = b
<1>1. /\ TypeOK /\ QueuedOnce /\ WorkedOnce /\ PoolApart /\ HandlersApart
      /\ \A i, j \in Instances : i = j
  BY DEF GradingInv, TypeInv, ApartInv, OneServer
<1>2. ASSUME NEW h \in Handlers, AtHandler(h, n), a = <<"handler", h>>
      PROVE  a = b
  <2>1. /\ \A g \in Handlers : AtHandler(g, n) => g = h
        /\ \A i \in Instances : ~ InPool(i, n)
    BY <1>1, <1>2 DEF HandlersApart
  <2> QED
    BY <1>1, <1>2, <2>1, PlacesAre DEF InPool, Queued, Worked
<1>3. ASSUME \A h \in Handlers : ~ AtHandler(h, n), NEW i \in Instances
      PROVE  a = b
  <2>1. \A j \in Instances : j = i
    BY <1>1
  <2>2. CASE n \in recovering[i]
    <3>1. n \notin overflow[i] /\ ~ Queued(i, n) /\ ~ Worked(i, n)
      BY <1>1, <2>2 DEF PoolApart
    <3>2. \A p \in Places(n) : p = <<"recovering", i>>
      BY <1>1, <1>3, <2>1, <3>1, PlacesAre DEF Queued, Worked
    <3> QED
      BY <3>2
  <2>3. CASE n \in overflow[i]
    <3>1. n \notin recovering[i] /\ ~ Queued(i, n) /\ ~ Worked(i, n)
      BY <1>1, <2>3 DEF PoolApart
    <3>2. \A p \in Places(n) : p = <<"overflow", i>>
      BY <1>1, <1>3, <2>1, <3>1, PlacesAre DEF Queued, Worked
    <3> QED
      BY <3>2
  <2>4. CASE Queued(i, n)
    <3>1. n \notin recovering[i] /\ n \notin overflow[i] /\ ~ Worked(i, n)
      BY <1>1, <2>4 DEF PoolApart
    <3>2. PICK k \in 1..Len(queue[i]) : queue[i][k] = n
      BY <2>4 DEF Queued
    <3>3. \A l \in 1..Len(queue[i]) : queue[i][l] = n => l = k
      BY <1>1, <3>2 DEF QueuedOnce
    <3>4. \A p \in Places(n) : p = <<"queue", i, k>>
      BY <1>1, <1>3, <2>1, <3>1, <3>3, PlacesAre DEF Worked
    <3> QED
      BY <3>4
  <2>5. CASE Worked(i, n)
    <3>1. n \notin recovering[i] /\ n \notin overflow[i] /\ ~ Queued(i, n)
      BY <1>1, <2>5 DEF PoolApart
    <3>2. PICK w \in Workers : ~ Idle(i, w) /\ workers[i][w].id = n
      BY <2>5 DEF Worked
    <3>3. \A x \in Workers : ~ Idle(i, x) /\ workers[i][x].id = n => x = w
      BY <1>1, <3>2 DEF WorkedOnce
    <3>4. \A p \in Places(n) : p = <<"worker", i, w>>
      BY <1>1, <1>3, <2>1, <3>1, <3>3, PlacesAre DEF Queued
    <3> QED
      BY <3>4
  <2>6. InPool(i, n)
    <3>1. Held(n)
      BY <1>1, PlacedIsHeld
    <3> QED
      BY <1>3, <2>1, <3>1 DEF Held
  <2> QED
    BY <2>2, <2>3, <2>4, <2>5, <2>6 DEF InPool
<1>4. CASE \A h \in Handlers : ~ AtHandler(h, n)
  <2>1. Held(n)
    BY <1>1, PlacedIsHeld
  <2>2. PICK i \in Instances : InPool(i, n)
    BY <1>4, <2>1 DEF Held
  <2> QED
    BY <1>3, <1>4
<1>5. CASE \E h \in Handlers : AtHandler(h, n)
  <2>1. PICK h \in Handlers : AtHandler(h, n)
    BY <1>5
  <2>2. \A i \in Instances : ~ InPool(i, n)
    BY <1>1, <2>1 DEF HandlersApart
  <2>3. \E g \in Handlers : AtHandler(g, n) /\ a = <<"handler", g>>
    BY <1>1, <2>2, PlacesAre DEF InPool, Queued, Worked
  <2> QED
    BY <1>2, <2>3
<1> QED
  BY <1>4, <1>5

-----------------------------------------------------------------------------
(* What a single server promises, through crashes and restarts.             *)

\* No submission is ever in two places: not in a request and the queue, nor in
\* two workers, nor recovered while it is still queued.
THEOREM HeldInOnePlace == ASSUME OneServer PROVE Spec => []HeldOnce
<1>1. OneServer /\ GradingInv => HeldOnce
  BY OnePlace DEF HeldOnce
<1>2. OneServer
  OBVIOUS
<1> QED
  BY <1>1, <1>2, GradingInvariance, PTL

\* What has its verdict, and its audit if it was claimed, is held nowhere.
THEOREM FinishedIsHeldNowhere == ASSUME OneServer PROVE Spec => []FinishedIsReleased
<1>1. GradingInv => FinishedIsReleased
  BY PlacedIsHeld DEF GradingInv, TypeInv, HeldIsUnfinished, FinishedIsReleased
<1> QED
  BY <1>1, GradingInvariance, PTL

\* What is unfinished is held, unless a worker gave up on it or its handler never
\* learned that it was stored: queues, crashes and restarts forget nothing more.
THEOREM OnlyTheDroppedAreForgotten == ASSUME OneServer PROVE Spec => []NothingForgotten
<1>1. GradingInv => NothingForgotten
  BY PlacedIsHeld DEF GradingInv, TypeInv, UnfinishedIsHeld, NothingForgotten
<1> QED
  BY <1>1, GradingInvariance, PTL

\* Only three kinds of steps write to the table.
LEMMA WhoWrites ==
  ASSUME [Next]_vars
  PROVE  \/ rows' = rows
         \/ \E h \in Handlers : Creates(h)
         \/ \E i \in Instances, w \in Workers : MarkRunning(i, w) \/ Save(i, w)
<1>1. ASSUME NEW h \in Handlers, Submitting(h) PROVE rows' = rows \/ Creates(h)
  BY <1>1 DEF Submitting, CheckRate, Creates, CreateFails, Schedule
<1>2. ASSUME NEW i \in Instances, NEW w \in Workers, Work(i, w) \/ WorkFails(i, w)
      PROVE  rows' = rows \/ MarkRunning(i, w) \/ Save(i, w)
  BY <1>2 DEF Work, WorkFails, Load, LoadFails, MarkFails, SaveFails, Grade, GraderFails
<1>3. ASSUME NEW i \in Instances, (\E m \in Ids : Send(i, m)) \/ Start(i) \/ RecoverNext(i) \/ Crash(i)
      PROVE  rows' = rows
  BY <1>3 DEF Send, Start, RecoverNext, Crash
<1>4. CASE WindowSlides \/ UNCHANGED vars
  BY <1>4 DEF WindowSlides, vars
<1> QED
  BY <1>1, <1>2, <1>3, <1>4 DEF Next

\* What a step does to the row of a submission: nothing, or it is marked as
\* running while it has no verdict, or its verdict or its audit is the first.
LEMMA RowSteps ==
  ASSUME GradingInv, [Next]_vars, NEW n \in Ids
  PROVE  /\ Terminal(n) => rows'[n].status = rows[n].status
         /\ rows[n].audit # None => rows'[n].audit = rows[n].audit
<1>1. TypeInv /\ TypeOK
  BY DEF GradingInv, TypeInv
<1>2. rows \in Seq(Submission) /\ n \in 1..Len(rows) /\ rows[n] \in Submission
  BY <1>1, IdsAre DEF TypeOK
<1>3. CASE rows' = rows
  BY <1>3
<1>4. ASSUME NEW h \in Handlers, Creates(h)
      PROVE  rows'[n] = rows[n]
  BY <1>2, <1>4, CreatesInserts DEF Insert
<1>5. ASSUME NEW i \in Instances, NEW w \in Workers, MarkRunning(i, w)
      PROVE  /\ Terminal(n) => rows'[n] = rows[n]
             /\ rows'[n].audit = rows[n].audit
  <2>1. PICK m : m = workers[i][w].id
    OBVIOUS
  <2>2. ~ Idle(i, w) /\ workers[i][w].step = "marking"
        /\ rows' = [rows EXCEPT ![m] = [rows[m] EXCEPT !.status = "running"]]
    BY <1>5, <2>1 DEF MarkRunning, At
  <2>3. m \in Ids /\ ~ Terminal(m) /\ rows[m] \in Submission
    BY <2>1, <2>2, WorkedRow DEF GradingInv, TypeInv, JobsOK
  <2>4. rows'[n] = IF n = m THEN [rows[m] EXCEPT !.status = "running"] ELSE rows[n]
    BY <1>2, <2>2
  <2> QED
    BY <2>3, <2>4 DEF Submission
<1>6. ASSUME NEW i \in Instances, NEW w \in Workers, Save(i, w)
      PROVE  /\ Terminal(n) => rows'[n].status = rows[n].status
             /\ rows[n].audit # None => rows'[n].audit = rows[n].audit
  <2>1. PICK m, job : job = workers[i][w] /\ m = job.id
    OBVIOUS
  <2>2. ~ Idle(i, w) /\ rows' = [rows EXCEPT ![m] = Recorded(rows[m], job)]
    BY <1>6, <2>1 DEF Save, At
  <2>3. /\ m \in Ids /\ rows[m] \in Submission /\ job.claimed = rows[m].claimed
        /\ IF rows[m].claimed THEN rows[m].audit = None ELSE ~ Terminal(m)
    BY <2>1, <2>2, WorkedRow
  <2>4. rows'[n] = IF n = m THEN Recorded(rows[m], job) ELSE rows[n]
    BY <1>2, <2>2
  <2>5. CASE n # m
    BY <2>4, <2>5
  <2>6. CASE n = m /\ rows[m].claimed
    <3>1. rows'[n] = [rows[n] EXCEPT !.audit = job.result]
      BY <2>3, <2>4, <2>6 DEF Recorded
    <3> QED
      BY <1>2, <2>3, <2>6, <3>1 DEF Submission
  <2>7. CASE n = m /\ ~ rows[m].claimed
    <3>1. rows'[n] = [rows[n] EXCEPT !.status = job.result]
      BY <2>3, <2>4, <2>7 DEF Recorded
    <3> QED
      BY <1>2, <2>3, <2>7, <3>1 DEF Submission
  <2> QED
    BY <2>5, <2>6, <2>7
<1> QED
  BY <1>3, <1>4, <1>5, <1>6, WhoWrites

\* A verdict and an audit stay, whatever is repeated after a crash.
THEOREM VerdictsStay == ASSUME OneServer PROVE Spec => VerdictIsFinal
<1>1. GradingInv /\ [Next]_vars =>
        [\A n \in Ids : /\ Terminal(n) => rows'[n].status = rows[n].status
                        /\ rows[n].audit # None => rows'[n].audit = rows[n].audit]_vars
  BY RowSteps
<1> QED
  BY <1>1, GradingInvariance, PTL DEF Spec, VerdictIsFinal

-----------------------------------------------------------------------------
(* The limits.                                                              *)

\* Requests that passed the limits and have yet to insert their row.
Pending(u) ==
  {h \in Handlers : handlers[h] # None /\ handlers[h].stored = 0 /\ handlers[h].user = u}
PendingFor(u, c) == {h \in Pending(u) : handlers[h].challenge = c}

\* Rows and pending requests together exceed a limit by less than the requests.
InFlightInv ==
  \A u \in Users :
    Cardinality(InFlight(u)) + Cardinality(Pending(u)) < MaxInFlight + Cardinality(Handlers)
DailyInv ==
  \A u \in Users, c \in Challenges :
    Cardinality(Today(u, c)) + Cardinality(PendingFor(u, c)) < MaxDaily + Cardinality(Handlers)

\* What is counted is finite, and there are no more requests than handlers.
LEMMA CountsAre ==
  ASSUME TypeOK, NEW u, NEW c
  PROVE  /\ IsFiniteSet(InFlight(u)) /\ IsFiniteSet(Today(u, c))
         /\ IsFiniteSet(Pending(u)) /\ IsFiniteSet(PendingFor(u, c))
         /\ Cardinality(InFlight(u)) \in Nat /\ Cardinality(Today(u, c)) \in Nat
         /\ Cardinality(Pending(u)) \in Nat /\ Cardinality(PendingFor(u, c)) \in Nat
         /\ Cardinality(Handlers) \in Nat
         /\ Cardinality(Pending(u)) <= Cardinality(Handlers)
         /\ Cardinality(PendingFor(u, c)) <= Cardinality(Handlers)
<1>1. IsFiniteSet(Ids)
  BY IdsAre, FS_Interval
<1>2. IsFiniteSet(Handlers)
  BY GradingAssumption
<1>3. InFlight(u) \in SUBSET Ids /\ Today(u, c) \in SUBSET Ids
  BY DEF InFlight, Today
<1>4. Pending(u) \in SUBSET Handlers /\ PendingFor(u, c) \in SUBSET Handlers
  BY DEF Pending, PendingFor
<1>5. IsFiniteSet(InFlight(u)) /\ IsFiniteSet(Today(u, c))
  BY <1>1, <1>3, FS_Subset
<1>6. /\ IsFiniteSet(Pending(u)) /\ Cardinality(Pending(u)) <= Cardinality(Handlers)
      /\ IsFiniteSet(PendingFor(u, c)) /\ Cardinality(PendingFor(u, c)) <= Cardinality(Handlers)
  BY <1>2, <1>4, FS_Subset
<1> QED
  BY <1>2, <1>5, <1>6, FS_CardinalityType

\* What a worker writes to a row leaves its user and challenge, and a claimed row's
\* status: an audit writes only its own column, and no claim is marked as running.
\* (For any number of servers.)
LEMMA RowsKeep ==
  ASSUME TypeInv, [Next]_vars, NEW n \in Ids
  PROVE  /\ n \in Ids'
         /\ rows'[n].user = rows[n].user /\ rows'[n].challenge = rows[n].challenge
         /\ rows'[n].claimed = rows[n].claimed
         /\ rows[n].claimed => rows'[n].status = rows[n].status
<1>1. rows \in Seq(Submission) /\ n \in 1..Len(rows) /\ rows[n] \in Submission
  BY IdsAre DEF TypeInv, TypeOK
<1>2. CASE rows' = rows
  BY <1>2 DEF Ids
<1>3. ASSUME NEW h \in Handlers, Creates(h) PROVE n \in Ids' /\ rows'[n] = rows[n]
  BY <1>1, <1>3, CreatesInserts DEF Insert, Ids
<1>4. ASSUME NEW i \in Instances, NEW w \in Workers, MarkRunning(i, w)
      PROVE  /\ n \in Ids'
             /\ rows'[n].user = rows[n].user /\ rows'[n].challenge = rows[n].challenge
             /\ rows'[n].claimed = rows[n].claimed
             /\ rows[n].claimed => rows'[n].status = rows[n].status
  <2>1. PICK m : m = workers[i][w].id
    OBVIOUS
  <2>2. ~ Idle(i, w) /\ workers[i][w].step = "marking"
        /\ rows' = [rows EXCEPT ![m] = [rows[m] EXCEPT !.status = "running"]]
    BY <1>4, <2>1 DEF MarkRunning, At
  <2>3. ~ workers[i][w].claimed /\ workers[i][w].claimed = rows[m].claimed
    BY <2>1, <2>2 DEF TypeInv, JobsOK
  <2>4. rows'[n] = (IF n = m THEN [rows[n] EXCEPT !.status = "running"] ELSE rows[n]) /\ n \in Ids'
    BY <1>1, <2>2 DEF Ids
  <2> QED
    BY <1>1, <2>3, <2>4 DEF Submission
<1>5. ASSUME NEW i \in Instances, NEW w \in Workers, Save(i, w)
      PROVE  /\ n \in Ids'
             /\ rows'[n].user = rows[n].user /\ rows'[n].challenge = rows[n].challenge
             /\ rows'[n].claimed = rows[n].claimed
             /\ rows[n].claimed => rows'[n].status = rows[n].status
  <2>1. PICK m, job : job = workers[i][w] /\ m = job.id
    OBVIOUS
  <2>2. ~ Idle(i, w) /\ rows' = [rows EXCEPT ![m] = Recorded(rows[m], job)]
    BY <1>5, <2>1 DEF Save, At
  <2>3. job.claimed = rows[m].claimed
    BY <2>1, <2>2 DEF TypeInv, JobsOK
  <2>4. rows'[n] = (IF n = m THEN Recorded(rows[n], job) ELSE rows[n]) /\ n \in Ids'
    BY <1>1, <2>2 DEF Ids
  <2>5. CASE job.claimed
    BY <1>1, <2>3, <2>4, <2>5 DEF Recorded, Submission
  <2>6. CASE ~ job.claimed
    BY <1>1, <2>3, <2>4, <2>6 DEF Recorded, Submission
  <2> QED
    BY <2>5, <2>6
<1> QED
  BY <1>2, <1>3, <1>4, <1>5, WhoWrites

\* With a single server, what is finished stays so.
LEMMA FinishedStays ==
  ASSUME GradingInv, [Next]_vars, NEW n \in Ids, Unfinished(n)'
  PROVE  Unfinished(n)
<1>1. rows \in Seq(Submission) /\ n \in 1..Len(rows) /\ rows[n] \in Submission
  BY IdsAre DEF GradingInv, TypeInv, TypeOK
<1>2. CASE rows'[n] = rows[n]
  BY <1>2 DEF Unfinished, Terminal, AwaitsAudit
<1>3. CASE rows'[n] # rows[n]
  <2>0. ASSUME NEW h \in Handlers, Creates(h) PROVE FALSE
    BY <1>1, <1>3, <2>0, CreatesInserts DEF Insert
  <2>1. PICK i \in Instances, w \in Workers : MarkRunning(i, w) \/ Save(i, w)
    BY <1>3, <2>0, WhoWrites
  <2>2. PICK m, job : job = workers[i][w] /\ m = job.id
    OBVIOUS
  <2>3. /\ ~ Idle(i, w)
        /\ \/ rows' = [rows EXCEPT ![m] = [rows[m] EXCEPT !.status = "running"]]
           \/ rows' = [rows EXCEPT ![m] = Recorded(rows[m], job)]
    BY <2>1, <2>2 DEF MarkRunning, Save, At
  <2>4. n = m
    BY <1>1, <1>3, <2>3
  <2> QED
    BY <2>2, <2>3, <2>4, WorkedRow
<1> QED
  BY <1>2, <1>3

\* One more counted for one request less, and the sum stays.
LEMMA OneForOne ==
  ASSUME NEW A, NEW B, NEW A2, NEW B2, NEW max,
         IsFiniteSet(A), IsFiniteSet(B), \E n : A2 \subseteq A \cup {n}, \E h \in B : B2 \subseteq B \ {h},
         max \in Nat, Cardinality(A) + Cardinality(B) < max
  PROVE  Cardinality(A2) + Cardinality(B2) < max
<1>n. PICK n : A2 \subseteq A \cup {n}
  OBVIOUS
<1>h. PICK h \in B : B2 \subseteq B \ {h}
  OBVIOUS
<1>0. Cardinality(A) \in Nat /\ Cardinality(B) \in Nat
  BY FS_CardinalityType
<1>1. IsFiniteSet(A \cup {n}) /\ Cardinality(A \cup {n}) <= Cardinality(A) + 1
  <2>1. /\ IsFiniteSet(A \cup {n})
        /\ Cardinality(A \cup {n}) = IF n \in A THEN Cardinality(A) ELSE Cardinality(A) + 1
    BY FS_AddElement
  <2> QED
    BY <1>0, <2>1
<1>2. IsFiniteSet(B \ {h}) /\ Cardinality(B \ {h}) = Cardinality(B) - 1
  BY <1>h, FS_RemoveElement
<1>3. Cardinality(A2) <= Cardinality(A \cup {n}) /\ Cardinality(A2) \in Nat
  BY <1>n, <1>1, FS_Subset, FS_CardinalityType
<1>4. Cardinality(B2) <= Cardinality(B \ {h}) /\ Cardinality(B2) \in Nat
  BY <1>h, <1>2, FS_Subset, FS_CardinalityType
<1> QED
  <2>1. Cardinality(A \cup {n}) \in Nat /\ Cardinality(B \ {h}) \in Nat
    BY <1>1, <1>2, FS_CardinalityType
  <2> QED
    BY <1>0, <1>1, <1>2, <1>3, <1>4, <2>1

\* Nothing more counted.
LEMMA NoneForSome ==
  ASSUME NEW A, NEW B, NEW A2, NEW B2, NEW max,
         IsFiniteSet(A), IsFiniteSet(B), A2 \subseteq A, B2 \subseteq B,
         max \in Nat, Cardinality(A) + Cardinality(B) < max
  PROVE  Cardinality(A2) + Cardinality(B2) < max
<1>1. Cardinality(A2) <= Cardinality(A) /\ Cardinality(A2) \in Nat /\ Cardinality(A) \in Nat
  BY FS_Subset, FS_CardinalityType
<1>2. Cardinality(B2) <= Cardinality(B) /\ Cardinality(B2) \in Nat /\ Cardinality(B) \in Nat
  BY FS_Subset, FS_CardinalityType
<1> QED
  BY <1>1, <1>2

\* Steps that count nothing new.
LEMMA InFlightKept ==
  ASSUME TypeOK, InFlightInv,
         \A u \in Users : InFlight(u)' \subseteq InFlight(u) /\ Pending(u)' \subseteq Pending(u)
  PROVE  InFlightInv'
<1>1. Cardinality(Handlers) \in Nat
  BY GradingAssumption, FS_CardinalityType
<1> SUFFICES ASSUME NEW u \in Users
             PROVE  Cardinality(InFlight(u)') + Cardinality(Pending(u)')
                      < MaxInFlight + Cardinality(Handlers)
  BY DEF InFlightInv
<1>2. IsFiniteSet(InFlight(u)) /\ IsFiniteSet(Pending(u))
  BY CountsAre
<1>3. MaxInFlight + Cardinality(Handlers) \in Nat
  BY <1>1, GradingAssumption
<1> QED
  BY <1>2, <1>3, NoneForSome DEF InFlightInv

LEMMA DailyKept ==
  ASSUME TypeOK, DailyInv,
         \A u \in Users, c \in Challenges :
           Today(u, c)' \subseteq Today(u, c) /\ PendingFor(u, c)' \subseteq PendingFor(u, c)
  PROVE  DailyInv'
<1>1. Cardinality(Handlers) \in Nat
  BY GradingAssumption, FS_CardinalityType
<1> SUFFICES ASSUME NEW u \in Users, NEW c \in Challenges
             PROVE  Cardinality(Today(u, c)') + Cardinality(PendingFor(u, c)')
                      < MaxDaily + Cardinality(Handlers)
  BY DEF DailyInv
<1>2. IsFiniteSet(Today(u, c)) /\ IsFiniteSet(PendingFor(u, c))
  BY CountsAre
<1>3. MaxDaily + Cardinality(Handlers) \in Nat
  BY <1>1, GradingAssumption
<1> QED
  BY <1>2, <1>3, NoneForSome DEF DailyInv

\* A request is checked: what counts was below the limits, and the other
\* requests are all that can have been checked before it and not inserted.
LEMMA CheckRateLimits ==
  ASSUME TypeOK, TypeOK', NEW h \in Handlers, NEW i \in Instances, NEW v \in Users,
         NEW d \in Challenges, NEW claim \in Claims \cup {None}, CheckRate(h, i, v, d, claim)
  PROVE  (InFlightInv => InFlightInv') /\ (DailyInv => DailyInv')
<1> DEFINE r == [on |-> i, user |-> v, challenge |-> d, claim |-> claim, stored |-> 0]
<1>1. /\ handlers' = [handlers EXCEPT ![h] = r] /\ rows' = rows /\ expired' = expired
      /\ ~ (Cardinality(InFlight(v)) >= MaxInFlight)
      /\ ~ (Cardinality(Today(v, d)) >= MaxDaily)
  BY DEF CheckRate, RateLimited
<1>2. r.user = v /\ r.challenge = d /\ r.stored = 0
  OBVIOUS
<1> HIDE DEF r
<1>3. \A u \in Users : InFlight(u)' = InFlight(u) /\ \A c \in Challenges : Today(u, c)' = Today(u, c)
  BY <1>1 DEF InFlight, Today, Ids, Unfinished, Terminal, AwaitsAudit
<1>4. \A g \in Handlers : handlers'[g] = IF g = h THEN r ELSE handlers[g]
  BY <1>1 DEF TypeOK
<1>5. \A u \in Users : u # v => Pending(u)' \subseteq Pending(u)
  BY <1>2, <1>4 DEF Pending
<1>6. \A u \in Users, c \in Challenges : u # v \/ c # d => PendingFor(u, c)' \subseteq PendingFor(u, c)
  BY <1>2, <1>4 DEF PendingFor, Pending
<1>7. \A u \in Users :
        /\ Pending(u)' \in SUBSET Handlers
        /\ \A c \in Challenges : PendingFor(u, c)' \in SUBSET Handlers
  BY DEF Pending, PendingFor
<1>8. IsFiniteSet(Handlers) /\ Cardinality(Handlers) \in Nat
  BY GradingAssumption, FS_CardinalityType
<1>9. ASSUME InFlightInv, NEW u \in Users
      PROVE  Cardinality(InFlight(u)') + Cardinality(Pending(u)')
               < MaxInFlight + Cardinality(Handlers)
  <2>1. Cardinality(InFlight(u)) \in Nat /\ Cardinality(Pending(u)) \in Nat
    BY CountsAre
  <2>2. Cardinality(Pending(u)') <= Cardinality(Handlers) /\ Cardinality(Pending(u)') \in Nat
    BY <1>7, <1>8, FS_Subset, FS_CardinalityType
  <2>3. CASE u = v
    BY <1>1, <1>3, <1>8, <2>1, <2>2, <2>3, GradingAssumption
  <2>4. CASE u # v
    <3>1. IsFiniteSet(Pending(u)) /\ Pending(u)' \in SUBSET Pending(u)
      BY <1>5, <2>4, CountsAre
    <3>2. Cardinality(Pending(u)') <= Cardinality(Pending(u))
      BY <3>1, FS_Subset
    <3> QED
      BY <1>3, <1>8, <1>9, <2>1, <2>2, <3>2, GradingAssumption DEF InFlightInv
  <2> QED
    BY <2>3, <2>4
<1>10. ASSUME DailyInv, NEW u \in Users, NEW c \in Challenges
       PROVE  Cardinality(Today(u, c)') + Cardinality(PendingFor(u, c)')
                < MaxDaily + Cardinality(Handlers)
  <2>1. Cardinality(Today(u, c)) \in Nat /\ Cardinality(PendingFor(u, c)) \in Nat
    BY CountsAre
  <2>2. Cardinality(PendingFor(u, c)') <= Cardinality(Handlers) /\ Cardinality(PendingFor(u, c)') \in Nat
    BY <1>7, <1>8, FS_Subset, FS_CardinalityType
  <2>3. CASE u = v /\ c = d
    BY <1>1, <1>3, <1>8, <2>1, <2>2, <2>3, GradingAssumption
  <2>4. CASE u # v \/ c # d
    <3>1. IsFiniteSet(PendingFor(u, c)) /\ PendingFor(u, c)' \in SUBSET PendingFor(u, c)
      BY <1>6, <2>4, CountsAre
    <3>2. Cardinality(PendingFor(u, c)') <= Cardinality(PendingFor(u, c))
      BY <3>1, FS_Subset
    <3> QED
      BY <1>3, <1>8, <1>10, <2>1, <2>2, <3>2, GradingAssumption DEF DailyInv
  <2> QED
    BY <2>3, <2>4
<1> QED
  BY <1>9, <1>10 DEF InFlightInv, DailyInv

\* A request inserts its row: one more row, one request fewer.
LEMMA CreateLimits ==
  ASSUME TypeOK, TypeOK', NEW h \in Handlers, Creates(h)
  PROVE  (InFlightInv => InFlightInv') /\ (DailyInv => DailyInv')
<1>0. PICK n, r : n = Len(rows) + 1 /\ r = handlers[h]
  OBVIOUS
<1>i. Insert(h)
  BY CreatesInserts
<1>1. r \in Request /\ r # None /\ r.stored = 0 /\ expired' = expired
  BY <1>0, <1>i, InsertedRow DEF Insert
<1>2. rows'[n].user = r.user /\ rows'[n].challenge = r.challenge
  BY <1>0, <1>i, InsertedRow
<1>3. n \notin Ids /\ n # 0 /\ Ids' = Ids \cup {n} /\ (\A m \in Ids : rows'[m] = rows[m]) /\ n \in Nat
  BY <1>0, <1>i, InsertedRow, IdsAre
<1>4. PICK q : handlers' = [handlers EXCEPT ![h] = q] /\ (q = None \/ q.stored # 0)
  <2>1. CASE Create(h)
    <3>1. handlers' = [handlers EXCEPT ![h] = [r EXCEPT !.stored = n]]
      BY <1>0, <2>1 DEF Create
    <3>2. [r EXCEPT !.stored = n].stored = n
      BY <1>1 DEF Request
    <3> QED
      BY <1>3, <3>1, <3>2
  <2>2. CASE CreateUnanswered(h)
    BY <2>2 DEF CreateUnanswered
  <2> QED
    BY <2>1, <2>2 DEF Creates
<1>5. \A g \in Handlers : handlers'[g] = IF g = h THEN q ELSE handlers[g]
  BY <1>4 DEF TypeOK
<1>6. \A m \in Ids : Unfinished(m)' <=> Unfinished(m)
  BY <1>3 DEF Unfinished, Terminal, AwaitsAudit
<1>7. \A u \in Users :
        /\ InFlight(u)' \subseteq InFlight(u) \cup (IF u = r.user THEN {n} ELSE {})
        /\ Pending(u)' \subseteq Pending(u) \ {h}
        /\ u = r.user => h \in Pending(u)
  <2>1. \A u \in Users : InFlight(u)' \subseteq InFlight(u) \cup (IF u = r.user THEN {n} ELSE {})
    BY <1>2, <1>3, <1>6 DEF InFlight
  <2>2. \A u \in Users : Pending(u)' \subseteq Pending(u) \ {h} /\ (u = r.user => h \in Pending(u))
    BY <1>0, <1>1, <1>4, <1>5 DEF Pending
  <2> QED
    BY <2>1, <2>2
<1>8. \A u \in Users, c \in Challenges :
        /\ Today(u, c)' \subseteq Today(u, c) \cup (IF u = r.user /\ c = r.challenge THEN {n} ELSE {})
        /\ PendingFor(u, c)' \subseteq PendingFor(u, c) \ {h}
        /\ u = r.user /\ c = r.challenge => h \in PendingFor(u, c)
  <2>1. \A u \in Users, c \in Challenges :
          Today(u, c)' \subseteq Today(u, c) \cup (IF u = r.user /\ c = r.challenge THEN {n} ELSE {})
    <3>1. expired' = expired /\ \A m \in Ids' : m = n \/ (m \in Ids /\ rows'[m] = rows[m])
      BY <1>1, <1>3
    <3>2. rows'[n].user = r.user /\ rows'[n].challenge = r.challenge
      BY <1>2, <1>3
    <3> QED
      BY <3>1, <3>2 DEF Today
  <2>2. \A u \in Users, c \in Challenges :
          /\ PendingFor(u, c)' \subseteq PendingFor(u, c) \ {h}
          /\ u = r.user /\ c = r.challenge => h \in PendingFor(u, c)
    BY <1>0, <1>1, <1>4, <1>5 DEF Pending, PendingFor
  <2> QED
    BY <2>1, <2>2
<1>9. ASSUME InFlightInv, NEW u \in Users
      PROVE  Cardinality(InFlight(u)') + Cardinality(Pending(u)')
               < MaxInFlight + Cardinality(Handlers)
  <2>1. IsFiniteSet(InFlight(u)) /\ IsFiniteSet(Pending(u))
    BY CountsAre
  <2>2. CASE u = r.user
    <3>1. /\ \E m : InFlight(u)' \subseteq InFlight(u) \cup {m}
          /\ \E g \in Pending(u) : Pending(u)' \subseteq Pending(u) \ {g}
      BY <1>7, <2>2
    <3>2. /\ MaxInFlight + Cardinality(Handlers) \in Nat
          /\ Cardinality(InFlight(u)) + Cardinality(Pending(u)) < MaxInFlight + Cardinality(Handlers)
      BY <1>9, GradingAssumption, FS_CardinalityType DEF InFlightInv
    <3> QED
      BY <2>1, <3>1, <3>2, OneForOne
  <2>3. CASE u # r.user
    <3>1. InFlight(u)' \subseteq InFlight(u) /\ Pending(u)' \subseteq Pending(u)
      BY <1>7, <2>3
    <3>2. /\ MaxInFlight + Cardinality(Handlers) \in Nat
          /\ Cardinality(InFlight(u)) + Cardinality(Pending(u)) < MaxInFlight + Cardinality(Handlers)
      BY <1>9, GradingAssumption, FS_CardinalityType DEF InFlightInv
    <3> QED
      BY <2>1, <3>1, <3>2, NoneForSome
  <2> QED
    BY <2>2, <2>3
<1>10. ASSUME DailyInv, NEW u \in Users, NEW c \in Challenges
       PROVE  Cardinality(Today(u, c)') + Cardinality(PendingFor(u, c)')
                < MaxDaily + Cardinality(Handlers)
  <2>1. IsFiniteSet(Today(u, c)) /\ IsFiniteSet(PendingFor(u, c))
    BY CountsAre
  <2>2. CASE u = r.user /\ c = r.challenge
    <3>1. /\ \E m : Today(u, c)' \subseteq Today(u, c) \cup {m}
          /\ \E g \in PendingFor(u, c) : PendingFor(u, c)' \subseteq PendingFor(u, c) \ {g}
      BY <1>8, <2>2
    <3>2. /\ MaxDaily + Cardinality(Handlers) \in Nat
          /\ Cardinality(Today(u, c)) + Cardinality(PendingFor(u, c)) < MaxDaily + Cardinality(Handlers)
      BY <1>10, GradingAssumption, FS_CardinalityType DEF DailyInv
    <3> QED
      BY <2>1, <3>1, <3>2, OneForOne
  <2>3. CASE ~ (u = r.user /\ c = r.challenge)
    <3>1. Today(u, c)' \subseteq Today(u, c) /\ PendingFor(u, c)' \subseteq PendingFor(u, c)
      BY <1>8, <2>3
    <3>2. /\ MaxDaily + Cardinality(Handlers) \in Nat
          /\ Cardinality(Today(u, c)) + Cardinality(PendingFor(u, c)) < MaxDaily + Cardinality(Handlers)
      BY <1>10, GradingAssumption, FS_CardinalityType DEF DailyInv
    <3> QED
      BY <2>1, <3>1, <3>2, NoneForSome
  <2> QED
    BY <2>2, <2>3
<1> QED
  BY <1>9, <1>10 DEF InFlightInv, DailyInv

\* A step that is neither a check nor an insert makes no request and no row.
LEMMA OtherSteps ==
  ASSUME TypeInv, [Next]_vars, \A h \in Handlers : ~ Creates(h),
         ~ \E h \in Handlers, i \in Instances, u \in Users, c \in Challenges,
              claim \in Claims \cup {None} : CheckRate(h, i, u, c, claim)
  PROVE  /\ DOMAIN rows' = Ids
         /\ \A u \in Users : Pending(u)' \subseteq Pending(u)
         /\ \A u \in Users, c \in Challenges :
              Today(u, c)' \subseteq Today(u, c) /\ PendingFor(u, c)' \subseteq PendingFor(u, c)
<1>1. DOMAIN rows' = Ids
  <2>1. CASE rows' = rows
    BY <2>1 DEF Ids
  <2>2. ASSUME NEW i \in Instances, NEW w \in Workers, MarkRunning(i, w) \/ Save(i, w)
        PROVE  DOMAIN rows' = Ids
    BY <2>2 DEF MarkRunning, Save, Ids
  <2> QED
    BY <2>1, <2>2, WhoWrites
<1>2. /\ expired' \in {expired, expired + 1}
      /\ \A h \in Handlers : handlers'[h] = handlers[h] \/ handlers'[h] = None
  <2>0. handlers \in [Handlers -> Request \cup {None}]
    BY DEF TypeInv, TypeOK
  <2>1. ASSUME NEW h \in Handlers, CreateFails(h) \/ Schedule(h)
        PROVE  expired' = expired /\ \A g \in Handlers : handlers'[g] \in {handlers[g], None}
    BY <2>0, <2>1 DEF CreateFails, Schedule
  <2>2. ASSUME NEW i \in Instances, NEW w \in Workers, Work(i, w) \/ WorkFails(i, w)
        PROVE  expired' = expired /\ handlers' = handlers
    BY <2>2 DEF Work, WorkFails, Load, LoadFails, MarkRunning, MarkFails, Save, SaveFails,
       Grade, GraderFails
  <2>3. ASSUME NEW i \in Instances, Crash(i)
        PROVE  expired' = expired /\ \A g \in Handlers : handlers'[g] \in {handlers[g], None}
    BY <2>3 DEF Crash
  <2>4. ASSUME NEW i \in Instances, (\E n \in Ids : Send(i, n)) \/ Start(i) \/ RecoverNext(i)
        PROVE  expired' = expired /\ handlers' = handlers
    BY <2>4 DEF Send, Start, RecoverNext
  <2>5. CASE WindowSlides \/ UNCHANGED vars
    BY <2>5 DEF WindowSlides, vars
  <2> QED
    BY <2>1, <2>2, <2>3, <2>4, <2>5 DEF Next, Submitting, Creates
<1>3. \A n \in Ids : rows'[n].user = rows[n].user /\ rows'[n].challenge = rows[n].challenge
  BY RowsKeep
<1>4. expired \in Nat /\ Ids \subseteq Nat
  BY IdsAre DEF TypeInv, TypeOK
<1>5. \A u \in Users, c \in Challenges : Today(u, c)' \subseteq Today(u, c)
  BY <1>1, <1>2, <1>3, <1>4 DEF Today, Ids
<1>6. \A u \in Users : Pending(u)' \subseteq Pending(u)
  BY <1>2 DEF Pending
<1>7. \A u \in Users, c \in Challenges : PendingFor(u, c)' \subseteq PendingFor(u, c)
  BY <1>2, <1>6 DEF PendingFor, Pending
<1> QED
  BY <1>1, <1>5, <1>6, <1>7

\* At first nothing is counted.
LEMMA InitLimits == Init => InFlightInv /\ DailyInv
<1> SUFFICES ASSUME Init PROVE InFlightInv /\ DailyInv
  OBVIOUS
<1>1. Ids = {} /\ \A h \in Handlers : handlers[h] = None
  BY DEF Init, Ids
<1>2. \A u \in Users : InFlight(u) = {} /\ Pending(u) = {}
  BY <1>1 DEF InFlight, Pending
<1>3. \A u \in Users, c \in Challenges : Today(u, c) = {} /\ PendingFor(u, c) = {}
  BY <1>1 DEF Today, Pending, PendingFor
<1>4. Cardinality({}) = 0 /\ Cardinality(Handlers) \in Nat
  BY FS_EmptySet, FS_CardinalityType, GradingAssumption
<1>5. /\ Cardinality({}) + Cardinality({}) < MaxInFlight + Cardinality(Handlers)
      /\ Cardinality({}) + Cardinality({}) < MaxDaily + Cardinality(Handlers)
  BY <1>4, GradingAssumption
<1> QED
  BY <1>2, <1>3, <1>5 DEF InFlightInv, DailyInv

\* The day's rows and requests stay below their sum, for any number of servers.
LEMMA DailyInvariance == Spec => []DailyInv
<1>1. TypeInv /\ TypeInv' /\ DailyInv /\ [Next]_vars => DailyInv'
  <2> SUFFICES ASSUME TypeInv, TypeInv', DailyInv, [Next]_vars PROVE DailyInv'
    OBVIOUS
  <2>0. TypeOK /\ TypeOK'
    BY DEF TypeInv
  <2>1. ASSUME NEW h \in Handlers, NEW i \in Instances, NEW u \in Users, NEW c \in Challenges,
               NEW claim \in Claims \cup {None}, CheckRate(h, i, u, c, claim)
        PROVE  DailyInv'
    BY <2>0, <2>1, CheckRateLimits
  <2>2. ASSUME NEW h \in Handlers, Creates(h) PROVE DailyInv'
    BY <2>0, <2>2, CreateLimits
  <2>3. CASE /\ \A h \in Handlers : ~ Creates(h)
             /\ ~ \E h \in Handlers, i \in Instances, u \in Users, c \in Challenges,
                     claim \in Claims \cup {None} : CheckRate(h, i, u, c, claim)
    BY <2>0, <2>3, OtherSteps, DailyKept
  <2> QED
    BY <2>1, <2>2, <2>3
<1> QED
  BY <1>1, InitLimits, TypeInvariance, PTL DEF Spec

\* What a user has in flight stays below the sum, for a single server.
LEMMA InFlightInvariance == ASSUME OneServer PROVE Spec => []InFlightInv
<1>1. GradingInv /\ TypeInv' /\ InFlightInv /\ [Next]_vars => InFlightInv'
  <2> SUFFICES ASSUME GradingInv, TypeInv', InFlightInv, [Next]_vars PROVE InFlightInv'
    OBVIOUS
  <2>0. TypeInv /\ TypeOK /\ TypeOK'
    BY DEF GradingInv, TypeInv
  <2>1. ASSUME NEW h \in Handlers, NEW i \in Instances, NEW u \in Users, NEW c \in Challenges,
               NEW claim \in Claims \cup {None}, CheckRate(h, i, u, c, claim)
        PROVE  InFlightInv'
    BY <2>0, <2>1, CheckRateLimits
  <2>2. ASSUME NEW h \in Handlers, Creates(h) PROVE InFlightInv'
    BY <2>0, <2>2, CreateLimits
  <2>3. CASE /\ \A h \in Handlers : ~ Creates(h)
             /\ ~ \E h \in Handlers, i \in Instances, u \in Users, c \in Challenges,
                     claim \in Claims \cup {None} : CheckRate(h, i, u, c, claim)
    <3>1. DOMAIN rows' = Ids /\ \A u \in Users : Pending(u)' \subseteq Pending(u)
      BY <2>0, <2>3, OtherSteps
    <3>2. \A n \in Ids : rows'[n].user = rows[n].user /\ (Unfinished(n)' => Unfinished(n))
      BY <2>0, RowsKeep, FinishedStays
    <3>3. \A u \in Users : InFlight(u)' \subseteq InFlight(u)
      BY <3>1, <3>2 DEF InFlight, Ids
    <3> QED
      BY <2>0, <3>1, <3>3, InFlightKept
  <2> QED
    BY <2>1, <2>2, <2>3
<1> QED
  BY <1>1, InitLimits, TypeInvariance, GradingInvariance, PTL DEF Spec

\* However requests and workers interleave, a user exceeds a limit by less than
\* the number of requests there can be at once.
THEOREM LimitsHold == ASSUME OneServer PROVE Spec => []LimitsBound
<1>1. TypeOK /\ InFlightInv /\ DailyInv => LimitsBound
  <2> SUFFICES ASSUME TypeOK, InFlightInv, DailyInv, NEW u \in Users
               PROVE  /\ Cardinality(InFlight(u)) < MaxInFlight + Cardinality(Handlers)
                      /\ \A c \in Challenges :
                           Cardinality(Today(u, c)) < MaxDaily + Cardinality(Handlers)
    BY DEF LimitsBound
  <2>1. Cardinality(InFlight(u)) < MaxInFlight + Cardinality(Handlers)
    <3>1. Cardinality(InFlight(u)) + Cardinality(Pending(u)) < MaxInFlight + Cardinality(Handlers)
      BY DEF InFlightInv
    <3>2. /\ Cardinality(InFlight(u)) \in Nat /\ Cardinality(Pending(u)) \in Nat
          /\ Cardinality(Handlers) \in Nat
      BY CountsAre
    <3> QED
      BY <3>1, <3>2, GradingAssumption
  <2>2. ASSUME NEW c \in Challenges
        PROVE  Cardinality(Today(u, c)) < MaxDaily + Cardinality(Handlers)
    BY CountsAre, GradingAssumption DEF DailyInv
  <2> QED
    BY <2>1, <2>2
<1> QED
  BY <1>1, InFlightInvariance, DailyInvariance, TypeInvariance, PTL DEF TypeInv

-----------------------------------------------------------------------------
(* Any number of servers.                                                   *)

\* Two servers that run the same submission may rewrite a verdict (TwoServers).
\* What they do not do, however many there are and wherever they crash: change a
\* verdict the CLI claimed (an audit writes its own column, and no claim goes
\* back to running), or let a user submit more often in a day than the limit and
\* the requests at once allow.
THEOREM ManyServersKeepClaims ==
  Spec =>
    /\ [][\A n \in Ids : n \in Ids' /\ (rows[n].claimed =>
             rows'[n].claimed /\ rows'[n].status = rows[n].status)]_vars
    /\ [](\A u \in Users, c \in Challenges :
            Cardinality(Today(u, c)) < MaxDaily + Cardinality(Handlers))
<1>1. TypeInv /\ [Next]_vars =>
        [\A n \in Ids : n \in Ids' /\ (rows[n].claimed =>
            rows'[n].claimed /\ rows'[n].status = rows[n].status)]_vars
  BY RowsKeep
<1>2. TypeInv /\ DailyInv =>
        \A u \in Users, c \in Challenges :
          Cardinality(Today(u, c)) < MaxDaily + Cardinality(Handlers)
  <2> SUFFICES ASSUME TypeInv, DailyInv, NEW u \in Users, NEW c \in Challenges
               PROVE  Cardinality(Today(u, c)) < MaxDaily + Cardinality(Handlers)
    OBVIOUS
  <2> QED
    BY CountsAre, GradingAssumption DEF DailyInv, TypeInv
<1> QED
  BY <1>1, <1>2, TypeInvariance, DailyInvariance, PTL DEF Spec

\* Claimed rows have their verdict, however many servers there are.
LEMMA ClaimsHaveVerdicts == Spec => []ClaimedIsTerminal
<1>1. Init => ClaimedIsTerminal
  BY DEF Init, ClaimedIsTerminal, Ids
<1>2. TypeInv /\ ClaimedIsTerminal /\ [Next]_vars => ClaimedIsTerminal'
  <2> SUFFICES ASSUME TypeInv, ClaimedIsTerminal, [Next]_vars,
                      NEW n \in DOMAIN rows', rows'[n].claimed
               PROVE  rows'[n].status \in Verdicts
    BY DEF ClaimedIsTerminal, Ids, Terminal
  <2>1. CASE n \in Ids
    BY <2>1, RowsKeep DEF ClaimedIsTerminal, Terminal
  <2>2. CASE n \notin Ids
    <3>1. PICK h \in Handlers : Insert(h)
      <4>1. ASSUME NEW i \in Instances, NEW w \in Workers, MarkRunning(i, w) \/ Save(i, w)
            PROVE  DOMAIN rows' = Ids
        BY <4>1 DEF MarkRunning, Save, Ids
      <4> QED
        BY <2>2, <4>1, WhoWrites, CreatesInserts DEF Ids
    <3>2. n = Len(rows) + 1
      BY <2>2, <3>1, InsertedRow DEF TypeInv, Ids
    <3> QED
      BY <3>1, <3>2, InsertedRow DEF TypeInv
  <2> QED
    BY <2>1, <2>2
<1> QED
  BY <1>1, <1>2, TypeInvariance, PTL DEF Spec

-----------------------------------------------------------------------------
(* A job comes to its end.                                                  *)

\* A worker has submission n at a step.
Has(i, w, n, step) == At(i, w, step) /\ workers[i][w].id = n

\* What a job that is over leaves: the row is finished, or the worker gave up on
\* it, or its process is gone.
Over(i, n) == (n \in Ids /\ ~ Unfinished(n)) \/ n \in dropped \/ i \notin up

\* A step of the system leaves a job where it is, takes it to its next step with
\* the same submission, or ends it; no job goes back or ends unnoticed.
LEMMA JobSteps ==
  ASSUME TypeInv, ClaimedIsTerminal, [Next]_vars,
         NEW i \in Instances, NEW w \in Workers, NEW n
  PROVE  /\ Has(i, w, n, "marking") =>
              Has(i, w, n, "marking")' \/ Has(i, w, n, "grading")' \/ Over(i, n)'
         /\ Has(i, w, n, "grading") =>
              Has(i, w, n, "grading")' \/ Has(i, w, n, "saving")' \/ Over(i, n)'
         /\ Has(i, w, n, "saving") => Has(i, w, n, "saving")' \/ Over(i, n)'
<1>1. PICK job : job = workers[i][w]
  OBVIOUS
<1> SUFFICES ASSUME ~ Idle(i, w), job.id = n, job.step \in {"marking", "grading", "saving"}
             PROVE  \/ workers'[i][w] = job
                    \/ /\ workers'[i][w] \in Job /\ workers'[i][w].id = n
                       /\ \/ job.step = "marking" /\ workers'[i][w].step = "grading"
                          \/ job.step = "grading" /\ workers'[i][w].step = "saving"
                    \/ Over(i, n)'
  BY <1>1, NoneAssumption DEF Has, At, Idle
<1>2. job \in Job /\ n \in Ids
  BY <1>1, JobFacts
<1>3. workers \in [Instances -> [Workers -> Job \cup {None}]]
  BY DEF TypeInv, TypeOK
<1>4. ASSUME NEW j \in Instances, NEW x \in Workers, Work(j, x) \/ WorkFails(j, x), ~ (j = i /\ x = w)
      PROVE  workers'[i][w] = job
  <2>1. workers' = workers \/ \E new : Becomes(j, x, new)
    <3>1. ASSUME Load(j, x) \/ MarkRunning(j, x) \/ Save(j, x) PROVE \E new : Becomes(j, x, new)
      BY <3>1 DEF Load, MarkRunning, Save
    <3>2. ASSUME MarkFails(j, x) \/ SaveFails(j, x) PROVE \E new : Becomes(j, x, new)
      BY <3>2 DEF MarkFails, SaveFails, GivesUp
    <3>3. ASSUME (\E verdict \in Verdicts : Grade(j, x, verdict)) \/ GraderFails(j, x)
          PROVE  \E new : Becomes(j, x, new)
      BY <3>3 DEF Grade, GraderFails, GivesUp
    <3>4. LoadFails(j, x) => workers' = workers
      BY DEF LoadFails
    <3> QED
      BY <1>4, <3>1, <3>2, <3>3, <3>4 DEF Work, WorkFails
  <2> QED
    BY <1>1, <1>3, <1>4, <2>1 DEF Becomes
<1>5. CASE MarkRunning(i, w)
  <2>1. job.step = "marking" /\ Becomes(i, w, [job EXCEPT !.step = "grading"])
    BY <1>1, <1>5 DEF MarkRunning, At
  <2> QED
    BY <1>2, <1>3, <2>1 DEF Becomes, Job
<1>6. ASSUME NEW verdict \in Verdicts, job.step = "grading",
             Becomes(i, w, [job EXCEPT !.step = "saving", !.result = verdict])
      PROVE  /\ workers'[i][w] \in Job /\ workers'[i][w].id = n
             /\ workers'[i][w].step = "saving"
  BY <1>2, <1>3, <1>6 DEF Becomes, Job
<1>7. ASSUME NEW verdict \in Verdicts, Grade(i, w, verdict)
      PROVE  /\ workers'[i][w] \in Job /\ workers'[i][w].id = n
             /\ job.step = "grading" /\ workers'[i][w].step = "saving"
  BY <1>1, <1>6, <1>7 DEF Grade, At
<1>8. CASE GivesUp(i, w, n)
  BY <1>8 DEF GivesUp, Over
<1>9. CASE GraderFails(i, w)
  BY <1>1, <1>6, <1>8, <1>9 DEF GraderFails, At, Verdicts
<1>10. CASE MarkFails(i, w) \/ SaveFails(i, w)
  BY <1>1, <1>8, <1>10 DEF MarkFails, SaveFails
<1>11. CASE Save(i, w)
  <2>1. /\ job.step = "saving" /\ rows' = [rows EXCEPT ![n] = Recorded(rows[n], job)]
    BY <1>1, <1>11 DEF Save, At
  <2>2. /\ rows \in Seq(Submission) /\ n \in 1..Len(rows) /\ rows[n] \in Submission
    BY <1>2, IdsAre DEF TypeInv, TypeOK
  <2>3. n \in Ids' /\ rows'[n] = Recorded(rows[n], job)
    BY <2>1, <2>2 DEF Ids
  <2>4. /\ job.claimed = rows[n].claimed /\ job.result \in Verdicts
    BY <1>1, <1>2, <2>1 DEF TypeInv, JobsOK, Job
  <2>5. CASE job.claimed
    <3>1. rows[n].status \in Verdicts
      BY <1>2, <2>4, <2>5 DEF ClaimedIsTerminal, Terminal
    <3>2. rows'[n].status = rows[n].status /\ rows'[n].audit = job.result
      BY <2>2, <2>3, <2>5 DEF Recorded, Submission
    <3> QED
      BY <2>3, <2>4, <3>1, <3>2, NoneAssumption DEF Over, Unfinished, Terminal, AwaitsAudit
  <2>6. CASE ~ job.claimed
    <3>1. rows'[n].status = job.result /\ rows'[n].claimed = rows[n].claimed
      BY <2>2, <2>3, <2>6 DEF Recorded, Submission
    <3> QED
      BY <2>3, <2>4, <2>6, <3>1 DEF Over, Unfinished, Terminal, AwaitsAudit
  <2> QED
    BY <2>5, <2>6
<1>12. ASSUME NEW j \in Instances, Crash(j)
       PROVE  workers'[i][w] = job \/ Over(i, n)'
  BY <1>1, <1>3, <1>12 DEF Crash, Over
<1>13. CASE Load(i, w) \/ LoadFails(i, w)
  BY <1>13 DEF Load, LoadFails
<1>14. ASSUME NEW j \in Instances, (\E m \in Ids : Send(j, m)) \/ Start(j) \/ RecoverNext(j)
       PROVE  workers' = workers
  BY <1>14 DEF Send, Start, RecoverNext
<1>15. ASSUME NEW h \in Handlers, Submitting(h)
       PROVE  workers' = workers
  BY <1>15 DEF Submitting, CheckRate, Create, CreateUnanswered, Insert, CreateFails, Schedule, pool
<1>16. CASE WindowSlides \/ UNCHANGED vars
  BY <1>1, <1>16 DEF WindowSlides, vars, pool
<1>17. ASSUME NEW j \in Instances, NEW x \in Workers, Work(j, x) \/ WorkFails(j, x)
       PROVE  \/ workers'[i][w] = job
              \/ /\ workers'[i][w] \in Job /\ workers'[i][w].id = n
                 /\ \/ job.step = "marking" /\ workers'[i][w].step = "grading"
                    \/ job.step = "grading" /\ workers'[i][w].step = "saving"
              \/ Over(i, n)'
  BY <1>4, <1>5, <1>7, <1>9, <1>10, <1>11, <1>13, <1>17 DEF Work, WorkFails
<1> QED
  BY <1>1, <1>12, <1>14, <1>15, <1>16, <1>17 DEF Next

\* No worker stays at a step for ever: goroutines are scheduled, store calls
\* return, and the grader runs under a deadline.
WorkersRun ==
  \A i \in Instances, w \in Workers :
    /\ [](At(i, w, "marking") => <> ~ At(i, w, "marking"))
    /\ [](At(i, w, "grading") => <> ~ At(i, w, "grading"))
    /\ [](At(i, w, "saving") => <> ~ At(i, w, "saving"))

\* If workers run, every job one of them has taken ends with the verdict, and the
\* audit of a claim, unless the worker gives it up for a failing store or grader
\* or the process goes: for any number of servers, and whichever of them have the
\* same submission.
THEOREM TakenJobsEnd ==
  Spec /\ WorkersRun =>
    \A i \in Instances, w \in Workers : \A n \in Nat :
      (~ Idle(i, w) /\ workers[i][w].id = n) ~> Over(i, n)
<1>1. ASSUME NEW i \in Instances, NEW w \in Workers
      PROVE  /\ Spec
             /\ /\ [](At(i, w, "marking") => <> ~ At(i, w, "marking"))
                /\ [](At(i, w, "grading") => <> ~ At(i, w, "grading"))
                /\ [](At(i, w, "saving") => <> ~ At(i, w, "saving"))
             => \A n \in Nat : (~ Idle(i, w) /\ workers[i][w].id = n) ~> Over(i, n)
  <2> SUFFICES ASSUME NEW n \in Nat
               PROVE  /\ Spec
                      /\ [](At(i, w, "marking") => <> ~ At(i, w, "marking"))
                      /\ [](At(i, w, "grading") => <> ~ At(i, w, "grading"))
                      /\ [](At(i, w, "saving") => <> ~ At(i, w, "saving"))
                      => ((~ Idle(i, w) /\ workers[i][w].id = n) ~> Over(i, n))
    OBVIOUS
  <2> DEFINE H == ~ Idle(i, w) /\ workers[i][w].id = n
             M == Has(i, w, n, "marking")
             G == Has(i, w, n, "grading")
             S == Has(i, w, n, "saving")
             Inv == TypeInv /\ ClaimedIsTerminal
  <2>1. Inv /\ [Next]_vars =>
          /\ M => M' \/ G' \/ Over(i, n)'
          /\ G => G' \/ S' \/ Over(i, n)'
          /\ S => S' \/ Over(i, n)'
    BY JobSteps
  <2>2. Inv /\ H => M \/ G \/ S
    BY JobFacts DEF Has, At, Job
  <2>3. /\ M => At(i, w, "marking")
        /\ G => At(i, w, "grading")
        /\ S => At(i, w, "saving")
    BY DEF Has
  <2>4. Spec => []Inv
    BY TypeInvariance, ClaimsHaveVerdicts, PTL DEF Inv
  <2> HIDE DEF M, G, S, Inv
  <2> QED
    BY <2>1, <2>2, <2>3, <2>4, PTL DEF Spec
<1> QED
  BY <1>1 DEF WorkersRun

-----------------------------------------------------------------------------
(* The refinement.                                                          *)

\* What SubmissionLifecycle sees of a submission, and of all.
Seen(n) ==
  [claimed |-> rows[n].claimed,
   verdict |-> IF Terminal(n) THEN rows[n].status ELSE None,
   audit |-> rows[n].audit]
AllSeen == [n \in Ids |-> Seen(n)]

\* A function on 1..k is a sequence of length k.
LEMMA FunctionIsSeq ==
  ASSUME NEW k \in Nat, NEW S, NEW s \in [1..k -> S]
  PROVE  s \in Seq(S) /\ Len(s) = k
OBVIOUS

\* All that is seen is a sequence.
LEMMA SeenIsSeq ==
  ASSUME TypeOK
  PROVE  \E S : /\ AllSeen \in Seq(S) /\ Len(AllSeen) = Len(rows)
                /\ \A n \in Ids : AllSeen[n] = Seen(n) /\ Seen(n) \in S
<1> DEFINE S == {Seen(n) : n \in Ids}
<1>1. AllSeen \in [1..Len(rows) -> S] /\ \A n \in Ids : AllSeen[n] = Seen(n)
  BY IdsAre DEF AllSeen
<1>2. AllSeen \in Seq(S) /\ Len(AllSeen) = Len(rows)
  BY <1>1, IdsAre, FunctionIsSeq
<1>3. \A n \in Ids : Seen(n) \in S
  OBVIOUS
<1> QED
  BY <1>1, <1>2, <1>3

\* A new row is seen at the end.
LEMMA CreateSeen ==
  ASSUME TypeOK, TypeOK', NEW h \in Handlers, Insert(h)
  PROVE  Lifecycle!Next
<1>1. PICK n, r : n = Len(rows) + 1 /\ r = handlers[h]
  OBVIOUS
<1> DEFINE new == [claimed |-> r.claim # None, verdict |-> r.claim, audit |-> None]
<1>2. r \in Request
  BY <1>1, InsertedRow
<1>3. /\ rows'[n].claimed = (r.claim # None) /\ rows'[n].audit = None
      /\ rows'[n].status = (IF r.claim = None THEN "pending" ELSE r.claim)
  BY <1>1, InsertedRow
<1>4. /\ Ids = 1..Len(rows) /\ Len(rows) \in Nat /\ Ids' = Ids \cup {n} /\ Len(rows') = n
      /\ \A m \in Ids : rows'[m] = rows[m]
  BY <1>1, InsertedRow, IdsAre
<1>5. Seen(n)' = new
  BY <1>2, <1>3, <1>4 DEF Seen, Terminal, Verdicts, Request, Claims
<1>6. \A m \in Ids : Seen(m)' = Seen(m)
  BY <1>4 DEF Seen, Terminal
<1> HIDE DEF new
<1>7. AllSeen' = Append(AllSeen, new)
  BY <1>1, <1>4, <1>5, <1>6, IdsAre DEF AllSeen
<1>8. r.claim = None \/ r.claim \in Verdicts
  BY <1>2 DEF Request, Claims, Verdicts
<1> QED
  BY <1>7, <1>8 DEF new, AllSeen, Seen, Lifecycle!Next, Lifecycle!Accept, Lifecycle!AcceptClaim

\* Marking a submission as running is not seen.
LEMMA MarkSeen ==
  ASSUME GradingInv, NEW i \in Instances, NEW w \in Workers, MarkRunning(i, w)
  PROVE  AllSeen' = AllSeen
<1>1. PICK n : n = workers[i][w].id
  OBVIOUS
<1>2. ~ Idle(i, w) /\ workers[i][w].step = "marking"
      /\ rows' = [rows EXCEPT ![n] = [rows[n] EXCEPT !.status = "running"]]
  BY <1>1 DEF MarkRunning, At
<1>3. n \in Ids /\ rows[n] \in Submission /\ ~ Terminal(n)
  BY <1>1, <1>2, WorkedRow DEF GradingInv, TypeInv, JobsOK
<1>4. rows \in Seq(Submission) /\ Ids = 1..Len(rows) /\ Ids' = Ids
  BY <1>2, IdsAre DEF GradingInv, TypeInv, TypeOK, Ids
<1>5. rows'[n] = [rows[n] EXCEPT !.status = "running"] /\ \A m \in Ids \ {n} : rows'[m] = rows[m]
  BY <1>2, <1>3, <1>4
<1>6. ~ Terminal(n)' /\ rows'[n].claimed = rows[n].claimed /\ rows'[n].audit = rows[n].audit
  BY <1>3, <1>5 DEF Submission, Terminal, Verdicts
<1>7. Seen(n)' = Seen(n)
  BY <1>3, <1>6 DEF Seen
<1>8. \A m \in Ids \ {n} : Seen(m)' = Seen(m)
  BY <1>5 DEF Seen, Terminal
<1> QED
  BY <1>4, <1>7, <1>8 DEF AllSeen

\* A verdict or an audit is saved, as the first of its submission.
LEMMA SaveSeen ==
  ASSUME GradingInv, NEW i \in Instances, NEW w \in Workers, Save(i, w)
  PROVE  Lifecycle!Next
<1>1. PICK job, n : job = workers[i][w] /\ n = job.id
  OBVIOUS
<1>2. ~ Idle(i, w) /\ job.step = "saving" /\ rows' = [rows EXCEPT ![n] = Recorded(rows[n], job)]
  BY <1>1 DEF Save, At
<1>3. /\ n \in Ids /\ rows[n] \in Submission /\ job \in Job /\ job.claimed = rows[n].claimed
      /\ IF rows[n].claimed THEN Terminal(n) /\ rows[n].audit = None ELSE ~ Terminal(n)
  BY <1>1, <1>2, WorkedRow
<1>4. job.result \in Verdicts
  BY <1>1, <1>2, <1>3 DEF GradingInv, TypeInv, JobsOK, Job
<1>5. rows \in Seq(Submission) /\ Ids = 1..Len(rows) /\ Ids' = Ids
  BY <1>2, IdsAre DEF GradingInv, TypeInv, TypeOK, Ids
<1>6. rows'[n] = Recorded(rows[n], job) /\ \A m \in Ids \ {n} : rows'[m] = rows[m]
  BY <1>2, <1>3, <1>5
<1>7. \A m \in Ids \ {n} : Seen(m)' = Seen(m)
  BY <1>6 DEF Seen, Terminal
<1>8. CASE rows[n].claimed
  <2>1. rows'[n] = [rows[n] EXCEPT !.audit = job.result]
    BY <1>3, <1>6, <1>8 DEF Recorded
  <2>2. Seen(n)' = [Seen(n) EXCEPT !.audit = job.result]
    BY <1>3, <2>1 DEF Seen, Terminal, Submission
  <2>3. AllSeen' = [AllSeen EXCEPT ![n].audit = job.result]
    BY <1>3, <1>5, <1>7, <2>2 DEF AllSeen
  <2>4. AllSeen[n].claimed /\ AllSeen[n].audit = None
    BY <1>3, <1>8 DEF AllSeen, Seen
  <2>5. Lifecycle!Audit(n, job.result)
    BY <2>3, <2>4 DEF Lifecycle!Audit, AllSeen, Seen
  <2>6. n \in DOMAIN AllSeen
    BY <1>3 DEF AllSeen
  <2> QED
    BY <1>4, <2>5, <2>6 DEF Lifecycle!Next, AllSeen, Seen
<1>9. CASE ~ rows[n].claimed
  <2>1. rows'[n] = [rows[n] EXCEPT !.status = job.result]
    BY <1>3, <1>6, <1>9 DEF Recorded
  <2>2. Seen(n)' = [Seen(n) EXCEPT !.verdict = job.result]
    BY <1>3, <1>4, <2>1 DEF Seen, Terminal, Submission
  <2>3. AllSeen' = [AllSeen EXCEPT ![n].verdict = job.result]
    BY <1>3, <1>5, <1>7, <2>2 DEF AllSeen
  <2>4. AllSeen[n].verdict = None
    BY <1>3, <1>9 DEF AllSeen, Seen
  <2>5. Lifecycle!Judge(n, job.result)
    BY <2>3, <2>4 DEF Lifecycle!Judge, AllSeen, Seen
  <2>6. n \in DOMAIN AllSeen
    BY <1>3 DEF AllSeen
  <2> QED
    BY <1>4, <2>5, <2>6 DEF Lifecycle!Next, AllSeen, Seen
<1> QED
  BY <1>8, <1>9

\* A single server implements the life of a submission: requests, queues,
\* workers, crashes and restarts are steps that nobody sees, and each step that
\* is seen is one of SubmissionLifecycle.
THEOREM GradingImplementsLifecycle == ASSUME OneServer PROVE Spec => ImplementsSubmissionLifecycle
<1>1. Init => Lifecycle!Init
  BY DEF Init, Ids, Lifecycle!Init
<1>2. GradingInv /\ TypeInv' /\ [Next]_vars => Lifecycle!Next \/ AllSeen' = AllSeen
  <2> SUFFICES ASSUME GradingInv, TypeInv', [Next]_vars
               PROVE  Lifecycle!Next \/ AllSeen' = AllSeen
    OBVIOUS
  <2>1. CASE rows' = rows
    BY <2>1 DEF AllSeen, Seen, Ids, Terminal
  <2>2. ASSUME NEW h \in Handlers, Creates(h) PROVE Lifecycle!Next
    BY <2>2, CreatesInserts, CreateSeen DEF GradingInv, TypeInv
  <2>3. ASSUME NEW i \in Instances, NEW w \in Workers, MarkRunning(i, w) \/ Save(i, w)
        PROVE  Lifecycle!Next \/ AllSeen' = AllSeen
    BY <2>3, MarkSeen, SaveSeen
  <2> QED
    BY <2>1, <2>2, <2>3, WhoWrites
<1>3. GradingInv /\ TypeInv' /\ [Next]_vars =>
        [Lifecycle!Next]_([n \in Ids |-> [claimed |-> rows[n].claimed,
                                          verdict |-> IF Terminal(n) THEN rows[n].status ELSE None,
                                          audit |-> rows[n].audit]])
  BY <1>2 DEF AllSeen, Seen
<1> QED
  BY <1>1, <1>3, TypeInvariance, GradingInvariance, PTL
     DEF Spec, ImplementsSubmissionLifecycle, Lifecycle!Spec
================================================================================
