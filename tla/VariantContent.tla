---------------------------- MODULE VariantContent ----------------------------
(***************************************************************************)
(* How a publish turns a document into rows (upsertVariantTx in            *)
(* internal/store/courses.go): lessons and challenges are diffed by slug,  *)
(* archived instead of deleted and revived when their slug returns, one    *)
(* SQL statement at a time inside a transaction.  Beside it, the page that *)
(* reads the rows back in three queries (internal/store/variant_detail.go) *)
(* and the submissions that refer to challenges by id.                     *)
(*                                                                         *)
(* One action is one SQL statement.  The upsert of the course row, the     *)
(* first statement of every publish, locks the course until the            *)
(* transaction ends, so there is at most one transaction.  Whether it is   *)
(* refused for its expected version is modelled in Proposals.              *)
(***************************************************************************)
EXTENDS Naturals, Sequences, FiniteSets

CONSTANTS
  LessonSlugs,
  ChallengeSlugs,
  Final,        \* the place of the final challenge: lesson_id IS NULL
  MaxVersion,   \* bound on the versions of the variant
  MaxIds,       \* bound on the challenge rows ever inserted
  None          \* no row, no transaction, no page, not in the document

ASSUME ContentAssumption ==
  /\ IsFiniteSet(ChallengeSlugs)
  /\ Final \notin LessonSlugs
  /\ None \notin LessonSlugs \cup {Final}
  /\ MaxVersion \in Nat
  /\ MaxIds \in Nat

VARIABLES
  lessons,     \* committed: slug -> [archived, content], or None
  challenges,  \* committed: slug -> [id, place, archived, content], or None
  published,   \* the documents published so far; version n is published[n]
  tx,          \* the open transaction, with its own view of the rows, or None
  lastId,      \* the identity column of challenges; not rolled back
  page,        \* a VariantDetail in progress, or None
  submitted    \* submissions: [slug the learner solved, challenge_id]

vars == <<lessons, challenges, published, tx, lastId, page, submitted>>

-----------------------------------------------------------------------------
\* What a document says: its lessons, and the place of each challenge.  It has
\* a lesson and one final challenge, and no slug occurs twice.
Documents ==
  {d \in [lessons : SUBSET LessonSlugs,
          place : [ChallengeSlugs -> LessonSlugs \cup {Final, None}]] :
     /\ d.lessons # {}
     /\ Cardinality({c \in ChallengeSlugs : d.place[c] = Final}) = 1
     /\ \A c \in ChallengeSlugs : d.place[c] \in d.lessons \cup {Final, None}}

ChallengesAt(d, place) == {c \in ChallengeSlugs : d.place[c] = place}

Lesson == [archived : BOOLEAN, content : 1..MaxVersion]
Challenge ==
  [id : 1..MaxIds, place : LessonSlugs \cup {Final}, archived : BOOLEAN, content : 1..MaxVersion]

LessonRows == [LessonSlugs -> Lesson \cup {None}]
ChallengeRows == [ChallengeSlugs -> Challenge \cup {None}]

\* A publish in progress: what is left of its document to write, the challenges
\* of the lesson it is at, and the rows as it has changed them.
Transactions ==
  [doc : Documents, phase : {"challenges", "lessons", "upserts"},
   todo : SUBSET (LessonSlugs \cup {Final}), filling : SUBSET ChallengeSlugs,
   lessons : LessonRows, challenges : ChallengeRows]

\* A page in progress: the lessons read, and each challenge's place and id.
Pages ==
  [phase : {"lessons", "challenges", "done"}, version : Nat, lessons : SUBSET LessonSlugs,
   place : [ChallengeSlugs -> LessonSlugs \cup {Final, None}],
   id : [ChallengeSlugs -> 1..MaxIds \cup {None}]]

ASSUME NoneAssumption ==
  None \notin Lesson \cup Challenge \cup Transactions \cup Pages \cup 1..MaxIds

Version == Len(published)
Live(row) == row # None /\ ~ row.archived
InTx(phase) == tx # None /\ tx.phase = phase

-----------------------------------------------------------------------------
(* The statements of a publish.                                             *)

\* The course and the variant are upserted and the version is bumped.
Begin(d) ==
  /\ tx = None
  /\ Version < MaxVersion
  /\ tx' = [doc |-> d, phase |-> "challenges", todo |-> d.lessons \cup {Final}, filling |-> {},
            lessons |-> lessons, challenges |-> challenges]
  /\ UNCHANGED <<lessons, challenges, published, lastId, page, submitted>>

Deleted(row) == None   \* mutant: rows that left the document are deleted
Archived(row) == IF row = None THEN None ELSE [row EXCEPT !.archived = TRUE]

ArchiveNoChallenges ==   \* mutant: what left the document stays live until the commit
  /\ InTx("challenges")
  /\ tx' = [tx EXCEPT !.phase = "lessons"]
  /\ UNCHANGED <<lessons, challenges, published, lastId, page, submitted>>

ArchiveChallenges ==
  /\ InTx("challenges")
  /\ tx' = [tx EXCEPT !.phase = "lessons",
                      !.challenges = [c \in ChallengeSlugs |->
                        IF tx.doc.place[c] = None THEN Archived(@[c]) ELSE @[c]]]
  /\ UNCHANGED <<lessons, challenges, published, lastId, page, submitted>>

ArchiveLessons ==
  /\ InTx("lessons")
  /\ tx' = [tx EXCEPT !.phase = "upserts",
                      !.lessons = [l \in LessonSlugs |->
                        IF l \notin tx.doc.lessons THEN Archived(@[l]) ELSE @[l]]]
  /\ UNCHANGED <<lessons, challenges, published, lastId, page, submitted>>

\* The next lesson of the document; documents list them in any order.
UpsertLesson(l) ==
  /\ InTx("upserts")
  /\ tx.filling = {}
  /\ l \in tx.todo \ {Final}
  /\ tx' = [tx EXCEPT !.todo = @ \ {l},
                      !.filling = ChallengesAt(tx.doc, l),
                      !.lessons[l] = [archived |-> FALSE, content |-> Version + 1]]
  /\ UNCHANGED <<lessons, challenges, published, lastId, page, submitted>>

\* upsertChallenge: a row that is there keeps its id, whatever else changes.
Upserted(c) ==
  LET row == tx.challenges[c] IN
  [id |-> IF row = None THEN lastId + 1 ELSE row.id,
   place |-> tx.doc.place[c], archived |-> FALSE, content |-> Version + 1]

Upsert(c, done) ==
  /\ lastId < MaxIds
  /\ lastId' = IF tx.challenges[c] = None THEN lastId + 1 ELSE lastId
  /\ tx' = [tx EXCEPT !.challenges[c] = Upserted(c), !.filling = @ \ {c}, !.todo = @ \ done]
  /\ UNCHANGED <<lessons, challenges, published, page, submitted>>

UpsertChallenge(c) ==
  /\ InTx("upserts")
  /\ c \in tx.filling
  /\ Upsert(c, {})

FinalMayBeNext == Final \in tx.todo /\ tx.filling = {}   \* mutant: the final is not written last
FinalIsNext == tx.todo = {Final} /\ tx.filling = {}

UpsertFinal(c) ==
  /\ InTx("upserts")
  /\ FinalIsNext
  /\ tx.doc.place[c] = Final
  /\ Upsert(c, {Final})

Commit ==
  /\ InTx("upserts")
  /\ tx.todo = {} /\ tx.filling = {}
  /\ lessons' = tx.lessons
  /\ challenges' = tx.challenges
  /\ published' = Append(published, tx.doc)
  /\ tx' = None
  /\ UNCHANGED <<lastId, page, submitted>>

\* A statement fails, the request is cancelled or the process dies.
Rollback ==
  /\ tx # None
  /\ tx' = None
  /\ UNCHANGED <<lessons, challenges, published, lastId, page, submitted>>

-----------------------------------------------------------------------------
(* Reading a variant back, and submitting to its challenges.                *)

ReadVersion ==
  /\ page = None
  /\ Version > 0
  /\ page' = [phase |-> "lessons", version |-> Version, lessons |-> {},
              place |-> [c \in ChallengeSlugs |-> None], id |-> [c \in ChallengeSlugs |-> None]]
  /\ UNCHANGED <<lessons, challenges, published, tx, lastId, submitted>>

ReadLessons ==
  /\ page # None
  /\ page.phase = "lessons"
  /\ page' = [page EXCEPT !.phase = "challenges",
                          !.lessons = {l \in LessonSlugs : Live(lessons[l])}]
  /\ UNCHANGED <<lessons, challenges, published, tx, lastId, submitted>>

ReturnedArchived(c) ==   \* mutant: archived challenges are not filtered out
  challenges[c] # None /\ challenges[c].place \in page.lessons \cup {Final}
ReturnedAnywhere(c) == Live(challenges[c])   \* mutant: its lesson is not looked for

\* A challenge whose lesson the second query did not return is left out.
Returned(c) == Live(challenges[c]) /\ challenges[c].place \in page.lessons \cup {Final}

ReadChallenges ==
  /\ page # None
  /\ page.phase = "challenges"
  /\ page' = [page EXCEPT !.phase = "done",
                          !.place = [c \in ChallengeSlugs |->
                                       IF Returned(c) THEN challenges[c].place ELSE None],
                          !.id = [c \in ChallengeSlugs |->
                                    IF Returned(c) THEN challenges[c].id ELSE None]]
  /\ UNCHANGED <<lessons, challenges, published, tx, lastId, submitted>>

Leave ==
  /\ page # None
  /\ page' = None
  /\ UNCHANGED <<lessons, challenges, published, tx, lastId, submitted>>

AcceptsArchived(id) ==   \* mutant: the insert does not look at archived_at
  \E c \in ChallengeSlugs : challenges[c] # None /\ challenges[c].id = id

\* What CreateSubmission inserts for: a challenge that is live now.
AcceptsId(id) == \E c \in ChallengeSlugs : Live(challenges[c]) /\ challenges[c].id = id

\* The learner solved a challenge of the page, under the id the page has for it.
Submit(c) ==
  /\ page # None
  /\ page.phase = "done"
  /\ page.place[c] # None
  /\ AcceptsId(page.id[c])
  /\ submitted' = submitted \cup {[slug |-> c, id |-> page.id[c]]}
  /\ UNCHANGED <<lessons, challenges, published, tx, lastId, page>>

-----------------------------------------------------------------------------
Init ==
  /\ lessons = [l \in LessonSlugs |-> None]
  /\ challenges = [c \in ChallengeSlugs |-> None]
  /\ published = <<>>
  /\ tx = None
  /\ lastId = 0
  /\ page = None
  /\ submitted = {}

PublishStep ==
  \/ \E d \in Documents : Begin(d)
  \/ ArchiveChallenges
  \/ ArchiveLessons
  \/ \E l \in LessonSlugs : UpsertLesson(l)
  \/ \E c \in ChallengeSlugs : UpsertChallenge(c) \/ UpsertFinal(c)
  \/ Commit
  \/ Rollback

ReadStep ==
  \/ ReadVersion
  \/ ReadLessons
  \/ ReadChallenges
  \/ Leave
  \/ \E c \in ChallengeSlugs : Submit(c)

Next == PublishStep \/ ReadStep

Spec == Init /\ [][Next]_vars

-----------------------------------------------------------------------------
(* What a publish promises.                                                 *)

\* Every row has its type, and a page has the lesson of every challenge on it.
TypeOK ==
  /\ lessons \in LessonRows
  /\ challenges \in ChallengeRows
  /\ published \in Seq(Documents)
  /\ Version <= MaxVersion
  /\ tx \in Transactions \cup {None}
  /\ lastId \in 0..MaxIds
  /\ submitted \in SUBSET [slug : ChallengeSlugs, id : 1..MaxIds]
  /\ page \in Pages \cup {None}
  /\ page # None => page.place \in [ChallengeSlugs -> page.lessons \cup {Final, None}]

LiveFinals(rows) == {c \in ChallengeSlugs : Live(rows[c]) /\ rows[c].place = Final}

\* one_final_per_variant holds after every statement, not only at the commit:
\* no document that validates is refused by the index, whatever it does to the
\* finals of the versions before it.
NeverTwoFinals == tx # None => Cardinality(LiveFinals(tx.challenges)) <= 1

\* The live rows are the published document, to the last slug and its place:
\* diffing leaves no row of an earlier version behind and loses none of this one.
LiveIsPublished ==
  Version > 0 =>
    LET d == published[Version] IN
    /\ d.lessons = {l \in LessonSlugs : Live(lessons[l])}
    /\ \A c \in ChallengeSlugs :
         d.place[c] = IF Live(challenges[c]) THEN challenges[c].place ELSE None
    /\ \A l \in d.lessons : lessons[l].content = Version
    /\ \A c \in ChallengeSlugs : Live(challenges[c]) => challenges[c].content = Version

\* The page of the lessons of version n and the challenges of version m, without
\* the challenges whose lesson it lacks.
PageIsOf(n, m) ==
  /\ page.lessons = published[n].lessons
  /\ \A c \in ChallengeSlugs :
       LET place == published[m].place[c] IN
       page.place[c] = IF place \in page.lessons \cup {Final} THEN place ELSE None

\* A page read while publishes begin, commit and break off shows nothing that
\* was not published and nothing older than what was live when it was asked
\* for: the lessons of one version and the challenges of that or a later one.
\* If no publish commits meanwhile, it is the one live version, entire.
PageShowsPublished ==
  page # None /\ page.phase = "done" =>
    \E n \in page.version..Version : \E m \in n..Version : PageIsOf(n, m)

\* Slugs are identity: a submission stays with the challenge it solved, through
\* every publish that moves, archives or revives it, and with no other.
HistoryStays ==
  \A s \in submitted :
    /\ challenges[s.slug] # None
    /\ challenges[s.slug].id = s.id
    /\ \A c \in ChallengeSlugs \ {s.slug} : challenges[c] # None => challenges[c].id # s.id

\* Statement by statement, with rollbacks, archived rows and pages of any age,
\* the rows implement the catalog: a document goes live whole or not at all,
\* the ids that were given stay, and a submission, from whatever page, is for a
\* challenge of the document that is live, under its id.
Catalog == INSTANCE VariantCatalog WITH
  versions <- published,
  shown <- [lessons |-> {l \in LessonSlugs : Live(lessons[l])},
            place |-> [c \in ChallengeSlugs |->
                         IF Live(challenges[c]) THEN challenges[c].place ELSE None]],
  registry <- [c \in ChallengeSlugs |-> IF challenges[c] = None THEN None ELSE challenges[c].id],
  solved <- submitted,
  Slugs <- ChallengeSlugs,
  Ids <- 1..MaxIds,
  Absent <- None

ImplementsCatalog == Catalog!Spec
==============================================================================
