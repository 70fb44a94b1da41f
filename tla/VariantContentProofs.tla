-------------------------- MODULE VariantContentProofs --------------------------
(***************************************************************************)
(* What holds of a variant's rows for any lessons and challenges, however   *)
(* often it is published, whatever the documents say, and wherever          *)
(* publishes break off or pages and submissions come between.               *)
(***************************************************************************)
EXTENDS VariantContent, FiniteSetTheorems, TLAPS

-----------------------------------------------------------------------------
(* The invariant.                                                           *)

\* Whether the open transaction has written the row of challenge c already.
Written(c) ==
  /\ tx.phase = "upserts"
  /\ tx.doc.place[c] \notin tx.todo \cup {None}
  /\ c \notin tx.filling

\* What is left to write is of the document, and each challenge's lesson first.
TodoOK ==
  /\ Version < MaxVersion
  /\ tx.todo \subseteq tx.doc.lessons \cup {Final}
  /\ tx.phase # "upserts" => tx.todo = tx.doc.lessons \cup {Final} /\ tx.filling = {}
  /\ tx.todo # {} \/ tx.filling # {} => Final \in tx.todo
  /\ \A c \in tx.filling : tx.doc.place[c] \in LessonSlugs \ tx.todo

\* A lesson's row is the document's, or gone with it, or still to be written.
LessonsOK ==
  \A l \in LessonSlugs :
    /\ l \notin tx.doc.lessons /\ tx.phase = "upserts" => ~ Live(tx.lessons[l])
    /\ l \in tx.doc.lessons \ tx.todo =>
         tx.lessons[l] = [archived |-> FALSE, content |-> Version + 1]

\* A challenge's row is written with its place in the document; or gone with it;
\* or live only as the last version left it.
ChallengesOK ==
  \A c \in ChallengeSlugs :
    /\ tx.doc.place[c] = None /\ tx.phase # "challenges" => ~ Live(tx.challenges[c])
    /\ Written(c) =>
         /\ Live(tx.challenges[c])
         /\ tx.challenges[c].place = tx.doc.place[c]
         /\ tx.challenges[c].content = Version + 1
    /\ ~ Written(c) /\ Live(tx.challenges[c]) => tx.challenges[c] = challenges[c]

\* No two rows have the same id, and the next id is of none.
IdsOK(rows) ==
  \A c \in ChallengeSlugs : rows[c] # None =>
    /\ rows[c].id <= lastId
    /\ \A d \in ChallengeSlugs \ {c} : rows[d] # None => rows[d].id # rows[c].id

\* A row that was committed stays, with its id.
RowsStay ==
  \A c \in ChallengeSlugs : challenges[c] # None =>
    tx.challenges[c] # None /\ tx.challenges[c].id = challenges[c].id

TxInv ==
  tx # None => TodoOK /\ LessonsOK /\ ChallengesOK /\ IdsOK(tx.challenges) /\ RowsStay

\* Before the first version there are no rows.
FirstOK ==
  Version = 0 => \A c \in ChallengeSlugs : challenges[c] = None

\* What a page says of a challenge is its row's id.
PageOK ==
  page # None =>
    /\ page.phase = "lessons" => page.lessons = {}
    /\ \A c \in ChallengeSlugs : page.place[c] # None =>
         challenges[c] # None /\ page.id[c] = challenges[c].id

SubmittedOK ==
  \A s \in submitted : challenges[s.slug] # None /\ challenges[s.slug].id = s.id

ContentInv ==
  /\ TypeOK
  /\ TxInv
  /\ FirstOK
  /\ LiveIsPublished
  /\ IdsOK(challenges)
  /\ PageOK
  /\ SubmittedOK

-----------------------------------------------------------------------------
(* Documents and rows.                                                      *)

\* What is known of a document.
LEMMA DocumentFacts ==
  ASSUME NEW d \in Documents
  PROVE  /\ d.lessons \in SUBSET LessonSlugs
         /\ d.place \in [ChallengeSlugs -> LessonSlugs \cup {Final, None}]
         /\ \A c \in ChallengeSlugs : d.place[c] \in d.lessons \cup {Final, None}
         /\ \A b, c \in ChallengeSlugs : d.place[b] = Final /\ d.place[c] = Final => b = c
<1> DEFINE finals == {c \in ChallengeSlugs : d.place[c] = Final}
<1>1. IsFiniteSet(finals) /\ Cardinality(finals) = 1
  BY ContentAssumption, FS_Subset DEF Documents
<1>2. PICK f : finals = {f}
  BY <1>1, FS_Singleton
<1>3. \A b, c \in finals : b = c
  BY <1>2
<1> QED
  BY <1>3 DEF Documents

\* A set whose members are all the same has at most one.
LEMMA AtMostOne ==
  ASSUME NEW S, IsFiniteSet(S), \A x, y \in S : x = y
  PROVE  Cardinality(S) <= 1
<1>1. CASE S = {}
  BY <1>1, FS_EmptySet
<1>2. CASE S # {}
  <2>1. PICK x \in S : S = {x}
    BY <1>2
  <2> QED
    BY <2>1, FS_Singleton
<1> QED
  BY <1>1, <1>2

\* An archived row is there if it was, under its id, and it is not live.
LEMMA ArchivedRow ==
  ASSUME NEW row \in Challenge \cup {None}
  PROVE  /\ Archived(row) \in Challenge \cup {None}
         /\ Archived(row) = None <=> row = None
         /\ row # None => Archived(row).id = row.id
         /\ ~ Live(Archived(row))
<1>1. CASE row = None
  BY <1>1 DEF Archived, Live
<1>2. CASE row \in Challenge
  <2>1. row # None
    BY <1>2, NoneAssumption
  <2>2. Archived(row) = [row EXCEPT !.archived = TRUE]
    BY <2>1 DEF Archived
  <2>3. Archived(row) \in Challenge /\ Archived(row).id = row.id /\ Archived(row).archived = TRUE
    BY <1>2, <2>2 DEF Challenge
  <2> QED
    BY <2>1, <2>3, NoneAssumption DEF Live
<1> QED
  BY <1>1, <1>2

\* The same of a lesson's row.
LEMMA ArchivedLesson ==
  ASSUME NEW row \in Lesson \cup {None}
  PROVE  Archived(row) \in Lesson \cup {None} /\ ~ Live(Archived(row))
<1>1. CASE row = None
  BY <1>1 DEF Archived, Live
<1>2. CASE row \in Lesson
  <2>1. row # None /\ Archived(row) = [row EXCEPT !.archived = TRUE]
    BY <1>2, NoneAssumption DEF Archived
  <2>2. Archived(row) \in Lesson /\ Archived(row).archived = TRUE
    BY <1>2, <2>1 DEF Lesson
  <2> QED
    BY <2>2 DEF Live
<1> QED
  BY <1>1, <1>2

\* A transaction with some of its fields replaced, in one place.
LEMMA TxFields ==
  ASSUME NEW t \in Transactions
  PROVE  /\ t.doc \in Documents
         /\ t.phase \in {"challenges", "lessons", "upserts"}
         /\ t.todo \in SUBSET (LessonSlugs \cup {Final})
         /\ t.filling \in SUBSET ChallengeSlugs
         /\ t.lessons \in LessonRows
         /\ t.challenges \in ChallengeRows
         /\ t # None
BY NoneAssumption DEF Transactions

\* Only the transaction moved: all that is not about it stays.
LEMMA OnlyTx ==
  ASSUME ContentInv, UNCHANGED <<lessons, challenges, published, lastId, page, submitted>>,
         tx' \in Transactions \cup {None}, TxInv'
  PROVE  ContentInv'
BY DEF ContentInv, TypeOK, FirstOK, LiveIsPublished, IdsOK, PageOK, SubmittedOK, Version, Live

-----------------------------------------------------------------------------
(* The statements of a publish.                                             *)

\* A publish begins with the rows as they are and its whole document to write.
LEMMA BeginInv ==
  ASSUME ContentInv, NEW d \in Documents, Begin(d)
  PROVE  ContentInv'
<1>1. tx' = [doc |-> d, phase |-> "challenges", todo |-> d.lessons \cup {Final}, filling |-> {},
             lessons |-> lessons, challenges |-> challenges]
  BY DEF Begin
<1>2. tx' \in Transactions
  BY <1>1, DocumentFacts DEF Transactions, ContentInv, TypeOK
<1>3. /\ tx'.doc = d /\ tx'.phase = "challenges" /\ tx'.todo = d.lessons \cup {Final}
      /\ tx'.filling = {} /\ tx'.lessons = lessons /\ tx'.challenges = challenges
  BY <1>1
<1>4. UNCHANGED <<lessons, challenges, published, lastId, page, submitted>>
  BY DEF Begin
<1>5. TodoOK'
  BY <1>3, <1>4 DEF TodoOK, Begin, Version, ContentInv, TypeOK
<1>6. LessonsOK'
  BY <1>3 DEF LessonsOK
<1>7. ChallengesOK'
  BY <1>3, <1>4 DEF ChallengesOK, Written
<1>8. IdsOK(tx.challenges)' /\ RowsStay'
  BY <1>3, <1>4 DEF IdsOK, RowsStay, ContentInv
<1> QED
  BY <1>2, <1>4, <1>5, <1>6, <1>7, <1>8, OnlyTx DEF TxInv

\* Challenges that left the document are archived.
LEMMA ArchiveChallengesInv ==
  ASSUME ContentInv, ArchiveChallenges
  PROVE  ContentInv'
<1> DEFINE rows == [c \in ChallengeSlugs |->
             IF tx.doc.place[c] = None THEN Archived(tx.challenges[c]) ELSE tx.challenges[c]]
<1>1. /\ tx \in Transactions /\ tx.phase = "challenges"
      /\ TodoOK /\ LessonsOK /\ ChallengesOK /\ IdsOK(tx.challenges) /\ RowsStay
  BY DEF ArchiveChallenges, InTx, ContentInv, TypeOK, TxInv
<1>2. tx' = [tx EXCEPT !.phase = "lessons", !.challenges = rows]
  BY DEF ArchiveChallenges
<1>3. \A c \in ChallengeSlugs : tx.challenges[c] \in Challenge \cup {None}
  BY <1>1, TxFields DEF ChallengeRows
<1>4. rows \in ChallengeRows
  BY <1>3, ArchivedRow DEF ChallengeRows
<1>5. \A c \in ChallengeSlugs :
        /\ rows[c] = None <=> tx.challenges[c] = None
        /\ rows[c] # None => rows[c].id = tx.challenges[c].id
        /\ tx.doc.place[c] = None => ~ Live(rows[c])
        /\ Live(rows[c]) => rows[c] = tx.challenges[c]
  BY <1>3, ArchivedRow
<1> HIDE DEF rows
<1>6. /\ tx' \in Transactions /\ tx'.phase = "lessons" /\ tx'.challenges = rows
      /\ tx'.doc = tx.doc /\ tx'.todo = tx.todo /\ tx'.filling = tx.filling
      /\ tx'.lessons = tx.lessons
  BY <1>1, <1>2, <1>4 DEF Transactions
<1>7. UNCHANGED <<lessons, challenges, published, lastId, page, submitted>>
  BY DEF ArchiveChallenges
<1>8. TodoOK'
  BY <1>1, <1>6, <1>7 DEF TodoOK, Version
<1>9. LessonsOK'
  BY <1>1, <1>6, <1>7 DEF LessonsOK, Version
<1>10. ChallengesOK'
  BY <1>1, <1>5, <1>6, <1>7 DEF ChallengesOK, Written
<1>11. IdsOK(tx.challenges)' /\ RowsStay'
  BY <1>1, <1>5, <1>6, <1>7 DEF IdsOK, RowsStay
<1> QED
  BY <1>6, <1>7, <1>8, <1>9, <1>10, <1>11, OnlyTx DEF TxInv

\* Lessons that left the document are archived.
LEMMA ArchiveLessonsInv ==
  ASSUME ContentInv, ArchiveLessons
  PROVE  ContentInv'
<1> DEFINE rows == [l \in LessonSlugs |->
             IF l \notin tx.doc.lessons THEN Archived(tx.lessons[l]) ELSE tx.lessons[l]]
<1>1. /\ tx \in Transactions /\ tx.phase = "lessons"
      /\ TodoOK /\ LessonsOK /\ ChallengesOK /\ IdsOK(tx.challenges) /\ RowsStay
  BY DEF ArchiveLessons, InTx, ContentInv, TypeOK, TxInv
<1>2. tx' = [tx EXCEPT !.phase = "upserts", !.lessons = rows]
  BY DEF ArchiveLessons
<1>3. \A l \in LessonSlugs : tx.lessons[l] \in Lesson \cup {None}
  BY <1>1, TxFields DEF LessonRows
<1>4. rows \in LessonRows /\ \A l \in LessonSlugs \ tx.doc.lessons : ~ Live(rows[l])
  BY <1>3, ArchivedLesson DEF LessonRows
<1> HIDE DEF rows
<1>5. /\ tx' \in Transactions /\ tx'.phase = "upserts" /\ tx'.challenges = tx.challenges
      /\ tx'.doc = tx.doc /\ tx'.todo = tx.todo /\ tx'.filling = tx.filling
      /\ tx'.lessons = rows
  BY <1>1, <1>2, <1>4 DEF Transactions
<1>6. UNCHANGED <<lessons, challenges, published, lastId, page, submitted>>
  BY DEF ArchiveLessons
<1>7. tx.todo = tx.doc.lessons \cup {Final} /\ tx.filling = {}
  BY <1>1 DEF TodoOK
<1>8. TodoOK'
  BY <1>1, <1>5, <1>6, <1>7 DEF TodoOK, Version
<1>9. LessonsOK'
  BY <1>4, <1>5, <1>7 DEF LessonsOK
<1>10. \A c \in ChallengeSlugs : ~ Written(c) /\ ~ Written(c)'
  BY <1>1, <1>5, <1>7, TxFields, DocumentFacts DEF Written
<1>11. ChallengesOK'
  BY <1>1, <1>5, <1>6, <1>10 DEF ChallengesOK
<1>12. IdsOK(tx.challenges)' /\ RowsStay'
  BY <1>1, <1>5, <1>6 DEF IdsOK, RowsStay
<1> QED
  BY <1>5, <1>6, <1>8, <1>9, <1>11, <1>12, OnlyTx DEF TxInv

\* A lesson is upserted, and its challenges are next.
LEMMA UpsertLessonInv ==
  ASSUME ContentInv, NEW l \in LessonSlugs, UpsertLesson(l)
  PROVE  ContentInv'
<1> DEFINE row == [archived |-> FALSE, content |-> Version + 1]
           rows == [tx.lessons EXCEPT ![l] = row]
<1>1. /\ tx \in Transactions /\ tx.phase = "upserts" /\ tx.filling = {} /\ l \in tx.todo \ {Final}
      /\ TodoOK /\ LessonsOK /\ ChallengesOK /\ IdsOK(tx.challenges) /\ RowsStay
  BY DEF UpsertLesson, InTx, ContentInv, TypeOK, TxInv
<1>2. tx' = [tx EXCEPT !.todo = tx.todo \ {l}, !.filling = ChallengesAt(tx.doc, l), !.lessons = rows]
  BY DEF UpsertLesson
<1>3. row \in Lesson
  <2>1. Version \in Nat /\ Version + 1 \in 1..MaxVersion
    BY <1>1, ContentAssumption DEF TodoOK, Version, ContentInv, TypeOK
  <2> QED
    BY <2>1 DEF Lesson
<1>4. rows \in LessonRows /\ rows[l] = row /\ \A k \in LessonSlugs \ {l} : rows[k] = tx.lessons[k]
  BY <1>1, <1>3, TxFields DEF LessonRows
<1>5. ChallengesAt(tx.doc, l) \subseteq ChallengeSlugs
      /\ \A c \in ChallengeSlugs : c \in ChallengesAt(tx.doc, l) <=> tx.doc.place[c] = l
  BY DEF ChallengesAt
<1> HIDE DEF rows, row
<1>6. /\ tx' \in Transactions /\ tx'.phase = "upserts" /\ tx'.challenges = tx.challenges
      /\ tx'.doc = tx.doc /\ tx'.todo = tx.todo \ {l} /\ tx'.filling = ChallengesAt(tx.doc, l)
      /\ tx'.lessons = rows
  BY <1>1, <1>2, <1>4, <1>5 DEF Transactions
<1>7. UNCHANGED <<lessons, challenges, published, lastId, page, submitted>>
  BY DEF UpsertLesson
<1>8. TodoOK'
  BY <1>1, <1>5, <1>6, <1>7 DEF TodoOK, Version
<1>9. LessonsOK'
  BY <1>1, <1>4, <1>6, <1>7 DEF LessonsOK, TodoOK, Version, row
<1>10. \A c \in ChallengeSlugs : Written(c)' <=> Written(c)
  BY <1>1, <1>5, <1>6 DEF Written
<1>11. ChallengesOK'
  BY <1>1, <1>6, <1>7, <1>10 DEF ChallengesOK, Version
<1>12. IdsOK(tx.challenges)' /\ RowsStay'
  BY <1>1, <1>6, <1>7 DEF IdsOK, RowsStay
<1> QED
  BY <1>6, <1>7, <1>8, <1>9, <1>11, <1>12, OnlyTx DEF TxInv

\* A challenge is upserted: in its row if it has one, whatever that was, and
\* in a new one otherwise.
LEMMA UpsertInv ==
  ASSUME ContentInv, NEW c \in ChallengeSlugs, NEW done \in SUBSET {Final},
         tx \in Transactions, tx.phase = "upserts", Upsert(c, done),
         \/ done = {} /\ c \in tx.filling
         \/ done = {Final} /\ tx.todo = {Final} /\ tx.filling = {} /\ tx.doc.place[c] = Final
  PROVE  ContentInv'
<1> DEFINE row == Upserted(c)
           rows == [tx.challenges EXCEPT ![c] = row]
<1>1. /\ TodoOK /\ LessonsOK /\ ChallengesOK /\ IdsOK(tx.challenges) /\ RowsStay
      /\ Version \in Nat /\ lastId \in 0..MaxIds
  BY TxFields DEF ContentInv, TypeOK, TxInv, Version
<1>2. tx' = [tx EXCEPT !.challenges = rows, !.filling = tx.filling \ {c}, !.todo = tx.todo \ done]
  BY DEF Upsert
<1>3. lastId < MaxIds /\ lastId' = IF tx.challenges[c] = None THEN lastId + 1 ELSE lastId
  BY DEF Upsert
<1>4. tx.doc.place[c] \in tx.doc.lessons \cup {Final} /\ tx.doc.place[c] \in LessonSlugs \cup {Final}
  BY <1>1, TxFields, DocumentFacts, ContentAssumption DEF TodoOK
<1>5. tx.challenges \in ChallengeRows /\ tx.challenges[c] \in Challenge \cup {None}
  BY TxFields DEF ChallengeRows
<1>6. /\ row \in Challenge /\ row # None /\ Live(row)
      /\ row.place = tx.doc.place[c] /\ row.content = Version + 1
      /\ row.id = IF tx.challenges[c] = None THEN lastId + 1 ELSE tx.challenges[c].id
  <2> DEFINE id == IF tx.challenges[c] = None THEN lastId + 1 ELSE tx.challenges[c].id
  <2>1. row = [id |-> id, place |-> tx.doc.place[c], archived |-> FALSE, content |-> Version + 1]
    BY DEF Upserted
  <2>2. id \in 1..MaxIds
    BY <1>1, <1>3, <1>5, ContentAssumption DEF Challenge
  <2> HIDE DEF row, id
  <2>3. Version + 1 \in 1..MaxVersion
    BY <1>1, ContentAssumption DEF TodoOK
  <2>4. row \in Challenge
    BY <1>4, <2>1, <2>2, <2>3 DEF Challenge
  <2>5. row # None
    BY <2>4, NoneAssumption
  <2>6. row.archived = FALSE /\ row.place = tx.doc.place[c] /\ row.content = Version + 1 /\ row.id = id
    BY <2>1
  <2> QED
    BY <2>4, <2>5, <2>6 DEF Live, id
<1> HIDE DEF row
<1>7. rows \in ChallengeRows /\ rows[c] = row
      /\ \A d \in ChallengeSlugs \ {c} : rows[d] = tx.challenges[d]
  BY <1>5, <1>6 DEF ChallengeRows
<1> HIDE DEF rows
<1>8. /\ tx' \in Transactions /\ tx'.phase = "upserts" /\ tx'.challenges = rows
      /\ tx'.doc = tx.doc /\ tx'.todo = tx.todo \ done /\ tx'.filling = tx.filling \ {c}
      /\ tx'.lessons = tx.lessons
  BY <1>2, <1>7 DEF Transactions
<1>9. UNCHANGED <<lessons, challenges, published, page, submitted>>
  BY DEF Upsert
<1>10. TodoOK'
  BY <1>1, <1>8, <1>9 DEF TodoOK, Version
<1>11. LessonsOK'
  BY <1>1, <1>8, <1>9, ContentAssumption DEF LessonsOK, Version
<1>12. \A d \in ChallengeSlugs \ {c} : Written(d)' <=> Written(d)
  <2> SUFFICES ASSUME NEW d \in ChallengeSlugs \ {c} PROVE Written(d)' <=> Written(d)
    OBVIOUS
  <2>1. CASE done = {}
    BY <1>8, <2>1 DEF Written
  <2>2. CASE done = {Final} /\ tx.todo = {Final} /\ tx.filling = {} /\ tx.doc.place[c] = Final
    <3>1. tx.doc.place[d] # Final
      BY <2>2, TxFields, DocumentFacts
    <3> QED
      BY <1>8, <2>2, <3>1 DEF Written
  <2> QED
    BY <2>1, <2>2
<1>13. Written(c)'
  BY <1>1, <1>4, <1>8, ContentAssumption DEF Written, TodoOK
<1>14. ChallengesOK'
  <2> SUFFICES ASSUME NEW d \in ChallengeSlugs
               PROVE  /\ tx.doc.place[d] = None => ~ Live(rows[d])
                      /\ Written(d)' => /\ Live(rows[d])
                                        /\ rows[d].place = tx.doc.place[d]
                                        /\ rows[d].content = Version + 1
                      /\ ~ Written(d)' /\ Live(rows[d]) => rows[d] = challenges[d]
    BY <1>8, <1>9 DEF ChallengesOK, Live, Version
  <2>1. CASE d = c
    BY <1>4, <1>6, <1>7, <1>13, <2>1, ContentAssumption
  <2>2. CASE d # c
    BY <1>1, <1>7, <1>12, <2>2 DEF ChallengesOK
  <2> QED
    BY <2>1, <2>2
<1>15. IdsOK(tx.challenges)'
  <2> SUFFICES ASSUME NEW d \in ChallengeSlugs, rows[d] # None
               PROVE  /\ rows[d].id <= lastId'
                      /\ \A e \in ChallengeSlugs \ {d} : rows[e] # None => rows[e].id # rows[d].id
    BY <1>8 DEF IdsOK
  <2>1. \A e \in ChallengeSlugs : tx.challenges[e] # None =>
          tx.challenges[e].id \in Nat /\ tx.challenges[e].id <= lastId
    BY <1>1, <1>5 DEF IdsOK, ChallengeRows, Challenge
  <2>2. CASE tx.challenges[c] = None
    BY <1>1, <1>3, <1>6, <1>7, <2>1, <2>2 DEF IdsOK
  <2>3. CASE tx.challenges[c] # None
    BY <1>1, <1>3, <1>6, <1>7, <2>1, <2>3 DEF IdsOK
  <2> QED
    BY <2>2, <2>3
<1>16. RowsStay'
  BY <1>1, <1>6, <1>7, <1>8, <1>9 DEF RowsStay
<1>17. IdsOK(challenges)' /\ lastId' \in 0..MaxIds
  <2>1. \A d \in ChallengeSlugs : challenges[d] # None => challenges[d].id \in Nat
    BY DEF ContentInv, TypeOK, ChallengeRows, Challenge
  <2> QED
    BY <1>1, <1>3, <1>9, <2>1, ContentAssumption DEF ContentInv, IdsOK
<1>18. TxInv'
  BY <1>8, <1>10, <1>11, <1>14, <1>15, <1>16 DEF TxInv
<1> QED
  BY <1>8, <1>9, <1>17, <1>18 DEF ContentInv, TypeOK, FirstOK, LiveIsPublished, PageOK,
     SubmittedOK, Version, Live

\* The rows of the transaction become those of the variant.
LEMMA CommitInv ==
  ASSUME ContentInv, Commit
  PROVE  ContentInv'
<1>1. /\ tx \in Transactions /\ tx.phase = "upserts" /\ tx.todo = {} /\ tx.filling = {}
      /\ TodoOK /\ LessonsOK /\ ChallengesOK /\ IdsOK(tx.challenges) /\ RowsStay
  BY DEF Commit, InTx, ContentInv, TypeOK, TxInv
<1>2. /\ lessons' = tx.lessons /\ challenges' = tx.challenges /\ tx' = None
      /\ published' = Append(published, tx.doc)
      /\ UNCHANGED <<lastId, page, submitted>>
  BY DEF Commit
<1>3. /\ published \in Seq(Documents) /\ tx.doc \in Documents /\ Version \in Nat
      /\ Version < MaxVersion
  BY <1>1, TxFields DEF ContentInv, TypeOK, Version, TodoOK
<1>4. /\ published' \in Seq(Documents) /\ Version' = Version + 1
      /\ published'[Version'] = tx.doc
  BY <1>2, <1>3 DEF Version
<1>5. tx.lessons \in LessonRows /\ tx.challenges \in ChallengeRows
  BY <1>1, TxFields
<1>6. TypeOK'
  BY <1>2, <1>3, <1>4, <1>5, ContentAssumption DEF ContentInv, TypeOK
<1>7. LiveIsPublished'
  <2>1. \A c \in ChallengeSlugs : tx.doc.place[c] # None => Written(c)
    BY <1>1 DEF Written
  <2>2. \A c \in ChallengeSlugs :
          /\ tx.doc.place[c] = IF Live(challenges'[c]) THEN challenges'[c].place ELSE None
          /\ Live(challenges'[c]) => challenges'[c].content = Version'
    BY <1>1, <1>2, <1>4, <2>1 DEF ChallengesOK
  <2>3. tx.doc.lessons \subseteq LessonSlugs
    BY <1>3, DocumentFacts
  <2>4. \A l \in tx.doc.lessons : lessons'[l] = [archived |-> FALSE, content |-> Version']
    BY <1>1, <1>2, <1>4, <2>3 DEF LessonsOK
  <2>5. \A l \in tx.doc.lessons : lessons'[l] \in Lesson \cup {None} /\ lessons'[l] # None
    <3>1. \A n \in 1..MaxVersion : [archived |-> FALSE, content |-> n] \in Lesson
      BY DEF Lesson
    <3>2. Version' \in 1..MaxVersion
      BY <1>3, <1>4, ContentAssumption
    <3>3. \A l \in tx.doc.lessons : lessons'[l] \in Lesson
      BY <2>4, <3>1, <3>2
    <3> QED
      BY <3>3, NoneAssumption
  <2>6. \A l \in tx.doc.lessons : Live(lessons'[l]) /\ lessons'[l].content = Version'
    BY <2>4, <2>5 DEF Live
  <2>7. tx.doc.lessons = {l \in LessonSlugs : Live(lessons'[l])}
    BY <1>1, <1>2, <2>3, <2>6 DEF LessonsOK
  <2> QED
    BY <1>4, <2>2, <2>6, <2>7 DEF LiveIsPublished, Live
<1>8. FirstOK'
  BY <1>3, <1>4 DEF FirstOK
<1>9. IdsOK(challenges)'
  BY <1>1, <1>2 DEF IdsOK
<1>10. PageOK' /\ SubmittedOK'
  <2>1. \A s \in submitted : s.slug \in ChallengeSlugs
    BY DEF ContentInv, TypeOK
  <2> QED
    BY <1>1, <1>2, <2>1 DEF ContentInv, PageOK, SubmittedOK, RowsStay
<1> QED
  BY <1>2, <1>6, <1>7, <1>8, <1>9, <1>10 DEF ContentInv, TxInv

\* Every statement of a publish preserves the invariant.
LEMMA PublishInv == ContentInv /\ PublishStep => ContentInv'
<1> SUFFICES ASSUME ContentInv, PublishStep PROVE ContentInv'
  OBVIOUS
<1>1. ASSUME NEW c \in ChallengeSlugs, UpsertChallenge(c) PROVE ContentInv'
  <2>1. tx \in Transactions /\ tx.phase = "upserts" /\ c \in tx.filling /\ Upsert(c, {})
    BY <1>1 DEF UpsertChallenge, InTx, ContentInv, TypeOK
  <2> QED
    BY <2>1, UpsertInv
<1>2. ASSUME NEW c \in ChallengeSlugs, UpsertFinal(c) PROVE ContentInv'
  <2>1. /\ tx \in Transactions /\ tx.phase = "upserts" /\ Upsert(c, {Final})
        /\ tx.todo = {Final} /\ tx.filling = {} /\ tx.doc.place[c] = Final
    BY <1>2 DEF UpsertFinal, FinalIsNext, InTx, ContentInv, TypeOK
  <2> QED
    BY <2>1, UpsertInv
<1>3. CASE Rollback
  BY <1>3, OnlyTx DEF Rollback, TxInv
<1> QED
  BY <1>1, <1>2, <1>3, BeginInv, ArchiveChallengesInv, ArchiveLessonsInv, UpsertLessonInv,
     CommitInv DEF PublishStep

-----------------------------------------------------------------------------
(* Pages and submissions.                                                   *)

\* Only the page or the submissions moved.
LEMMA OnlyPage ==
  ASSUME ContentInv, UNCHANGED <<lessons, challenges, published, tx, lastId>>,
         TypeOK', PageOK', SubmittedOK'
  PROVE  ContentInv'
BY DEF ContentInv, TxInv, TodoOK, LessonsOK, ChallengesOK, Written, RowsStay, FirstOK,
   LiveIsPublished, IdsOK, Version, Live

\* Every statement of a page, and a submission, preserves the invariant.
LEMMA ReadInv == ContentInv /\ ReadStep => ContentInv'
<1> SUFFICES ASSUME ContentInv, ReadStep PROVE ContentInv'
  OBVIOUS
<1>1. CASE ReadVersion
  <2> DEFINE new == [phase |-> "lessons", version |-> Version, lessons |-> {},
                     place |-> [c \in ChallengeSlugs |-> None],
                     id |-> [c \in ChallengeSlugs |-> None]]
  <2>1. page' = new /\ new \in Pages
    BY <1>1 DEF ReadVersion, Pages, ContentInv, TypeOK, Version
  <2>2. UNCHANGED <<lessons, challenges, published, tx, lastId, submitted>>
    BY <1>1 DEF ReadVersion
  <2>3. TypeOK'
    BY <2>1, <2>2 DEF ContentInv, TypeOK, Version
  <2>4. PageOK'
    BY <2>1 DEF PageOK
  <2> QED
    BY <2>2, <2>3, <2>4, OnlyPage DEF ContentInv, SubmittedOK
<1>2. CASE ReadLessons
  <2> DEFINE live == {l \in LessonSlugs : Live(lessons[l])}
  <2>1. /\ page \in Pages /\ page.lessons = {} /\ page' = [page EXCEPT !.phase = "challenges", !.lessons = live]
        /\ page.place \in [ChallengeSlugs -> page.lessons \cup {Final, None}]
        /\ \A c \in ChallengeSlugs : page.place[c] # None =>
             challenges[c] # None /\ page.id[c] = challenges[c].id
    BY <1>2 DEF ReadLessons, ContentInv, TypeOK, PageOK
  <2>2. /\ page' \in Pages /\ page'.phase = "challenges" /\ page'.lessons = live
        /\ page'.place = page.place /\ page'.id = page.id
    BY <2>1 DEF Pages
  <2>3. UNCHANGED <<lessons, challenges, published, tx, lastId, submitted>>
    BY <1>2 DEF ReadLessons
  <2>4. page'.place \in [ChallengeSlugs -> page'.lessons \cup {Final, None}]
    BY <2>1, <2>2
  <2>5. TypeOK'
    BY <2>2, <2>3, <2>4 DEF ContentInv, TypeOK, Version
  <2>6. PageOK'
    BY <2>1, <2>2, <2>3 DEF PageOK
  <2> QED
    BY <2>3, <2>5, <2>6, OnlyPage DEF ContentInv, SubmittedOK
<1>3. CASE ReadChallenges
  <2> DEFINE places == [c \in ChallengeSlugs |-> IF Returned(c) THEN challenges[c].place ELSE None]
             ids == [c \in ChallengeSlugs |-> IF Returned(c) THEN challenges[c].id ELSE None]
  <2>1. page \in Pages /\ page' = [page EXCEPT !.phase = "done", !.place = places, !.id = ids]
    BY <1>3 DEF ReadChallenges, ContentInv, TypeOK
  <2>2. \A c \in ChallengeSlugs : Returned(c) =>
          /\ challenges[c] \in Challenge /\ challenges[c] # None
          /\ challenges[c].place \in page.lessons \cup {Final}
    BY DEF Returned, Live, ContentInv, TypeOK, ChallengeRows
  <2>3. /\ places \in [ChallengeSlugs -> page.lessons \cup {Final, None}]
        /\ ids \in [ChallengeSlugs -> 1..MaxIds \cup {None}]
        /\ page.lessons \in SUBSET LessonSlugs
    BY <2>1, <2>2 DEF Challenge, Pages
  <2>4. \A c \in ChallengeSlugs : places[c] # None =>
          challenges[c] # None /\ ids[c] = challenges[c].id
    BY <2>2
  <2> HIDE DEF places, ids
  <2>5. /\ page' \in Pages /\ page'.phase = "done" /\ page'.lessons = page.lessons
        /\ page'.place = places /\ page'.id = ids
    BY <2>1, <2>3 DEF Pages
  <2>6. UNCHANGED <<lessons, challenges, published, tx, lastId, submitted>>
    BY <1>3 DEF ReadChallenges
  <2>7. TypeOK'
    BY <2>3, <2>5, <2>6 DEF ContentInv, TypeOK, Version
  <2>8. PageOK'
    BY <2>4, <2>5, <2>6 DEF PageOK
  <2> QED
    BY <2>6, <2>7, <2>8, OnlyPage DEF ContentInv, SubmittedOK
<1>4. CASE Leave
  <2>1. TypeOK' /\ PageOK' /\ SubmittedOK'
    BY <1>4 DEF Leave, ContentInv, TypeOK, PageOK, SubmittedOK, Version
  <2> QED
    BY <1>4, <2>1, OnlyPage DEF Leave
<1>5. ASSUME NEW c \in ChallengeSlugs, Submit(c) PROVE ContentInv'
  <2>1. /\ submitted' = submitted \cup {[slug |-> c, id |-> page.id[c]]}
        /\ UNCHANGED <<lessons, challenges, published, tx, lastId, page>>
        /\ page # None /\ page.place[c] # None
    BY <1>5 DEF Submit
  <2>2. challenges[c] # None /\ page.id[c] = challenges[c].id
    BY <2>1 DEF ContentInv, PageOK
  <2>3. page.id[c] \in 1..MaxIds
    BY <2>2 DEF ContentInv, TypeOK, ChallengeRows, Challenge
  <2>4. TypeOK'
    BY <2>1, <2>3 DEF ContentInv, TypeOK, Version
  <2>5. PageOK'
    BY <2>1 DEF ContentInv, PageOK
  <2>6. SubmittedOK'
    BY <2>1, <2>2 DEF ContentInv, SubmittedOK
  <2> QED
    BY <2>1, <2>4, <2>5, <2>6, OnlyPage
<1> QED
  BY <1>1, <1>2, <1>3, <1>4, <1>5 DEF ReadStep

\* Nothing was published yet.
LEMMA ContentInitInv == Init => ContentInv
<1> SUFFICES ASSUME Init PROVE ContentInv
  OBVIOUS
<1>1. Version = 0
  BY DEF Init, Version
<1>2. TypeOK
  BY <1>1, ContentAssumption DEF Init, TypeOK, LessonRows, ChallengeRows
<1> QED
  BY <1>1, <1>2 DEF Init, ContentInv, TxInv, FirstOK, LiveIsPublished, IdsOK, PageOK, SubmittedOK

\* The invariant is inductive, and so holds of every reachable state.
LEMMA ContentInvariance == Spec => []ContentInv
<1>1. ASSUME ContentInv, UNCHANGED vars PROVE ContentInv'
  <2>1. TypeOK' /\ PageOK' /\ SubmittedOK'
    BY <1>1 DEF vars, ContentInv, TypeOK, PageOK, SubmittedOK, Version
  <2> QED
    BY <1>1, <2>1, OnlyPage DEF vars
<1>2. ContentInv /\ [Next]_vars => ContentInv'
  BY <1>1, PublishInv, ReadInv DEF Next
<1> QED
  BY <1>2, ContentInitInv, PTL DEF Spec

-----------------------------------------------------------------------------
(* What a publish promises.                                                 *)

\* The rows, the transaction, the page and the submissions keep their types.
THEOREM ContentTypeCorrect == Spec => []TypeOK
BY ContentInvariance, PTL DEF ContentInv

\* What is live is the last document, to the last slug, place and content,
\* whatever was published before it and wherever publishes broke off.
THEOREM LiveRowsArePublished == Spec => []LiveIsPublished
BY ContentInvariance, PTL DEF ContentInv

\* No statement of a publish leaves two live final challenges, so the index
\* that forbids it refuses no valid document.
THEOREM IndexRefusesNothing == Spec => []NeverTwoFinals
<1>1. ContentInv => NeverTwoFinals
  <2> SUFFICES ASSUME ContentInv, tx # None
               PROVE  Cardinality(LiveFinals(tx.challenges)) <= 1
    BY DEF NeverTwoFinals
  <2>1. /\ tx \in Transactions /\ TodoOK /\ ChallengesOK
    BY DEF ContentInv, TypeOK, TxInv
  <2>2. IsFiniteSet(LiveFinals(tx.challenges))
    BY ContentAssumption, FS_Subset DEF LiveFinals
  <2> SUFFICES ASSUME NEW b \in LiveFinals(tx.challenges), NEW c \in LiveFinals(tx.challenges)
               PROVE  b = c
    BY <2>2, AtMostOne
  <2>3. \A d \in {b, c} :
          d \in ChallengeSlugs /\ Live(tx.challenges[d]) /\ tx.challenges[d].place = Final
    BY DEF LiveFinals
  <2>4. CASE tx.phase = "upserts" /\ Final \notin tx.todo
    <3>1. tx.todo = {} /\ tx.filling = {}
      BY <2>1, <2>4 DEF TodoOK
    <3>2. \A d \in {b, c} : tx.doc.place[d] = Final
      BY <2>1, <2>3, <2>4, <3>1 DEF ChallengesOK, Written
    <3> QED
      BY <2>1, <2>3, <3>2, TxFields, DocumentFacts
  <2>5. CASE ~ (tx.phase = "upserts" /\ Final \notin tx.todo)
    <3>1. \A d \in {b, c} : ~ Written(d)
      BY <2>1, <2>3, <2>5 DEF ChallengesOK, Written
    <3>2. \A d \in {b, c} : Live(challenges[d]) /\ challenges[d].place = Final
      BY <2>1, <2>3, <3>1 DEF ChallengesOK
    <3>3. Version > 0 /\ Version \in Nat
      BY <2>3, <3>2 DEF ContentInv, FirstOK, Live, TypeOK, Version
    <3>4. published[Version] \in Documents
      BY <3>3 DEF ContentInv, TypeOK, Version
    <3>5. \A d \in {b, c} : published[Version].place[d] = Final
      BY <2>3, <3>2, <3>3 DEF ContentInv, LiveIsPublished
    <3> QED
      BY <2>3, <3>4, <3>5, DocumentFacts
  <2> QED
    BY <2>4, <2>5
<1> QED
  BY <1>1, ContentInvariance, PTL

\* A submission stays with the challenge it solved, and with no other, through
\* every publish that moves, archives or revives it.
THEOREM HistoryIsKept == Spec => []HistoryStays
<1>1. ContentInv => HistoryStays
  <2> SUFFICES ASSUME ContentInv, NEW s \in submitted
               PROVE  /\ challenges[s.slug] # None
                      /\ challenges[s.slug].id = s.id
                      /\ \A c \in ChallengeSlugs \ {s.slug} :
                           challenges[c] # None => challenges[c].id # s.id
    BY DEF HistoryStays
  <2>1. s.slug \in ChallengeSlugs
    BY DEF ContentInv, TypeOK
  <2> QED
    BY <2>1 DEF ContentInv, SubmittedOK, IdsOK
<1> QED
  BY <1>1, ContentInvariance, PTL

-----------------------------------------------------------------------------
(* Pages that publishes tear.                                               *)

\* Versions stay what they were.
LEMMA VersionsStay ==
  ASSUME ContentInv, [Next]_vars
  PROVE  /\ Version \in Nat /\ Version' \in Nat /\ Version <= Version'
         /\ \A n \in 1..Version : published'[n] = published[n]
<1>1. published \in Seq(Documents)
  BY DEF ContentInv, TypeOK
<1>2. CASE Commit
  <2>1. tx \in Transactions /\ published' = Append(published, tx.doc)
    BY <1>2 DEF Commit, InTx, ContentInv, TypeOK
  <2>2. tx.doc \in Documents
    BY <2>1, TxFields
  <2> QED
    BY <1>1, <2>1, <2>2 DEF Version
<1>3. CASE UNCHANGED published
  BY <1>1, <1>3 DEF Version
<1> QED
  BY <1>2, <1>3 DEF Next, PublishStep, Begin, ArchiveChallenges, ArchiveLessons, UpsertLesson,
     UpsertChallenge, UpsertFinal, Upsert, Rollback, ReadStep, ReadVersion, ReadLessons,
     ReadChallenges, Leave, Submit, vars

\* A page moves by a query of its own, or is closed.
LEMMA PageStep ==
  ASSUME [Next]_vars
  PROVE  page' = page \/ ReadVersion \/ ReadLessons \/ ReadChallenges \/ page' = None
BY DEF Next, PublishStep, Begin, ArchiveChallenges, ArchiveLessons, UpsertLesson, UpsertChallenge,
   UpsertFinal, Upsert, Commit, Rollback, ReadStep, ReadVersion, ReadLessons, ReadChallenges,
   Leave, Submit, vars

\* What a page has read so far: its version, and then the lessons of one that
\* was live since.
ReadingOK ==
  page # None =>
    /\ page.version \in 1..Version
    /\ page.phase = "challenges" =>
         \E n \in page.version..Version : page.lessons = published[n].lessons

\* A page reads what is live at each of its queries, and that was published.
LEMMA NextPageShowsPublished ==
  ASSUME ContentInv, ReadingOK, PageShowsPublished, [Next]_vars
  PROVE  ReadingOK' /\ PageShowsPublished'
<1>1. /\ Version \in Nat /\ Version' \in Nat /\ Version <= Version'
      /\ \A n \in 1..Version : published'[n] = published[n]
  BY VersionsStay
<1>2. CASE page' = None
  BY <1>2 DEF ReadingOK, PageShowsPublished
<1>3. CASE page' = page /\ page # None
  <2>1. /\ page.version \in 1..Version
        /\ \A n \in page.version..Version : n \in 1..Version /\ n \in page.version..Version'
    BY <1>1, <1>3 DEF ReadingOK
  <2>2. ReadingOK'
    BY <1>1, <1>3, <2>1 DEF ReadingOK
  <2>3. PageShowsPublished'
    <3> SUFFICES ASSUME page.phase = "done"
                 PROVE  \E n \in page.version..Version' : \E m \in n..Version' : PageIsOf(n, m)'
      BY <1>3 DEF PageShowsPublished
    <3>1. PICK n \in page.version..Version : \E m \in n..Version : PageIsOf(n, m)
      BY <1>3 DEF PageShowsPublished
    <3>2. PICK m \in n..Version : PageIsOf(n, m)
      BY <3>1
    <3>3. n \in 1..Version /\ m \in 1..Version /\ n \in page.version..Version' /\ m \in n..Version'
      BY <1>1, <2>1, <3>1, <3>2
    <3>4. PageIsOf(n, m)'
      BY <1>1, <1>3, <3>2, <3>3 DEF PageIsOf
    <3> QED
      BY <3>3, <3>4
  <2> QED
    BY <2>2, <2>3
<1>4. CASE ReadVersion
  <2>1. page'.version = Version /\ page'.phase = "lessons" /\ Version > 0 /\ UNCHANGED published
    BY <1>4 DEF ReadVersion
  <2> QED
    BY <1>1, <2>1 DEF ReadingOK, PageShowsPublished, Version
<1>5. CASE ReadLessons
  <2>1. /\ page \in Pages /\ page.version \in 1..Version /\ UNCHANGED published
        /\ page' = [page EXCEPT !.phase = "challenges", !.lessons = {l \in LessonSlugs : Live(lessons[l])}]
    BY <1>5 DEF ReadLessons, ReadingOK, ContentInv, TypeOK
  <2>2. page'.version = page.version /\ page'.phase = "challenges"
        /\ page'.lessons = {l \in LessonSlugs : Live(lessons[l])}
    BY <2>1 DEF Pages
  <2>3. page'.lessons = published[Version].lessons
    BY <1>1, <2>1, <2>2 DEF ContentInv, LiveIsPublished
  <2> QED
    BY <1>1, <2>1, <2>2, <2>3 DEF ReadingOK, PageShowsPublished, Version
<1>6. CASE ReadChallenges
  <2>1. /\ page \in Pages /\ page.phase = "challenges" /\ page.version \in 1..Version
        /\ UNCHANGED published
    BY <1>6 DEF ReadChallenges, ReadingOK, ContentInv, TypeOK
  <2>2. /\ page'.version = page.version /\ page'.phase = "done" /\ page'.lessons = page.lessons
        /\ \A c \in ChallengeSlugs :
             page'.place[c] = IF Returned(c) THEN challenges[c].place ELSE None
    BY <1>6, <2>1 DEF ReadChallenges, Pages
  <2>3. PICK n \in page.version..Version : page.lessons = published[n].lessons
    BY <1>6, <2>1 DEF ReadingOK, ReadChallenges
  <2>4. \A c \in ChallengeSlugs :
          published[Version].place[c] = IF Live(challenges[c]) THEN challenges[c].place ELSE None
    BY <1>1, <2>1 DEF ContentInv, LiveIsPublished
  <2>5. None \notin page.lessons \cup {Final}
    BY <2>1, ContentAssumption DEF Pages
  <2>6. PageIsOf(n, Version)'
    <3>1. published'[Version'] = published[Version] /\ published'[n] = published[n]
      BY <2>1 DEF Version
    <3>2. \A c \in ChallengeSlugs :
            page'.place[c] = IF published[Version].place[c] \in page.lessons \cup {Final}
                             THEN published[Version].place[c] ELSE None
      BY <2>2, <2>4, <2>5 DEF Returned
    <3> QED
      BY <2>2, <2>3, <3>1, <3>2 DEF PageIsOf
  <2>7. Version' = Version
    BY <2>1 DEF Version
  <2> QED
    BY <1>1, <2>1, <2>2, <2>3, <2>6, <2>7 DEF ReadingOK, PageShowsPublished
<1> QED
  BY <1>2, <1>3, <1>4, <1>5, <1>6, PageStep

\* However publishes and the queries of a page interleave, the page shows the
\* lessons of one published version and the challenges of that or a later one,
\* and none older than the version it was asked for.
THEOREM PagesShowVersions == Spec => []PageShowsPublished
<1>1. Init => ReadingOK /\ PageShowsPublished
  BY DEF Init, ReadingOK, PageShowsPublished
<1> QED
  BY <1>1, NextPageShowsPublished, ContentInvariance, PTL DEF Spec

-----------------------------------------------------------------------------
(* The rows implement the catalog.                                          *)

\* What rows spell, and the ids they give.
Spelled(ls, rows) ==
  [lessons |-> {l \in LessonSlugs : Live(ls[l])},
   place |-> [c \in ChallengeSlugs |-> IF Live(rows[c]) THEN rows[c].place ELSE None]]
IdsOf(rows) == [c \in ChallengeSlugs |-> IF rows[c] = None THEN None ELSE rows[c].id]

\* A row has an id, and a live one a place in the document.
LEMMA RowFacts ==
  ASSUME NEW rows \in ChallengeRows, NEW ls, NEW c \in ChallengeSlugs
  PROVE  /\ IdsOf(rows)[c] = None <=> rows[c] = None
         /\ rows[c] # None => IdsOf(rows)[c] = rows[c].id /\ rows[c].id \in 1..MaxIds
         /\ Live(rows[c]) <=> Spelled(ls, rows).place[c] # None
<1>1. rows[c] \in Challenge \cup {None}
  BY DEF ChallengeRows
<1>2. rows[c] # None => rows[c].id \in 1..MaxIds /\ rows[c].place \in LessonSlugs \cup {Final}
  BY <1>1 DEF Challenge
<1>3. None \notin 1..MaxIds /\ None \notin LessonSlugs \cup {Final}
  BY NoneAssumption, ContentAssumption
<1> QED
  BY <1>2, <1>3 DEF IdsOf, Spelled, Live

\* A commit is a publication of the whole document.
LEMMA CommitPublishes ==
  ASSUME ContentInv, Commit
  PROVE  Catalog!Next
<1>1. ContentInv'
  BY CommitInv
<1>2. /\ tx \in Transactions /\ RowsStay /\ challenges' = tx.challenges
      /\ published' = Append(published, tx.doc) /\ UNCHANGED submitted
  BY DEF Commit, InTx, ContentInv, TypeOK, TxInv
<1>3. tx.doc \in Documents /\ published \in Seq(Documents)
  BY <1>2, TxFields DEF ContentInv, TypeOK
<1>4. Version' > 0 /\ published'[Version'] = tx.doc /\ published' # published
  BY <1>2, <1>3 DEF Version
<1>5. Spelled(lessons', challenges') = tx.doc
  <2> DEFINE shown == Spelled(lessons', challenges')
  <2>1. /\ tx.doc.lessons = shown.lessons
        /\ \A c \in ChallengeSlugs : tx.doc.place[c] = shown.place[c]
    BY <1>1, <1>4 DEF ContentInv, LiveIsPublished, Spelled, Live
  <2>2. tx.doc.place = shown.place
    BY <1>3, <2>1, DocumentFacts DEF Spelled
  <2> QED
    BY <1>3, <2>1, <2>2 DEF Documents, Spelled
<1>6. \A c \in ChallengeSlugs :
        /\ IdsOf(challenges)[c] # None => IdsOf(challenges')[c] = IdsOf(challenges)[c]
        /\ tx.doc.place[c] # None => IdsOf(challenges')[c] # None
        /\ IdsOf(challenges')[c] \in 1..MaxIds \cup {None}
  <2> SUFFICES ASSUME NEW c \in ChallengeSlugs
               PROVE  /\ IdsOf(challenges)[c] # None => IdsOf(challenges')[c] = IdsOf(challenges)[c]
                      /\ tx.doc.place[c] # None => IdsOf(challenges')[c] # None
                      /\ IdsOf(challenges')[c] \in 1..MaxIds \cup {None}
    OBVIOUS
  <2>1. /\ IdsOf(challenges')[c] = None <=> challenges'[c] = None
        /\ challenges'[c] # None => IdsOf(challenges')[c] = challenges'[c].id /\ challenges'[c].id \in 1..MaxIds
    BY <1>1, RowFacts DEF ContentInv, TypeOK
  <2>2. IdsOf(challenges)[c] # None => challenges'[c] # None /\ challenges'[c].id = IdsOf(challenges)[c]
    BY <1>2, RowFacts DEF RowsStay, ContentInv, TypeOK
  <2>3. tx.doc.place[c] # None => challenges'[c] # None
    BY <1>1, <1>5, RowFacts DEF ContentInv, TypeOK, Live
  <2> QED
    BY <2>1, <2>2, <2>3
<1>7. \A b, c \in ChallengeSlugs : IdsOf(challenges')[b] = IdsOf(challenges')[c] /\ IdsOf(challenges')[b] # None => b = c
  <2>1. \A c \in ChallengeSlugs : IdsOf(challenges')[c] # None =>
          challenges'[c] # None /\ IdsOf(challenges')[c] = challenges'[c].id
    BY <1>1, RowFacts DEF ContentInv, TypeOK
  <2> QED
    BY <1>1, <2>1 DEF ContentInv, IdsOK
<1>8. IdsOf(challenges') \in [ChallengeSlugs -> 1..MaxIds \cup {None}]
  BY <1>6 DEF IdsOf
<1>9. PICK d : d = tx.doc
  OBVIOUS
<1>10. Catalog!Publish(d)
  BY <1>2, <1>5, <1>6, <1>7, <1>8, <1>9 DEF Catalog!Publish, Catalog!OneIdEach, Spelled, IdsOf
<1> QED
  BY <1>3, <1>4, <1>9, <1>10 DEF Catalog!Next

\* A submission from a page of any age is for a live challenge, under its id.
LEMMA SubmitSolves ==
  ASSUME ContentInv, NEW c \in ChallengeSlugs, Submit(c)
  PROVE  Catalog!Next
<1>1. challenges[c] # None /\ page.id[c] = challenges[c].id
  BY DEF Submit, ContentInv, PageOK
<1>2. PICK row \in ChallengeSlugs : Live(challenges[row]) /\ challenges[row].id = page.id[c]
  BY DEF Submit, AcceptsId
<1>3. row = c
  BY <1>1, <1>2 DEF ContentInv, IdsOK, Live
<1>4. Spelled(lessons, challenges).place[c] # None /\ IdsOf(challenges)[c] = page.id[c]
  BY <1>1, <1>2, <1>3, RowFacts DEF ContentInv, TypeOK
<1>5. Catalog!Solve(c)
  BY <1>4 DEF Catalog!Solve, Submit, Spelled, IdsOf
<1> QED
  BY <1>5 DEF Catalog!Next

\* A publish goes live whole or not at all, ids stay with their challenges, and
\* submissions are for what is live: for any lessons, challenges and documents.
THEOREM RowsImplementTheCatalog == Spec => ImplementsCatalog
<1>1. Init => Catalog!Init
  BY ContentAssumption DEF Init, Catalog!Init, Live
<1>2. ContentInv /\ [Next]_vars => [Catalog!Next]_(Catalog!vars)
  <2> SUFFICES ASSUME ContentInv, [Next]_vars PROVE [Catalog!Next]_(Catalog!vars)
    OBVIOUS
  <2>1. CASE UNCHANGED <<lessons, challenges, published, submitted>>
    BY <2>1 DEF Catalog!vars, Live
  <2>2. CASE PublishStep
    BY <2>1, <2>2, CommitPublishes
       DEF PublishStep, Begin, ArchiveChallenges, ArchiveLessons, UpsertLesson, UpsertChallenge,
           UpsertFinal, Upsert, Rollback
  <2>3. CASE ReadStep
    BY <2>1, <2>3, SubmitSolves DEF ReadStep, ReadVersion, ReadLessons, ReadChallenges, Leave
  <2>4. CASE UNCHANGED vars
    BY <2>1, <2>4 DEF vars
  <2> QED
    BY <2>2, <2>3, <2>4 DEF Next
<1> QED
  BY <1>1, <1>2, ContentInvariance, PTL DEF Spec, ImplementsCatalog, Catalog!Spec
==============================================================================
