--------------------------- MODULE ProposalsProofs ---------------------------
(***************************************************************************)
(* What holds of the review workflow for every set of users, variants and  *)
(* proposals, every threshold and every bound.                             *)
(***************************************************************************)
EXTENDS Proposals, FiniteSetTheorems, TLAPS


-----------------------------------------------------------------------------
(* Type correctness.                                                        *)

\* A freshly migrated database is well typed.
LEMMA InitTypeOK == Init => TypeOK
<1> SUFFICES ASSUME Init PROVE TypeOK
  OBVIOUS
<1>1. Import(0) \in Document
  BY DEF Import, Document
<1>2. history \in [Variants -> Seq(Document)]
  <2>1. <<>> \in Seq(Document) /\ <<Import(0)>> \in Seq(Document)
    BY <1>1
  <2> QED
    BY <2>1 DEF Init
<1> QED
  BY <1>2, ProposalsAssumption DEF Init, TypeOK

\* A freshly loaded editor form has the type of forms.
LEMMA EmptyFormType ==
  ASSUME NEW p \in ProposalIds \cup {None}, NEW v \in Variants, NEW n \in Nat
  PROVE  EmptyForm(p, v, n) \in Draft
  BY DEF EmptyForm, Draft

\* Version numbers are naturals: zero for a variant that does not exist.
LEMMA LiveVersionType ==
  ASSUME TypeOK, NEW v \in Variants
  PROVE  LiveVersion(v) \in Nat
  BY DEF TypeOK, LiveVersion

\* A user's actions as an author preserve the types.
LEMMA AuthorTypeOK ==
  ASSUME TypeOK, NEW u \in Users, Author(u)
  PROVE  TypeOK'
<1>1. ASSUME NEW v \in Variants, OpenEditor(u, v) PROVE TypeOK'
  BY <1>1, EmptyFormType, LiveVersionType DEF TypeOK, OpenEditor
<1>2. ASSUME NEW v \in Variants, Submit(u, v) PROVE TypeOK'
  <2>1. draft[u] \in Draft /\ draft[u].variant \in Variants
    BY <1>2 DEF TypeOK, Submit, Draft
  <2>2. [draft[u] EXCEPT !.phase = "submitted", !.target = v,
                         !.base = LiveVersion(draft[u].variant)] \in Draft
    BY <2>1, LiveVersionType DEF Draft
  <2> QED
    BY <1>2, <2>2 DEF TypeOK, Submit
<1>3. ASSUME NEW p \in ProposalIds, OpenProposalEditor(u, p) PROVE TypeOK'
  BY <1>3, EmptyFormType DEF TypeOK, OpenProposalEditor, Open, Exists, Proposal
<1>4. ASSUME NEW p \in ProposalIds, CreateProposal(u, p) PROVE TypeOK'
  <2>1. draft[u] \in Draft
    BY <1>4 DEF TypeOK, CreateProposal
  <2>2. [proposer |-> u, variant |-> draft[u].variant, target |-> draft[u].target,
         base |-> draft[u].base, revision |-> 1, status |-> "open", publishedVersion |-> 0]
          \in Proposal
    BY <2>1 DEF Draft, Proposal, Statuses
  <2> QED
    BY <1>4, <2>1, <2>2 DEF TypeOK, CreateProposal, Draft
<1>5. ASSUME NEW p \in ProposalIds, DuplicateProposal(u, p) PROVE TypeOK'
  <2>1. draft[u] \in Draft
    BY <1>5 DEF TypeOK, DuplicateProposal
  <2>2. \A n \in {authored[p], draft[u].seen} : EmptyForm(p, draft[u].variant, n) \in Draft
    BY <2>1, EmptyFormType DEF TypeOK, Draft
  <2> QED
    BY <1>5, <2>2 DEF TypeOK, DuplicateProposal
<1>6. ASSUME NEW p \in ProposalIds, UpdateProposal(u, p) PROVE TypeOK'
  <2>1. draft[u] \in Draft /\ proposals[p] \in Proposal
    BY <1>6 DEF TypeOK, UpdateProposal, Open, Exists
  <2>2. Revised(proposals[p], draft[u]) \in Proposal
    <3>1. proposals[p].revision + 1 \in Nat \ {0}
      BY <2>1 DEF Proposal
    <3>2. draft[u].target \in Variants /\ draft[u].base \in Nat
      BY <2>1 DEF Draft
    <3> QED
      BY <2>1, <3>1, <3>2 DEF Proposal, Revised
  <2> QED
    BY <1>6, <2>1, <2>2 DEF TypeOK, UpdateProposal, Draft
<1>7. ASSUME NEW p \in ProposalIds, UpdateRefused(u, p) PROVE TypeOK'
  <2>1. draft[u] \in Draft
    BY <1>7 DEF TypeOK, UpdateRefused
  <2>2. EmptyForm(None, draft[u].variant, draft[u].seen) \in Draft
    BY <2>1, EmptyFormType DEF Draft
  <2> QED
    BY <1>7, <2>2 DEF TypeOK, UpdateRefused
<1>8. ASSUME NEW p \in ProposalIds, WithdrawProposal(u, p) PROVE TypeOK'
  <2>1. proposals[p] \in Proposal
    BY <1>8 DEF TypeOK, WithdrawProposal, Open, Exists
  <2>2. [proposals[p] EXCEPT !.status = "withdrawn"] \in Proposal
    BY <2>1 DEF Proposal, Statuses
  <2> QED
    BY <1>8, <2>2 DEF TypeOK, WithdrawProposal
<1>9. CASE Rebase(u)
  <2>1. draft[u] \in Draft
    BY <1>9 DEF TypeOK, Rebase
  <2>2. EmptyForm(draft[u].proposal, draft[u].variant, LiveVersion(draft[u].variant)) \in Draft
    BY <2>1, EmptyFormType, LiveVersionType DEF Draft
  <2> QED
    BY <1>9, <2>2 DEF TypeOK, Rebase
<1> QED
  BY <1>1, <1>2, <1>3, <1>4, <1>5, <1>6, <1>7, <1>8, <1>9 DEF Author

\* A review preserves the types.
LEMMA ReviewTypeOK ==
  ASSUME TypeOK, NEW u \in Users, NEW p \in ProposalIds, NEW verdict \in Verdicts,
         NEW seen \in 1..MaxRevision, AddReview(u, p, verdict, seen)
  PROVE  TypeOK'
<1>1. proposals[p] \in Proposal /\ seen = proposals[p].revision
  BY DEF TypeOK, AddReview, AcceptsReview, Open, Exists
<1> DEFINE row == [verdict |-> verdict, revision |-> proposals[p].revision]
           rows == [reviews[p] EXCEPT ![u] = row]
           c == [proposal |-> p, revision |-> proposals[p].revision, target |-> proposals[p].target,
                 reviewer |-> u]
           e == [proposal |-> p, revision |-> seen, reviewer |-> u, admin |-> u \in admins]
<1>2. row \in Review /\ c \in Publication
  BY <1>1 DEF Review, Publication, Proposal
<1>3. e \in Endorsement
  BY <1>1 DEF Endorsement, Proposal
<1>4. [proposals[p] EXCEPT !.status = "rejected"] \in Proposal
  BY <1>1 DEF Proposal, Statuses
<1>5. rows \in [Users -> Review \cup {None}]
  BY <1>2 DEF TypeOK
<1>6. reviews' = [reviews EXCEPT ![p] = rows] /\ pending' \in {pending, pending \cup {c}}
  BY DEF AddReview, DecisionOn
<1>7. /\ reviews' \in [ProposalIds -> [Users -> Review \cup {None}]]
      /\ pending' \in SUBSET Publication
  BY <1>2, <1>5, <1>6 DEF TypeOK
<1>8. proposals' \in [ProposalIds -> Proposal \cup {None}]
  BY <1>4 DEF TypeOK, AddReview
<1>9. endorsements' \in SUBSET Endorsement
  <2>1. endorsements' \in {endorsements, endorsements \cup {e}}
    BY DEF AddReview
  <2> QED
    BY <1>3, <2>1 DEF TypeOK
<1> QED
  BY <1>7, <1>8, <1>9 DEF TypeOK, AddReview

\* Running a decided publication preserves the types, whatever becomes of it.
LEMMA PublisherTypeOK == TypeOK /\ Publisher => TypeOK'
<1> SUFFICES ASSUME TypeOK, NEW c \in pending,
                    PublishProposal(c) \/ PublishRefused(c) \/ PublishLost(c)
             PROVE  TypeOK'
  BY DEF Publisher
<1>1. CASE PublishProposal(c)
  <2>1. c \in Publication /\ proposals[c.proposal] \in Proposal
    BY <1>1 DEF TypeOK, PublishProposal, StillPublishable, Open, Exists, Publication
  <2>2. LiveVersion(c.target) + 1 \in Nat
    BY <2>1, LiveVersionType DEF Publication
  <2>3. [proposals[c.proposal] EXCEPT !.status = "published",
                                      !.publishedVersion = LiveVersion(c.target) + 1] \in Proposal
    BY <2>1, <2>2 DEF Proposal, Statuses
  <2>4. Revision(c.proposal, c.revision) \in Document
    BY <2>1 DEF Revision, Document, Publication
  <2>5. Append(history[c.target], Revision(c.proposal, c.revision)) \in Seq(Document)
    BY <2>1, <2>4 DEF TypeOK, Publication
  <2> QED
    BY <1>1, <2>3, <2>5 DEF TypeOK, PublishProposal
<1>2. CASE PublishRefused(c) \/ PublishLost(c)
  BY <1>2 DEF TypeOK, PublishRefused, PublishLost
<1> QED
  BY <1>1, <1>2

\* There are finitely many imports of a variant.
LEMMA ImportsFinite ==
  ASSUME TypeOK, NEW v \in Variants
  PROVE  IsFiniteSet(Imports(v)) /\ Cardinality(Imports(v)) \in Nat
<1>1. Imports(v) \subseteq 1..Len(history[v]) /\ Len(history[v]) \in Nat
  BY DEF Imports, TypeOK
<1>2. IsFiniteSet(1..Len(history[v]))
  BY <1>1, FS_Interval
<1> QED
  BY <1>1, <1>2, FS_Subset, FS_CardinalityType

\* An import or a role change preserves the types.
LEMMA OperatorTypeOK == TypeOK /\ Operator => TypeOK'
<1> SUFFICES ASSUME TypeOK, Operator PROVE TypeOK'
  OBVIOUS
<1>1. ASSUME NEW v \in Variants, Seed(v) PROVE TypeOK'
  <2>1. Import(Cardinality(Imports(v)) + 1) \in Document
    BY ImportsFinite DEF Import, Document
  <2> QED
    BY <1>1, <2>1 DEF TypeOK, Seed
<1>2. ASSUME NEW u \in Users, SetRole(u) PROVE TypeOK'
  BY <1>2 DEF TypeOK, SetRole
<1> QED
  BY <1>1, <1>2 DEF Operator

\* Type correctness is inductive.
LEMMA NextTypeOK == TypeOK /\ [Next]_vars => TypeOK'
<1> SUFFICES ASSUME TypeOK, [Next]_vars PROVE TypeOK'
  OBVIOUS
<1>1. CASE \E u \in Authors : Author(u)
  BY <1>1, AuthorTypeOK, ProposalsAssumption
<1>2. CASE \E u \in Users : Reviewer(u)
  BY <1>2, ReviewTypeOK DEF Reviewer
<1>3. CASE Publisher
  BY <1>3, PublisherTypeOK
<1>4. CASE Operator
  BY <1>4, OperatorTypeOK
<1>5. CASE UNCHANGED vars
  BY <1>5 DEF TypeOK, vars
<1> QED
  BY <1>1, <1>2, <1>3, <1>4, <1>5 DEF Next

\* Every variable keeps its type, for all constants.
THEOREM TypeCorrect == Spec => []TypeOK
  BY InitTypeOK, NextTypeOK, PTL DEF Spec

-----------------------------------------------------------------------------
(* Nothing unreviewed goes live.                                            *)

\* Every standing approval is one its author gave to that very revision.
ReviewsAreEndorsed ==
  \A p \in ProposalIds : \A u \in Users :
    reviews[p][u] # None =>
      /\ Exists(p)
      /\ reviews[p][u].verdict = "approve" =>
           \E e \in endorsements : /\ e.proposal = p
                                   /\ e.revision = reviews[p][u].revision
                                   /\ e.reviewer = u

\* A handler on its way to PublishProposal carries an endorsed revision.
PendingIsEndorsed ==
  \A c \in pending : Exists(c.proposal) /\ Endorsed(c.proposal, c.revision)

\* What is live comes from rows that exist, and was endorsed.
WasEndorsed(d) == d.from # None => Exists(d.from) /\ Endorsed(d.from, d.revision)
LiveIsEndorsed == \A v \in Variants : \A n \in DOMAIN history[v] : WasEndorsed(history[v][n])

\* LiveTextWasEndorsed is not inductive: why the text being published was
\* endorsed is known from the pending publication, and why that one was is
\* known from the standing reviews.
EndorsementInv == ReviewsAreEndorsed /\ PendingIsEndorsed /\ LiveIsEndorsed

\* No step removes a row, or changes who proposed it or for which variant, and
\* no step forgets an endorsement.
LEMMA RowsPersist ==
  ASSUME TypeOK, [Next]_vars, NEW p \in ProposalIds, Exists(p)
  PROVE  /\ Exists(p)'
         /\ proposals'[p].proposer = proposals[p].proposer
         /\ proposals'[p].variant = proposals[p].variant
         /\ endorsements \subseteq endorsements'
<1>1. proposals[p] \in Proposal
  BY DEF TypeOK, Exists
<1>2. ASSUME NEW row \in Proposal PROVE row # None
  BY NoneAssumption
<1>3. CASE UNCHANGED <<proposals, endorsements>>
  BY <1>3 DEF Exists
<1>4. ASSUME NEW u \in Users, NEW q \in ProposalIds, CreateProposal(u, q)
      PROVE  UNCHANGED <<proposals[p], endorsements>>
  BY <1>4 DEF CreateProposal, Exists, TypeOK
<1>5. ASSUME NEW u \in Users, NEW q \in ProposalIds,
             \/ UpdateProposal(u, q)
             \/ WithdrawProposal(u, q)
             \/ \E verdict \in Verdicts, seen \in 1..MaxRevision : AddReview(u, q, verdict, seen)
      PROVE  /\ proposals'[p] \in Proposal
             /\ proposals'[p].proposer = proposals[p].proposer
             /\ proposals'[p].variant = proposals[p].variant
             /\ endorsements \subseteq endorsements'
  <2>1. CASE UpdateProposal(u, q)
    <3>1. draft[u] \in Draft
      BY <2>1 DEF UpdateProposal, TypeOK
    <3>2. draft[u].target \in Variants /\ draft[u].base \in Nat
      BY <3>1 DEF Draft
    <3>3. proposals[p].revision + 1 \in Nat \ {0}
      BY <1>1 DEF Proposal
    <3> QED
      BY <1>1, <2>1, <3>2, <3>3 DEF UpdateProposal, TypeOK, Revised, Proposal
  <2>2. CASE WithdrawProposal(u, q)
    BY <1>1, <2>2 DEF WithdrawProposal, TypeOK, Proposal, Statuses
  <2>3. CASE \E verdict \in Verdicts, seen \in 1..MaxRevision : AddReview(u, q, verdict, seen)
    <3>1. PICK verdict \in Verdicts, seen \in 1..MaxRevision : AddReview(u, q, verdict, seen)
      BY <2>3
    <3> DEFINE row == [proposals[p] EXCEPT !.status = "rejected"]
    <3>2. /\ row \in Proposal
          /\ row.proposer = proposals[p].proposer
          /\ row.variant = proposals[p].variant
      BY <1>1 DEF Proposal, Statuses
    <3>3. proposals'[p] \in {proposals[p], row}
      BY <3>1 DEF AddReview, TypeOK
    <3>4. endorsements \subseteq endorsements'
      BY <3>1 DEF AddReview
    <3> HIDE DEF row
    <3> QED
      BY <1>1, <3>2, <3>3, <3>4
  <2> QED
    BY <1>5, <2>1, <2>2, <2>3
<1>6. ASSUME NEW c \in pending, PublishProposal(c)
      PROVE  /\ proposals'[p] \in Proposal
             /\ proposals'[p].proposer = proposals[p].proposer
             /\ proposals'[p].variant = proposals[p].variant
             /\ endorsements \subseteq endorsements'
  <2>1. c.target \in Variants
    BY <1>6 DEF TypeOK, Publication
  <2>2. LiveVersion(c.target) + 1 \in Nat
    BY <2>1, LiveVersionType
  <2> DEFINE row == [proposals[p] EXCEPT !.status = "published",
                                         !.publishedVersion = LiveVersion(c.target) + 1]
  <2>3. /\ row \in Proposal
        /\ row.proposer = proposals[p].proposer
        /\ row.variant = proposals[p].variant
    BY <1>1, <2>2 DEF Proposal, Statuses
  <2>4. proposals'[p] \in {proposals[p], row}
    BY <1>6 DEF PublishProposal, TypeOK
  <2> HIDE DEF row
  <2> QED
    BY <1>1, <1>6, <2>3, <2>4 DEF PublishProposal
<1>7. CASE \E u \in Authors : Author(u)
  BY <1>2, <1>3, <1>4, <1>5, <1>7, ProposalsAssumption
     DEF Author, Exists, OpenEditor, Submit, OpenProposalEditor, DuplicateProposal, UpdateRefused, Rebase
<1>8. CASE \E u \in Users : Reviewer(u)
  BY <1>2, <1>5, <1>8 DEF Reviewer, Exists
<1>9. CASE Publisher
  BY <1>2, <1>3, <1>6, <1>9 DEF Publisher, Exists, PublishRefused, PublishLost
<1>10. CASE Operator \/ UNCHANGED vars
  BY <1>3, <1>10 DEF Operator, Seed, SetRole, vars
<1> QED
  BY <1>7, <1>8, <1>9, <1>10 DEF Next

\* The endorsers of a revision can be counted.
LEMMA EndorsersFinite ==
  ASSUME NEW p, NEW r
  PROVE  /\ IsFiniteSet(Endorsers(p, r))
         /\ Cardinality(Endorsers(p, r)) \in Nat
<1>1. Endorsers(p, r) \subseteq Users
  BY DEF Endorsers
<1> QED
  BY <1>1, ProposalsAssumption, FS_Subset, FS_CardinalityType

\* Once endorsed, a revision stays endorsed.
LEMMA EndorsedPersists ==
  ASSUME TypeOK, [Next]_vars, NEW p \in ProposalIds, Exists(p), NEW r, Endorsed(p, r)
  PROVE  Endorsed(p, r)'
<1>1. /\ proposals'[p].proposer = proposals[p].proposer
      /\ endorsements \subseteq endorsements'
  BY RowsPersist
<1>2. CASE AdminEndorsed(p, r)
  BY <1>1, <1>2 DEF Endorsed, AdminEndorsed
<1>3. CASE Cardinality(Endorsers(p, r)) >= Threshold
  <2>1. Endorsers(p, r) \subseteq Endorsers(p, r)'
    BY <1>1 DEF Endorsers
  <2>2. Endorsers(p, r)' \subseteq Users
    BY DEF Endorsers
  <2>3. IsFiniteSet(Endorsers(p, r)')
    BY <2>2, ProposalsAssumption, FS_Subset
  <2>4. Cardinality(Endorsers(p, r)) <= Cardinality(Endorsers(p, r)') /\ Cardinality(Endorsers(p, r)') \in Nat
    BY <2>1, <2>3, FS_Subset, FS_CardinalityType
  <2>5. Cardinality(Endorsers(p, r)') >= Threshold
    BY <1>3, <2>4, EndorsersFinite, ProposalsAssumption
  <2> QED
    BY <2>5 DEF Endorsed
<1> QED
  BY <1>2, <1>3 DEF Endorsed

\* A decision to publish is taken on an endorsed revision: what AddReview
\* counts are approvals given to the revision it counts them for.
LEMMA DecisionIsEndorsed ==
  ASSUME TypeOK, ReviewsAreEndorsed,
         NEW u \in Users, NEW p \in ProposalIds, NEW verdict \in Verdicts, NEW seen \in 1..MaxRevision,
         AddReview(u, p, verdict, seen),
         ShouldPublish(u, p, verdict, [reviews[p] EXCEPT ![u] =
                         [verdict |-> verdict, revision |-> proposals[p].revision]])
  PROVE  Endorsed(p, proposals[p].revision)'
<1> DEFINE r == proposals[p].revision
           rows == [reviews[p] EXCEPT ![u] = [verdict |-> verdict, revision |-> r]]
           e == [proposal |-> p, revision |-> seen, reviewer |-> u, admin |-> u \in admins]
<1>1. /\ Exists(p) /\ seen = r /\ verdict = "approve"
      /\ e \in endorsements' /\ endorsements \subseteq endorsements'
  BY DEF AddReview, AcceptsReview, Open, ShouldPublish
<1>2. /\ proposals'[p].revision = r
      /\ proposals'[p].proposer = proposals[p].proposer
  BY <1>1 DEF AddReview
<1>3. CASE u \in admins
  <2>1. e.proposal = p /\ e.revision = r /\ e.admin
    BY <1>1, <1>3
  <2> QED
    BY <1>1, <1>2, <2>1 DEF Endorsed, AdminEndorsed
<1>4. CASE Cardinality(ApproversIn(rows, p, r)) >= Threshold
  <2>1. ApproversIn(rows, p, r) \subseteq Endorsers(p, r)'
    <3> SUFFICES ASSUME NEW x \in ApproversIn(rows, p, r) PROVE x \in Endorsers(p, r)'
      OBVIOUS
    <3>1. /\ x \in Users /\ x # proposals[p].proposer
          /\ rows[x] # None /\ rows[x].verdict = "approve" /\ rows[x].revision = r
      BY DEF ApproversIn
    <3>2. CASE x = u
      BY <1>1, <1>2, <3>1, <3>2 DEF Endorsers
    <3>3. CASE x # u
      <4>1. rows[x] = reviews[p][x]
        BY <3>1, <3>3 DEF TypeOK
      <4>2. PICK f \in endorsements : f.proposal = p /\ f.revision = r /\ f.reviewer = x
        BY <3>1, <4>1 DEF ReviewsAreEndorsed
      <4> QED
        BY <1>1, <1>2, <3>1, <4>2 DEF Endorsers
    <3> QED
      BY <3>2, <3>3
  <2>2. Endorsers(p, r)' \subseteq Users
    BY DEF Endorsers
  <2>3. IsFiniteSet(Endorsers(p, r)')
    BY <2>2, ProposalsAssumption, FS_Subset
  <2>4. /\ IsFiniteSet(ApproversIn(rows, p, r))
        /\ Cardinality(ApproversIn(rows, p, r)) <= Cardinality(Endorsers(p, r)')
    BY <2>1, <2>3, FS_Subset
  <2>5. Cardinality(ApproversIn(rows, p, r)) \in Nat /\ Cardinality(Endorsers(p, r)') \in Nat
    BY <2>3, <2>4, FS_CardinalityType
  <2>6. Cardinality(Endorsers(p, r)') >= Threshold
    BY <1>4, <2>4, <2>5, ProposalsAssumption
  <2> QED
    BY <1>2, <2>6 DEF Endorsed
<1> QED
  BY <1>3, <1>4 DEF ShouldPublish

\* Nothing is reviewed, decided or live but imports in the beginning.
LEMMA InitEndorsementInv == Init => EndorsementInv
<1> SUFFICES ASSUME Init PROVE EndorsementInv
  OBVIOUS
<1>1. ReviewsAreEndorsed /\ PendingIsEndorsed
  BY DEF Init, ReviewsAreEndorsed, PendingIsEndorsed
<1>2. \A v \in Variants : \A n \in DOMAIN history[v] : history[v][n].from = None
  <2>1. \A v \in Variants : history[v] \in {<<>>, <<Import(0)>>}
    BY DEF Init
  <2>2. \A n \in DOMAIN <<Import(0)>> : <<Import(0)>>[n].from = None
    BY DEF Import
  <2> QED
    BY <2>1, <2>2
<1> QED
  BY <1>1, <1>2 DEF EndorsementInv, LiveIsEndorsed, WasEndorsed

\* Standing approvals stay backed by an endorsement.
LEMMA NextReviewsAreEndorsed ==
  ASSUME TypeOK, ReviewsAreEndorsed, [Next]_vars
  PROVE  ReviewsAreEndorsed'
<1>1. CASE UNCHANGED reviews
  <2> SUFFICES ASSUME NEW p \in ProposalIds, NEW u \in Users, reviews[p][u] # None
               PROVE  /\ Exists(p)'
                      /\ reviews[p][u].verdict = "approve" =>
                           \E e \in endorsements' : /\ e.proposal = p
                                                    /\ e.revision = reviews[p][u].revision
                                                    /\ e.reviewer = u
    BY <1>1 DEF ReviewsAreEndorsed
  <2>1. Exists(p)
    BY DEF ReviewsAreEndorsed
  <2>2. Exists(p)' /\ endorsements \subseteq endorsements'
    BY <2>1, RowsPersist
  <2> QED
    BY <2>2 DEF ReviewsAreEndorsed
<1>2. ASSUME NEW w \in Users, NEW q \in ProposalIds, NEW verdict \in Verdicts,
             NEW seen \in 1..MaxRevision, AddReview(w, q, verdict, seen)
      PROVE  ReviewsAreEndorsed'
  <2> SUFFICES ASSUME NEW p \in ProposalIds, NEW u \in Users, reviews'[p][u] # None
               PROVE  /\ Exists(p)'
                      /\ reviews'[p][u].verdict = "approve" =>
                           \E e \in endorsements' : /\ e.proposal = p
                                                    /\ e.revision = reviews'[p][u].revision
                                                    /\ e.reviewer = u
    BY DEF ReviewsAreEndorsed
  <2>1. Exists(q) /\ seen = proposals[q].revision
    BY <1>2 DEF AddReview, AcceptsReview, Open
  <2>2. \A x \in ProposalIds : Exists(x) => Exists(x)' /\ endorsements \subseteq endorsements'
    BY RowsPersist
  <2>3. CASE p = q /\ u = w
    <3>1. reviews'[p][u] = [verdict |-> verdict, revision |-> seen]
      BY <1>2, <2>1, <2>3 DEF AddReview, TypeOK
    <3>2. verdict = "approve" =>
            [proposal |-> p, revision |-> seen, reviewer |-> u, admin |-> u \in admins] \in endorsements'
      BY <1>2, <2>3 DEF AddReview
    <3> QED
      BY <2>1, <2>2, <2>3, <3>1, <3>2
  <2>4. CASE ~ (p = q /\ u = w)
    <3>1. reviews'[p][u] = reviews[p][u]
      BY <1>2, <2>4 DEF AddReview, TypeOK
    <3>2. Exists(p)
      BY <3>1 DEF ReviewsAreEndorsed
    <3> QED
      BY <2>2, <3>1, <3>2 DEF ReviewsAreEndorsed
  <2> QED
    BY <2>3, <2>4
<1>3. CASE \E u \in Authors : Author(u)
  BY <1>1, <1>3 DEF Author, OpenEditor, Submit, OpenProposalEditor, CreateProposal,
                    DuplicateProposal, UpdateProposal, UpdateRefused, WithdrawProposal, Rebase
<1>4. CASE Publisher
  BY <1>1, <1>4 DEF Publisher, PublishProposal, PublishRefused, PublishLost
<1>5. CASE Operator \/ UNCHANGED vars
  BY <1>1, <1>5 DEF Operator, Seed, SetRole, vars
<1> QED
  BY <1>2, <1>3, <1>4, <1>5 DEF Next, Reviewer

\* What handlers are about to publish stays endorsed.
LEMMA NextPendingIsEndorsed ==
  ASSUME TypeOK, ReviewsAreEndorsed, PendingIsEndorsed, [Next]_vars
  PROVE  PendingIsEndorsed'
<1>1. ASSUME NEW c \in pending PROVE Exists(c.proposal)' /\ Endorsed(c.proposal, c.revision)'
  <2>1. c.proposal \in ProposalIds
    BY DEF TypeOK, Publication
  <2>2. Exists(c.proposal) /\ Endorsed(c.proposal, c.revision)
    BY DEF PendingIsEndorsed
  <2> QED
    BY <2>1, <2>2, RowsPersist, EndorsedPersists
<1>2. CASE pending' \subseteq pending
  BY <1>1, <1>2 DEF PendingIsEndorsed
<1>3. ASSUME NEW u \in Users, NEW p \in ProposalIds, NEW verdict \in Verdicts,
             NEW seen \in 1..MaxRevision, AddReview(u, p, verdict, seen)
      PROVE  PendingIsEndorsed'
  <2> DEFINE rows == [reviews[p] EXCEPT ![u] =
                        [verdict |-> verdict, revision |-> proposals[p].revision]]
             new == [proposal |-> p, revision |-> proposals[p].revision,
                     target |-> proposals[p].target, reviewer |-> u]
  <2>1. CASE ShouldPublish(u, p, verdict, rows)
    <3>1. pending' = pending \cup {new}
      BY <1>3, <2>1 DEF AddReview, DecisionOn
    <3>2. Exists(p)
      BY <1>3 DEF AddReview, AcceptsReview, Open
    <3>3. Exists(p)'
      BY <3>2, RowsPersist
    <3>4. Endorsed(p, proposals[p].revision)'
      BY <1>3, <2>1, DecisionIsEndorsed
    <3>5. proposals'[p].revision = proposals[p].revision
      BY <1>3, <3>2 DEF AddReview
    <3>6. ASSUME NEW c, c = new PROVE Exists(c.proposal)' /\ Endorsed(c.proposal, c.revision)'
      <4>1. c.proposal = p /\ c.revision = proposals'[p].revision
        BY <3>5, <3>6
      <4> QED
        BY <3>3, <3>4, <4>1
    <3>7. ASSUME NEW c \in pending' PROVE Exists(c.proposal)' /\ Endorsed(c.proposal, c.revision)'
      BY <1>1, <3>1, <3>6
    <3> QED
      BY <3>7 DEF PendingIsEndorsed
  <2>2. CASE ~ ShouldPublish(u, p, verdict, rows)
    BY <1>2, <1>3, <2>2 DEF AddReview
  <2> QED
    BY <2>1, <2>2
<1>4. CASE \E u \in Authors : Author(u)
  BY <1>2, <1>4 DEF Author, OpenEditor, Submit, OpenProposalEditor, CreateProposal,
                    DuplicateProposal, UpdateProposal, UpdateRefused, WithdrawProposal, Rebase
<1>5. CASE Publisher
  BY <1>2, <1>5 DEF Publisher, PublishProposal, PublishRefused, PublishLost
<1>6. CASE Operator \/ UNCHANGED vars
  BY <1>2, <1>6 DEF Operator, Seed, SetRole, vars
<1> QED
  BY <1>3, <1>4, <1>5, <1>6 DEF Next, Reviewer

\* A publication appends the revision it carries to the variant it is for.
LEMMA PublishAppends ==
  ASSUME TypeOK, NEW c \in pending, PublishProposal(c)
  PROVE  /\ c.proposal \in ProposalIds /\ c.target \in Variants
         /\ Open(c.proposal) /\ proposals[c.proposal].revision = c.revision
         /\ history'[c.target] = Append(history[c.target], Revision(c.proposal, c.revision))
         /\ \A v \in Variants \ {c.target} : history'[v] = history[v]
         /\ LiveVersion(c.target) = proposals[c.proposal].base
<1>1. c \in Publication
  BY DEF TypeOK
<1>2. c.proposal \in ProposalIds /\ c.target \in Variants
  BY <1>1 DEF Publication
<1>3. history[c.target] = <<>> => LiveVersion(c.target) = 0
  BY DEF LiveVersion
<1> QED
  BY <1>2, <1>3 DEF PublishProposal, StillPublishable, VersionMatches, TypeOK

\* A variant's history changes at its end only, and by an import or by a
\* revision that a handler was about to publish.
LEMMA HistoryStep ==
  ASSUME TypeOK, [Next]_vars, NEW v \in Variants, NEW n \in DOMAIN history'[v]
  PROVE  \/ n \in DOMAIN history[v] /\ history'[v][n] = history[v][n]
         \/ history'[v][n].from = None
         \/ \E c \in pending : /\ PublishProposal(c)
                               /\ c.target = v
                               /\ n = LiveVersion(v) + 1
                               /\ history'[v][n] = Revision(c.proposal, c.revision)
<1>0. history[v] \in Seq(Document)
  BY DEF TypeOK
<1>1. ASSUME NEW d \in Document, history'[v] = Append(history[v], d)
      PROVE  \/ n \in DOMAIN history[v] /\ history'[v][n] = history[v][n]
             \/ n = LiveVersion(v) + 1 /\ history'[v][n] = d
  BY <1>0, <1>1 DEF LiveVersion
<1>2. CASE UNCHANGED history
  BY <1>2
<1>3. CASE Publisher
  <2>1. PICK c \in pending : PublishProposal(c) \/ PublishRefused(c) \/ PublishLost(c)
    BY <1>3 DEF Publisher
  <2>2. CASE PublishProposal(c)
    <3>1. Revision(c.proposal, c.revision) \in Document
      BY DEF Revision, Document, TypeOK, Publication
    <3>2. CASE c.target = v
      BY <1>1, <2>2, <3>1, <3>2, PublishAppends
    <3>3. CASE c.target # v
      BY <2>2, <3>3, PublishAppends
    <3> QED
      BY <3>2, <3>3
  <2> QED
    BY <1>2, <2>1, <2>2 DEF PublishRefused, PublishLost
<1>4. CASE Operator
  <2>1. ASSUME NEW w \in Variants, Seed(w)
        PROVE  \/ n \in DOMAIN history[v] /\ history'[v][n] = history[v][n]
               \/ history'[v][n].from = None
    <3> DEFINE d == Import(Cardinality(Imports(w)) + 1)
    <3>1. d \in Document /\ d.from = None
      BY ImportsFinite DEF Import, Document
    <3>2. history'[v] = history[v] \/ history'[v] = Append(history[v], d)
      BY <2>1 DEF Seed, TypeOK
    <3> HIDE DEF d
    <3> QED
      BY <1>1, <3>1, <3>2
  <2> QED
    BY <1>2, <1>4, <2>1 DEF Operator, SetRole
<1>5. CASE \E u \in Authors : Author(u)
  BY <1>2, <1>5 DEF Author, OpenEditor, Submit, OpenProposalEditor, CreateProposal,
                    DuplicateProposal, UpdateProposal, UpdateRefused, WithdrawProposal, Rebase
<1>6. CASE (\E u \in Users : Reviewer(u)) \/ UNCHANGED vars
  BY <1>2, <1>6 DEF Reviewer, AddReview, vars
<1> QED
  BY <1>3, <1>4, <1>5, <1>6 DEF Next

\* A document that was endorsed, or imported, stays so.
LEMMA WasEndorsedPersists ==
  ASSUME TypeOK, [Next]_vars, NEW d \in Document, WasEndorsed(d)
  PROVE  WasEndorsed(d)'
<1> SUFFICES ASSUME d.from # None PROVE Exists(d.from)' /\ Endorsed(d.from, d.revision)'
  BY DEF WasEndorsed
<1>1. d.from \in ProposalIds /\ Exists(d.from) /\ Endorsed(d.from, d.revision)
  BY DEF WasEndorsed, Document
<1> QED
  BY <1>1, RowsPersist, EndorsedPersists

\* What went live stays endorsed, and only imports and endorsed revisions go live.
LEMMA NextLiveIsEndorsed ==
  ASSUME TypeOK, PendingIsEndorsed, LiveIsEndorsed, [Next]_vars
  PROVE  LiveIsEndorsed'
<1> SUFFICES ASSUME NEW v \in Variants, NEW n \in DOMAIN history'[v],
                    NEW d, d = history'[v][n]
             PROVE  WasEndorsed(d)'
  BY DEF LiveIsEndorsed
<1>1. CASE n \in DOMAIN history[v] /\ history'[v][n] = history[v][n]
  BY <1>1, WasEndorsedPersists DEF LiveIsEndorsed, TypeOK
<1>2. CASE d.from = None
  BY <1>2 DEF WasEndorsed
<1>3. ASSUME NEW c \in pending, d = Revision(c.proposal, c.revision)
      PROVE  WasEndorsed(d)'
  <2>1. d \in Document /\ d.from = c.proposal /\ d.revision = c.revision
    BY <1>3 DEF Revision, Document, TypeOK, Publication
  <2>2. WasEndorsed(d)
    BY <2>1 DEF WasEndorsed, PendingIsEndorsed
  <2> QED
    BY <2>1, <2>2, WasEndorsedPersists
<1> QED
  BY <1>1, <1>2, <1>3, HistoryStep

\* Only text that an admin, or Threshold users other than the proposer,
\* approved after reading it goes live, for all constants.
THEOREM LiveTextEndorsed == Spec => []LiveTextWasEndorsed
<1>1. Init => EndorsementInv
  BY InitEndorsementInv
<1>2. TypeOK /\ EndorsementInv /\ [Next]_vars => EndorsementInv'
  BY NextReviewsAreEndorsed, NextPendingIsEndorsed, NextLiveIsEndorsed DEF EndorsementInv
<1>3. EndorsementInv => LiveTextWasEndorsed
  BY DEF EndorsementInv, LiveIsEndorsed, WasEndorsed, LiveTextWasEndorsed
<1> QED
  BY <1>1, <1>2, <1>3, TypeCorrect, PTL DEF Spec

-----------------------------------------------------------------------------
(* Closed rows stay, and a user has one open row for a variant.             *)

\* No step touches the row or the reviews of a proposal that is closed.
LEMMA ClosedRowsStay ==
  ASSUME TypeOK, [Next]_vars, NEW p \in ProposalIds, Exists(p), ~ Open(p)
  PROVE  proposals'[p] = proposals[p] /\ reviews'[p] = reviews[p]
<1>1. CASE UNCHANGED <<proposals, reviews>>
  BY <1>1
<1>2. ASSUME NEW q \in ProposalIds, q # p, UNCHANGED reviews,
             NEW row, proposals' = [proposals EXCEPT ![q] = row]
      PROVE  proposals'[p] = proposals[p] /\ reviews'[p] = reviews[p]
  BY <1>2 DEF TypeOK
<1>3. CASE \E u \in Authors : Author(u)
  <2>1. ASSUME NEW u \in Authors, NEW q \in ProposalIds,
               CreateProposal(u, q) \/ UpdateProposal(u, q) \/ WithdrawProposal(u, q)
        PROVE  proposals'[p] = proposals[p] /\ reviews'[p] = reviews[p]
    <3>1. q # p
      BY <2>1 DEF CreateProposal, UpdateProposal, WithdrawProposal
    <3> QED
      BY <1>2, <2>1, <3>1 DEF CreateProposal, UpdateProposal, WithdrawProposal
  <2> QED
    BY <1>1, <1>3, <2>1 DEF Author, OpenEditor, Submit, OpenProposalEditor,
                            DuplicateProposal, UpdateRefused, Rebase
<1>4. ASSUME NEW u \in Users, NEW q \in ProposalIds, NEW verdict \in Verdicts,
             NEW seen \in 1..MaxRevision, AddReview(u, q, verdict, seen)
      PROVE  proposals'[p] = proposals[p] /\ reviews'[p] = reviews[p]
  <2>1. q # p
    BY <1>4 DEF AddReview, AcceptsReview
  <2> QED
    BY <1>4, <2>1 DEF AddReview, TypeOK
<1>5. CASE Publisher
  <2>1. ASSUME NEW c \in pending, PublishProposal(c)
        PROVE  proposals'[p] = proposals[p] /\ reviews'[p] = reviews[p]
    <3>1. c.proposal \in ProposalIds /\ c.proposal # p
      BY <2>1, PublishAppends
    <3> QED
      BY <1>2, <2>1, <3>1 DEF PublishProposal
  <2> QED
    BY <1>1, <1>5, <2>1 DEF Publisher, PublishRefused, PublishLost
<1>6. CASE Operator \/ UNCHANGED vars
  BY <1>1, <1>6 DEF Operator, Seed, SetRole, vars
<1> QED
  BY <1>3, <1>4, <1>5, <1>6 DEF Next, Reviewer

\* Closing is a one-way door, for any number of proposals and reviewers.
THEOREM ClosedStayClosed == Spec => ClosedIsFinal
<1>1. TypeOK /\ [Next]_vars
        => [\A p \in ProposalIds :
              Exists(p) /\ ~ Open(p) => proposals'[p] = proposals[p] /\ reviews'[p] = reviews[p]]_vars
  BY ClosedRowsStay
<1> QED
  BY <1>1, TypeCorrect, PTL DEF Spec, ClosedIsFinal

\* An open row was open before, for the same user and variant, or has just
\* been inserted for a user who had none for the variant.
LEMMA OpenStep ==
  ASSUME TypeOK, [Next]_vars, NEW p \in ProposalIds, Open(p)'
  PROVE  \/ /\ Open(p)
            /\ proposals'[p].proposer = proposals[p].proposer
            /\ proposals'[p].variant = proposals[p].variant
         \/ /\ ~ Exists(p)
            /\ OpenProposalsFor(proposals'[p].proposer, proposals'[p].variant) = {}
            /\ \A q \in ProposalIds \ {p} : proposals'[q] = proposals[q]
<1>1. CASE Exists(p)
  BY <1>1, RowsPersist, ClosedRowsStay DEF Open, Exists
<1>2. CASE ~ Exists(p)
  <2>1. PICK u \in Authors, q \in ProposalIds : CreateProposal(u, q)
    <3>1. proposals' # proposals
      BY <1>2 DEF Open, Exists
    <3>2. ASSUME NEW q \in ProposalIds, Exists(q), NEW row, proposals' = [proposals EXCEPT ![q] = row]
          PROVE  FALSE
      BY <1>2, <3>2 DEF Open, Exists, TypeOK
    <3>3. ASSUME NEW u \in Authors, NEW q \in ProposalIds, UpdateProposal(u, q) \/ WithdrawProposal(u, q)
          PROVE  FALSE
      BY <3>2, <3>3 DEF UpdateProposal, WithdrawProposal, Open
    <3>4. ASSUME NEW u \in Users, Reviewer(u) PROVE FALSE
      BY <3>1, <3>2, <3>4 DEF Reviewer, AddReview, AcceptsReview, Open
    <3>5. ASSUME NEW c \in pending, PublishProposal(c) PROVE FALSE
      BY <3>2, <3>5, PublishAppends DEF PublishProposal, Open
    <3>6. CASE \E u \in Authors : Author(u)
      BY <3>1, <3>3, <3>6 DEF Author, OpenEditor, Submit, OpenProposalEditor,
                              DuplicateProposal, UpdateRefused, Rebase
    <3> QED
      BY <3>1, <3>4, <3>5, <3>6 DEF Next, Publisher, PublishRefused, PublishLost, Operator,
                                    Seed, SetRole, vars
  <2>2. q = p
    BY <1>2, <2>1 DEF CreateProposal, Open, Exists, TypeOK
  <2> QED
    BY <1>2, <2>1, <2>2 DEF CreateProposal, CanCreate, TypeOK
<1> QED
  BY <1>1, <1>2

\* One open proposal per user and variant is inductive by itself.
LEMMA NextOneOpen == TypeOK /\ OneOpenPerUserVariant /\ [Next]_vars => OneOpenPerUserVariant'
<1> SUFFICES ASSUME TypeOK, OneOpenPerUserVariant, [Next]_vars,
                    NEW p \in ProposalIds, NEW q \in ProposalIds, Open(p)', Open(q)',
                    proposals'[p].proposer = proposals'[q].proposer,
                    proposals'[p].variant = proposals'[q].variant, p # q
             PROVE  FALSE
  BY DEF OneOpenPerUserVariant
<1>1. CASE ~ Exists(p)
  <2>1. Open(q) /\ proposals'[q] = proposals[q]
    BY <1>1, OpenStep DEF Open, Exists
  <2> QED
    BY <1>1, <2>1, OpenStep DEF OpenProposalsFor, Open
<1>2. CASE ~ Exists(q)
  <2>1. Open(p) /\ proposals'[p] = proposals[p]
    BY <1>2, OpenStep DEF Open, Exists
  <2> QED
    BY <1>2, <2>1, OpenStep DEF OpenProposalsFor, Open
<1>3. CASE Exists(p) /\ Exists(q)
  BY <1>3, OpenStep DEF OneOpenPerUserVariant
<1> QED
  BY <1>1, <1>2, <1>3

\* However tabs and CLIs interleave, a user has one open proposal for a variant.
THEOREM OneOpenProposal == Spec => []OneOpenPerUserVariant
<1>1. Init => OneOpenPerUserVariant
  BY DEF Init, OneOpenPerUserVariant, Open, Exists
<1> QED
  BY <1>1, NextOneOpen, TypeCorrect, PTL DEF Spec

-----------------------------------------------------------------------------
(* A publication is the version after its base, and the only one.           *)

\* A form that passed the handler names the variant it is for, and the
\* proposal it updates is one of that variant.
NamesItsVariant(form, rows) ==
  /\ form.phase = "submitted" => form.target = form.variant
  /\ form.proposal # None => /\ rows[form.proposal] # None
                             /\ rows[form.proposal].variant = form.variant
FormsNameTheirVariant ==
  \A u \in Users : draft[u] # None => NamesItsVariant(draft[u], proposals)

\* Rows would publish where they were opened.
RowsNameTheirVariant ==
  \A p \in ProposalIds : Exists(p) => proposals[p].target = proposals[p].variant

\* Handlers on their way to PublishProposal publish there, too.
PendingNamesItsVariant ==
  \A c \in pending : Exists(c.proposal) /\ c.target = proposals[c.proposal].variant

TargetInv == FormsNameTheirVariant /\ RowsNameTheirVariant /\ PendingNamesItsVariant

\* Handlers check what a form names, and a row and a form keep it since.
LEMMA NextFormsNameTheirVariant ==
  ASSUME TypeOK, FormsNameTheirVariant, [Next]_vars
  PROVE  FormsNameTheirVariant'
<1> SUFFICES ASSUME NEW u \in Users, draft'[u] # None
             PROVE  NamesItsVariant(draft'[u], proposals')
  BY DEF FormsNameTheirVariant
<1>1. ASSUME NEW p \in ProposalIds, Exists(p)
      PROVE  Exists(p)' /\ proposals'[p].variant = proposals[p].variant
  BY <1>1, RowsPersist
<1>2. CASE draft'[u] = draft[u]
  <2>1. draft[u].proposal \in ProposalIds \cup {None}
    BY <1>2 DEF TypeOK, Draft
  <2> QED
    BY <1>1, <1>2, <2>1 DEF FormsNameTheirVariant, NamesItsVariant, Exists
<1>3. ASSUME NEW p \in ProposalIds \cup {None}, NEW v \in Variants, NEW n,
             draft'[u] = EmptyForm(p, v, n),
             p # None => Exists(p) /\ proposals[p].variant = v
      PROVE  NamesItsVariant(draft'[u], proposals')
  BY <1>1, <1>3 DEF EmptyForm, NamesItsVariant, Exists
<1>4. ASSUME NEW w \in Authors, Author(w), draft'[u] # draft[u]
      PROVE  NamesItsVariant(draft'[u], proposals')
  <2>1. \A p \in ProposalIds : Exists(p) => proposals[p].variant \in Variants
    BY DEF TypeOK, Exists, Proposal
  <2>2. draft[u] # None => /\ draft[u].variant \in Variants
                           /\ draft[u].proposal \in ProposalIds \cup {None}
    BY DEF TypeOK, Draft
  <2>3. ASSUME NEW v \in Variants, OpenEditor(w, v)
        PROVE  draft'[u] = EmptyForm(None, v, LiveVersion(v))
    BY <1>4, <2>3 DEF OpenEditor, TypeOK
  <2>4. ASSUME NEW v \in Variants, Submit(w, v)
        PROVE  /\ draft'[u].target = draft'[u].variant
               /\ draft[u] # None
               /\ draft'[u].variant = draft[u].variant /\ draft'[u].proposal = draft[u].proposal
    <3>1. u = w /\ draft[u] \in Draft
      BY <1>4, <2>4 DEF Submit, TypeOK
    <3> QED
      BY <2>4, <3>1 DEF Submit, AcceptsTarget, Draft, TypeOK
  <2>5. ASSUME NEW p \in ProposalIds, OpenProposalEditor(w, p)
        PROVE  Exists(p) /\ draft'[u] = EmptyForm(p, proposals[p].variant, authored[p])
    BY <1>4, <2>5 DEF OpenProposalEditor, Open, TypeOK
  <2>6. ASSUME NEW p \in ProposalIds, CreateProposal(w, p) \/ UpdateProposal(w, p)
        PROVE  FALSE
    BY <1>4, <2>6 DEF CreateProposal, UpdateProposal, TypeOK
  <2>7. ASSUME NEW p \in ProposalIds, DuplicateProposal(w, p)
        PROVE  /\ Exists(p) /\ draft[u] # None
               /\ proposals[p].variant = draft[u].variant
               /\ \E n : draft'[u] = EmptyForm(p, draft[u].variant, n)
    BY <1>4, <2>7 DEF DuplicateProposal, OpenProposalsFor, Open, TypeOK
  <2>8. ASSUME NEW p \in ProposalIds, UpdateRefused(w, p)
        PROVE  draft[u] # None /\ \E n : draft'[u] = EmptyForm(None, draft[u].variant, n)
    BY <1>4, <2>8 DEF UpdateRefused, TypeOK
  <2>9. ASSUME NEW p \in ProposalIds, WithdrawProposal(w, p) PROVE FALSE
    BY <1>4, <2>9 DEF WithdrawProposal
  <2>10. CASE Rebase(w)
    <3>1. draft[u] # None /\ draft'[u] = EmptyForm(draft[u].proposal, draft[u].variant,
                                                   LiveVersion(draft[u].variant))
      BY <1>4, <2>10 DEF Rebase, TypeOK
    <3> QED
      BY <1>3, <2>2, <3>1 DEF FormsNameTheirVariant, NamesItsVariant, Exists
  <2>11. CASE \E v \in Variants : Submit(w, v)
    BY <1>1, <2>2, <2>4, <2>11 DEF FormsNameTheirVariant, NamesItsVariant, Exists
  <2> QED
    BY <1>3, <1>4, <2>1, <2>2, <2>3, <2>5, <2>6, <2>7, <2>8, <2>9, <2>10, <2>11 DEF Author
<1>5. CASE \E w \in Users : Reviewer(w)
  BY <1>2, <1>5 DEF Reviewer, AddReview
<1>6. CASE Publisher \/ Operator \/ UNCHANGED vars
  BY <1>2, <1>6 DEF Publisher, PublishProposal, PublishRefused, PublishLost, Operator, Seed, SetRole, vars
<1> QED
  BY <1>2, <1>4, <1>5, <1>6 DEF Next

\* A row is inserted and revised with the target of a form that names its variant.
LEMMA NextRowsNameTheirVariant ==
  ASSUME TypeOK, FormsNameTheirVariant, RowsNameTheirVariant, [Next]_vars
  PROVE  RowsNameTheirVariant'
<1> SUFFICES ASSUME NEW p \in ProposalIds, Exists(p)'
             PROVE  proposals'[p].target = proposals'[p].variant
  BY DEF RowsNameTheirVariant
<1>1. CASE proposals'[p] = proposals[p]
  BY <1>1 DEF RowsNameTheirVariant, Exists
<1>2. ASSUME NEW q \in ProposalIds, NEW row, proposals' = [proposals EXCEPT ![q] = row],
             row.target = row.variant
      PROVE  proposals'[p].target = proposals'[p].variant
  BY <1>1, <1>2 DEF TypeOK
<1>3. ASSUME NEW u \in Authors, NEW q \in ProposalIds, CreateProposal(u, q)
      PROVE  proposals'[p].target = proposals'[p].variant
  BY <1>2, <1>3, ProposalsAssumption DEF CreateProposal, FormsNameTheirVariant, NamesItsVariant
<1>4. ASSUME NEW u \in Authors, NEW q \in ProposalIds, UpdateProposal(u, q)
      PROVE  proposals'[p].target = proposals'[p].variant
  <2>1. /\ draft[u].target = draft[u].variant
        /\ draft[u].variant = proposals[q].variant
    BY <1>4, NoneAssumption, ProposalsAssumption DEF UpdateProposal, FormsNameTheirVariant, NamesItsVariant
  <2>2. proposals[q] \in Proposal
    BY <1>4 DEF UpdateProposal, Open, Exists, TypeOK
  <2>3. Revised(proposals[q], draft[u]).target = Revised(proposals[q], draft[u]).variant
    BY <2>1, <2>2 DEF Revised, Proposal
  <2> QED
    BY <1>2, <1>4, <2>3 DEF UpdateProposal
<1>5. ASSUME NEW q \in ProposalIds, Open(q), NEW s, NEW n,
             \/ proposals' = [proposals EXCEPT ![q] = [proposals[q] EXCEPT !.status = s]]
             \/ proposals' = [proposals EXCEPT ![q] = [proposals[q] EXCEPT !.status = s,
                                                                          !.publishedVersion = n]]
      PROVE  proposals'[p].target = proposals'[p].variant
  <2>1. proposals[q] \in Proposal /\ proposals[q].target = proposals[q].variant
    BY <1>5 DEF Open, Exists, TypeOK, RowsNameTheirVariant
  <2>2. /\ [proposals[q] EXCEPT !.status = s].target = [proposals[q] EXCEPT !.status = s].variant
        /\ [proposals[q] EXCEPT !.status = s, !.publishedVersion = n].target
             = [proposals[q] EXCEPT !.status = s, !.publishedVersion = n].variant
    BY <2>1 DEF Proposal
  <2> QED
    BY <1>2, <1>5, <2>2
<1>6. CASE \E u \in Authors : Author(u)
  BY <1>1, <1>3, <1>4, <1>5, <1>6 DEF Author, OpenEditor, Submit, OpenProposalEditor,
     DuplicateProposal, UpdateRefused, WithdrawProposal, Rebase
<1>7. CASE \E u \in Users : Reviewer(u)
  BY <1>1, <1>5, <1>7 DEF Reviewer, AddReview, AcceptsReview
<1>8. CASE Publisher
  <2>1. ASSUME NEW c \in pending, PublishProposal(c)
        PROVE  proposals'[p].target = proposals'[p].variant
    BY <1>5, <2>1, PublishAppends DEF PublishProposal
  <2> QED
    BY <1>1, <1>8, <2>1 DEF Publisher, PublishRefused, PublishLost
<1>9. CASE Operator \/ UNCHANGED vars
  BY <1>1, <1>9 DEF Operator, Seed, SetRole, vars
<1> QED
  BY <1>6, <1>7, <1>8, <1>9 DEF Next

\* A decision to publish carries the target of the row.
LEMMA NextPendingNamesItsVariant ==
  ASSUME TypeOK, RowsNameTheirVariant, PendingNamesItsVariant, [Next]_vars
  PROVE  PendingNamesItsVariant'
<1> SUFFICES ASSUME NEW c \in pending'
             PROVE  Exists(c.proposal)' /\ c.target = proposals'[c.proposal].variant
  BY DEF PendingNamesItsVariant
<1>1. CASE c \in pending
  <2>1. c.proposal \in ProposalIds
    BY <1>1 DEF TypeOK, Publication
  <2> QED
    BY <1>1, <2>1, RowsPersist DEF PendingNamesItsVariant
<1>2. ASSUME NEW u \in Users, NEW p \in ProposalIds, NEW verdict \in Verdicts,
             NEW seen \in 1..MaxRevision, AddReview(u, p, verdict, seen), c \notin pending
      PROVE  Exists(c.proposal)' /\ c.target = proposals'[c.proposal].variant
  <2>1. c = [proposal |-> p, revision |-> proposals[p].revision, target |-> proposals[p].target,
             reviewer |-> u]
    BY <1>2 DEF AddReview, DecisionOn
  <2>2. Exists(p)
    BY <1>2 DEF AddReview, AcceptsReview, Open
  <2> QED
    BY <2>1, <2>2, RowsPersist DEF RowsNameTheirVariant
<1>3. CASE pending' \subseteq pending
  BY <1>1, <1>3
<1>4. CASE \E u \in Authors : Author(u)
  BY <1>3, <1>4 DEF Author, OpenEditor, Submit, OpenProposalEditor, CreateProposal,
                    DuplicateProposal, UpdateProposal, UpdateRefused, WithdrawProposal, Rebase
<1>5. CASE Publisher \/ Operator \/ UNCHANGED vars
  BY <1>3, <1>5 DEF Publisher, PublishProposal, PublishRefused, PublishLost, Operator, Seed, SetRole, vars
<1> QED
  BY <1>1, <1>2, <1>4, <1>5 DEF Next, Reviewer
\* A published row was published before, or a handler has just published it.
LEMMA PublishedStep ==
  ASSUME TypeOK, [Next]_vars, NEW p \in ProposalIds,
         Exists(p)', proposals'[p].status = "published"
  PROVE  \/ Exists(p) /\ proposals'[p] = proposals[p]
         \/ \E c \in pending : c.proposal = p /\ PublishProposal(c)
<1>1. CASE proposals'[p] = proposals[p]
  BY <1>1 DEF Exists
<1>2. ASSUME NEW q \in ProposalIds, NEW row, proposals' = [proposals EXCEPT ![q] = row],
             row.status # "published"
      PROVE  proposals'[p] = proposals[p]
  BY <1>2 DEF TypeOK
<1>3. ASSUME NEW q \in ProposalIds, Open(q), NEW s, s # "published",
             proposals' = [proposals EXCEPT ![q] = [proposals[q] EXCEPT !.status = s]]
      PROVE  proposals'[p] = proposals[p]
  <2>1. [proposals[q] EXCEPT !.status = s].status = s
    BY <1>3 DEF Open, Exists, TypeOK, Proposal
  <2> QED
    BY <1>2, <1>3, <2>1
<1>4. CASE \E u \in Authors : Author(u)
  <2>1. ASSUME NEW u \in Authors, NEW q \in ProposalIds, CreateProposal(u, q)
        PROVE  proposals'[p] = proposals[p]
    BY <1>2, <2>1 DEF CreateProposal
  <2>2. ASSUME NEW u \in Authors, NEW q \in ProposalIds, UpdateProposal(u, q)
        PROVE  proposals'[p] = proposals[p]
    <3>1. Revised(proposals[q], draft[u]).status = "open"
      BY <2>2 DEF UpdateProposal, Open, Exists, TypeOK, Proposal, Revised
    <3> QED
      BY <1>2, <2>2, <3>1 DEF UpdateProposal
  <2>3. ASSUME NEW u \in Authors, NEW q \in ProposalIds, WithdrawProposal(u, q)
        PROVE  proposals'[p] = proposals[p]
    BY <1>3, <2>3 DEF WithdrawProposal
  <2> QED
    BY <1>1, <1>4, <2>1, <2>2, <2>3 DEF Author, OpenEditor, Submit, OpenProposalEditor,
                                       DuplicateProposal, UpdateRefused, Rebase
<1>5. CASE \E u \in Users : Reviewer(u)
  BY <1>1, <1>3, <1>5 DEF Reviewer, AddReview, AcceptsReview
<1>6. CASE Publisher
  <2>1. ASSUME NEW c \in pending, PublishProposal(c), c.proposal # p
        PROVE  proposals'[p] = proposals[p]
    BY <2>1 DEF PublishProposal, TypeOK
  <2> QED
    BY <1>1, <1>6, <2>1 DEF Publisher, PublishRefused, PublishLost
<1>7. CASE Operator \/ UNCHANGED vars
  BY <1>1, <1>7 DEF Operator, Seed, SetRole, vars
<1> QED
  BY <1>1, <1>4, <1>5, <1>6, <1>7 DEF Next

\* What is in a variant's history stays where it is.
LEMMA HistoryGrows ==
  ASSUME TypeOK, [Next]_vars, NEW v \in Variants, NEW n \in DOMAIN history[v]
  PROVE  n \in DOMAIN history'[v] /\ history'[v][n] = history[v][n]
<1>0. history[v] \in Seq(Document)
  BY DEF TypeOK
<1>1. ASSUME NEW d, history'[v] = Append(history[v], d)
      PROVE  n \in DOMAIN history'[v] /\ history'[v][n] = history[v][n]
  BY <1>0, <1>1
<1>2. CASE history'[v] = history[v]
  BY <1>2
<1>3. CASE Publisher
  <2>1. ASSUME NEW c \in pending, PublishProposal(c)
        PROVE  n \in DOMAIN history'[v] /\ history'[v][n] = history[v][n]
    BY <1>1, <1>2, <2>1, PublishAppends
  <2> QED
    BY <1>2, <1>3, <2>1 DEF Publisher, PublishRefused, PublishLost
<1>4. CASE Operator
  <2>1. ASSUME NEW w \in Variants, Seed(w)
        PROVE  n \in DOMAIN history'[v] /\ history'[v][n] = history[v][n]
    <3>1. history'[v] = history[v] \/ \E d : history'[v] = Append(history[v], d)
      BY <2>1 DEF Seed, TypeOK
    <3> QED
      BY <1>1, <1>2, <3>1
  <2> QED
    BY <1>2, <1>4, <2>1 DEF Operator, SetRole
<1>5. CASE \E u \in Authors : Author(u)
  BY <1>2, <1>5 DEF Author, OpenEditor, Submit, OpenProposalEditor, CreateProposal,
                    DuplicateProposal, UpdateProposal, UpdateRefused, WithdrawProposal, Rebase
<1>6. CASE (\E u \in Users : Reviewer(u)) \/ UNCHANGED vars
  BY <1>2, <1>6 DEF Reviewer, AddReview, vars
<1> QED
  BY <1>3, <1>4, <1>5, <1>6 DEF Next

\* What a publication leaves: its row says which version of which variant the
\* revision became.
LEMMA PublishMarks ==
  ASSUME TypeOK, RowsNameTheirVariant, PendingNamesItsVariant,
         NEW c \in pending, PublishProposal(c)
  PROVE  LET p == c.proposal
             n == LiveVersion(c.target) + 1
         IN /\ proposals'[p] # None
            /\ proposals'[p].status = "published"
            /\ proposals'[p].variant = c.target
            /\ proposals'[p].publishedVersion = n
            /\ proposals'[p].revision = c.revision
            /\ proposals'[p].base + 1 = n
            /\ n \in DOMAIN history'[c.target]
            /\ history'[c.target][n] = Revision(p, c.revision)
<1>1. /\ c.proposal \in ProposalIds /\ Exists(c.proposal)
      /\ proposals[c.proposal] \in Proposal
      /\ c.target = proposals[c.proposal].variant
  BY PublishAppends DEF Open, Exists, TypeOK, PendingNamesItsVariant
<1>2. PICK n : n = LiveVersion(c.target) + 1
  OBVIOUS
<1>3. PICK row : row = [proposals[c.proposal] EXCEPT !.status = "published", !.publishedVersion = n]
  OBVIOUS
<1>4. proposals'[c.proposal] = row
  BY <1>1, <1>2, <1>3 DEF PublishProposal, TypeOK
<1>5. /\ row.status = "published" /\ row.variant = c.target /\ row.publishedVersion = n
      /\ row.revision = c.revision /\ row.base + 1 = n
  BY <1>1, <1>2, <1>3, PublishAppends DEF Proposal
<1>6. row # None
  <2>1. n \in Nat
    BY <1>2, PublishAppends, LiveVersionType
  <2>2. row \in Proposal
    BY <1>1, <1>3, <2>1 DEF Proposal, Statuses
  <2> QED
    BY <2>2, NoneAssumption
<1>7. n \in DOMAIN history'[c.target] /\ history'[c.target][n] = Revision(c.proposal, c.revision)
  <2>1. history[c.target] \in Seq(Document)
    BY PublishAppends DEF TypeOK
  <2>2. Revision(c.proposal, c.revision) \in Document
    BY DEF Revision, Document, TypeOK, Publication
  <2> QED
    BY <1>2, <2>1, <2>2, PublishAppends DEF LiveVersion
<1> QED
  BY <1>2, <1>4, <1>5, <1>6, <1>7

\* PublishedOnItsBase and PublishedOnce hold of what a step has just published
\* because of what its handler carries, and of the rest because closed rows and
\* histories stay.
PublicationInv == TargetInv /\ PublishedOnItsBase /\ PublishedOnce

\* A row is marked published with the version it became.
LEMMA NextPublishedOnItsBase ==
  ASSUME TypeOK, TargetInv, PublishedOnItsBase, [Next]_vars
  PROVE  PublishedOnItsBase'
<1> SUFFICES ASSUME NEW p \in ProposalIds, Exists(p)', proposals'[p].status = "published",
                    NEW v, v = proposals'[p].variant, NEW n, n = proposals'[p].publishedVersion
             PROVE  /\ n = proposals'[p].base + 1
                    /\ n \in DOMAIN history'[v]
                    /\ history'[v][n] = Revision(p, proposals'[p].revision)
  BY DEF PublishedOnItsBase
<1>1. CASE Exists(p) /\ proposals'[p] = proposals[p]
  <2>1. v \in Variants
    BY <1>1 DEF Exists, TypeOK, Proposal
  <2> QED
    BY <1>1, <2>1, HistoryGrows DEF PublishedOnItsBase
<1>2. ASSUME NEW c \in pending, c.proposal = p, PublishProposal(c)
      PROVE  /\ n = proposals'[p].base + 1
             /\ n \in DOMAIN history'[v]
             /\ history'[v][n] = Revision(p, proposals'[p].revision)
  BY <1>2, PublishMarks DEF TargetInv
<1> QED
  BY <1>1, <1>2, PublishedStep

\* A version comes from the one row that says so.
LEMMA NextPublishedOnce ==
  ASSUME TypeOK, TargetInv, PublishedOnce, [Next]_vars
  PROVE  PublishedOnce'
<1> SUFFICES ASSUME NEW v \in Variants, NEW n \in DOMAIN history'[v],
                    NEW p, p = history'[v][n].from, p # None
             PROVE  /\ Exists(p)'
                    /\ proposals'[p].status = "published"
                    /\ proposals'[p].variant = v
                    /\ proposals'[p].publishedVersion = n
  BY DEF PublishedOnce, Exists
<1>1. CASE n \in DOMAIN history[v] /\ history'[v][n] = history[v][n]
  <2>1. /\ Exists(p) /\ ~ Open(p)
        /\ proposals[p].status = "published"
        /\ proposals[p].variant = v
        /\ proposals[p].publishedVersion = n
    BY <1>1 DEF PublishedOnce, Open
  <2>2. history[v][n] \in Document
    BY <1>1 DEF TypeOK
  <2>3. p \in ProposalIds
    BY <1>1, <2>2 DEF Document
  <2> QED
    BY <2>1, <2>3, ClosedRowsStay DEF Exists
<1>2. ASSUME NEW c \in pending, PublishProposal(c), c.target = v, n = LiveVersion(v) + 1,
             history'[v][n] = Revision(c.proposal, c.revision)
      PROVE  /\ Exists(p)'
             /\ proposals'[p].status = "published"
             /\ proposals'[p].variant = v
             /\ proposals'[p].publishedVersion = n
  <2>1. p = c.proposal
    BY <1>2 DEF Revision
  <2> QED
    BY <1>2, <2>1, PublishMarks DEF TargetInv, Exists
<1> QED
  BY <1>1, <1>2, HistoryStep

\* Nothing is submitted, decided or published in the beginning.
LEMMA InitPublicationInv == Init => PublicationInv
<1> SUFFICES ASSUME Init PROVE PublicationInv
  OBVIOUS
<1>1. TargetInv
  BY DEF Init, TargetInv, FormsNameTheirVariant, RowsNameTheirVariant, PendingNamesItsVariant, Exists
<1>2. PublishedOnItsBase
  BY DEF Init, PublishedOnItsBase, Exists
<1>3. PublishedOnce
  <2>1. \A v \in Variants : history[v] \in {<<>>, <<Import(0)>>}
    BY DEF Init
  <2>2. \A n \in DOMAIN <<Import(0)>> : <<Import(0)>>[n].from = None
    BY DEF Import
  <2> QED
    BY <2>1, <2>2 DEF PublishedOnce
<1> QED
  BY <1>1, <1>2, <1>3 DEF PublicationInv

\* The publication invariant is inductive.
LEMMA NextPublicationInv == TypeOK /\ PublicationInv /\ [Next]_vars => PublicationInv'
<1> SUFFICES ASSUME TypeOK, PublicationInv, [Next]_vars PROVE PublicationInv'
  OBVIOUS
<1>1. TargetInv'
  BY NextFormsNameTheirVariant, NextRowsNameTheirVariant, NextPendingNamesItsVariant
     DEF PublicationInv, TargetInv
<1> QED
  BY <1>1, NextPublishedOnItsBase, NextPublishedOnce DEF PublicationInv

\* The invariant holds of every reachable state.
LEMMA Publications == Spec => []PublicationInv
  BY InitPublicationInv, NextPublicationInv, TypeCorrect, PTL DEF Spec

\* A published proposal is the version right after its base, with the text its
\* row holds, in the variant it was opened for.
THEOREM PublishedRowsAreLive == Spec => []PublishedOnItsBase
  BY Publications, PTL DEF PublicationInv

\* No two versions come from one proposal.
THEOREM RowsPublishOnce == Spec => []PublishedOnce
  BY Publications, PTL DEF PublicationInv

-----------------------------------------------------------------------------
(* The workflow implements the log of reviewed documents.                   *)

\* Endorsements are of rows that exist, and no row is revised past the bound.
EndorsementsExist == \A e \in endorsements : Exists(e.proposal)
RevisionsBounded ==
  \A p \in ProposalIds : Exists(p) => proposals[p].revision <= MaxRevision
ReviewedInv == EndorsementInv /\ PublicationInv /\ EndorsementsExist /\ RevisionsBounded

\* An endorsement is added by a reviewer of a row that exists.
LEMMA NextEndorsementsExist ==
  ASSUME TypeOK, EndorsementsExist, [Next]_vars
  PROVE  EndorsementsExist'
<1> SUFFICES ASSUME NEW e \in endorsements' PROVE Exists(e.proposal)'
  BY DEF EndorsementsExist
<1>1. CASE e \in endorsements
  <2>1. e.proposal \in ProposalIds
    BY <1>1 DEF TypeOK, Endorsement
  <2> QED
    BY <1>1, <2>1, RowsPersist DEF EndorsementsExist
<1>2. CASE \E u \in Users : Reviewer(u)
  <2>1. PICK u \in Users, p \in ProposalIds, verdict \in Verdicts, seen \in 1..MaxRevision :
          AddReview(u, p, verdict, seen)
    BY <1>2 DEF Reviewer
  <2>2. Exists(p)
    BY <2>1 DEF AddReview, AcceptsReview, Open
  <2>3. e \in endorsements \/ e.proposal = p
    BY <2>1 DEF AddReview
  <2> QED
    BY <1>1, <2>2, <2>3, RowsPersist
<1>3. CASE UNCHANGED endorsements
  BY <1>1, <1>3
<1>4. CASE \E u \in Authors : Author(u)
  BY <1>3, <1>4 DEF Author, OpenEditor, Submit, OpenProposalEditor, CreateProposal,
                    DuplicateProposal, UpdateProposal, UpdateRefused, WithdrawProposal, Rebase
<1>5. CASE Publisher \/ Operator \/ UNCHANGED vars
  BY <1>3, <1>5 DEF Publisher, PublishProposal, PublishRefused, PublishLost, Operator, Seed, SetRole, vars
<1> QED
  BY <1>2, <1>4, <1>5 DEF Next

\* Only an update raises a revision, and not past the bound.
LEMMA NextRevisionsBounded ==
  ASSUME TypeOK, RevisionsBounded, [Next]_vars
  PROVE  RevisionsBounded'
<1> SUFFICES ASSUME NEW p \in ProposalIds, Exists(p)'
             PROVE  proposals'[p].revision <= MaxRevision
  BY DEF RevisionsBounded
<1>1. CASE proposals'[p] = proposals[p]
  BY <1>1 DEF RevisionsBounded, Exists
<1>2. ASSUME NEW q \in ProposalIds, NEW row, proposals' = [proposals EXCEPT ![q] = row],
             row.revision <= MaxRevision
      PROVE  proposals'[p].revision <= MaxRevision
  BY <1>1, <1>2 DEF TypeOK
<1>3. ASSUME NEW q \in ProposalIds, Open(q), NEW s, NEW n,
             \/ proposals' = [proposals EXCEPT ![q] = [proposals[q] EXCEPT !.status = s]]
             \/ proposals' = [proposals EXCEPT ![q] = [proposals[q] EXCEPT !.status = s,
                                                                          !.publishedVersion = n]]
      PROVE  proposals'[p].revision <= MaxRevision
  <2>1. proposals[q] \in Proposal /\ proposals[q].revision <= MaxRevision
    BY <1>3 DEF Open, Exists, TypeOK, RevisionsBounded
  <2>2. /\ [proposals[q] EXCEPT !.status = s].revision <= MaxRevision
        /\ [proposals[q] EXCEPT !.status = s, !.publishedVersion = n].revision <= MaxRevision
    BY <2>1 DEF Proposal
  <2> QED
    BY <1>2, <1>3, <2>2
<1>4. CASE \E u \in Authors : Author(u)
  <2>1. ASSUME NEW u \in Authors, NEW q \in ProposalIds, CreateProposal(u, q)
        PROVE  proposals'[p].revision <= MaxRevision
    <3>1. PICK row : row = [proposer |-> u, variant |-> draft[u].variant,
                            target |-> draft[u].target, base |-> draft[u].base, revision |-> 1,
                            status |-> "open", publishedVersion |-> 0]
      OBVIOUS
    <3>2. row.revision <= MaxRevision
      BY <3>1, ProposalsAssumption
    <3>3. proposals' = [proposals EXCEPT ![q] = row]
      BY <2>1, <3>1 DEF CreateProposal
    <3> QED
      BY <1>2, <3>2, <3>3
  <2>2. ASSUME NEW u \in Authors, NEW q \in ProposalIds, UpdateProposal(u, q)
        PROVE  proposals'[p].revision <= MaxRevision
    <3>1. /\ proposals[q].revision < MaxRevision /\ proposals[q].revision \in Nat
          /\ Revised(proposals[q], draft[u]).revision = proposals[q].revision + 1
      BY <2>2 DEF UpdateProposal, Open, Exists, TypeOK, Proposal, Revised
    <3>2. Revised(proposals[q], draft[u]).revision <= MaxRevision
      BY <3>1, ProposalsAssumption
    <3> QED
      BY <1>2, <2>2, <3>2 DEF UpdateProposal
  <2> QED
    BY <1>1, <1>3, <1>4, <2>1, <2>2 DEF Author, OpenEditor, Submit, OpenProposalEditor,
                    DuplicateProposal, UpdateRefused, WithdrawProposal, Rebase
<1>5. CASE \E u \in Users : Reviewer(u)
  BY <1>1, <1>3, <1>5 DEF Reviewer, AddReview, AcceptsReview
<1>6. CASE Publisher
  <2>1. ASSUME NEW c \in pending, PublishProposal(c)
        PROVE  proposals'[p].revision <= MaxRevision
    BY <1>3, <2>1, PublishAppends DEF PublishProposal
  <2> QED
    BY <1>1, <1>6, <2>1 DEF Publisher, PublishRefused, PublishLost
<1>7. CASE Operator \/ UNCHANGED vars
  BY <1>1, <1>7 DEF Operator, Seed, SetRole, vars
<1> QED
  BY <1>4, <1>5, <1>6, <1>7 DEF Next

\* The invariant the refinement needs is inductive.
LEMMA Reviews == Spec => []ReviewedInv
<1>1. Init => EndorsementsExist /\ RevisionsBounded
  BY DEF Init, EndorsementsExist, RevisionsBounded, Exists
<1>2. TypeOK /\ EndorsementsExist /\ RevisionsBounded /\ [Next]_vars
        => EndorsementsExist' /\ RevisionsBounded'
  BY NextEndorsementsExist, NextRevisionsBounded
<1>3. TypeOK /\ EndorsementInv /\ [Next]_vars => EndorsementInv'
  BY NextReviewsAreEndorsed, NextPendingIsEndorsed, NextLiveIsEndorsed DEF EndorsementInv
<1> QED
  BY <1>1, <1>2, <1>3, InitEndorsementInv, Publications, TypeCorrect, PTL DEF Spec, ReviewedInv

\* Whether a revision is endorsed depends on the endorsements of it, and on
\* the row's proposer, which no step changes.
LEMMA EndorsedByItsEndorsements ==
  ASSUME TypeOK, EndorsementsExist, [Next]_vars, NEW p \in ProposalIds, NEW r,
         \A e \in endorsements' \ endorsements : e.proposal # p \/ e.revision # r
  PROVE  Exists(p)' /\ Endorsed(p, r)' <=> Exists(p) /\ Endorsed(p, r)
<1>1. CASE Exists(p)
  <2>1. /\ Exists(p)' /\ proposals'[p].proposer = proposals[p].proposer
        /\ endorsements \subseteq endorsements'
    BY <1>1, RowsPersist
  <2>2. Endorsers(p, r)' = Endorsers(p, r)
    BY <2>1 DEF Endorsers
  <2>3. AdminEndorsed(p, r)' <=> AdminEndorsed(p, r)
    BY <2>1 DEF AdminEndorsed
  <2> QED
    BY <1>1, <2>1, <2>2, <2>3 DEF Endorsed
<1>2. CASE ~ Exists(p)
  <2>1. \A e \in endorsements' : e.proposal # p \/ e.revision # r
    BY <1>2 DEF EndorsementsExist
  <2>2. Endorsers(p, r)' = {}
    BY <2>1 DEF Endorsers
  <2>3. ~ AdminEndorsed(p, r)'
    BY <2>1 DEF AdminEndorsed
  <2>4. Cardinality(Endorsers(p, r)') = 0
    BY <2>2, FS_EmptySet
  <2>5. ~ Endorsed(p, r)'
    BY <2>3, <2>4, ProposalsAssumption DEF Endorsed
  <2> QED
    BY <1>2, <2>5
<1> QED
  BY <1>1, <1>2

\* What is approved grows by the revision that was reviewed, at most.
LEMMA ApprovedGrows ==
  ASSUME TypeOK, EndorsementsExist, [Next]_vars, NEW d,
         \A e \in endorsements' \ endorsements : d = Revision(e.proposal, e.revision)
  PROVE  ApprovedRevisions' \in {ApprovedRevisions, ApprovedRevisions \cup {d}}
<1> DEFINE All == {Revision(p, r) : p \in ProposalIds, r \in 1..MaxRevision}
<1>1. ASSUME NEW x \in All
      PROVE  Exists(x.from) /\ Endorsed(x.from, x.revision)
               => Exists(x.from)' /\ Endorsed(x.from, x.revision)'
  <2>1. x.from \in ProposalIds
    BY DEF Revision
  <2> QED
    BY <2>1, RowsPersist, EndorsedPersists
<1>2. ASSUME NEW x \in All, x # d
      PROVE  Exists(x.from)' /\ Endorsed(x.from, x.revision)'
               => Exists(x.from) /\ Endorsed(x.from, x.revision)
  <2>1. x.from \in ProposalIds /\ x = Revision(x.from, x.revision)
    BY DEF Revision
  <2>2. \A e \in endorsements' \ endorsements : e.proposal # x.from \/ e.revision # x.revision
    BY <1>2, <2>1
  <2> QED
    BY <2>1, <2>2, EndorsedByItsEndorsements
<1> HIDE DEF All
<1>3. /\ ApprovedRevisions = {x \in All : Exists(x.from) /\ Endorsed(x.from, x.revision)}
      /\ ApprovedRevisions' = {x \in All : Exists(x.from)' /\ Endorsed(x.from, x.revision)'}
  BY DEF ApprovedRevisions, All
<1> QED
  BY <1>1, <1>2, <1>3

\* Nothing new is approved by a step that records no endorsement.
LEMMA ApprovedStays ==
  ASSUME TypeOK, EndorsementsExist, [Next]_vars, UNCHANGED endorsements
  PROVE  ApprovedRevisions' = ApprovedRevisions
<1>1. \A d : ApprovedRevisions' \in {ApprovedRevisions, ApprovedRevisions \cup {d}}
  BY ApprovedGrows
<1>2. /\ ApprovedRevisions' \in {ApprovedRevisions, ApprovedRevisions \cup {1}}
      /\ ApprovedRevisions' \in {ApprovedRevisions, ApprovedRevisions \cup {2}}
  BY <1>1
<1> QED
  BY <1>2

\* The initial states are initial states of the log.
LEMMA InitReviewed == Init => Reviewed!Init
<1> SUFFICES ASSUME Init PROVE Reviewed!Init
  OBVIOUS
<1>1. Import(0) \in Reviewed!Imports
  BY ProposalsAssumption DEF Reviewed!Imports, Import
<1>2. <<>> \in Seq(Reviewed!Imports) /\ <<Import(0)>> \in Seq(Reviewed!Imports)
  BY <1>1
<1>3. ApprovedRevisions = {}
  BY DEF Init, ApprovedRevisions, Exists, Revision
<1> QED
  BY <1>2, <1>3 DEF Init, Reviewed!Init

\* Every step is a step of the log, or one it does not see.
LEMMA NextReviewed ==
  ASSUME TypeOK, ReviewedInv, [Next]_vars
  PROVE  [Reviewed!Next]_(Reviewed!vars)
<1>0. EndorsementsExist
  BY DEF ReviewedInv
<1>1. CASE UNCHANGED <<history, endorsements>>
  BY <1>0, <1>1, ApprovedStays DEF Reviewed!vars
<1>2. CASE \E u \in Users : Reviewer(u)
  <2>1. PICK u \in Users, p \in ProposalIds, verdict \in Verdicts, seen \in 1..MaxRevision :
          AddReview(u, p, verdict, seen)
    BY <1>2 DEF Reviewer
  <2>2. PICK d : d = Revision(p, seen)
    OBVIOUS
  <2>3. \A e \in endorsements' \ endorsements : d = Revision(e.proposal, e.revision)
    BY <2>1, <2>2 DEF AddReview
  <2>4. ApprovedRevisions' \in {ApprovedRevisions, ApprovedRevisions \cup {d}}
    BY <1>0, <2>3, ApprovedGrows
  <2>5. d \in Reviewed!Revisions
    BY <2>2, NoneAssumption DEF Reviewed!Revisions, Reviewed!Imports, Revision
  <2>6. history' = history
    BY <2>1 DEF AddReview
  <2> QED
    BY <2>4, <2>5, <2>6 DEF Reviewed!vars, Reviewed!Next, Reviewed!Approve
<1>3. CASE Publisher
  <2>1. PICK c \in pending : PublishProposal(c) \/ PublishRefused(c) \/ PublishLost(c)
    BY <1>3 DEF Publisher
  <2>2. CASE PublishProposal(c)
    <3>1. PICK d : d = Revision(c.proposal, c.revision)
      OBVIOUS
    <3>2. c.proposal \in ProposalIds /\ Open(c.proposal) /\ c.target \in Variants
      BY <2>2, PublishAppends
    <3>3. c.revision \in 1..MaxRevision
      BY <2>2, <3>2, PublishAppends DEF ReviewedInv, RevisionsBounded, Open, Exists, TypeOK, Proposal
    <3>4. d \in ApprovedRevisions
      BY <3>1, <3>2, <3>3 DEF ReviewedInv, EndorsementInv, PendingIsEndorsed, ApprovedRevisions, Revision
    <3>5. d \in Reviewed!Revisions
      BY <3>1, <3>2, <3>3, NoneAssumption DEF Reviewed!Revisions, Reviewed!Imports, Revision
    <3>6. ~ Reviewed!WentLive(d.from)
      BY <3>1, <3>2, NoneAssumption
         DEF Reviewed!WentLive, ReviewedInv, PublicationInv, PublishedOnce, Open, Revision
    <3>7. ApprovedRevisions' = ApprovedRevisions
      BY <1>0, <2>2, ApprovedStays DEF PublishProposal
    <3>8. Reviewed!Publish(c.target, d)
      BY <2>2, <3>1, <3>4, <3>6, <3>7 DEF Reviewed!Publish, PublishProposal
    <3> QED
      BY <3>2, <3>5, <3>8 DEF Reviewed!Next
  <2> QED
    BY <1>1, <2>1, <2>2 DEF PublishRefused, PublishLost
<1>4. CASE Operator
  <2>1. ASSUME NEW v \in Variants, Seed(v) PROVE Reviewed!Next
    <3>1. PICK n : n = Cardinality(Imports(v)) + 1
      OBVIOUS
    <3>2. n \in 0..MaxSeeds
      BY <2>1, <3>1, ImportsFinite, ProposalsAssumption DEF Seed
    <3>3. Import(n) \in Reviewed!Imports
      BY <3>2 DEF Reviewed!Imports, Import
    <3>4. ApprovedRevisions' = ApprovedRevisions
      BY <1>0, <2>1, ApprovedStays DEF Seed
    <3>5. Reviewed!Import(v, Import(n))
      BY <2>1, <3>1, <3>4 DEF Reviewed!Import, Seed
    <3> QED
      BY <3>3, <3>5 DEF Reviewed!Next
  <2> QED
    BY <1>1, <1>4, <2>1 DEF Operator, SetRole
<1>5. CASE \E u \in Authors : Author(u)
  BY <1>1, <1>5 DEF Author, OpenEditor, Submit, OpenProposalEditor, CreateProposal,
                    DuplicateProposal, UpdateProposal, UpdateRefused, WithdrawProposal, Rebase
<1>6. CASE UNCHANGED vars
  BY <1>1, <1>6 DEF vars
<1> QED
  BY <1>2, <1>3, <1>4, <1>5, <1>6 DEF Next

\* The review workflow implements the log of reviewed documents, for all constants.
THEOREM ReviewsImplementTheLog == Spec => ImplementsReviewedDocuments
<1>1. Init => Reviewed!Init
  BY InitReviewed
<1>2. TypeOK /\ ReviewedInv /\ [Next]_vars => [Reviewed!Next]_(Reviewed!vars)
  BY NextReviewed
<1> QED
  BY <1>1, <1>2, Reviews, TypeCorrect, PTL DEF Spec, ImplementsReviewedDocuments, Reviewed!Spec

-----------------------------------------------------------------------------
(* While a quorum stands, its publication is under way.                     *)

\* An open row is the row it was, or one that was inserted or revised just now.
LEMMA OpenRowStep ==
  ASSUME TypeOK, [Next]_vars, NEW p \in ProposalIds, Open(p)'
  PROVE  \/ Open(p) /\ proposals'[p] = proposals[p]
         \/ \E u \in Authors : CreateProposal(u, p) \/ UpdateProposal(u, p)
<1>1. CASE proposals'[p] = proposals[p]
  BY <1>1 DEF Open, Exists
<1>2. ASSUME NEW q \in ProposalIds, NEW row, row.status # "open",
             proposals' = [proposals EXCEPT ![q] = row], proposals'[p] # proposals[p]
      PROVE  FALSE
  BY <1>2 DEF Open, TypeOK
<1>3. ASSUME NEW u \in Authors, Author(u), proposals'[p] # proposals[p]
      PROVE  CreateProposal(u, p) \/ UpdateProposal(u, p)
  <2>1. ASSUME NEW q \in ProposalIds, WithdrawProposal(u, q) PROVE FALSE
    <3>1. proposals[q] \in Proposal
      BY <2>1 DEF WithdrawProposal, Open, Exists, TypeOK
    <3>2. [proposals[q] EXCEPT !.status = "withdrawn"].status # "open"
      BY <3>1 DEF Proposal
    <3> QED
      BY <1>2, <1>3, <2>1, <3>2 DEF WithdrawProposal
  <2>2. ASSUME NEW q \in ProposalIds, CreateProposal(u, q) \/ UpdateProposal(u, q)
        PROVE  q = p
    BY <1>3, <2>2 DEF CreateProposal, UpdateProposal, TypeOK
  <2> QED
    BY <1>3, <2>1, <2>2 DEF Author, OpenEditor, Submit, OpenProposalEditor,
                            DuplicateProposal, UpdateRefused, Rebase
<1>4. ASSUME NEW u \in Users, NEW q \in ProposalIds, NEW verdict \in Verdicts,
             NEW seen \in 1..MaxRevision, AddReview(u, q, verdict, seen)
      PROVE  proposals'[p] = proposals[p]
  <2>1. proposals[q] \in Proposal
    BY <1>4 DEF AddReview, AcceptsReview, Open, Exists, TypeOK
  <2>2. [proposals[q] EXCEPT !.status = "rejected"].status # "open"
    BY <2>1 DEF Proposal
  <2> QED
    BY <1>2, <1>4, <2>2 DEF AddReview
<1>5. ASSUME NEW c \in pending, PublishProposal(c)
      PROVE  proposals'[p] = proposals[p]
  <2>1. proposals[c.proposal] \in Proposal /\ c.proposal \in ProposalIds
    BY <1>5, PublishAppends DEF PublishProposal, StillPublishable, Open, Exists, TypeOK
  <2> DEFINE row == [proposals[c.proposal] EXCEPT !.status = "published",
                                                  !.publishedVersion = LiveVersion(c.target) + 1]
  <2>2. row.status # "open"
    BY <2>1 DEF Proposal
  <2>3. proposals' = [proposals EXCEPT ![c.proposal] = row]
    BY <1>5 DEF PublishProposal
  <2> HIDE DEF row
  <2> QED
    BY <1>2, <2>1, <2>2, <2>3
<1>6. CASE Publisher \/ Operator \/ UNCHANGED vars
  BY <1>1, <1>5, <1>6 DEF Publisher, PublishRefused, PublishLost, Operator, Seed, SetRole, vars
<1> QED
  BY <1>1, <1>3, <1>4, <1>6 DEF Next, Reviewer

\* The reviews of a proposal change by a review of it.
LEMMA ReviewsStep ==
  ASSUME TypeOK, [Next]_vars, NEW p \in ProposalIds
  PROVE  \/ reviews'[p] = reviews[p]
         \/ \E u \in Users, verdict \in Verdicts, seen \in 1..MaxRevision : AddReview(u, p, verdict, seen)
<1>1. CASE UNCHANGED reviews
  BY <1>1
<1>2. ASSUME NEW u \in Users, NEW q \in ProposalIds, NEW verdict \in Verdicts,
             NEW seen \in 1..MaxRevision, AddReview(u, q, verdict, seen), q # p
      PROVE  reviews'[p] = reviews[p]
  BY <1>2 DEF AddReview, TypeOK
<1>3. CASE \E u \in Authors : Author(u)
  BY <1>1, <1>3 DEF Author, OpenEditor, Submit, OpenProposalEditor, CreateProposal,
                    DuplicateProposal, UpdateProposal, UpdateRefused, WithdrawProposal, Rebase
<1>4. CASE Publisher \/ Operator \/ UNCHANGED vars
  BY <1>1, <1>4 DEF Publisher, PublishProposal, PublishRefused, PublishLost, Operator, Seed, SetRole, vars
<1> QED
  BY <1>2, <1>3, <1>4 DEF Next, Reviewer

\* The live version of a variant never goes back.
LEMMA LiveVersionGrows ==
  ASSUME TypeOK, [Next]_vars, NEW v \in Variants
  PROVE  /\ LiveVersion(v) \in Nat /\ Len(history'[v]) \in Nat
         /\ LiveVersion(v) <= Len(history'[v])
<1>1. TypeOK'
  BY NextTypeOK
<1>2. history[v] \in Seq(Document) /\ history'[v] \in Seq(Document)
  BY <1>1 DEF TypeOK
<1>3. CASE LiveVersion(v) = 0
  BY <1>2, <1>3 DEF LiveVersion
<1>4. CASE LiveVersion(v) # 0
  <2>1. LiveVersion(v) \in DOMAIN history[v]
    BY <1>2, <1>4 DEF LiveVersion
  <2>2. LiveVersion(v) \in DOMAIN history'[v]
    BY <2>1, HistoryGrows
  <2> QED
    BY <1>2, <2>2 DEF LiveVersion
<1> QED
  BY <1>3, <1>4

\* No review is of a revision its open proposal has not reached.
ReviewsBehind ==
  \A p \in ProposalIds : Open(p) =>
    \A u \in Users : reviews[p][u] # None => reviews[p][u].revision <= proposals[p].revision

\* No base is ahead of what is live, in a submitted form or an open row: a
\* base that fell behind stays behind until the proposal is revised.
FormBehind(form, docs) == form.phase = "submitted" => form.base <= Len(docs[form.variant])
FormsBehind == \A u \in Users : draft[u] # None => FormBehind(draft[u], history)
RowsBehind ==
  \A p \in ProposalIds : Open(p) => proposals[p].base <= LiveVersion(proposals[p].variant)

\* QuorumIsScheduled is not inductive: a row may not gain its quorum, or its
\* base the live version, by any step but a review.
QuorumInv == ReviewsBehind /\ FormsBehind /\ RowsBehind /\ QuorumIsScheduled

\* A review is of the revision the row has, and a row's revision only grows.
LEMMA NextReviewsBehind ==
  ASSUME TypeOK, ReviewsAreEndorsed, ReviewsBehind, [Next]_vars
  PROVE  ReviewsBehind'
<1> SUFFICES ASSUME NEW p \in ProposalIds, Open(p)', NEW u \in Users, reviews'[p][u] # None
             PROVE  reviews'[p][u].revision <= proposals'[p].revision
  BY DEF ReviewsBehind
<1>1. ASSUME NEW w \in Users, NEW verdict \in Verdicts, NEW seen \in 1..MaxRevision,
             AddReview(w, p, verdict, seen)
      PROVE  reviews'[p][u].revision <= proposals'[p].revision
  <2>1. Open(p) /\ proposals[p] \in Proposal
    BY <1>1 DEF AddReview, AcceptsReview, Open, Exists, TypeOK
  <2>2. proposals'[p].revision = proposals[p].revision /\ proposals[p].revision \in Nat
    BY <1>1, <2>1 DEF AddReview, TypeOK, Proposal
  <2>3. reviews'[p][u] = reviews[p][u] \/ reviews'[p][u].revision = proposals[p].revision
    BY <1>1 DEF AddReview, TypeOK
  <2> QED
    BY <2>1, <2>2, <2>3 DEF ReviewsBehind
<1>2. CASE reviews'[p] = reviews[p]
  <2>1. CASE Open(p) /\ proposals'[p] = proposals[p]
    BY <1>2, <2>1 DEF ReviewsBehind
  <2>2. ASSUME NEW w \in Authors, CreateProposal(w, p) PROVE FALSE
    BY <1>2, <2>2 DEF CreateProposal, ReviewsAreEndorsed
  <2>3. ASSUME NEW w \in Authors, UpdateProposal(w, p)
        PROVE  reviews'[p][u].revision <= proposals'[p].revision
    <3>1. Open(p) /\ proposals[p] \in Proposal /\ draft[w] \in Draft
      BY <2>3, ProposalsAssumption DEF UpdateProposal, Open, Exists, TypeOK
    <3>2. reviews[p][u] \in Review
      BY <1>2 DEF TypeOK
    <3>3. proposals'[p].revision = proposals[p].revision + 1
      BY <2>3, <3>1 DEF UpdateProposal, Revised, Proposal, TypeOK
    <3>4. reviews[p][u].revision <= proposals[p].revision
      BY <1>2, <3>1 DEF ReviewsBehind
    <3> QED
      BY <1>2, <3>1, <3>2, <3>3, <3>4 DEF Proposal, Review
  <2> QED
    BY <2>1, <2>2, <2>3, OpenRowStep
<1> QED
  BY <1>1, <1>2, ReviewsStep

\* A form is submitted with the version that is live, and those only grow.
LEMMA NextFormsBehind ==
  ASSUME TypeOK, FormsBehind, [Next]_vars
  PROVE  FormsBehind'
<1> SUFFICES ASSUME NEW u \in Users, draft'[u] # None PROVE FormBehind(draft'[u], history')
  BY DEF FormsBehind
<1>1. CASE draft'[u] = draft[u]
  <2>1. draft[u] \in Draft
    BY <1>1 DEF TypeOK
  <2>2. draft[u].base \in Nat /\ draft[u].variant \in Variants
    BY <2>1 DEF Draft
  <2>3. FormBehind(draft[u], history)
    BY <1>1 DEF FormsBehind
  <2> QED
    BY <1>1, <2>2, <2>3, LiveVersionGrows DEF FormBehind, LiveVersion
<1>2. CASE draft'[u].phase = "editing"
  BY <1>2 DEF FormBehind
<1>3. ASSUME NEW w \in Authors, Author(w), draft'[u] # draft[u]
      PROVE  FormBehind(draft'[u], history')
  <2>1. w = u
    BY <1>3 DEF Author, OpenEditor, Submit, OpenProposalEditor, CreateProposal, DuplicateProposal,
                UpdateProposal, UpdateRefused, WithdrawProposal, Rebase, TypeOK
  <2>2. ASSUME NEW q, NEW v, NEW n, draft'[u] = EmptyForm(q, v, n) PROVE FormBehind(draft'[u], history')
    BY <1>2, <2>2 DEF EmptyForm
  <2>3. ASSUME NEW t \in Variants, Submit(u, t) PROVE FormBehind(draft'[u], history')
    <3>1. draft[u] \in Draft
      BY <2>3 DEF Submit, TypeOK
    <3>2. /\ draft'[u].base = LiveVersion(draft[u].variant)
          /\ draft'[u].variant = draft[u].variant /\ draft[u].variant \in Variants
          /\ UNCHANGED history
      BY <2>3, <3>1 DEF Submit, TypeOK, Draft
    <3> QED
      BY <3>2, LiveVersionType DEF FormBehind, LiveVersion
  <2>4. ASSUME NEW p \in ProposalIds, CreateProposal(u, p) \/ UpdateProposal(u, p) \/ WithdrawProposal(u, p)
        PROVE  FALSE
    BY <1>3, <2>4 DEF CreateProposal, UpdateProposal, WithdrawProposal, TypeOK
  <2>5. ASSUME NEW p \in ProposalIds, OpenProposalEditor(u, p) \/ DuplicateProposal(u, p) \/ UpdateRefused(u, p)
        PROVE  FormBehind(draft'[u], history')
    BY <2>2, <2>5 DEF OpenProposalEditor, DuplicateProposal, UpdateRefused, TypeOK
  <2>6. ASSUME Rebase(u) \/ \E v \in Variants : OpenEditor(u, v) PROVE FormBehind(draft'[u], history')
    BY <2>2, <2>6 DEF Rebase, OpenEditor, TypeOK
  <2> QED
    BY <1>3, <2>1, <2>3, <2>4, <2>5, <2>6 DEF Author
<1>4. CASE \E w \in Users : Reviewer(w)
  BY <1>1, <1>4 DEF Reviewer, AddReview
<1>5. CASE Publisher \/ Operator \/ UNCHANGED vars
  BY <1>1, <1>5 DEF Publisher, PublishProposal, PublishRefused, PublishLost, Operator, Seed, SetRole, vars
<1> QED
  BY <1>1, <1>3, <1>4, <1>5 DEF Next

\* A row gets the base of a submitted form for its variant.
LEMMA NextRowsBehind ==
  ASSUME TypeOK, FormsNameTheirVariant, FormsBehind, RowsBehind, [Next]_vars
  PROVE  RowsBehind'
<1> SUFFICES ASSUME NEW p \in ProposalIds, Open(p)'
             PROVE  proposals'[p].base <= Len(history'[proposals'[p].variant])
  BY DEF RowsBehind, LiveVersion
<1>1. CASE Open(p) /\ proposals'[p] = proposals[p]
  <2>1. proposals[p] \in Proposal
    BY <1>1 DEF Open, Exists, TypeOK
  <2>2. proposals[p].base \in Nat /\ proposals[p].variant \in Variants
    BY <2>1 DEF Proposal
  <2> QED
    BY <1>1, <2>2, LiveVersionGrows DEF RowsBehind, LiveVersion
<1>2. ASSUME NEW u \in Authors, CreateProposal(u, p) \/ UpdateProposal(u, p)
      PROVE  proposals'[p].base <= Len(history'[proposals'[p].variant])
  <2>1. u \in Users /\ draft[u] # None /\ draft[u] \in Draft /\ draft[u].phase = "submitted"
    BY <1>2, ProposalsAssumption DEF CreateProposal, UpdateProposal, TypeOK
  <2>2. draft[u].base \in Nat /\ draft[u].variant \in Variants
    BY <2>1 DEF Draft
  <2>3. draft[u].base <= Len(history'[draft[u].variant])
    BY <2>1, <2>2, LiveVersionGrows DEF FormsBehind, FormBehind, LiveVersion
  <2>4. proposals'[p].base = draft[u].base /\ proposals'[p].variant = draft[u].variant
    <3>1. CASE CreateProposal(u, p)
      BY <3>1 DEF CreateProposal, TypeOK
    <3>2. CASE UpdateProposal(u, p)
      <4>1. proposals[p] \in Proposal
        BY <3>2 DEF UpdateProposal, Open, Exists, TypeOK
      <4>2. proposals[p].variant = draft[u].variant
        BY <2>1, <3>2, NoneAssumption DEF UpdateProposal, FormsNameTheirVariant, NamesItsVariant
      <4> QED
        BY <3>2, <4>1, <4>2 DEF UpdateProposal, Revised, Proposal, TypeOK
    <3> QED
      BY <1>2, <3>1, <3>2
  <2> QED
    BY <2>3, <2>4
<1> QED
  BY <1>1, <1>2, OpenRowStep

\* The reviewers who stand by a revision can be counted.
LEMMA ApproversFinite ==
  ASSUME NEW rows, NEW p, NEW r
  PROVE  /\ IsFiniteSet(ApproversIn(rows, p, r))
         /\ Cardinality(ApproversIn(rows, p, r)) \in Nat
<1>1. ApproversIn(rows, p, r) \subseteq Users
  BY DEF ApproversIn
<1> QED
  BY <1>1, ProposalsAssumption, FS_Subset, FS_CardinalityType

\* A row that was inserted or revised just now has no quorum.
LEMMA NewTextHasNoQuorum ==
  ASSUME TypeOK, ReviewsAreEndorsed, ReviewsBehind, [Next]_vars,
         NEW u \in Authors, NEW p \in ProposalIds, CreateProposal(u, p) \/ UpdateProposal(u, p)
  PROVE  ~ (Approvals(p)' >= Threshold)
<1>1. reviews' = reviews
  BY DEF CreateProposal, UpdateProposal
<1>2. \A w \in Users : reviews[p][w] # None => reviews[p][w].revision # proposals'[p].revision
  <2>1. CASE CreateProposal(u, p)
    BY <2>1 DEF CreateProposal, ReviewsAreEndorsed
  <2>2. CASE UpdateProposal(u, p)
    <3>1. Open(p) /\ proposals[p] \in Proposal
      BY <2>2 DEF UpdateProposal, Open, Exists, TypeOK
    <3>2. draft[u] \in Draft
      BY <2>2, ProposalsAssumption DEF UpdateProposal, TypeOK
    <3>3. proposals'[p].revision = proposals[p].revision + 1
      BY <2>2, <3>1, <3>2 DEF UpdateProposal, Revised, Proposal, TypeOK
    <3>4. \A w \in Users : reviews[p][w] # None =>
            reviews[p][w].revision \in Nat /\ reviews[p][w].revision <= proposals[p].revision
      BY <3>1 DEF ReviewsBehind, TypeOK, Review
    <3>5. proposals[p].revision \in Nat
      BY <3>1 DEF Proposal
    <3> QED
      BY <3>3, <3>4, <3>5
  <2> QED
    BY <2>1, <2>2
<1>3. ApproversIn(reviews[p], p, proposals[p].revision)' = {}
  BY <1>1, <1>2 DEF ApproversIn
<1>4. Approvals(p)' = 0
  BY <1>3, FS_EmptySet DEF Approvals
<1> QED
  BY <1>4, ProposalsAssumption

\* A step that leaves a standing quorum does not take a handler off its way: what
\* the handler is about to do is not refused, and doing it closes the proposal.
LEMMA DecisionKept ==
  ASSUME ~ Failures, TypeOK, TargetInv, RowsBehind, [Next]_vars,
         NEW p \in ProposalIds, QuorumStands(p)', Open(p), proposals'[p] = proposals[p],
         NEW u \in Users, DecisionOn(p, u) \in pending
  PROVE  DecisionOn(p, u) \in pending'
<1> DEFINE v == proposals[p].variant
           c == DecisionOn(p, u)
<1>1. proposals[p] \in Proposal /\ v \in Variants /\ proposals[p].base \in Nat
  BY DEF Open, Exists, TypeOK, Proposal
<1>2. proposals[p].base = LiveVersion(v)
  <2>1. proposals[p].base = Len(history'[v])
    BY DEF QuorumStands, LiveVersion
  <2>2. proposals[p].base <= LiveVersion(v)
    BY DEF RowsBehind
  <2> QED
    BY <1>1, <2>1, <2>2, LiveVersionGrows
<1>3. ASSUME NEW d \in pending, PublishProposal(d) PROVE d # c
  <2>1. d.proposal \in ProposalIds
    BY <1>3, PublishAppends
  <2>2. proposals[d.proposal] \in Proposal
    BY <1>3, <2>1 DEF PublishProposal, StillPublishable, Open, Exists, TypeOK
  <2>3. proposals'[d.proposal].status = "published"
    BY <1>3, <2>1, <2>2 DEF PublishProposal, TypeOK, Proposal
  <2>4. proposals'[p].status = "open"
    BY DEF QuorumStands, Open
  <2> QED
    BY <2>3, <2>4 DEF DecisionOn
<1>4. ASSUME NEW d \in pending, PublishRefused(d) PROVE d # c
  <2> SUFFICES ASSUME d = c PROVE FALSE
    OBVIOUS
  <2>1. d.proposal = p /\ d.revision = proposals[p].revision /\ d.target = v
    BY DEF DecisionOn, TargetInv, RowsNameTheirVariant, Open
  <2>2. StillPublishable(d)
    BY <2>1 DEF StillPublishable
  <2>3. VersionMatches(d.target, proposals[p].base)
    BY <1>2, <2>1 DEF VersionMatches, LiveVersion
  <2> QED
    BY <1>4, <2>1, <2>2, <2>3 DEF PublishRefused
<1> SUFFICES c \in pending'
  OBVIOUS
<1>c. c \in pending
  OBVIOUS
<1> HIDE DEF c
<1>5. ASSUME NEW d, pending' = pending \ {d}, d # c PROVE c \in pending'
  BY <1>5, <1>c
<1>6. CASE pending \subseteq pending'
  BY <1>6, <1>c
<1>7. CASE Publisher
  BY <1>3, <1>4, <1>5, <1>7 DEF Publisher, PublishProposal, PublishRefused, PublishLost
<1>8. CASE \E w \in Authors : Author(w)
  BY <1>6, <1>8 DEF Author, OpenEditor, Submit, OpenProposalEditor, CreateProposal,
                    DuplicateProposal, UpdateProposal, UpdateRefused, WithdrawProposal, Rebase
<1>9. CASE \E w \in Users : Reviewer(w)
  BY <1>6, <1>9 DEF Reviewer, AddReview
<1>10. CASE Operator \/ UNCHANGED vars
  BY <1>6, <1>10 DEF Operator, Seed, SetRole, vars
<1> QED
  BY <1>7, <1>8, <1>9, <1>10 DEF Next

\* A quorum comes with the review that completes it, and its decision is
\* dropped by the publication only.
LEMMA NextQuorumIsScheduled ==
  ASSUME TypeOK, ReviewsAreEndorsed, TargetInv, QuorumInv, [Next]_vars
  PROVE  QuorumIsScheduled'
<1> SUFFICES ASSUME ~ Failures, NEW p \in ProposalIds, QuorumStands(p)'
             PROVE  \E u \in Users : DecisionOn(p, u)' \in pending'
  BY DEF QuorumIsScheduled
<1>1. Open(p) /\ proposals'[p] = proposals[p]
  <2>1. Open(p)' /\ Approvals(p)' >= Threshold
    BY DEF QuorumStands
  <2> QED
    BY <2>1, OpenRowStep, NewTextHasNoQuorum DEF QuorumInv
<1>2. \A u \in Users : DecisionOn(p, u)' = DecisionOn(p, u)
  BY <1>1 DEF DecisionOn
<1>3. proposals[p].base = LiveVersion(proposals[p].variant)
  <2>1. proposals[p].base = Len(history'[proposals[p].variant])
    BY <1>1 DEF QuorumStands, LiveVersion
  <2>2. proposals[p].base <= LiveVersion(proposals[p].variant)
    BY <1>1 DEF QuorumInv, RowsBehind
  <2>3. proposals[p].variant \in Variants /\ proposals[p].base \in Nat
    BY <1>1 DEF Open, Exists, TypeOK, Proposal
  <2> QED
    BY <2>1, <2>2, <2>3, LiveVersionGrows
<1>4. ASSUME QuorumStands(p)
      PROVE  \E u \in Users : DecisionOn(p, u)' \in pending'
  <2>1. PICK u \in Users : DecisionOn(p, u) \in pending
    BY <1>4 DEF QuorumInv, QuorumIsScheduled
  <2>2. DecisionOn(p, u) \in pending'
    BY <1>1, <2>1, DecisionKept DEF QuorumInv
  <2> QED
    BY <1>2, <2>2
<1>5. CASE reviews'[p] = reviews[p]
  <2>1. Approvals(p)' = Approvals(p)
    BY <1>1, <1>5 DEF Approvals, ApproversIn
  <2> QED
    BY <1>1, <1>3, <1>4, <2>1 DEF QuorumStands
<1>6. ASSUME NEW w \in Users, NEW verdict \in Verdicts, NEW seen \in 1..MaxRevision,
             AddReview(w, p, verdict, seen)
      PROVE  \E u \in Users : DecisionOn(p, u)' \in pending'
  <2> DEFINE r == proposals[p].revision
             rows == [reviews[p] EXCEPT ![w] = [verdict |-> verdict, revision |-> r]]
  <2>1. reviews'[p] = rows
    BY <1>6 DEF AddReview, TypeOK
  <2>2. Cardinality(ApproversIn(rows, p, r)) >= Threshold
    BY <1>1, <2>1 DEF QuorumStands, Approvals, ApproversIn
  <2>3. CASE verdict = "approve"
    <3>1. DecisionOn(p, w) \in pending'
      BY <1>6, <2>2, <2>3 DEF AddReview, ShouldPublish
    <3> QED
      BY <1>2, <3>1
  <2>4. CASE verdict # "approve"
    <3>1. ApproversIn(rows, p, r) \subseteq ApproversIn(reviews[p], p, r)
      BY <2>4 DEF ApproversIn, TypeOK
    <3>2. Cardinality(ApproversIn(rows, p, r)) <= Approvals(p)
      BY <3>1, ApproversFinite, FS_Subset DEF Approvals
    <3>3. Approvals(p) >= Threshold
      BY <2>2, <3>2, ApproversFinite, ProposalsAssumption DEF Approvals
    <3> QED
      BY <1>1, <1>3, <1>4, <3>3 DEF QuorumStands
  <2> QED
    BY <2>3, <2>4
<1> QED
  BY <1>5, <1>6, ReviewsStep

\* Nothing is submitted, opened or decided in the beginning.
LEMMA InitQuorumInv == Init => QuorumInv
BY DEF Init, QuorumInv, ReviewsBehind, FormsBehind, RowsBehind, QuorumIsScheduled, QuorumStands,
       Open, Exists

\* The quorum invariant is inductive with the two before it.
LEMMA Quorums == Spec => []QuorumInv
<1>1. TypeOK /\ ReviewedInv /\ QuorumInv /\ [Next]_vars => QuorumInv'
  BY NextReviewsBehind, NextFormsBehind, NextRowsBehind, NextQuorumIsScheduled
     DEF QuorumInv, ReviewedInv, EndorsementInv, PublicationInv, TargetInv
<1> QED
  BY <1>1, InitQuorumInv, Reviews, TypeCorrect, PTL DEF Spec

\* Unless requests die, a standing quorum's publication is always under way,
\* for all constants.
THEOREM QuorumsAreScheduled == Spec => []QuorumIsScheduled
  BY Quorums, PTL DEF QuorumInv

\* Every handler that decided to publish runs on to the end of its
\* transaction: what the fairness of FairSpec gives.
HandlersRun == [](\A c \in Decisions : c \in pending => <> ~ (c \in pending))

\* A standing quorum decided something the bounds allow.
LEMMA StandingDecision ==
  ASSUME ~ Failures, NEW p \in ProposalIds, TypeOK, ReviewedInv, QuorumInv, QuorumStands(p)
  PROVE  \E u \in Users : DecisionOn(p, u) \in Decisions /\ DecisionOn(p, u) \in pending
<1>1. Exists(p) /\ proposals[p] \in Proposal
  BY DEF QuorumStands, Open, Exists, TypeOK
<1>2. proposals[p].revision \in 1..MaxRevision
  BY <1>1, ProposalsAssumption DEF ReviewedInv, RevisionsBounded, Proposal
<1>3. \A u \in Users : DecisionOn(p, u) \in Decisions
  BY <1>1, <1>2 DEF DecisionOn, Decisions, Proposal
<1> QED
  BY <1>3 DEF QuorumInv, QuorumIsScheduled

\* While a quorum stands, a reviewer's handler that is under way stays so, with
\* the same decision.
LEMMA DecisionStands ==
  ASSUME ~ Failures, TypeOK, ReviewedInv, QuorumInv, [Next]_vars, NEW p \in ProposalIds,
         QuorumStands(p)', NEW u \in Users, DecisionOn(p, u) \in pending
  PROVE  DecisionOn(p, u)' = DecisionOn(p, u) /\ DecisionOn(p, u) \in pending'
<1>1. Open(p)' /\ Approvals(p)' >= Threshold
  BY DEF QuorumStands
<1>2. Open(p) /\ proposals'[p] = proposals[p]
  BY <1>1, OpenRowStep, NewTextHasNoQuorum DEF ReviewedInv, EndorsementInv, QuorumInv
<1>3. TargetInv /\ RowsBehind
  BY DEF ReviewedInv, PublicationInv, QuorumInv
<1> QED
  BY <1>2, <1>3, DecisionKept DEF DecisionOn

\* If no request dies and the handlers that decided to publish run, a quorum is
\* followed by the publication, unless the proposal is closed or revised, the
\* quorum dissolves or another version goes live first.
THEOREM QuorumsArePublished ==
  ASSUME ~ Failures
  PROVE  Spec /\ HandlersRun => QuorumPublishes
<1> SUFFICES ASSUME NEW p \in ProposalIds
             PROVE  Spec /\ HandlersRun => (QuorumStands(p) ~> ~ QuorumStands(p))
  BY DEF QuorumPublishes
<1> DEFINE Q == QuorumStands(p)
           Due(c) == c \in pending
           Decided(c) == DecisionOn(p, c.reviewer) = c
           Inv == TypeOK /\ ReviewedInv /\ QuorumInv
<1>1. ASSUME NEW c \in Decisions
      PROVE  []Inv /\ [][Next]_vars /\ Q /\ Decided(c) /\ Due(c) /\ <> ~ Due(c) => <> ~ Q
  <2>1. Inv /\ [Next]_vars /\ Q' /\ Decided(c) /\ Due(c) => Decided(c)' /\ Due(c)'
    <3>1. c.reviewer \in Users
      BY DEF Decisions
    <3>2. PICK u \in Users : u = c.reviewer
      BY <3>1
    <3> QED
      BY <3>2, DecisionStands
  <2> HIDE DEF Q, Due, Decided, Inv
  <2> QED
    BY <2>1, PTL
<1>2. Inv /\ Q => \E c \in Decisions : Decided(c) /\ Due(c)
  BY StandingDecision DEF DecisionOn
<1> HIDE DEF Q, Decided, Inv
<1>3. []Inv /\ [][Next]_vars /\ Q /\ (\A c \in Decisions : Due(c) => <> ~ Due(c)) /\ Inv => <> ~ Q
  BY <1>1, <1>2
<1>4. Spec => []Inv
  BY TypeCorrect, Reviews, Quorums, PTL DEF Inv
<1> QED
  BY <1>3, <1>4, PTL DEF Spec, HandlersRun, Q
==============================================================================
