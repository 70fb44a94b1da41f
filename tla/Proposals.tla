------------------------------ MODULE Proposals ------------------------------
(***************************************************************************)
(* The propose -> review -> publish workflow of duckserver: the store's    *)
(* proposal operations (internal/store/proposals.go), the web and API      *)
(* handlers that drive them, and the versioned variant they publish into   *)
(* (internal/store/courses.go).                                            *)
(*                                                                         *)
(* One action is one committed transaction, or one step of a handler       *)
(* between two transactions.  What runs between two transactions of the    *)
(* same request is explicit state: an editor form that was loaded but not  *)
(* submitted (draft), a write whose statement snapshot is older than its   *)
(* commit (a submitted draft), and a review that decided to publish but    *)
(* has not run PublishProposal yet (pending).                              *)
(***************************************************************************)
EXTENDS Integers, Sequences, FiniteSets

CONSTANTS
  Users,          \* accounts
  Authors,        \* the users who propose; the others only review
  Variants,       \* (course slug, language) pairs
  ProposalIds,    \* the ids CreateProposal may hand out; bounds the number of proposals
  InitialAdmins,  \* users whose role is admin at the start
  RoleChanges,    \* users whose role the operator may change while the system runs
  Threshold,      \* GC_APPROVAL_THRESHOLD
  Failures,       \* whether a request may die between its two transactions
  MaxRevision,    \* bound on a proposal's revision
  MaxSeeds,       \* bound on the imports of one variant that bypass the workflow
  None            \* absent row, absent draft, no proposal

ASSUME ProposalsAssumption ==
  /\ IsFiniteSet(Users)
  /\ Authors \subseteq Users
  /\ InitialAdmins \subseteq Users
  /\ RoleChanges \subseteq Users
  /\ Threshold \in Nat \ {0}
  /\ Failures \in BOOLEAN
  /\ MaxRevision \in Nat \ {0}
  /\ MaxSeeds \in Nat

VARIABLES
  proposals,     \* the proposals table: id -> row, or None
  reviews,       \* proposal_reviews, unique per (proposal, reviewer): None or [verdict, revision]
  history,       \* variant -> the documents that were live, in version order;
                 \* version n is history[v][n], a missing variant has <<>>
  admins,        \* users whose role is admin
  draft,         \* user -> the editor form (or CLI checkout) they hold, or None
  pending,       \* publications decided by a review whose handler has yet to call
                 \* PublishProposal
  authored,      \* ghost: live version the proposal's current text was derived from
  endorsements   \* ghost: every approval ever recorded, with the revision its author read

vars == <<proposals, reviews, history, admins, draft, pending, authored, endorsements>>

-----------------------------------------------------------------------------
Statuses == {"open", "published", "rejected", "withdrawn"}
Verdicts == {"approve", "reject"}

Proposal ==
  [proposer : Users, variant : Variants, target : Variants, base : Nat,
   revision : Nat \ {0}, status : Statuses, publishedVersion : Nat]
Review == [verdict : Verdicts, revision : Nat \ {0}]
Draft ==
  [proposal : ProposalIds \cup {None}, variant : Variants, target : Variants,
   seen : Nat, base : Nat, phase : {"editing", "submitted"}]
Publication ==
  [proposal : ProposalIds, revision : Nat \ {0}, target : Variants, reviewer : Users]
Endorsement ==
  [proposal : ProposalIds, revision : Nat \ {0}, reviewer : Users, admin : BOOLEAN]

ASSUME NoneAssumption ==
  /\ None \notin ProposalIds
  /\ None \notin Proposal
  /\ None \notin Review
  /\ None \notin Draft

\* A document is identified by where it comes from: revision r of proposal p,
\* or the n-th import of a course file.
Document == [from : ProposalIds \cup {None}, revision : Nat]
Revision(p, r) == [from |-> p, revision |-> r]
Import(n) == [from |-> None, revision |-> n]

Exists(p) == proposals[p] # None
Open(p) == Exists(p) /\ proposals[p].status = "open"
LiveVersion(v) == Len(history[v])

OpenProposalsFor(u, v) ==
  {p \in ProposalIds : Open(p) /\ proposals[p].proposer = u /\ proposals[p].variant = v}

StandingApproversIn(rows, p, r) ==   \* mutant: an approval of an older revision still counts
  {u \in Users : rows[u] # None /\ rows[u].verdict = "approve" /\ u # proposals[p].proposer}

\* Reviewers other than the proposer whose standing verdict on revision r is approve.
ApproversIn(rows, p, r) ==
  {u \in Users : /\ rows[u] # None
                 /\ rows[u].verdict = "approve"
                 /\ rows[u].revision = r
                 /\ u # proposals[p].proposer}
Approvals(p) == Cardinality(ApproversIn(reviews[p], p, proposals[p].revision))

\* What the handler of u's deciding review passes to PublishProposal.  Handlers of
\* several reviewers may hold the same; those of one reviewer are a single one here.
DecisionOn(p, u) ==
  [proposal |-> p, revision |-> proposals[p].revision, target |-> proposals[p].target,
   reviewer |-> u]

-----------------------------------------------------------------------------
(* Authoring.                                                               *)

EmptyForm(p, v, seen) ==
  [proposal |-> p, variant |-> v, target |-> v, seen |-> seen, base |-> 0, phase |-> "editing"]

NotSubmitting(u) == draft[u] # None => draft[u].phase = "editing"

\* The editor page of a variant, or duck educator pull (which forgets any
\* proposal the file had): the form holds the live source.
OpenEditor(u, v) ==
  /\ NotSubmitting(u)
  /\ draft' = [draft EXCEPT ![u] = EmptyForm(None, v, LiveVersion(v))]
  /\ UNCHANGED <<proposals, reviews, history, admins, pending, authored, endorsements>>

\* The editor page of one's own open proposal: the form holds the proposal's
\* text, not the live one.
OpenProposalEditor(u, p) ==
  /\ NotSubmitting(u)
  /\ Open(p)
  /\ proposals[p].proposer = u
  /\ draft' = [draft EXCEPT ![u] = EmptyForm(p, proposals[p].variant, authored[p])]
  /\ UNCHANGED <<proposals, reviews, history, admins, pending, authored, endorsements>>

\* The author carries the live document over into the text they hold, as the
\* stale banner of a proposal asks them to: nothing in the system does it.
Rebase(u) ==
  /\ draft[u] # None
  /\ draft[u].phase = "editing"
  /\ draft' = [draft EXCEPT ![u] = EmptyForm(draft[u].proposal, draft[u].variant,
                                             LiveVersion(draft[u].variant))]
  /\ UNCHANGED <<proposals, reviews, history, admins, pending, authored, endorsements>>

AcceptsAnyTarget(t, v) == TRUE   \* mutant: a proposal may be retargeted

\* The handlers refuse a document whose frontmatter names another variant than
\* the one the page, or the proposal, is for.
AcceptsTarget(t, v) == t = v

\* The handler accepted the document, which names variant t, and its INSERT or
\* UPDATE statement took its snapshot: base_version will be the live version
\* of that snapshot, whatever commits before this statement does.
Submit(u, t) ==
  /\ draft[u] # None
  /\ draft[u].phase = "editing"
  /\ AcceptsTarget(t, draft[u].variant)
  /\ draft' = [draft EXCEPT ![u] = [draft[u] EXCEPT !.phase = "submitted",
                                                    !.target = t,
                                                    !.base = LiveVersion(draft[u].variant)]]
  /\ UNCHANGED <<proposals, reviews, history, admins, pending, authored, endorsements>>

CanAlwaysCreate(u, v) == TRUE   \* mutant: no one_open_proposal_per_user_variant
CanCreate(u, v) == OpenProposalsFor(u, v) = {}

CreateProposal(u, p) ==
  /\ draft[u] # None
  /\ draft[u].phase = "submitted"
  /\ draft[u].proposal = None
  /\ CanCreate(u, draft[u].variant)
  /\ ~ Exists(p)
  /\ proposals' = [proposals EXCEPT ![p] =
       [proposer |-> u, variant |-> draft[u].variant, target |-> draft[u].target,
        base |-> draft[u].base, revision |-> 1, status |-> "open", publishedVersion |-> 0]]
  /\ authored' = [authored EXCEPT ![p] = draft[u].seen]
  /\ draft' = [draft EXCEPT ![u] = None]
  /\ UNCHANGED <<reviews, history, admins, pending, endorsements>>

\* one_open_proposal_per_user_variant refused the insert.  The web sends the
\* user to the editor of the proposal the index pointed at, which holds that
\* proposal's text; duck propose sends the text it has as an update of it.
DuplicateProposal(u, p) ==
  /\ draft[u] # None
  /\ draft[u].phase = "submitted"
  /\ draft[u].proposal = None
  /\ p \in OpenProposalsFor(u, draft[u].variant)
  /\ \E seen \in {authored[p], draft[u].seen} :
       draft' = [draft EXCEPT ![u] = EmptyForm(p, draft[u].variant, seen)]
  /\ UNCHANGED <<proposals, reviews, history, admins, pending, authored, endorsements>>

RevisedFromZero(row, form) ==   \* mutant: numbering starts over, at zero
  [row EXCEPT !.target = form.target, !.revision = 0, !.base = form.base]
Revised(row, form) ==
  [row EXCEPT !.target = form.target, !.revision = row.revision + 1, !.base = form.base]

UpdateProposal(u, p) ==
  /\ draft[u] # None
  /\ draft[u].phase = "submitted"
  /\ draft[u].proposal = p
  /\ Open(p)
  /\ proposals[p].proposer = u
  /\ proposals[p].revision < MaxRevision
  /\ proposals' = [proposals EXCEPT ![p] = Revised(proposals[p], draft[u])]
  /\ authored' = [authored EXCEPT ![p] = draft[u].seen]
  /\ draft' = [draft EXCEPT ![u] = None]
  /\ UNCHANGED <<reviews, history, admins, pending, endorsements>>

\* ErrProposalClosed: nothing is saved.  The web says so; duck propose sends
\* the text it has as a new proposal.
UpdateRefused(u, p) ==
  /\ draft[u] # None
  /\ draft[u].phase = "submitted"
  /\ draft[u].proposal = p
  /\ ~ Open(p)
  /\ \E form \in {None, EmptyForm(None, draft[u].variant, draft[u].seen)} :
       draft' = [draft EXCEPT ![u] = form]
  /\ UNCHANGED <<proposals, reviews, history, admins, pending, authored, endorsements>>

WithdrawProposal(u, p) ==
  /\ Open(p)
  /\ proposals[p].proposer = u
  /\ proposals' = [proposals EXCEPT ![p] = [proposals[p] EXCEPT !.status = "withdrawn"]]
  /\ UNCHANGED <<reviews, history, admins, draft, pending, authored, endorsements>>

-----------------------------------------------------------------------------
(* Reviewing.                                                               *)

AcceptsOldPage(p, seen) == Open(p) /\ seen <= proposals[p].revision      \* mutant: no ErrStaleRevision
AcceptsClosed(p, seen) == Exists(p) /\ seen = proposals[p].revision       \* mutant: no ErrProposalClosed

\* The reviewer's page showed revision seen.
AcceptsReview(p, seen) == Open(p) /\ seen = proposals[p].revision

MayReview(u, p, verdict) ==
  u = proposals[p].proposer => u \in admins /\ verdict = "approve"

ShouldPublishLate(u, p, verdict, rows) ==   \* mutant: > for >=
  /\ verdict = "approve"
  /\ \/ u \in admins
     \/ Cardinality(ApproversIn(rows, p, proposals[p].revision)) > Threshold

\* Whether the handler goes on to publish, decided on the outcome AddReview
\* returned: rows are the reviews it committed.
ShouldPublish(u, p, verdict, rows) ==
  /\ verdict = "approve"
  /\ \/ u \in admins
     \/ Cardinality(ApproversIn(rows, p, proposals[p].revision)) >= Threshold

\* AddReview and the decision the handler takes on its outcome.
AddReview(u, p, verdict, seen) ==
  /\ AcceptsReview(p, seen)
  /\ MayReview(u, p, verdict)
  /\ LET rows == [reviews[p] EXCEPT ![u] =
                    [verdict |-> verdict, revision |-> proposals[p].revision]]
     IN /\ reviews' = [reviews EXCEPT ![p] = rows]
        /\ pending' = IF ShouldPublish(u, p, verdict, rows)
                      THEN pending \cup {DecisionOn(p, u)}
                      ELSE pending
  /\ proposals' = IF u \in admins /\ verdict = "reject"
                  THEN [proposals EXCEPT ![p] = [proposals[p] EXCEPT !.status = "rejected"]]
                  ELSE proposals
  /\ endorsements' = IF verdict = "approve"
                     THEN endorsements \cup {[proposal |-> p, revision |-> seen,
                                              reviewer |-> u, admin |-> u \in admins]}
                     ELSE endorsements
  /\ UNCHANGED <<history, admins, draft, authored>>

-----------------------------------------------------------------------------
(* Publishing.                                                              *)

OnlyExistenceMatches(v, expected) == history[v] = <<>> => expected = 0   \* mutant: no WHERE version = expected

\* upsertVariantTx with a non-nil expectedVersion.
VersionMatches(v, expected) ==
  IF history[v] = <<>> THEN expected = 0 ELSE LiveVersion(v) = expected

\* PublishProposal's checks on the locked row.
StillPublishable(c) == Open(c.proposal) /\ proposals[c.proposal].revision = c.revision

PublishUnguarded(c) ==   \* mutant: published like an import, the row as it was loaded
  /\ history' = [history EXCEPT ![c.target] = Append(@, Revision(c.proposal, c.revision))]
  /\ proposals' = [proposals EXCEPT ![c.proposal] =
       [proposals[c.proposal] EXCEPT !.status = "published",
                                     !.publishedVersion = LiveVersion(c.target) + 1]]
  /\ pending' = pending \ {c}
  /\ UNCHANGED <<reviews, admins, draft, authored, endorsements>>

PublishProposal(c) ==
  /\ StillPublishable(c)
  /\ VersionMatches(c.target, proposals[c.proposal].base)
  /\ history' = [history EXCEPT ![c.target] = Append(@, Revision(c.proposal, c.revision))]
  /\ proposals' = [proposals EXCEPT ![c.proposal] =
       [proposals[c.proposal] EXCEPT !.status = "published",
                                     !.publishedVersion = LiveVersion(c.target) + 1]]
  /\ pending' = pending \ {c}
  /\ UNCHANGED <<reviews, admins, draft, authored, endorsements>>

\* ErrProposalClosed, ErrStaleRevision or ErrVersionConflict: rolled back, and
\* the handler redirects.
PublishRefused(c) ==
  /\ ~ (StillPublishable(c) /\ VersionMatches(c.target, proposals[c.proposal].base))
  /\ pending' = pending \ {c}
  /\ UNCHANGED <<proposals, reviews, history, admins, draft, authored, endorsements>>

\* The process dies, the reviewer's connection closes (the request context is
\* the transaction's), or the database fails, before PublishProposal commits.
PublishLost(c) ==
  /\ Failures
  /\ pending' = pending \ {c}
  /\ UNCHANGED <<proposals, reviews, history, admins, draft, authored, endorsements>>

-----------------------------------------------------------------------------
(* The operator's commands.                                                 *)

Imports(v) == {n \in DOMAIN history[v] : history[v][n].from = None}

\* duckserver seed with a document that differs from the stored one.
Seed(v) ==
  /\ Cardinality(Imports(v)) < MaxSeeds
  /\ history' = [history EXCEPT ![v] = Append(@, Import(Cardinality(Imports(v)) + 1))]
  /\ UNCHANGED <<proposals, reviews, admins, draft, pending, authored, endorsements>>

\* duckserver user promote --role admin|user
SetRole(u) ==
  /\ u \in RoleChanges
  /\ admins' = IF u \in admins THEN admins \ {u} ELSE admins \cup {u}
  /\ UNCHANGED <<proposals, reviews, history, draft, pending, authored, endorsements>>

-----------------------------------------------------------------------------
Init ==
  /\ proposals = [p \in ProposalIds |-> None]
  /\ reviews = [p \in ProposalIds |-> [u \in Users |-> None]]
  /\ history \in [Variants -> {<<>>, <<Import(0)>>}]
  /\ admins = InitialAdmins
  /\ draft = [u \in Users |-> None]
  /\ pending = {}
  /\ authored = [p \in ProposalIds |-> 0]
  /\ endorsements = {}

Author(u) ==
  \/ \E v \in Variants : OpenEditor(u, v) \/ Submit(u, v)
  \/ \E p \in ProposalIds : \/ OpenProposalEditor(u, p)
                            \/ CreateProposal(u, p)
                            \/ DuplicateProposal(u, p)
                            \/ UpdateProposal(u, p)
                            \/ UpdateRefused(u, p)
                            \/ WithdrawProposal(u, p)
  \/ Rebase(u)

Reviewer(u) ==
  \E p \in ProposalIds, verdict \in Verdicts, seen \in 1..MaxRevision :
    AddReview(u, p, verdict, seen)

Publisher == \E c \in pending : PublishProposal(c) \/ PublishRefused(c) \/ PublishLost(c)

Operator == (\E v \in Variants : Seed(v)) \/ (\E u \in Users : SetRole(u))

Next ==
  \/ \E u \in Authors : Author(u)
  \/ \E u \in Users : Reviewer(u)
  \/ Publisher
  \/ Operator

Spec == Init /\ [][Next]_vars

\* Every handler that decided to publish runs on: net/http keeps its goroutine
\* scheduled, and nothing else disables the transaction.
Decisions ==
  [proposal : ProposalIds, revision : 1..MaxRevision, target : Variants, reviewer : Users]
FairSpec ==
  /\ Spec
  /\ \A c \in Decisions : WF_vars(c \in pending /\ (PublishProposal(c) \/ PublishRefused(c)))

-----------------------------------------------------------------------------
(* What the workflow promises.                                              *)

\* Every row, form and continuation has its type, and a row that does not
\* exist has no reviews.
TypeOK ==
  /\ proposals \in [ProposalIds -> Proposal \cup {None}]
  /\ reviews \in [ProposalIds -> [Users -> Review \cup {None}]]
  /\ history \in [Variants -> Seq(Document)]
  /\ admins \in SUBSET Users
  /\ draft \in [Users -> Draft \cup {None}]
  /\ pending \in SUBSET Publication
  /\ authored \in [ProposalIds -> Nat]
  /\ endorsements \in SUBSET Endorsement

\* Those who approved revision r of p having read it, whatever they said since.
Endorsers(p, r) ==
  {u \in Users : /\ u # proposals[p].proposer
                 /\ \E e \in endorsements :
                      e.proposal = p /\ e.revision = r /\ e.reviewer = u}
AdminEndorsed(p, r) ==
  \E e \in endorsements : e.proposal = p /\ e.revision = r /\ e.admin
Endorsed(p, r) == AdminEndorsed(p, r) \/ Cardinality(Endorsers(p, r)) >= Threshold

\* A user has at most one open proposal for a variant, whatever the interleaving
\* of editors and CLIs submitting (one_open_proposal_per_user_variant).
OneOpenPerUserVariant ==
  \A p, q \in ProposalIds :
    /\ Open(p) /\ Open(q)
    /\ proposals[p].proposer = proposals[q].proposer
    /\ proposals[p].variant = proposals[q].variant
    => p = q

\* Nothing of a proposal ever goes live but a revision that an admin, or
\* Threshold users other than its proposer, approved after reading exactly
\* that revision: neither a revision racing the review or the publish, nor a
\* delayed publish, ships text nobody approved (ErrStaleRevision).
LiveTextWasEndorsed ==
  \A v \in Variants : \A n \in DOMAIN history[v] :
    history[v][n].from # None => Endorsed(history[v][n].from, history[v][n].revision)

\* A published proposal is the version right after its base, in the variant
\* it was reviewed for, with the text its row holds: no other version came in
\* between, and no later revision is marked published in its place.
PublishedOnItsBase ==
  \A p \in ProposalIds :
    Exists(p) /\ proposals[p].status = "published" =>
      LET v == proposals[p].variant
          n == proposals[p].publishedVersion
      IN /\ n = proposals[p].base + 1
         /\ n \in DOMAIN history[v]
         /\ history[v][n] = Revision(p, proposals[p].revision)

\* The converse: a version that came from a proposal is that published
\* proposal's only version.  Two reviewers whose handlers both go on to publish
\* the same revision publish it once, and the one that comes second is refused,
\* whatever was updated, withdrawn, reviewed or imported in between.
PublishedOnce ==
  \A v \in Variants : \A n \in DOMAIN history[v] :
    LET p == history[v][n].from IN
      p # None => /\ Exists(p)
                  /\ proposals[p].status = "published"
                  /\ proposals[p].variant = v
                  /\ proposals[p].publishedVersion = n

\* Closing is a one-way door: once a proposal leaves open, no update, review,
\* withdrawal or publish that was already under way changes its row or the
\* reviews kept as its history.
ClosedIsFinal ==
  [][\A p \in ProposalIds :
       Exists(p) /\ ~ Open(p) => proposals'[p] = proposals[p] /\ reviews'[p] = reviews[p]]_vars

\* A quorum approved the current revision, and its base is live.
QuorumStands(p) ==
  /\ Open(p)
  /\ Approvals(p) >= Threshold
  /\ proposals[p].base = LiveVersion(proposals[p].variant)

\* While a quorum stands, a handler is on its way to publish exactly what it
\* approved: no order of reviews, revisions, refusals and rival publications
\* leaves a publishable proposal that only another review would publish.
QuorumIsScheduled ==
  ~ Failures => \A p \in ProposalIds : QuorumStands(p) => \E u \in Users : DecisionOn(p, u) \in pending

\* A quorum leads to the publication, unless the proposal is closed or revised,
\* the quorum dissolves or another version goes live first.
QuorumPublishes == \A p \in ProposalIds : QuorumStands(p) ~> ~ QuorumStands(p)

\* The workflow implements the log of reviewed documents: a revision counts as
\* approved there once enough reviewers, or an admin, endorsed it here.
ApprovedRevisions ==
  {d \in {Revision(p, r) : p \in ProposalIds, r \in 1..MaxRevision} :
     Exists(d.from) /\ Endorsed(d.from, d.revision)}

Reviewed == INSTANCE ReviewedDocuments WITH
  log <- history,
  approved <- ApprovedRevisions,
  Documents <- {Revision(p, r) : p \in ProposalIds, r \in 1..MaxRevision}
                 \cup {Import(n) : n \in 0..MaxSeeds}

ImplementsReviewedDocuments == Reviewed!Spec

-----------------------------------------------------------------------------
(* What the documentation says and the code does not do.                    *)

\* "newer content is never silently overwritten": a proposal's text was
\* derived from the version it replaces.
NeverOverwritesUnseen ==
  \A p \in ProposalIds :
    Exists(p) /\ proposals[p].status = "published" =>
      authored[p] = proposals[p].publishedVersion - 1
==============================================================================
