# A formal model of rubber-duck

rubber-duck is a platform for programming courses: a Go server (`cmd/duckserver`) over PostgreSQL,
a CLI (`cmd/duck`) for learners and course authors, a web interface with a code editor, a VS Code
extension, and graders that run submitted code in containers. This directory holds TLA+ models of
the parts whose correctness depends on the order of events, the TLC configurations that check them,
and TLAPS proofs about them.

    tlc -config Quorum.cfg MCProposals.tla      # check one instance
    tlapm ProposalsProofs.tla                   # check the proofs

`PROJECT.json` lists for every definition the lines it models, for every run the properties it
checks, and for every property a mutation of the code's behaviour (an operator marked `mutant:`)
that breaks it.

## The system

| component | state | operations | talks to |
|---|---|---|---|
| proposal review workflow (`internal/store/proposals.go`, `internal/web/proposal_handlers.go`, `internal/web/edit_handlers.go`, `internal/httpapi/proposals.go`) | tables `proposals`, `proposal_reviews` | create, update, withdraw, review, publish | variant content (publish), accounts (roles) |
| variant content (`internal/store/courses.go`, `variant_detail.go`) | `courses`, `course_variants` (with `version`), `lessons`, `challenges` | upsert by slug diff, read a variant | submissions refer to its challenges |
| grading pool and submissions (`internal/grader/pool.go`, `internal/store/submissions.go`, `internal/web/submit_handlers.go`) | table `submissions`; per process a channel, overflow goroutines and two workers | submit, submit a claim, grade, audit, recover at start | grader backend, variant content |
| web editor (`editor/src/main.js`, bundled as `cm6.js`; the preview script of `internal/web/views/edit.templ`) | settings in memory and in `localStorage`, one CodeMirror editor and settings panel per textarea, a debounce timer | load, change a setting, edit, preview, submit | the edit and challenge pages |
| duck CLI, `duck pull` (`cmd/duck/pull.go`, `challenge.go`) | a course root with `.duck-course.json` and a directory per challenge | pull, pull again | HTTP API, the extension |
| VS Code extension (`vscode-extension/src`) | the Courses tree, what was scanned on disk, one shared terminal | load, refresh, expand, pull, test and submit from a lens or a tree item | duck CLI, HTTP API, the editor host |
| duck CLI, the rest (`cmd/duck`) | a checkout with a sidecar naming the proposal, a token | propose, educator pull, test, submit and poll | HTTP API |
| grader backends (`internal/grader/{docker,k8s,cloudrun}grader`) | containers, Jobs and uploaded inputs of a run | run one submission under a deadline | container runtimes |
| scoring and progress (`pool.go` `Score`, `parse_counts.go`, `submissions.go`) | derived | score a run, best score, lesson progress | |
| course document parser (`internal/ingest`) | none | parse, validate, convert to rows | publish, propose, `duck challenge` |
| accounts and sessions (`internal/auth`, `internal/store/{users,sessions,user_tokens}.go`) | `users`, `sessions`, `user_tokens` | register, log in and out, change password, create and revoke tokens, promote | every handler |
| HTTP API (`internal/httpapi`) | none | course reads, export, proposals | store |
| submission poller (`internal/web/static/poll.js`) | none | ask for a fragment until it is final | submission page |
| diff, markdown, web pages, telemetry, course checker, deployment | none that behaviour depends on | rendering, routing, reporting | |

They interact through the database (READ COMMITTED, one transaction per store call), through HTTP
requests whose handlers make several store calls in a row, within a process through the pool's
channel, and on a learner's machine through files, `localStorage` and a terminal. What makes the
code hard to test is what happens between the steps:

- **Handlers of several transactions.** A review is recorded by `AddReview`; the publication it
  decides on is a second transaction, `PublishProposal`. A rate limit is read by one statement and
  the row inserted by another. An editor page is loaded minutes before its form is posted.
- **Crashes and restarts.** The queue lives in memory; `Recover` rebuilds it from the table. A
  second process, which the deployment allows, runs the same recovery while the first is alive. A
  `duck pull` may be killed between any two files.
- **Staleness.** Reviews count for one revision, proposals are based on one version, a tree shows
  what a scan found, a panel what it was last synchronised with, and each of these can move under
  the operation that uses it.
- **Identity through change.** Publishing archives, revives and moves challenge rows, to which
  submissions refer, and renames the directories that pulls look for.
- **Callbacks.** The extension hears of files, refreshes and terminals some time after the fact, in
  the order the host chooses; several editors of one page share one settings object.

What makes each part correct:

- *workflow*: nothing unreviewed goes live; a publication replaces exactly the version it was
  based on; it happens once, in the variant that was reviewed; closed proposals are history; a
  quorum leads to publication.
- *grading*: every submission gets a verdict and keeps it; none is lost or run twice; audits never
  touch a claim's verdict; the limits hold, up to the requests there are at once.
- *content*: the live rows are the last document; a valid document is never refused; submissions
  stay with their challenge; a page has the lesson of every challenge on it.
- *web editor*: no stored value breaks a page; all editors and panels show the settings in use;
  what is posted and previewed is what the user sees; settings survive a reload.
- *pulled courses*: a pull never touches work, misses no challenge, doubles none.
- *extension*: the tree is never empty without a prompt, loses nothing of what it pulled, shows
  nothing that was deleted, and every load ends; commands share one terminal.
- *accounts*: a changed password ends other sessions; a revoked token opens nothing.
- *scoring, parser, diff*: scores lie between 0 and the points; a slug order survives a round
  trip; a diff applied to the old text gives the new.

## Modules

| module | role |
|---|---|
| `ReviewedDocuments` | abstract: a log of documents per variant; what comes from a proposal was approved, once |
| `Proposals` | the workflow: authors, reviewers, publishers and the operator; implements `ReviewedDocuments` |
| `SubmissionLifecycle` | abstract: one verdict per submission, one audit per claim, neither rewritten |
| `GradingPool` | handlers, table, queues, workers, recovery, crashes; implements `SubmissionLifecycle` |
| `VariantCatalog` | abstract: documents published whole, one lasting id per challenge, live challenges solved |
| `VariantContent` | a publish statement by statement, the three-query page, submissions by challenge id; implements `VariantCatalog` |
| `EditorPage` | tabs with editors, panels, shared stored settings and a live preview |
| `PulledCourse` | `duck pull` file by file, the learner's edits, publications that move challenges |
| `CoursesView` | extends `PulledCourse`: the extension's tree, watcher and pull command over the same disk |
| `DuckTerminal` | the extension's commands: which challenge, which terminal |
| `MC...` | small instances of each for TLC |
| `...Proofs` | theorems about each; `CoursesViewProofs` uses the lemmas of `PulledCourseProofs` |

The server's modules divide the system at the version number. `Proposals` knows a variant as the
sequence of documents that were live and decides which document becomes the next;
`VariantContent` says how that document becomes rows; `GradingPool` takes submissions to
challenges by id. On the learner's side `CoursesView` composes the tree with every step of
`PulledCourse`, by the extension's own pull and by one in the user's terminal.

### Proposals

State: `proposals` and `reviews` are the two tables. `history[v]` is the sequence of documents that
were live for variant `v`; version `n` is its `n`-th entry, and the table's `version` its length.
`admins` is the role column. What a request holds between two transactions is explicit: `draft[u]`
is the form a user loaded (`editing`), or whose INSERT or UPDATE has taken its snapshot but not
committed (`submitted`, with the `base_version` of that snapshot: the statement reads the version
in a subquery); `pending` are the publications that committed reviews decided on, each with the
reviewer whose request carries it out.

`authored` and `endorsements` are ghosts: the live version a text was derived from, and every
approval given with the revision its author had read. No guard reads them, apart from the forms
that carry the former along.

| action | code |
|---|---|
| `OpenEditor`, `OpenProposalEditor` | the two editor pages, and `duck educator pull` |
| `Rebase` | external: the author merges the live text by hand |
| `Submit` | handler checks; the statement's snapshot |
| `CreateProposal`, `DuplicateProposal` | the insert, and its refusal by `one_open_proposal_per_user_variant` with what web and CLI do about it |
| `UpdateProposal`, `UpdateRefused` | the guarded update, and `ErrProposalClosed` |
| `WithdrawProposal` | one guarded update |
| `AddReview` | the locking transaction, the count and the decision of `createReview` |
| `PublishProposal`, `PublishRefused`, `PublishLost` | the second transaction commits, is refused, or never runs |
| `Seed`, `SetRole` | the operator's `duckserver seed` and `duckserver user promote` |

Two reviewers who reach the threshold together leave two elements of `pending`, and both publish:
one through `PublishProposal`, the other into `PublishRefused`. Only two requests of one reviewer with the
same decision are one element; the second would be one more `PublishRefused`, which changes no row. Texts are
identified by where they come from: revision `r` of proposal `p`, or an import.

### GradingPool

State: `rows` is the submissions table in order of id; `expired` how many of the oldest rows left
the 24-hour window; `handlers` the requests between their rate check and their `Enqueue`. For each
process, `queue` is the channel, `overflow` the goroutines blocked on a full channel, `workers`
what each worker does (`marking`, `grading`, `saving`), and `recovering` the ids `Recover` has read
and not enqueued. A process that dies loses all of these and no row. `dropped` (ids that, since the last
start, a worker gave up on after an error, or whose handler got no answer to its insert) is a ghost.

Each statement is one action: `CheckRate`, `Create`, `CreateUnanswered` or `CreateFails`, `Schedule`; `Load` or
`LoadFails`, `MarkRunning` or `MarkFails`, `Grade` or `GraderFails`, `Save` or `SaveFails`; `Send` for a
waiting goroutine; `Start` and `RecoverNext`; `Crash`; `WindowSlides`. `Load` joins the
receive from the channel and the query that follows it: between them the worker only holds the
id. The insert runs under the request's context: `CreateUnanswered` is the one that commits while the
handler sees an error, and leaves a row that nobody enqueues before the next start. A worker's save that
commits without an answer only logs: it is `Save`. Its mark is a `MarkRunning` whose job then
gives up, which `SaveFails` leads to as well. An error verdict for an audit (a run that hit its deadline) is a `Grade` with `error`:
the backends return it without a Go error. Scores, outputs and the version a row is stamped with are
left out: no step of the pool reads them.

### VariantContent

State: `lessons` and `challenges` are the rows of one variant by slug; `published` the documents in version order;
`tx` the open transaction with its own copy of the rows; `lastId` the identity column, which
a rollback does not rewind; `page` a `VariantDetail` between its queries; `submitted` the submissions.

`Begin` is the upsert of course and variant: it locks the course row until the end, so there is
one transaction at a time. Then `ArchiveChallenges`, `ArchiveLessons`, `UpsertLesson` and the
`UpsertChallenge`s of that lesson, `UpsertFinal` last, `Commit`; `Rollback` at any point. `ReadVersion`,
`ReadLessons` and `ReadChallenges` are the three queries. Documents are those `validate` lets through.
The order in which a document lists its lessons is left open, so every order is covered.

`VariantCatalog` is what readers and learners rely on, without rows, statements or rollbacks. Its `shown`
is mapped to the rows that are not archived, its `registry` to the ids of all rows: `Commit` is `Publish`,
a `Submit` that is accepted is `Solve`, and every other step is not seen.

### EditorPage

State per browser: `stored` is `localStorage["rd.editor"]`, `usable` whether storage works at all. Per
tab, `settings` is the object all its editors share. Per textarea: what the user sees in its place
(`surface`: editor, plain textarea, or the mobile notice), the editor's `doc`, the textarea's
`value`, the `config` in the editor's compartments, the controls of its `panel`, and for the course
editor the timer (`debounce`), the `requests` in flight and the `preview` shown.

`Load` is `init` with a window that is wide or narrow; `ChangeControl` is `onChange`, which reads all
controls of its panel, applies the result to every editor of the page and saves it; `Edit` is a
keystroke with its update listener and input event; `RenderPreview`, `PreviewArrives` and
`PreviewFails` are the preview script; `Submit` posts the form. `loadSettings` is modelled with its
defaults and clamps for any integers in storage. Texts are identified by the edit that made them.
Languages, themes, key maps and scroll synchronisation are left out; `cm6.js` is the generated
bundle of `main.js` and its libraries.

### PulledCourse and CoursesView

`PulledCourse`: `place[v][c]` is where challenge `c` stands in the published course, which gives its
directory name; `Bare` is the unprefixed name older CLIs used. `marker` is `.duck-course.json`
(`none`, `torn` while it is truncated and unwritten, `whole`); `dirs` the directories, `empty` between
`MkdirAll` and the last `WriteFile`; `edited` those with work in them. A pull goes through
`StartPull` (the fetch), `OpenMarker`, `WriteMarker`, then `LookFor` (is it there?), `MakeDir` (which
succeeds on a directory that has come into being since) and `WriteFiles` for each challenge in course
order, `EndPull`; `BreakPull` is an error or a kill at any point. `Edit`,
`DeleteCourse` and `Republish` are the learner and the author.

`CoursesView` adds `event` (the watcher has something to tell), `dirty` (a refresh was asked for),
`load` (a call of `rootItems`: its token, the markers it has read and those left), `locals`,
the context key `signedIn`, the `tree` with its `item`s and `listing`s. `LoadToken`, `SetContext`,
`FindMarkers`, `ReadMarker`, then `ShowCourses`, `CatalogDenied` (401) or `CatalogFails` (error or the
15 seconds are over) are the steps of `rootItems`; `ExpandCourse` and `ListChallenges` the levels below;
`WatcherFires`, `RefreshCourses` and `ReportPull` what triggers a refresh. `current` (courses the
extension pulled and nothing touched since) is a ghost.

External, modelled from how the code uses it: the host serialises root loads and drops a tree's items
when it gets new ones; it delivers watcher events later, and none for changed contents;
the learner deletes a course only when no pull of it runs; one catalog course has all variants; the cap of 50 results of `findFiles` is not reached. Two assumptions are constants, since the
code does not enforce them: `OneAtATime` (a course is pulled by one pull at a time, which neither `duck`
nor the extension sees to) and `DeletionsReported` (the host tells of each marker that is deleted,
and not only of the directory above it). The theorems that need one say so: `PullsKeepWork` the
former, `DeletedCoursesGo` the latter; all others hold without.

### DuckTerminal

`course` are the roots with a readable marker, `lenses` the arguments of CodeLenses last provided for a
file, `asked` the commands resolved and about to be typed. `terminal` is the extension's variable;
`duck` (ghost) the terminals created for it; `state`, `exited` and `closed` separate what happened to a
terminal from what the host has reported: exit status visible first, then the close event
handled by `DisposeTerminal`. `typed` are the lines a shell has not run; each begins with the `cd` to its
course, so that where the shell was does not matter. `Ask` is `resolveChallenge` and the command's
checks, `RunInTerminal` is `runInTerminal`, `MarkerChanges`, `OpenOther`, `CloseTerminal`, `ReportExit` and
`RunLine` are pulls, the user, the host and the shells. `RestartHost` is a restart of the extension host:
the variable, the lenses, the commands under way and `duck` start anew, and the terminals stay. What is
promised is therefore one shared terminal for each activation.

## What the runs check

Passing runs:

| run | instance | distinct states | what it shows |
|---|---|---|---|
| `Quorum` | 3 users, 1 author, 1 variant, 1 proposal of up to 2 revisions, threshold 2, a role change, an import, handlers that run on, fair | 416,524 | `TypeOK`; `LiveTextWasEndorsed`; `QuorumIsScheduled`; `PublishedOnItsBase` and `PublishedOnce` with two reviewers publishing at once, a revision and an import; `ClosedIsFinal`; `QuorumPublishes`; refinement of `ReviewedDocuments` |
| `Rivals` | 2 authors, one an admin, 2 variants, 2 proposals, threshold 1, requests that die before they publish | 1,398,151 | `OneOpenPerUserVariant`; `PublishedOnItsBase` with another proposal publishing first, and with documents that name another variant |
| `OneServer` | 1 process, 2 workers, 2 concurrent requests, 3 submissions, a queue of 1, 2 crashes, a store that may fail, limits of 1, fair | 258,288 | `TypeOK`; `HeldOnce`; `FinishedIsReleased`; `NothingForgotten`; `LimitsBound`; `VerdictIsFinal`; `EveryVerdictArrives`; refinement of `SubmissionLifecycle` |
| `Content` | 2 lesson slugs, 2 challenge slugs, 3 versions, 4 ids | 579,950 | `TypeOK`; `NeverTwoFinals` after every statement; `LiveIsPublished`; `PageShowsPublished`; refinement of `VariantCatalog` |
| `Editor` | a tab with the course editor, a tab with two challenges, one flag, storage empty or edited by hand or unusable, 2 edits, fair | 196,208 | `TypeOK`; `SettingsInRange`; `EditorsAgree`; `ValueFollowsDocument`; `ChangesOneSetting`; `SettingsPersist`; `EditsAreRendered` |
| `Pull` | 1 course of 2 challenges, 3 places, 2 publications, 3 pulls one after the other, any tree an old CLI left | 167,467 | `NoCopyOfLegacy`; `WorkIsKept`; `PullCompletes` |
| `Courses` | 1 course of 1 challenge, 2 pullers, 2 pulls that may overlap, fair | 183,955 | `TypeOK`; `NeverBlank`; `NoGhostCourses`; `OwnPullsShow`; `LoadsEnd` |
| `Terminal` | a course inside another, a solution and a plain file, 3 terminals, 2 commands, any number of host restarts | 117,660 | `TypeOK`; `OneDuckTerminal` |

Runs that find the code at odds with what the repository says of it:

| run | property | what happens |
|---|---|---|
| `LostUpdate` | `NeverOverwritesUnseen` | `base_version` is taken when the form is posted, not when its text was loaded: what was published in between passes the version check and is overwritten |
| `TwoServers` | `VerdictIsFinal` | a second process recovers what the first is still grading, and a late run rewrites a verdict |
| `OverLimit` | `LimitsCap` | the limits are read before the insert with nothing locked: two requests of a user pass the check together and leave a row more than the limits that `submissions.go` says cap them |
| `RenumberedPull` | `ExistingAreSkipped` | a publication changes a challenge's place and so its directory's name: the next pull scaffolds it a second time beside the learner's work |

Two more disagreements have no run of their own; the definitions are there to be checked:

- `CoursesView!PulledChallengesOpen`, as a property of `Courses`, fails at the first listing of a pulled course: the tree
  looks for the bare slug (`courses.ts:149`), which no current `duck pull` makes, while
  `vscode-extension/README.md:13-14` says that pulled challenges open their solution on click.
- `PulledCourse!WorkIsKept`, in `Pull` with two pullers and `OneAtATime = FALSE`, fails: both pulls find a challenge
  missing (`pull.go:83, 90`), and the slower one truncates the solution (97) that the other made and the learner has
  edited since. `help.go:62-63` says that "pulling again never clobbers work in progress".

Some hazards have no property because the code does nothing about them, and a property could only
restate that; `PROJECT.json` lists each with its line and a note. The main ones: a request that completed a
quorum and dies before its second transaction (`Quorum` with `Failures = TRUE` violates
`QuorumPublishes`: nothing resumes the publication until somebody approves again); an audit that ended in the
grader's own timeout, which is stored and never retried; tests that a publish changes between a
submission's stamp and its run; and preview answers that overtake each other. A variant page read in three
queries may pair the lessons of one version with the challenges of a later one; `PageShowsPublished` says that
it shows nothing else. `LimitsBound` is as strong as the code allows: with `k` concurrent requests a user
can be up to `k - 1` rows over a limit, in flight and in the day; `OverLimit` shows that the limit itself does not
hold. `PullCompletes` asks for a directory for each challenge, not for its files: a pull that dies after
`MkdirAll` leaves one that later pulls skip. `SettingsPersist` is about the tab that saves: what another tab
stored since this one loaded is overwritten. `ChangesOneSetting` states the one thing a control changes beside its own
setting: a stored tab size the select does not offer leaves the select empty, which is read as the default.

### Bounds

- *Three users, threshold 2*: the smallest instance where a quorum needs two people besides the
  proposer, so that one can turn round while the other's handler runs, and both can reach it together. The code's default of 3 adds
  reviewers, not kinds of event; the proofs cover every threshold.
- *Two revisions, one import*: a stale approval and a stale base need one change each.
- *Two proposals, two variants*: the smallest instances with rivals for a base, a closed proposal
  beside a new one, and a document naming the wrong variant.
- *A queue of one* instead of 256: reached, overflowed and drained, with ids waiting behind it.
- *`MaxInFlight = 1` with two requests* instead of 10: the second request passes the check or not,
  according to the interleaving. *`MaxDaily = 1`*: three submissions can
  then exceed either half of `LimitsBound` (fewer than three in flight, fewer than three in a day), and each half has a
  mutant of the check that breaks it. A second row beyond the day's limit comes when the window has slid.
- *Two crashes*: one while a recovery is still running.
- *Two challenge slugs, three versions, four ids*: a slug can be the final, move under a lesson, be
  archived and return; rolled back transactions burn two ids.
- *Two tabs, three textareas*: one page with several editors, one page with a preview, and both over one
  storage. *One flag* of three: flags are toggled and stored alike. Stored values are none, or out of
  range in both numbers; `99` is typed into the font control. *Two edits*: a text and a newer one.
- *Three places, two publications, three pulls*: a challenge moves away and back, with a pull
  before, between and after. *Two pullers* in `Courses`: the extension and a terminal. *One challenge* suffices for the tree, which treats challenges alike.
- *Three terminals, two commands*: the shared one, its successor (after its exit or after a restart of the
  host), and one of the user's.

`MaxRevision`, `MaxSeeds`, `MaxSubmissions`, `MaxCrashes`, `MaxVersion`, `MaxIds`, `MaxEdits`,
`MaxPublications`, `MaxPulls` and `MaxCommands` are bounds on counters the code leaves unbounded.
Deadlock is not checked: every model stops when its bounds are used up, and a server without
requests, or a window nobody uses, is idle. Symmetry is used where the values are only compared for equality (proposal ids, variants,
slugs, terminals, goroutines), and only for safety.

### Fairness

- `Proposals!FairSpec`: weak fairness, for each decision, of carrying it out or refusing it. The
  handler is a goroutine in the middle of a request, which no other handler holds up for ever;
  with `Failures = FALSE` nothing stops it. Nobody is
  assumed to review or to revise.
- `GradingPool!FairSpec`: a handler past its insert runs on, workers and waiting goroutines are scheduled,
  a run ends (the grader works under a deadline), a process that is down is started again (by
  its supervisor, or by Cloud Run at the next request) and its recovery proceeds. The grader and the store may
  fail each time; the number of crashes is finite. `EveryVerdictArrives` excepts what a worker gave up on
  for a failing store and what a handler stored without learning it: they wait for the next start, which
  may not come.
- `EditorPage!FairSpec`: a timer that is not reset fires. Nothing is assumed of the server: `EditsAreRendered`
  is about the request, not its answer.
- `CoursesView!FairSpec`: the host runs the ready steps of a load, `CatalogFails` (the deadline of 15
  seconds) among them. The server may never answer.

## What is proved

Every passing run's invariants and action properties, and both refinements, are proved for all values of
the constants, under the assumptions the modules state (`...Assumption`: finitely many users,
workers or requests where they are counted, positive limits; `NoneAssumption`: `None` is none of the values it stands
beside). Of the theorems of `GradingPool`, those on where a submission is held, on final verdicts, on both
limits together and the refinement assume `OneServer`, which is what `TwoServers` shows them to
need; type correctness, `ManyServersKeepClaims` and `TakenJobsEnd` hold of any number of servers.

| module | theorems | inductive invariant |
|---|---|---|
| `ProposalsProofs` | `TypeCorrect`, `LiveTextEndorsed`, `ClosedStayClosed`, `OneOpenProposal`, `PublishedRowsAreLive`, `RowsPublishOnce`, `ReviewsImplementTheLog`, `QuorumsAreScheduled`, `QuorumsArePublished` | `EndorsementInv`, `PublicationInv`, `ReviewedInv`, `QuorumInv` |
| `GradingPoolProofs` | `GradingTypeCorrect`, `HeldInOnePlace`, `FinishedIsHeldNowhere`, `OnlyTheDroppedAreForgotten`, `VerdictsStay`, `LimitsHold`, `GradingImplementsLifecycle`, `ManyServersKeepClaims`, `TakenJobsEnd` | `GradingInv`, `InFlightInv`, `DailyInv` |
| `VariantContentProofs` | `ContentTypeCorrect`, `LiveRowsArePublished`, `IndexRefusesNothing`, `HistoryIsKept`, `PagesShowVersions`, `RowsImplementTheCatalog` | `ContentInv`, `ReadingOK` |
| `EditorPageProofs` | `PageTypeCorrect`, `SettingsStayInRange`, `EditorsStayInAgreement`, `ValuesFollowDocuments`, `SettingsArePersistent`, `ControlsChangeOneSetting`, `TextsAreRendered` | `PageInv`, `DocsInv` |
| `PulledCourseProofs` | `PulledTypeCorrect`, `LegacyIsNotCopied`, `PullsKeepWork`, `PullsComplete`, `UnmovedAreSkipped` | `PulledInv`, `DirsAreInPlace` |
| `CoursesViewProofs` | `ViewTypeCorrect`, `PromptIsShown`, `DeletedCoursesGo`, `PulledCoursesShow`, `PullsAreSafeUnderView` | `ViewInv`, `PulledInv` |
| `DuckTerminalProofs` | `TypeCorrect`, `OneTerminalIsShared`, `ExitedStayUntouched` | `DuckInv` |

Why the invariants are what they are:

- *Endorsement.* When a publication goes live, that its revision was endorsed is
  known only from the decision that scheduled it, and that the decision was right only from the
  reviews it counted. `EndorsementInv` has one conjunct for each link: `ReviewsAreEndorsed` (a standing
  approval of revision `r` was given by someone who read `r`), `PendingIsEndorsed` and
  `LiveIsEndorsed`. Endorsement is permanent (`EndorsedPersists`, by monotonicity of cardinality), and
  a positive decision implies it (`DecisionIsEndorsed`: the counted approvers are among the
  endorsers, since the reviewer's own page showed the current revision).
- *Publication.* That a row is published in the variant it was opened for is known from what forms, rows
  and decisions name (`TargetInv`, one conjunct for each). `PublishMarks` says what one publication leaves; everything
  published earlier stays because closed rows (`ClosedRowsStay`) and histories (`HistoryGrows`) do.
  `OneOpenPerUserVariant` is inductive by itself. The refinement adds that endorsements are of rows that
  exist (`EndorsementsExist`); a step approves at most the one revision that was reviewed
  (`ApprovedGrows`), and an open row never went live, by `PublishedOnce`.
- *Quorum.* `QuorumIsScheduled` fails to be inductive where a row could come to its quorum by something other
  than a review: with reviews of a revision it does not have yet (`ReviewsBehind`), or with a base that
  the live version only catches up with (`FormsBehind`, `RowsBehind`). Since no base is ahead of what
  is live, a base that fell behind stays behind, and only the handler of a decision uses that decision up.
- *Grading.* `GradingInv` says where a submission can be: in at most one of request, recovery, overflow, queue
  and worker (`ApartInv`); nowhere while the process is down (`DownIsEmpty`); nowhere once it is finished
  (`HeldIsUnfinished`), which is why no verdict is rewritten; somewhere as long as it is not
  (`UnfinishedIsHeld`). A claimed row always has a verdict (`ClaimedIsTerminal`), so an audit is a step of its own
  in `SubmissionLifecycle`. `InFlightInv` and `DailyInv` count rows and requests that passed the
  check together. The daily bound needs only that rows stay, which is why it is true of any number of servers; the
  bound on submissions in flight also needs that finished rows stay finished, which two servers
  break. That a claimed row never changes its verdict needs only that a job takes its row's path (`JobsOK`).
- *Content.* `ContentInv` describes a transaction half way: each row is written with its place in the
  document, gone with it, or live only as the last version left it (`ChallengesOK`). The final is written
  last, when every other row that could be a live final has been moved or archived, which is `NeverTwoFinals`. Ids
  are distinct and rows keep theirs (`IdsOK`, `RowsStay`). That makes `Commit` the one step in
  which the live rows change, and they change to the whole document: the refinement of `VariantCatalog`.
  `ReadingOK` keeps which version the first two queries of a page saw (`VersionsStay`).
- *Editor.* `PageInv` is the types and the three invariants together: the panels that are read were
  synchronised with settings in range, so that reading one back changes only what its user touched
  and, where the select is empty, the tab size (`OneControlOneField`, with `TabsAreLoaded` for what a change leaves of a
  stored tab size). `DocsInv` numbers no document beyond the edits there have been, and
  gives plain textareas none: a text comes into an editor by an edit, and what replaces it is newer.
- *Pulled courses.* That files are written only where this pull found nothing (`MissingInv`, `IsNew`), and
  nothing came there since if pulls do not overlap (`StaysNew`), keeps work;
  `BehindIsThere` (whatever a pull has passed exists) makes pulls complete. Only the former needs `OneAtATime`.
  `DirsAreInPlace` (before any publication every numbered directory has its challenge's place, and a running
  pull has the places as they are) gives `UnmovedAreSkipped`: what `RenumberedPull` refutes is true up to the first
  publication, so the publication alone is to blame and neither an interrupted pull nor an old tree.
- *Composition.* `PullsAreSafeUnderView` carries the promises of `PulledCourse` to `CoursesView`, whose steps either are
  steps of the pulls or leave the disk alone (`ViewStep`), but for `ReportPull`, which needs a lemma of its own.
- *Courses view.* `ScanOK` says what a load half way through knows of the markers as long as no refresh is due,
  `ShownOK` the same of the tree made of it.
- *Terminal.* `OneDuckTerminal` is inductive with the types and with that what was created for sharing exists
  (`DuckInv`): the variable moves on only from a terminal that has exited, and none of those opens again.

Liveness. The prover does not handle ENABLED, so that a fairness condition gives what it is assumed for
cannot be proved. Three theorems therefore take as a hypothesis what fairness is for, that a certain
kind of work does not stand still, and prove what the code makes of it:

| theorem | hypothesis | implied by, on the run's instance |
|---|---|---|
| `QuorumsArePublished` | `HandlersRun`: every decided publication is carried out or refused; and `~ Failures` | `Proposals!FairSpec` (`Quorum`) |
| `TakenJobsEnd` | `WorkersRun`: no worker stays at marking, grading or saving for ever | `GradingPool!FairSpec` (`OneServer`) |
| `TextsAreRendered` | `TimersEnd`: a preview timer that runs fires or is cleared | `EditorPage!FairSpec` (`Editor`) |

TLC confirms the last column when the hypothesis is given to the run as its `PROPERTY`.

None of them is the conclusion in other words: each shows that no step of anybody else loses the
work. A quorum must have its handler, for the revision that has it; a job must go from step to step
with its submission, even if another server finishes or restarts that one; a timer must not
stop with a text unsent.

Only model-checked: that fairness gives these hypotheses; `EveryVerdictArrives`, whose way through the queue
needs an induction over positions, of which `TakenJobsEnd` is the last part; and `LoadsEnd`, which
needs one over the markers left to read. The library's induction theorems take an operator as a
parameter, which none of the provers can instantiate.

## What is not modelled

- Scores, output and version of a submission, and therefore scoring and progress: functions of single rows, which
  table tests reach. So do the diff and the parser's ordering of slugs.
- The course row's title, description and tags, which the variants of a course share and overwrite
  without a version check of their own.
- `DeleteCourse` and `DeleteVariant`, which no program calls.
- The sidecar file of `duck propose` and the polling of `duck submit`; `poll.js`, a loop of one
  request and one timer that stops at the first failure.
- The work inside a grader backend and what it leaves behind when it fails: it depends on container
  runtimes and cloud services whose behaviour the code does not determine.
- Sessions, tokens and the password change, which updates the hash and deletes the other sessions in two
  statements: of the parts left out, the one most worth a module.
- Languages, themes, key maps and scroll synchronisation of the web editor; pickers, icons and wording of
  the extension; `cm6.js`, which is generated.
- Markdown, diagrams, pages, telemetry, the course checker, deployment scripts: rendering and I/O without
  state that a behaviour depends on. The instance limit of `infra/run_service.tf` is what makes
  `TwoServers` possible.
