------------------------------ MODULE CoursesView ------------------------------
(***************************************************************************)
(* The Courses view of the VS Code extension (vscode-extension/src/         *)
(* courses.ts, api.ts, local.ts, extension.ts) over the courses on disk:    *)
(* CoursesProvider, the watcher on the markers, and the pull command.       *)
(*                                                                         *)
(* The host (VS Code) is external: it delivers the watcher's events some    *)
(* time later, asks the provider for the root items after a refresh, one    *)
(* request at a time, and drops the items of the old tree when it has new   *)
(* ones.  One catalog course has all the variants.                          *)
(***************************************************************************)
EXTENDS PulledCourse

CONSTANTS
  Ours,               \* the puller that stands for the extension's pull command
  DeletionsReported,  \* whether the host tells of each marker that is deleted,
                      \* and not only of the directory it was in
  None                \* no load, no item, no local directory

\* A call of rootItems: how far it is, the token it read, the markers it found
\* to be whole and those it has not read yet.
Loads ==
  [at : {"token", "scan", "read"}, token : BOOLEAN,
   scan : SUBSET Variants, left : SUBSET Variants]

ASSUME OursAssumption == Ours \in Pullers
ASSUME HostAssumption == DeletionsReported \in BOOLEAN
ASSUME NoneAssumption == None \notin Loads /\ None \notin {"pulled", "plain"}

VARIABLES
  event,     \* the watcher has created or deleted markers to tell of
  dirty,     \* the provider asked for a refresh, the host has not started it
  load,      \* the call of rootItems under way
  locals,    \* the variants with a marker, as of the last load that succeeded
  signedIn,  \* the context key duck.signedIn
  tree,      \* the root of the tree the user sees
  item,      \* variant -> its VariantItem: pulled, plain, or not there
  listing,   \* variant -> its ChallengeItems, by challenge: the place in the
             \* name of the local directory, None without one
  current    \* history: pulled by the extension and not touched since

view == <<event, dirty, load, locals, signedIn, tree, item, listing, current>>
vars == <<pulledVars, view>>

-----------------------------------------------------------------------------
(* The disk and the watcher.                                                *)

Created == {v \in Variants : marker[v] = "none" /\ marker'[v] # "none"}
Deleted == {v \in Variants : marker[v] # "none" /\ marker'[v] = "none"}

HearCreation ==   \* mutant: deletions are not listened to
  event' = (event \/ Created # {})

\* The watcher hears of markers created and deleted, not of changed ones.
HearMarkers ==
  \E told \in BOOLEAN :
    /\ DeletionsReported => told
    /\ event' = (event \/ Created # {} \/ (told /\ Deleted # {}))

OnDisk ==
  /\ PulledNext
  /\ HearMarkers
  /\ current' = {v \in current : marker'[v] = marker[v]}
  /\ UNCHANGED <<dirty, load, locals, signedIn, tree, item, listing>>

-----------------------------------------------------------------------------
(* Refreshes.                                                               *)

Refresh == dirty' = TRUE

WatcherFires ==
  /\ event
  /\ event' = FALSE
  /\ Refresh
  /\ UNCHANGED <<pulledVars, load, locals, signedIn, tree, item, listing, current>>

\* duck.refreshCourses, and the button that duck.login offers.
RefreshCourses ==
  /\ Refresh
  /\ UNCHANGED <<pulledVars, event, load, locals, signedIn, tree, item, listing, current>>

ReportOnly == UNCHANGED dirty   \* mutant: the tree waits for the watcher

AfterPull == Refresh

\* pullCourse has its answer from duck pull: the tree is refreshed after a
\* success, a failure is reported to the user only.
ReportPull ==
  /\ \/ /\ pull[Ours].at = "done"
        /\ AfterPull
        /\ current' = current \cup {v \in {pull[Ours].variant} : marker[v] = "whole"}
     \/ /\ pull[Ours].at = "failed"
        /\ UNCHANGED <<dirty, current>>
  /\ Step(Ours, "idle")
  /\ UNCHANGED <<place, disk, publications, pulls>>
  /\ UNCHANGED <<event, load, locals, signedIn, tree, item, listing>>

-----------------------------------------------------------------------------
(* rootItems.                                                               *)

ShowOver(root) ==   \* mutant: the items of the old tree stay
  /\ load' = None
  /\ tree' = root
  /\ UNCHANGED <<item, listing>>

Show(root) ==
  /\ load' = None
  /\ tree' = root
  /\ item' = [v \in Variants |-> None]
  /\ listing' = [v \in Variants |-> None]

Keep == UNCHANGED <<tree, item, listing>>

\* The host asks for the root items, which starts with reading the token: it
\* comes with a login and goes with the file or the environment.
LoadToken ==
  /\ dirty
  /\ load = None
  /\ dirty' = FALSE
  /\ \E token \in BOOLEAN :
       load' = [at |-> "token", token |-> token, scan |-> {}, left |-> Variants]
  /\ Keep
  /\ UNCHANGED <<pulledVars, event, locals, signedIn, current>>

\* setContext; without a token that is all, and the welcome view takes over.
SetContext ==
  /\ load # None /\ load.at = "token"
  /\ signedIn' = load.token
  /\ IF load.token
     THEN load' = [load EXCEPT !.at = "scan"] /\ Keep
     ELSE Show("empty")
  /\ UNCHANGED <<pulledVars, event, dirty, locals, current>>

\* findLocalCourses lists the markers ...
FindMarkers ==
  /\ load # None /\ load.at = "scan"
  /\ load' = [load EXCEPT !.at = "read", !.left = {v \in Variants : marker[v] # "none"}]
  /\ Keep
  /\ UNCHANGED <<pulledVars, event, dirty, locals, signedIn, current>>

\* ... and reads each: one that is gone or corrupt is skipped.
ReadMarker ==
  /\ load # None /\ load.at = "read"
  /\ \E v \in load.left :
       load' = [load EXCEPT !.left = @ \ {v},
                            !.scan = IF marker[v] = "whole" THEN @ \cup {v} ELSE @]
  /\ Keep
  /\ UNCHANGED <<pulledVars, event, dirty, locals, signedIn, current>>

\* listCourses is under way, or its answer waits for the scan.
Fetching == load # None /\ load.at \in {"scan", "read"}

BlankOn401 == UNCHANGED signedIn   \* mutant: the context stays as it was

SignOut == signedIn' = FALSE

\* The token is revoked: AuthError.
CatalogDenied ==
  /\ Fetching
  /\ SignOut
  /\ Show("empty")
  /\ UNCHANGED <<pulledVars, event, dirty, locals, current>>

NoDeadline == FALSE   \* mutant: a request waits as long as the server does

Deadline == Fetching

\* The request fails, or its 15 seconds are over: an error node.
CatalogFails ==
  /\ Deadline
  /\ Show("message")
  /\ UNCHANGED <<pulledVars, event, dirty, locals, signedIn, current>>

\* Both are there, Promise.all resolves: the catalog has courses, or none.
ShowCourses ==
  /\ load # None /\ load.at = "read" /\ load.left = {}
  /\ locals' = load.scan
  /\ \E root \in {"courses", "message"} : Show(root)
  /\ UNCHANGED <<pulledVars, event, dirty, signedIn, current>>

-----------------------------------------------------------------------------
(* The levels below.                                                        *)

\* The course is expanded: its VariantItems keep what locals says now.
ExpandCourse ==
  /\ tree = "courses"
  /\ item' = [v \in Variants |-> IF v \in locals THEN "pulled" ELSE "plain"]
  /\ UNCHANGED <<pulledVars, event, dirty, load, locals, signedIn, tree, listing, current>>

LocalDir(v, c) == IF item[v] = "pulled" /\ Exists(v, <<c, Bare>>) THEN Bare ELSE None

\* A variant is expanded: its challenges arrive, for which no token is needed,
\* and their directories are looked for (challengeItems); or an error node.
ListChallenges(v) ==
  /\ item[v] # None
  /\ \/ listing' = [listing EXCEPT ![v] = [c \in Challenges |-> LocalDir(v, c)]]
     \/ listing' = [listing EXCEPT ![v] = None]
  /\ UNCHANGED <<pulledVars, event, dirty, load, locals, signedIn, tree, item, current>>

-----------------------------------------------------------------------------
\* The extension is activated; opening the view asks for the first load.
Init ==
  /\ PulledInit
  /\ event = FALSE
  /\ dirty = TRUE
  /\ load = None
  /\ locals = {}
  /\ signedIn = FALSE
  /\ tree = None
  /\ item = [v \in Variants |-> None]
  /\ listing = [v \in Variants |-> None]
  /\ current = {}

LoadStep ==
  \/ SetContext
  \/ FindMarkers
  \/ ReadMarker
  \/ CatalogFails

Next ==
  \/ OnDisk
  \/ WatcherFires
  \/ RefreshCourses
  \/ ReportPull
  \/ LoadToken
  \/ LoadStep
  \/ ShowCourses
  \/ CatalogDenied
  \/ ExpandCourse
  \/ \E v \in Variants : ListChallenges(v)

Spec == Init /\ [][Next]_vars

\* The extension host runs what is ready, and a request's deadline passes.  The
\* server may never answer.
FairSpec == Spec /\ WF_vars(LoadStep)

-----------------------------------------------------------------------------
(* What the view promises.                                                  *)

\* Every variable has its type, and the tree is one: no item without its parent.
TypeOK ==
  /\ PulledTypeOK
  /\ {event, dirty, signedIn} \subseteq BOOLEAN
  /\ load \in Loads \cup {None}
  /\ locals \in SUBSET Variants
  /\ tree \in {None, "empty", "message", "courses"}
  /\ item \in [Variants -> {None, "pulled", "plain"}]
  /\ listing \in [Variants -> {None} \cup [Challenges -> {None, Bare}]]
  /\ \A v \in Variants :
       (item[v] # None => tree = "courses") /\ (listing[v] # None => item[v] # None)
  /\ current \in SUBSET Variants

\* Nothing is on its way that could change the tree.
Settled == ~ event /\ ~ dirty /\ load = None

\* "viewsWelcome shows the login prompt" (courses.ts): a view without items is
\* one the prompt is shown in, however the token came and went meanwhile.
NeverBlank == tree = "empty" /\ load = None => ~ signedIn

\* A course deleted from the workspace is not shown as pulled once the tree has
\* settled, whatever was scanned before, if the host tells of the deletion.
NoGhostCourses ==
  Settled /\ tree = "courses" => \A v \in locals : marker[v] # "none"

\* "Refresh when a pull scaffolds a course, so pulled markers stay current"
\* (extension.ts): a course the extension pulled is shown as pulled, even when
\* a scan met its marker half written.
OwnPullsShow == Settled /\ tree = "courses" => current \subseteq locals

\* "Without a deadline an unreachable server leaves the tree view spinning
\* forever" (api.ts): with it, every load ends.
LoadsEnd == load # None ~> load = None

-----------------------------------------------------------------------------
(* What the documentation says and the code does not do.                    *)

\* "Variants you've already pulled are marked, and their challenges open the
\* local solution file on click" (vscode-extension/README.md): listing a pulled
\* variant gives a challenge its directory if there is one.
PulledChallengesOpen ==
  [][\A v \in Variants, name \in Names :
       listing'[v] \notin {None, listing[v]} /\ item[v] = "pulled" /\ dirs[v][name] = "whole"
         => listing'[v][name[1]] # None]_listing
==============================================================================
