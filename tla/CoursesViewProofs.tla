--------------------------- MODULE CoursesViewProofs ---------------------------
(***************************************************************************)
(* What the Courses view shows once nothing is under way, for any courses   *)
(* and any pullers, however scans, watcher events, refreshes, logins and    *)
(* pulls interleave.                                                        *)
(***************************************************************************)
EXTENDS CoursesView, PulledCourseProofs

-----------------------------------------------------------------------------
(* Steps shared by the proofs.                                              *)

\* The pull command's own step leaves the disk alone and keeps its types.
LEMMA ReportPullTypeOK == PulledTypeOK /\ ReportPull => PulledTypeOK'
<1> SUFFICES ASSUME PulledTypeOK, ReportPull PROVE PulledTypeOK'
  OBVIOUS
<1>1. pull' \in [Pullers ->
        [at : Stages, variant : Variants, list : Orders, todo : SUBSET Challenges]]
  <2>1. pull \in [Pullers ->
          [at : Stages, variant : Variants, list : Orders, todo : SUBSET Challenges]]
    BY DEF PulledTypeOK
  <2>2. pull' = [pull EXCEPT ![Ours].at = "idle"]
    BY DEF ReportPull, Step
  <2>3. "idle" \in Stages
    BY DEF Stages
  <2> QED
    BY <2>1, <2>2, <2>3
<1> QED
  BY <1>1 DEF PulledTypeOK, ReportPull, disk

\* Reading a marker moves its variant from left to scan, if it is whole.
LEMMA ReadMarkerLoad ==
  ASSUME load \in Loads \cup {None}, ReadMarker
  PROVE  /\ load' \in Loads
         /\ load'.at = "read"
         /\ \E v \in load.left :
              /\ load'.left = load.left \ {v}
              /\ load'.scan = IF marker[v] = "whole" THEN load.scan \cup {v} ELSE load.scan
<1>1. load \in Loads /\ load.at = "read"
  BY DEF ReadMarker
<1>2. PICK v \in load.left :
        load' = [load EXCEPT !.left = @ \ {v},
                             !.scan = IF marker[v] = "whole" THEN @ \cup {v} ELSE @]
  BY DEF ReadMarker
<1>3. v \in Variants
  BY <1>1 DEF Loads
<1> DEFINE S == IF marker[v] = "whole" THEN load.scan \cup {v} ELSE load.scan
<1>4. S \in SUBSET Variants
  BY <1>1, <1>3 DEF Loads
<1>5. load' = [load EXCEPT !.left = load.left \ {v}, !.scan = S]
  BY <1>2
<1> HIDE DEF S
<1>6. load' \in Loads /\ load'.at = "read" /\ load'.left = load.left \ {v} /\ load'.scan = S
  BY <1>1, <1>4, <1>5 DEF Loads
<1> QED
  BY <1>6 DEF S

-----------------------------------------------------------------------------
(* Type correctness.                                                        *)

LoadOK == load \in Loads \cup {None}

\* The tree as far as it is typed, and no item without its parent.
TreeOK ==
  /\ locals \in SUBSET Variants
  /\ tree \in {None, "empty", "message", "courses"}
  /\ item \in [Variants -> {None, "pulled", "plain"}]
  /\ listing \in [Variants -> {None} \cup [Challenges -> {None, Bare}]]
  /\ \A v \in Variants :
       (item[v] # None => tree = "courses") /\ (listing[v] # None => item[v] # None)

\* A new tree is well typed.
LEMMA ShowTreeOK ==
  ASSUME NEW root \in {"empty", "message", "courses"}, Show(root), locals' \in SUBSET Variants
  PROVE  TreeOK'
BY DEF Show, TreeOK

\* The view that was just opened is well typed.
LEMMA ViewInitTypeOK == Init => TypeOK
BY PulledInitTypeOK DEF Init, TypeOK

\* Every step of the disk, the watcher, the loads and the user preserves the types.
LEMMA ViewNextTypeOK == TypeOK /\ [Next]_vars => TypeOK'
<1> SUFFICES ASSUME TypeOK, [Next]_vars PROVE TypeOK'
  OBVIOUS
<1> USE DEF LoadOK
<1>0. PulledTypeOK /\ LoadOK /\ TreeOK /\ current \in SUBSET Variants
      /\ {event, dirty, signedIn} \subseteq BOOLEAN
  BY DEF TypeOK, TreeOK
<1>a. PulledTypeOK' /\ LoadOK' /\ TreeOK' /\ current' \in SUBSET Variants
      /\ {event', dirty', signedIn'} \subseteq BOOLEAN => TypeOK'
  BY DEF TypeOK, TreeOK
<1>b. UNCHANGED pulledVars => PulledTypeOK'
  BY <1>0, PulledNextTypeOK
<1>c. UNCHANGED <<locals, tree, item, listing>> => TreeOK'
  BY <1>0 DEF TreeOK
<1>1. CASE OnDisk
  <2>1. event' \in BOOLEAN
    BY <1>0, <1>1 DEF OnDisk, HearMarkers
  <2> QED
    BY <1>0, <1>1, <1>a, <1>c, <2>1, PulledNextTypeOK DEF OnDisk
<1>2. CASE WatcherFires
  BY <1>0, <1>2, <1>a, <1>b, <1>c DEF WatcherFires, Refresh
<1>3. CASE RefreshCourses
  BY <1>0, <1>3, <1>a, <1>b, <1>c DEF RefreshCourses, Refresh
<1>4. CASE ReportPull
  <2>1. pull[Ours].variant \in Variants
    BY <1>0, OursAssumption DEF PulledTypeOK
  <2> QED
    BY <1>0, <1>4, <1>a, <1>c, <2>1, ReportPullTypeOK DEF ReportPull, AfterPull, Refresh
<1>5. CASE LoadToken
  <2>1. LoadOK'
    BY <1>5 DEF LoadToken, Loads
  <2> QED
    BY <1>0, <1>5, <1>a, <1>b, <1>c, <2>1 DEF LoadToken, Keep
<1>6. CASE SetContext
  <2>1. load \in Loads /\ load.token \in BOOLEAN
    BY <1>0, <1>6 DEF SetContext, Loads
  <2>2. CASE load.token
    BY <1>0, <1>6, <1>a, <1>b, <1>c, <2>1, <2>2 DEF SetContext, Keep, Loads
  <2>3. CASE ~ load.token
    <3>1. Show("empty") /\ UNCHANGED locals
      BY <1>6, <2>3 DEF SetContext
    <3>2. TreeOK'
      BY <1>0, <3>1, ShowTreeOK DEF TreeOK
    <3> QED
      BY <1>0, <1>6, <1>a, <1>b, <2>1, <3>1, <3>2 DEF SetContext, Show
  <2> QED
    BY <2>1, <2>2, <2>3
<1>7. CASE FindMarkers
  <2> DEFINE there == {v \in Variants : marker[v] # "none"}
  <2>1. load \in Loads /\ load' = [load EXCEPT !.at = "read", !.left = there]
    BY <1>0, <1>7 DEF FindMarkers
  <2>2. load' \in Loads
    BY <2>1 DEF Loads
  <2> QED
    BY <1>0, <1>7, <1>a, <1>b, <1>c, <2>2 DEF FindMarkers, Keep
<1>8. CASE ReadMarker
  <2>1. load' \in Loads
    BY <1>0, <1>8, ReadMarkerLoad
  <2> QED
    BY <1>0, <1>8, <1>a, <1>b, <1>c, <2>1 DEF ReadMarker, Keep
<1>9. CASE CatalogFails
  <2>1. TreeOK'
    BY <1>0, <1>9, ShowTreeOK DEF CatalogFails, TreeOK
  <2> QED
    BY <1>0, <1>9, <1>a, <1>b, <2>1 DEF CatalogFails, Show
<1>10. CASE ShowCourses
  <2>1. locals' \in SUBSET Variants
    BY <1>0, <1>10 DEF ShowCourses, Loads
  <2>2. TreeOK'
    BY <1>10, <2>1, ShowTreeOK DEF ShowCourses
  <2> QED
    BY <1>0, <1>10, <1>a, <1>b, <2>2 DEF ShowCourses, Show
<1>11. CASE CatalogDenied
  <2>1. TreeOK'
    BY <1>0, <1>11, ShowTreeOK DEF CatalogDenied, TreeOK
  <2> QED
    BY <1>0, <1>11, <1>a, <1>b, <2>1 DEF CatalogDenied, SignOut, Show
<1>12. CASE ExpandCourse
  <2>1. TreeOK'
    BY <1>0, <1>12, NoneAssumption DEF ExpandCourse, TreeOK
  <2> QED
    BY <1>0, <1>12, <1>a, <1>b, <2>1 DEF ExpandCourse
<1>13. ASSUME NEW v \in Variants, ListChallenges(v) PROVE TypeOK'
  <2>1. [c \in Challenges |-> LocalDir(v, c)] \in [Challenges -> {None, Bare}]
    BY DEF LocalDir
  <2>2. TreeOK'
    BY <1>0, <1>13, <2>1 DEF ListChallenges, TreeOK
  <2> QED
    BY <1>0, <1>13, <1>a, <1>b, <2>2 DEF ListChallenges
<1>14. CASE UNCHANGED vars
  BY <1>0, <1>14, <1>a, <1>b, <1>c DEF vars, view
<1> QED
  BY <1>1, <1>2, <1>3, <1>4, <1>5, <1>6, <1>7, <1>8, <1>9, <1>10, <1>11, <1>12, <1>13, <1>14
     DEF Next, LoadStep

\* The view's variables keep their types, and its tree stays one.
THEOREM ViewTypeCorrect == Spec => []TypeOK
BY ViewInitTypeOK, ViewNextTypeOK, PTL DEF Spec

-----------------------------------------------------------------------------
(* The login prompt.                                                        *)

\* A view without items is one the login prompt is shown in: each way a load
\* has to end without items has put the context key out.
THEOREM PromptIsShown == Spec => []NeverBlank
<1>1. Init => NeverBlank
  BY DEF Init, NeverBlank
<1>2. TypeOK /\ NeverBlank /\ [Next]_vars => NeverBlank'
  <2> SUFFICES ASSUME TypeOK, NeverBlank, [Next]_vars PROVE NeverBlank'
    OBVIOUS
  <2>1. load \in Loads \cup {None}
    BY DEF TypeOK
  <2>2. CASE LoadToken
    <3>1. load' \in Loads
      BY <2>2 DEF LoadToken, Loads
    <3> QED
      BY <3>1, NoneAssumption DEF NeverBlank
  <2>3. CASE SetContext
    <3>1. CASE load.token
      <4>1. load' \in Loads
        BY <2>1, <2>3, <3>1 DEF SetContext, Loads
      <4> QED
        BY <4>1, NoneAssumption DEF NeverBlank
    <3>2. CASE ~ load.token
      <4>1. signedIn' = load.token /\ load.token \in BOOLEAN
        BY <2>1, <2>3 DEF SetContext, Loads
      <4> QED
        BY <3>2, <4>1 DEF NeverBlank
    <3> QED
      BY <3>1, <3>2
  <2>4. CASE FindMarkers
    <3> DEFINE there == {v \in Variants : marker[v] # "none"}
    <3>1. load \in Loads /\ load' = [load EXCEPT !.at = "read", !.left = there]
      BY <2>1, <2>4 DEF FindMarkers
    <3>2. load' \in Loads
      BY <3>1 DEF Loads
    <3> QED
      BY <3>2, NoneAssumption DEF NeverBlank
  <2>5. CASE ReadMarker
    BY <2>1, <2>5, ReadMarkerLoad, NoneAssumption DEF NeverBlank
  <2> QED
    BY <2>2, <2>3, <2>4, <2>5 DEF Next, LoadStep, OnDisk, WatcherFires, RefreshCourses,
       ReportPull, ShowCourses, CatalogDenied, CatalogFails, ExpandCourse, ListChallenges,
       Show, SignOut, NeverBlank, vars, view
<1> QED
  BY <1>1, <1>2, ViewTypeCorrect, PTL DEF Spec

-----------------------------------------------------------------------------
(* The markers the tree was made of.                                        *)

\* Once a load is reading markers: what it has found is there, what was pulled
\* is found or still to be read; before that it has found nothing.
ScanOK ==
  load # None =>
    /\ load.at # "read" => load.scan = {}
    /\ ~ dirty /\ load.at = "read" => current \subseteq load.scan \cup load.left
    /\ DeletionsReported /\ ~ dirty /\ ~ event /\ load.at = "read"
         => \A v \in load.scan : marker[v] # "none"

\* The same of the tree that was made of the last scan.
ShownOK ==
  load = None /\ tree = "courses" /\ ~ dirty =>
    /\ current \subseteq locals
    /\ DeletionsReported /\ ~ event => \A v \in locals : marker[v] # "none"

\* A course that was pulled and not touched since has its marker.
CurrentOK == \A v \in current : marker[v] = "whole"

ViewInv == TypeOK /\ ScanOK /\ ShownOK /\ CurrentOK

\* Nothing was scanned, shown or pulled yet.
LEMMA ViewInitInv == Init => ViewInv
BY ViewInitTypeOK DEF Init, ViewInv, ScanOK, ShownOK, CurrentOK

\* Steps of the disk: a marker that comes or goes is an event, and one that
\* changes takes its course out of current.
LEMMA OnDiskInv == ViewInv /\ OnDisk => ScanOK' /\ ShownOK' /\ CurrentOK'
<1> SUFFICES ASSUME ViewInv, OnDisk PROVE ScanOK' /\ ShownOK' /\ CurrentOK'
  OBVIOUS
<1>1. /\ current' = {v \in current : marker'[v] = marker[v]}
      /\ UNCHANGED <<dirty, load, locals, tree>>
  BY DEF OnDisk
<1>2. DeletionsReported /\ ~ event' =>
        ~ event /\ \A v \in Variants : marker[v] # "none" => marker'[v] # "none"
  BY DEF OnDisk, HearMarkers, Deleted
<1>3. load # None => load.scan \subseteq Variants
  BY DEF ViewInv, TypeOK, Loads
<1>4. locals \subseteq Variants
  BY DEF ViewInv, TypeOK
<1>5. ScanOK'
  BY <1>1, <1>2, <1>3 DEF ViewInv, ScanOK
<1>6. ShownOK'
  BY <1>1, <1>2, <1>4 DEF ViewInv, ShownOK
<1> QED
  BY <1>1, <1>5, <1>6 DEF ViewInv, CurrentOK

\* The steps of a load, and the tree that comes of it.
LEMMA LoadInv ==
  ViewInv /\ (LoadToken \/ LoadStep \/ ShowCourses \/ CatalogDenied)
    => ScanOK' /\ ShownOK' /\ CurrentOK'
<1> SUFFICES ASSUME ViewInv, LoadToken \/ LoadStep \/ ShowCourses \/ CatalogDenied
             PROVE  ScanOK' /\ ShownOK' /\ CurrentOK'
  OBVIOUS
<1>1. load \in Loads \cup {None} /\ current \subseteq Variants
  BY DEF ViewInv, TypeOK
<1>2. UNCHANGED <<marker, event, current>>
  BY DEF LoadToken, LoadStep, SetContext, FindMarkers, ReadMarker, CatalogFails,
     ShowCourses, CatalogDenied, pulledVars, disk
<1>3. CurrentOK'
  BY <1>2 DEF ViewInv, CurrentOK
<1>4. CASE LoadToken
  <2>1. load' \in Loads /\ load'.at = "token" /\ load'.scan = {}
    BY <1>4 DEF LoadToken, Loads
  <2> QED
    BY <1>3, <2>1, NoneAssumption DEF ScanOK, ShownOK
<1>5. CASE SetContext
  <2>1. CASE load.token
    <3>1. load \in Loads /\ load.scan = {} /\ load' = [load EXCEPT !.at = "scan"]
      BY <1>1, <1>5, <2>1 DEF SetContext, ViewInv, ScanOK
    <3>2. load' \in Loads /\ load'.at = "scan" /\ load'.scan = {}
      BY <3>1 DEF Loads
    <3> QED
      BY <1>3, <3>2, NoneAssumption DEF ScanOK, ShownOK
  <2>2. CASE ~ load.token
    BY <1>3, <1>5, <2>2 DEF SetContext, Show, ScanOK, ShownOK
  <2> QED
    BY <2>1, <2>2
<1>6. CASE FindMarkers
  <2> DEFINE there == {v \in Variants : marker[v] # "none"}
  <2>1. load \in Loads /\ load.scan = {} /\ load' = [load EXCEPT !.at = "read", !.left = there]
    BY <1>1, <1>6 DEF FindMarkers, ViewInv, ScanOK
  <2>2. load' \in Loads /\ load'.at = "read" /\ load'.scan = {} /\ load'.left = there
    BY <2>1 DEF Loads
  <2>3. current \subseteq there
    BY <1>1 DEF ViewInv, CurrentOK
  <2> QED
    BY <1>2, <1>3, <2>2, <2>3, NoneAssumption DEF ScanOK, ShownOK
<1>7. CASE ReadMarker
  <2>1. PICK v \in load.left :
          /\ load'.left = load.left \ {v}
          /\ load'.scan = IF marker[v] = "whole" THEN load.scan \cup {v} ELSE load.scan
    BY <1>1, <1>7, ReadMarkerLoad
  <2>2. load' \in Loads /\ load'.at = "read"
    BY <1>1, <1>7, ReadMarkerLoad
  <2>3. load # None /\ load.at = "read" /\ dirty' = dirty
    BY <1>7 DEF ReadMarker
  <2>4. v \in current => marker[v] = "whole"
    BY DEF ViewInv, CurrentOK
  <2>5. ScanOK'
    BY <1>2, <2>1, <2>2, <2>3, <2>4 DEF ViewInv, ScanOK
  <2> QED
    BY <1>3, <2>2, <2>5, NoneAssumption DEF ShownOK
<1>8. CASE CatalogFails \/ CatalogDenied
  BY <1>3, <1>8 DEF CatalogFails, CatalogDenied, Show, ScanOK, ShownOK
<1>9. CASE ShowCourses
  <2>1. /\ load # None /\ load.at = "read" /\ load.left = {}
        /\ locals' = load.scan /\ load' = None /\ dirty' = dirty
    BY <1>9 DEF ShowCourses, Show
  <2> QED
    BY <1>2, <1>3, <2>1 DEF ViewInv, ScanOK, ShownOK
<1> QED
  BY <1>4, <1>5, <1>6, <1>7, <1>8, <1>9 DEF LoadStep

\* The invariant is inductive.
LEMMA ViewNextInv == ViewInv /\ [Next]_vars => ViewInv'
<1> SUFFICES ASSUME ViewInv, [Next]_vars PROVE ScanOK' /\ ShownOK' /\ CurrentOK'
  BY ViewNextTypeOK DEF ViewInv
<1>1. CASE OnDisk
  BY <1>1, OnDiskInv
<1>2. CASE LoadToken \/ LoadStep \/ ShowCourses \/ CatalogDenied
  BY <1>2, LoadInv
<1>3. CASE WatcherFires \/ RefreshCourses
  BY <1>3 DEF WatcherFires, RefreshCourses, Refresh, pulledVars, disk,
     ViewInv, ScanOK, ShownOK, CurrentOK
<1>4. CASE ReportPull
  BY <1>4 DEF ReportPull, AfterPull, Refresh, disk, ViewInv, ScanOK, ShownOK, CurrentOK
<1>5. ASSUME ExpandCourse \/ (\E v \in Variants : ListChallenges(v)) \/ UNCHANGED vars
      PROVE  ScanOK' /\ ShownOK' /\ CurrentOK'
  <2>1. UNCHANGED <<marker, event, dirty, load, locals, tree, current>>
    BY <1>5 DEF ExpandCourse, ListChallenges, vars, view, pulledVars, disk
  <2> QED
    BY <2>1 DEF ViewInv, ScanOK, ShownOK, CurrentOK
<1> QED
  BY <1>1, <1>2, <1>3, <1>4, <1>5 DEF Next

\* A course that was deleted is not shown as pulled once the tree has settled,
\* whatever a scan had met before, if the host tells of deleted markers.
THEOREM DeletedCoursesGo == ASSUME DeletionsReported PROVE Spec => []NoGhostCourses
<1>1. ViewInv => NoGhostCourses
  BY DEF ViewInv, ShownOK, NoGhostCourses, Settled
<1> QED
  BY <1>1, ViewInitInv, ViewNextInv, PTL DEF Spec

\* A course the extension has pulled is shown as pulled once the tree has
\* settled, even when a scan met its marker half written.
THEOREM PulledCoursesShow == Spec => []OwnPullsShow
<1>1. ViewInv => OwnPullsShow
  BY DEF ViewInv, ShownOK, OwnPullsShow, Settled
<1> QED
  BY <1>1, ViewInitInv, ViewNextInv, PTL DEF Spec

-----------------------------------------------------------------------------
(* Pulls under the view.                                                    *)

\* The pull command's own step ends a pull that does not run any more.
LEMMA ReportPullInv == PulledInv /\ ReportPull => PulledInv'
<1> SUFFICES ASSUME PulledInv, ReportPull PROVE PulledInv'
  OBVIOUS
<1> USE DEF PulledInv
<1>1. UNCHANGED <<dirs, edited>>
  BY DEF ReportPull, disk
<1>2. \A q \in Pullers :
        /\ pull'[q].variant = pull[q].variant /\ pull'[q].list = pull[q].list
        /\ pull'[q].todo = pull[q].todo
        /\ pull'[q].at = IF q = Ours THEN "idle" ELSE pull[q].at
  BY DEF PulledTypeOK, ReportPull, Step
<1>3. \A q \in Pullers : Running(q)' => Running(q)
  BY <1>2 DEF Running
<1>4. PulledTypeOK'
  BY ReportPullTypeOK
<1>5. OnePullPerCourse'
  BY <1>2, <1>3 DEF OnePullPerCourse
<1>6. WorkIsWhole'
  BY <1>1 DEF WorkIsWhole
<1>7. NextIsNew'
  <2> SUFFICES ASSUME NEW q \in Pullers, pull'[q].at \in {"missing", "files"},
                      NEW d \in Challenges, First(q, d)'
               PROVE  IsNew(q, d)'
    BY DEF NextIsNew
  <2>1. pull'[q] = pull[q]
    BY <1>2 DEF PulledTypeOK, ReportPull, Step
  <2>2. IsNew(q, d)
    BY <2>1 DEF NextIsNew, First
  <2> QED
    BY <1>1, <2>1, <2>2, StaysNew
<1>8. BehindIsThere'
  <2> SUFFICES ASSUME NEW q \in Pullers, Running(q)', NEW d \in Challenges \ pull'[q].todo
               PROVE  IsThere(pull[q].variant, Target(q, d))'
    BY DEF BehindIsThere
  <2>1. IsThere(pull[q].variant, Target(q, d))
    BY <1>2, <1>3 DEF BehindIsThere
  <2> QED
    BY <1>1, <1>2, <2>1 DEF IsThere, Exists, Target
<1>9. NoCopyOfLegacy'
  BY <1>1 DEF NoCopyOfLegacy, Exists
<1> QED
  BY <1>4, <1>5, <1>6, <1>7, <1>8, <1>9

\* What the view does is a step of the disk, a report, or not seen by the disk.
LEMMA ViewStep == [Next]_vars => [PulledNext]_pulledVars \/ ReportPull
BY DEF Next, LoadStep, OnDisk, WatcherFires, RefreshCourses, LoadToken, SetContext,
   FindMarkers, ReadMarker, CatalogFails, ShowCourses, CatalogDenied, ExpandCourse,
   ListChallenges, vars

\* The invariant of the pulled courses holds beside the view, its loads and its
\* pull command.
LEMMA PulledUnderView == Spec => []PulledInv
<1>1. Init => PulledInv
  BY PulledInitInv DEF Init
<1>2. PulledInv /\ [Next]_vars => PulledInv'
  BY ViewStep, PulledNextInv, ReportPullInv
<1> QED
  BY <1>1, <1>2, PTL DEF Spec

\* With the extension's pull command and the user's own pulls side by side, and
\* the view loading over both, no pull copies what an earlier version of the CLI
\* left, each that ends has made every challenge, and none writes over work if
\* pulls of a course do not overlap.
THEOREM PullsAreSafeUnderView ==
  Spec => []NoCopyOfLegacy /\ (OneAtATime => WorkIsKept) /\ PullCompletes
<1>1. PulledInv => NoCopyOfLegacy
  BY DEF PulledInv
<1>2. OneAtATime => (Spec => WorkIsKept)
  <2> SUFFICES ASSUME OneAtATime PROVE Spec => WorkIsKept
    OBVIOUS
  <2>1. PulledInv /\ [Next]_vars
          => [\A e \in edited : e \in edited' \/ marker'[e[1]] = "none"]_<<marker, edited>>
    BY ViewStep, StepKeepsWork DEF ReportPull, disk
  <2> QED
    BY <2>1, PulledUnderView, PTL DEF Spec, WorkIsKept
<1>3. PulledInv /\ [Next]_vars
        => [\A p \in Pullers : pull'[p].at = "done" /\ pull[p].at # "done" =>
              \A c \in Challenges :
                \E name \in {<<c, pull[p].list[c]>>, <<c, Bare>>} :
                  dirs[pull[p].variant][name] # "absent"]_pull
  <2> SUFFICES ASSUME PulledInv, ReportPull,
                      NEW p \in Pullers, pull'[p].at = "done", pull[p].at # "done"
               PROVE  FALSE
    BY ViewStep, StepCompletes
  <2> QED
    BY DEF PulledInv, PulledTypeOK, ReportPull, Step
<1> QED
  BY <1>1, <1>2, <1>3, PulledUnderView, PTL DEF Spec, PullCompletes
================================================================================
