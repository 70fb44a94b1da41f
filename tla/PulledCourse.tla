----------------------------- MODULE PulledCourse -----------------------------
(***************************************************************************)
(* What `duck pull` (cmd/duck/pull.go) leaves on a learner's disk: per      *)
(* variant a course root with its marker .duck-course.json and a directory  *)
(* per challenge, named after the challenge's place in the course.          *)
(*                                                                         *)
(* A place stands for the ordering prefix of challengeDirNames ("03",       *)
(* "05a", "final"), in the order the names sort in; Bare is the directory   *)
(* without prefix that versions of the CLI before the prefixes made.        *)
(***************************************************************************)
EXTENDS Integers, FiniteSets

CONSTANTS
  Variants,        \* the course variants, each pulled into its own root
  Challenges,      \* the challenges of every variant, by slug
  MaxPlace,        \* the places are 1..MaxPlace
  Pullers,         \* who may run a pull: the extension, the user's terminal
  OneAtATime,      \* whether they pull a course one after the other: neither
                   \* duck nor the extension sees to it
  MaxPublications, \* bound on the publications that move challenges
  MaxPulls         \* bound on the number of pulls

ASSUME PulledAssumption ==
  /\ MaxPlace \in Nat \ {0}
  /\ OneAtATime \in BOOLEAN
  /\ MaxPublications \in Nat
  /\ MaxPulls \in Nat

VARIABLES
  place,         \* variant -> challenge -> its place in the published course
  marker,        \* variant -> its .duck-course.json
  dirs,          \* variant -> challenge, place -> the directory of that name
  edited,        \* the directories whose solution the learner has worked on
  pull,          \* puller -> its pull
  publications,  \* how many publications there have been
  pulls          \* how many pulls there have been

disk == <<marker, dirs, edited>>
pulledVars == <<place, disk, pull, publications, pulls>>

-----------------------------------------------------------------------------
Bare == 0
Places == 1..MaxPlace
Names == Challenges \X (Places \cup {Bare})

\* The challenges of one listing have places of their own: challengeDirNames
\* gives those of one lesson different letters.
Orders == {f \in [Challenges -> Places] : \A c, d \in Challenges : f[c] = f[d] => c = d}

\* A directory is made before its files are written.
DirStates == {"absent", "empty", "whole"}
Absent == [name \in Names |-> "absent"]

Stages == {"idle", "listed", "opened", "dirs", "missing", "files", "done", "failed"}
Running(p) == pull[p].at \notin {"idle", "done", "failed"}
Exists(v, name) == dirs[v][name] # "absent"

\* A pull goes through its listing in course order.
First(p, c) ==
  /\ c \in pull[p].todo
  /\ \A d \in pull[p].todo : pull[p].list[c] <= pull[p].list[d]

Target(p, c) == <<c, pull[p].list[c]>>

Step(p, at) == pull' = [pull EXCEPT ![p].at = at]

SkipAll(p, c) ==   \* mutant: the pull returns where it should go on
  pull' = [pull EXCEPT ![p].at = "dirs", ![p].todo = {}]

Skip(p, c) == pull' = [pull EXCEPT ![p].at = "dirs", ![p].todo = @ \ {c}]

-----------------------------------------------------------------------------
(* duck pull.                                                               *)

\* The challenges are fetched.
StartPull(p, v) ==
  /\ pulls < MaxPulls
  /\ ~ Running(p)
  /\ OneAtATime => \A q \in Pullers : Running(q) => pull[q].variant # v
  /\ pulls' = pulls + 1
  /\ pull' = [pull EXCEPT ![p] =
       [at |-> "listed", variant |-> v, list |-> place[v], todo |-> Challenges]]
  /\ UNCHANGED <<place, disk, publications>>

\* The root is made and the marker created, or truncated, ...
OpenMarker(p) ==
  /\ pull[p].at = "listed"
  /\ marker' = [marker EXCEPT ![pull[p].variant] = "torn"]
  /\ Step(p, "opened")
  /\ UNCHANGED <<place, dirs, edited, publications, pulls>>

\* ... and then written.
WriteMarker(p) ==
  /\ pull[p].at = "opened"
  /\ marker' = [marker EXCEPT ![pull[p].variant] = "whole"]
  /\ Step(p, "dirs")
  /\ UNCHANGED <<place, dirs, edited, publications, pulls>>

IsThereNever(v, name) == FALSE   \* mutant: every challenge is scaffolded again

IsThereByName(v, name) == Exists(v, name)   \* mutant: bare slugs are forgotten

\* What makes a pull skip a challenge: its directory, or one without prefix.
IsThere(v, name) == Exists(v, name) \/ Exists(v, <<name[1], Bare>>)

\* The next challenge is looked for, and skipped if it is there, ...
LookFor(p) ==
  /\ pull[p].at = "dirs"
  /\ \E c \in Challenges :
       /\ First(p, c)
       /\ IF IsThere(pull[p].variant, Target(p, c)) THEN Skip(p, c) ELSE Step(p, "missing")
  /\ UNCHANGED <<place, disk, publications, pulls>>

\* ... or its directory is made, which is no error if there is one by now.
MakeDir(p) ==
  /\ pull[p].at = "missing"
  /\ \E c \in Challenges :
       /\ First(p, c)
       /\ dirs' = [dirs EXCEPT ![pull[p].variant][Target(p, c)] =
                      IF @ = "absent" THEN "empty" ELSE @]
  /\ Step(p, "files")
  /\ UNCHANGED <<place, marker, edited, publications, pulls>>

\* The starter code and the tests are written, over whatever is there.
WriteFiles(p) ==
  /\ pull[p].at = "files"
  /\ \E c \in Challenges :
       /\ First(p, c)
       /\ dirs' = [dirs EXCEPT ![pull[p].variant][Target(p, c)] = "whole"]
       /\ edited' = edited \ {<<pull[p].variant, Target(p, c)>>}
       /\ Skip(p, c)
  /\ UNCHANGED <<place, marker, publications, pulls>>

EndPull(p) ==
  /\ pull[p].at = "dirs"
  /\ pull[p].todo = {}
  /\ Step(p, "done")
  /\ UNCHANGED <<place, disk, publications, pulls>>

\* A step fails, or the process is killed.
BreakPull(p) ==
  /\ Running(p)
  /\ Step(p, "failed")
  /\ UNCHANGED <<place, disk, publications, pulls>>

-----------------------------------------------------------------------------
(* The learner and the author.                                              *)

Edit(v, name) ==
  /\ dirs[v][name] = "whole"
  /\ edited' = edited \cup {<<v, name>>}
  /\ UNCHANGED <<place, marker, dirs, pull, publications, pulls>>

\* The learner deletes the course, while no pull of it runs.
DeleteCourse(v) ==
  /\ \A p \in Pullers : Running(p) => pull[p].variant # v
  /\ marker[v] # "none"
  /\ marker' = [marker EXCEPT ![v] = "none"]
  /\ dirs' = [dirs EXCEPT ![v] = Absent]
  /\ edited' = {e \in edited : e[1] # v}
  /\ UNCHANGED <<place, pull, publications, pulls>>

\* A publication moves challenges: lessons are added, removed or reordered.
Republish(v) ==
  /\ publications < MaxPublications
  /\ publications' = publications + 1
  /\ \E order \in Orders \ {place[v]} : place' = [place EXCEPT ![v] = order]
  /\ UNCHANGED <<disk, pull, pulls>>

-----------------------------------------------------------------------------
\* Some of a course's challenges under their bare slugs.
LegacyTrees ==
  {[name \in Names |-> IF name[2] = Bare /\ name[1] \in old THEN "whole" ELSE "absent"]
     : old \in SUBSET Challenges}

\* An earlier version of the CLI may have pulled a course.
PulledInit ==
  /\ place \in [Variants -> Orders]
  /\ marker \in [Variants -> {"none", "whole"}]
  /\ dirs \in [Variants -> LegacyTrees]
  /\ \A v \in Variants : marker[v] = "none" => dirs[v] = Absent
  /\ edited = {}
  /\ \E v \in Variants : pull = [p \in Pullers |->
       [at |-> "idle", variant |-> v, list |-> place[v], todo |-> {}]]
  /\ publications = 0
  /\ pulls = 0

PullStep(p) ==
  \/ OpenMarker(p)
  \/ WriteMarker(p)
  \/ LookFor(p)
  \/ MakeDir(p)
  \/ WriteFiles(p)
  \/ EndPull(p)
  \/ BreakPull(p)

PulledNext ==
  \/ \E p \in Pullers : PullStep(p) \/ \E v \in Variants : StartPull(p, v)
  \/ \E v \in Variants :
       \/ \E name \in Names : Edit(v, name)
       \/ DeleteCourse(v)
       \/ Republish(v)

PulledSpec == PulledInit /\ [][PulledNext]_pulledVars

-----------------------------------------------------------------------------
\* Every variable has its type.
PulledTypeOK ==
  /\ place \in [Variants -> Orders]
  /\ marker \in [Variants -> {"none", "torn", "whole"}]
  /\ dirs \in [Variants -> [Names -> DirStates]]
  /\ edited \in SUBSET (Variants \X Names)
  /\ pull \in [Pullers ->
       [at : Stages, variant : Variants, list : Orders, todo : SUBSET Challenges]]
  /\ publications \in 0..MaxPublications
  /\ pulls \in 0..MaxPulls

\* "Pulling again never clobbers work in progress" (cmd/duck/help.go): whatever
\* a pull does, and wherever an earlier one broke off, an edited solution stays
\* until the learner deletes the course, if pulls run one at a time.
WorkIsKept ==
  [][\A e \in edited : e \in edited' \/ marker'[e[1]] = "none"]_<<marker, edited>>

\* "Leave that work in progress alone rather than pulling a duplicate copy under
\* the new name" (cmd/duck/pull.go): no challenge has a directory from before
\* the prefixes and one with a prefix.
NoCopyOfLegacy ==
  \A v \in Variants, c \in Challenges, n \in Places :
    ~ (Exists(v, <<c, Bare>>) /\ Exists(v, <<c, n>>))

\* A pull that comes to its end has left a directory for every challenge of its
\* listing, those of an earlier version of the CLI included.
PullCompletes ==
  [][\A p \in Pullers : pull'[p].at = "done" /\ pull[p].at # "done" =>
       \A c \in Challenges :
         \E name \in {<<c, pull[p].list[c]>>, <<c, Bare>>} :
           dirs[pull[p].variant][name] # "absent"]_pull

\* "Challenges that already exist locally are skipped" (cmd/duck/help.go): no
\* pull makes a second directory for a challenge that has one.
ExistingAreSkipped ==
  [][\A v \in Variants, n, m \in Names :
       n[1] = m[1] /\ dirs[v][n] # "absent" /\ dirs[v][m] = "absent"
         => dirs'[v][m] = "absent"]_dirs
==============================================================================
