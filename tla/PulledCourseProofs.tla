-------------------------- MODULE PulledCourseProofs --------------------------
(***************************************************************************)
(* What holds of a learner's pulled courses for any courses, challenges,   *)
(* places and pullers, and however often and wherever pulls break off.     *)
(***************************************************************************)
EXTENDS PulledCourse, TLAPS

-----------------------------------------------------------------------------
(* Type correctness.                                                        *)

\* A disk with nothing but old trees is well typed.
LEMMA PulledInitTypeOK == PulledInit => PulledTypeOK
<1> SUFFICES ASSUME PulledInit PROVE PulledTypeOK
  OBVIOUS
<1>1. dirs \in [Variants -> [Names -> DirStates]]
  BY DEF PulledInit, LegacyTrees, DirStates
<1>2. pull \in [Pullers ->
       [at : Stages, variant : Variants, list : Orders, todo : SUBSET Challenges]]
  BY DEF PulledInit, Stages
<1> QED
  BY <1>1, <1>2, PulledAssumption DEF PulledInit, PulledTypeOK

\* Making, filling or leaving a directory preserves the type of the disk.
LEMMA DirsType ==
  ASSUME PulledTypeOK, NEW v \in Variants, NEW name \in Names, NEW s \in DirStates
  PROVE  [dirs EXCEPT ![v][name] = s] \in [Variants -> [Names -> DirStates]]
BY DEF PulledTypeOK

\* The name a pull looks for is a name.
LEMMA TargetType ==
  ASSUME PulledTypeOK, NEW p \in Pullers, NEW c \in Challenges
  PROVE  Target(p, c) \in Names
BY DEF PulledTypeOK, Target, Names, Orders

\* Every step of a pull, of the learner and of the author preserves the types.
LEMMA PulledNextTypeOK == PulledTypeOK /\ [PulledNext]_pulledVars => PulledTypeOK'
<1> SUFFICES ASSUME PulledTypeOK, [PulledNext]_pulledVars PROVE PulledTypeOK'
  OBVIOUS
<1>1. ASSUME NEW p \in Pullers, PullStep(p) PROVE PulledTypeOK'
  <2>1. CASE OpenMarker(p)
    BY <2>1 DEF PulledTypeOK, OpenMarker, Step, Stages, disk
  <2>2. CASE WriteMarker(p)
    BY <2>2 DEF PulledTypeOK, WriteMarker, Step, Stages, disk
  <2>3. CASE LookFor(p)
    <3>1. Step(p, "missing") \/ \E c \in Challenges : Skip(p, c)
      BY <2>3 DEF LookFor
    <3>2. pull' \in [Pullers ->
            [at : Stages, variant : Variants, list : Orders, todo : SUBSET Challenges]]
      <4>1. pull \in [Pullers ->
              [at : Stages, variant : Variants, list : Orders, todo : SUBSET Challenges]]
        BY DEF PulledTypeOK
      <4>2. CASE Step(p, "missing")
        BY <4>1, <4>2 DEF Step, Stages
      <4>3. ASSUME NEW c \in Challenges, Skip(p, c)
            PROVE  pull' \in [Pullers ->
                     [at : Stages, variant : Variants, list : Orders, todo : SUBSET Challenges]]
        BY <4>1, <4>3 DEF Skip, Stages
      <4> QED
        BY <3>1, <4>2, <4>3
    <3> QED
      BY <2>3, <3>2 DEF PulledTypeOK, LookFor, disk
  <2>a. CASE MakeDir(p)
    <3>1. PICK c \in Challenges :
            dirs' = [dirs EXCEPT ![pull[p].variant][Target(p, c)] =
                       IF @ = "absent" THEN "empty" ELSE @]
      BY <2>a DEF MakeDir
    <3>2. pull[p].variant \in Variants /\ Target(p, c) \in Names
      BY TargetType DEF PulledTypeOK
    <3> DEFINE old == dirs[pull[p].variant][Target(p, c)]
               new == IF old = "absent" THEN "empty" ELSE old
    <3>3. dirs' = [dirs EXCEPT ![pull[p].variant][Target(p, c)] = new]
      BY <3>1
    <3>4. new \in DirStates
      BY <3>2 DEF PulledTypeOK, DirStates
    <3>5. dirs' \in [Variants -> [Names -> DirStates]]
      BY <3>2, <3>3, <3>4, DirsType
    <3>6. pull' \in [Pullers ->
            [at : Stages, variant : Variants, list : Orders, todo : SUBSET Challenges]]
      <4>1. pull \in [Pullers ->
              [at : Stages, variant : Variants, list : Orders, todo : SUBSET Challenges]]
        BY DEF PulledTypeOK
      <4>2. pull' = [pull EXCEPT ![p].at = "files"] /\ "files" \in Stages
        BY <2>a DEF MakeDir, Step, Stages
      <4> QED
        BY <4>1, <4>2
    <3> QED
      BY <2>a, <3>5, <3>6 DEF PulledTypeOK, MakeDir
  <2>4. CASE WriteFiles(p)
    <3>1. PICK c \in Challenges :
            /\ dirs' = [dirs EXCEPT ![pull[p].variant][Target(p, c)] = "whole"]
            /\ edited' = edited \ {<<pull[p].variant, Target(p, c)>>}
            /\ Skip(p, c)
      BY <2>4 DEF WriteFiles
    <3>2. dirs' \in [Variants -> [Names -> DirStates]]
      BY <3>1, TargetType, DirsType DEF PulledTypeOK, DirStates
    <3>3. pull' \in [Pullers ->
            [at : Stages, variant : Variants, list : Orders, todo : SUBSET Challenges]]
      BY <3>1 DEF PulledTypeOK, Skip, Stages
    <3> QED
      BY <2>4, <3>1, <3>2, <3>3 DEF PulledTypeOK, WriteFiles
  <2>5. CASE EndPull(p)
    BY <2>5 DEF PulledTypeOK, EndPull, Step, Stages, disk
  <2>6. CASE BreakPull(p)
    BY <2>6 DEF PulledTypeOK, BreakPull, Step, Stages, disk
  <2> QED
    BY <1>1, <2>1, <2>2, <2>3, <2>a, <2>4, <2>5, <2>6 DEF PullStep
<1>2. ASSUME NEW p \in Pullers, NEW v \in Variants, StartPull(p, v) PROVE PulledTypeOK'
  BY <1>2, PulledAssumption DEF PulledTypeOK, StartPull, Stages, disk
<1>3. ASSUME NEW v \in Variants, NEW name \in Names, Edit(v, name) PROVE PulledTypeOK'
  BY <1>3 DEF PulledTypeOK, Edit
<1>4. ASSUME NEW v \in Variants, DeleteCourse(v) PROVE PulledTypeOK'
  <2>1. Absent \in [Names -> DirStates]
    BY DEF Absent, DirStates
  <2> QED
    BY <1>4, <2>1 DEF PulledTypeOK, DeleteCourse
<1>5. ASSUME NEW v \in Variants, Republish(v) PROVE PulledTypeOK'
  BY <1>5, PulledAssumption DEF PulledTypeOK, Republish, disk
<1>6. CASE UNCHANGED pulledVars
  BY <1>6 DEF PulledTypeOK, pulledVars, disk
<1> QED
  BY <1>1, <1>2, <1>3, <1>4, <1>5, <1>6 DEF PulledNext

\* Every reachable disk and pull is well typed.
THEOREM PulledTypeCorrect == PulledSpec => []PulledTypeOK
BY PulledInitTypeOK, PulledNextTypeOK, PTL DEF PulledSpec

-----------------------------------------------------------------------------
(* The invariant.                                                           *)

\* No course is pulled by two pullers at once, where they do not overlap.
OnePullPerCourse ==
  OneAtATime =>
    \A p, q \in Pullers :
      Running(p) /\ Running(q) /\ pull[p].variant = pull[q].variant => p = q

\* Only files that are written have been worked on.
WorkIsWhole == \A e \in edited : dirs[e[1]][e[2]] = "whole"

\* A challenge that a pull is making has no directory without prefix, and where
\* pulls do not overlap no directory but the one the pull makes.
IsNew(p, c) ==
  /\ ~ Exists(pull[p].variant, <<c, Bare>>)
  /\ pull[p].at = "files" => Exists(pull[p].variant, Target(p, c))
  /\ OneAtATime =>
       dirs[pull[p].variant][Target(p, c)] =
         IF pull[p].at = "missing" THEN "absent" ELSE "empty"

NextIsNew ==
  \A p \in Pullers : pull[p].at \in {"missing", "files"} =>
    \A c \in Challenges : First(p, c) => IsNew(p, c)

\* What a pull is done with is there.
BehindIsThere ==
  \A p \in Pullers : Running(p) =>
    \A c \in Challenges \ pull[p].todo : IsThere(pull[p].variant, Target(p, c))

PulledInv ==
  PulledTypeOK /\ OnePullPerCourse /\ WorkIsWhole /\ NextIsNew /\ BehindIsThere
    /\ NoCopyOfLegacy

\* Places are a challenge's own, so a pull has one next challenge.
LEMMA FirstIsUnique ==
  ASSUME PulledTypeOK, NEW p \in Pullers, NEW c \in Challenges, NEW d \in Challenges,
         First(p, c), First(p, d)
  PROVE  c = d
<1>1. pull[p].list \in [Challenges -> Places]
      /\ (pull[p].list[c] = pull[p].list[d] => c = d)
  BY DEF PulledTypeOK, Orders
<1>2. pull[p].list[c] \in Int /\ pull[p].list[d] \in Int
  BY <1>1, PulledAssumption DEF Places
<1>3. pull[p].list[c] <= pull[p].list[d] /\ pull[p].list[d] <= pull[p].list[c]
  BY DEF First
<1> QED
  BY <1>1, <1>2, <1>3

\* No directory has a prefix yet.
LEMMA NoPrefixAtFirst ==
  ASSUME PulledInit, NEW v \in Variants, NEW c \in Challenges, NEW n \in Places
  PROVE  ~ Exists(v, <<c, n>>)
<1> dirs[v] \in LegacyTrees
  BY DEF PulledInit
<1>1. PICK old \in SUBSET Challenges : dirs[v] =
        [name \in Names |-> IF name[2] = Bare /\ name[1] \in old THEN "whole" ELSE "absent"]
  BY DEF LegacyTrees
<1>2. <<c, n>> \in Names /\ n # Bare
  BY PulledAssumption DEF Names, Places, Bare
<1> QED
  BY <1>1, <1>2 DEF Exists

\* Nothing is new to a pull any more or less where its course is as it was.
LEMMA StaysNew ==
  ASSUME PulledTypeOK, NEW q \in Pullers, NEW d \in Challenges, IsNew(q, d),
         pull'[q] = pull[q],
         \A n \in Names : dirs'[pull[q].variant][n] = dirs[pull[q].variant][n]
  PROVE  IsNew(q, d)'
<1>1. Target(q, d) \in Names /\ <<d, Bare>> \in Names /\ Target(q, d)' = Target(q, d)
  BY TargetType DEF Names, Target
<1> QED
  BY <1>1 DEF IsNew, Exists

\* The first directories a learner has satisfy the invariant.
LEMMA PulledInitInv == PulledInit => PulledInv
<1> SUFFICES ASSUME PulledInit PROVE PulledInv
  OBVIOUS
<1>1. \A p \in Pullers : ~ Running(p) /\ pull[p].at \notin {"missing", "files"}
  BY DEF PulledInit, Running
<1>2. NoCopyOfLegacy
  BY NoPrefixAtFirst DEF NoCopyOfLegacy
<1> QED
  BY <1>1, <1>2, PulledInitTypeOK
     DEF PulledInv, OnePullPerCourse, WorkIsWhole, NextIsNew, BehindIsThere, PulledInit

\* A step of a pull that touches no directory and settles no challenge.
LEMMA StageInv ==
  ASSUME PulledInv, PulledTypeOK', NEW p \in Pullers, NEW at \in Stages \ {"missing", "files"},
         Step(p, at), Running(p), UNCHANGED <<dirs, edited>>
  PROVE  PulledInv'
<1> USE DEF PulledInv
<1>1. \A q \in Pullers :
        /\ pull'[q].variant = pull[q].variant /\ pull'[q].list = pull[q].list
        /\ pull'[q].todo = pull[q].todo
        /\ pull'[q].at = IF q = p THEN at ELSE pull[q].at
  BY DEF PulledTypeOK, Step
<1>2. OnePullPerCourse'
  BY <1>1 DEF OnePullPerCourse, Running
<1>3. WorkIsWhole'
  BY DEF WorkIsWhole
<1>4. NextIsNew'
  <2> SUFFICES ASSUME NEW q \in Pullers, pull'[q].at \in {"missing", "files"},
                      NEW d \in Challenges, First(q, d)'
               PROVE  IsNew(q, d)'
    BY DEF NextIsNew
  <2>1. pull'[q] = pull[q]
    BY <1>1 DEF PulledTypeOK, Step
  <2>2. IsNew(q, d)
    BY <2>1 DEF NextIsNew, First
  <2> QED
    BY <2>1, <2>2, StaysNew DEF PulledInv
<1>5. BehindIsThere'
  BY <1>1 DEF BehindIsThere, Running, IsThere, Exists, Target
<1>6. NoCopyOfLegacy'
  BY DEF NoCopyOfLegacy, Exists
<1> QED
  BY <1>2, <1>3, <1>4, <1>5, <1>6

\* A challenge is skipped: it is there.
LEMMA SkipInv ==
  ASSUME PulledInv, PulledTypeOK', NEW p \in Pullers, NEW c \in Challenges,
         pull[p].at = "dirs", IsThere(pull[p].variant, Target(p, c)),
         Skip(p, c), UNCHANGED <<dirs, edited>>
  PROVE  PulledInv'
<1> USE DEF PulledInv
<1>1. \A q \in Pullers :
        /\ pull'[q].variant = pull[q].variant /\ pull'[q].list = pull[q].list
        /\ pull'[q].todo = IF q = p THEN pull[q].todo \ {c} ELSE pull[q].todo
        /\ pull'[q].at = IF q = p THEN "dirs" ELSE pull[q].at
  BY DEF PulledTypeOK, Skip
<1>2. OnePullPerCourse'
  <2>1. \A q \in Pullers : Running(q)' <=> Running(q)
    BY <1>1 DEF Running
  <2> QED
    BY <1>1, <2>1 DEF OnePullPerCourse
<1>3. WorkIsWhole'
  BY DEF WorkIsWhole
<1>4. NextIsNew'
  <2> SUFFICES ASSUME NEW q \in Pullers, pull'[q].at \in {"missing", "files"},
                      NEW d \in Challenges, First(q, d)'
               PROVE  IsNew(q, d)'
    BY DEF NextIsNew
  <2>1. pull'[q] = pull[q]
    BY <1>1 DEF PulledTypeOK, Skip
  <2>2. IsNew(q, d)
    BY <2>1 DEF NextIsNew, First
  <2> QED
    BY <2>1, <2>2, StaysNew DEF PulledInv
<1>5. BehindIsThere'
  BY <1>1 DEF BehindIsThere, Running, IsThere, Exists, Target
<1>6. NoCopyOfLegacy'
  BY DEF NoCopyOfLegacy, Exists
<1> QED
  BY <1>2, <1>3, <1>4, <1>5, <1>6

\* A challenge is missing under either name: the pull turns to it.
LEMMA MissingInv ==
  ASSUME PulledInv, PulledTypeOK', NEW p \in Pullers, NEW c \in Challenges,
         pull[p].at = "dirs", First(p, c), ~ IsThere(pull[p].variant, Target(p, c)),
         Step(p, "missing"), UNCHANGED <<dirs, edited>>
  PROVE  PulledInv'
<1> USE DEF PulledInv
<1>1. \A q \in Pullers :
        /\ pull'[q].variant = pull[q].variant /\ pull'[q].list = pull[q].list
        /\ pull'[q].todo = pull[q].todo
        /\ pull'[q].at = IF q = p THEN "missing" ELSE pull[q].at
  BY DEF PulledTypeOK, Step
<1>2. OnePullPerCourse'
  BY <1>1 DEF OnePullPerCourse, Running
<1>3. WorkIsWhole'
  BY DEF WorkIsWhole
<1>4. NextIsNew'
  <2> SUFFICES ASSUME NEW q \in Pullers, pull'[q].at \in {"missing", "files"},
                      NEW d \in Challenges, First(q, d)'
               PROVE  IsNew(q, d)'
    BY DEF NextIsNew
  <2>1. First(q, d) /\ Target(q, d)' = Target(q, d)
    BY <1>1 DEF First, Target
  <2>2. CASE q = p
    <3>1. d = c
      BY <2>1, <2>2, FirstIsUnique
    <3>2. dirs[pull[p].variant][Target(p, c)] = "absent"
          /\ dirs[pull[p].variant][<<c, Bare>>] = "absent"
      BY DEF IsThere, Exists, Target
    <3> QED
      BY <1>1, <2>1, <2>2, <3>1, <3>2 DEF IsNew, Exists
  <2>3. CASE q # p
    <3>1. pull'[q] = pull[q] /\ IsNew(q, d)
      BY <1>1, <2>1, <2>3 DEF PulledTypeOK, Step, NextIsNew
    <3> QED
      BY <3>1, StaysNew
  <2> QED
    BY <2>2, <2>3
<1>5. BehindIsThere'
  <2> SUFFICES ASSUME NEW q \in Pullers, Running(q)', NEW d \in Challenges \ pull[q].todo
               PROVE  IsThere(pull[q].variant, Target(q, d))'
    BY <1>1 DEF BehindIsThere
  <2>1. IsThere(pull[q].variant, Target(q, d))
    BY <1>1 DEF BehindIsThere, Running
  <2> QED
    BY <1>1, <2>1 DEF IsThere, Exists, Target
<1>6. NoCopyOfLegacy'
  BY DEF NoCopyOfLegacy, Exists
<1> QED
  BY <1>2, <1>3, <1>4, <1>5, <1>6

\* The directory is made, which has no name without prefix beside it.
LEMMA MakeInv ==
  ASSUME PulledInv, PulledTypeOK', NEW p \in Pullers, NEW c \in Challenges,
         pull[p].at = "missing", First(p, c),
         dirs' = [dirs EXCEPT ![pull[p].variant][Target(p, c)] =
                    IF @ = "absent" THEN "empty" ELSE @],
         Step(p, "files"), UNCHANGED edited
  PROVE  PulledInv'
<1> USE DEF PulledInv
<1> DEFINE v == pull[p].variant
           T == Target(p, c)
<1>1. \A q \in Pullers :
        /\ pull'[q].variant = pull[q].variant /\ pull'[q].list = pull[q].list
        /\ pull'[q].todo = pull[q].todo
        /\ pull'[q].at = IF q = p THEN "files" ELSE pull[q].at
  BY DEF PulledTypeOK, Step
<1>2. v \in Variants /\ T \in Names
  BY TargetType DEF PulledTypeOK
<1>3. \A w \in Variants, n \in Names :
        dirs'[w][n] = IF w = v /\ n = T /\ dirs[w][n] = "absent" THEN "empty" ELSE dirs[w][n]
  BY <1>2 DEF PulledTypeOK
<1>4. IsNew(p, c)
  BY DEF NextIsNew
<1>a. pull[p].list[c] \in Places /\ Bare \notin Places
  BY PulledAssumption DEF PulledTypeOK, Orders, Places, Bare
<1>b. \A w \in Variants, d \in Challenges : dirs'[w][<<d, Bare>>] = dirs[w][<<d, Bare>>]
  BY <1>3, <1>a DEF Target, Names
<1>5. OnePullPerCourse'
  BY <1>1 DEF OnePullPerCourse, Running
<1>6. WorkIsWhole'
  <2> SUFFICES ASSUME NEW e \in edited PROVE dirs'[e[1]][e[2]] = "whole"
    BY DEF WorkIsWhole
  <2>1. e[1] \in Variants /\ e[2] \in Names /\ dirs[e[1]][e[2]] = "whole"
    BY DEF PulledTypeOK, WorkIsWhole
  <2> QED
    BY <1>3, <2>1
<1>7. NextIsNew'
  <2> SUFFICES ASSUME NEW q \in Pullers, pull'[q].at \in {"missing", "files"},
                      NEW d \in Challenges, First(q, d)'
               PROVE  IsNew(q, d)'
    BY DEF NextIsNew
  <2>1. First(q, d) /\ Target(q, d)' = Target(q, d)
    BY <1>1 DEF First, Target
  <2>2. pull[q].variant \in Variants /\ Target(q, d) \in Names
    BY TargetType DEF PulledTypeOK
  <2>3. pull[q].at \in {"missing", "files"} /\ IsNew(q, d)
    BY <1>1, <2>1 DEF NextIsNew
  <2>4. ~ Exists(pull[q].variant, <<d, Bare>>)'
    BY <1>1, <1>b, <2>2, <2>3 DEF IsNew, Exists
  <2>5. (pull[q].at = "files" => Exists(pull[q].variant, Target(q, d)))'
    <3>1. CASE q = p
      <4>1. d = c
        BY <2>1, <3>1, FirstIsUnique
      <4>2. dirs'[v][T] # "absent"
        BY <1>2, <1>3
      <4> QED
        BY <1>1, <2>1, <3>1, <4>1, <4>2 DEF Exists
    <3>2. CASE q # p
      BY <1>1, <1>3, <2>1, <2>2, <2>3, <3>2 DEF IsNew, Exists
    <3> QED
      BY <3>1, <3>2
  <2>6. (OneAtATime => dirs[pull[q].variant][Target(q, d)] =
                         IF pull[q].at = "missing" THEN "absent" ELSE "empty")'
    <3> SUFFICES ASSUME OneAtATime
                 PROVE  dirs'[pull[q].variant][Target(q, d)] =
                          IF pull'[q].at = "missing" THEN "absent" ELSE "empty"
      BY <1>1, <2>1
    <3>1. CASE q = p
      BY <1>1, <1>2, <1>3, <1>4, <2>1, <3>1, FirstIsUnique DEF IsNew
    <3>2. CASE q # p
      <4>1. pull[q].variant # v
        BY <2>3, <3>2 DEF OnePullPerCourse, Running
      <4> QED
        BY <1>1, <1>3, <2>2, <2>3, <3>2, <4>1 DEF IsNew
    <3> QED
      BY <3>1, <3>2
  <2> QED
    BY <2>4, <2>5, <2>6 DEF IsNew
<1>8. \A w \in Variants, n \in Names : Exists(w, n) => Exists(w, n)'
  BY <1>3 DEF Exists
<1>9. BehindIsThere'
  <2> SUFFICES ASSUME NEW q \in Pullers, Running(q)', NEW d \in Challenges \ pull[q].todo
               PROVE  IsThere(pull[q].variant, Target(q, d))'
    BY <1>1 DEF BehindIsThere
  <2>1. IsThere(pull[q].variant, Target(q, d))
    BY <1>1 DEF BehindIsThere, Running
  <2>2. pull[q].variant \in Variants /\ Target(q, d) \in Names /\ <<d, Bare>> \in Names
    BY TargetType DEF PulledTypeOK, Names
  <2>3. Target(q, d)[1] = d /\ Target(q, d)' = Target(q, d)
    BY <1>1 DEF Target
  <2> QED
    BY <1>8, <1>1, <2>1, <2>2, <2>3 DEF IsThere
<1>10. NoCopyOfLegacy'
  <2> SUFFICES ASSUME NEW w \in Variants, NEW d \in Challenges, NEW n \in Places
               PROVE  ~ (Exists(w, <<d, Bare>>)' /\ Exists(w, <<d, n>>)')
    BY DEF NoCopyOfLegacy
  <2>1. <<d, n>> \in Names /\ <<d, Bare>> \in Names
    BY DEF Names
  <2>2. CASE w = v /\ <<d, n>> = T
    BY <1>4, <1>b, <2>2 DEF IsNew, Exists, Target
  <2>3. CASE ~ (w = v /\ <<d, n>> = T)
    BY <1>3, <1>b, <2>1, <2>3 DEF NoCopyOfLegacy, Exists
  <2> QED
    BY <2>2, <2>3
<1> QED
  BY <1>5, <1>6, <1>7, <1>9, <1>10

\* Files are written into the directory that was made for them.
LEMMA WriteInv ==
  ASSUME PulledInv, PulledTypeOK', NEW p \in Pullers, NEW c \in Challenges,
         pull[p].at = "files", First(p, c),
         dirs' = [dirs EXCEPT ![pull[p].variant][Target(p, c)] = "whole"],
         edited' = edited \ {<<pull[p].variant, Target(p, c)>>},
         Skip(p, c)
  PROVE  PulledInv'
<1> USE DEF PulledInv
<1> DEFINE v == pull[p].variant
           T == Target(p, c)
<1>1. \A q \in Pullers :
        /\ pull'[q].variant = pull[q].variant /\ pull'[q].list = pull[q].list
        /\ pull'[q].todo = IF q = p THEN pull[q].todo \ {c} ELSE pull[q].todo
        /\ pull'[q].at = IF q = p THEN "dirs" ELSE pull[q].at
  <2>1. pull \in [Pullers ->
          [at : Stages, variant : Variants, list : Orders, todo : SUBSET Challenges]]
    BY DEF PulledTypeOK
  <2>2. pull' = [pull EXCEPT ![p].at = "dirs", ![p].todo = @ \ {c}]
    BY DEF Skip
  <2> QED
    BY <2>1, <2>2
<1>2. v \in Variants /\ T \in Names
  BY TargetType DEF PulledTypeOK
<1>3. \A w \in Variants, n \in Names :
        dirs'[w][n] = IF w = v /\ n = T THEN "whole" ELSE dirs[w][n]
  BY <1>2 DEF PulledTypeOK
<1>4. dirs[v][T] # "absent"
  BY DEF NextIsNew, IsNew, Exists
<1>5. \A q \in Pullers : Running(q)' <=> Running(q)
  BY <1>1 DEF Running
<1>6. \A w \in Variants, n \in Names : Exists(w, n)' <=> Exists(w, n)
  BY <1>3, <1>4 DEF Exists
<1>7. OnePullPerCourse'
  BY <1>1, <1>5 DEF OnePullPerCourse
<1>8. WorkIsWhole'
  <2> SUFFICES ASSUME NEW e \in edited PROVE dirs'[e[1]][e[2]] = "whole"
    BY DEF WorkIsWhole
  <2>1. e[1] \in Variants /\ e[2] \in Names /\ dirs[e[1]][e[2]] = "whole"
    BY DEF PulledTypeOK, WorkIsWhole
  <2> QED
    BY <1>3, <2>1
<1>9. NextIsNew'
  <2> SUFFICES ASSUME NEW q \in Pullers, pull'[q].at \in {"missing", "files"},
                      NEW d \in Challenges, First(q, d)'
               PROVE  IsNew(q, d)'
    BY DEF NextIsNew
  <2>1. q # p /\ pull'[q].at = pull[q].at
    BY <1>1
  <2>2. First(q, d) /\ Target(q, d)' = Target(q, d)
    BY <1>1, <2>1 DEF First, Target
  <2>3. IsNew(q, d)
    BY <2>1, <2>2 DEF NextIsNew
  <2>4. pull[q].variant \in Variants /\ Target(q, d) \in Names /\ <<d, Bare>> \in Names
    BY TargetType DEF PulledTypeOK, Names
  <2>5. OneAtATime => pull[q].variant # v
    BY <2>1 DEF OnePullPerCourse, Running
  <2>6. OneAtATime =>
          dirs'[pull[q].variant][Target(q, d)] = dirs[pull[q].variant][Target(q, d)]
    BY <1>3, <2>4, <2>5
  <2> QED
    BY <1>1, <1>6, <2>1, <2>2, <2>3, <2>4, <2>6 DEF IsNew
<1>10. BehindIsThere'
  <2> SUFFICES ASSUME NEW q \in Pullers, Running(q), NEW d \in Challenges \ pull'[q].todo
               PROVE  IsThere(pull[q].variant, Target(q, d))'
    BY <1>1, <1>5 DEF BehindIsThere
  <2>1. pull[q].variant \in Variants /\ Target(q, d) \in Names /\ <<d, Bare>> \in Names
    BY TargetType DEF PulledTypeOK, Names
  <2>2. Target(q, d)[1] = d /\ Target(q, d)' = Target(q, d)
    BY <1>1 DEF Target
  <2>3. IsThere(pull[q].variant, Target(q, d))
    <3>1. CASE q = p /\ d = c
      BY <1>4, <3>1 DEF IsThere, Exists
    <3>2. CASE ~ (q = p /\ d = c)
      BY <1>1, <3>2 DEF BehindIsThere
    <3> QED
      BY <3>1, <3>2
  <2> QED
    BY <1>1, <1>6, <2>1, <2>2, <2>3 DEF IsThere
<1>11. NoCopyOfLegacy'
  BY <1>6 DEF NoCopyOfLegacy, Names
<1> QED
  BY <1>7, <1>8, <1>9, <1>10, <1>11

\* A pull starts with all its challenges ahead.
LEMMA StartInv ==
  ASSUME PulledInv, PulledTypeOK', NEW p \in Pullers, NEW v \in Variants, StartPull(p, v)
  PROVE  PulledInv'
<1> USE DEF PulledInv
<1>1. \A q \in Pullers :
        pull'[q] = IF q = p
                   THEN [at |-> "listed", variant |-> v, list |-> place[v], todo |-> Challenges]
                   ELSE pull[q]
  BY DEF PulledTypeOK, StartPull
<1>2. dirs' = dirs /\ edited' = edited
  BY DEF StartPull, disk
<1>3. OnePullPerCourse'
  BY <1>1 DEF OnePullPerCourse, Running, StartPull
<1>4. WorkIsWhole'
  BY <1>2 DEF WorkIsWhole
<1>5. NextIsNew'
  <2> SUFFICES ASSUME NEW q \in Pullers, pull'[q].at \in {"missing", "files"},
                      NEW d \in Challenges, First(q, d)'
               PROVE  IsNew(q, d)'
    BY DEF NextIsNew
  <2>1. q # p /\ pull'[q] = pull[q]
    BY <1>1
  <2>2. IsNew(q, d)
    BY <2>1 DEF NextIsNew, First
  <2> QED
    BY <1>2, <2>1, <2>2, StaysNew
<1>6. BehindIsThere'
  <2> SUFFICES ASSUME NEW q \in Pullers, Running(q)', NEW d \in Challenges \ pull'[q].todo
               PROVE  IsThere(pull[q].variant, Target(q, d))'
    BY DEF BehindIsThere
  <2>1. q # p /\ pull'[q] = pull[q]
    BY <1>1
  <2> QED
    BY <1>2, <2>1 DEF BehindIsThere, Running, IsThere, Exists, Target
<1>7. NoCopyOfLegacy'
  BY <1>2 DEF NoCopyOfLegacy, Exists
<1> QED
  BY <1>3, <1>4, <1>5, <1>6, <1>7

\* The learner deletes a course that no pull is at work on.
LEMMA DeleteInv ==
  ASSUME PulledInv, PulledTypeOK', NEW v \in Variants, DeleteCourse(v)
  PROVE  PulledInv'
<1> USE DEF PulledInv
<1>1. pull' = pull
  BY DEF DeleteCourse
<1>2. \A w \in Variants, n \in Names :
        dirs'[w][n] = IF w = v THEN "absent" ELSE dirs[w][n]
  BY DEF PulledTypeOK, DeleteCourse, Absent
<1>3. \A q \in Pullers : Running(q) => pull[q].variant # v
  BY DEF DeleteCourse
<1>4. OnePullPerCourse'
  BY <1>1 DEF OnePullPerCourse, Running
<1>5. WorkIsWhole'
  <2> SUFFICES ASSUME NEW e \in edited' PROVE dirs'[e[1]][e[2]] = "whole"
    BY DEF WorkIsWhole
  <2>1. e \in edited /\ e[1] # v
    BY DEF DeleteCourse
  <2>2. e[1] \in Variants /\ e[2] \in Names /\ dirs[e[1]][e[2]] = "whole"
    BY <2>1 DEF PulledTypeOK, WorkIsWhole
  <2> QED
    BY <1>2, <2>1, <2>2
<1>6. NextIsNew'
  <2> SUFFICES ASSUME NEW q \in Pullers, pull[q].at \in {"missing", "files"},
                      NEW d \in Challenges, First(q, d)
               PROVE  IsNew(q, d)'
    BY <1>1 DEF NextIsNew, First
  <2>1. pull[q].variant \in Variants \ {v} /\ IsNew(q, d)
    BY <1>3 DEF PulledTypeOK, Running, NextIsNew
  <2> QED
    BY <1>1, <1>2, <2>1, StaysNew
<1>7. BehindIsThere'
  <2> SUFFICES ASSUME NEW q \in Pullers, Running(q), NEW d \in Challenges \ pull[q].todo
               PROVE  IsThere(pull[q].variant, Target(q, d))'
    BY <1>1 DEF BehindIsThere, Running
  <2>1. pull[q].variant \in Variants \ {v} /\ Target(q, d) \in Names /\ <<d, Bare>> \in Names
    BY <1>3, TargetType DEF PulledTypeOK, Names
  <2>2. Target(q, d)[1] = d /\ Target(q, d)' = Target(q, d)
    BY <1>1 DEF Target
  <2>3. IsThere(pull[q].variant, Target(q, d))
    BY DEF BehindIsThere
  <2> QED
    BY <1>1, <1>2, <2>1, <2>2, <2>3 DEF IsThere, Exists
<1>8. NoCopyOfLegacy'
  <2> SUFFICES ASSUME NEW w \in Variants, NEW c \in Challenges, NEW n \in Places,
                      Exists(w, <<c, Bare>>)', Exists(w, <<c, n>>)'
               PROVE  FALSE
    BY DEF NoCopyOfLegacy
  <2>1. <<c, n>> \in Names /\ <<c, Bare>> \in Names
    BY DEF Names
  <2> QED
    BY <1>2, <2>1 DEF NoCopyOfLegacy, Exists
<1> QED
  BY <1>4, <1>5, <1>6, <1>7, <1>8

\* The invariant is inductive.
LEMMA PulledNextInv == PulledInv /\ [PulledNext]_pulledVars => PulledInv'
<1> SUFFICES ASSUME PulledInv, [PulledNext]_pulledVars PROVE PulledInv'
  OBVIOUS
<1>0. PulledTypeOK /\ PulledTypeOK'
  BY PulledNextTypeOK DEF PulledInv
<1>1. ASSUME NEW p \in Pullers, PullStep(p) PROVE PulledInv'
  <2>1. CASE OpenMarker(p)
    BY <1>0, <2>1, StageInv DEF OpenMarker, Running, Stages
  <2>2. CASE WriteMarker(p)
    BY <1>0, <2>2, StageInv DEF WriteMarker, Running, Stages
  <2>3. CASE LookFor(p)
    <3>1. PICK c \in Challenges : First(p, c)
            /\ IF IsThere(pull[p].variant, Target(p, c)) THEN Skip(p, c) ELSE Step(p, "missing")
      BY <2>3 DEF LookFor
    <3>2. pull[p].at = "dirs" /\ UNCHANGED <<dirs, edited>>
      BY <2>3 DEF LookFor, disk
    <3>3. CASE IsThere(pull[p].variant, Target(p, c))
      BY <1>0, <3>1, <3>2, <3>3, SkipInv
    <3>4. CASE ~ IsThere(pull[p].variant, Target(p, c))
      BY <1>0, <3>1, <3>2, <3>4, MissingInv
    <3> QED
      BY <3>3, <3>4
  <2>a. CASE MakeDir(p)
    BY <1>0, <2>a, MakeInv DEF MakeDir
  <2>4. CASE WriteFiles(p)
    BY <1>0, <2>4, WriteInv DEF WriteFiles
  <2>5. CASE EndPull(p)
    BY <1>0, <2>5, StageInv DEF EndPull, Running, Stages, disk
  <2>6. CASE BreakPull(p)
    BY <1>0, <2>6, StageInv DEF BreakPull, Stages, disk
  <2> QED
    BY <1>1, <2>1, <2>2, <2>3, <2>a, <2>4, <2>5, <2>6 DEF PullStep
<1>2. ASSUME NEW p \in Pullers, NEW v \in Variants, StartPull(p, v) PROVE PulledInv'
  BY <1>0, <1>2, StartInv
<1>3. ASSUME NEW v \in Variants, NEW name \in Names, Edit(v, name) PROVE PulledInv'
  BY <1>0, <1>3 DEF Edit, PulledInv, OnePullPerCourse, WorkIsWhole, NextIsNew,
     BehindIsThere, NoCopyOfLegacy, Running, First, IsNew, Target, IsThere, Exists
<1>4. ASSUME NEW v \in Variants, DeleteCourse(v) PROVE PulledInv'
  BY <1>0, <1>4, DeleteInv
<1>5. ASSUME NEW v \in Variants, Republish(v) PROVE PulledInv'
  BY <1>0, <1>5 DEF Republish, disk, PulledInv, OnePullPerCourse, WorkIsWhole, NextIsNew,
     BehindIsThere, NoCopyOfLegacy, Running, First, IsNew, Target, IsThere, Exists
<1>6. CASE UNCHANGED pulledVars
  BY <1>0, <1>6 DEF pulledVars, disk, PulledInv, OnePullPerCourse, WorkIsWhole, NextIsNew,
     BehindIsThere, NoCopyOfLegacy, Running, First, IsNew, Target, IsThere, Exists
<1> QED
  BY <1>1, <1>2, <1>3, <1>4, <1>5, <1>6 DEF PulledNext

\* The invariant holds of every reachable state.
LEMMA PulledInvariance == PulledSpec => []PulledInv
BY PulledInitInv, PulledNextInv, PTL DEF PulledSpec

-----------------------------------------------------------------------------
(* What the pulls promise.                                                  *)

\* A challenge with a directory from before the prefixes never gets another
\* one, whoever pulls, however often, and wherever pulls break off.
THEOREM LegacyIsNotCopied == PulledSpec => []NoCopyOfLegacy
<1>1. PulledInv => NoCopyOfLegacy
  BY DEF PulledInv
<1> QED
  BY <1>1, PulledInvariance, PTL

\* A step of the disk leaves the work on it, or deletes its course.
LEMMA StepKeepsWork ==
  OneAtATime /\ PulledInv /\ [PulledNext]_pulledVars
      => [\A e \in edited : e \in edited' \/ marker'[e[1]] = "none"]_<<marker, edited>>
<1> SUFFICES ASSUME OneAtATime, PulledInv, [PulledNext]_pulledVars,
                    NEW e \in edited, e \notin edited'
             PROVE  marker'[e[1]] = "none"
  OBVIOUS
<1>1. ASSUME NEW p \in Pullers, WriteFiles(p) PROVE FALSE
  <2>1. PICK c \in Challenges : First(p, c)
          /\ edited' = edited \ {<<pull[p].variant, Target(p, c)>>}
    BY <1>1 DEF WriteFiles
  <2>2. e = <<pull[p].variant, Target(p, c)>>
    BY <2>1
  <2>3. dirs[e[1]][e[2]] = "empty"
    BY <1>1, <2>1, <2>2 DEF PulledInv, NextIsNew, IsNew, WriteFiles
  <2> QED
    BY <2>3 DEF PulledInv, WorkIsWhole
<1>2. ASSUME NEW v \in Variants, DeleteCourse(v) PROVE marker'[e[1]] = "none"
  BY <1>2 DEF DeleteCourse, PulledInv, PulledTypeOK
<1> QED
  BY <1>1, <1>2 DEF PulledNext, PullStep, OpenMarker, WriteMarker, LookFor, MakeDir, EndPull,
     BreakPull, StartPull, Edit, Republish, disk, pulledVars

\* No pull writes over a solution that was worked on, if pulls of a course do not
\* overlap: files go only into a directory the same pull has just made.
THEOREM PullsKeepWork == ASSUME OneAtATime PROVE PulledSpec => WorkIsKept
<1>1. PulledInv /\ [PulledNext]_pulledVars
        => [\A e \in edited : e \in edited' \/ marker'[e[1]] = "none"]_<<marker, edited>>
  BY StepKeepsWork
<1> QED
  BY <1>1, PulledInvariance, PTL DEF PulledSpec, WorkIsKept

\* A pull comes to its end when all its challenges are there.
LEMMA StepCompletes ==
  PulledInv /\ [PulledNext]_pulledVars
      => [\A p \in Pullers : pull'[p].at = "done" /\ pull[p].at # "done" =>
            \A c \in Challenges :
              \E name \in {<<c, pull[p].list[c]>>, <<c, Bare>>} :
                dirs[pull[p].variant][name] # "absent"]_pull
<1> SUFFICES ASSUME PulledInv, [PulledNext]_pulledVars,
                    NEW p \in Pullers, pull'[p].at = "done", pull[p].at # "done",
                    NEW c \in Challenges
             PROVE  \E name \in {<<c, pull[p].list[c]>>, <<c, Bare>>} :
                      dirs[pull[p].variant][name] # "absent"
  OBVIOUS
<1>0. pull \in [Pullers ->
        [at : Stages, variant : Variants, list : Orders, todo : SUBSET Challenges]]
  BY DEF PulledInv, PulledTypeOK
<1>1. EndPull(p)
  <2>1. ASSUME NEW q \in Pullers, PullStep(q), ~ EndPull(q) PROVE FALSE
    BY <1>0, <2>1 DEF PullStep, OpenMarker, WriteMarker, LookFor, MakeDir, WriteFiles,
       BreakPull, Step, Skip
  <2>2. ASSUME NEW q \in Pullers, NEW v \in Variants, StartPull(q, v) PROVE FALSE
    BY <1>0, <2>2 DEF StartPull
  <2>3. ASSUME NEW q \in Pullers, EndPull(q) PROVE q = p
    BY <1>0, <2>3 DEF EndPull, Step
  <2> QED
    BY <2>1, <2>2, <2>3 DEF PulledNext, Edit, DeleteCourse, Republish, pulledVars
<1>2. Running(p) /\ c \notin pull[p].todo
  BY <1>1 DEF EndPull, Running
<1>3. IsThere(pull[p].variant, Target(p, c))
  BY <1>2 DEF PulledInv, BehindIsThere
<1> QED
  BY <1>3 DEF IsThere, Exists, Target

\* A pull that ends has left a directory for every challenge it was told of.
THEOREM PullsComplete == PulledSpec => PullCompletes
BY StepCompletes, PulledInvariance, PTL DEF PulledSpec, PullCompletes

-----------------------------------------------------------------------------
(* Courses whose challenges stay where they are.                            *)

\* While nothing moves, every prefix is the challenge's place, and a pull's
\* listing says so.
DirsAreInPlace ==
  publications = 0 =>
    /\ \A v \in Variants, c \in Challenges, n \in Places :
         Exists(v, <<c, n>>) => n = place[v][c]
    /\ \A p \in Pullers : Running(p) => pull[p].list = place[pull[p].variant]

\* The prefixes that are there were made by pulls, and there are none at first.
LEMMA InitInPlace == PulledInit => DirsAreInPlace
<1> SUFFICES ASSUME PulledInit PROVE DirsAreInPlace
  OBVIOUS
<1>1. \A p \in Pullers : ~ Running(p)
  BY DEF PulledInit, Running
<1> QED
  BY <1>1, NoPrefixAtFirst DEF DirsAreInPlace

\* A step makes directories only where the listing of a pull has them, and only
\* for challenges that are not there.
LEMMA NewDirs ==
  ASSUME PulledInv, [PulledNext]_pulledVars, NEW v \in Variants, NEW m \in Names,
         dirs[v][m] = "absent", dirs'[v][m] # "absent"
  PROVE  \E p \in Pullers, c \in Challenges :
           /\ Running(p)
           /\ pull[p].variant = v
           /\ m = Target(p, c)
           /\ ~ IsThere(v, m)
           /\ MakeDir(p)
<1> USE DEF PulledInv
<1>1. ASSUME NEW p \in Pullers, MakeDir(p)
      PROVE  \E c \in Challenges :
               Running(p) /\ pull[p].variant = v /\ m = Target(p, c) /\ ~ IsThere(v, m)
  <2>1. PICK c \in Challenges : First(p, c)
          /\ dirs' = [dirs EXCEPT ![pull[p].variant][Target(p, c)] =
                        IF @ = "absent" THEN "empty" ELSE @]
    BY <1>1 DEF MakeDir
  <2>2. pull[p].variant = v /\ m = Target(p, c)
    BY <2>1 DEF PulledTypeOK
  <2>3. IsNew(p, c)
    BY <1>1, <2>1 DEF MakeDir, NextIsNew
  <2>4. ~ IsThere(v, m)
    BY <2>2, <2>3 DEF IsNew, IsThere, Exists, Target
  <2> QED
    BY <1>1, <2>2, <2>4 DEF MakeDir, Running
<1>2. ASSUME NEW p \in Pullers, WriteFiles(p) PROVE FALSE
  <2>1. PICK c \in Challenges : First(p, c)
          /\ dirs' = [dirs EXCEPT ![pull[p].variant][Target(p, c)] = "whole"]
    BY <1>2 DEF WriteFiles
  <2>2. pull[p].variant = v /\ m = Target(p, c)
    BY <2>1 DEF PulledTypeOK
  <2>3. dirs[v][m] # "absent"
    BY <1>2, <2>1, <2>2 DEF NextIsNew, IsNew, Exists, WriteFiles
  <2> QED
    BY <2>3
<1>3. ASSUME NEW w \in Variants, DeleteCourse(w) PROVE FALSE
  BY <1>3 DEF DeleteCourse, PulledTypeOK, Absent
<1>4. dirs' # dirs
  OBVIOUS
<1> QED
  BY <1>1, <1>2, <1>3, <1>4 DEF PulledNext, PullStep, OpenMarker, WriteMarker, LookFor, EndPull,
     BreakPull, StartPull, Edit, Republish, disk, pulledVars

\* Pulls put directories where their challenges are.
LEMMA NextInPlace ==
  PulledInv /\ DirsAreInPlace /\ [PulledNext]_pulledVars => DirsAreInPlace'
<1> SUFFICES ASSUME PulledInv, DirsAreInPlace, [PulledNext]_pulledVars, publications' = 0
             PROVE  /\ \A v \in Variants, c \in Challenges, n \in Places :
                         Exists(v, <<c, n>>)' => n = place'[v][c]
                    /\ \A p \in Pullers : Running(p)' => pull'[p].list = place'[pull'[p].variant]
  BY DEF DirsAreInPlace
<1>1. publications = 0 /\ place' = place
  <2>1. publications \in Nat
    BY PulledAssumption DEF PulledInv, PulledTypeOK
  <2>2. ASSUME NEW v \in Variants, Republish(v) PROVE FALSE
    BY <2>1, <2>2 DEF Republish
  <2> QED
    BY <2>2 DEF PulledNext, PullStep, OpenMarker, WriteMarker, LookFor, MakeDir, WriteFiles,
       EndPull, BreakPull, StartPull, Edit, DeleteCourse, pulledVars
<1>2. ASSUME NEW v \in Variants, NEW c \in Challenges, NEW n \in Places, Exists(v, <<c, n>>)'
      PROVE  n = place[v][c]
  <2>1. <<c, n>> \in Names
    BY DEF Names
  <2>2. CASE Exists(v, <<c, n>>)
    BY <1>1, <2>2 DEF DirsAreInPlace
  <2>3. CASE ~ Exists(v, <<c, n>>)
    <3>1. dirs[v][<<c, n>>] = "absent" /\ dirs'[v][<<c, n>>] # "absent"
      BY <1>2, <2>3 DEF Exists
    <3>2. PICK p \in Pullers, d \in Challenges :
            Running(p) /\ pull[p].variant = v /\ <<c, n>> = Target(p, d)
      BY <2>1, <3>1, NewDirs
    <3> QED
      BY <1>1, <3>2 DEF DirsAreInPlace, Target
  <2> QED
    BY <2>2, <2>3
<1>3. ASSUME NEW p \in Pullers, Running(p)'
      PROVE  pull'[p].list = place[pull'[p].variant]
  <2>1. pull \in [Pullers ->
          [at : Stages, variant : Variants, list : Orders, todo : SUBSET Challenges]]
    BY DEF PulledInv, PulledTypeOK
  <2>2. ASSUME NEW q \in Pullers, NEW v \in Variants, StartPull(q, v)
        PROVE  pull'[p].list = place[pull'[p].variant]
    BY <1>1, <1>3, <2>1, <2>2 DEF StartPull, DirsAreInPlace, Running
  <2>3. ASSUME NEW q \in Pullers, PullStep(q)
        PROVE  pull'[p].list = place[pull'[p].variant]
    <3>1. Running(q)
      BY <2>3 DEF PullStep, OpenMarker, WriteMarker, LookFor, MakeDir, WriteFiles, EndPull,
         BreakPull, Running
    <3>2. (\E at \in Stages : Step(q, at)) \/ (\E c \in Challenges : Skip(q, c))
      <4>1. CASE LookFor(q)
        BY <4>1 DEF LookFor, Stages
      <4>2. CASE WriteFiles(q)
        BY <4>2 DEF WriteFiles
      <4>3. CASE ~ LookFor(q) /\ ~ WriteFiles(q)
        BY <2>3, <4>3 DEF PullStep, OpenMarker, WriteMarker, MakeDir, EndPull, BreakPull, Stages
      <4> QED
        BY <4>1, <4>2, <4>3
    <3>3. /\ \A r \in Pullers : r # q => pull'[r] = pull[r]
          /\ pull'[q].list = pull[q].list /\ pull'[q].variant = pull[q].variant
      <4>1. ASSUME NEW at \in Stages, Step(q, at)
            PROVE  /\ \A r \in Pullers : r # q => pull'[r] = pull[r]
                   /\ pull'[q].list = pull[q].list /\ pull'[q].variant = pull[q].variant
        BY <2>1, <4>1 DEF Step
      <4>2. ASSUME NEW c \in Challenges, Skip(q, c)
            PROVE  /\ \A r \in Pullers : r # q => pull'[r] = pull[r]
                   /\ pull'[q].list = pull[q].list /\ pull'[q].variant = pull[q].variant
        BY <2>1, <4>2 DEF Skip
      <4> QED
        BY <3>2, <4>1, <4>2
    <3> QED
      BY <1>1, <1>3, <3>1, <3>3 DEF DirsAreInPlace, Running
  <2>4. pull' = pull => pull'[p].list = place[pull'[p].variant]
    BY <1>1, <1>3 DEF DirsAreInPlace, Running
  <2> QED
    BY <2>2, <2>3, <2>4 DEF PulledNext, Edit, DeleteCourse, Republish, pulledVars
<1> QED
  BY <1>1, <1>2, <1>3

\* "Challenges that already exist locally are skipped" (cmd/duck/help.go) is true
\* of any course, however often it is pulled and wherever pulls break off, as
\* long as no publication moves a challenge; with one it is not (RenumberedPull).
THEOREM UnmovedAreSkipped ==
  PulledSpec =>
    [][publications = 0 =>
         \A v \in Variants, n, m \in Names :
           n[1] = m[1] /\ dirs[v][n] # "absent" /\ dirs[v][m] = "absent"
             => dirs'[v][m] = "absent"]_dirs
<1>1. PulledInv /\ DirsAreInPlace /\ [PulledNext]_pulledVars
        => [publications = 0 =>
              \A v \in Variants, n, m \in Names :
                n[1] = m[1] /\ dirs[v][n] # "absent" /\ dirs[v][m] = "absent"
                  => dirs'[v][m] = "absent"]_dirs
  <2> SUFFICES ASSUME PulledInv, DirsAreInPlace, [PulledNext]_pulledVars, publications = 0,
                      NEW v \in Variants, NEW n \in Names, NEW m \in Names, n[1] = m[1],
                      dirs[v][n] # "absent", dirs[v][m] = "absent", dirs'[v][m] # "absent"
               PROVE  FALSE
    OBVIOUS
  <2>1. PICK p \in Pullers, c \in Challenges :
          Running(p) /\ pull[p].variant = v /\ m = Target(p, c) /\ ~ IsThere(v, m)
    BY NewDirs
  <2>2. n = <<c, n[2]>> /\ n[2] \in Places \cup {Bare}
    BY <2>1 DEF Names, Target
  <2>3. n[2] # Bare
    BY <2>1, <2>2 DEF IsThere, Exists, Target
  <2>4. n[2] = place[v][c] /\ pull[p].list = place[v]
    BY <2>1, <2>2, <2>3 DEF DirsAreInPlace, Exists
  <2>5. n = m
    BY <2>1, <2>2, <2>4 DEF Target
  <2> QED
    BY <2>5
<1> QED
  BY <1>1, InitInPlace, NextInPlace, PulledInvariance, PulledInitInv, PulledNextInv, PTL
     DEF PulledSpec
===============================================================================
