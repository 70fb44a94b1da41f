-------------------------- MODULE DuckTerminalProofs --------------------------
(***************************************************************************)
(* What holds of the extension's commands for any terminals, any layout of *)
(* courses inside courses and any number of commands.                      *)
(***************************************************************************)
EXTENDS DuckTerminal, TLAPS

-----------------------------------------------------------------------------
(* Which challenge.                                                         *)

\* What is located is a challenge of a course on disk, or a course.
LEMMA LocatedType ==
  ASSUME NEW f \in Files
  PROVE  Located(f) \subseteq [root : Roots, slug : Segments]
<1> SUFFICES ASSUME NEW i \in Innermost(f)
             PROVE  [root |-> Around[f][i][1], slug |-> Around[f][i][2]]
                      \in [root : Roots, slug : Segments]
  BY DEF Located
<1>1. i \in DOMAIN Around[f]
  BY DEF Innermost, CourseAround
<1>2. Around[f][i] \in Roots \X Segments
  BY <1>1, TerminalAssumption
<1> QED
  BY <1>2

-----------------------------------------------------------------------------
(* Type correctness.                                                        *)

\* A window just opened is well typed.
LEMMA InitTypeOK == Init => TypeOK
<1> SUFFICES ASSUME Init PROVE TypeOK
  OBVIOUS
<1>1. typed \in [Terminals -> Seq(Lines)]
  BY DEF Init
<1> QED
  BY <1>1, TerminalAssumption DEF Init, TypeOK

\* A command that is accepted types a line.
LEMMA LineType ==
  ASSUME TypeOK, NEW verb \in Verbs, NEW ref \in Refs, Accepts(verb, ref)
  PROVE  Line(verb, ref) \in Lines
<1>1. ref \in [root : Roots, slug : Segments]
  <2>1. CASE ref \in {lenses[f] : f \in Solutions}
    BY <2>1, TerminalAssumption DEF Accepts, TypeOK
  <2>2. CASE ref \in UNION {Located(f) : f \in Files}
    BY <2>2, LocatedType
  <2> QED
    BY <2>1, <2>2 DEF Refs
<1>2. None \in Segments
  BY DEF Segments
<1>3. ref.root \in Roots /\ ref.slug \in Segments
  BY <1>1
<1> DEFINE slug == IF verb = "testAll" THEN None ELSE ref.slug
<1>4. slug \in Segments
  BY <1>2, <1>3
<1> HIDE DEF slug
<1>5. [root |-> ref.root, verb |-> verb, slug |-> slug] \in Lines
  BY <1>3, <1>4 DEF Lines
<1> QED
  BY <1>5 DEF Line, slug

\* Every step preserves the types.
LEMMA NextTypeOK == TypeOK /\ [Next]_vars => TypeOK'
<1> SUFFICES ASSUME TypeOK, [Next]_vars PROVE TypeOK'
  OBVIOUS
<1> USE DEF TypeOK
<1>1. ASSUME NEW f \in Files, ProvideLenses(f) PROVE TypeOK'
  BY <1>1, LocatedType DEF ProvideLenses, shells
<1>2. ASSUME NEW verb \in Verbs, Ask(verb) PROVE TypeOK'
  <2>1. asked' \subseteq Lines
    BY <1>2, LineType DEF Ask
  <2>2. commands' \in 0..MaxCommands
    BY <1>2, TerminalAssumption DEF Ask
  <2> QED
    BY <1>2, <2>1, <2>2 DEF Ask, shells
<1>3. ASSUME NEW root \in Roots, MarkerChanges(root) PROVE TypeOK'
  BY <1>3 DEF MarkerChanges, shells
<1>4. ASSUME NEW line \in asked, RunInTerminal(line) PROVE TypeOK'
  <2>1. line \in Lines
    OBVIOUS
  <2>2. CASE NeedsTerminal
    <3>1. PICK t \in Unused :
            /\ terminal' = t
            /\ duck' = duck \cup {t}
            /\ state' = [state EXCEPT ![t] = "open"]
            /\ typed' = [typed EXCEPT ![t] = <<line>>]
      BY <1>4, <2>2 DEF RunInTerminal
    <3>2. t \in Terminals /\ state[t] = "none"
      BY DEF Unused
    <3>3. typed' \in [Terminals -> Seq(Lines)]
      BY <2>1, <3>1, <3>2
    <3> QED
      BY <1>4, <2>1, <3>1, <3>2, <3>3 DEF RunInTerminal
  <2>3. CASE ~ NeedsTerminal
    <3>1. terminal \in Terminals
      BY <2>3 DEF NeedsTerminal
    <3>2. typed' = [typed EXCEPT ![terminal] = Append(@, line)]
          /\ UNCHANGED <<terminal, duck, state>>
      BY <1>4, <2>3 DEF RunInTerminal
    <3>3. typed' \in [Terminals -> Seq(Lines)]
      BY <2>1, <3>1, <3>2
    <3> QED
      BY <1>4, <3>2, <3>3 DEF RunInTerminal
  <2> QED
    BY <2>2, <2>3
<1>5. ASSUME NEW t \in Terminals, OpenOther(t) PROVE TypeOK'
  BY <1>5 DEF OpenOther, Unused, resolution
<1>6. ASSUME NEW t \in Terminals, DisposeTerminal(t) PROVE TypeOK'
  BY <1>6 DEF DisposeTerminal, Forget, resolution
<1>7. ASSUME NEW t \in Terminals, CloseTerminal(t) PROVE TypeOK'
  <2>1. typed' \in [Terminals -> Seq(Lines)]
    BY <1>7 DEF CloseTerminal
  <2> QED
    BY <1>7, <2>1 DEF CloseTerminal, resolution
<1>8. ASSUME NEW t \in Terminals, ReportExit(t) PROVE TypeOK'
  BY <1>8 DEF ReportExit, resolution
<1>9. ASSUME NEW t \in Terminals, RunLine(t) PROVE TypeOK'
  <2>1. typed[t] \in Seq(Lines) /\ typed[t] # << >>
    BY <1>9 DEF RunLine
  <2>2. Tail(typed[t]) \in Seq(Lines)
    BY <2>1
  <2>3. typed' \in [Terminals -> Seq(Lines)]
    BY <1>9, <2>2 DEF RunLine
  <2> QED
    BY <1>9, <2>3 DEF RunLine, resolution
<1>10. ASSUME RestartHost PROVE TypeOK'
  BY <1>10 DEF RestartHost
<1>11. CASE UNCHANGED vars
  BY <1>11 DEF vars, resolution, shells
<1> QED
  BY <1>1, <1>2, <1>3, <1>4, <1>5, <1>6, <1>7, <1>8, <1>9, <1>10, <1>11 DEF Next

\* Every reachable state is well typed: the terminal the extension types into
\* is one it created for that.
THEOREM TypeCorrect == Spec => []TypeOK
BY InitTypeOK, NextTypeOK, PTL DEF Spec

-----------------------------------------------------------------------------
(* The shared terminal.                                                     *)

\* A terminal created to be shared exists.
DuckInv ==
  /\ TypeOK
  /\ OneDuckTerminal
  /\ \A t \in duck : state[t] # "none"

\* A window just opened has no terminal.
LEMMA InitInv == Init => DuckInv
BY InitTypeOK DEF Init, DuckInv, OneDuckTerminal

\* A command reuses the terminal, or opens one when the old one is over.
LEMMA RunInTerminalInv ==
  ASSUME DuckInv, TypeOK', NEW line \in asked, RunInTerminal(line)
  PROVE  DuckInv'
<1> USE DEF DuckInv
<1>1. CASE NeedsTerminal
  <2>1. PICK t \in Unused :
          /\ terminal' = t
          /\ duck' = duck \cup {t}
          /\ state' = [state EXCEPT ![t] = "open"]
          /\ typed' = [typed EXCEPT ![t] = <<line>>]
    BY <1>1 DEF RunInTerminal
  <2>2. t \in Terminals
    BY DEF Unused
  <2>3. OneDuckTerminal'
    <3> SUFFICES ASSUME NEW u \in duck, u # t, state'[u] = "open" PROVE FALSE
      BY <2>1 DEF OneDuckTerminal
    <3>1. u = terminal /\ state[u] = "open"
      BY <2>1, <2>2 DEF OneDuckTerminal, TypeOK
    <3>2. u \in exited
      BY <1>1, <3>1, TerminalAssumption DEF NeedsTerminal, TypeOK
    <3> QED
      BY <3>1, <3>2 DEF TypeOK
  <2>4. \A u \in duck' : state'[u] # "none"
    BY <2>1, <2>2 DEF TypeOK
  <2> QED
    BY <2>3, <2>4
<1>2. CASE ~ NeedsTerminal
  <2>1. UNCHANGED <<terminal, duck, state>>
    BY <1>2 DEF RunInTerminal
  <2> QED
    BY <2>1 DEF OneDuckTerminal
<1> QED
  BY <1>1, <1>2

\* The invariant is inductive.
LEMMA NextInv == DuckInv /\ [Next]_vars => DuckInv'
<1> SUFFICES ASSUME DuckInv, [Next]_vars PROVE DuckInv'
  OBVIOUS
<1>0. TypeOK /\ TypeOK'
  BY NextTypeOK DEF DuckInv
<1>1. CASE UNCHANGED <<terminal, duck, state>>
  BY <1>0, <1>1 DEF DuckInv, OneDuckTerminal
<1>2. ASSUME NEW line \in asked, RunInTerminal(line) PROVE DuckInv'
  BY <1>0, <1>2, RunInTerminalInv
<1>3. ASSUME NEW t \in Terminals, OpenOther(t) PROVE DuckInv'
  <2>1. t \notin duck
    BY <1>3 DEF OpenOther, Unused, DuckInv
  <2> QED
    BY <1>0, <1>3, <2>1 DEF OpenOther, DuckInv, TypeOK, OneDuckTerminal
<1>4. ASSUME NEW t \in Terminals, DisposeTerminal(t) PROVE DuckInv'
  <2>1. state[t] = "gone"
    BY <1>0, <1>4 DEF DisposeTerminal, TypeOK
  <2> QED
    BY <1>0, <1>4, <2>1 DEF DisposeTerminal, Forget, DuckInv, OneDuckTerminal
<1>5. ASSUME NEW t \in Terminals, CloseTerminal(t) PROVE DuckInv'
  BY <1>0, <1>5 DEF CloseTerminal, DuckInv, TypeOK, OneDuckTerminal
<1>6. CASE RestartHost
  BY <1>0, <1>6 DEF RestartHost, DuckInv, OneDuckTerminal
<1>7. CASE UNCHANGED vars
  BY <1>1, <1>7 DEF vars, shells
<1> QED
  BY <1>1, <1>2, <1>3, <1>4, <1>5, <1>6, <1>7
     DEF Next, ProvideLenses, Ask, MarkerChanges, ReportExit, RunLine, shells

\* The invariant holds of every reachable state.
LEMMA DuckInvariance == Spec => []DuckInv
BY InitInv, NextInv, PTL DEF Spec

\* Since the extension was activated, never are two terminals open that it
\* created to share.
THEOREM OneTerminalIsShared == Spec => []OneDuckTerminal
<1>1. DuckInv => OneDuckTerminal
  BY DEF DuckInv
<1> QED
  BY <1>1, DuckInvariance, PTL

\* No command is lost to a terminal whose exit could be seen.
THEOREM ExitedStayUntouched == Spec => NeverTypesIntoExited
<1>1. TypeOK /\ [Next]_vars => [\A t \in exited : typed'[t] = typed[t]]_typed
  <2> SUFFICES ASSUME TypeOK, [Next]_vars, NEW t \in exited
               PROVE  typed'[t] = typed[t]
    OBVIOUS
  <2>1. t \in Terminals /\ state[t] = "gone"
    BY DEF TypeOK
  <2>2. ASSUME NEW line \in asked, RunInTerminal(line) PROVE typed'[t] = typed[t]
    BY <2>1, <2>2 DEF RunInTerminal, NeedsTerminal, Unused, TypeOK
  <2>3. ASSUME NEW u \in Terminals, CloseTerminal(u) \/ RunLine(u)
        PROVE  typed'[t] = typed[t]
    BY <2>1, <2>3 DEF CloseTerminal, RunLine, TypeOK
  <2> QED
    BY <2>2, <2>3 DEF Next, ProvideLenses, Ask, MarkerChanges, OpenOther, DisposeTerminal,
       ReportExit, RestartHost, shells, vars
<1> QED
  BY <1>1, TypeCorrect, PTL DEF Spec, NeverTypesIntoExited
===============================================================================
