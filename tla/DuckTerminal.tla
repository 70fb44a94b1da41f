----------------------------- MODULE DuckTerminal -----------------------------
(***************************************************************************)
(* How the VS Code extension runs duck: a command resolves a challenge      *)
(* (resolveChallenge in extension.ts, local.ts, codelens.ts) and types a    *)
(* line into a shared terminal (cli.ts).                                    *)
(*                                                                         *)
(* The terminals and their shells are external: the user may close one at   *)
(* any moment, the host gives its exit status and then its close event to   *)
(* the extension some time later, and a shell runs the lines typed into it  *)
(* in order. The extension host may restart: the extension forgets all, and *)
(* the terminals stay.                                                      *)
(***************************************************************************)
EXTENDS Integers, Sequences, FiniteSets

CONSTANTS
  Terminals,    \* the terminals there may ever be
  Roots,        \* the directories that may be course roots
  Files,        \* the files the user may have open
  Solutions,    \* those with a solution file's name
  Around,       \* file -> the roots around it, innermost first, each with the
                \* first path segment under it, None for the marker itself
  MaxCommands,  \* bound on the number of commands
  None          \* no slug, no terminal, no lens

\* What challengeSlugFor may find.
Segments == {None} \cup UNION {{Around[f][i][2] : i \in DOMAIN Around[f]} : f \in Files}

ASSUME TerminalAssumption ==
  /\ None \notin Terminals \cup Roots
  /\ Solutions \subseteq Files
  /\ \A f \in Files : Around[f] \in Seq(Roots \X Segments)
  /\ MaxCommands \in Nat

VARIABLES
  course,     \* the roots with a marker that parses
  lenses,     \* file -> the arguments of its CodeLenses, None without
  asked,      \* the commands that are resolved and about to be typed
  commands,   \* how many commands there have been
  terminal,   \* the extension's variable of that name
  duck,       \* those the extension, since it was activated, created to share
  state,      \* terminal -> none, open or gone
  exited,     \* the terminals whose exit status the extension can see
  closed,     \* the terminals whose close event is handled
  typed       \* terminal -> the lines its shell has not run yet

resolution == <<course, lenses, asked, commands>>
shells == <<duck, state, exited, closed, typed>>
vars == <<resolution, terminal, shells>>

-----------------------------------------------------------------------------
(* Which challenge.                                                         *)

\* findCourseRootFor: the first root, going up, whose marker can be read.
CourseAround(f) == {i \in DOMAIN Around[f] : Around[f][i][1] \in course}
Innermost(f) == {i \in CourseAround(f) : \A j \in CourseAround(f) : i <= j}

\* ... with challengeSlugFor, the first path segment under it: one, if any.
Located(f) == {[root |-> Around[f][i][1], slug |-> Around[f][i][2]] : i \in Innermost(f)}

\* provideCodeLenses, for a document when the host asks.
ProvideLenses(f) ==
  /\ f \in Solutions
  /\ \/ \E ref \in Located(f) :
          ref.slug # None /\ lenses' = [lenses EXCEPT ![f] = ref]
     \/ /\ \A ref \in Located(f) : ref.slug = None
        /\ lenses' = [lenses EXCEPT ![f] = None]
  /\ UNCHANGED <<course, asked, commands, terminal, shells>>

Verbs == {"test", "testAll", "submit", "submitRemote"}

\* resolveChallenge: the argument of a lens or a tree item, or the file of the
\* active editor.
Refs == {lenses[f] : f \in Solutions} \cup UNION {Located(f) : f \in Files}

\* A command that needs a challenge is refused without one, with a message.
Accepts(verb, ref) == ref # None /\ (verb \in {"submit", "submitRemote"} => ref.slug # None)

Line(verb, ref) ==
  [root |-> ref.root, verb |-> verb, slug |-> IF verb = "testAll" THEN None ELSE ref.slug]

Ask(verb) ==
  /\ commands < MaxCommands
  /\ commands' = commands + 1
  /\ \E ref \in Refs : Accepts(verb, ref) /\ asked' = asked \cup {Line(verb, ref)}
  /\ UNCHANGED <<course, lenses, terminal, shells>>

\* A pull, or the user, adds or removes a marker.
MarkerChanges(root) ==
  /\ course' = IF root \in course THEN course \ {root} ELSE course \cup {root}
  /\ UNCHANGED <<lenses, asked, commands, terminal, shells>>

-----------------------------------------------------------------------------
(* The shared terminal.                                                     *)

Unused == {t \in Terminals : state[t] = "none"}

\* None is there, or it is over.
NeedsTerminal == terminal = None \/ terminal \in exited

\* runInTerminal: what is typed goes to the root and runs duck there.
RunInTerminal(line) ==
  /\ line \in asked
  /\ asked' = asked \ {line}
  /\ IF NeedsTerminal
     THEN \E t \in Unused :
            /\ terminal' = t
            /\ duck' = duck \cup {t}
            /\ state' = [state EXCEPT ![t] = "open"]
            /\ typed' = [typed EXCEPT ![t] = <<line>>]
     ELSE /\ typed' = [typed EXCEPT ![terminal] = Append(@, line)]
          /\ UNCHANGED <<terminal, duck, state>>
  /\ UNCHANGED <<course, lenses, commands, exited, closed>>

OpenShared(t) ==   \* mutant: a login's terminal becomes the shared one
  /\ t \in Unused
  /\ state' = [state EXCEPT ![t] = "open"]
  /\ terminal' = t
  /\ UNCHANGED <<resolution, duck, exited, closed, typed>>

\* duck.login, or the user, opens a terminal of its own.
OpenOther(t) ==
  /\ t \in Unused
  /\ state' = [state EXCEPT ![t] = "open"]
  /\ UNCHANGED <<resolution, terminal, duck, exited, closed, typed>>

ForgetAny(t) == terminal' = None   \* mutant: whichever terminal closed

Forget(t) == terminal' = IF t = terminal THEN None ELSE terminal

\* disposeTerminal, for every terminal of the window.
DisposeTerminal(t) ==
  /\ t \in exited \ closed
  /\ closed' = closed \cup {t}
  /\ Forget(t)
  /\ UNCHANGED <<resolution, duck, state, exited, typed>>

-----------------------------------------------------------------------------
(* The host and the shells.                                                 *)

\* A terminal is closed, or its shell exits: what was typed is lost.
CloseTerminal(t) ==
  /\ state[t] = "open"
  /\ state' = [state EXCEPT ![t] = "gone"]
  /\ typed' = [typed EXCEPT ![t] = << >>]
  /\ UNCHANGED <<resolution, terminal, duck, exited, closed>>

ReportExit(t) ==
  /\ state[t] = "gone"
  /\ exited' = exited \cup {t}
  /\ UNCHANGED <<resolution, terminal, duck, state, closed, typed>>

\* The shell runs the next line: duck, or nothing where cd fails.
RunLine(t) ==
  /\ state[t] = "open"
  /\ typed[t] # << >>
  /\ typed' = [typed EXCEPT ![t] = Tail(@)]
  /\ UNCHANGED <<resolution, terminal, duck, state, exited, closed>>

\* The extension host restarts: a new module has no terminal, the host asks for
\* the lenses again, and the terminals of the window are as they were.
RestartHost ==
  /\ terminal' = None
  /\ duck' = {}
  /\ asked' = {}
  /\ lenses' = [f \in Files |-> None]
  /\ UNCHANGED <<course, commands, state, exited, closed, typed>>

-----------------------------------------------------------------------------
Init ==
  /\ course \in SUBSET Roots
  /\ lenses = [f \in Files |-> None]
  /\ asked = {}
  /\ commands = 0
  /\ terminal = None
  /\ duck = {}
  /\ state = [t \in Terminals |-> "none"]
  /\ exited = {}
  /\ closed = {}
  /\ typed = [t \in Terminals |-> << >>]

Next ==
  \/ \E f \in Files : ProvideLenses(f)
  \/ \E verb \in Verbs : Ask(verb)
  \/ \E root \in Roots : MarkerChanges(root)
  \/ \E line \in asked : RunInTerminal(line)
  \/ \E t \in Terminals :
       \/ OpenOther(t)
       \/ DisposeTerminal(t)
       \/ CloseTerminal(t)
       \/ ReportExit(t)
       \/ RunLine(t)
  \/ RestartHost

Spec == Init /\ [][Next]_vars
-----------------------------------------------------------------------------
(* What the extension promises about its commands.                          *)

Lines == [root : Roots, verb : Verbs, slug : Segments]

\* Every variable has its type, and the extension's terminal is one it created
\* to be shared: never the user's own or that of a login.
TypeOK ==
  /\ course \in SUBSET Roots
  /\ lenses \in [Files -> [root : Roots, slug : Segments] \cup {None}]
  /\ asked \in SUBSET Lines
  /\ commands \in 0..MaxCommands
  /\ duck \in SUBSET Terminals
  /\ terminal \in duck \cup {None}
  /\ state \in [Terminals -> {"none", "open", "gone"}]
  /\ closed \subseteq exited /\ exited \subseteq {t \in Terminals : state[t] = "gone"}
  /\ typed \in [Terminals -> Seq(Lines)]

\* "A shared, visible terminal" (cli.ts): however many terminals are opened and
\* closed, in whatever order their exits and closings are reported, at most one
\* that was created to be shared since the extension was activated is open, and
\* it is the one the next command goes to. What a host that is gone created
\* stays open beside it.
OneDuckTerminal == \A t \in duck : state[t] = "open" => t = terminal

\* Nothing is typed into a terminal whose exit the extension can see: the
\* command would be lost.
NeverTypesIntoExited ==
  [][\A t \in exited : typed'[t] = typed[t]]_typed
==============================================================================
