----------------------------- MODULE MCEditorPage -----------------------------
(* Small instances of EditorPage for TLC: a tab with the course editor and a
   tab with the challenges of a lesson. *)
EXTENDS EditorPage, TLC

CONSTANTS edit, lesson, markdown, first, second

OneEach == (markdown :> edit) @@ (first :> lesson) @@ (second :> lesson)
EditTab == markdown :> edit

\* Nothing, and values edited by hand: clamped, they make a tab size of 1, which
\* the panel does not offer.
SomeStored == {None, [fontSize |-> 0, tabSize |-> -1, on |-> {}]}
==============================================================================
