-------------------------- MODULE ReviewedDocuments --------------------------
(***************************************************************************)
(* What the review workflow promises, without saying how: each variant has *)
(* a log of the documents that were live, which only grows at its end.     *)
(* What is appended is either an import by the operator, or a revision     *)
(* that was approved beforehand, from a proposal that never went live      *)
(* before, in any variant.  No reviews, rows, counts or races appear here. *)
(***************************************************************************)
EXTENDS Integers, Sequences

CONSTANTS
  Variants,
  Documents,  \* every document there could be, with the proposal it is from
  None        \* the from of an imported document

VARIABLES
  log,       \* variant -> the documents that were live, in version order
  approved   \* revisions whose text passed review

vars == <<log, approved>>

Imports == {d \in Documents : d.from = None}
Revisions == Documents \ Imports

WentLive(p) == \E v \in Variants : \E n \in DOMAIN log[v] : log[v][n].from = p

Init ==
  /\ log \in [Variants -> Seq(Imports)]
  /\ approved = {}

Approve(d) ==
  /\ approved' = approved \cup {d}
  /\ UNCHANGED log

Publish(v, d) ==
  /\ d \in approved
  /\ ~ WentLive(d.from)
  /\ log' = [log EXCEPT ![v] = Append(@, d)]
  /\ UNCHANGED approved

Import(v, d) ==
  /\ log' = [log EXCEPT ![v] = Append(@, d)]
  /\ UNCHANGED approved

Next ==
  \/ \E d \in Revisions : Approve(d) \/ \E v \in Variants : Publish(v, d)
  \/ \E d \in Imports : \E v \in Variants : Import(v, d)

Spec == Init /\ [][Next]_vars
==============================================================================
