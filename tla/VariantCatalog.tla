---------------------------- MODULE VariantCatalog ----------------------------
(***************************************************************************)
(* What the readers and the learners of a variant rely on: documents are   *)
(* published whole, one version after the other; a challenge has one id,   *)
(* for good, that no other challenge has; and who solves a challenge       *)
(* solves one that is live, under that id.                                 *)
(***************************************************************************)
EXTENDS Sequences

CONSTANTS
  Documents,  \* what can be published: the place of each challenge, and the lessons
  Slugs,      \* challenges
  Ids,
  Absent      \* no place in the document, no id yet

VARIABLES
  versions,   \* the documents published so far
  shown,      \* the document the variant's rows spell
  registry,   \* challenge -> its id
  solved      \* [slug, id] of what learners solved

vars == <<versions, shown, registry, solved>>

Init ==
  /\ versions = <<>>
  /\ shown = [lessons |-> {}, place |-> [c \in Slugs |-> Absent]]
  /\ registry = [c \in Slugs |-> Absent]
  /\ solved = {}

OneIdEach(ids) == \A b, c \in Slugs : ids[b] = ids[c] /\ ids[b] # Absent => b = c

Publish(d) ==
  /\ versions' = Append(versions, d)
  /\ shown' = d
  /\ registry' \in [Slugs -> Ids \cup {Absent}]
  /\ OneIdEach(registry')
  /\ \A c \in Slugs : /\ registry[c] # Absent => registry'[c] = registry[c]
                      /\ d.place[c] # Absent => registry'[c] # Absent
  /\ UNCHANGED solved

Solve(c) ==
  /\ shown.place[c] # Absent
  /\ solved' = solved \cup {[slug |-> c, id |-> registry[c]]}
  /\ UNCHANGED <<versions, shown, registry>>

\* (The first conjunct follows from Publish, and saves TLC the search for d.)
Next ==
  \/ versions' # versions /\ \E d \in Documents : Publish(d)
  \/ \E c \in Slugs : Solve(c)

Spec == Init /\ [][Next]_vars
==============================================================================
