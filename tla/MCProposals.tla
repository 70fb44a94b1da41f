----------------------------- MODULE MCProposals -----------------------------
(* Small instances of Proposals for TLC. *)
EXTENDS Proposals, TLC

\* The ids are handed out by an identity column, and the variants are named by
\* slugs: neither is compared but for equality, nor set apart initially.
RowSymmetry == Permutations(ProposalIds) \cup Permutations(Variants)
==============================================================================
