------------------------ MODULE MCProposalLifecycle ------------------------
(* Instances of ProposalLifecycle for TLC. *)
EXTENDS ProposalLifecycle, TLC

\* Invocations are interchangeable, and so are the ids the
\* table hands out and the fields of an entity.
Symmetry == Permutations(Requests) \union Permutations(Proposals)
                \union Permutations(Fields)
=============================================================================
