--------------------------- MODULE MCEntityMerge ---------------------------
(* Instances of EntityMerge for TLC. *)
EXTENDS EntityMerge, TLC

CONSTANTS b1, b2

\* Merge calls are interchangeable, and so are the entities.
Symmetry == Permutations(Merges) \union Permutations(Parents)

\* Liveness is checked without a symmetry set. Of the initial states of a
\* college merge that are permutations of each other one is taken: the rooms are
\* where the divisions are, or elsewhere. Every text is filled in: the texts do
\* not matter to who has which child and what is announced.
MCInit ==
    /\ Init
    /\ text \in [Parents -> Texts]
    /\ \E p \in {b1, b2} :
          home = [c \in Children |-> IF c[1] = "rooms" THEN p ELSE b1]

MCSpec == MCInit /\ [][Next]_vars /\ Fairness
=============================================================================
