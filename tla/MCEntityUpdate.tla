--------------------------- MODULE MCEntityUpdate ---------------------------
(* The instance of EntityUpdate for TLC. *)
EXTENDS EntityUpdate

CONSTANTS f1, f2, a, b

\* An editor sets one field and leaves the other, or sets both.
MCInputs == {[f \in Fields |-> IF f = f1 THEN b ELSE Unset],
             [f \in Fields |-> IF f = f1 THEN a ELSE b]}

\* A row that either of them changes.
MCInit == Init /\ content = [f \in Fields |-> a]

MCSpec == MCInit /\ [][Next]_vars /\ Fairness
=============================================================================
