----------------------------- MODULE MCMapMoves -----------------------------
(* Instances of MapMoves for TLC. *)
EXTENDS MapMoves

CONSTANT origin \* coordinates

ASSUME StartAssumption == origin \in Places \ Anchors

\* Every pin starts at origin, or is an event's and anchored. Places of two pins
\* are never compared, so any other start is one of these with the places of some
\* pins renamed.
MCInit == Init /\ \A p \in Pins : local[p].at \in {origin} \union Anchors

MCSpec == MCInit /\ [][Next]_vars /\ Fairness
=============================================================================
