--------------------------- MODULE MCPlannerSync ---------------------------
(* Instances of PlannerSync for TLC. *)
EXTENDS PlannerSync

CONSTANTS a, x, p1, p2, p3, t1, t2

\* Two plans for one term, one for another.
MCTermOf == [p \in Ids |-> IF p = p3 THEN t2 ELSE t1]

\* Two tabs of one browser, of two, and one of them in a private window.
MCPlacements ==
    {[t \in Tabs |-> IF t = a THEN x ELSE other] : other \in Browsers}
=============================================================================
