---------------------------- MODULE EntityFamily ----------------------------
(***************************************************************************)
(* What a merge of two parent entities promises to their children (the     *)
(* rooms and event locations of a building, the divisions and rooms of a   *)
(* college, the rooms of a division, the event locations of a dorm): in    *)
(* one step the source disappears and all its children, and no others,     *)
(* belong to the target. Nobody ever sees a child without a parent or a    *)
(* source with only some of its children left.                             *)
(***************************************************************************)
CONSTANTS Parents, Children

VARIABLES live,  \* the parents that exist
          home   \* the parent of each child

Housed == \A c \in Children : home[c] \in live

Move(c, p) ==
    /\ p \in live
    /\ home' = [home EXCEPT ![c] = p]
    /\ UNCHANGED live

\* A source without children may be merged into a row that is gone.
Absorb(s, t) ==
    /\ s # t
    /\ (\E c \in Children : home[c] = s) => t \in live
    /\ live' = live \ {s}
    /\ home' = [c \in Children |-> IF home[c] = s THEN t ELSE home[c]]

Init == live = Parents /\ home \in [Children -> Parents]

Next == \/ \E c \in Children, p \in Parents : Move(c, p)
        \/ \E s, t \in Parents : Absorb(s, t)

Spec == Init /\ [][Next]_<<live, home>>
=============================================================================
