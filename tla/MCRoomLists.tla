---------------------------- MODULE MCRoomLists ----------------------------
(* Instances of RoomLists for TLC. *)
EXTENDS RoomLists

CONSTANTS r1, r2, b1, b2, c1, c2

MCKindOf ==
    [l \in Lists |-> IF l \in {b1, b2} THEN "building" ELSE "college"]

\* Buildings come before colleges.
MCOrder ==
    [l \in Lists |-> CASE l = b1 -> 0 [] l = b2 -> 1 [] l = c1 -> 2 [] OTHER -> 3]

\* A college with one of the two rooms of a building.
MCStart == [r \in Rooms |-> IF r = r1 THEN {b1, c1} ELSE {b1}]

\* The other room moves.
MCWorlds == {MCStart, [MCStart EXCEPT ![r2] = {b2, c2}]}
=============================================================================
