--------------------------- MODULE OptimisticEdit ---------------------------
(***************************************************************************)
(* What the version column of an editable entity is for, said without      *)
(* versions: "Saving with a stale version returns a conflict instead of    *)
(* overwriting another editor's change" (docs/editor-foundation-test-plan).*)
(* An editor looks at some state of a record and asks for a change; the    *)
(* change lands, in one step, only if the record still looks the way it    *)
(* did, and touches only the fields the editor set. Or it never lands.     *)
(***************************************************************************)
CONSTANTS Editors, Fields, Values,
          Unset,   \* a field the change leaves alone
          NoEdit   \* the editor has nothing under way

VARIABLES record,  \* what the record shows
          edit     \* per editor: the state looked at, and the change wanted

Content == [Fields -> Values]
Change == [Fields -> Values \union {Unset}]
Edit == [base : Content, input : Change]

Apply(input, c) == [f \in Fields |-> IF input[f] = Unset THEN c[f] ELSE input[f]]

Begin(e, d) ==
    /\ edit[e] = NoEdit
    /\ edit' = [edit EXCEPT ![e] = d]
    /\ UNCHANGED record

Publish(e) ==
    /\ edit[e] # NoEdit
    /\ edit[e].base = record
    /\ record' = Apply(edit[e].input, record)
    /\ edit' = [edit EXCEPT ![e] = NoEdit]

Drop(e) ==
    /\ edit[e] # NoEdit
    /\ edit' = [edit EXCEPT ![e] = NoEdit]
    /\ UNCHANGED record

Init == record \in Content /\ edit = [e \in Editors |-> NoEdit]

Next == \E e \in Editors : \/ \E d \in Edit : Begin(e, d)
                           \/ Publish(e)
                           \/ Drop(e)

Spec == Init /\ [][Next]_<<record, edit>>
=============================================================================
