------------------------------ MODULE MapMoves ------------------------------
(***************************************************************************)
(* Moving pins on the map and undoing moves, in one editor's tab           *)
(* (src/components/svelte/Map.svelte, src/lib/map-move-history.ts,         *)
(* src/lib/map-edit/patch-api.ts), while other editors save the same rows. *)
(*                                                                         *)
(* Every drag, undo and redo is a PATCH with the version it expects. Its   *)
(* answer changes the position the map shows and the two stacks. The tab   *)
(* does not wait for one PATCH before the next: only the buttons of undo   *)
(* and redo do, the keyboard and the pins do not.                          *)
(*                                                                         *)
(* A pin is a building, a dorm or an event's location. The version of its  *)
(* row is the number of times it was written, so past[p] gives rows and    *)
(* versions. Of the statements of a PATCH, which EntityUpdate has, the     *)
(* write and what is answered matter here: buildings and dorms answer with *)
(* the row written, events with the event read again, and events are read  *)
(* in several statements, the row with the version before the locations.   *)
(*                                                                         *)
(* An event's location has coordinates, or it is a building or a dorm that *)
(* it is anchored to (and whichever that is merged into). The position is  *)
(* what the location says, as drags, undos and redos save it. Where an     *)
(* anchored one is drawn is up to the building's row, which moves without  *)
(* a new version of the event, and is no part of this module.              *)
(***************************************************************************)
EXTENDS Integers, SequencesExt

CONSTANTS
    Pins,
    Events,   \* those of events
    Places,   \* positions
    Anchors,  \* those that are a building or dorm, not coordinates
    Calls,    \* PATCHes that can be under way at one time
    None,     \* no pin
    MaxAsks   \* bound on what people do

ASSUME EventsAssumption == Events \subseteq Pins
ASSUME AnchorsAssumption == Anchors \subseteq Places
ASSUME NoneAssumption == None \notin Pins
ASSUME MaxAsksAssumption == MaxAsks \in Nat

VARIABLES
    past,       \* the positions each row has had on the server, by version
    local,      \* position and version the tab knows
    own,        \* pins with a position override
    undoStack,
    redoStack,
    undoing,    \* undoingEditKey: the buttons are disabled
    call,       \* the PATCHes under way
    touched,    \* pins saved by others, or by this tab in a way it lost track of
    asks        \* calls made so far, for the bound

vars == <<past, local, own, undoStack, redoStack, undoing, call, touched, asks>>

stacks == <<undoStack, redoStack>>

-----------------------------------------------------------------------------
\* VersionedMapMove
Move == [pin : Pins, previous : Places, current : Places, version : Nat]

Position == [at : Places, version : Nat]

\* A drag carries the move it will record, with the version it expects.
Call ==
    [kind : {"drag", "undo", "redo"}, move : Move,
     state : {"sent", "written", "reread", "refused",
              "saved", "conflict", "failed"},
     answer : Position]

Idle == [kind |-> "none"]

Under(c) == call[c] # Idle

Version(p) == Len(past[p])

Latest(p) == [at |-> past[p][Version(p)], version |-> Version(p)]

\* The last version of which something may have been read with version v.
LastRead(p, v) == IF p \in Events THEN Version(p) ELSE v

Sent(x) == IF x.kind = "undo" THEN x.move.previous ELSE x.move.current

Top(stack, m) == stack # <<>> /\ Last(stack) = m

Asked == asks < MaxAsks /\ asks' = asks + 1

Start(c, kind, m) ==
    /\ ~Under(c)
    /\ Asked
    /\ call' = [call EXCEPT ![c] =
                  [kind |-> kind, move |-> m, state |-> "sent",
                   answer |-> [at |-> m.previous, version |-> m.version]]]

-----------------------------------------------------------------------------
\* saveBuildingPosition and its siblings, when a pin was dragged away
\* to x. An anchored location leaves its building.
Drag(c, p, x) ==
    /\ x \notin Anchors
    /\ x # local[p].at
    /\ Start(c, "drag", [pin |-> p, previous |-> local[p].at, current |-> x,
                         version |-> local[p].version])
    /\ UNCHANGED <<past, local, own, stacks, undoing, touched>>

\* Mutant of Undo: the version is that of the pin, not that of the move.
UndoShownVersion(c) ==
    LET m == Last(undoStack) IN
    /\ undoStack # <<>>
    /\ Start(c, "undo", [m EXCEPT !.version = local[m.pin].version])
    /\ undoing' = m.pin
    /\ UNCHANGED <<past, local, own, stacks, touched>>

\* undoLastMove, redoMoveBranch, up to the PATCH
Undo(c) ==
    LET m == Last(undoStack) IN
    /\ undoStack # <<>>
    /\ Start(c, "undo", m)
    /\ undoing' = m.pin
    /\ UNCHANGED <<past, local, own, stacks, touched>>

Redo(c) ==
    LET m == Last(redoStack) IN
    /\ redoStack # <<>>
    /\ Start(c, "redo", m)
    /\ undoing' = m.pin
    /\ UNCHANGED <<past, local, own, stacks, touched>>

-----------------------------------------------------------------------------
(* The server: updateBuilding and its siblings *)

Answered(c, state, position) ==
    call' = [call EXCEPT ![c] = [@ EXCEPT !.state = state,
                                          !.answer = position]]

At(c, state) == Under(c) /\ call[c].state = state

\* The row is still at the expected version and is written.
Serve(c) ==
    LET x == call[c]
        p == x.move.pin IN
    /\ At(c, "sent")
    /\ x.move.version = Version(p)
    /\ past' = [past EXCEPT ![p] = Append(@, Sent(x))]
    /\ Answered(c, "written", [at |-> Sent(x), version |-> Version(p) + 1])
    /\ UNCHANGED <<local, own, stacks, undoing, touched, asks>>

\* getEventById, after the commit or when the row was not at the version
\* expected: the row of the event, with its version ...
ReadEvent(c) ==
    LET x == call[c]
        p == x.move.pin IN
    /\ Under(c) /\ p \in Events
    /\ \/ At(c, "written")
          /\ Answered(c, "reread", [x.answer EXCEPT !.version = Version(p)])
       \/ At(c, "sent") /\ x.move.version # Version(p)
          /\ Answered(c, "refused", [x.answer EXCEPT !.version = Version(p)])
    /\ UNCHANGED <<past, local, own, stacks, undoing, touched, asks>>

\* ... and then its locations, as they are by then.
ReadLocations(p, answer) == [answer EXCEPT !.at = Latest(p).at]

\* The answer: RETURNING, or the event. It is an error if a later statement
\* fails, or never arrives.
Reply(c) ==
    LET x == call[c]
        p == x.move.pin IN
    /\ Under(c) /\ At(c, IF p \in Events THEN "reread" ELSE "written")
    /\ \/ /\ Answered(c, "saved", IF p \in Events
                                  THEN ReadLocations(p, x.answer) ELSE x.answer)
          /\ UNCHANGED touched
       \/ /\ Answered(c, "failed", x.answer)
          /\ touched' = touched \union {p}
    /\ UNCHANGED <<past, local, own, stacks, undoing, asks>>

\* EditConflictError, with the row as it is, or the event.
Conflict(c) ==
    LET x == call[c]
        p == x.move.pin IN
    /\ Under(c)
    /\ IF p \in Events
       THEN At(c, "refused")
            /\ Answered(c, "conflict", ReadLocations(p, x.answer))
       ELSE At(c, "sent") /\ x.move.version # Version(p)
            /\ Answered(c, "conflict", Latest(p))
    /\ UNCHANGED <<past, local, own, stacks, undoing, touched, asks>>

\* The session has ended, a statement before the write fails, the row is gone.
Break(c) ==
    /\ At(c, "sent") \/ At(c, "refused")
    /\ Answered(c, "failed", call[c].answer)
    /\ UNCHANGED <<past, local, own, stacks, undoing, touched, asks>>

\* Another editor saves the row, moving the pin or not.
EditorSaves(p, x) ==
    /\ x \in Anchors => p \in Events
    /\ Asked
    /\ past' = [past EXCEPT ![p] = Append(@, x)]
    /\ touched' = touched \union {p}
    /\ UNCHANGED <<local, own, stacks, undoing, call>>

-----------------------------------------------------------------------------
(* The tab, when an answer has come *)

\* Mutant of SetLocalPosition: the version is not taken over.
SetLocalPlace(p, position) ==
    /\ local' = [local EXCEPT ![p].at = position.at]
    /\ own' = own \union {p}

\* setLocalPosition, whose override hides what is fetched later, and
\* setLocalEvent
SetLocalPosition(p, position) ==
    /\ local' = [local EXCEPT ![p] = position]
    /\ own' = own \union {p}

Done(c) == call' = [call EXCEPT ![c] = Idle]

\* finally
Release(p) == undoing' = IF undoing = p THEN None ELSE undoing

\* The tab loses track of a pin by an answer that comes when the row has been
\* written again, or otherwise.
LosesTrack(c, otherwise) ==
    LET p == call[c].move.pin IN
    touched' = IF otherwise \/ call[c].answer.version # Version(p)
               THEN touched \union {p} ELSE touched

\* recordMapMove. An older move of the pin on the stack has a version that is
\* past.
DragSaved(c) ==
    LET x == call[c]
        p == x.move.pin IN
    /\ At(c, "saved") /\ x.kind = "drag"
    /\ SetLocalPosition(p, x.answer)
    /\ undoStack' =
          Append(undoStack, [x.move EXCEPT !.version = x.answer.version])
    /\ redoStack' = <<>>
    /\ LosesTrack(c, \E m \in ToSet(undoStack) : m.pin = p)
    /\ Done(c)
    /\ UNCHANGED <<past, undoing, asks>>

\* Mutant of UndoSaved: the move keeps the version it had.
UndoSavedOldVersion(c) ==
    LET x == call[c]
        p == x.move.pin IN
    /\ At(c, "saved") /\ x.kind = "undo"
    /\ SetLocalPosition(p, x.answer)
    /\ undoStack' = Front(undoStack)
    /\ redoStack' = Append(redoStack, x.move)
    /\ LosesTrack(c, ~Top(undoStack, x.move))
    /\ Release(p)
    /\ Done(c)
    /\ UNCHANGED <<past, asks>>

\* completeMapMoveUndo: the last move is dropped, whichever it is by now.
UndoSaved(c) ==
    LET x == call[c]
        p == x.move.pin IN
    /\ At(c, "saved") /\ x.kind = "undo"
    /\ SetLocalPosition(p, x.answer)
    /\ undoStack' = Front(undoStack)
    /\ redoStack' =
          Append(redoStack, [x.move EXCEPT !.version = x.answer.version])
    /\ LosesTrack(c, ~Top(undoStack, x.move))
    /\ Release(p)
    /\ Done(c)
    /\ UNCHANGED <<past, asks>>

\* completeMapMoveRedo
RedoSaved(c) ==
    LET x == call[c]
        p == x.move.pin IN
    /\ At(c, "saved") /\ x.kind = "redo"
    /\ SetLocalPosition(p, x.answer)
    /\ undoStack' =
          Append(undoStack, [x.move EXCEPT !.version = x.answer.version])
    /\ redoStack' = Front(redoStack)
    /\ LosesTrack(c, \/ ~Top(redoStack, x.move)
                     \/ \E m \in ToSet(undoStack) : m.pin = p)
    /\ Release(p)
    /\ Done(c)
    /\ UNCHANGED <<past, asks>>

\* The map shows what the other editor saved; the stacks stay.
Conflicted(c) ==
    LET p == call[c].move.pin IN
    /\ At(c, "conflict")
    /\ SetLocalPosition(p, call[c].answer)
    /\ Release(p)
    /\ Done(c)
    /\ UNCHANGED <<past, stacks, touched, asks>>

\* Mutant of Failed: the buttons stay disabled.
FailedKeepsButtons(c) ==
    /\ At(c, "failed")
    /\ UNCHANGED <<local, own, undoing>>
    /\ Done(c)
    /\ UNCHANGED <<past, stacks, touched, asks>>

\* A dragged pin goes back to where it was dragged from.
Failed(c) ==
    LET m == call[c].move IN
    /\ At(c, "failed")
    /\ IF call[c].kind = "drag"
       THEN SetLocalPosition(m.pin, [at |-> m.previous, version |-> m.version])
            /\ UNCHANGED undoing
       ELSE Release(m.pin) /\ UNCHANGED <<local, own>>
    /\ Done(c)
    /\ UNCHANGED <<past, stacks, touched, asks>>

\* Rows are fetched again, perhaps as they were some time ago. They count for
\* events, whose locations are read after their versions, and without an
\* override.
Refresh(p) ==
    /\ Asked
    /\ p \in Events \/ p \notin own
    /\ \E v \in 1 .. Version(p) :
          \E w \in v .. LastRead(p, v) :
             local' = [local EXCEPT ![p] = [at |-> past[p][w], version |-> v]]
    /\ UNCHANGED <<past, own, stacks, undoing, call, touched>>

-----------------------------------------------------------------------------
Init ==
    /\ \E start \in [Pins -> Places] :
          /\ \A p \in Pins : start[p] \in Anchors => p \in Events
          /\ past = [p \in Pins |-> <<start[p]>>]
          /\ local = [p \in Pins |-> [at |-> start[p], version |-> 1]]
    /\ own = {}
    /\ undoStack = <<>> /\ redoStack = <<>>
    /\ undoing = None
    /\ call = [c \in Calls |-> Idle]
    /\ touched = {}
    /\ asks = 0

Ask ==
    \/ \E c \in Calls : \/ \E p \in Pins, x \in Places : Drag(c, p, x)
                        \/ Undo(c) \/ Redo(c)
    \/ \E p \in Pins, x \in Places : EditorSaves(p, x)
    \/ \E p \in Pins : Refresh(p)

Answer(c) == Serve(c) \/ ReadEvent(c) \/ Reply(c) \/ Conflict(c) \/ Break(c)

Return(c) ==
    DragSaved(c) \/ UndoSaved(c) \/ RedoSaved(c) \/ Conflicted(c) \/ Failed(c)

Next == Ask \/ \E c \in Calls : Answer(c) \/ Return(c)

\* A PATCH ends, if only in an error.
Fairness == \A c \in Calls : WF_vars(Answer(c) \/ Return(c))

Spec == Init /\ [][Next]_vars /\ Fairness

-----------------------------------------------------------------------------
\* The rows, what the map shows, stacks and calls are readable.
TypeOK ==
    /\ past \in [Pins -> Seq(Places)]
    /\ \A p \in Pins : past[p] # <<>>
    /\ local \in [Pins -> Position]
    /\ own \subseteq Pins
    /\ undoStack \in Seq(Move) /\ redoStack \in Seq(Move)
    /\ undoing \in Pins \union {None}
    /\ call \in [Calls -> Call \union {Idle}]
    /\ touched \subseteq Pins
    /\ asks \in Nat

\* Version v of pin p was at x.
Was(p, x, v) == v \in 1 .. Version(p) /\ past[p][v] = x

\* Pin p was at x at version v; or, if it is an event's, at v or later.
Read(p, x, v) ==
    v \in 1 .. Version(p) /\ \E w \in v .. LastRead(p, v) : Was(p, x, w)

\* The position the tab knows for a pin is that of the version it knows:
\* "Undo/redo failures ... do not leave the marker in a misleading position".
\* That of an event may be of a later version, as locations are read after
\* versions, never of an older one. So a drag whose version is still the row's
\* says truly what it is made from, whatever the order of answers.
LocalTrue == \A p \in Pins : Read(p, local[p].at, local[p].version)

\* The versions on the stacks are those of what the moves left behind, also of
\* a move that a race left on a stack it should have gone from. Not so for
\* events, where the version may be that of a later save.
StacksTrue ==
    /\ \A m \in ToSet(undoStack) :
          m.pin \in Events \/ Was(m.pin, m.current, m.version)
    /\ \A m \in ToSet(redoStack) :
          m.pin \in Events \/ Was(m.pin, m.previous, m.version)

\* So are those of the calls,
CallTrue(x) ==
    LET m == x.move
        from == IF x.kind = "undo" THEN m.current ELSE m.previous IN
    /\ x.kind = "drag" \/ m.pin \notin Events => Read(m.pin, from, m.version)
    /\ x.state \in {"written", "saved", "conflict"} =>
          Read(m.pin, x.answer.at, x.answer.version)
    /\ x.state \in {"reread", "refused"} =>
          x.answer.version \in 1 .. Version(m.pin)
    /\ x.state \in {"written", "saved"} /\ m.pin \notin Events =>
          x.answer.at = Sent(x)

CallsTrue == \A c \in Calls : Under(c) => CallTrue(call[c])

\* Together: whatever the tab keeps of a pin is true of the row, or of an event
\* no older than the version it comes with, in any order of drags, undos, answers
\* and failures.
Truthful == TypeOK /\ LocalTrue /\ StacksTrue /\ CallsTrue

On(stack, p) == \E i \in 1 .. Len(stack) : stack[i].pin = p

OnceOn(stack, p) ==
    \A i, j \in 1 .. Len(stack) : stack[i].pin = p /\ stack[j].pin = p => i = j

\* The stacks have one move of a pin together, unless the tab lost track of it.
OneEntry ==
    \A p \in Pins \ touched :
        /\ OnceOn(undoStack, p) /\ OnceOn(redoStack, p)
        /\ ~(On(undoStack, p) /\ On(redoStack, p))

\* Call c made pin p what it is, and has not returned.
Current(c, p) ==
    /\ Under(c) /\ call[c].move.pin = p
    /\ call[c].state \in {"written", "reread", "saved"}
    /\ call[c].answer.version = Version(p)

\* What the stacks have of a pin is up to date, or its update is under way.
Awaited ==
    \A m \in ToSet(undoStack) \union ToSet(redoStack) :
        \/ m.pin \in touched
        \/ m.version = Version(m.pin)
        \/ \E c \in Calls : Current(c, m.pin)

\* The inductive invariant, from which UndoExact and UndoReady follow.
IInv == Truthful /\ OneEntry /\ Awaited

\* An undo takes a pin from where its move left it to where it was before, a
\* redo the other way, a drag from where the tab knew it to be; never is
\* another editor's position overwritten, however late the PATCH, and whatever
\* the tab has recorded, shown or lost meanwhile ("Saving with a stale version
\* returns a conflict instead of overwriting another editor's change"). This
\* holds of drags of events too, though version and location are read apart: a
\* location newer than its version cannot be saved over. If it is anchored, it
\* leaves the building it was known to be at, wherever that is by now. Undo and
\* redo of events do not keep this.
UndoExact ==
    [][\A c \in Calls :
          LET m == call[c].move
              back == call[c].kind = "undo" IN
          Serve(c) /\ (m.pin \in Events => call[c].kind = "drag") =>
              /\ Latest(m.pin).at = IF back THEN m.current ELSE m.previous
              /\ Latest(m.pin)'.at = IF back THEN m.previous ELSE m.current
      ]_vars

\* Under way are no undo and no redo of the pin.
Settled(p) == \A c \in Calls : Under(c) => call[c].move.pin # p

\* "The Undo button restores the most recent saved pin move", "the Redo button
\* reapplies the most recently undone move": what is on the stacks can be undone
\* or redone, as its version is the row's. Not so for a pin that another editor
\* saved, that this tab moved again, or of which an answer got lost or came
\* when the row had been written again.
UndoReady ==
    \A m \in ToSet(undoStack) \union ToSet(redoStack) :
        m.pin \in touched \/ ~Settled(m.pin) \/ m.version = Version(m.pin)

\* The buttons of undo and redo come back, whatever becomes of the PATCHes and
\* however many of them overlap.
ButtonsReturn == []<>(undoing = None)
=============================================================================
