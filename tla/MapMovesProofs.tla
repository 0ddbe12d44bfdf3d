--------------------------- MODULE MapMovesProofs ---------------------------
(***************************************************************************)
(* TLAPS proofs about MapMoves, for any pins, places and numbers of calls. *)
(***************************************************************************)
EXTENDS MapMoves, SequenceTheorems, TLAPS

USE EventsAssumption, AnchorsAssumption, NoneAssumption, MaxAsksAssumption

-----------------------------------------------------------------------------
(* Stacks. *)

\* What a stack holds are moves, its last one is one of them.
LEMMA EntriesAre ==
    ASSUME NEW S, NEW stack \in Seq(S)
    PROVE  /\ ToSet(stack) \subseteq S
           /\ stack # <<>> => Last(stack) \in ToSet(stack)
BY DEF ToSet, Last

\* A push adds what is pushed and nothing else.
LEMMA Pushed ==
    ASSUME NEW S, NEW stack \in Seq(S), NEW m \in S
    PROVE  /\ Append(stack, m) \in Seq(S)
           /\ ToSet(Append(stack, m)) \subseteq ToSet(stack) \union {m}
BY DEF ToSet

\* A pop adds nothing.
LEMMA Popped ==
    ASSUME NEW S, NEW stack \in Seq(S)
    PROVE  /\ Front(stack) \in Seq(S)
           /\ ToSet(Front(stack)) \subseteq ToSet(stack)
<1>1. Len(stack) \in Nat /\ \A i \in 1 .. Len(stack) - 1 : stack[i] \in S
  OBVIOUS
<1>2. /\ Front(stack) \in Seq(S)
      /\ Len(Front(stack)) = IF 1 <= Len(stack) - 1 THEN Len(stack) - 1 ELSE 0
      /\ \A i \in 1 .. Len(stack) - 1 : Front(stack)[i] = stack[i]
  BY <1>1, SubSeqProperties DEF Front
<1>3. QED
  BY <1>1, <1>2 DEF ToSet

\* A push of a pin that is not there leaves every pin there once.
LEMMA PushedOnce ==
    ASSUME NEW stack \in Seq(Move), NEW m \in Move, NEW p
    PROVE  /\ OnceOn(stack, p) /\ (m.pin = p => ~On(stack, p)) =>
                 OnceOn(Append(stack, m), p)
           /\ On(Append(stack, m), p) => On(stack, p) \/ m.pin = p
<1>1. /\ Len(stack) \in Nat /\ Len(Append(stack, m)) = Len(stack) + 1
      /\ \A i \in 1 .. Len(stack) : Append(stack, m)[i] = stack[i]
      /\ Append(stack, m)[Len(stack) + 1] = m
  OBVIOUS
<1>2. QED
  BY <1>1 DEF OnceOn, On

\* A pop leaves every pin there once, but for that of the last move.
LEMMA PoppedOnce ==
    ASSUME NEW stack \in Seq(Move), NEW p, OnceOn(stack, p)
    PROVE  /\ OnceOn(Front(stack), p)
           /\ On(Front(stack), p) => On(stack, p)
           /\ stack # <<>> /\ Last(stack).pin = p => ~On(Front(stack), p)
<1>1. Len(stack) \in Nat /\ \A i \in 1 .. Len(stack) - 1 : stack[i] \in Move
  OBVIOUS
<1>2. /\ Len(Front(stack)) = IF 1 <= Len(stack) - 1 THEN Len(stack) - 1 ELSE 0
      /\ \A i \in 1 .. Len(stack) - 1 : Front(stack)[i] = stack[i]
  BY <1>1, SubSeqProperties DEF Front
<1>3. stack # <<>> => Len(stack) >= 1
  BY <1>1
<1>4. QED
  BY <1>1, <1>2, <1>3 DEF OnceOn, On, Last

-----------------------------------------------------------------------------
(* Rows. *)

\* The rows are kept, or one of them is written.
Written == past' = past
        \/ \E p \in Pins, x \in Places : past' = [past EXCEPT ![p] = Append(@, x)]

\* A row stays one, and what it was at a version it was for ever.
LEMMA PastKept ==
    ASSUME TypeOK, Written
    PROVE  /\ past' \in [Pins -> Seq(Places)]
           /\ \A p \in Pins : past'[p] # <<>>
           /\ \A p \in Pins : \A x, v : Was(p, x, v) => Was(p, x, v)'
<1>1. CASE past' = past
  BY <1>1 DEF TypeOK, Was, Version
<1>2. ASSUME NEW p \in Pins, NEW x \in Places,
             past' = [past EXCEPT ![p] = Append(@, x)]
      PROVE  /\ past' \in [Pins -> Seq(Places)]
             /\ \A q \in Pins : past'[q] # <<>>
             /\ \A q \in Pins : \A y, v : Was(q, y, v) => Was(q, y, v)'
  <2>1. past[p] \in Seq(Places) /\ past \in [Pins -> Seq(Places)]
    BY DEF TypeOK
  <2>2. /\ past'[p] = Append(past[p], x)
        /\ \A q \in Pins : q # p => past'[q] = past[q]
    BY <1>2, <2>1
  <2>3. /\ Len(Append(past[p], x)) = Len(past[p]) + 1
        /\ \A v \in 1 .. Len(past[p]) : Append(past[p], x)[v] = past[p][v]
    BY <2>1
  <2>4. past' \in [Pins -> Seq(Places)]
    BY <1>2, <2>1
  <2>5. \A q \in Pins : past'[q] # <<>>
    BY <2>1, <2>2, <2>3 DEF TypeOK
  <2>6. ASSUME NEW q \in Pins, NEW y, NEW v, Was(q, y, v)
        PROVE  Was(q, y, v)'
    <3>1. CASE q = p
      BY <3>1, <2>1, <2>2, <2>3, <2>6 DEF Was, Version
    <3>2. CASE q # p
      BY <3>2, <2>2, <2>6 DEF Was, Version
    <3>3. QED
      BY <3>1, <3>2
  <2>7. QED
    BY <2>4, <2>5, <2>6
<1>3. QED
  BY <1>1, <1>2 DEF Written

\* Versions are numbers and only grow.
LEMMA VersionsGrow ==
    ASSUME TypeOK, Written, NEW p \in Pins
    PROVE  Version(p) \in Nat /\ Version(p)' \in Nat /\ Version(p) <= Version(p)'
<1>1. past[p] \in Seq(Places) /\ past'[p] \in Seq(Places)
  BY PastKept DEF TypeOK
<1>2. Version(p) \in Nat /\ Version(p)' \in Nat
  BY <1>1 DEF Version
<1>3. CASE past' = past
  BY <1>2, <1>3 DEF Version
<1>4. ASSUME NEW q \in Pins, NEW x \in Places,
             past' = [past EXCEPT ![q] = Append(@, x)]
      PROVE  Version(p) <= Version(p)'
  <2>1. past'[p] = IF p = q THEN Append(past[p], x) ELSE past[p]
    BY <1>4 DEF TypeOK
  <2>2. QED
    BY <1>1, <1>2, <2>1 DEF Version
<1>5. QED
  BY <1>2, <1>3, <1>4 DEF Written

\* So what was read of a row stays so.
LEMMA ReadKept ==
    ASSUME TypeOK, Written
    PROVE  \A p \in Pins : \A x, v : Read(p, x, v) => Read(p, x, v)'
<1> SUFFICES ASSUME NEW p \in Pins, NEW x, NEW v, Read(p, x, v)
             PROVE  Read(p, x, v)'
  OBVIOUS
<1>1. v \in 1 .. Version(p) /\ v \in 1 .. Version(p)'
  BY VersionsGrow DEF Read
<1>2. PICK w \in v .. LastRead(p, v) : Was(p, x, w)
  BY DEF Read
<1>3. Was(p, x, w)' /\ w \in v .. LastRead(p, v)'
  BY <1>1, <1>2, PastKept, VersionsGrow DEF LastRead
<1>4. QED
  BY <1>1, <1>3 DEF Read

\* The row as it is is a position of a version it has; an event's is one that may
\* be read after any version it had.
LEMMA LatestRead ==
    ASSUME TypeOK, NEW p \in Pins
    PROVE  /\ Latest(p) \in Position
           /\ Read(p, Latest(p).at, Latest(p).version)
           /\ p \in Events =>
                 \A v \in 1 .. Version(p) : Read(p, Latest(p).at, v)
<1>1. past[p] \in Seq(Places) /\ past[p] # <<>>
  BY DEF TypeOK
<1>2. Len(past[p]) \in Nat \ {0} /\ past[p][Len(past[p])] \in Places
  BY <1>1
<1>3. Version(p) \in Nat \ {0} /\ Was(p, Latest(p).at, Version(p))
  BY <1>2 DEF Latest, Was, Version
<1>4. QED
  BY <1>2, <1>3 DEF Latest, Position, Read, LastRead, Version

\* What was read of a building or dorm it was at that version, and what was read
\* of any pin at its latest version it is.
LEMMA ReadExact ==
    ASSUME TypeOK, NEW p \in Pins, NEW x, NEW v, Read(p, x, v)
    PROVE  /\ v \in 1 .. Version(p)
           /\ p \notin Events => Was(p, x, v)
           /\ v = Version(p) => Latest(p).at = x
<1>1. PICK w \in v .. LastRead(p, v) : Was(p, x, w)
  BY DEF Read
<1>2. v \in 1 .. Version(p) /\ Version(p) \in Nat
  BY DEF Read, Version, TypeOK
<1>3. p \notin Events \/ v = Version(p) => w = v
  BY <1>1, <1>2 DEF LastRead
<1>4. QED
  BY <1>1, <1>2, <1>3 DEF Was, Latest

-----------------------------------------------------------------------------
(* What a step keeps of the invariant as long as rows are only written. *)

\* Moves on a stack of which each is true.
UndoTrue(m) == m.pin \in Events \/ Was(m.pin, m.current, m.version)
RedoTrue(m) == m.pin \in Events \/ Was(m.pin, m.previous, m.version)

LEMMA MovesKept ==
    ASSUME TypeOK, Written
    PROVE  /\ \A m \in Move : UndoTrue(m) => UndoTrue(m)'
           /\ \A m \in Move : RedoTrue(m) => RedoTrue(m)'
           /\ \A x \in Call : CallTrue(x) => CallTrue(x)'
<1>1. \A p \in Pins : \A x, v : Was(p, x, v) => Was(p, x, v)'
  BY PastKept
<1>5. \A p \in Pins : \A x, v : Read(p, x, v) => Read(p, x, v)'
  BY ReadKept
<1>6. \A p \in Pins : \A v \in 1 .. Version(p) : v \in 1 .. Version(p)'
  BY VersionsGrow
<1>2. \A m \in Move : m.pin \in Pins
  BY DEF Move
<1>3. \A x \in Call : x.move \in Move
  BY DEF Call
<1>4. QED
  <2>1. \A m \in Move : /\ UndoTrue(m) => UndoTrue(m)'
                        /\ RedoTrue(m) => RedoTrue(m)'
    BY <1>1, <1>2 DEF UndoTrue, RedoTrue
  <2>2. \A x \in Call : CallTrue(x) => CallTrue(x)'
    BY <1>2, <1>3, <1>5, <1>6 DEF CallTrue, Sent
  <2>3. QED
    BY <2>1, <2>2

\* One call changes.
LEMMA CallsKept ==
    ASSUME TypeOK, CallsTrue, Written, NEW c \in Calls, NEW y,
           call' = [call EXCEPT ![c] = y],
           y = Idle \/ (y \in Call /\ CallTrue(y)')
    PROVE  call' \in [Calls -> Call \union {Idle}] /\ CallsTrue'
<1>0. \A d \in Calls : Under(d) => call[d] \in Call /\ CallTrue(call[d])
  BY DEF TypeOK, CallsTrue, Under
<1>1. /\ call \in [Calls -> Call \union {Idle}]
      /\ \A d \in Calls : d # c => call'[d] = call[d]
      /\ call'[c] = y
  BY DEF TypeOK
<1>2. ASSUME NEW d \in Calls, call'[d] # Idle
      PROVE  CallTrue(call[d])'
  <2>1. CASE d = c
    BY <2>1, <1>1, <1>2 DEF CallTrue, Read, LastRead, Was, Version, Sent
  <2>2. CASE d # c
    <3> PICK z : z = call[d]
      OBVIOUS
    <3>1. call'[d] = z /\ z \in Call /\ CallTrue(z)
      BY <2>2, <1>0, <1>1, <1>2 DEF Under
    <3>2. CallTrue(z)'
      BY <3>1, MovesKept
    <3>3. QED
      BY <3>1, <3>2 DEF CallTrue, Read, LastRead, Was, Version, Sent
  <2>3. QED
    BY <2>1, <2>2
<1>3. QED
  BY <1>1, <1>2 DEF CallsTrue, Under

\* No call changes.
LEMMA CallsSame ==
    ASSUME TypeOK, CallsTrue, Written, UNCHANGED call
    PROVE  CallsTrue'
BY MovesKept DEF TypeOK, CallsTrue, Under

\* The stacks hold what they held, and perhaps a true move.
LEMMA StacksKept ==
    ASSUME TypeOK, StacksTrue, Written,
           undoStack' \in Seq(Move), redoStack' \in Seq(Move),
           \A m \in ToSet(undoStack)' \ ToSet(undoStack) : UndoTrue(m)',
           \A m \in ToSet(redoStack)' \ ToSet(redoStack) : RedoTrue(m)'
    PROVE  StacksTrue'
<1>1. ToSet(undoStack) \subseteq Move /\ ToSet(redoStack) \subseteq Move
  BY EntriesAre DEF TypeOK
<1>2. /\ \A m \in ToSet(undoStack) : UndoTrue(m)'
      /\ \A m \in ToSet(redoStack) : RedoTrue(m)'
  BY <1>1, MovesKept DEF StacksTrue, UndoTrue, RedoTrue
<1>3. QED
  BY <1>2 DEF StacksTrue, UndoTrue, RedoTrue

\* The tab knows what it knew, or learns of a position a pin had.
LEMMA LocalKept ==
    ASSUME TypeOK, LocalTrue, Written, NEW p \in Pins, NEW position \in Position,
           Read(p, position.at, position.version)',
           local' = [local EXCEPT ![p] = position]
    PROVE  local' \in [Pins -> Position] /\ LocalTrue'
<1>1. /\ local \in [Pins -> Position]
      /\ local'[p] = position
      /\ \A q \in Pins : q # p => local'[q] = local[q]
  BY DEF TypeOK
<1>2. \A q \in Pins : Read(q, local[q].at, local[q].version)'
                   \/ local'[q] # local[q]
  BY ReadKept DEF LocalTrue
<1>3. QED
  BY <1>1, <1>2 DEF LocalTrue

LEMMA LocalSame ==
    ASSUME TypeOK, LocalTrue, Written, UNCHANGED local
    PROVE  LocalTrue'
BY ReadKept DEF LocalTrue

-----------------------------------------------------------------------------
(* The steps. *)

\* The tab asks for a move that is true of its rows.
LEMMA StartSteps ==
    ASSUME Truthful, NEW c \in Calls, NEW m \in Move,
           NEW kind \in {"drag", "undo", "redo"},
           IF kind = "undo" THEN UndoTrue(m) ELSE RedoTrue(m),
           kind = "drag" => Read(m.pin, m.previous, m.version),
           Start(c, kind, m), UNCHANGED past
    PROVE  /\ call' \in [Calls -> Call \union {Idle}]
           /\ CallsTrue'
           /\ asks' \in Nat
<1> PICK y : y = [kind |-> kind, move |-> m, state |-> "sent",
                  answer |-> [at |-> m.previous, version |-> m.version]]
  OBVIOUS
<1>1. TypeOK /\ CallsTrue /\ Written
  BY DEF Truthful, Written
<1>2. call' = [call EXCEPT ![c] = y] /\ asks' = asks + 1
  BY DEF Start, Asked
<1>3. y \in Call
  BY DEF Call, Position, Move
<1>4. CallTrue(y)
  <2>1. m.pin \in Pins
    BY DEF Move
  <2>2. ASSUME kind # "drag", m.pin \notin Events
        PROVE  Read(m.pin, IF kind = "undo" THEN m.current ELSE m.previous,
                    m.version)
    BY <2>2 DEF UndoTrue, RedoTrue, Read, LastRead, Was
  <2>3. QED
    BY <2>2 DEF CallTrue
<1>5. CallTrue(y)'
  BY <1>1, <1>3, <1>4, MovesKept DEF CallTrue, Read, LastRead, Was, Version, Sent
<1>6. call' \in [Calls -> Call \union {Idle}] /\ CallsTrue'
  BY <1>1, <1>2, <1>3, <1>5, CallsKept
<1>7. asks' \in Nat
  BY <1>1, <1>2 DEF TypeOK
<1>8. QED
  BY <1>6, <1>7

\* A call under way is one, and true.
LEMMA CallUnder ==
    ASSUME Truthful, NEW c \in Calls, Under(c)
    PROVE  /\ call[c] \in Call /\ CallTrue(call[c])
           /\ call[c].move \in Move /\ call[c].answer \in Position
           /\ call[c].move.pin \in Pins /\ Sent(call[c]) \in Places
<1>1. call[c] \in Call /\ CallTrue(call[c])
  BY DEF Truthful, TypeOK, CallsTrue, Under
<1>2. QED
  BY <1>1 DEF Call, Move, Sent

\* The server answers.
LEMMA AnswerSteps ==
    ASSUME Truthful, NEW c \in Calls, Answer(c)
    PROVE  Truthful'
<1> PICK x : x = call[c]
  OBVIOUS
<1> DEFINE p == x.move.pin
           After(state, position) == [x EXCEPT !.state = state,
                                               !.answer = position]
<1>0. Under(c) /\ TypeOK /\ LocalTrue /\ StacksTrue /\ CallsTrue
  BY DEF Answer, Serve, ReadEvent, Reply, Conflict, Break, At, Truthful
<1>1. /\ x \in Call /\ CallTrue(x) /\ p \in Pins /\ Sent(x) \in Places
      /\ x.move \in Move /\ x.answer \in Position
  BY <1>0, CallUnder
<1>2. /\ UNCHANGED <<local, own, stacks, undoing, asks>>
      /\ touched' = touched \/ touched' = touched \union {p}
  BY DEF Answer, Serve, ReadEvent, Reply, Conflict, Break
<1>3. Written
  BY <1>1 DEF Answer, Serve, ReadEvent, Reply, Conflict, Break, Written
<1>4. call' \in [Calls -> Call \union {Idle}] /\ CallsTrue'
  <2>1. ASSUME NEW state \in {"written", "reread", "refused", "saved",
                              "conflict", "failed"},
               NEW position \in Position,
               Answered(c, state, position),
               state \in {"written", "saved", "conflict"} =>
                  Read(p, position.at, position.version)',
               state \in {"reread", "refused"} =>
                  position.version \in 1 .. Version(p)',
               state \in {"written", "saved"} /\ p \notin Events =>
                  position.at = Sent(x)
        PROVE  call' \in [Calls -> Call \union {Idle}] /\ CallsTrue'
    <3> DEFINE y == After(state, position)
    <3>1. call' = [call EXCEPT ![c] = y]
      BY <2>1 DEF Answered
    <3>2. /\ y \in Call
          /\ y.kind = x.kind /\ y.move = x.move
          /\ y.state = state /\ y.answer = position
      BY <1>1 DEF Call
    <3>3. LET from == IF x.kind = "undo" THEN x.move.current
                                         ELSE x.move.previous IN
          x.kind = "drag" \/ p \notin Events => Read(p, from, x.move.version)'
      BY <1>0, <1>1, <1>3, ReadKept DEF CallTrue
    <3>5. \A z \in Call : z.kind = x.kind /\ z.move = x.move
              /\ z.state = state /\ z.answer = position => CallTrue(z)'
      BY <2>1, <3>3 DEF CallTrue, Sent, Read, LastRead, Was, Version
    <3>6. QED
      BY <1>0, <1>3, <3>1, <3>2, <3>5, CallsKept
  <2>0. ASSUME past' = past, NEW y, NEW v
        PROVE  /\ Read(p, y, v)' <=> Read(p, y, v)
               /\ Version(p)' = Version(p)
    BY <2>0 DEF Read, LastRead, Was, Version
  <2>2. CASE Serve(c)
    <3> PICK q : q = [at |-> Sent(x), version |-> Version(p) + 1]
      OBVIOUS
    <3>1. past' = [past EXCEPT ![p] = Append(@, Sent(x))] /\ past[p] \in Seq(Places)
      BY <2>2, <1>0, <1>1 DEF Serve, TypeOK
    <3>2. /\ past'[p] = Append(past[p], Sent(x))
          /\ Version(p)' = Version(p) + 1 /\ Version(p) \in Nat
      BY <1>0, <1>1, <3>1 DEF TypeOK, Version
    <3>3. q \in Position /\ Was(p, q.at, q.version)'
      BY <1>1, <3>1, <3>2 DEF Position, Version, Was
    <3>7. q.version = Version(p)' /\ Version(p)' \in Nat \ {0}
      BY <3>2
    <3>8. q.version \in q.version .. LastRead(p, q.version)'
      BY <3>7 DEF LastRead
    <3>4. Read(p, q.at, q.version)'
      BY <3>3, <3>7, <3>8 DEF Read
    <3>5. Answered(c, "written", q) /\ q.at = Sent(x)
      BY <2>2 DEF Serve
    <3>6. QED
      BY <2>1, <3>3, <3>4, <3>5
  <2>7. Version(p) \in Nat \ {0} /\ 1 .. Version(p) \subseteq Nat
    BY <1>0, <1>1 DEF Version, TypeOK
  <2>8. CASE ReadEvent(c)
    <3> PICK q : q = [x.answer EXCEPT !.version = Version(p)]
      OBVIOUS
    <3>1. q \in Position /\ q.version = Version(p) /\ past' = past
      BY <1>1, <2>7, <2>8 DEF Position, ReadEvent
    <3>2. q.version \in 1 .. Version(p)'
      BY <2>0, <2>7, <3>1
    <3>3. Answered(c, "reread", q) \/ Answered(c, "refused", q)
      BY <2>8 DEF ReadEvent
    <3>4. QED
      BY <2>1, <3>1, <3>2, <3>3
  \* The locations are read later than the version.
  <2>9. ASSUME p \in Events, x.state \in {"reread", "refused"}
        PROVE  /\ ReadLocations(p, x.answer) \in Position
               /\ ReadLocations(p, x.answer).version = x.answer.version
               /\ Read(p, ReadLocations(p, x.answer).at, x.answer.version)
    <3>1. Latest(p) \in Position
          /\ \A v \in 1 .. Version(p) : Read(p, Latest(p).at, v)
      BY <1>0, <1>1, <2>9, LatestRead
    <3>2. x.answer.version \in 1 .. Version(p)
      BY <1>1, <2>9 DEF CallTrue
    <3>3. QED
      BY <1>1, <3>1, <3>2 DEF ReadLocations, Position
  <2>3. CASE Reply(c)
    <3>1. past' = past /\ x.state = IF p \in Events THEN "reread" ELSE "written"
      BY <2>3 DEF Reply, At
    <3> PICK q : q = IF p \in Events THEN ReadLocations(p, x.answer) ELSE x.answer
      OBVIOUS
    <3>2. q \in Position /\ Read(p, q.at, q.version)
          /\ (p \notin Events => q.at = Sent(x))
      BY <1>1, <2>9, <3>1 DEF CallTrue
    <3>3. Read(p, q.at, q.version)'
      BY <2>0, <3>1, <3>2
    <3>4. CASE Answered(c, "failed", x.answer)
      BY <2>1, <3>4, <1>1
    <3>5. CASE Answered(c, "saved", q)
      BY <2>1, <3>2, <3>3, <3>5
    <3>6. QED
      BY <2>3, <3>4, <3>5 DEF Reply
  <2>4. CASE Conflict(c)
    <3>1. past' = past
      BY <2>4 DEF Conflict
    <3> PICK q : q = IF p \in Events THEN ReadLocations(p, x.answer)
                                     ELSE Latest(p)
      OBVIOUS
    <3>2. Answered(c, "conflict", q) /\ (p \in Events => x.state = "refused")
      BY <2>4 DEF Conflict, At
    <3>3. q \in Position /\ Read(p, q.at, q.version)
      BY <1>0, <1>1, <2>9, <3>2, LatestRead
    <3>4. Read(p, q.at, q.version)'
      BY <2>0, <3>1, <3>3
    <3>5. QED
      BY <2>1, <3>2, <3>3, <3>4
  <2>5. CASE Break(c)
    BY <2>1, <2>5, <1>1 DEF Break
  <2>6. QED
    BY <2>2, <2>3, <2>4, <2>5, <2>8 DEF Answer
<1>5. LocalTrue'
  BY <1>0, <1>2, <1>3, LocalSame
<1>6. StacksTrue'
  BY <1>0, <1>2, <1>3, StacksKept DEF stacks, TypeOK
<1>7. TypeOK'
  BY <1>0, <1>1, <1>2, <1>3, <1>4, PastKept DEF TypeOK, stacks
<1>8. QED
  BY <1>4, <1>5, <1>6, <1>7 DEF Truthful

\* An answer is dealt with: at most a position a pin had is shown, and at most a
\* true move is pushed.
LEMMA ReturnSteps ==
    ASSUME Truthful, NEW c \in Calls, Return(c)
    PROVE  Truthful'
<1> PICK x : x = call[c]
  OBVIOUS
<1> DEFINE p == x.move.pin
<1>0. Under(c) /\ TypeOK /\ LocalTrue /\ StacksTrue /\ CallsTrue
  BY DEF Return, DragSaved, UndoSaved, RedoSaved, Conflicted, Failed, At, Truthful
<1>1. /\ x \in Call /\ CallTrue(x) /\ p \in Pins /\ Sent(x) \in Places
      /\ x.move \in Move /\ x.answer \in Position
  BY <1>0, CallUnder
<1>2. /\ past' = past /\ Done(c) /\ asks' = asks
      /\ touched' \in {touched, touched \union {p}}
  BY DEF Return, DragSaved, UndoSaved, RedoSaved, Conflicted, Failed, LosesTrack
<1>3. Written
  BY <1>2 DEF Written
<1>4. call' \in [Calls -> Call \union {Idle}] /\ CallsTrue'
  BY <1>0, <1>2, <1>3, CallsKept DEF Done
<1>5. undoing' \in Pins \union {None}
  BY <1>0, <1>1 DEF Return, DragSaved, UndoSaved, RedoSaved, Conflicted, Failed,
                    Release, TypeOK
<1>6. own' \subseteq Pins
  BY <1>0, <1>1 DEF Return, DragSaved, UndoSaved, RedoSaved, Conflicted, Failed,
                    SetLocalPosition, TypeOK
<1>7. local' \in [Pins -> Position] /\ LocalTrue'
  <2>1. \A q \in Position : Read(p, q.at, q.version) => Read(p, q.at, q.version)'
    BY <1>0, <1>1, <1>3, ReadKept
  <2>2. ASSUME NEW q \in Position, Read(p, q.at, q.version),
               local' = [local EXCEPT ![p] = q]
        PROVE  local' \in [Pins -> Position] /\ LocalTrue'
    BY <1>0, <1>1, <1>3, <2>1, <2>2, LocalKept
  <2>3. CASE x.state \in {"saved", "conflict"} /\ SetLocalPosition(p, x.answer)
    <3>1. Read(p, x.answer.at, x.answer.version)
      BY <1>1, <2>3 DEF CallTrue
    <3>2. QED
      BY <1>1, <2>2, <2>3, <3>1 DEF SetLocalPosition
  <2>4. CASE /\ x.kind = "drag"
             /\ SetLocalPosition(p, [at |-> x.move.previous,
                                     version |-> x.move.version])
    <3> PICK q : q = [at |-> x.move.previous, version |-> x.move.version]
      OBVIOUS
    <3>1. q \in Position /\ Read(p, q.at, q.version)
      BY <1>1, <2>4 DEF CallTrue, Move, Position
    <3>2. QED
      BY <2>2, <2>4, <3>1 DEF SetLocalPosition
  <2>5. CASE UNCHANGED local
    BY <1>0, <1>3, <2>5, LocalSame DEF TypeOK
  <2>6. QED
    BY <2>3, <2>4, <2>5 DEF Return, DragSaved, UndoSaved, RedoSaved, Conflicted,
                            Failed, At
<1>8. undoStack' \in Seq(Move) /\ redoStack' \in Seq(Move) /\ StacksTrue'
  <2> PICK m : m = [x.move EXCEPT !.version = x.answer.version]
    OBVIOUS
  <2>1. /\ m \in Move
        /\ m.pin = p /\ m.version = x.answer.version
        /\ m.previous = x.move.previous /\ m.current = x.move.current
    BY <1>1 DEF Move, Position
  <2>2. x.state = "saved" =>
           IF x.kind = "undo" THEN RedoTrue(m) ELSE UndoTrue(m)
    <3>1. x.state = "saved" =>
             p \in Events \/ Was(p, Sent(x), x.answer.version)
      BY <1>0, <1>1, ReadExact DEF CallTrue
    <3>2. QED
      BY <2>1, <3>1 DEF Sent, UndoTrue, RedoTrue
  <2>3. /\ UndoTrue(m) => UndoTrue(m)'
        /\ RedoTrue(m) => RedoTrue(m)'
    BY <1>0, <1>3, <2>1, MovesKept
  <2>4. undoStack \in Seq(Move) /\ redoStack \in Seq(Move)
    BY <1>0 DEF TypeOK
  <2>5. ASSUME undoStack' \in Seq(Move), redoStack' \in Seq(Move),
               ToSet(undoStack') \subseteq ToSet(undoStack)
                  \/ /\ ToSet(undoStack') \subseteq ToSet(undoStack) \union {m}
                     /\ UndoTrue(m),
               ToSet(redoStack') \subseteq ToSet(redoStack)
                  \/ /\ ToSet(redoStack') \subseteq ToSet(redoStack) \union {m}
                     /\ RedoTrue(m)
        PROVE  undoStack' \in Seq(Move) /\ redoStack' \in Seq(Move) /\ StacksTrue'
    <3>1. /\ \A n \in ToSet(undoStack)' \ ToSet(undoStack) : UndoTrue(n)'
          /\ \A n \in ToSet(redoStack)' \ ToSet(redoStack) : RedoTrue(n)'
      BY <2>3, <2>5
    <3>2. QED
      BY <1>0, <1>3, <2>5, <3>1, StacksKept
  <2>6. ASSUME NEW stack \in Seq(Move)
        PROVE  /\ Front(stack) \in Seq(Move)
               /\ ToSet(Front(stack)) \subseteq ToSet(stack)
               /\ Append(stack, m) \in Seq(Move)
               /\ ToSet(Append(stack, m)) \subseteq ToSet(stack) \union {m}
    BY <2>1, Popped, Pushed
  <2>7. CASE DragSaved(c)
    <3>1. /\ undoStack' = Append(undoStack, m) /\ redoStack' = <<>>
          /\ x.state = "saved" /\ x.kind = "drag"
      BY <2>7 DEF DragSaved, At
    <3>2. redoStack' \in Seq(Move) /\ ToSet(redoStack') = {}
      BY <3>1 DEF ToSet
    <3>3. QED
      BY <2>2, <2>4, <2>5, <2>6, <3>1, <3>2
  <2>8. CASE UndoSaved(c)
    <3>1. /\ undoStack' = Front(undoStack) /\ redoStack' = Append(redoStack, m)
          /\ x.state = "saved" /\ x.kind = "undo"
      BY <2>8 DEF UndoSaved, At
    <3>2. QED
      BY <2>2, <2>4, <2>5, <2>6, <3>1
  <2>9. CASE RedoSaved(c)
    <3>1. /\ undoStack' = Append(undoStack, m) /\ redoStack' = Front(redoStack)
          /\ x.state = "saved" /\ x.kind = "redo"
      BY <2>9 DEF RedoSaved, At
    <3>2. QED
      BY <2>2, <2>4, <2>5, <2>6, <3>1
  <2>10. CASE UNCHANGED stacks
    BY <2>4, <2>5, <2>10 DEF stacks
  <2>11. QED
    BY <2>7, <2>8, <2>9, <2>10 DEF Return, Conflicted, Failed
<1>9. TypeOK'
  BY <1>0, <1>1, <1>2, <1>3, <1>4, <1>5, <1>6, <1>7, <1>8, PastKept DEF TypeOK
<1>10. QED
  BY <1>4, <1>7, <1>8, <1>9 DEF Truthful

\* A drag, an undo or a redo is asked for; others save; rows are fetched.
LEMMA AskSteps ==
    ASSUME Truthful, Ask
    PROVE  Truthful'
<1>0. /\ TypeOK /\ LocalTrue /\ StacksTrue /\ CallsTrue
      /\ undoStack \in Seq(Move) /\ redoStack \in Seq(Move)
      /\ local \in [Pins -> Position]
  BY DEF Truthful, TypeOK
<1>1. ASSUME NEW c \in Calls, NEW m \in Move,
             NEW kind \in {"drag", "undo", "redo"},
             IF kind = "undo" THEN UndoTrue(m) ELSE RedoTrue(m),
             kind = "drag" => Read(m.pin, m.previous, m.version),
             Start(c, kind, m), undoing' \in Pins \union {None},
             UNCHANGED <<past, local, own, stacks, touched>>
      PROVE  Truthful'
  <2>1. /\ call' \in [Calls -> Call \union {Idle}] /\ CallsTrue'
        /\ asks' \in Nat
    BY <1>1, StartSteps
  <2>2. Written
    BY <1>1 DEF Written
  <2>3. LocalTrue' /\ StacksTrue'
    BY <1>0, <1>1, <2>2, LocalSame, StacksKept DEF stacks
  <2>4. TypeOK'
    BY <1>0, <1>1, <2>1 DEF TypeOK, stacks
  <2>5. QED
    BY <2>1, <2>3, <2>4 DEF Truthful
<1>2. ASSUME NEW c \in Calls, NEW p \in Pins, NEW at \in Places, Drag(c, p, at)
      PROVE  Truthful'
  <2> PICK m : m = [pin |-> p, previous |-> local[p].at, current |-> at,
                    version |-> local[p].version]
    OBVIOUS
  <2>1. m \in Move /\ Read(m.pin, m.previous, m.version)
    BY <1>0 DEF Move, Position, LocalTrue
  <2>2. /\ Start(c, "drag", m) /\ undoing' \in Pins \union {None}
        /\ UNCHANGED <<past, local, own, stacks, touched>>
    BY <1>0, <1>2 DEF Drag, TypeOK
  <2>3. m.pin \in Pins /\ RedoTrue(m)
    BY <1>0, <2>1, ReadExact DEF RedoTrue, Move
  <2>4. QED
    BY <1>1, <2>1, <2>2, <2>3
<1>3. ASSUME NEW c \in Calls, Undo(c)
      PROVE  Truthful'
  <2> PICK m : m = Last(undoStack)
    OBVIOUS
  <2>1. m \in ToSet(undoStack) /\ m \in Move
    BY <1>0, <1>3, EntriesAre DEF Undo
  <2>2. UndoTrue(m)
    BY <1>0, <2>1 DEF StacksTrue, UndoTrue
  <2>3. /\ Start(c, "undo", m) /\ undoing' \in Pins \union {None}
        /\ UNCHANGED <<past, local, own, stacks, touched>>
    BY <1>3, <2>1 DEF Undo, Move
  <2>4. QED
    BY <1>1, <2>1, <2>2, <2>3
<1>4. ASSUME NEW c \in Calls, Redo(c)
      PROVE  Truthful'
  <2> PICK m : m = Last(redoStack)
    OBVIOUS
  <2>1. m \in ToSet(redoStack) /\ m \in Move
    BY <1>0, <1>4, EntriesAre DEF Redo
  <2>2. RedoTrue(m)
    BY <1>0, <2>1 DEF StacksTrue, RedoTrue
  <2>3. /\ Start(c, "redo", m) /\ undoing' \in Pins \union {None}
        /\ UNCHANGED <<past, local, own, stacks, touched>>
    BY <1>4, <2>1 DEF Redo, Move
  <2>4. QED
    BY <1>1, <2>1, <2>2, <2>3
<1>5. ASSUME NEW p \in Pins, NEW at \in Places, EditorSaves(p, at)
      PROVE  Truthful'
  <2>0. past' = [past EXCEPT ![p] = Append(@, at)]
    BY <1>5 DEF EditorSaves
  <2>1. /\ Written /\ asks' \in Nat /\ touched' \subseteq Pins
        /\ UNCHANGED <<local, own, stacks, undoing, call>>
    <3>1. Written
      BY <2>0 DEF Written
    <3>2. asks' \in Nat /\ touched' \subseteq Pins
      BY <1>0, <1>5 DEF EditorSaves, Asked, TypeOK
    <3>3. QED
      BY <1>5, <3>1, <3>2 DEF EditorSaves
  <2>2. LocalTrue' /\ StacksTrue' /\ CallsTrue'
    BY <1>0, <2>1, LocalSame, StacksKept, CallsSame DEF stacks
  <2>3. TypeOK'
    BY <1>0, <2>1, PastKept DEF TypeOK, stacks
  <2>4. QED
    BY <2>2, <2>3 DEF Truthful
<1>6. ASSUME NEW p \in Pins, Refresh(p)
      PROVE  Truthful'
  <2>1. /\ Written /\ asks' \in Nat
        /\ UNCHANGED <<past, own, stacks, undoing, call, touched>>
    BY <1>0, <1>6 DEF Refresh, Written, Asked, TypeOK
  <2>a. PICK v \in 1 .. Version(p) : \E w \in v .. LastRead(p, v) :
           local' = [local EXCEPT ![p] = [at |-> past[p][w], version |-> v]]
    BY <1>6 DEF Refresh
  <2>2. PICK w \in v .. LastRead(p, v) :
           local' = [local EXCEPT ![p] = [at |-> past[p][w], version |-> v]]
    BY <2>a
  <2> PICK q : q = [at |-> past[p][w], version |-> v]
    OBVIOUS
  <2>3. past[p] \in Seq(Places) /\ w \in 1 .. Version(p)
    BY <1>0, <2>2 DEF TypeOK, Version, LastRead
  <2>4. q \in Position /\ Read(p, q.at, q.version)
    BY <2>2, <2>3 DEF Position, Version, Read, Was
  <2>5. Read(p, q.at, q.version)'
    BY <1>0, <2>1, <2>4, ReadKept
  <2>6. local' \in [Pins -> Position] /\ LocalTrue'
    BY <1>0, <2>1, <2>2, <2>4, <2>5, LocalKept
  <2>7. StacksTrue' /\ CallsTrue'
    BY <1>0, <2>1, StacksKept, CallsSame DEF stacks
  <2>8. TypeOK'
    BY <1>0, <2>1, <2>6 DEF TypeOK, stacks
  <2>9. QED
    BY <2>6, <2>7, <2>8 DEF Truthful
<1>7. QED
  BY <1>2, <1>3, <1>4, <1>5, <1>6 DEF Ask

-----------------------------------------------------------------------------
(* What can be undone. *)

\* Steps that leave the stacks alone, and of a pin either the row and the calls
\* that wrote it or nothing.
LEMMA ReadyKept ==
    ASSUME Truthful, OneEntry, Awaited, UNCHANGED stacks,
           touched \subseteq touched',
           \A p \in Pins \ touched' :
               \/ \E c \in Calls : Current(c, p)'
               \/ /\ Version(p)' = Version(p)
                  /\ \A c \in Calls : Current(c, p) => Current(c, p)'
    PROVE  OneEntry' /\ Awaited'
<1>1. OneEntry'
  BY DEF OneEntry, stacks
<1>2. Awaited'
  <2>0. ToSet(undoStack) \subseteq Move /\ ToSet(redoStack) \subseteq Move
    BY EntriesAre DEF Truthful, TypeOK
  <2>1. \A m \in ToSet(undoStack) \union ToSet(redoStack) : m.pin \in Pins
    BY <2>0 DEF Move
  <2>2. ASSUME NEW m \in ToSet(undoStack) \union ToSet(redoStack),
               m.pin \notin touched'
        PROVE  \/ m.version = Version(m.pin)'
               \/ \E c \in Calls : Current(c, m.pin)'
    BY <2>1, <2>2 DEF Awaited
  <2>3. QED
    BY <2>2 DEF Awaited, stacks, Current, Version, Under
<1>3. QED
  BY <1>1, <1>2

\* The tab or others ask, and the server answers.
LEMMA AskAnswerReady ==
    ASSUME Truthful, OneEntry, Awaited, Ask \/ \E c \in Calls : Answer(c)
    PROVE  OneEntry' /\ Awaited'
<1>0. TypeOK /\ past \in [Pins -> Seq(Places)] /\ call \in [Calls -> Call \union {Idle}]
  BY DEF Truthful, TypeOK
<1>1. ASSUME NEW c \in Calls, ~Under(c), UNCHANGED <<past, touched, stacks>>,
             \A d \in Calls : d # c => call'[d] = call[d]
      PROVE  OneEntry' /\ Awaited'
  <2>1. \A p \in Pins, d \in Calls : Current(d, p) => Current(d, p)'
    BY <1>1 DEF Current, Under, Version
  <2>2. QED
    BY <1>1, <2>1, ReadyKept DEF Version
<1>2. CASE Ask
  <2>1. CASE \E c \in Calls : \/ \E p \in Pins, at \in Places : Drag(c, p, at)
                             \/ Undo(c) \/ Redo(c)
    BY <2>1, <1>0, <1>1 DEF Drag, Undo, Redo, Start
  <2>2. ASSUME NEW p \in Pins, NEW at \in Places, EditorSaves(p, at)
        PROVE  OneEntry' /\ Awaited'
    <3>1. /\ past' = [past EXCEPT ![p] = Append(@, at)] /\ UNCHANGED <<call, stacks>>
          /\ touched' = touched \union {p}
      BY <2>2 DEF EditorSaves
    <3>2. \A q \in Pins \ touched' :
             /\ Version(q)' = Version(q)
             /\ \A c \in Calls : Current(c, q) => Current(c, q)'
      BY <1>0, <3>1 DEF Version, Current, Under
    <3>3. QED
      BY <3>1, <3>2, ReadyKept
  <2>3. ASSUME NEW p \in Pins, Refresh(p)
        PROVE  OneEntry' /\ Awaited'
    <3>1. UNCHANGED <<past, call, stacks, touched>>
      BY <2>3 DEF Refresh
    <3>2. \A q \in Pins :
             /\ Version(q)' = Version(q)
             /\ \A c \in Calls : Current(c, q) => Current(c, q)'
      BY <3>1 DEF Version, Current, Under
    <3>3. QED
      BY <3>1, <3>2, ReadyKept
  <2>4. QED
    BY <1>2, <2>1, <2>2, <2>3 DEF Ask
<1>3. ASSUME NEW c \in Calls, Answer(c)
      PROVE  OneEntry' /\ Awaited'
  <2> PICK x : x = call[c]
    OBVIOUS
  <2> DEFINE p == x.move.pin
  <2>0. Under(c)
    BY <1>3 DEF Answer, Serve, ReadEvent, Reply, Conflict, Break, At
  <2>1. x \in Call /\ p \in Pins /\ Sent(x) \in Places
    BY <2>0, CallUnder
  <2>2. ASSUME NEW state, NEW position, Answered(c, state, position)
        PROVE  /\ \A d \in Calls : d # c => call'[d] = call[d]
               /\ call'[c] = [x EXCEPT !.state = state, !.answer = position]
               /\ call'[c].move.pin = p /\ call'[c].state = state
               /\ call'[c].answer = position
    BY <1>0, <2>1, <2>2 DEF Answered, Call
  <2>3. CASE Serve(c)
    <3> PICK q : q = [at |-> Sent(x), version |-> Version(p) + 1]
      OBVIOUS
    <3>1. /\ Answered(c, "written", q) /\ UNCHANGED <<stacks, touched>>
          /\ past' = [past EXCEPT ![p] = Append(@, Sent(x))]
      BY <2>3 DEF Serve
    <3>2. Version(p)' = q.version
      BY <1>0, <2>1, <3>1 DEF Version
    <3>3. call'[c] # Idle
      BY <2>1, <2>2, <3>1 DEF Idle, Call
    <3>4. Current(c, p)'
      BY <2>2, <3>1, <3>2, <3>3 DEF Current, Under
    <3>5. \A r \in Pins : r # p =>
             /\ Version(r)' = Version(r)
             /\ \A d \in Calls : Current(d, r) => Current(d, r)'
      BY <1>0, <2>2, <3>1 DEF Version, Current, Under
    <3>6. QED
      BY <3>1, <3>4, <3>5, ReadyKept
  <2>7. x.answer \in Position
    BY <2>0, CallUnder
  <2>8. CASE ReadEvent(c)
    <3> PICK q : q = [x.answer EXCEPT !.version = Version(p)]
      OBVIOUS
    <3>1. /\ UNCHANGED <<past, stacks, touched>> /\ x.state \in {"written", "sent"}
          /\ Answered(c, "reread", q) \/ (Answered(c, "refused", q) /\ x.state = "sent")
      BY <2>8 DEF ReadEvent, At
    <3>2. q.version = Version(p) /\ Version(p)' = Version(p)
      BY <2>7, <3>1 DEF Position, Version
    <3>3. Current(c, p) => Current(c, p)'
      <4>1. CASE Answered(c, "reread", q)
        <5>1. /\ call'[c].move.pin = p /\ call'[c].state = "reread"
              /\ call'[c].answer.version = Version(p)'
          BY <2>2, <3>2, <4>1
        <5>2. call'[c] # Idle
          BY <2>1, <2>2, <4>1 DEF Idle, Call
        <5>3. QED
          BY <5>1, <5>2 DEF Current, Under
      <4>2. CASE x.state = "sent"
        BY <4>2 DEF Current
      <4>3. QED
        BY <3>1, <4>1, <4>2
    <3>4. \A d \in Calls : d # c => call'[d] = call[d]
      BY <2>2, <3>1
    <3>5. \A r \in Pins, d \in Calls : Current(d, r) => Current(d, r)'
      <4>1. \A r \in Pins : Version(r)' = Version(r)
        BY <3>1 DEF Version
      <4>2. \A r \in Pins, d \in Calls \ {c} : Current(d, r) => Current(d, r)'
        BY <3>4, <4>1 DEF Current, Under
      <4>3. \A r \in Pins : Current(c, r) => r = p
        BY DEF Current
      <4>4. QED
        BY <3>3, <4>2, <4>3
    <3>6. QED
      BY <3>1, <3>5, ReadyKept DEF Version
  <2>4. CASE Reply(c)
    <3>1. UNCHANGED <<past, stacks>> /\ x.state \in {"written", "reread"}
      BY <2>4 DEF Reply, At
    <3>2. \A r \in Pins \ {p} : \A d \in Calls : Current(d, r) => Current(d, r)'
      BY <2>2, <2>4, <3>1 DEF Reply, Current, Under, Version
    <3>3. CASE Answered(c, "failed", x.answer) /\ touched' = touched \union {p}
      BY <3>1, <3>2, <3>3, ReadyKept DEF Version
    <3>4. CASE /\ Answered(c, "saved", IF p \in Events
                                      THEN ReadLocations(p, x.answer)
                                      ELSE x.answer)
               /\ touched' = touched
      <4> PICK q : q = IF p \in Events THEN ReadLocations(p, x.answer)
                                       ELSE x.answer
        OBVIOUS
      <4>1. Answered(c, "saved", q)
        BY <3>4
      <4>2. x.answer.version = Version(p) => q.version = Version(p)
        BY <2>7 DEF ReadLocations, Position
      <4>3. call'[c] # Idle
        BY <2>1, <2>2, <4>1 DEF Idle, Call
      <4>4. \A d \in Calls : Current(d, p) => Current(d, p)'
        <5>1. Version(p)' = Version(p)
          BY <3>1 DEF Version
        <5>2. Current(c, p) => Current(c, p)'
          <6>1. /\ call'[c].move.pin = p /\ call'[c].state = "saved"
                /\ call'[c].answer = q
            BY <2>2, <4>1
          <6>2. Current(c, p) => q.version = Version(p)'
            BY <4>2, <5>1 DEF Current
          <6>3. q.version = Version(p)' => Current(c, p)'
            BY <4>3, <6>1 DEF Current, Under
          <6>4. QED
            BY <6>2, <6>3
        <5>3. \A d \in Calls \ {c} : Current(d, p) => Current(d, p)'
          BY <2>2, <4>1, <5>1 DEF Current, Under
        <5>4. QED
          BY <5>2, <5>3
      <4>5. QED
        BY <3>1, <3>2, <3>4, <4>4, ReadyKept DEF Version
    <3>5. QED
      BY <2>4, <3>3, <3>4 DEF Reply
  <2>5. CASE Conflict(c) \/ Break(c)
    <3>1. UNCHANGED <<past, stacks, touched>>
          /\ x.state \in {"sent", "refused"}
      BY <2>5 DEF Conflict, Break, At
    <3>2. \A d \in Calls : d # c => call'[d] = call[d]
      BY <2>2, <2>5 DEF Conflict, Break
    <3>3. \A r \in Pins, d \in Calls : Current(d, r) => Current(d, r)'
      BY <3>1, <3>2 DEF Current, Under, Version
    <3>4. QED
      BY <3>1, <3>3, ReadyKept DEF Version
  <2>6. QED
    BY <1>3, <2>3, <2>4, <2>5, <2>8 DEF Answer
<1>4. QED
  BY <1>2, <1>3

\* A move goes from one stack to the other. If the tab keeps track of its pin, it
\* was the last one there.
LEMMA PopPushReady ==
    ASSUME OneEntry, NEW p \in Pins, NEW m \in Move, m.pin = p,
           NEW from \in Seq(Move), NEW to \in Seq(Move),
           \/ /\ from = undoStack /\ to = redoStack
              /\ undoStack' = Front(from) /\ redoStack' = Append(to, m)
           \/ /\ from = redoStack /\ to = undoStack
              /\ redoStack' = Front(from) /\ undoStack' = Append(to, m),
           touched' \in {touched, touched \union {p}},
           p \notin touched' => from # <<>> /\ Last(from).pin = p,
           p \notin touched' => m.version = Version(p)',
           \A n \in ToSet(undoStack) \union ToSet(redoStack) :
              \/ n.pin = p
              \/ n.pin \in touched'
              \/ n.version = Version(n.pin)'
              \/ \E d \in Calls : Current(d, n.pin)'
    PROVE  OneEntry' /\ Awaited'
<1>1. \A q \in Pins \ touched' : /\ OnceOn(from, q) /\ OnceOn(to, q)
                                 /\ ~(On(from, q) /\ On(to, q))
  BY DEF OneEntry
<1>2. ASSUME NEW q \in Pins \ touched'
      PROVE  /\ OnceOn(Front(from), q) /\ OnceOn(Append(to, m), q)
             /\ ~(On(Front(from), q) /\ On(Append(to, m), q))
             /\ q = p => ~On(Front(from), q) /\ ~On(to, q)
  <2>1. /\ OnceOn(Front(from), q)
        /\ On(Front(from), q) => On(from, q)
        /\ from # <<>> /\ Last(from).pin = q => ~On(Front(from), q)
    BY <1>1, PoppedOnce
  <2>2. q = p => On(from, q)
    <3>1. from # <<>> => Len(from) \in 1 .. Len(from)
      OBVIOUS
    <3>2. QED
      BY <3>1 DEF On, Last
  <2>3. /\ OnceOn(to, q) /\ (m.pin = q => ~On(to, q)) => OnceOn(Append(to, m), q)
        /\ On(Append(to, m), q) => On(to, q) \/ m.pin = q
    BY PushedOnce
  <2>4. QED
    BY <1>1, <2>1, <2>2, <2>3
<1>3. OneEntry'
  BY <1>2 DEF OneEntry, OnceOn, On
<1>4. /\ ToSet(Front(from)) \subseteq ToSet(from)
      /\ ToSet(Append(to, m)) \subseteq ToSet(to) \union {m}
  BY Popped, Pushed
<1>5. \A n \in ToSet(Front(from)) \union ToSet(to) :
         n.pin = p => p \in touched'
  BY <1>2 DEF ToSet, On
<1>6. \A n \in ToSet(undoStack') \union ToSet(redoStack') :
         \/ n.pin \in touched'
         \/ n.version = Version(n.pin)'
         \/ \E d \in Calls : Current(d, n.pin)'
  <2>1. ASSUME NEW n \in ToSet(Front(from)) \union ToSet(to)
        PROVE  \/ n.pin \in touched'
               \/ n.version = Version(n.pin)'
               \/ \E d \in Calls : Current(d, n.pin)'
    BY <1>4, <1>5
  <2>2. m.pin \in touched' \/ m.version = Version(m.pin)'
    OBVIOUS
  <2>3. ToSet(undoStack') \union ToSet(redoStack')
           \subseteq ToSet(Front(from)) \union ToSet(to) \union {m}
    BY <1>4
  <2>4. QED
    BY <2>1, <2>2, <2>3
<1>7. QED
  BY <1>3, <1>6 DEF Awaited, ToSet, Current, Under, Version

\* The tab deals with an answer.
LEMMA ReturnReady ==
    ASSUME Truthful, OneEntry, Awaited, NEW c \in Calls, Return(c)
    PROVE  OneEntry' /\ Awaited'
<1> PICK x : x = call[c]
  OBVIOUS
<1> DEFINE p == x.move.pin
<1>0. Under(c) /\ TypeOK
  BY DEF Return, DragSaved, UndoSaved, RedoSaved, Conflicted, Failed, At, Truthful
<1>1. /\ x \in Call /\ p \in Pins /\ x.move \in Move /\ x.answer \in Position
      /\ undoStack \in Seq(Move) /\ redoStack \in Seq(Move)
  BY <1>0, CallUnder DEF TypeOK
<1>2. past' = past /\ Done(c) /\ touched' \in {touched, touched \union {p}}
  BY DEF Return, DragSaved, UndoSaved, RedoSaved, Conflicted, Failed, LosesTrack
<1>3. /\ \A q \in Pins : Version(q)' = Version(q)
      /\ \A q \in Pins, d \in Calls : Current(d, q) /\ d # c => Current(d, q)'
  BY <1>0, <1>2 DEF Version, Current, Under, Done, TypeOK
<1>4. \A q \in Pins : Current(c, q) => q = p /\ x.answer.version = Version(p)
  BY DEF Current
<1>5. CASE Conflicted(c) \/ Failed(c)
  <2>1. UNCHANGED <<stacks, touched>> /\ x.state \in {"conflict", "failed"}
    BY <1>5 DEF Conflicted, Failed, At
  <2>2. \A q \in Pins : ~Current(c, q)
    BY <2>1 DEF Current
  <2>3. QED
    BY <1>3, <2>1, <2>2, ReadyKept
<1>6. CASE DragSaved(c) \/ UndoSaved(c) \/ RedoSaved(c)
  <2> PICK m : m = [x.move EXCEPT !.version = x.answer.version]
    OBVIOUS
  <2>1. m \in Move /\ m.pin = p /\ m.version = x.answer.version
    BY <1>1 DEF Move, Position
  <2>2. p \notin touched' => x.answer.version = Version(p)
    BY <1>6 DEF DragSaved, UndoSaved, RedoSaved, LosesTrack
  <2>3. ToSet(undoStack) \subseteq Move /\ ToSet(redoStack) \subseteq Move
    BY <1>1, EntriesAre
  <2>4. \A n \in Move : n.pin \in Pins
    BY DEF Move
  \* Moves of other pins are as ready as they were.
  <2>5. \A n \in ToSet(undoStack) \union ToSet(redoStack) :
           \/ n.pin = p
           \/ n.pin \in touched'
           \/ n.version = Version(n.pin)'
           \/ \E d \in Calls : Current(d, n.pin)'
    BY <1>2, <1>3, <1>4, <2>3, <2>4 DEF Awaited
  <2>6. CASE DragSaved(c)
    <3>1. undoStack' = Append(undoStack, m) /\ redoStack' = <<>>
      BY <2>6 DEF DragSaved
    <3>2. p \notin touched' => \A n \in ToSet(undoStack) : n.pin # p
      BY <2>6 DEF DragSaved, LosesTrack
    <3>3. p \notin touched' => ~On(undoStack, p)
      BY <3>2 DEF On, ToSet
    <3>4. Len(redoStack') = 0 /\ ToSet(redoStack') = {}
      BY <3>1 DEF ToSet
    <3>5. OneEntry'
      <4>1. ASSUME NEW q \in Pins \ touched'
            PROVE  OnceOn(undoStack', q)
        <5>1. OnceOn(undoStack, q)
          BY <1>2 DEF OneEntry
        <5>2. OnceOn(Append(undoStack, m), q)
          <6>1. m.pin = q => ~On(undoStack, q)
            BY <2>1, <3>3
          <6>2. undoStack \in Seq(Move) /\ m \in Move
            BY <1>1, <2>1
          <6>3. QED
            BY <5>1, <6>1, <6>2, PushedOnce
        <5>3. QED
          BY <3>1, <5>2 DEF OnceOn
      <4>2. \A q : OnceOn(redoStack', q) /\ ~On(redoStack', q)
        BY <3>4 DEF OnceOn, On
      <4>3. QED
        BY <4>1, <4>2 DEF OneEntry, OnceOn, On
    <3>6. ToSet(undoStack') \subseteq ToSet(undoStack) \union {m}
      BY <1>1, <2>1, <3>1, Pushed
    <3>7. \A n \in ToSet(undoStack') \union ToSet(redoStack') :
             \/ n.pin \in touched'
             \/ n.version = Version(n.pin)'
             \/ \E d \in Calls : Current(d, n.pin)'
      BY <1>1, <1>3, <2>1, <2>2, <2>5, <3>2, <3>4, <3>6
    <3>8. QED
      BY <3>5, <3>7 DEF Awaited, ToSet, Current, Under, Version
  <2>7. CASE UndoSaved(c)
    <3>1. undoStack' = Front(undoStack) /\ redoStack' = Append(redoStack, m)
      BY <2>7 DEF UndoSaved
    <3>2. p \notin touched' => undoStack # <<>> /\ Last(undoStack).pin = p
      BY <2>7 DEF UndoSaved, LosesTrack, Top
    <3>3. QED
      BY <1>1, <1>2, <1>3, <2>1, <2>2, <2>5, <3>1, <3>2, PopPushReady
  <2>8. CASE RedoSaved(c)
    <3>1. redoStack' = Front(redoStack) /\ undoStack' = Append(undoStack, m)
      BY <2>8 DEF RedoSaved
    <3>2. p \notin touched' => redoStack # <<>> /\ Last(redoStack).pin = p
      BY <2>8 DEF RedoSaved, LosesTrack, Top
    <3>3. QED
      BY <1>1, <1>2, <1>3, <2>1, <2>2, <2>5, <3>1, <3>2, PopPushReady
  <2>9. QED
    BY <1>6, <2>6, <2>7, <2>8
<1>7. QED
  BY <1>5, <1>6 DEF Return

-----------------------------------------------------------------------------
(* The theorems. *)

\* The invariant holds at first.
LEMMA InitIInv == Init => IInv
<1> SUFFICES ASSUME Init PROVE IInv
  OBVIOUS
<1>1. PICK start \in [Pins -> Places] :
         /\ past = [p \in Pins |-> <<start[p]>>]
         /\ local = [p \in Pins |-> [at |-> start[p], version |-> 1]]
  BY DEF Init
<1>2. \A p \in Pins : /\ past[p] \in Seq(Places) /\ Len(past[p]) = 1
                     /\ past[p][1] = start[p] /\ past[p] # <<>>
  BY <1>1
<1>3. TypeOK
  BY <1>1, <1>2 DEF Init, TypeOK, Position
<1>4. LocalTrue
  BY <1>1, <1>2 DEF LocalTrue, Read, LastRead, Was, Version
<1>5. ToSet(undoStack) = {} /\ ToSet(redoStack) = {}
  BY DEF Init, ToSet
<1>6. StacksTrue /\ CallsTrue
  BY <1>5 DEF Init, StacksTrue, CallsTrue, Under
<1>7. Len(undoStack) = 0 /\ Len(redoStack) = 0
  BY DEF Init
<1>8. OneEntry /\ Awaited
  BY <1>5, <1>7 DEF OneEntry, OnceOn, On, Awaited
<1>9. QED
  BY <1>3, <1>4, <1>6, <1>8 DEF IInv, Truthful

\* Every step keeps it.
LEMMA StepIInv == IInv /\ [Next]_vars => IInv'
<1> SUFFICES ASSUME IInv, [Next]_vars PROVE IInv'
  OBVIOUS
<1>1. Truthful'
  <2>1. CASE Next
    BY <2>1, AskSteps, AnswerSteps, ReturnSteps DEF Next, IInv
  <2>2. CASE UNCHANGED vars
    BY <2>2 DEF vars, stacks, IInv, Truthful, TypeOK, LocalTrue, StacksTrue,
                CallsTrue, CallTrue, Under, Read, LastRead, Was, Version, Sent
  <2>3. QED
    BY <2>1, <2>2
<1>2. OneEntry' /\ Awaited'
  <2>1. CASE Next
    BY <2>1, AskAnswerReady, ReturnReady DEF Next, IInv
  <2>2. CASE UNCHANGED vars
    BY <2>2 DEF vars, stacks, IInv, OneEntry, OnceOn, On, Awaited, Current, Under,
                Version
  <2>3. QED
    BY <2>1, <2>2
<1>3. QED
  BY <1>1, <1>2 DEF IInv

\* Whatever the order of drags, undos, redos, answers, failures and other
\* editors' saves, what the tab shows, has recorded and asks for are positions
\* its pins had at the versions noted (what it shows of events, then or later);
\* and a move on a stack is up to date, or its
\* update is under way, for pins the tab keeps track of (map-move-history.ts,
\* Map.svelte).
THEOREM MovesTrue == Spec => []IInv
BY InitIInv, StepIInv, PTL DEF Spec

\* Rows, stacks and calls stay readable.
THEOREM MovesTyped == Spec => []TypeOK
<1>1. IInv => TypeOK
  BY DEF IInv, Truthful
<1>2. QED
  BY <1>1, MovesTrue, PTL

\* A PATCH that is served was asked for the row as it is.
LEMMA ServeExact ==
    ASSUME IInv, NEW c \in Calls, Serve(c),
           call[c].move.pin \in Events => call[c].kind = "drag"
    PROVE  LET m == call[c].move
               back == call[c].kind = "undo" IN
           /\ Latest(m.pin).at = IF back THEN m.current ELSE m.previous
           /\ Latest(m.pin)'.at = IF back THEN m.previous ELSE m.current
<1>1. Under(c) /\ TypeOK
  BY DEF Serve, At, IInv, Truthful
<1> PICK x : x = call[c]
  OBVIOUS
<1> DEFINE p == x.move.pin
<1>2. /\ x \in Call /\ CallTrue(x) /\ p \in Pins /\ Sent(x) \in Places
      /\ past[p] \in Seq(Places)
  BY <1>1, CallUnder DEF IInv, TypeOK
<1>3. x.move.version = Version(p) /\ past' = [past EXCEPT ![p] = Append(@, Sent(x))]
  BY DEF Serve
<1>4. Latest(p).at = IF x.kind = "undo" THEN x.move.current ELSE x.move.previous
  BY <1>1, <1>2, <1>3, ReadExact DEF CallTrue
<1>5. past'[p] = Append(past[p], Sent(x))
  BY <1>1, <1>2, <1>3 DEF TypeOK
<1>6. Latest(p)'.at = Sent(x)
  BY <1>2, <1>5 DEF Latest, Version
<1>7. call'[c].move.pin = p
  BY <1>1, <1>2 DEF Serve, Answered, TypeOK, Call
<1>8. QED
  BY <1>4, <1>6, <1>7 DEF Sent, Latest, Version

\* Undo and redo of buildings and dorms, and every drag, take a pin from where
\* the tab says it is taken from, whatever was saved meanwhile (the version in
\* the WHERE of updateBuilding, map-move-history.ts).
THEOREM UndosExact == Spec => UndoExact
<1>1. ASSUME IInv, [Next]_vars
      PROVE  [\A c \in Calls :
                 LET m == call[c].move
                     back == call[c].kind = "undo" IN
                 Serve(c) /\ (m.pin \in Events => call[c].kind = "drag") =>
                     /\ Latest(m.pin).at = IF back THEN m.current ELSE m.previous
                     /\ Latest(m.pin)'.at = IF back THEN m.previous ELSE m.current
             ]_vars
  BY <1>1, ServeExact
<1>2. QED
  BY <1>1, MovesTrue, PTL DEF Spec, UndoExact

\* What is on the stacks can be undone or redone, but for pins that others moved
\* or of which this tab lost track.
THEOREM MovesReady == Spec => []UndoReady
<1>1. IInv => UndoReady
  <2>1. \A p : \A c \in Calls : Current(c, p) => ~Settled(p)
    BY DEF Current, Settled
  <2>2. QED
    BY <2>1 DEF IInv, Awaited, UndoReady
<1>2. QED
  BY <1>1, MovesTrue, PTL
=============================================================================
