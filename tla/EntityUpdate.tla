---------------------------- MODULE EntityUpdate ----------------------------
(***************************************************************************)
(* A published entity under concurrent editing: updateRoom, updateBuilding *)
(* and their siblings in src/lib/services/admin-service.ts, and the        *)
(* restore of a history entry (history-service.ts) that goes through them. *)
(*                                                                         *)
(* An update reads the entity for the history entry, writes it with        *)
(* UPDATE ... WHERE id AND version = expectedVersion, inserts the history  *)
(* entry and changes the table's sync key: statements without a common     *)
(* transaction, so other updates run in between. The entities differ in    *)
(* where the entry's after-snapshot comes from: the write's RETURNING      *)
(* (buildings, colleges, divisions, dorms, organizations) or later reads   *)
(* (rooms, room positions, events); Reread tells which. They differ too in *)
(* what lies outside the entity's row: a room's position, an event's       *)
(* locations and route stops are in tables of their own, written in one    *)
(* transaction with the row but read by statements of their own, so that   *)
(* a snapshot need not show one moment. Apart names those fields. (What an *)
(* event's location takes from its building's row is not the event's.)     *)
(*                                                                         *)
(* One entity; each editor has at most one call under way. Nothing deletes *)
(* the entity here, and every writer of the row bumps its version.         *)
(***************************************************************************)
EXTENDS Integers, Sequences

CONSTANTS
    Editors,
    Fields,
    Kept,        \* fields missing from REVERTABLE_FIELDS (crFacilities)
    Apart,       \* fields outside the row (position, locations, routes)
    Values,
    Unset,       \* a field the call leaves alone
    Inputs,      \* what editors ask for
    Reread,      \* TRUE: the after-snapshot is read again
    None,        \* nothing read yet
    NoEdit,      \* for the abstraction: no call under way
    MaxVersion   \* bound on the versions written

ASSUME KeptAssumption == Kept \subseteq Fields
ASSUME ApartAssumption == Apart \subseteq Kept
ASSUME UnsetAssumption == Unset \notin Values
ASSUME RereadAssumption == Reread \in BOOLEAN
ASSUME MaxVersionAssumption == MaxVersion \in Nat

VARIABLES
    version,   \* the row's version column
    content,   \* the row's editable fields
    past,      \* what the row showed at each version so far (never stored)
    history,   \* editor_history entries of the entity, oldest first
    keyAt,     \* the version when the table's sync key last changed
    failures,  \* calls that failed after their write (never stored)
    pc,        \* where each editor's call stands
    job        \* what each call was asked and has read

vars == <<version, content, past, history, keyAt, failures, pc, job>>

-----------------------------------------------------------------------------
Content == [Fields -> Values]
Change == [Fields -> Values \union {Unset}]
Snapshot == [version : Nat, content : Content]

ASSUME InputsAssumption == Inputs \subseteq Change

Entry == [before : Snapshot, after : Snapshot]

\* What one statement reads: the row, version included, or one of the fields
\* outside it.
Row == Fields \ Apart
Rest == {{f} : f \in Apart}
Reads == {Row} \union Rest

\* expected is the version the editor's panel showed, input the fields to set,
\* restored the history entry a restore goes back to (0: an ordinary edit),
\* unread what the snapshot being read still waits for.
Job == [expected : Nat \ {0}, input : Change, restored : Nat,
        before : Snapshot \union {None}, after : Snapshot \union {None},
        unread : SUBSET Reads]

Blank == [expected |-> 1, input |-> [f \in Fields |-> Unset], restored |-> 0,
          before |-> None, after |-> None, unread |-> {}]

Steps == {"idle", "asked", "read", "written", "reread", "logged"}

\* No call under way is not itself an edit.
ASSUME NoEditAssumption == NoEdit \notin [base : Content, input : Change]

Live == [version |-> version, content |-> content]

\* Snapshot s with what reading part shows now.
Show(s, part) ==
    [version |-> IF part = Row THEN version ELSE s.version,
     content |-> [f \in Fields |-> IF f \in part THEN content[f]
                                  ELSE s.content[f]]]

\* Mutant of Apply: keys the call did not give are overwritten as well.
ApplyWhole(input, c) == input

\* .set({ ...updates }): keys the call did not give keep their value.
Apply(input, c) == [f \in Fields |-> IF input[f] = Unset THEN c[f] ELSE input[f]]

\* pickRevertInput: the revertable fields of a snapshot.
RevertInput(c) == [f \in Fields |-> IF f \in Kept THEN Unset ELSE c[f]]

Goto(e, step) == pc' = [pc EXCEPT ![e] = step]

\* The call returns or throws: what it read is gone.
Finish(e) ==
    /\ pc' = [pc EXCEPT ![e] = "idle"]
    /\ job' = [job EXCEPT ![e] = Blank]

-----------------------------------------------------------------------------
\* A call arrives with the version v the editor's panel showed: any version
\* the row ever had, since panels and local caches may be old.
Begin(e, v, input, restored) ==
    /\ pc[e] = "idle"
    /\ \E f \in Fields : input[f] # Unset
    /\ job' = [job EXCEPT ![e] = [Blank EXCEPT !.expected = v,
                                               !.input = input,
                                               !.restored = restored]]
    /\ Goto(e, "asked")
    /\ UNCHANGED <<version, content, past, history, keyAt, failures>>

\* PATCH /api/admin/<entity>/[id]
Edit(e, v, input) == Begin(e, v, input, 0)

\* Mutant of Restore: the entry is undone instead.
RestoreUndoes(e, v, h) ==
    Begin(e, v, RevertInput(history[h].before.content), h)

\* POST /api/admin/history/[id]/revert: write the entry's after-snapshot back.
Restore(e, v, h) == Begin(e, v, RevertInput(history[h].after.content), h)

\* A duplicate name or slug, or a lost connection, before the write.
Refuse(e) ==
    /\ pc[e] \in {"asked", "read"}
    /\ Finish(e)
    /\ UNCHANGED <<version, content, past, history, keyAt, failures>>

\* const before = await getXById(id): the row. The fields outside it, if any,
\* wait for their statements, which replace what stands for them until then.
ReadBefore(e) ==
    /\ pc[e] = "asked"
    /\ job' = [job EXCEPT ![e] = [@ EXCEPT !.before = Live, !.unread = Rest]]
    /\ Goto(e, "read")
    /\ UNCHANGED <<version, content, past, history, keyAt, failures>>

\* getRoomPosition, the locations and routes in hydrateEvents
ReadRest(e, part) ==
    /\ pc[e] = "read"
    /\ part \in job[e].unread
    /\ job' = [job EXCEPT ![e] =
                 [job[e] EXCEPT !.before = Show(job[e].before, part),
                                !.unread = job[e].unread \ {part}]]
    /\ UNCHANGED <<version, content, past, history, keyAt, failures, pc>>

\* Mutant of Matches: WHERE id only.
MatchesAnyVersion(e) == TRUE

\* WHERE id AND version = expectedVersion
Matches(e) == version = job[e].expected

\* UPDATE ... SET updates, version = version + 1, with the fields outside the
\* row in the same transaction
Write(e) ==
    LET c == Apply(job[e].input, content) IN
    /\ pc[e] = "read" /\ job[e].unread = {}
    /\ Matches(e)
    /\ version < MaxVersion
    /\ version' = version + 1
    /\ content' = c
    /\ past' = Append(past, c)
    /\ job' = [job EXCEPT ![e] =
                 [@ EXCEPT !.after = [version |-> version + 1, content |-> c],
                           !.unread = IF Reread THEN Reads ELSE {}]]
    /\ Goto(e, IF Reread THEN "written" ELSE "reread")
    /\ UNCHANGED <<history, keyAt, failures>>

\* No row matched: EditConflictError, 409.
Conflict(e) ==
    /\ pc[e] = "read" /\ job[e].unread = {}
    /\ ~Matches(e)
    /\ Finish(e)
    /\ UNCHANGED <<version, content, past, history, keyAt, failures>>

\* const after = await getXById(id), and the position together with the room in
\* a Promise.all: in any order
ReadAfter(e, part) ==
    /\ pc[e] = "written"
    /\ part \in job[e].unread
    /\ job' = [job EXCEPT ![e] =
                 [job[e] EXCEPT !.after = Show(job[e].after, part),
                                !.unread = job[e].unread \ {part}]]
    /\ Goto(e, IF job[e].unread = {part} THEN "reread" ELSE "written")
    /\ UNCHANGED <<version, content, past, history, keyAt, failures>>

\* Mutant of Log: the before-snapshot is read when the entry is written.
LogReadsBeforeLate(e) ==
    /\ pc[e] = "reread"
    /\ history' = Append(history, [before |-> Live, after |-> job[e].after])
    /\ Goto(e, "logged")
    /\ UNCHANGED <<version, content, past, keyAt, failures, job>>

\* recordEditorHistory
Log(e) ==
    /\ pc[e] = "reread"
    /\ history' = Append(history, [before |-> job[e].before,
                                   after |-> job[e].after])
    /\ Goto(e, "logged")
    /\ UNCHANGED <<version, content, past, keyAt, failures, job>>

\* Mutant of Sync: the key is not changed.
SyncSkipped(e) ==
    /\ pc[e] = "logged"
    /\ Finish(e)
    /\ UNCHANGED <<version, content, past, history, keyAt, failures>>

\* refreshSyncKey
Sync(e) ==
    /\ pc[e] = "logged"
    /\ keyAt' = version
    /\ Finish(e)
    /\ UNCHANGED <<version, content, past, history, failures>>

\* A statement after the write throws, or the invocation is ended: the write
\* stands, without its key and perhaps without its entry.
Fail(e) ==
    /\ pc[e] \in {"written", "reread", "logged"}
    /\ failures' = failures \union {[replaced |-> job[e].before.version,
                                     logged |-> pc[e] = "logged"]}
    /\ Finish(e)
    /\ UNCHANGED <<version, content, past, history, keyAt>>

-----------------------------------------------------------------------------
Init ==
    /\ version = 1
    /\ content \in Content
    /\ past = <<content>>
    /\ history = <<>>
    /\ keyAt = 1
    /\ failures = {}
    /\ pc = [e \in Editors |-> "idle"]
    /\ job = [e \in Editors |-> Blank]

Continue(e) ==
    \/ Refuse(e)
    \/ ReadBefore(e)
    \/ Write(e)
    \/ Conflict(e)
    \/ \E part \in Reads : ReadRest(e, part) \/ ReadAfter(e, part)
    \/ Log(e)
    \/ Sync(e)

Ask(e) ==
    \E v \in 1..version :
        \/ \E input \in Inputs : Edit(e, v, input)
        \/ \E h \in 1..Len(history) : Restore(e, v, h)

Next == \E e \in Editors : Ask(e) \/ Continue(e) \/ Fail(e)

\* A running call is not suspended for ever; nobody has to ask.
Fairness == \A e \in Editors : WF_vars(Continue(e))

Spec == Init /\ [][Next]_vars /\ Fairness

-----------------------------------------------------------------------------
\* The row, its history and the calls are always readable.
TypeOK ==
    /\ version \in Nat \ {0}
    /\ content \in Content
    /\ past \in Seq(Content)
    /\ history \in Seq(Entry)
    /\ keyAt \in Nat
    /\ failures \subseteq [replaced : Nat, logged : BOOLEAN]
    /\ pc \in [Editors -> Steps]
    /\ job \in [Editors -> Job]

\* A snapshot of a version the row has had, as the row was then.
Genuine(s) ==
    /\ s \in Snapshot
    /\ s.version \in 1..version
    /\ s.content = past[s.version]

\* A snapshot put together since the row was at version first: the row as it
\* was at the snapshot's version, each field outside it as it was at some
\* version since, not necessarily the same.
Since(first, s) ==
    /\ s \in Snapshot
    /\ s.version \in first..version
    /\ \A f \in Row : s.content[f] = past[s.version][f]
    /\ \A f \in Apart : \E v \in first..version : s.content[f] = past[v][f]

\* A before- and an after-snapshot around one write. The first shows one
\* moment: the version that was replaced, and all of it. So does the second
\* where the write itself returned it; read again, it shows the write or what
\* came later, in the fields outside the row perhaps not the same later.
Around(before, after) ==
    /\ Genuine(before)
    /\ Since(before.version + 1, after)
    /\ ~Reread => Genuine(after) /\ after.version = before.version + 1

\* Every history entry brackets a write that happened, although its snapshots
\* and the write are several statements among everybody else's. The reads
\* before the write may well see versions other than the expected one, and
\* each another; such a call never gets to its entry.
HistoryFaithful ==
    \A h \in 1..Len(history) : Around(history[h].before, history[h].after)

\* Who answers for version v having been replaced: a call that will still log
\* it, an entry, or a call that failed before it could.
CallsFor(v) ==
    {<<"call", e>> : e \in {d \in Editors : /\ pc[d] \in {"written", "reread"}
                                            /\ job[d].before.version = v}}

EntriesFor(v) ==
    {<<"entry", h>> : h \in {k \in 1..Len(history) :
                               history[k].before.version = v}}

FailuresFor(v) ==
    {<<"failure", f>> : f \in {g \in failures : g.replaced = v /\ ~g.logged}}

Accounts(v) == CallsFor(v) \union EntriesFor(v) \union FailuresFor(v)

\* No version goes unaccounted for and none twice: each version that was
\* replaced is the before-snapshot of exactly one history entry, unless the
\* call that replaced it is still to write its entry, or failed before.
HistoryComplete ==
    \A v \in 1..(version - 1) : \E a \in Accounts(v) : Accounts(v) = {a}

\* A restore that lands shows what the row showed at the version the entry ended
\* in, and nothing else: in the fields a restore leaves alone the row stays as
\* it is. The snapshot was read after the entry's write, perhaps a later
\* version than that, and the restore is checked against a panel opened in
\* between; neither lets it write back a mixture of versions.
RestoresExact ==
    [][\A e \in Editors : Write(e) /\ job[e].restored # 0 =>
          LET v == history[job[e].restored].after.version IN
          /\ v \in 1..version
          /\ content' = [f \in Fields |-> IF f \in Kept THEN content[f]
                                        ELSE past[v][f]]]_vars

\* Viewers learn of every write, whatever fails around it: the sync key changes
\* after it, except when the writer itself fails and nobody writes later.
WritesAnnounced ==
    \A v \in 1..MaxVersion :
        (version = v) ~> \/ keyAt >= v
                         \/ \E f \in failures : f.replaced = v - 1

\* The abstraction: a call under way is an edit of what its version showed.
EditUnderWay ==
    [e \in Editors |-> IF pc[e] \in {"asked", "read"}
                       THEN [base |-> past[job[e].expected],
                             input |-> job[e].input]
                       ELSE NoEdit]

OE == INSTANCE OptimisticEdit WITH record <- content, edit <- EditUnderWay

\* "A stale version returns a conflict instead of overwriting another editor's
\* change": comparing version numbers is as good as comparing all the fields
\* the editor was looking at.
NoLostUpdate == OE!Spec

-----------------------------------------------------------------------------
\* What the prover needs besides: the numbering of past, and what each call
\* knows about it.
PastNumbered == Len(past) = version /\ past[version] = content

JobsConsistent ==
    \A e \in Editors :
        /\ job[e].expected <= version
        /\ pc[e] = "read" => Since(job[e].expected, job[e].before)
        /\ pc[e] \in {"written", "reread", "logged"} =>
              Around(job[e].before, job[e].after)

\* Only a re-reading update stands between its write and its after-snapshot.
OnlyRereadWaits == \A e \in Editors : pc[e] = "written" => Reread

\* A restore under way asks for the fields of the entry it names.
RestoresKnown ==
    \A e \in Editors : job[e].restored # 0 =>
        /\ job[e].restored \in 1..Len(history)
        /\ job[e].input = RevertInput(history[job[e].restored].after.content)

\* A call that failed had replaced a version.
FailuresPast == \A f \in failures : f.replaced < version

\* Version v is announced, or will be by the call that wrote it, or that
\* call failed: what WritesAnnounced rests on, since a key is changed once.
KeyComes(v) ==
    \/ keyAt >= v
    \/ \E e \in Editors : /\ pc[e] \in {"written", "reread", "logged"}
                           /\ job[e].before.version = v - 1
    \/ \E f \in failures : f.replaced = v - 1

NoWriteForgotten == \A v \in 2..version : KeyComes(v)

IInv == /\ TypeOK
        /\ PastNumbered
        /\ JobsConsistent
        /\ OnlyRereadWaits
        /\ FailuresPast
        /\ RestoresKnown
        /\ HistoryFaithful
        /\ NoWriteForgotten

=============================================================================
