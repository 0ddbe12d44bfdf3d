---------------------------- MODULE EntityMerge ----------------------------
(***************************************************************************)
(* Merging one parent entity into another while editors work on both       *)
(* (src/lib/services/merge-service.ts: mergeBuildings, mergeColleges,      *)
(* mergeDivisions and mergeDorms, which differ in their tables).           *)
(*                                                                         *)
(* The merge reads both rows, and then in one transaction checks the       *)
(* source's version, re-points the children, overwrites the target from    *)
(* the rows it read before, and deletes the source. Afterwards it reads    *)
(* the target again, writes two history entries and changes sync keys.     *)
(*                                                                         *)
(* The transaction runs at Postgres' default isolation, read committed:    *)
(* each statement sees what is committed when it runs; a row that was      *)
(* updated stays locked until the end; a re-pointed child holds a key      *)
(* share lock on its new parent, which keeps that row from being deleted.  *)
(* What a transaction has written becomes visible when it commits, so the  *)
(* commit applies it here; until then the locks are derived from job[m].   *)
(*                                                                         *)
(* A child is a row of a re-pointed table: <<table, slot>>. The merged     *)
(* fields of a row are one text, possibly Empty; the name an editor may    *)
(* prefer for the target is left out.                                      *)
(***************************************************************************)
EXTENDS Integers

CONSTANTS
    Merges,     \* merge calls that can be under way at one time
    Mortal,     \* those that may fail between their statements
    Parents,
    Kind,       \* which of the merge functions
    Slots,      \* rows of each table of children
    Texts,
    Empty,      \* a text nobody has filled in
    None,       \* nothing asked or read yet
    MaxAsks     \* bound on the calls made: merges, edits, moves

ASSUME NoneAssumption == None \notin Parents
ASSUME EmptyAssumption == Empty \notin Texts
ASSUME MaxAsksAssumption == MaxAsks \in Nat

VARIABLES
    live,       \* parents that exist
    version,    \* their version columns
    text,       \* their merged fields
    home,       \* the parent of each child
    stale,      \* tables written by a merge since their sync key changed
    history,    \* "merged_into" entries, as <<source, target>>
    failures,   \* merges that threw after their commit: source and tables
    pc,         \* where each merge call stands
    job,        \* what it was asked, has read and has written
    asks        \* calls made so far, for the bound

vars == <<live, version, text, home, stale, history, failures, pc, job, asks>>

-----------------------------------------------------------------------------
\* Per function: the table of the merged rows, the tables of the children it
\* re-points ("events" are served with their locations), the keys it changes.
BuildingMerge == [table |-> "buildings", repoints |-> {"rooms", "events"},
                  announces |-> {"buildings", "rooms"}]
CollegeMerge == [table |-> "colleges", repoints |-> {"divisions", "rooms"},
                 announces |-> {"colleges", "divisions", "rooms"}]
DivisionMerge == [table |-> "divisions", repoints |-> {"rooms"},
                  announces |-> {"divisions", "rooms"}]
DormMerge == [table |-> "dorms", repoints |-> {"events"},
              announces |-> {"dorms"}]

Merger == [building |-> BuildingMerge, college |-> CollegeMerge,
           division |-> DivisionMerge, dorm |-> DormMerge]

ASSUME KindAssumption == Kind \in DOMAIN Merger

K == Merger[Kind]
Tables == {K.table} \union K.repoints
Children == K.repoints \X Slots
Snapshot == [version : Nat, text : Texts \union {Empty}]

ASSUME SnapshotAssumption == None \notin Snapshot

\* s and t are the source and the target, expected the sourceVersion of the
\* request; moved are the children re-pointed, wrote tells whether the UPDATE
\* of the target met a row.
Job == [s : Parents \union {None}, t : Parents \union {None}, expected : Nat,
        source : Snapshot \union {None}, target : Snapshot \union {None},
        moved : SUBSET Children, wrote : BOOLEAN]

Blank == [s |-> None, t |-> None, expected |-> 0, source |-> None,
          target |-> None, moved |-> {}, wrote |-> FALSE]

Steps == {"idle", "asked", "checked", "repointed", "updated", "committed",
          "loaded", "logged"}

\* pickNullableText and its relatives: the target's text wins if there is one.
Pick(target, source) == IF target = Empty THEN source ELSE target

ChildrenOf(p) == {c \in Children : home[c] = p}

\* The tables a merge writes to.
Written(m) == {K.table} \union {c[1] : c \in job[m].moved}

\* Row locks of open transactions.
Holding(m) == pc[m] \in {"repointed", "updated"}
ChildLocked(c) == \E m \in Merges : Holding(m) /\ c \in job[m].moved
Updating(m, p) == pc[m] = "updated" /\ job[m].t = p /\ job[m].wrote
KeyShared(m, p) == Holding(m) /\ job[m].t = p /\ job[m].moved # {}

Goto(m, step) == pc' = [pc EXCEPT ![m] = step]

\* The call returns or throws: nothing it read survives.
Finish(m) == Goto(m, "idle") /\ job' = [job EXCEPT ![m] = Blank]

Asked == asks < MaxAsks /\ asks' = asks + 1

rowVars == <<live, version, text, home>>

-----------------------------------------------------------------------------
\* POST /api/admin/<entities>/[id]/merge with a version the editor was shown.
MergeAsk(m, s, t, v) ==
    /\ pc[m] = "idle"
    /\ s # t
    /\ v \in 1..version[s]
    /\ job' = [job EXCEPT ![m] = [Blank EXCEPT !.s = s, !.t = t,
                                               !.expected = v]]
    /\ Goto(m, "asked")
    /\ Asked
    /\ UNCHANGED <<rowVars, stale, history, failures>>

Row(p) == [version |-> version[p], text |-> text[p]]

\* The two reads of Promise.all, in either order.
ReadSource(m) ==
    /\ pc[m] = "asked"
    /\ job[m].source = None
    /\ job[m].s \in live
    /\ job' = [job EXCEPT ![m] = [@ EXCEPT !.source = Row(job[m].s)]]
    /\ UNCHANGED <<rowVars, stale, history, failures, pc, asks>>

ReadTarget(m) ==
    /\ pc[m] = "asked"
    /\ job[m].target = None
    /\ job[m].t \in live
    /\ job' = [job EXCEPT ![m] = [@ EXCEPT !.target = Row(job[m].t)]]
    /\ UNCHANGED <<rowVars, stale, history, failures, pc, asks>>

BothRead(m) == job[m].source # None /\ job[m].target # None

\* A row is not found, or the name belongs to a third entity.
Refuse(m) ==
    /\ pc[m] = "asked"
    /\ \/ job[m].source = None /\ job[m].s \notin live
       \/ job[m].target = None /\ job[m].t \notin live
       \/ BothRead(m)
    /\ Finish(m)
    /\ UNCHANGED <<rowVars, stale, history, failures, asks>>

\* The select called lockedSource: it takes no lock.
CheckSource(m) ==
    /\ pc[m] = "asked"
    /\ BothRead(m)
    /\ job[m].s \in live
    /\ version[job[m].s] = job[m].expected
    /\ Goto(m, "checked")
    /\ UNCHANGED <<rowVars, stale, history, failures, job, asks>>

Conflict(m) ==
    /\ pc[m] = "asked"
    /\ BothRead(m)
    /\ ~ (job[m].s \in live /\ version[job[m].s] = job[m].expected)
    /\ Finish(m)
    /\ UNCHANGED <<rowVars, stale, history, failures, asks>>

\* UPDATE of each table of children, SET the parent to the target WHERE it is
\* the source. Waits for children another transaction holds; the foreign key asks
\* for the target, unless there is no child to re-point.
Repoint(m) ==
    LET moved == ChildrenOf(job[m].s) IN
    /\ pc[m] = "checked"
    /\ \A c \in moved : ~ChildLocked(c)
    /\ moved # {} => job[m].t \in live
    /\ job' = [job EXCEPT ![m] = [@ EXCEPT !.moved = moved]]
    /\ Goto(m, "repointed")
    /\ UNCHANGED <<rowVars, stale, history, failures, asks>>

\* UPDATE of the parents, SET the fields picked from the rows read WHERE id: no
\* version, and no look at how many rows it met.
UpdateTarget(m) ==
    LET t == job[m].t IN
    /\ pc[m] = "repointed"
    /\ \A n \in Merges : ~Updating(n, t)
    /\ job' = [job EXCEPT ![m] = [@ EXCEPT !.wrote = t \in live]]
    /\ Goto(m, "updated")
    /\ UNCHANGED <<rowVars, stale, history, failures, asks>>

\* Mutant of NoOrphans: the column has no foreign key.
NoOrphansUnchecked(m) == TRUE

\* The foreign keys of the children (room_building and its like): none that
\* the transaction has not re-pointed still names the source.
NoOrphans(m) == ChildrenOf(job[m].s) \subseteq job[m].moved

\* DELETE of the source, and COMMIT. The delete waits for every lock another
\* transaction holds on the row; a row that is gone already is no error.
DeleteSource(m) ==
    LET s == job[m].s
        t == job[m].t IN
    /\ pc[m] = "updated"
    /\ \A n \in Merges \ {m} : ~Updating(n, s) /\ ~KeyShared(n, s)
    /\ NoOrphans(m)
    /\ live' = live \ {s}
    /\ home' = [c \in Children |-> IF c \in job[m].moved THEN t ELSE home[c]]
    /\ IF job[m].wrote
       THEN /\ version' = [version EXCEPT ![t] = @ + 1]
            /\ text' = [text EXCEPT ![t] = Pick(job[m].target.text,
                                                job[m].source.text)]
       ELSE UNCHANGED <<version, text>>
    /\ stale' = stale \union Written(m)
    /\ Goto(m, "committed")
    /\ UNCHANGED <<history, failures, job, asks>>

\* A statement of the transaction throws (a foreign key, a duplicate room
\* code, a deadlock Postgres resolves): everything is undone.
Abort(m) ==
    /\ pc[m] \in {"checked", "repointed", "updated"}
    /\ Finish(m)
    /\ UNCHANGED <<rowVars, stale, history, failures, asks>>

\* It throws: what was committed stands.
Throw(m) ==
    /\ failures' = failures \union {[source |-> job[m].s, tables |-> Written(m)]}
    /\ Finish(m)

\* const afterTarget = await get...ById(targetId)
Reload(m) ==
    /\ pc[m] = "committed"
    /\ IF job[m].t \in live
       THEN Goto(m, "loaded") /\ UNCHANGED <<job, failures>>
       ELSE Throw(m)
    /\ UNCHANGED <<rowVars, stale, history, asks>>

\* Mutant of Log: only the entry of the target is written.
LogTargetOnly(m) ==
    /\ pc[m] = "loaded"
    /\ Goto(m, "logged")
    /\ UNCHANGED <<rowVars, stale, history, failures, job, asks>>

\* The two recordEditorHistory calls.
Log(m) ==
    /\ pc[m] = "loaded"
    /\ history' = history \union {<<job[m].s, job[m].t>>}
    /\ Goto(m, "logged")
    /\ UNCHANGED <<rowVars, stale, failures, job, asks>>

\* Mutant of Sync: only the table of the merged entities is announced.
SyncOwnTable(m) ==
    /\ pc[m] = "logged"
    /\ stale' = stale \ {K.table}
    /\ Finish(m)
    /\ UNCHANGED <<rowVars, history, failures, asks>>

\* refreshSyncKey of the tables announced
Sync(m) ==
    /\ pc[m] = "logged"
    /\ stale' = stale \ K.announces
    /\ Finish(m)
    /\ UNCHANGED <<rowVars, history, failures, asks>>

\* A statement after the commit throws, or the invocation ends. Of the keys of
\* Promise.all some may have changed by then; none is what viewers see least of.
Fail(m) ==
    /\ m \in Mortal
    /\ pc[m] \in {"committed", "loaded", "logged"}
    /\ Throw(m)
    /\ UNCHANGED <<rowVars, stale, history, asks>>

-----------------------------------------------------------------------------
\* An editor saves a parent (updateBuilding and its like), which waits for a merge that
\* has the row locked.
EditParent(p, x) ==
    /\ p \in live
    /\ \A n \in Merges : ~Updating(n, p)
    /\ version' = [version EXCEPT ![p] = @ + 1]
    /\ text' = [text EXCEPT ![p] = x]
    /\ Asked
    /\ UNCHANGED <<live, home, stale, history, failures, pc, job>>

\* An editor puts a child under another parent (updateRoom and its like), which the
\* foreign key must find.
MoveChild(c, p) ==
    /\ p \in live
    /\ ~ChildLocked(c)
    /\ home' = [home EXCEPT ![c] = p]
    /\ Asked
    /\ UNCHANGED <<live, version, text, stale, history, failures, pc, job>>

-----------------------------------------------------------------------------
Init ==
    /\ live = Parents
    /\ version = [p \in Parents |-> 1]
    /\ text \in [Parents -> Texts \union {Empty}]
    /\ home \in [Children -> Parents]
    /\ stale = {}
    /\ history = {}
    /\ failures = {}
    /\ pc = [m \in Merges |-> "idle"]
    /\ job = [m \in Merges |-> Blank]
    /\ asks = 0

Continue(m) ==
    \/ ReadSource(m) \/ ReadTarget(m) \/ Refuse(m)
    \/ CheckSource(m) \/ Conflict(m)
    \/ Repoint(m) \/ UpdateTarget(m) \/ DeleteSource(m) \/ Abort(m)
    \/ Reload(m) \/ Log(m) \/ Sync(m)

Ask ==
    \/ \E m \in Merges, s, t \in Parents :
          \E v \in 1..version[s] : MergeAsk(m, s, t, v)
    \/ \E p \in Parents, x \in Texts : EditParent(p, x)
    \/ \E c \in Children, p \in Parents : MoveChild(c, p)

Next == Ask \/ \E m \in Merges : Continue(m) \/ Fail(m)

\* A running merge is not suspended for ever; nobody has to ask.
Fairness == \A m \in Merges : WF_vars(Continue(m))

Spec == Init /\ [][Next]_vars /\ Fairness

-----------------------------------------------------------------------------
\* Rows, children and calls are always readable.
TypeOK ==
    /\ live \subseteq Parents
    /\ version \in [Parents -> Nat]
    /\ text \in [Parents -> Texts \union {Empty}]
    /\ home \in [Children -> Parents]
    /\ stale \subseteq Tables
    /\ history \subseteq Parents \X Parents
    /\ failures \subseteq [source : Parents, tables : SUBSET Tables]
    /\ pc \in [Merges -> Steps]
    /\ job \in [Merges -> Job]
    /\ \A m \in Merges : pc[m] # "idle" => /\ job[m].s \in Parents
                                            /\ job[m].t \in Parents
                                            /\ job[m].s # job[m].t
    /\ asks \in Nat

\* Merges running against each other and against editors who move children
\* hand over each child exactly as one atomic merge would: no room is left
\* behind under a deleted building, none is taken from an editor who
\* moved it elsewhere in between, none follows the wrong merge. The re-point
\* and the delete are statements apart, and only the locks and the foreign key
\* hold them together.
EF == INSTANCE EntityFamily
FamiliesKept == EF!Spec

\* The inductive invariant. A merge inside its transaction has read both rows.
ReadsKept ==
    \A m \in Merges :
        pc[m] \in {"checked", "repointed", "updated"} => BothRead(m)

\* The children it has re-pointed still name its source for everybody else,
\* and the target cannot vanish under a lock.
HeldChildren ==
    \A m \in Merges : Holding(m) =>
        /\ \A c \in job[m].moved : home[c] = job[m].s
        /\ job[m].moved # {} => job[m].t \in live
        /\ Updating(m, job[m].t) => job[m].t \in live

\* No two merges have re-pointed the same child.
ExclusiveChildren ==
    \A m, n \in Merges :
        m # n /\ Holding(m) /\ Holding(n) => job[m].moved \cap job[n].moved = {}

\* A merge that has committed and is yet to change the sync keys.
Finishing(m) == pc[m] \in {"committed", "loaded", "logged"}

\* Nobody goes back to a merge that stopped half-way: while a table it announces
\* is stale, or a vanished parent has no entry, the merge that did it must be
\* on its way to the key or the entry, or have failed. MergesAnnounced and
\* MergesRecorded rest on it.
KeysOwed ==
    \A table \in stale \cap K.announces :
        \/ \E m \in Merges : Finishing(m) /\ table \in Written(m)
        \/ \E f \in failures : table \in f.tables

EntriesOwed ==
    \A p \in Parents \ live :
        \/ \E t \in Parents : <<p, t>> \in history
        \/ \E m \in Merges : pc[m] \in {"committed", "loaded"} /\ job[m].s = p
        \/ \E f \in failures : f.source = p

IInv ==
    /\ TypeOK /\ EF!Housed /\ ReadsKept /\ HeldChildren /\ ExclusiveChildren
    /\ KeysOwed /\ EntriesOwed

\* Viewers learn of a merge: each table it wrote to is announced by a new sync
\* key in the end, whether other merges are refused, fail or wait beside it,
\* except when one that wrote it fails after its commit. This is so for
\* colleges and for divisions.
MergesAnnounced ==
    \A table \in Tables :
        (table \in stale)
            ~> (table \notin stale \/ \E f \in failures : table \in f.tables)

\* Where a vanished entity went can be looked up: it gets its "merged_into"
\* entry, written after the commit, unless the merge fails in between.
MergesRecorded ==
    \A p \in Parents :
        (p \notin live) ~> \/ \E t \in Parents : <<p, t>> \in history
                           \/ \E f \in failures : f.source = p

-----------------------------------------------------------------------------
(* A statement of the repository's documents that the code does not keep;   *)
(* MergeStaleTarget shows a counterexample.                                 *)

Commits(m) == pc[m] = "updated" /\ pc'[m] = "committed"

\* "Saving with a stale version returns a conflict instead of overwriting
\* another editor's change": a merge leaves what the target says, unless it
\* says nothing. It writes back the target's text as read before the
\* transaction, over any later save.
KeepsTargetEdits ==
    [][\A m \in Merges :
          Commits(m) /\ job[m].wrote /\ text[job[m].t] # Empty
              => text'[job[m].t] = text[job[m].t]]_vars
=============================================================================
