----------------------------- MODULE CacheSync -----------------------------
(***************************************************************************)
(* A table of the browser's cache and its sync key                         *)
(* (src/lib/local/data/: localTableSyncCheck, getEntity and the sync       *)
(* functions of sync.ts, as AppRoot.svelte's refreshFromNetwork runs them).*)
(*                                                                         *)
(* The server writes rows and, in a later statement, a new random key. A   *)
(* refresh reads the key, compares it with the one in local storage,       *)
(* fetches the rows if they differ or the cache is empty, writes them to   *)
(* the browser's database and then stores the key: two durable writes,     *)
(* between which the page can be closed. Refreshes start when the page     *)
(* loads, when it comes back online and when a proposal is published, and  *)
(* do not wait for each other.                                             *)
(*                                                                         *)
(* Tables are written in three ways. Events and jeepney routes: in one     *)
(* transaction of the browser's database. Announcements: deleted, then     *)
(* inserted row by row, errors swallowed. Buildings, and like them         *)
(* colleges, divisions, dorms, organizations and places: rows are inserted *)
(* or updated one by one, errors swallowed, and rows the server has        *)
(* deleted stay. Classes are not here: their answer is no array, so no     *)
(* rows of theirs ever reach the cache.                                    *)
(*                                                                         *)
(* A row is the number of the change that wrote it, 0 if there is no such  *)
(* row. A key is the number of its announcement; 0 stands for "".          *)
(***************************************************************************)
EXTENDS Integers, Sequences

CONSTANTS
    Refreshes,   \* refreshes that can be under way at one time
    Ids,         \* rows of the table
    Tables,      \* tables looked at
    Overlapping, \* those whose refreshes may overlap
    Evictable,   \* those the browser may drop
    None,        \* no key could be read
    MaxChanges,  \* bound on the changes made on the server
    MaxAsks      \* bound on the refreshes begun

Transactional == {"events", "jeepney_routes"}

\* Errors of single rows, and of the DELETE, are swallowed.
Tolerant == {"announcements", "buildings"}

\* TrustedIsFresh does not survive that of a table written row by row.
ASSUME TablesAssumption ==
    /\ Tables \subseteq Transactional \union Tolerant
    /\ Overlapping \subseteq Transactional
    /\ Evictable \subseteq Transactional
ASSUME NoneAssumption == None \notin Nat
ASSUME BoundsAssumption == MaxChanges \in Nat /\ MaxAsks \in Nat

VARIABLES
    table,       \* the one looked at; never changes
    past,        \* the server's rows after each change, oldest first
    announced,   \* for each key the server has had, the change it followed
    writers,     \* server calls between their write and their new key
    local,       \* the rows of the cache
    stored,      \* the key in local storage
    spoilt,      \* rows lost to swallowed errors or left behind
    torn,        \* older rows were written over those of the stored key and
                 \* the page closed before their own key was (never stored)
    pc,          \* where each refresh stands
    job,         \* what it has read
    asks         \* refreshes begun, for the bound

serverVars == <<table, past, announced, writers>>
localVars == <<local, stored, spoilt, torn>>
vars == <<serverVars, localVars, pc, job, asks>>

-----------------------------------------------------------------------------
Rows == [Ids -> Nat]
NoRows == [i \in Ids |-> 0]

Now == Len(past)
RemoteKey == Len(announced)

Job == [key : Nat \union {None}, valid : BOOLEAN, since : Nat, rows : Rows,
        todo : SUBSET Ids]

Blank == [key |-> None, valid |-> FALSE, since |-> 0, rows |-> NoRows,
          todo |-> {}]

Steps == {"idle", "begun", "keyRead", "checked", "fetching", "fetched",
          "syncing", "writing", "committed"}

Goto(r, step) == pc' = [pc EXCEPT ![r] = step]

Finish(r) == Goto(r, "idle") /\ job' = [job EXCEPT ![r] = Blank]

\* The rows of a response that was put together since change s: each as it was
\* at some time since. Events are read by several statements of the server.
Responses(s) ==
    {rows \in [Ids -> UNION {{past[n][i] : i \in Ids} : n \in s..Now}] :
        IF table = "events"
        THEN \A i \in Ids : \E n \in s..Now : rows[i] = past[n][i]
        ELSE \E n \in s..Now : rows = past[n]}

-----------------------------------------------------------------------------
\* The server: a row is inserted, updated or deleted ...
Change(i, there) ==
    /\ Now <= MaxChanges
    /\ past' = Append(past, [past[Now] EXCEPT ![i] = IF there THEN Now + 1
                                                              ELSE 0])
    /\ writers' = writers + 1
    /\ UNCHANGED <<table, announced, localVars, pc, job, asks>>

\* ... and the key changes in a later statement (refreshSyncKey), if that
\* statement is reached.
Announce ==
    /\ writers > 0
    /\ writers' = writers - 1
    /\ announced' = Append(announced, Now)
    /\ UNCHANGED <<table, past, localVars, pc, job, asks>>

-----------------------------------------------------------------------------
\* refreshFromNetwork
Begin(r) ==
    /\ table \in Overlapping \/ \A q \in Refreshes : pc[q] = "idle"
    /\ pc[r] = "idle"
    /\ asks < MaxAsks
    /\ asks' = asks + 1
    /\ Goto(r, "begun")
    /\ UNCHANGED <<serverVars, localVars, job>>

\* getSyncKey: GET /api/check/<table>, null when it cannot be reached.
ReadKey(r) ==
    /\ pc[r] = "begun"
    /\ \E key \in {RemoteKey, None} :
          job' = [job EXCEPT ![r].key = key]
    /\ Goto(r, "keyRead")
    /\ UNCHANGED <<serverVars, localVars, asks>>

\* localTableSyncCheck: local storage is read after the answer has come.
Compare(r) ==
    /\ pc[r] = "keyRead"
    /\ job' = [job EXCEPT ![r].valid = (stored = job[r].key)]
    /\ Goto(r, "checked")
    /\ UNCHANGED <<serverVars, localVars, asks>>

\* Mutant of Cached: an unreachable server is not told from a changed key.
CachedOnlyIfValid(r) == job[r].valid /\ local # NoRows

\* Offline the cache must do, and while the key is valid, unless it is empty:
\* the key in local storage can outlive the browser's database.
Cached(r) == job[r].key = None \/ (job[r].valid /\ local # NoRows)

\* getEntity returns the rows of the cache, which no sync writes back.
LoadCached(r) ==
    /\ pc[r] = "checked"
    /\ Cached(r)
    /\ Finish(r)
    /\ UNCHANGED <<serverVars, localVars, asks>>

\* getEntity: GET /api/<table>
Request(r) ==
    /\ pc[r] = "checked"
    /\ ~Cached(r)
    /\ job' = [job EXCEPT ![r].since = Now]
    /\ Goto(r, "fetching")
    /\ UNCHANGED <<serverVars, localVars, asks>>

Receive(r) ==
    /\ pc[r] = "fetching"
    /\ \E rows \in Responses(job[r].since) :
          job' = [job EXCEPT ![r].rows = rows]
    /\ Goto(r, "fetched")
    /\ UNCHANGED <<serverVars, localVars, asks>>

\* The attempts of fetchJsonWithRetry failed. For events that are not valid,
\* retryStaleEventsInBackground fetches again, up to five times (not
\* counted here), with the check it was given.
Retry(r) ==
    /\ pc[r] = "fetching"
    /\ table = "events" /\ ~job[r].valid
    /\ job' = [job EXCEPT ![r].since = Now]
    /\ UNCHANGED <<serverVars, localVars, pc, asks>>

\* It gives up: the cache is shown as it is.
FetchFails(r) ==
    /\ pc[r] = "fetching"
    /\ Finish(r)
    /\ UNCHANGED <<serverVars, localVars, asks>>

-----------------------------------------------------------------------------
\* shouldSkipValidSync
Skips(r) == job[r].valid /\ local # NoRows

Skip(r) ==
    /\ pc[r] = "fetched"
    /\ Skips(r)
    /\ Finish(r)
    /\ UNCHANGED <<serverVars, localVars, asks>>

StartSync(r) ==
    /\ pc[r] = "fetched"
    /\ ~Skips(r)
    /\ Goto(r, "syncing")
    /\ UNCHANGED <<serverVars, localVars, job, asks>>

\* syncEvents, syncJeepneyRoutes: the transaction that deletes and inserts
\* everything. A page's transactions wait for each other, and what follows
\* the await of one runs before the next can end: a refresh does not commit
\* while another is between its commit and its key.
Rebuild(r) ==
    /\ table \in Transactional
    /\ pc[r] = "syncing"
    /\ \A q \in Refreshes : pc[q] # "committed"
    /\ local' = job[r].rows
    /\ torn' = FALSE
    /\ Goto(r, "committed")
    /\ UNCHANGED <<serverVars, stored, spoilt, job, asks>>

\* Mutant of StoreKey: the key of another check is stored.
StoreNewestKey(r) ==
    /\ pc[r] = "committed"
    /\ stored' = RemoteKey
    /\ Finish(r)
    /\ UNCHANGED <<serverVars, local, spoilt, torn, asks>>

\* updateSyncKeyFromLs, after the rows, however they were written.
StoreKey(r) ==
    /\ pc[r] = "committed"
    /\ stored' = job[r].key
    /\ Finish(r)
    /\ UNCHANGED <<serverVars, local, spoilt, torn, asks>>

\* The loop over rows goes on with todo, each row durable by itself.
Loop(r, todo) ==
    /\ job' = [job EXCEPT ![r] = [@ EXCEPT !.todo = todo]]
    /\ Goto(r, IF todo = {} THEN "committed" ELSE "writing")

ToWrite(r) == {i \in Ids : job[r].rows[i] # 0}

\* DELETE FROM announcements
Clear(r) ==
    /\ table = "announcements"
    /\ pc[r] = "syncing"
    /\ local' = NoRows
    /\ spoilt' = spoilt \intersect ToWrite(r)
    /\ Loop(r, ToWrite(r))
    /\ UNCHANGED <<serverVars, stored, torn, asks>>

\* There is no DELETE, or its error is swallowed: rows the server no longer
\* has stay.
KeepOld(r) ==
    /\ table \in Tolerant
    /\ pc[r] = "syncing"
    /\ spoilt' = (spoilt \intersect ToWrite(r))
                    \union {i \in Ids \ ToWrite(r) : local[i] # 0}
    /\ Loop(r, ToWrite(r))
    /\ UNCHANGED <<serverVars, local, stored, torn, asks>>

\* Mutant of Insert: the key is stored with the first row.
InsertKeyFirst(r, i) ==
    /\ pc[r] = "writing"
    /\ i \in job[r].todo
    /\ local' = [local EXCEPT ![i] = job[r].rows[i]]
    /\ spoilt' = spoilt \ {i}
    /\ stored' = job[r].key
    /\ Loop(r, job[r].todo \ {i})
    /\ UNCHANGED <<serverVars, torn, asks>>

\* INSERT ... ON CONFLICT (id) DO UPDATE
Insert(r, i) ==
    /\ pc[r] = "writing"
    /\ i \in job[r].todo
    /\ local' = [local EXCEPT ![i] = job[r].rows[i]]
    /\ spoilt' = spoilt \ {i}
    /\ Loop(r, job[r].todo \ {i})
    /\ UNCHANGED <<serverVars, stored, torn, asks>>

\* The error of a row is swallowed.
LoseRow(r, i) ==
    /\ table \in Tolerant
    /\ pc[r] = "writing"
    /\ i \in job[r].todo
    /\ spoilt' = spoilt \union {i}
    /\ Loop(r, job[r].todo \ {i})
    /\ UNCHANGED <<serverVars, local, stored, torn, asks>>

\* A statement fails: the transaction is rolled back and no key stored.
SyncFails(r) ==
    /\ table \in Transactional
    /\ pc[r] = "syncing"
    /\ Finish(r)
    /\ UNCHANGED <<serverVars, localVars, asks>>

-----------------------------------------------------------------------------
\* invalidateLocalSyncKeys, after a proposal was published from this browser.
Invalidate ==
    /\ stored # 0
    /\ stored' = 0
    /\ UNCHANGED <<serverVars, local, spoilt, torn, pc, job, asks>>

\* Rows of a refresh that another, with a newer key, had overtaken, before its
\* own key brings down the stored one.
Overtaken(r) == pc[r] = "committed" /\ job[r].key < stored

\* The page is closed or reloaded: whatever was running is gone.
Close ==
    /\ \E r \in Refreshes : pc[r] # "idle"
    /\ pc' = [r \in Refreshes |-> "idle"]
    /\ job' = [r \in Refreshes |-> Blank]
    /\ torn' = (torn \/ \E r \in Refreshes : Overtaken(r))
    /\ UNCHANGED <<serverVars, local, stored, spoilt, asks>>

\* The browser drops the database of a site that is not open, but not its
\* local storage.
Evict ==
    /\ table \in Evictable
    /\ \A r \in Refreshes : pc[r] = "idle"
    /\ local # NoRows
    /\ local' = NoRows
    /\ UNCHANGED <<serverVars, stored, spoilt, torn, pc, job, asks>>

-----------------------------------------------------------------------------
Init ==
    /\ table \in Tables
    /\ \E rows \in [Ids -> {0, 1}] : past = <<rows>>
    /\ announced = <<1>>
    /\ writers = 0
    /\ local = NoRows
    /\ stored = 0
    /\ spoilt = {}
    /\ torn = FALSE
    /\ pc = [r \in Refreshes |-> "idle"]
    /\ job = [r \in Refreshes |-> Blank]
    /\ asks = 0

Continue(r) ==
    \/ ReadKey(r) \/ Compare(r)
    \/ LoadCached(r) \/ Request(r) \/ Receive(r) \/ Retry(r) \/ FetchFails(r)
    \/ Skip(r) \/ StartSync(r)
    \/ Rebuild(r) \/ StoreKey(r) \/ Clear(r) \/ KeepOld(r)
    \/ \E i \in Ids : Insert(r, i) \/ LoseRow(r, i)
    \/ SyncFails(r)

Server == (\E i \in Ids, there \in BOOLEAN : Change(i, there)) \/ Announce

Next ==
    \/ Server
    \/ \E r \in Refreshes : Begin(r) \/ Continue(r)
    \/ Invalidate
    \/ Close
    \/ Evict

Spec == Init /\ [][Next]_vars

-----------------------------------------------------------------------------
\* The server's past, the cache and what each refresh knows are readable.
TypeOK ==
    /\ table \in Tables
    /\ past \in Seq(Rows) /\ past # <<>>
    /\ announced \in Seq(Nat \ {0}) /\ announced # <<>>
    /\ writers \in Nat
    /\ local \in Rows
    /\ stored \in Nat
    /\ spoilt \subseteq Ids
    /\ torn \in BOOLEAN
    /\ pc \in [Refreshes -> Steps]
    /\ job \in [Refreshes -> Job]
    /\ asks \in Nat

\* Of ids, rows none of which is older than the announcement of key.
AtLeast(rows, key, ids) ==
    \A i \in ids : \E n \in announced[key]..Now : rows[i] = past[n][i]

\* A cache that passes for valid, because the stored key is the server's and
\* the cache is not empty, holds everything that was announced: no row is
\* missing, older or deleted, but for those whose error was swallowed or that
\* nobody deletes. Key and rows are read from the server apart, a refresh may
\* be closed half-way, and the key stored is always one read before. Refreshes
\* of tables written in a transaction may overtake each other, and the
\* browser's database may be lost while their key survives. The one exception:
\* the rows of an overtaken refresh lie under the newer key until its own is
\* stored, and for good (torn) when the page is closed just there.
TrustedIsFresh ==
    /\ stored = RemoteKey /\ local # NoRows
    /\ ~torn /\ \A r \in Refreshes : ~Overtaken(r)
    => AtLeast(local, stored, Ids \ spoilt)

\* Why. A key is announced after the change it stands for, a newer key no
\* earlier;
KeysAnnounced ==
    /\ \A key \in 1..RemoteKey : announced[key] \in 1..Now
    /\ \A k, l \in 1..RemoteKey : k <= l => announced[k] <= announced[l]

\* what a refresh fetches is no older than the key it read before;
JobsFresh ==
    \A r \in Refreshes :
        /\ job[r].key \in 1..RemoteKey \union {None}
        /\ pc[r] \in {"fetching", "fetched", "syncing", "writing", "committed"} =>
              job[r].key # None
        /\ pc[r] = "fetching" => job[r].since \in announced[job[r].key]..Now
        /\ pc[r] \in {"fetched", "syncing", "writing", "committed"} =>
              AtLeast(job[r].rows, job[r].key, Ids)

Honest == TypeOK /\ KeysAnnounced /\ JobsFresh

\* where rows are written together they are as new as the stored key, be it
\* the server's or not, unless they are an overtaken refresh's, and elsewhere
\* as long as the key is the server's;
StoredFresh ==
    stored # 0 =>
        /\ stored \in 1..RemoteKey
        /\ \/ table \in Transactional /\ local = NoRows
           \/ torn \/ \E r \in Refreshes : Overtaken(r)
           \/ table \notin Transactional /\ stored # RemoteKey
           \/ AtLeast(local, stored, Ids \ spoilt)

\* elsewhere, and wherever refreshes do not overlap, a refresh is alone,
Alone ==
    table \notin Overlapping =>
        \A r, q \in Refreshes : pc[r] # "idle" /\ pc[q] # "idle" => r = q

\* and its key no older than the stored one, newer unless the cache is empty,
\* so that it is never overtaken, and a page closed at a bad time harms only
\* tables whose refreshes overlap;
JobsNewer ==
    table \notin Overlapping =>
        /\ ~torn
        /\ \A r \in Refreshes :
              pc[r] \notin {"idle", "begun"} /\ job[r].key # None =>
                  stored <= job[r].key

EmptyIfValid ==
    table \notin Transactional =>
        \A r \in Refreshes :
            /\ pc[r] \notin {"idle", "begun", "keyRead"} /\ job[r].key # None
               /\ ~job[r].valid => stored # job[r].key
            /\ pc[r] \in {"fetching", "fetched", "syncing"} /\ job[r].valid =>
                  local = NoRows

\* what it is done with is written, spoilt or gone;
JobsWritten ==
    \A r \in Refreshes :
        /\ pc[r] = "writing" =>
              /\ table \notin Transactional
              /\ \A i \in Ids \ job[r].todo :
                    local[i] = job[r].rows[i] \/ i \in spoilt
        /\ pc[r] = "committed" =>
              \A i \in Ids : local[i] = job[r].rows[i] \/ i \in spoilt

\* one refresh at a time is between its rows and its key;
OneCommitted ==
    \A r, q \in Refreshes : pc[r] = "committed" /\ pc[q] = "committed" => r = q

\* and only where errors are swallowed, rows are lost.
SpoiltTolerated == spoilt # {} => table \in Tolerant

IInv == /\ Honest /\ StoredFresh
        /\ Alone /\ JobsNewer /\ EmptyIfValid
        /\ JobsWritten /\ OneCommitted /\ SpoiltTolerated
=============================================================================
