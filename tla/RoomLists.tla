----------------------------- MODULE RoomLists -----------------------------
(***************************************************************************)
(* Room lists of buildings, colleges and divisions: the panel that shows   *)
(* one (src/components/svelte/controls/BuildingResult.svelte and its two   *)
(* siblings), the local rows it is painted from (src/lib/local/data/       *)
(* sync.ts, utils.ts), and the download of all lists                       *)
(* (campus-directory-sync.ts). Loads run side by side: a selection does    *)
(* not wait for the one before, and the download works through all lists   *)
(* while people look at some. They share the rows and the flags.           *)
(*                                                                         *)
(* Data abstraction. A row of a room is the set of lists it belongs to, at *)
(* most one of each kind; {} is no row. No function stores the sync key of *)
(* rooms, so a check that reaches the server always finds a mismatch.      *)
(***************************************************************************)
EXTENDS Integers, FiniteSets

CONSTANTS
    Rooms,
    Lists,      \* the buildings, colleges and divisions
    Kinds,      \* building, college, division
    KindOf,     \* what a list is the list of
    Order,      \* the place of each list in a download
    Clearing,   \* kinds whose panel is emptied when the selection changes
    Worlds,     \* what the server may hold
    Start,      \* and what it holds at first
    Loads,      \* loads of a panel
    Download,   \* the download of all lists
    None,       \* nothing selected, shown or mounted
    MaxOverlap, \* bound on the jobs under way at a time
    MaxAsks,    \* bound on what people do
    MaxFailures \* bound on requests and statements that fail

ASSUME KindAssumption == KindOf \in [Lists -> Kinds]
ASSUME OrderAssumption == Order \in [Lists -> Nat]
ASSUME LoadsAssumption == IsFiniteSet(Loads) /\ Download \notin Loads
ASSUME NoneAssumption ==
    None \notin Lists \union Kinds \union [of : Lists, rooms : SUBSET Rooms]
ASSUME BoundsAssumption ==
    /\ MaxAsks \in Nat /\ MaxFailures \in Nat
    /\ MaxOverlap \in 0 .. Cardinality(Loads)

Jobs == Loads \union {Download}

\* What a row may say.
Places ==
    {P \in SUBSET Lists :
        \A l, m \in P : KindOf[l] = KindOf[m] => l = m}

ASSUME WorldsAssumption == Worlds \subseteq [Rooms -> Places] /\ Start \in Worlds

VARIABLES
    server,     \* rooms on the server
    cached,     \* rooms in the local database
    fetched,    \* rooms_fetched of each list
    panel,      \* the kind of panel that is mounted
    selected,   \* the list it was given
    shown,      \* the list and the rooms it shows
    lately,     \* what the list held on the server since it was selected
    job,        \* where each load stands
    directory,  \* directoryStatus
    left,       \* lists the download has yet to take
    skipped,    \* lists it settled for less on
    stayed,     \* rooms that did not change since it started
    asks,       \* calls made so far, for the bound
    failures    \* failures so far, for the bound

vars == <<server, cached, fetched, panel, selected, shown, lately, job,
          directory, left, skipped, stayed, asks, failures>>

serverVars == <<server, stayed>>
cacheVars == <<cached, fetched>>
panelVars == <<panel, selected, shown, lately>>
directoryVars == <<directory, left, skipped>>
bounds == <<asks, failures>>

-----------------------------------------------------------------------------
Asked == asks < MaxAsks /\ asks' = asks + 1

Failed == failures < MaxFailures /\ failures' = failures + 1

Fails == Failed /\ UNCHANGED asks

\* The rows of list l in a table.
RowsOf(table, l) ==
    {[room |-> r, at |-> table[r]] : r \in {q \in Rooms : l \in table[q]}}

RoomsIn(rows) == {row.room : row \in rows}

Pcs == {"look", "check", "get", "fetch", "show", "sync", "done"}

Idle ==
    [pc |-> "done", list |-> None, local |-> FALSE, valid |-> FALSE,
     rows |-> {}, again |-> FALSE, seen |-> FALSE, current |-> FALSE,
     less |-> FALSE]

\* Load j writes to the panel that is mounted, and no later load does.
Latest(j) == job[j].seen /\ job[j].current

\* A load that is over; of the latest one it is kept how it ended.
Over(x) ==
    IF x.seen /\ x.current
    THEN [Idle EXCEPT !.seen = TRUE, !.current = TRUE, !.less = x.less]
    ELSE Idle

\* Jobs under way; another may be started beside them.
UnderWay ==
    {j \in Jobs : job[j].pc # "done"}
        \union (IF directory = "downloading" THEN {Download} ELSE {})

MayStart == Cardinality(UnderWay) < MaxOverlap

Becomes(j, x) ==
    job' = [job EXCEPT ![j] = IF x.pc = "done" THEN Over(x) ELSE x]

At(j, pc) == job[j].pc = pc

-----------------------------------------------------------------------------
(* BuildingResult.svelte, CollegeResult.svelte, DivisionResult.svelte *)

\* Mutant of Outdated: an earlier load goes on counting as the latest.
OutdatedOnlyByRemount(x, remount) ==
    IF remount THEN [x EXCEPT !.seen = FALSE] ELSE x

\* The loads of the panel, once another one starts in it or takes its place.
Outdated(x, remount) ==
    LET y == IF remount THEN [x EXCEPT !.seen = FALSE]
             ELSE [x EXCEPT !.current = @ /\ ~x.seen] IN
    IF y.pc = "done" THEN Over(y) ELSE y

\* The effect: list l is selected, or its record changed. A panel of another
\* kind is mounted afresh.
Open(l) ==
    LET j == CHOOSE i \in Loads \ UnderWay : TRUE
        remount == panel # KindOf[l]
        clears == KindOf[l] \in Clearing /\ l # selected IN
    /\ Asked
    /\ MayStart
    /\ panel' = KindOf[l]
    /\ selected' = l
    /\ shown' = IF remount \/ clears THEN None ELSE shown
    /\ lately' = {RoomsIn(RowsOf(server, l))}
    /\ job' = [i \in Jobs |->
                  IF i = j THEN [Idle EXCEPT !.pc = "look", !.list = l,
                                             !.seen = TRUE, !.current = TRUE]
                           ELSE Outdated(job[i], remount)]
    /\ UNCHANGED <<serverVars, cacheVars, directoryVars, failures>>

\* The effect finds nothing selected: the list is emptied, and a load on its
\* way is not called off.
Unselect ==
    /\ Asked
    /\ selected # None
    /\ selected' = None
    /\ shown' = None
    /\ lately' = {}
    /\ UNCHANGED <<panel, job, serverVars, cacheVars, directoryVars, failures>>

\* The rows there are get painted.
Look(j) ==
    LET x == job[j]
        rows == RowsOf(cached, x.list) IN
    /\ At(j, "look")
    /\ shown' = IF Latest(j) /\ rows # {}
                THEN [of |-> x.list, rooms |-> RoomsIn(rows)] ELSE shown
    /\ Becomes(j, [x EXCEPT !.pc = "check", !.local = (rows # {})])
    /\ UNCHANGED <<panel, selected, lately, serverVars, cacheVars,
                   directoryVars, bounds>>

\* Mutant of After: what was painted is left as it is.
AfterNoRefresh(x) == [x EXCEPT !.pc = "done", !.rows = {}]

\* What follows the first list shown: a fresh one, if it was painted from rows
\* that may be stale.
After(x) ==
    IF x.again \/ x.valid \/ ~x.local
    THEN [x EXCEPT !.pc = "done", !.rows = {}]
    ELSE [x EXCEPT !.pc = "fetch", !.rows = {}, !.again = TRUE]

\* Mutant of Show: whose list it is is not asked.
ShowAnyway(j) ==
    LET x == job[j] IN
    /\ At(j, "show")
    /\ shown' = [of |-> x.list, rooms |-> RoomsIn(x.rows)]
    /\ Becomes(j, [x EXCEPT !.pc = "done"])
    /\ UNCHANGED <<panel, selected, lately, serverVars, cacheVars,
                   directoryVars, bounds>>

\* The list is shown, unless another was selected meanwhile; a refresh that
\* brought nothing is not. What has to be written then is.
Show(j) ==
    LET x == job[j]
        stops == ~x.current \/ (x.again /\ x.rows = {}) IN
    /\ At(j, "show")
    /\ shown' = IF Latest(j) /\ ~stops
                THEN [of |-> x.list, rooms |-> RoomsIn(x.rows)] ELSE shown
    /\ Becomes(j, IF stops THEN [x EXCEPT !.pc = "done", !.less = TRUE]
                  ELSE IF x.valid \/ x.rows = {} THEN After(x)
                  ELSE [x EXCEPT !.pc = "sync"])
    /\ UNCHANGED <<panel, selected, lately, serverVars, cacheVars,
                   directoryVars, bounds>>

-----------------------------------------------------------------------------
(* sync.ts, utils.ts: steps of both kinds of load *)

\* The download settles for less on its list.
Skip(j) ==
    skipped' = IF j = Download THEN skipped \union {job[j].list} ELSE skipped

\* checkLocalBuildingRoom and its siblings. Without an answer the flag
\* decides; with one, or after an error, the rows count as stale, and all flags
\* of the kind are taken back, if that works.
Check(j) ==
    LET x == job[j]
        kind == {l \in Lists : KindOf[l] = KindOf[x.list]} IN
    /\ At(j, "check")
    /\ \/ /\ Becomes(j, [x EXCEPT !.pc = "get", !.valid = fetched[x.list]])
          /\ Fails
          /\ UNCHANGED fetched
       \/ /\ Becomes(j, [x EXCEPT !.pc = "get"])
          /\ \/ /\ fetched' = [l \in Lists |-> fetched[l] /\ l \notin kind]
                /\ UNCHANGED bounds
             \/ Fails /\ UNCHANGED fetched
    /\ UNCHANGED <<cached, panelVars, serverVars, directoryVars>>

\* Mutant of Get: a list without rows is not asked for.
GetLocalOnly(j) ==
    /\ At(j, "get")
    /\ Becomes(j, [job[j] EXCEPT !.pc = "show",
                                 !.rows = RowsOf(cached, job[j].list)])
    /\ UNCHANGED <<panelVars, cacheVars, serverVars, directoryVars, bounds>>

\* getEntityRooms: the rows there are, however few; the server is asked only
\* when there is none.
Get(j) ==
    LET x == job[j]
        rows == RowsOf(cached, x.list) IN
    /\ At(j, "get")
    /\ IF rows # {} \/ x.valid
       THEN /\ Becomes(j, [x EXCEPT !.pc = "show", !.rows = rows,
                                    !.less = x.valid \/ ~x.local])
            /\ Skip(j)
       ELSE /\ Becomes(j, [x EXCEPT !.pc = "fetch"])
            /\ UNCHANGED skipped
    /\ UNCHANGED <<panelVars, cacheVars, serverVars, directory, left, bounds>>

\* fetchEntityRoomsRemote is answered.
Answer(j) ==
    LET x == job[j] IN
    /\ At(j, "fetch")
    /\ Becomes(j, [x EXCEPT !.pc = "show", !.rows = RowsOf(server, x.list)])
    /\ UNCHANGED <<panelVars, cacheVars, serverVars, directoryVars, bounds>>

\* Mutant of NoAnswer: the error is not caught.
NoAnswerThrows(j) ==
    /\ At(j, "fetch")
    /\ Fails
    /\ Becomes(j, [job[j] EXCEPT !.pc = "done", !.less = TRUE])
    /\ UNCHANGED <<panelVars, cacheVars, serverVars, directoryVars>>

\* It fails: an empty list.
NoAnswer(j) ==
    /\ At(j, "fetch")
    /\ Fails
    /\ Becomes(j, [job[j] EXCEPT !.pc = "show", !.less = TRUE])
    /\ Skip(j)
    /\ UNCHANGED <<panelVars, cacheVars, serverVars, directory, left>>

\* syncBuildingRooms and its siblings: one row, which may fail.
WriteRow(j) ==
    LET x == job[j] IN
    /\ At(j, "sync")
    /\ \E row \in x.rows :
          /\ Becomes(j, [x EXCEPT !.rows = @ \ {row}])
          /\ \/ cached' = [cached EXCEPT ![row.room] = row.at]
                /\ UNCHANGED <<skipped, bounds>>
             \/ Fails /\ Skip(j) /\ UNCHANGED cached
    /\ UNCHANGED <<fetched, panelVars, serverVars, directory, left>>

\* The last statement: the list counts as fetched. When it fails a load of the
\* panel ends there.
Flag(j) ==
    LET x == job[j] IN
    /\ j # Download
    /\ At(j, "sync")
    /\ x.rows = {}
    /\ \/ /\ fetched' = [fetched EXCEPT ![x.list] = TRUE]
          /\ Becomes(j, After(x))
          /\ UNCHANGED bounds
       \/ /\ Becomes(j, [x EXCEPT !.pc = "done", !.less = ~x.again])
          /\ Fails
          /\ UNCHANGED fetched
    /\ UNCHANGED <<cached, panelVars, serverVars, directoryVars>>

-----------------------------------------------------------------------------
(* campus-directory-sync.ts, and downloadCampusDirectory of
   sync-stores.svelte.ts *)

\* The download starts with the buildings, colleges and divisions. Those of a
\* kind may have changed, which takes their flags back; or be asked for in vain
\* and not be there, which leaves their lists out.
StartDownload ==
    /\ Asked
    /\ MayStart
    /\ directory # "downloading"
    /\ directory' = "downloading"
    /\ \E K \in SUBSET Kinds :
          fetched' = [l \in Lists |-> fetched[l] /\ KindOf[l] \notin K]
    /\ \/ left' = Lists /\ UNCHANGED failures
       \/ /\ Failed
          /\ \E k \in Kinds : left' = {l \in Lists : KindOf[l] # k}
    /\ skipped' = Lists \ left'
    /\ stayed' = Rooms
    /\ UNCHANGED <<server, cached, panelVars, job>>

\* Mutant of NextList: the last list is not waited for.
NextListLeavesOne ==
    /\ directory = "downloading"
    /\ At(Download, "done")
    /\ \E l \in left :
          /\ left' = left \ {l}
          /\ IF left' = {}
             THEN directory' = "done" /\ UNCHANGED job
             ELSE /\ Becomes(Download, [Idle EXCEPT !.pc = "check", !.list = l])
                  /\ UNCHANGED directory
    /\ UNCHANGED <<serverVars, cacheVars, panelVars, skipped, bounds>>

\* The next list; after the last one all counts as saved.
NextList ==
    /\ directory = "downloading"
    /\ At(Download, "done")
    /\ \/ \E l \in left :
             /\ \A m \in left : Order[l] <= Order[m]
             /\ left' = left \ {l}
             /\ Becomes(Download, [Idle EXCEPT !.pc = "check", !.list = l])
             /\ UNCHANGED directory
       \/ /\ left = {}
          /\ directory' = "done"
          /\ UNCHANGED <<left, job>>
    /\ UNCHANGED <<serverVars, cacheVars, panelVars, skipped, bounds>>

\* Nothing is shown; the rows of the list are written, if there are any.
Take ==
    LET x == job[Download] IN
    /\ At(Download, "show")
    /\ Becomes(Download,
               [x EXCEPT !.pc = IF x.valid \/ x.rows = {} THEN "done"
                                                          ELSE "sync"])
    /\ UNCHANGED <<serverVars, cacheVars, panelVars, directoryVars, bounds>>

\* The same statement as in Flag; when it fails the download does.
FlagTaken ==
    LET x == job[Download] IN
    /\ At(Download, "sync")
    /\ x.rows = {}
    /\ Becomes(Download, [x EXCEPT !.pc = "done"])
    /\ \/ /\ fetched' = [fetched EXCEPT ![x.list] = TRUE]
          /\ UNCHANGED <<directory, bounds>>
       \/ /\ directory' = "error"
          /\ Fails
          /\ UNCHANGED fetched
    /\ UNCHANGED <<cached, panelVars, serverVars, left, skipped>>

-----------------------------------------------------------------------------
(* The surroundings *)

\* Editors create, move or delete rooms.
EditRooms ==
    /\ Asked
    /\ server' \in Worlds \ {server}
    /\ stayed' = {r \in stayed : server'[r] = server[r]}
    /\ lately' = IF selected = None THEN lately
                 ELSE lately \union {RoomsIn(RowsOf(server', selected))}
    /\ UNCHANGED <<cacheVars, panel, selected, shown, job, directoryVars,
                   failures>>

\* The page is closed, whatever was under way, and opened again.
ClosePage ==
    /\ Asked
    /\ panel' = None /\ selected' = None /\ shown' = None /\ lately' = {}
    /\ job' = [j \in Jobs |-> Idle]
    /\ directory' = "idle" /\ left' = {} /\ skipped' = {}
    /\ UNCHANGED <<serverVars, cacheVars, failures>>

-----------------------------------------------------------------------------
Init ==
    /\ server = Start
    /\ cached = [r \in Rooms |-> {}]
    /\ fetched = [l \in Lists |-> FALSE]
    /\ panel = None /\ selected = None /\ shown = None /\ lately = {}
    /\ job = [j \in Jobs |-> Idle]
    /\ directory = "idle" /\ left = {} /\ skipped = {} /\ stayed = {}
    /\ asks = 0 /\ failures = 0

Ask ==
    \/ \E l \in Lists : Open(l)
    \/ Unselect
    \/ StartDownload
    \/ EditRooms
    \/ ClosePage

Common(j) == Check(j) \/ Get(j) \/ Answer(j) \/ NoAnswer(j) \/ WriteRow(j)

Load(j) == Look(j) \/ Common(j) \/ Show(j) \/ Flag(j)

DownloadStep == NextList \/ Common(Download) \/ Take \/ FlagTaken

Next == Ask \/ (\E j \in Loads : Load(j)) \/ DownloadStep

\* Statements end and requests are answered, if only by an error.
Fairness == (\A j \in Loads : WF_vars(Load(j))) /\ WF_vars(DownloadStep)

Spec == Init /\ [][Next]_vars /\ Fairness

-----------------------------------------------------------------------------
Row == [room : Rooms, at : Places]

JobRecord ==
    [pc : Pcs, list : Lists \union {None}, local : BOOLEAN, valid : BOOLEAN,
     rows : SUBSET Row, again : BOOLEAN, seen : BOOLEAN, current : BOOLEAN,
     less : BOOLEAN]

\* A load under way has a list, writes rows of that list only, and at most one
\* load is the latest.
TypeOK ==
    /\ server \in [Rooms -> Places]
    /\ cached \in [Rooms -> Places]
    /\ fetched \in [Lists -> BOOLEAN]
    /\ panel \in Kinds \union {None}
    /\ selected \in Lists \union {None}
    /\ shown \in {None} \union [of : Lists, rooms : SUBSET Rooms]
    /\ lately \subseteq SUBSET Rooms
    /\ job \in [Jobs -> JobRecord]
    /\ \A j \in Jobs : ~At(j, "done") =>
          /\ job[j].list \in Lists
          /\ \A row \in job[j].rows : job[j].list \in row.at
    /\ \A i, j \in Jobs : Latest(i) /\ Latest(j) => i = j
    /\ directory \in {"idle", "downloading", "done", "error"}
    /\ left \subseteq Lists
    /\ skipped \subseteq Lists
    /\ stayed \subseteq Rooms
    /\ asks \in Nat /\ failures \in Nat

\* The panel of a selected list shows that list or none, never one selected
\* before, however loads overtake each other ("discard in-flight fetches from a
\* previous selection"). The panels of colleges and divisions keep the list
\* they showed until the new one is there.
ShownOfSelection ==
    selected # None /\ shown # None =>
        \/ shown.of = selected
        \/ /\ KindOf[selected] \notin Clearing
           /\ \E j \in Loads : Latest(j) /\ ~At(j, "done")

\* Once the latest load is over, the panel shows what the server held for the
\* selected list at some moment since it was selected. Not so when the load
\* settled for less: a request or the last statement failed, the refresh was
\* empty, or rows of the list turned up between the two looks at the table.
ShownFresh ==
    \A j \in Loads :
        Latest(j) /\ At(j, "done") /\ ~job[j].less /\ selected # None =>
            /\ shown # None
            /\ shown.of = selected
            /\ shown.rooms \in lately

\* When the download reports that the directory is saved, every room of the
\* server that did not change meanwhile is there, if it is in a list the
\* download did not settle for less on: one whose request or row failed, or of
\* which the table already held rows, however few.
DirectorySaved ==
    directory = "done" =>
        \A r \in stayed : server[r] \ skipped # {} => cached[r] # {}

\* What ShownOfSelection and ShownFresh rest on. The latest load is one of the
\* panel, never the download.
PanelOwned ==
    /\ ~job[Download].seen
    /\ selected # None => \E j \in Loads : Latest(j)

\* Load x goes on to show a fresh list after the one it paints first.
WillRefresh(x) == ~x.again /\ x.local /\ ~x.valid

\* The latest load is of the selected list and shows it from the first time it
\* paints on; a panel that is emptied shows no other list before that either.
PanelTrue ==
    selected # None =>
        /\ shown # None /\ KindOf[selected] \in Clearing => shown.of = selected
        /\ \A j \in Loads : Latest(j) =>
              /\ ~At(j, "done") => job[j].list = selected
              /\ At(j, "done") \/ At(j, "sync") \/ job[j].again =>
                    shown # None /\ shown.of = selected

\* What the latest load has in hand and will not refresh, or has shown for good,
\* the server held since the selection, unless the load settled for less.
PanelFresh ==
    selected # None =>
        /\ RoomsIn(RowsOf(server, selected)) \in lately
        /\ \A j \in Loads : Latest(j) =>
              LET x == job[j] IN
              /\ At(j, "show") /\ ~WillRefresh(x)
                    /\ (~x.less \/ (x.again /\ x.rows # {})) =>
                    RoomsIn(x.rows) \in lately
              /\ At(j, "sync") /\ ~WillRefresh(x) /\ (~x.less \/ x.again) =>
                    shown.rooms \in lately
              /\ At(j, "done") /\ ~x.less => shown.rooms \in lately

\* A load holds rows only between their arrival and the last write, and knows
\* of a refresh only once it has shown a list.
LoadsOrdered ==
    \A j \in Jobs :
        /\ job[j].rows # {} => At(j, "show") \/ At(j, "sync")
        /\ job[j].again => At(j, "fetch") \/ At(j, "show") \/ At(j, "sync")

\* What DirectorySaved rests on. The download stands still unless it is under
\* way; rows it will not write belong to a list it settled for less on.
DownloadOrdered ==
    LET x == job[Download] IN
    /\ directory # "downloading" => At(Download, "done")
    /\ directory = "done" => left = {}
    /\ x.valid => /\ ~At(Download, "fetch")
                  /\ At(Download, "show") => x.list \in skipped

\* The download has room r of list l before it.
Due(r, l) ==
    LET x == job[Download] IN
    /\ x.list = l
    /\ \/ x.pc \in {"check", "get", "fetch"}
       \/ x.pc \in {"show", "sync"} /\ r \in RoomsIn(x.rows)

\* Room by room and list by list, what is saved, given up or still to come.
SavedSoFar ==
    directory \in {"downloading", "done"} =>
        \A r \in stayed : \A l \in server[r] :
            l \in left \union skipped \/ cached[r] # {} \/ Due(r, l)

\* The inductive invariant.
IInv ==
    /\ TypeOK
    /\ PanelOwned /\ PanelTrue /\ PanelFresh
    /\ LoadsOrdered
    /\ DownloadOrdered /\ SavedSoFar

\* Once people stop selecting, the selected list is shown in the end, if only
\* as the rows there are.
LoadsEnd ==
    []<>(selected = None \/ (shown # None /\ shown.of = selected))
=============================================================================
