-------------------------- MODULE RoomListsProofs --------------------------
(***************************************************************************)
(* TLAPS proofs about RoomLists, for any rooms, lists and number of loads. *)
(***************************************************************************)
EXTENDS RoomLists, FiniteSetTheorems, TLAPS

USE KindAssumption, LoadsAssumption, NoneAssumption

-----------------------------------------------------------------------------
(* Rows, and the load that is free for a selection. *)

\* The rows of a list are rows, of that list, and of all its rooms.
LEMMA RowsAre ==
    ASSUME NEW table \in [Rooms -> Places], NEW l \in Lists
    PROVE  /\ RowsOf(table, l) \in SUBSET Row
           /\ RoomsIn(RowsOf(table, l)) \in SUBSET Rooms
           /\ \A row \in RowsOf(table, l) : l \in row.at
           /\ \A r \in Rooms : l \in table[r] => r \in RoomsIn(RowsOf(table, l))
<1>1. ASSUME NEW r \in Rooms, l \in table[r]
      PROVE  [room |-> r, at |-> table[r]] \in RowsOf(table, l)
  BY <1>1 DEF RowsOf
<1>2. ASSUME NEW row \in RowsOf(table, l)
      PROVE  row \in Row /\ row.room \in Rooms /\ l \in row.at
  BY <1>2 DEF RowsOf, Row
<1>3. RoomsIn(RowsOf(table, l)) \in SUBSET Rooms
  BY <1>2 DEF RoomsIn
<1>4. ASSUME NEW r \in Rooms, l \in table[r]
      PROVE  r \in RoomsIn(RowsOf(table, l))
  <2>1. [room |-> r, at |-> table[r]].room = r
    OBVIOUS
  <2>2. QED
    BY <1>1, <1>4, <2>1 DEF RoomsIn
<1>5. QED
  BY <1>2, <1>3, <1>4

\* The rooms of rows are rooms.
LEMMA RoomsAre ==
    ASSUME NEW rows \in SUBSET Row
    PROVE  RoomsIn(rows) \in SUBSET Rooms
BY DEF RoomsIn, Row

\* Where a load may start, one of the panel's is free for it.
LEMMA LoadFree ==
    ASSUME MayStart
    PROVE  \E j \in Loads : j \notin UnderWay
<1>1. IsFiniteSet(UnderWay)
  <2>1. IsFiniteSet(Jobs)
    BY FS_AddElement DEF Jobs
  <2>2. UnderWay \subseteq Jobs
    BY DEF UnderWay, Jobs
  <2>3. QED
    BY <2>1, <2>2, FS_Subset
<1>2. SUFFICES ASSUME Loads \subseteq UnderWay PROVE FALSE
  OBVIOUS
<1>3. Cardinality(Loads) <= Cardinality(UnderWay)
  BY <1>1, <1>2, FS_Subset
<1>4. Cardinality(Loads) \in Nat /\ Cardinality(UnderWay) \in Nat
  BY <1>1, FS_CardinalityType
<1>5. QED
  BY <1>3, <1>4, BoundsAssumption DEF MayStart

-----------------------------------------------------------------------------
(* What a step does to the jobs. *)

\* The parts of TypeOK that are about the jobs, and the others.
JobsOK ==
    /\ job \in [Jobs -> JobRecord]
    /\ \A j \in Jobs : ~At(j, "done") =>
          /\ job[j].list \in Lists
          /\ \A row \in job[j].rows : job[j].list \in row.at
    /\ \A i, j \in Jobs : Latest(i) /\ Latest(j) => i = j

PanelOK ==
    /\ panel \in Kinds \union {None}
    /\ selected \in Lists \union {None}
    /\ shown \in {None} \union [of : Lists, rooms : SUBSET Rooms]
    /\ lately \subseteq SUBSET Rooms

TablesOK ==
    /\ server \in [Rooms -> Places]
    /\ cached \in [Rooms -> Places]
    /\ fetched \in [Lists -> BOOLEAN]

DirectoryOK ==
    /\ directory \in {"idle", "downloading", "done", "error"}
    /\ left \subseteq Lists
    /\ skipped \subseteq Lists
    /\ stayed \subseteq Rooms

BoundsOK == asks \in Nat /\ failures \in Nat

LEMMA TypeParts ==
    TypeOK <=> JobsOK /\ PanelOK /\ TablesOK /\ DirectoryOK /\ BoundsOK
BY DEF TypeOK, JobsOK, PanelOK, TablesOK, DirectoryOK, BoundsOK

\* Record x may take the place of job j.
Fits(j, x) ==
    /\ x \in JobRecord
    /\ x.seen = job[j].seen
    /\ x.seen /\ x.current <=> Latest(j)
    /\ x.pc # "done" =>
          /\ x.list \in Lists
          /\ \A row \in x.rows : x.list \in row.at
          /\ x.rows # {} => x.pc \in {"show", "sync"}
          /\ x.again => x.pc \in {"fetch", "show", "sync"}

\* What is left of a load that is over.
LEMMA OverIs ==
    ASSUME NEW x \in JobRecord
    PROVE  /\ Over(x) \in JobRecord
           /\ Over(x).pc = "done" /\ Over(x).rows = {} /\ ~Over(x).again
           /\ ~Over(x).valid
           /\ Over(x).seen <=> x.seen /\ x.current
           /\ Over(x).current <=> x.seen /\ x.current
           /\ x.seen /\ x.current => Over(x).less = x.less
BY DEF Over, Idle, JobRecord, Pcs

\* One job moves, the others stay.
LEMMA BecomesIs ==
    ASSUME JobsOK, NEW j \in Jobs, NEW x \in JobRecord, Becomes(j, x)
    PROVE  /\ job' \in [Jobs -> JobRecord]
           /\ \A i \in Jobs : i # j => job'[i] = job[i]
           /\ job'[j] = IF x.pc = "done" THEN Over(x) ELSE x
BY OverIs DEF Becomes, JobsOK

\* A load that moves is the latest one as before.
LEMMA LatestStays ==
    ASSUME JobsOK, NEW j \in Jobs, NEW x, Fits(j, x), Becomes(j, x),
           NEW i \in Jobs
    PROVE  Latest(i)' <=> Latest(i)
<1>1. x \in JobRecord /\ (x.seen /\ x.current <=> Latest(j))
  BY DEF Fits
<1>2. CASE i = j
  BY <1>1, <1>2, BecomesIs, OverIs DEF Latest
<1>3. CASE i # j
  BY <1>1, <1>3, BecomesIs DEF Latest
<1>4. QED
  BY <1>2, <1>3

\* The jobs stay as they should be.
LEMMA JobsStay ==
    ASSUME JobsOK, LoadsOrdered, NEW j \in Jobs, NEW x,
           Fits(j, x), Becomes(j, x)
    PROVE  JobsOK' /\ LoadsOrdered'
<1>1. x \in JobRecord
  BY DEF Fits
<1>2. /\ job' \in [Jobs -> JobRecord]
      /\ \A i \in Jobs : i # j => job'[i] = job[i]
      /\ job'[j] = IF x.pc = "done" THEN Over(x) ELSE x
  BY <1>1, BecomesIs
<1>3. \A i \in Jobs : At(i, "done")' \/
          /\ job'[i].list \in Lists
          /\ \A row \in job'[i].rows : job'[i].list \in row.at
  BY <1>1, <1>2, OverIs DEF JobsOK, Fits, At
<1>4. \A i, k \in Jobs : Latest(i)' /\ Latest(k)' => i = k
  <2>1. \A i \in Jobs : Latest(i)' <=> Latest(i)
    BY LatestStays
  <2>2. QED
    BY <2>1 DEF JobsOK
<1>5. ASSUME NEW i \in Jobs
      PROVE  /\ job'[i].rows # {} => At(i, "show")' \/ At(i, "sync")'
             /\ job'[i].again =>
                   At(i, "fetch")' \/ At(i, "show")' \/ At(i, "sync")'
  <2>1. CASE i # j
    BY <2>1, <1>2 DEF LoadsOrdered, At
  <2>2. CASE i = j
    BY <2>2, <1>1, <1>2, OverIs DEF Fits, At
  <2>3. QED
    BY <2>1, <2>2
<1>6. QED
  BY <1>2, <1>3, <1>4, <1>5 DEF JobsOK, LoadsOrdered

-----------------------------------------------------------------------------
(* What is shown while a job moves. *)

\* What PanelTrue and PanelFresh say of the latest load, if that is x and s is
\* shown.
Holds(x, s) ==
    /\ s # None /\ KindOf[selected] \in Clearing => s.of = selected
    /\ x.pc # "done" => x.list = selected
    /\ x.pc \in {"done", "sync"} \/ x.again => s # None /\ s.of = selected
    /\ x.pc = "show" /\ ~WillRefresh(x)
          /\ (~x.less \/ (x.again /\ x.rows # {})) =>
          RoomsIn(x.rows) \in lately
    /\ x.pc = "sync" /\ ~WillRefresh(x) /\ (~x.less \/ x.again) =>
          s.rooms \in lately
    /\ x.pc = "done" /\ ~x.less => s.rooms \in lately

LEMMA LatestHolds ==
    ASSUME PanelTrue, PanelFresh, selected # None,
           NEW j \in Loads, Latest(j)
    PROVE  Holds(job[j], shown)
BY DEF PanelTrue, PanelFresh, Holds, At

\* If all latest loads are as they should be after a step, so is the panel.
LEMMA HoldsAll ==
    ASSUME selected' # None, \E j \in Loads : Latest(j)',
           RoomsIn(RowsOf(server, selected))' \in lately',
           \A j \in Loads : Latest(j)' => Holds(job[j], shown)'
    PROVE  PanelTrue' /\ PanelFresh'
<1>1. (shown # None /\ KindOf[selected] \in Clearing => shown.of = selected)'
  BY DEF Holds
<1>2. PanelTrue'
  BY <1>1 DEF PanelTrue, Holds, At
<1>3. PanelFresh'
  BY DEF PanelFresh, Holds, At
<1>4. QED
  BY <1>2, <1>3

\* A load that is over holds what it held at its last step.
LEMMA OverHolds ==
    ASSUME NEW x \in JobRecord, NEW s, Holds(x, s), x.seen, x.current,
           x.pc = "done"
    PROVE  Holds(Over(x), s)
<1>1. /\ Over(x).pc = "done" /\ ~Over(x).again
      /\ Over(x).less = x.less
  BY OverIs
<1>2. QED
  BY <1>1 DEF Holds

\* The panel is as it should be after a step of a job that paints nothing
\* unless it is the latest load, and then what it should.
LEMMA PanelStays ==
    ASSUME JobsOK, PanelOwned, PanelTrue, PanelFresh,
           NEW j \in Jobs, NEW x, Fits(j, x), Becomes(j, x),
           UNCHANGED <<selected, lately, server>>,
           ~Latest(j) => shown' = shown,
           Latest(j) /\ selected # None => Holds(x, shown')
    PROVE  PanelOwned' /\ PanelTrue' /\ PanelFresh'
<1>1. /\ x \in JobRecord
      /\ x.seen = job[j].seen
      /\ x.seen /\ x.current <=> Latest(j)
  BY DEF Fits
<1>2. /\ \A i \in Jobs : i # j => job'[i] = job[i]
      /\ job'[j] = IF x.pc = "done" THEN Over(x) ELSE x
  BY <1>1, BecomesIs
<1>3. \A i \in Jobs : Latest(i)' <=> Latest(i)
  BY LatestStays
<1>4. PanelOwned'
  <2>1. ~job'[Download].seen
    BY <1>1, <1>2, OverIs DEF PanelOwned, Jobs
  <2>2. QED
    BY <1>3, <2>1 DEF PanelOwned, Jobs
<1>5. CASE selected = None
  BY <1>4, <1>5 DEF PanelTrue, PanelFresh
<1>6. CASE selected # None
  <2>1. ASSUME NEW i \in Loads, Latest(i)'
        PROVE  Holds(job'[i], shown')
    <3>1. Latest(i)
      BY <1>3, <2>1 DEF Jobs
    <3>2. CASE i = j
      <4>1. Holds(x, shown')
        BY <1>6, <3>1, <3>2
      <4>2. x.seen /\ x.current
        BY <1>1, <3>1, <3>2
      <4>3. x.pc = "done" => Holds(Over(x), shown')
        BY <1>1, <4>1, <4>2, OverHolds
      <4>4. QED
        BY <1>2, <3>2, <4>1, <4>3
    <3>3. CASE i # j
      <4>1. ~Latest(j)
        BY <3>1, <3>3 DEF JobsOK, Jobs
      <4>2. Holds(job[i], shown)
        BY <1>6, <3>1, LatestHolds
      <4>3. QED
        BY <1>2, <3>3, <4>1, <4>2 DEF Jobs
    <3>4. QED
      BY <3>2, <3>3
  <2>2. \A i \in Loads : Latest(i)' => Holds(job[i], shown)'
    BY <2>1 DEF Holds
  <2>3. selected' # None /\ \E i \in Loads : Latest(i)'
    BY <1>4, <1>6 DEF PanelOwned
  <2>4. RoomsIn(RowsOf(server, selected))' \in lately'
    BY <1>6 DEF PanelFresh, RoomsIn, RowsOf
  <2>5. PanelTrue' /\ PanelFresh'
    BY <2>2, <2>3, <2>4, HoldsAll
  <2>6. QED
    BY <1>4, <2>5
<1>7. QED
  BY <1>5, <1>6

\* Where neither the jobs nor what they go by changes, nothing does.
LEMMA PanelApart ==
    ASSUME PanelOwned, PanelTrue, PanelFresh,
           UNCHANGED <<job, selected, shown, lately, server>>
    PROVE  PanelOwned' /\ PanelTrue' /\ PanelFresh'
BY DEF PanelOwned, PanelTrue, PanelFresh, Latest, At, WillRefresh, RoomsIn,
       RowsOf

-----------------------------------------------------------------------------
(* What is saved while others work. *)

\* What the download goes by.
SavedInv == DownloadOrdered /\ SavedSoFar

\* Nothing but the download takes part in it, as long as no row goes.
LEMMA SavedApart ==
    ASSUME TypeOK, SavedInv,
           UNCHANGED <<directory, left, skipped, stayed, server>>,
           job'[Download].pc = job[Download].pc,
           ~At(Download, "done") =>
               /\ job'[Download].list = job[Download].list
               /\ job'[Download].rows = job[Download].rows
               /\ job'[Download].valid = job[Download].valid,
           \A r \in Rooms : cached[r] # {} => cached'[r] # {}
    PROVE  SavedInv'
<1>1. DownloadOrdered'
  BY DEF SavedInv, DownloadOrdered, At
<1>2. \A r, l : Due(r, l)' <=> Due(r, l)
  <2>1. CASE At(Download, "done")
    BY <2>1 DEF Due, At
  <2>2. CASE ~At(Download, "done")
    BY <2>2 DEF Due
  <2>3. QED
    BY <2>1, <2>2
<1>3. SavedSoFar'
  BY <1>2 DEF SavedInv, SavedSoFar, TypeOK
<1>4. QED
  BY <1>1, <1>3 DEF SavedInv

-----------------------------------------------------------------------------
(* The steps of a load. *)

\* What the panel and the loads go by.
PanelInv == PanelOwned /\ PanelTrue /\ PanelFresh /\ LoadsOrdered

\* A step in which job j moves and paints no more than it should.
Moves(j) ==
    \E x :
        /\ Fits(j, x) /\ Becomes(j, x)
        /\ UNCHANGED <<panel, selected, lately, server, stayed>>
        /\ shown' \in {None} \union [of : Lists, rooms : SUBSET Rooms]
        /\ ~Latest(j) => shown' = shown
        /\ Latest(j) /\ selected # None => Holds(x, shown')

LEMMA MovesKeep ==
    ASSUME TypeOK, PanelInv, NEW j \in Jobs, Moves(j)
    PROVE  JobsOK' /\ PanelOK' /\ PanelInv'
<1>1. JobsOK /\ PanelOK
  BY TypeParts
<1>2. PICK x :
        /\ Fits(j, x) /\ Becomes(j, x)
        /\ UNCHANGED <<panel, selected, lately, server>>
        /\ shown' \in {None} \union [of : Lists, rooms : SUBSET Rooms]
        /\ ~Latest(j) => shown' = shown
        /\ Latest(j) /\ selected # None => Holds(x, shown')
  BY DEF Moves
<1>3. JobsOK' /\ LoadsOrdered'
  BY <1>1, <1>2, JobsStay DEF PanelInv
<1>4. PanelOwned' /\ PanelTrue' /\ PanelFresh'
  BY <1>1, <1>2, PanelStays DEF PanelInv
<1>5. PanelOK'
  BY <1>1, <1>2 DEF PanelOK
<1>6. QED
  BY <1>3, <1>4, <1>5 DEF PanelInv

\* A step that is not the latest load's, or paints nothing, has to see to the
\* new record only.
LEMMA MovesBy ==
    ASSUME TypeOK, PanelInv, NEW j \in Jobs, NEW x, Fits(j, x), Becomes(j, x),
           UNCHANGED <<panelVars, serverVars>>,
           j \in Loads /\ Latest(j) /\ selected # None
              /\ Holds(job[j], shown) => Holds(x, shown)
    PROVE  Moves(j)
<1>1. Latest(j) /\ selected # None => Holds(x, shown)
  BY LatestHolds DEF PanelInv, PanelOwned, Latest, Jobs
<1>2. Latest(j) /\ selected # None => Holds(x, shown')
  BY <1>1 DEF panelVars
<1>3. shown' \in {None} \union [of : Lists, rooms : SUBSET Rooms]
  BY DEF TypeOK, panelVars
<1>4. QED
  BY <1>2, <1>3 DEF Moves, panelVars, serverVars

\* A job under way: its record.
LEMMA JobIs ==
    ASSUME TypeOK, PanelInv, NEW j \in Jobs, ~At(j, "done")
    PROVE  /\ job[j] \in JobRecord
           /\ job[j].list \in Lists
           /\ \A row \in job[j].rows : job[j].list \in row.at
           /\ job[j].rows # {} => job[j].pc \in {"show", "sync"}
           /\ job[j].again => job[j].pc \in {"fetch", "show", "sync"}
           /\ job[j].seen /\ job[j].current <=> Latest(j)
BY DEF TypeOK, PanelInv, LoadsOrdered, At, Latest

LEMMA CheckMoves ==
    ASSUME TypeOK, PanelInv, NEW j \in Jobs, Check(j)
    PROVE  Moves(j)
<1>1. PICK y : y = job[j]
  OBVIOUS
<1>2. y \in JobRecord /\ y.pc = "check" /\ y.list \in Lists /\ y.rows = {}
      /\ ~y.again /\ (y.seen /\ y.current <=> Latest(j))
  BY <1>1, JobIs DEF Check, At
<1>3. fetched[y.list] \in BOOLEAN
  BY <1>2 DEF TypeOK
<1>4. PICK v \in BOOLEAN : Becomes(j, [y EXCEPT !.pc = "get", !.valid = v])
  <2>1. CASE Becomes(j, [y EXCEPT !.pc = "get", !.valid = fetched[y.list]])
    BY <1>3, <2>1
  <2>2. CASE Becomes(j, [y EXCEPT !.pc = "get"])
    <3>1. [y EXCEPT !.pc = "get"] =
             [y EXCEPT !.pc = "get", !.valid = y.valid]
      BY <1>2 DEF JobRecord
    <3>2. y.valid \in BOOLEAN
      BY <1>2 DEF JobRecord
    <3>3. QED
      BY <2>2, <3>1, <3>2
  <2>3. QED
    BY <1>1, <2>1, <2>2 DEF Check
<1>5. PICK x : x = [y EXCEPT !.pc = "get", !.valid = v]
  OBVIOUS
<1>6. Fits(j, x)
  BY <1>1, <1>2, <1>5 DEF Fits, JobRecord, Pcs
<1>7. Holds(y, shown) => Holds(x, shown)
  BY <1>2, <1>5 DEF Holds, JobRecord
<1>8. QED
  BY <1>1, <1>4, <1>5, <1>6, <1>7, MovesBy DEF Check

LEMMA GetMoves ==
    ASSUME TypeOK, PanelInv, NEW j \in Jobs, Get(j)
    PROVE  Moves(j)
<1>1. PICK y : y = job[j]
  OBVIOUS
<1>2. y \in JobRecord /\ y.pc = "get" /\ y.list \in Lists /\ y.rows = {}
      /\ ~y.again /\ (y.seen /\ y.current <=> Latest(j))
  BY <1>1, JobIs DEF Get, At
<1>3. PICK rows : rows = RowsOf(cached, y.list)
  OBVIOUS
<1>4. rows \in SUBSET Row /\ \A row \in rows : y.list \in row.at
  BY <1>2, <1>3, RowsAre DEF TypeOK
<1>5. CASE Becomes(j, [y EXCEPT !.pc = "show", !.rows = rows,
                               !.less = y.valid \/ ~y.local])
  <2>1. PICK x : x = [y EXCEPT !.pc = "show", !.rows = rows,
                              !.less = y.valid \/ ~y.local]
    OBVIOUS
  <2>2. Fits(j, x)
    BY <1>1, <1>2, <1>4, <2>1 DEF Fits, JobRecord, Pcs
  <2>3. ~x.less => WillRefresh(x)
    BY <1>2, <2>1 DEF WillRefresh, JobRecord
  <2>4. Holds(y, shown) => Holds(x, shown)
    BY <1>2, <2>1, <2>3 DEF Holds, JobRecord
  <2>5. QED
    BY <1>1, <1>5, <2>1, <2>2, <2>4, MovesBy DEF Get
<1>6. CASE Becomes(j, [y EXCEPT !.pc = "fetch"])
  <2>1. PICK x : x = [y EXCEPT !.pc = "fetch"]
    OBVIOUS
  <2>2. Fits(j, x)
    BY <1>1, <1>2, <2>1 DEF Fits, JobRecord, Pcs
  <2>3. Holds(y, shown) => Holds(x, shown)
    BY <1>2, <2>1 DEF Holds, JobRecord
  <2>4. QED
    BY <1>1, <1>6, <2>1, <2>2, <2>3, MovesBy DEF Get
<1>7. QED
  BY <1>1, <1>3, <1>5, <1>6 DEF Get

\* The answer is what the server holds at the moment.
LEMMA AnswerMoves ==
    ASSUME TypeOK, PanelInv, NEW j \in Jobs, Answer(j)
    PROVE  Moves(j)
<1>1. PICK y : y = job[j]
  OBVIOUS
<1>2. y \in JobRecord /\ y.pc = "fetch" /\ y.list \in Lists
      /\ (y.seen /\ y.current <=> Latest(j))
  BY <1>1, JobIs DEF Answer, At
<1>3. PICK rows : rows = RowsOf(server, y.list)
  OBVIOUS
<1>4. rows \in SUBSET Row /\ \A row \in rows : y.list \in row.at
  BY <1>2, <1>3, RowsAre DEF TypeOK
<1>5. PICK x : x = [y EXCEPT !.pc = "show", !.rows = rows]
  OBVIOUS
<1>6. Fits(j, x)
  BY <1>1, <1>2, <1>4, <1>5 DEF Fits, JobRecord, Pcs
<1>7. ASSUME selected # None, Holds(y, shown)
      PROVE  Holds(x, shown)
  <2>1. RoomsIn(x.rows) \in lately
    BY <1>2, <1>3, <1>5, <1>7 DEF PanelInv, PanelFresh, Holds, JobRecord
  <2>2. QED
    BY <1>2, <1>5, <1>7, <2>1 DEF Holds, JobRecord
<1>8. QED
  BY <1>1, <1>3, <1>5, <1>6, <1>7, MovesBy DEF Answer

LEMMA NoAnswerMoves ==
    ASSUME TypeOK, PanelInv, NEW j \in Jobs, NoAnswer(j)
    PROVE  Moves(j)
<1>1. PICK y : y = job[j]
  OBVIOUS
<1>2. y \in JobRecord /\ y.pc = "fetch" /\ y.list \in Lists /\ y.rows = {}
      /\ (y.seen /\ y.current <=> Latest(j))
  BY <1>1, JobIs DEF NoAnswer, At
<1>3. PICK x : x = [y EXCEPT !.pc = "show", !.less = TRUE]
  OBVIOUS
<1>4. Fits(j, x)
  BY <1>1, <1>2, <1>3 DEF Fits, JobRecord, Pcs
<1>5. Holds(y, shown) => Holds(x, shown)
  BY <1>2, <1>3 DEF Holds, JobRecord
<1>6. QED
  BY <1>1, <1>3, <1>4, <1>5, MovesBy DEF NoAnswer

LEMMA WriteRowMoves ==
    ASSUME TypeOK, PanelInv, NEW j \in Jobs, WriteRow(j)
    PROVE  Moves(j)
<1>1. PICK y : y = job[j]
  OBVIOUS
<1>2. y \in JobRecord /\ y.pc = "sync" /\ y.list \in Lists
      /\ (\A row \in y.rows : y.list \in row.at)
      /\ (y.seen /\ y.current <=> Latest(j))
  BY <1>1, JobIs DEF WriteRow, At
<1>3. PICK row \in y.rows : Becomes(j, [y EXCEPT !.rows = @ \ {row}])
  BY <1>1 DEF WriteRow
<1>4. PICK x : x = [y EXCEPT !.rows = y.rows \ {row}]
  OBVIOUS
<1>5. Fits(j, x)
  BY <1>1, <1>2, <1>4 DEF Fits, JobRecord, Pcs
<1>6. Holds(y, shown) => Holds(x, shown)
  BY <1>2, <1>4 DEF Holds, JobRecord, WillRefresh
<1>7. QED
  BY <1>1, <1>2, <1>3, <1>4, <1>5, <1>6, MovesBy DEF WriteRow, JobRecord

\* The first look at the table paints rows of the list, which are not promised
\* to be fresh.
LEMMA LookMoves ==
    ASSUME TypeOK, PanelInv, NEW j \in Loads, Look(j)
    PROVE  Moves(j)
<1>1. j \in Jobs
  BY DEF Jobs
<1>2. PICK y : y = job[j]
  OBVIOUS
<1>3. y \in JobRecord /\ y.pc = "look" /\ y.list \in Lists /\ y.rows = {}
      /\ ~y.again /\ (y.seen /\ y.current <=> Latest(j))
  BY <1>1, <1>2, JobIs DEF Look, At
<1>4. PICK rows : rows = RowsOf(cached, y.list)
  OBVIOUS
<1>5. RoomsIn(rows) \in SUBSET Rooms
  BY <1>3, <1>4, RowsAre DEF TypeOK
<1>6. PICK x : x = [y EXCEPT !.pc = "check", !.local = (rows # {})]
  OBVIOUS
<1>7. Fits(j, x)
  BY <1>2, <1>3, <1>6 DEF Fits, JobRecord, Pcs
<1>8. PICK s : s = [of |-> y.list, rooms |-> RoomsIn(rows)]
  OBVIOUS
<1>9. s \in [of : Lists, rooms : SUBSET Rooms] /\ s.of = y.list
  BY <1>3, <1>5, <1>8
<1>10. shown' = IF Latest(j) /\ rows # {} THEN s ELSE shown
  BY <1>2, <1>4, <1>8 DEF Look
<1>11. ASSUME selected # None, Latest(j)
       PROVE  Holds(x, shown')
  <2>1. Holds(y, shown)
    BY <1>2, <1>11, LatestHolds DEF PanelInv
  <2>2. QED
    BY <1>3, <1>6, <1>9, <1>10, <2>1 DEF Holds, JobRecord
<1>12. Becomes(j, x) /\ UNCHANGED <<panel, selected, lately, server, stayed>>
  BY <1>2, <1>4, <1>6 DEF Look, serverVars
<1>13. shown' \in {None} \union [of : Lists, rooms : SUBSET Rooms]
  BY <1>9, <1>10 DEF TypeOK
<1>14. QED
  BY <1>7, <1>10, <1>11, <1>12, <1>13 DEF Moves

\* What follows a list that is shown.
LEMMA AfterIs ==
    ASSUME NEW x \in JobRecord, x.list \in Lists
    PROVE  /\ After(x) \in JobRecord
           /\ After(x).seen = x.seen /\ After(x).current = x.current
           /\ After(x).list = x.list /\ After(x).rows = {}
           /\ After(x).less = x.less
           /\ WillRefresh(x) => After(x).pc = "fetch"
           /\ ~WillRefresh(x) => After(x).pc = "done"
BY DEF After, WillRefresh, JobRecord, Pcs

\* The list that arrived is shown, and the load that shows it is the latest.
LEMMA ShowMoves ==
    ASSUME TypeOK, PanelInv, NEW j \in Loads, Show(j)
    PROVE  Moves(j)
<1>1. j \in Jobs
  BY DEF Jobs
<1>2. PICK y : y = job[j]
  OBVIOUS
<1>3. y \in JobRecord /\ y.pc = "show" /\ y.list \in Lists
      /\ (\A row \in y.rows : y.list \in row.at)
      /\ (y.seen /\ y.current <=> Latest(j))
  BY <1>1, <1>2, JobIs DEF Show, At
<1>4. PICK stops \in BOOLEAN : stops <=> ~y.current \/ (y.again /\ y.rows = {})
  OBVIOUS
<1>5. PICK s : s = [of |-> y.list, rooms |-> RoomsIn(y.rows)]
  OBVIOUS
<1>6. s \in [of : Lists, rooms : SUBSET Rooms] /\ s.of = y.list
      /\ s.rooms = RoomsIn(y.rows) /\ s # None
  BY <1>3, <1>5, RoomsAre DEF JobRecord
<1>7. shown' = IF Latest(j) /\ ~stops THEN s ELSE shown
  BY <1>2, <1>4, <1>5 DEF Show
<1>8. PICK x : x = IF stops THEN [y EXCEPT !.pc = "done", !.less = TRUE]
                   ELSE IF y.valid \/ y.rows = {} THEN After(y)
                   ELSE [y EXCEPT !.pc = "sync"]
  OBVIOUS
<1>9. Becomes(j, x) /\ UNCHANGED <<panel, selected, lately, server, stayed>>
  BY <1>2, <1>4, <1>8 DEF Show, serverVars
<1>10. shown' \in {None} \union [of : Lists, rooms : SUBSET Rooms]
  BY <1>6, <1>7 DEF TypeOK
<1>11. ASSUME selected # None, Latest(j)
       PROVE  Holds(y, shown) /\ y.list = selected
  <2>1. Holds(y, shown)
    BY <1>2, <1>11, LatestHolds DEF PanelInv
  <2>2. QED
    BY <1>3, <2>1 DEF Holds
<1>12. CASE stops
  <2>1. Fits(j, x)
    BY <1>2, <1>3, <1>8, <1>12 DEF Fits, JobRecord, Pcs
  <2>2. Latest(j) /\ selected # None => Holds(x, shown')
    BY <1>3, <1>4, <1>7, <1>8, <1>11, <1>12 DEF Holds, JobRecord
  <2>3. QED
    BY <1>7, <1>9, <1>10, <2>1, <2>2 DEF Moves
<1>13. CASE ~stops /\ (y.valid \/ y.rows = {})
  <2>1. x = After(y)
    BY <1>8, <1>13
  <2>2. Fits(j, x)
    BY <1>2, <1>3, <2>1, AfterIs DEF Fits
  <2>3. Latest(j) /\ selected # None => Holds(x, shown')
    BY <1>3, <1>6, <1>7, <1>11, <1>13, <2>1, AfterIs DEF Holds
  <2>4. QED
    BY <1>7, <1>9, <1>10, <2>2, <2>3 DEF Moves
<1>14. CASE ~stops /\ ~y.valid /\ y.rows # {}
  <2>1. x = [y EXCEPT !.pc = "sync"]
    BY <1>8, <1>14
  <2>2. Fits(j, x)
    BY <1>2, <1>3, <2>1 DEF Fits, JobRecord, Pcs
  <2>3. WillRefresh(x) <=> WillRefresh(y)
    BY <1>3, <2>1 DEF WillRefresh, JobRecord
  <2>4. Latest(j) /\ selected # None => Holds(x, shown')
    BY <1>3, <1>6, <1>7, <1>11, <1>14, <2>1, <2>3 DEF Holds, JobRecord
  <2>5. QED
    BY <1>7, <1>9, <1>10, <2>2, <2>4 DEF Moves
<1>15. QED
  BY <1>12, <1>13, <1>14

LEMMA FlagMoves ==
    ASSUME TypeOK, PanelInv, NEW j \in Loads, Flag(j)
    PROVE  Moves(j)
<1>1. j \in Jobs
  BY DEF Jobs
<1>2. PICK y : y = job[j]
  OBVIOUS
<1>3. y \in JobRecord /\ y.pc = "sync" /\ y.list \in Lists
      /\ (y.seen /\ y.current <=> Latest(j))
  BY <1>1, <1>2, JobIs DEF Flag, At
<1>4. CASE Becomes(j, After(y))
  <2>1. Fits(j, After(y))
    BY <1>2, <1>3, AfterIs DEF Fits
  <2>2. Holds(y, shown) => Holds(After(y), shown)
    BY <1>3, AfterIs DEF Holds
  <2>3. QED
    BY <1>1, <1>2, <1>4, <2>1, <2>2, MovesBy DEF Flag
<1>5. CASE Becomes(j, [y EXCEPT !.pc = "done", !.less = ~y.again])
  <2>1. PICK x : x = [y EXCEPT !.pc = "done", !.less = ~y.again]
    OBVIOUS
  <2>2. Fits(j, x)
    BY <1>2, <1>3, <2>1 DEF Fits, JobRecord, Pcs
  <2>3. Holds(y, shown) => Holds(x, shown)
    BY <1>3, <2>1 DEF Holds, JobRecord, WillRefresh
  <2>4. QED
    BY <1>1, <1>2, <1>5, <2>1, <2>2, <2>3, MovesBy DEF Flag
<1>6. QED
  BY <1>2, <1>4, <1>5 DEF Flag

-----------------------------------------------------------------------------
(* The steps of the download. *)

\* It never is the latest load.
LEMMA DownloadApart ==
    ASSUME TypeOK, PanelInv
    PROVE  /\ Download \in Jobs /\ Download \notin Loads
           /\ job[Download] \in JobRecord
           /\ job[Download].seen = FALSE
           /\ ~Latest(Download)
BY DEF TypeOK, PanelInv, PanelOwned, Latest, Jobs, JobRecord

LEMMA NextListMoves ==
    ASSUME TypeOK, PanelInv, NextList
    PROVE  Moves(Download) \/ UNCHANGED <<job, panelVars, serverVars>>
<1>1. CASE \E l \in left : Becomes(Download, [Idle EXCEPT !.pc = "check",
                                                        !.list = l])
  <2>1. PICK l \in left : Becomes(Download, [Idle EXCEPT !.pc = "check",
                                                        !.list = l])
    BY <1>1
  <2>2. PICK x : x = [Idle EXCEPT !.pc = "check", !.list = l]
    OBVIOUS
  <2>3. l \in Lists
    BY DEF TypeOK
  <2>4. Fits(Download, x)
    BY <2>2, <2>3, DownloadApart DEF Fits, JobRecord, Pcs, Idle
  <2>5. QED
    BY <2>1, <2>2, <2>4, DownloadApart, MovesBy DEF NextList
<1>2. CASE UNCHANGED job
  BY <1>2 DEF NextList
<1>3. QED
  BY <1>1, <1>2 DEF NextList

LEMMA TakeMoves ==
    ASSUME TypeOK, PanelInv, Take
    PROVE  Moves(Download)
<1>1. PICK y : y = job[Download]
  OBVIOUS
<1>2. y \in JobRecord /\ y.pc = "show" /\ y.list \in Lists
      /\ (\A row \in y.rows : y.list \in row.at)
      /\ (y.seen /\ y.current <=> Latest(Download))
  BY <1>1, JobIs, DownloadApart DEF Take, At
<1>3. PICK pc \in {"done", "sync"} : Becomes(Download, [y EXCEPT !.pc = pc])
  BY <1>1 DEF Take
<1>4. PICK x : x = [y EXCEPT !.pc = pc]
  OBVIOUS
<1>5. Fits(Download, x)
  BY <1>1, <1>2, <1>4 DEF Fits, JobRecord, Pcs
<1>6. QED
  BY <1>3, <1>4, <1>5, DownloadApart, MovesBy DEF Take

LEMMA FlagTakenMoves ==
    ASSUME TypeOK, PanelInv, FlagTaken
    PROVE  Moves(Download)
<1>1. PICK y : y = job[Download]
  OBVIOUS
<1>2. y \in JobRecord /\ (y.seen /\ y.current <=> Latest(Download))
  BY <1>1, DownloadApart DEF Latest
<1>3. PICK x : x = [y EXCEPT !.pc = "done"]
  OBVIOUS
<1>4. Fits(Download, x)
  BY <1>1, <1>2, <1>3 DEF Fits, JobRecord, Pcs
<1>5. Becomes(Download, x)
  BY <1>1, <1>3 DEF FlagTaken
<1>6. QED
  BY <1>4, <1>5, DownloadApart, MovesBy DEF FlagTaken

-----------------------------------------------------------------------------
(* The tables, the directory and the bounds keep their shape. *)

LEMMA BoundsStay ==
    ASSUME BoundsOK, UNCHANGED bounds \/ Fails
    PROVE  BoundsOK'
BY DEF BoundsOK, Fails, Failed, bounds

LEMMA CommonTyped ==
    ASSUME TypeOK, PanelInv, NEW j \in Jobs, Common(j)
    PROVE  TablesOK' /\ DirectoryOK' /\ BoundsOK'
<1>1. TablesOK /\ DirectoryOK /\ BoundsOK
  BY TypeParts
<1>2. ~At(j, "done") /\ job[j].list \in Lists
  BY JobIs DEF Common, Check, Get, Answer, NoAnswer, WriteRow, At
<1>3. TablesOK'
  <2>1. CASE Check(j)
    BY <1>1, <2>1 DEF TablesOK, Check, serverVars
  <2>2. CASE Get(j) \/ Answer(j) \/ NoAnswer(j)
    BY <1>1, <2>2
       DEF TablesOK, Get, Answer, NoAnswer, serverVars, cacheVars
  <2>3. CASE WriteRow(j)
    <3>1. job[j].rows \subseteq Row
      BY DEF TypeOK, JobRecord
    <3>2. QED
      BY <1>1, <2>3, <3>1 DEF TablesOK, WriteRow, serverVars, Row
  <2>4. QED
    BY <2>1, <2>2, <2>3 DEF Common
<1>4. DirectoryOK'
  BY <1>1, <1>2 DEF DirectoryOK, Common, Check, Get, Answer, NoAnswer,
                    WriteRow, Skip, directoryVars, serverVars
<1>5. BoundsOK'
  <2>1. UNCHANGED bounds \/ Fails
    BY DEF Common, Check, Get, Answer, NoAnswer, WriteRow
  <2>2. QED
    BY <1>1, <2>1, BoundsStay
<1>6. QED
  BY <1>3, <1>4, <1>5

LEMMA OwnTyped ==
    ASSUME TypeOK, PanelInv, NEW j \in Loads, Look(j) \/ Show(j) \/ Flag(j)
    PROVE  TablesOK' /\ DirectoryOK' /\ BoundsOK'
<1>1. TablesOK /\ DirectoryOK /\ BoundsOK
  BY TypeParts
<1>2. ~At(j, "done") /\ job[j].list \in Lists
  BY JobIs DEF Look, Show, Flag, At, Jobs
<1>3. TablesOK'
  BY <1>1, <1>2 DEF TablesOK, Look, Show, Flag, serverVars, cacheVars
<1>4. DirectoryOK'
  BY <1>1 DEF DirectoryOK, Look, Show, Flag, directoryVars, serverVars
<1>5. BoundsOK'
  <2>1. UNCHANGED bounds \/ Fails
    BY DEF Look, Show, Flag
  <2>2. QED
    BY <1>1, <2>1, BoundsStay
<1>6. QED
  BY <1>3, <1>4, <1>5

LEMMA DownloadTyped ==
    ASSUME TypeOK, PanelInv, NextList \/ Take \/ FlagTaken
    PROVE  TablesOK' /\ DirectoryOK' /\ BoundsOK'
<1>1. TablesOK /\ DirectoryOK /\ BoundsOK
  BY TypeParts
<1>2. TablesOK'
  BY <1>1 DEF TablesOK, NextList, Take, FlagTaken, serverVars, cacheVars
<1>3. DirectoryOK'
  BY <1>1 DEF DirectoryOK, NextList, Take, FlagTaken, directoryVars,
              serverVars
<1>4. BoundsOK'
  <2>1. UNCHANGED bounds \/ Fails
    BY DEF NextList, Take, FlagTaken
  <2>2. QED
    BY <1>1, <2>1, BoundsStay
<1>5. QED
  BY <1>2, <1>3, <1>4

\* A load of the panel keeps all but the download's part of the invariant.
LEMMA LoadKeeps ==
    ASSUME TypeOK, PanelInv, NEW j \in Loads, Load(j)
    PROVE  TypeOK' /\ PanelInv'
<1>1. j \in Jobs
  BY DEF Jobs
<1>2. Moves(j)
  BY <1>1, LookMoves, CheckMoves, GetMoves, AnswerMoves, NoAnswerMoves,
     WriteRowMoves, ShowMoves, FlagMoves DEF Load, Common
<1>3. JobsOK' /\ PanelOK' /\ PanelInv'
  BY <1>1, <1>2, MovesKeep
<1>4. TablesOK' /\ DirectoryOK' /\ BoundsOK'
  BY <1>1, CommonTyped, OwnTyped DEF Load
<1>5. QED
  BY <1>3, <1>4 DEF TypeOK, JobsOK, PanelOK, TablesOK, DirectoryOK, BoundsOK

\* So does the download.
LEMMA DownloadKeeps ==
    ASSUME TypeOK, PanelInv, DownloadStep
    PROVE  TypeOK' /\ PanelInv'
<1>1. JobsOK /\ PanelOK
  BY TypeParts
<1>2. JobsOK' /\ PanelOK' /\ PanelInv'
  <2>1. CASE Moves(Download)
    BY <2>1, MovesKeep, DownloadApart
  <2>2. CASE UNCHANGED <<job, panelVars, serverVars>>
    <3>1. JobsOK' /\ PanelOK' /\ LoadsOrdered'
      BY <1>1, <2>2
         DEF JobsOK, PanelOK, PanelInv, LoadsOrdered, At, Latest, panelVars
    <3>2. PanelOwned' /\ PanelTrue' /\ PanelFresh'
      BY <2>2, PanelApart DEF PanelInv, panelVars, serverVars
    <3>3. QED
      BY <3>1, <3>2 DEF PanelInv
  <2>3. QED
    BY <2>1, <2>2, NextListMoves, TakeMoves, FlagTakenMoves, CheckMoves,
       GetMoves, AnswerMoves, NoAnswerMoves, WriteRowMoves, DownloadApart
       DEF DownloadStep, Common
<1>3. TablesOK' /\ DirectoryOK' /\ BoundsOK'
  BY CommonTyped, DownloadTyped, DownloadApart DEF DownloadStep
<1>4. QED
  BY <1>2, <1>3 DEF TypeOK, JobsOK, PanelOK, TablesOK, DirectoryOK, BoundsOK

-----------------------------------------------------------------------------
(* What is saved, given up and still to come. *)

\* No load writes an empty row.
LEMMA RowsGrow ==
    ASSUME TypeOK, PanelInv, NEW j \in Jobs, Common(j)
    PROVE  \A r \in Rooms : cached[r] # {} => cached'[r] # {}
<1>1. CASE WriteRow(j)
  <2>1. ~At(j, "done")
    BY <1>1 DEF WriteRow, At
  <2>2. \A row \in job[j].rows : row.at # {} /\ row.room \in Rooms
    BY <2>1, JobIs DEF JobRecord, Row
  <2>3. QED
    BY <1>1, <2>2 DEF WriteRow, TypeOK
<1>2. CASE UNCHANGED cached
  BY <1>2
<1>3. QED
  BY <1>1, <1>2 DEF Common, Check, Get, Answer, NoAnswer, cacheVars

LEMMA LoadSaves ==
    ASSUME TypeOK, PanelInv, SavedInv, NEW j \in Loads, Load(j)
    PROVE  SavedInv'
<1>1. j \in Jobs /\ j # Download /\ Download \in Jobs
  BY DEF Jobs
<1>2. job'[Download] = job[Download]
  <2>1. Moves(j)
    BY <1>1, LookMoves, CheckMoves, GetMoves, AnswerMoves, NoAnswerMoves,
       WriteRowMoves, ShowMoves, FlagMoves DEF Load, Common
  <2>2. PICK x \in JobRecord : Becomes(j, x)
    BY <2>1 DEF Moves, Fits
  <2>3. JobsOK
    BY TypeParts
  <2>4. QED
    BY <1>1, <2>2, <2>3, BecomesIs
<1>3. UNCHANGED <<directory, left, skipped, stayed, server>>
  BY <1>1 DEF Load, Common, Look, Check, Get, Answer, NoAnswer, WriteRow,
              Show, Flag, Skip, directoryVars, serverVars
<1>4. \A r \in Rooms : cached[r] # {} => cached'[r] # {}
  <2>1. CASE Common(j)
    BY <1>1, <2>1, RowsGrow
  <2>2. CASE UNCHANGED cached
    BY <2>2
  <2>3. QED
    BY <2>1, <2>2 DEF Load, Look, Show, Flag, cacheVars
<1>5. QED
  BY <1>2, <1>3, <1>4, SavedApart

\* A step of the download to record x that leaves behind no room of its list,
\* unless it settles for less on it.
LEMMA DownloadSaves ==
    ASSUME TypeOK, PanelInv, SavedInv, NEW x \in JobRecord,
           Becomes(Download, x),
           UNCHANGED <<directory, left, stayed, server>>,
           skipped \subseteq skipped',
           ~At(Download, "done") /\ directory = "downloading",
           x.list = job[Download].list,
           x.valid => /\ x.pc # "fetch"
                      /\ x.pc = "show" => x.list \in skipped',
           \A r \in Rooms : cached[r] # {} => cached'[r] # {},
           \A r \in stayed :
               x.list \in server[r] /\ Due(r, x.list) =>
                   \/ x.list \in skipped'
                   \/ cached'[r] # {}
                   \/ x.pc \in {"check", "get", "fetch"}
                   \/ x.pc \in {"show", "sync"} /\ r \in RoomsIn(x.rows)
    PROVE  SavedInv'
<1>1. job'[Download] = IF x.pc = "done" THEN Over(x) ELSE x
  BY BecomesIs, TypeParts DEF Jobs
<1>2. x.pc = "done" => job'[Download].pc = "done" /\ ~job'[Download].valid
  BY <1>1, OverIs
<1>3. DownloadOrdered'
  BY <1>1, <1>2 DEF DownloadOrdered, At
<1>4. ASSUME NEW r \in stayed, NEW l \in server[r]
      PROVE  l \in left \union skipped' \/ cached'[r] # {} \/ Due(r, l)'
  <2>1. CASE l \in left \union skipped \/ cached[r] # {}
    BY <2>1 DEF TypeOK
  <2>2. CASE Due(r, l)
    <3>1. l = x.list
      BY <2>2 DEF Due
    <3>2. CASE l \in skipped' \/ cached'[r] # {}
      BY <3>2
    <3>3. CASE \/ x.pc \in {"check", "get", "fetch"}
               \/ x.pc \in {"show", "sync"} /\ r \in RoomsIn(x.rows)
      <4>1. job'[Download] = x
        BY <1>1, <3>3
      <4>2. QED
        BY <3>1, <3>3, <4>1 DEF Due
    <3>4. QED
      BY <2>2, <3>1, <3>2, <3>3
  <2>3. QED
    BY <2>1, <2>2 DEF SavedInv, SavedSoFar
<1>5. SavedSoFar'
  BY <1>4 DEF SavedSoFar
<1>6. QED
  BY <1>3, <1>5 DEF SavedInv

\* The download that has something to do: its record.
LEMMA DownloadIs ==
    ASSUME TypeOK, PanelInv, SavedInv, ~At(Download, "done")
    PROVE  /\ job[Download] \in JobRecord
           /\ job[Download].list \in Lists
           /\ directory = "downloading"
           /\ job[Download].valid =>
                 /\ ~At(Download, "fetch")
                 /\ At(Download, "show") => job[Download].list \in skipped
BY JobIs, DownloadApart DEF SavedInv, DownloadOrdered

LEMMA CommonSaves ==
    ASSUME TypeOK, PanelInv, SavedInv, Common(Download)
    PROVE  SavedInv'
<1>1. PICK y : y = job[Download]
  OBVIOUS
<1>2. ~At(Download, "done")
  BY DEF Common, Check, Get, Answer, NoAnswer, WriteRow, At
<1>3. y \in JobRecord /\ y.list \in Lists /\ directory = "downloading"
      /\ (y.valid => y.pc # "fetch" /\ (y.pc = "show" => y.list \in skipped))
  BY <1>1, <1>2, DownloadIs DEF At
<1>4. \A r \in Rooms : cached[r] # {} => cached'[r] # {}
  BY RowsGrow, DownloadApart
<1>5. UNCHANGED <<directory, left, stayed, server>>
  BY DEF Common, Check, Get, Answer, NoAnswer, WriteRow, directoryVars,
         serverVars
<1>6. skipped \subseteq skipped'
  BY DEF Common, Check, Get, Answer, NoAnswer, WriteRow, Skip, directoryVars
<1>7. CASE Check(Download)
  <2>1. PICK x \in JobRecord :
           Becomes(Download, x) /\ x.pc = "get" /\ x.list = y.list
    <3>1. fetched[y.list] \in BOOLEAN
      BY <1>3 DEF TypeOK
    <3>2. /\ [y EXCEPT !.pc = "get", !.valid = fetched[y.list]] \in JobRecord
          /\ [y EXCEPT !.pc = "get"] \in JobRecord
      BY <1>3, <3>1 DEF JobRecord, Pcs
    <3>3. QED
      BY <1>1, <1>3, <1>7, <3>2 DEF Check, JobRecord
  <2>2. QED
    BY <1>1, <1>2, <1>3, <1>4, <1>5, <1>6, <2>1, DownloadSaves
<1>8. CASE Get(Download)
  <2>1. PICK rows : rows = RowsOf(cached, y.list)
    OBVIOUS
  <2>2. rows \in SUBSET Row
    BY <1>3, <2>1, RowsAre DEF TypeOK
  <2>3. CASE rows # {} \/ y.valid
    <3>1. PICK x : x = [y EXCEPT !.pc = "show", !.rows = rows,
                                !.less = y.valid \/ ~y.local]
      OBVIOUS
    <3>2. x \in JobRecord /\ x.list = y.list /\ x.pc = "show"
      BY <1>3, <2>2, <3>1 DEF JobRecord, Pcs
    <3>3. Becomes(Download, x) /\ y.list \in skipped'
      BY <1>1, <1>8, <2>1, <2>3, <3>1 DEF Get, Skip
    <3>4. QED
      BY <1>1, <1>2, <1>3, <1>4, <1>5, <1>6, <3>2, <3>3, DownloadSaves
  <2>4. CASE rows = {} /\ ~y.valid
    <3>1. PICK x : x = [y EXCEPT !.pc = "fetch"]
      OBVIOUS
    <3>2. x \in JobRecord /\ x.list = y.list /\ x.pc = "fetch" /\ ~x.valid
      BY <1>3, <2>4, <3>1 DEF JobRecord, Pcs
    <3>3. Becomes(Download, x)
      BY <1>1, <1>8, <2>1, <2>4, <3>1 DEF Get
    <3>4. QED
      BY <1>1, <1>2, <1>3, <1>4, <1>5, <1>6, <3>2, <3>3, DownloadSaves
  <2>5. QED
    BY <2>3, <2>4
<1>9. CASE Answer(Download)
  <2>1. PICK rows : rows = RowsOf(server, y.list)
    OBVIOUS
  <2>2. /\ rows \in SUBSET Row
        /\ \A r \in Rooms : y.list \in server[r] => r \in RoomsIn(rows)
    BY <1>3, <2>1, RowsAre DEF TypeOK
  <2>3. PICK x : x = [y EXCEPT !.pc = "show", !.rows = rows]
    OBVIOUS
  <2>4. x \in JobRecord /\ x.list = y.list /\ x.pc = "show" /\ x.rows = rows
        /\ x.valid = y.valid
    BY <1>3, <2>2, <2>3 DEF JobRecord, Pcs
  <2>5. y.pc = "fetch" /\ Becomes(Download, x)
    BY <1>1, <1>9, <2>1, <2>3 DEF Answer, At
  <2>6. \A r \in stayed : y.list \in server[r] => r \in RoomsIn(x.rows)
    BY <2>2, <2>4 DEF TypeOK
  <2>7. QED
    BY <1>1, <1>2, <1>3, <1>4, <1>5, <1>6, <2>4, <2>5, <2>6, DownloadSaves
<1>10. CASE NoAnswer(Download)
  <2>1. PICK x : x = [y EXCEPT !.pc = "show", !.less = TRUE]
    OBVIOUS
  <2>2. x \in JobRecord /\ x.list = y.list /\ x.pc = "show"
    BY <1>3, <2>1 DEF JobRecord, Pcs
  <2>3. Becomes(Download, x) /\ y.list \in skipped'
    BY <1>1, <1>10, <2>1 DEF NoAnswer, Skip
  <2>4. QED
    BY <1>1, <1>2, <1>3, <1>4, <1>5, <1>6, <2>2, <2>3, DownloadSaves
<1>11. CASE WriteRow(Download)
  <2>1. y.pc = "sync"
    BY <1>1, <1>11 DEF WriteRow, At
  <2>2. PICK row \in y.rows :
           /\ Becomes(Download, [y EXCEPT !.rows = @ \ {row}])
           /\ \/ cached' = [cached EXCEPT ![row.room] = row.at]
              \/ Skip(Download)
    BY <1>1, <1>11 DEF WriteRow
  <2>3. PICK x : x = [y EXCEPT !.rows = y.rows \ {row}]
    OBVIOUS
  <2>4. x \in JobRecord /\ x.list = y.list /\ x.pc = "sync"
        /\ x.rows = y.rows \ {row}
    BY <1>3, <2>1, <2>3 DEF JobRecord
  <2>5. Becomes(Download, x)
    BY <1>3, <2>2, <2>3 DEF JobRecord
  <2>6. y.list \in row.at /\ row.room \in Rooms
    BY <1>1, <1>2, <1>3, JobIs, DownloadApart DEF JobRecord, Row
  <2>7. y.list \in skipped' \/ cached'[row.room] # {}
    BY <1>1, <2>2, <2>6 DEF Skip, TypeOK
  <2>8. ASSUME NEW r \in stayed, Due(r, y.list)
        PROVE  y.list \in skipped' \/ cached'[r] # {} \/ r \in RoomsIn(x.rows)
    <3>1. r \in RoomsIn(y.rows)
      BY <1>1, <2>1, <2>8 DEF Due
    <3>2. CASE r = row.room
      BY <2>7, <3>2
    <3>3. CASE r # row.room
      BY <2>4, <3>1, <3>3 DEF RoomsIn
    <3>4. QED
      BY <3>2, <3>3
  <2>9. QED
    BY <1>1, <1>2, <1>3, <1>4, <1>5, <1>6, <2>4, <2>5, <2>8, DownloadSaves
<1>12. QED
  BY <1>7, <1>8, <1>9, <1>10, <1>11 DEF Common

\* The next list is taken up, or there is none.
LEMMA NextListSaves ==
    ASSUME TypeOK, PanelInv, SavedInv, NextList
    PROVE  SavedInv'
<1>1. /\ directory = "downloading"
      /\ At(Download, "done")
      /\ UNCHANGED <<server, stayed, cached, skipped>>
  BY DEF NextList, serverVars, cacheVars
<1>2. ASSUME NEW l \in left, left' = left \ {l}, UNCHANGED directory,
             Becomes(Download, [Idle EXCEPT !.pc = "check", !.list = l])
      PROVE  SavedInv'
  <2>1. PICK x : x = [Idle EXCEPT !.pc = "check", !.list = l]
    OBVIOUS
  <2>2. x \in JobRecord /\ x.pc = "check" /\ x.list = l /\ ~x.valid
    BY <2>1 DEF TypeOK, JobRecord, Pcs, Idle
  <2>3. job'[Download] = x
    BY <1>2, <2>1, <2>2, BecomesIs, TypeParts DEF Jobs
  <2>4. DownloadOrdered'
    BY <1>1, <1>2, <2>2, <2>3 DEF DownloadOrdered, At
  <2>5. \A r, k : ~Due(r, k)
    BY <1>1 DEF Due, At
  <2>6. \A r : Due(r, l)'
    BY <2>2, <2>3 DEF Due
  <2>7. SavedSoFar'
    BY <1>1, <1>2, <2>5, <2>6 DEF SavedInv, SavedSoFar
  <2>8. QED
    BY <2>4, <2>7 DEF SavedInv
<1>3. CASE left = {} /\ directory' = "done" /\ UNCHANGED <<left, job>>
  <2>1. DownloadOrdered'
    BY <1>1, <1>3 DEF SavedInv, DownloadOrdered, At
  <2>2. \A r, l : Due(r, l)' <=> Due(r, l)
    BY <1>3 DEF Due
  <2>3. SavedSoFar'
    BY <1>1, <1>3, <2>2 DEF SavedInv, SavedSoFar
  <2>4. QED
    BY <2>1, <2>3 DEF SavedInv
<1>4. QED
  BY <1>2, <1>3 DEF NextList

\* A list that is not written has no rooms or was settled for less on.
LEMMA TakeSaves ==
    ASSUME TypeOK, PanelInv, SavedInv, Take
    PROVE  SavedInv'
<1>1. PICK y : y = job[Download]
  OBVIOUS
<1>2. ~At(Download, "done") /\ y.pc = "show"
  BY <1>1 DEF Take, At
<1>3. y \in JobRecord /\ directory = "downloading"
      /\ (y.valid => y.list \in skipped)
  BY <1>1, <1>2, DownloadIs DEF At
<1>4. PICK x : x = [y EXCEPT !.pc = IF y.valid \/ y.rows = {} THEN "done"
                                                              ELSE "sync"]
  OBVIOUS
<1>5. /\ x \in JobRecord /\ x.list = y.list /\ x.rows = y.rows
      /\ x.pc = IF y.valid \/ y.rows = {} THEN "done" ELSE "sync"
  BY <1>3, <1>4 DEF JobRecord, Pcs
<1>6. Becomes(Download, x)
      /\ UNCHANGED <<directory, left, stayed, server, cached, skipped>>
  BY <1>1, <1>4 DEF Take, serverVars, cacheVars, directoryVars
<1>7. ASSUME NEW r \in stayed, Due(r, x.list)
      PROVE  x.list \in skipped' \/ (x.pc = "sync" /\ r \in RoomsIn(x.rows))
  <2>1. r \in RoomsIn(y.rows)
    BY <1>1, <1>2, <1>7 DEF Due
  <2>2. y.rows # {}
    BY <2>1 DEF RoomsIn
  <2>3. QED
    BY <1>3, <1>5, <1>6, <2>1, <2>2
<1>8. QED
  BY <1>1, <1>2, <1>3, <1>5, <1>6, <1>7, DownloadSaves

\* When all rows are written no room is still to come.
LEMMA FlagTakenSaves ==
    ASSUME TypeOK, PanelInv, SavedInv, FlagTaken
    PROVE  SavedInv'
<1>1. PICK y : y = job[Download]
  OBVIOUS
<1>2. ~At(Download, "done") /\ y.pc = "sync" /\ y.rows = {}
  BY <1>1 DEF FlagTaken, At
<1>3. y \in JobRecord /\ directory = "downloading"
  BY <1>1, <1>2, DownloadIs
<1>4. PICK x : x = [y EXCEPT !.pc = "done"]
  OBVIOUS
<1>5. x \in JobRecord /\ x.list = y.list /\ x.pc = "done"
  BY <1>3, <1>4 DEF JobRecord, Pcs
<1>6. Becomes(Download, x)
      /\ UNCHANGED <<left, stayed, server, cached, skipped>>
  BY <1>1, <1>4 DEF FlagTaken, serverVars
<1>7. \A r, l : ~Due(r, l)
  BY <1>1, <1>2 DEF Due, RoomsIn
<1>8. CASE UNCHANGED directory
  BY <1>1, <1>2, <1>3, <1>5, <1>6, <1>7, <1>8, DownloadSaves
<1>9. CASE directory' = "error"
  <2>1. job'[Download] = Over(x)
    BY <1>5, <1>6, BecomesIs, TypeParts DEF Jobs
  <2>2. job'[Download].pc = "done" /\ ~job'[Download].valid
    BY <1>5, <2>1, OverIs
  <2>3. DownloadOrdered'
    BY <1>9, <2>2 DEF DownloadOrdered, At
  <2>4. SavedSoFar'
    BY <1>9 DEF SavedSoFar
  <2>5. QED
    BY <2>3, <2>4 DEF SavedInv
<1>10. QED
  BY <1>8, <1>9 DEF FlagTaken

-----------------------------------------------------------------------------
(* What people do. *)

\* A load that is outdated goes on, but paints no more.
LEMMA OutdatedIs ==
    ASSUME NEW x \in JobRecord, NEW remount \in BOOLEAN
    PROVE  LET y == Outdated(x, remount) IN
           /\ y \in JobRecord
           /\ y.pc = x.pc
           /\ ~(y.seen /\ y.current)
           /\ ~x.seen => ~y.seen
           /\ x.pc # "done" => y.list = x.list /\ y.rows = x.rows
                                  /\ y.valid = x.valid /\ y.again = x.again
           /\ x.pc = "done" => y.rows = {} /\ ~y.again
<1>1. PICK y : y = IF remount THEN [x EXCEPT !.seen = FALSE]
                   ELSE [x EXCEPT !.current = @ /\ ~x.seen]
  OBVIOUS
<1>2. /\ y \in JobRecord /\ y.pc = x.pc /\ ~(y.seen /\ y.current)
      /\ ~x.seen => ~y.seen
      /\ y.list = x.list /\ y.rows = x.rows /\ y.valid = x.valid
      /\ y.again = x.again
  BY <1>1 DEF JobRecord
<1>3. Outdated(x, remount) = IF y.pc = "done" THEN Over(y) ELSE y
  BY <1>1 DEF Outdated
<1>4. CASE y.pc = "done"
  BY <1>2, <1>3, <1>4, OverIs
<1>5. CASE y.pc # "done"
  BY <1>2, <1>3, <1>5
<1>6. QED
  BY <1>4, <1>5

LEMMA OpenKeeps ==
    ASSUME TypeOK, PanelInv, SavedInv, NEW l \in Lists, Open(l)
    PROVE  TypeOK' /\ PanelInv' /\ SavedInv'
<1>1. PICK j : j = CHOOSE i \in Loads \ UnderWay : TRUE
  OBVIOUS
<1>2. j \in Loads /\ j \in Jobs /\ Download \in Jobs /\ Download # j
  BY <1>1, LoadFree DEF Open, Jobs
<1>3. PICK remount \in BOOLEAN : remount <=> panel # KindOf[l]
  OBVIOUS
<1>4. PICK x : x = [Idle EXCEPT !.pc = "look", !.list = l,
                               !.seen = TRUE, !.current = TRUE]
  OBVIOUS
<1>5. /\ x \in JobRecord /\ x.pc = "look" /\ x.list = l /\ x.rows = {}
      /\ x.seen /\ x.current /\ ~x.again
  BY <1>4 DEF Idle, JobRecord, Pcs
<1>6. job' = [i \in Jobs |-> IF i = j THEN x ELSE Outdated(job[i], remount)]
  BY <1>1, <1>3, <1>4 DEF Open
<1>7. job'[j] = x
  BY <1>2, <1>6
<1>8. ASSUME NEW i \in Jobs, i # j
      PROVE  /\ job'[i] \in JobRecord
             /\ job'[i].pc = job[i].pc
             /\ ~(job'[i].seen /\ job'[i].current)
             /\ ~job[i].seen => ~job'[i].seen
             /\ job[i].pc # "done" =>
                   /\ job'[i].list = job[i].list
                   /\ job'[i].rows = job[i].rows
                   /\ job'[i].valid = job[i].valid
                   /\ job'[i].again = job[i].again
             /\ job[i].pc = "done" => job'[i].rows = {} /\ ~job'[i].again
  <2>1. job[i] \in JobRecord /\ job'[i] = Outdated(job[i], remount)
    BY <1>6, <1>8 DEF TypeOK
  <2>2. QED
    BY <2>1, OutdatedIs
<1>9. \A i \in Jobs : Latest(i)' <=> i = j
  BY <1>5, <1>7, <1>8 DEF Latest
<1>10. JobsOK'
  <2>1. job' \in [Jobs -> JobRecord]
    BY <1>5, <1>6, <1>7, <1>8
  <2>2. \A i \in Jobs : At(i, "done")' \/
          /\ job'[i].list \in Lists
          /\ \A row \in job'[i].rows : job'[i].list \in row.at
    BY <1>5, <1>7, <1>8 DEF At, TypeOK
  <2>3. QED
    BY <1>9, <2>1, <2>2 DEF JobsOK
<1>11. LoadsOrdered'
  BY <1>5, <1>7, <1>8 DEF PanelInv, LoadsOrdered, At
<1>12. /\ panel' = KindOf[l] /\ selected' = l
       /\ lately' = {RoomsIn(RowsOf(server, l))}
       /\ UNCHANGED <<serverVars, cacheVars, directoryVars, failures>>
       /\ Asked
  BY DEF Open
<1>13. /\ shown' \in {None, shown}
       /\ shown' # None /\ KindOf[l] \in Clearing =>
             shown' = shown /\ l = selected
  BY DEF Open
<1>14. PanelOK'
  <2>1. RoomsIn(RowsOf(server, l)) \in SUBSET Rooms
    BY RowsAre DEF TypeOK
  <2>2. QED
    BY <1>12, <1>13, <2>1 DEF PanelOK, TypeOK
<1>15. TablesOK' /\ DirectoryOK' /\ BoundsOK'
  BY <1>12 DEF TablesOK, DirectoryOK, BoundsOK, TypeOK, serverVars, cacheVars,
               directoryVars, Asked
<1>16. TypeOK'
  BY <1>10, <1>14, <1>15
     DEF TypeOK, JobsOK, PanelOK, TablesOK, DirectoryOK, BoundsOK
<1>17. PanelOwned'
  BY <1>2, <1>8, <1>9 DEF PanelInv, PanelOwned
<1>18. PanelTrue' /\ PanelFresh'
  <2>1. shown' # None /\ KindOf[l] \in Clearing => shown'.of = l
    BY <1>13 DEF PanelInv, PanelTrue
  <2>2. Holds(job[j], shown)'
    BY <1>5, <1>7, <1>12, <2>1 DEF Holds
  <2>3. RoomsIn(RowsOf(server, selected))' \in lately'
    BY <1>12 DEF RoomsIn, RowsOf, serverVars
  <2>4. selected' # None
    BY <1>12
  <2>5. \A i \in Loads : Latest(i)' => Holds(job[i], shown)'
    BY <1>9, <2>2 DEF Jobs
  <2>6. \E i \in Loads : Latest(i)'
    BY <1>2, <1>9
  <2>7. QED
    BY <2>3, <2>4, <2>5, <2>6, HoldsAll
<1>19. SavedInv'
  BY <1>2, <1>8, <1>12, SavedApart
     DEF At, serverVars, cacheVars, directoryVars
<1>20. QED
  BY <1>11, <1>16, <1>17, <1>18, <1>19 DEF PanelInv

LEMMA UnselectKeeps ==
    ASSUME TypeOK, PanelInv, SavedInv, Unselect
    PROVE  TypeOK' /\ PanelInv' /\ SavedInv'
<1>1. /\ selected' = None /\ shown' = None /\ lately' = {}
      /\ UNCHANGED <<panel, job, serverVars, cacheVars, directoryVars,
                     failures>>
      /\ Asked
  BY DEF Unselect
<1>2. TypeOK'
  BY <1>1 DEF TypeOK, At, Latest, serverVars, cacheVars, directoryVars, Asked
<1>3. PanelInv'
  BY <1>1 DEF PanelInv, PanelOwned, PanelTrue, PanelFresh, LoadsOrdered, At
<1>4. SavedInv'
  BY <1>1, SavedApart DEF serverVars, cacheVars, directoryVars
<1>5. QED
  BY <1>2, <1>3, <1>4

\* Every list is still to come or left out.
LEMMA StartKeeps ==
    ASSUME TypeOK, PanelInv, SavedInv, StartDownload
    PROVE  TypeOK' /\ PanelInv' /\ SavedInv'
<1>1. /\ directory # "downloading" /\ directory' = "downloading"
      /\ left' \subseteq Lists /\ skipped' = Lists \ left'
      /\ stayed' = Rooms
      /\ UNCHANGED <<server, cached, panelVars, job>>
      /\ asks' \in Nat /\ failures' \in Nat
      /\ fetched' \in [Lists -> BOOLEAN]
  <2>1. fetched' \in [Lists -> BOOLEAN]
    BY DEF StartDownload, TypeOK
  <2>2. asks' \in Nat /\ failures' \in Nat
    BY DEF StartDownload, TypeOK, Asked, Failed
  <2>3. left' \subseteq Lists
    BY DEF StartDownload
  <2>4. QED
    BY <2>1, <2>2, <2>3 DEF StartDownload
<1>2. TypeOK'
  BY <1>1 DEF TypeOK, At, Latest, panelVars
<1>3. PanelInv'
  <2>1. PanelOwned' /\ PanelTrue' /\ PanelFresh'
    BY <1>1, PanelApart DEF PanelInv, panelVars
  <2>2. LoadsOrdered'
    BY <1>1 DEF PanelInv, LoadsOrdered, At
  <2>3. QED
    BY <2>1, <2>2 DEF PanelInv
<1>4. SavedInv'
  <2>1. At(Download, "done")
    BY <1>1 DEF SavedInv, DownloadOrdered
  <2>2. DownloadOrdered'
    BY <1>1, <2>1 DEF DownloadOrdered, At
  <2>3. \A r \in Rooms : server[r] \subseteq Lists
    BY DEF TypeOK, Places
  <2>4. SavedSoFar'
    BY <1>1, <2>3 DEF SavedSoFar
  <2>5. QED
    BY <2>2, <2>4 DEF SavedInv
<1>5. QED
  BY <1>2, <1>3, <1>4

\* Rooms that change are no longer promised, and what the selected list becomes
\* may be shown.
LEMMA EditKeeps ==
    ASSUME TypeOK, PanelInv, SavedInv, EditRooms
    PROVE  TypeOK' /\ PanelInv' /\ SavedInv'
<1>1. /\ server' \in [Rooms -> Places]
      /\ stayed' \subseteq stayed
      /\ \A r \in stayed' : server'[r] = server[r]
      /\ UNCHANGED <<cached, fetched, panel, selected, shown, job, directory,
                     left, skipped, failures>>
      /\ Asked
  BY WorldsAssumption DEF EditRooms, cacheVars, directoryVars
<1>2. selected # None =>
         RoomsIn(RowsOf(server', selected)) \in SUBSET Rooms
  BY <1>1, RowsAre DEF TypeOK
<1>3. /\ lately \subseteq lately' /\ lately' \subseteq SUBSET Rooms
      /\ selected # None => RoomsIn(RowsOf(server', selected)) \in lately'
  BY <1>2 DEF EditRooms, TypeOK
<1>4. TypeOK'
  BY <1>1, <1>3 DEF TypeOK, At, Latest, Asked
<1>5. PanelInv'
  <2>1. PanelOwned' /\ LoadsOrdered' /\ PanelTrue'
    BY <1>1 DEF PanelInv, PanelOwned, LoadsOrdered, PanelTrue, At, Latest
  <2>2. PanelFresh'
    <3>1. selected' # None => RoomsIn(RowsOf(server, selected))' \in lately'
      BY <1>1, <1>3 DEF RoomsIn, RowsOf
    <3>2. QED
      BY <1>1, <1>3, <3>1 DEF PanelInv, PanelFresh, At, Latest
  <2>3. QED
    BY <2>1, <2>2 DEF PanelInv
<1>6. SavedInv'
  <2>1. DownloadOrdered'
    BY <1>1 DEF SavedInv, DownloadOrdered, At
  <2>2. \A r, l : Due(r, l)' <=> Due(r, l)
    BY <1>1 DEF Due
  <2>3. SavedSoFar'
    BY <1>1, <2>2 DEF SavedInv, SavedSoFar
  <2>4. QED
    BY <2>1, <2>3 DEF SavedInv
<1>7. QED
  BY <1>4, <1>5, <1>6

LEMMA IdleIs ==
    /\ Idle \in JobRecord
    /\ Idle.pc = "done" /\ Idle.rows = {} /\ Idle.again = FALSE
    /\ Idle.seen = FALSE /\ Idle.current = FALSE /\ Idle.valid = FALSE
BY DEF Idle, JobRecord, Pcs

\* Nothing is under way and nothing is shown.
LEMMA Rest ==
    ASSUME panel' = None, selected' = None, shown' = None, lately' = {},
           job' = [j \in Jobs |-> Idle],
           directory' = "idle", left' = {}, skipped' = {}
    PROVE  JobsOK' /\ PanelOK' /\ PanelInv' /\ SavedInv'
<1>1. \A j \in Jobs : job'[j] = Idle
  OBVIOUS
<1>2. JobsOK'
  BY <1>1, IdleIs DEF JobsOK, At, Latest
<1>3. PanelOK'
  BY DEF PanelOK
<1>4. PanelInv'
  BY <1>1, IdleIs
     DEF PanelInv, PanelOwned, PanelTrue, PanelFresh, LoadsOrdered, Jobs
<1>5. SavedInv'
  BY <1>1, IdleIs DEF SavedInv, DownloadOrdered, SavedSoFar, At, Jobs
<1>6. QED
  BY <1>2, <1>3, <1>4, <1>5

LEMMA CloseKeeps ==
    ASSUME TypeOK, ClosePage
    PROVE  TypeOK' /\ PanelInv' /\ SavedInv'
<1>1. JobsOK' /\ PanelOK' /\ PanelInv' /\ SavedInv'
  BY Rest DEF ClosePage
<1>2. TablesOK' /\ DirectoryOK' /\ BoundsOK'
  BY DEF ClosePage, TypeOK, TablesOK, DirectoryOK, BoundsOK, Asked, serverVars,
         cacheVars
<1>3. QED
  BY <1>1, <1>2 DEF TypeOK, JobsOK, PanelOK, TablesOK, DirectoryOK, BoundsOK

-----------------------------------------------------------------------------
(* The inductive invariant *)

LEMMA InvParts == IInv <=> TypeOK /\ PanelInv /\ SavedInv
BY DEF IInv, PanelInv, SavedInv

LEMMA InitIInv ==
    ASSUME Init
    PROVE  IInv
<1>1. \A j \in Jobs : job[j] = Idle
  BY DEF Init
<1>2. TypeOK
  <2>1. JobsOK
    BY <1>1, IdleIs DEF Init, JobsOK, At, Latest
  <2>2. TablesOK
    BY WorldsAssumption DEF Init, TablesOK, Places
  <2>3. PanelOK /\ DirectoryOK /\ BoundsOK
    BY DEF Init, PanelOK, DirectoryOK, BoundsOK
  <2>4. QED
    BY <2>1, <2>2, <2>3, TypeParts
<1>3. PanelInv
  BY <1>1, IdleIs
     DEF Init, PanelInv, PanelOwned, PanelTrue, PanelFresh, LoadsOrdered, Jobs
<1>4. SavedInv
  BY <1>1, IdleIs DEF Init, SavedInv, DownloadOrdered, SavedSoFar, At, Jobs
<1>5. QED
  BY <1>2, <1>3, <1>4, InvParts

LEMMA StepIInv ==
    ASSUME IInv, Next
    PROVE  IInv'
<1>1. TypeOK /\ PanelInv /\ SavedInv
  BY InvParts
<1>2. CASE Ask
  <2>1. TypeOK' /\ PanelInv' /\ SavedInv'
    BY <1>1, <1>2, OpenKeeps, UnselectKeeps, StartKeeps, EditKeeps, CloseKeeps
       DEF Ask
  <2>2. QED
    BY <2>1 DEF IInv, PanelInv, SavedInv
<1>3. CASE \E j \in Loads : Load(j)
  <2>1. TypeOK' /\ PanelInv' /\ SavedInv'
    BY <1>1, <1>3, LoadKeeps, LoadSaves
  <2>2. QED
    BY <2>1 DEF IInv, PanelInv, SavedInv
<1>4. CASE DownloadStep
  <2>1. TypeOK' /\ PanelInv'
    BY <1>1, <1>4, DownloadKeeps
  <2>2. SavedInv'
    BY <1>1, <1>4, NextListSaves, CommonSaves, TakeSaves, FlagTakenSaves
       DEF DownloadStep
  <2>3. QED
    BY <2>1, <2>2 DEF IInv, PanelInv, SavedInv
<1>5. QED
  BY <1>2, <1>3, <1>4 DEF Next

\* A stuttering step.
LEMMA StutterIInv ==
    ASSUME IInv, UNCHANGED vars
    PROVE  IInv'
<1>1. TypeOK'
  BY DEF IInv, TypeOK, At, Latest, vars
<1>2. PanelOwned' /\ PanelTrue' /\ PanelFresh' /\ LoadsOrdered'
  BY PanelApart DEF IInv, LoadsOrdered, At, vars
<1>3. DownloadOrdered'
  BY DEF IInv, DownloadOrdered, At, vars
<1>4. \A r, l : Due(r, l)' <=> Due(r, l)
  BY DEF Due, vars
<1>5. SavedSoFar'
  BY <1>4 DEF IInv, SavedSoFar, vars
<1>6. QED
  BY <1>1, <1>2, <1>3, <1>5 DEF IInv

\* What panel, loads and download go by holds in every behaviour.
THEOREM Invariance == Spec => []IInv
<1>1. IInv /\ [Next]_vars => IInv'
  BY StepIInv, StutterIInv
<1>2. QED
  BY InitIInv, <1>1, PTL DEF Spec

\* Rows, flags, jobs, panel and directory keep their shape, and one load at most
\* is the latest.
THEOREM TypeCorrect == Spec => []TypeOK
<1>1. IInv => TypeOK
  BY DEF IInv
<1>2. QED
  BY <1>1, Invariance, PTL

\* However loads overtake each other, a panel never shows a list selected before
\* the one it was given, but for a college's or division's until its own load
\* paints.
THEOREM SelectionShown == Spec => []ShownOfSelection
<1>1. IInv => ShownOfSelection
  BY DEF IInv, PanelOwned, PanelTrue, ShownOfSelection
<1>2. QED
  BY <1>1, Invariance, PTL

\* A load that ends without settling for less leaves on the panel what the
\* server held for the list since it was selected.
THEOREM FreshShown == Spec => []ShownFresh
<1>1. IInv => ShownFresh
  BY DEF IInv, PanelTrue, PanelFresh, ShownFresh
<1>2. QED
  BY <1>1, Invariance, PTL

\* A directory that is reported as saved has the rooms that did not change
\* during the download, in lists it did not settle for less on.
THEOREM SavedDirectory == Spec => []DirectorySaved
<1>1. IInv => DirectorySaved
  BY DEF IInv, DownloadOrdered, SavedSoFar, Due, At, DirectorySaved
<1>2. QED
  BY <1>1, Invariance, PTL
=============================================================================
