-------------------------- MODULE CacheSyncProofs --------------------------
(***************************************************************************)
(* Proofs about CacheSync, for any refreshes, tables, rows and bounds.     *)
(***************************************************************************)
EXTENDS CacheSync, SequenceTheorems, TLAPS

\* The shape of a refresh's record (localTableSyncCheck, getEntity).
LEMMA BlankType == Blank \in Job
BY DEF Blank, Job, NoRows, Rows

\* Fields set one at a time.
LEMMA JobFields ==
    ASSUME NEW j \in Job
    PROVE  /\ \A key \in Nat \union {None} : [j EXCEPT !.key = key] \in Job
           /\ \A n \in Nat : [j EXCEPT !.since = n] \in Job
           /\ \A rows \in Rows : [j EXCEPT !.rows = rows] \in Job
<1>2. /\ j.key \in Nat \union {None} /\ j.valid \in BOOLEAN /\ j.since \in Nat
      /\ j.rows \in Rows /\ j.todo \in SUBSET Ids
  BY DEF Job
<1>3. \A key \in Nat \union {None} : [j EXCEPT !.key = key] \in Job
  BY <1>2 DEF Job
<1>4. \A n \in Nat : [j EXCEPT !.since = n] \in Job
  BY <1>2 DEF Job
<1>5. \A rows \in Rows : [j EXCEPT !.rows = rows] \in Job
  BY <1>2 DEF Job
<1> QED BY <1>3, <1>4, <1>5

\* A response has the shape of the server's rows, and none of its rows is from
\* before the change s at which it was asked for.
LEMMA ResponseFacts ==
    ASSUME TypeOK, NEW s \in Nat \ {0}, NEW rows \in Responses(s)
    PROVE  /\ rows \in Rows
           /\ \A i \in Ids : \E n \in s..Now : rows[i] = past[n][i]
<1>1. \A n \in s..Now : past[n] \in Rows
  BY DEF TypeOK, Now
<1>2. \A i \in Ids : \E n \in s..Now : rows[i] = past[n][i]
  BY DEF Responses
<1>3. \A i \in Ids : rows[i] \in Nat
  BY <1>1, <1>2 DEF Rows
<1>4. rows \in [Ids -> UNION {{past[n][i] : i \in Ids} : n \in s..Now}]
  BY DEF Responses
<1> QED BY <1>2, <1>3, <1>4 DEF Rows

\* What the server has had it keeps having: changes and keys are appended
\* (refreshSyncKey draws a new key).
Grows ==
    /\ Now <= Now' /\ \A n \in 1..Now : past'[n] = past[n]
    /\ RemoteKey <= RemoteKey'
    /\ \A k \in 1..RemoteKey : announced'[k] = announced[k]

LEMMA ServerGrows ==
    ASSUME TypeOK, Next
    PROVE  Grows /\ past' \in Seq(Rows) /\ past' # <<>>
<1>1. CASE UNCHANGED <<past, announced>>
  BY <1>1 DEF Grows, Now, RemoteKey, TypeOK
<1>2. ASSUME NEW i \in Ids, NEW there \in BOOLEAN, Change(i, there)
      PROVE  Grows /\ past' \in Seq(Rows) /\ past' # <<>>
  <2> DEFINE rows == [past[Now] EXCEPT ![i] = IF there THEN Now + 1 ELSE 0]
  <2>1. Now \in Nat \ {0} /\ past[Now] \in Rows
    BY DEF TypeOK, Now
  <2>2. rows \in Rows
    BY <2>1 DEF Rows
  <2>3. past' = Append(past, rows) /\ announced' = announced
    BY <1>2 DEF Change
  <2> HIDE DEF rows
  <2> QED BY <2>2, <2>3 DEF Grows, Now, RemoteKey, TypeOK
<1>3. ASSUME Announce
      PROVE  Grows /\ past' \in Seq(Rows) /\ past' # <<>>
  <2>1. Now \in Nat \ {0}
    BY DEF TypeOK, Now
  <2> QED BY <1>3, <2>1 DEF Announce, Grows, Now, RemoteKey, TypeOK
<1>4. Server \/ UNCHANGED <<past, announced>>
  BY DEF Next, Next, Begin, Continue, ReadKey, Compare, LoadCached,
     Request, Receive, Retry, FetchFails, Skip, StartSync, Rebuild, StoreKey,
     Clear, KeepOld, Insert, LoseRow, SyncFails, Invalidate, Close, Evict, serverVars
<1> QED BY <1>1, <1>2, <1>3, <1>4 DEF Server

\* So rows that were at least as new as a key stay so.
LEMMA StillFresh ==
    ASSUME TypeOK, KeysAnnounced, Grows,
           NEW key \in 1..RemoteKey, NEW rows, NEW ids, AtLeast(rows, key, ids)
    PROVE  \A i \in ids : \E n \in announced'[key]..Now' : rows[i] = past'[n][i]
<1> SUFFICES ASSUME NEW i \in ids
             PROVE  \E n \in announced'[key]..Now' : rows[i] = past'[n][i]
  OBVIOUS
<1>1. PICK n \in announced[key]..Now : rows[i] = past[n][i]
  BY DEF AtLeast
<1>2. announced[key] \in 1..Now /\ Now \in Nat /\ Now' \in Int
  BY DEF KeysAnnounced, TypeOK, Now, Grows
<1>3. n \in 1..Now /\ n \in announced'[key]..Now' /\ past'[n] = past[n]
  BY <1>1, <1>2 DEF Grows
<1> QED BY <1>1, <1>3

-----------------------------------------------------------------------------
\* Every step leaves the variables readable.
LEMMA TypeStep == ASSUME Honest, Next PROVE TypeOK'
<1> USE NoneAssumption DEF Honest
<1>a. past' \in Seq(Rows) /\ past' # <<>>
  BY ServerGrows
<1>b. Now \in Nat \ {0} /\ RemoteKey \in Nat \ {0}
  BY DEF TypeOK, Now, RemoteKey
<1>c. Blank \in Job
  BY BlankType
<1>d. NoRows \in Rows
  BY DEF NoRows, Rows
<1>1. ASSUME NEW i \in Ids, NEW there \in BOOLEAN, Change(i, there)
      PROVE  TypeOK'
  BY <1>1, <1>a DEF Change, localVars, TypeOK
<1>2. CASE Announce
  BY <1>2, <1>a, <1>b DEF Announce, localVars, TypeOK
<1>3. ASSUME NEW r \in Refreshes, Begin(r) PROVE TypeOK'
  BY <1>3, <1>a DEF Begin, Goto, TypeOK, Steps, localVars, serverVars
<1>4. ASSUME NEW r \in Refreshes, Continue(r) PROVE TypeOK'
  <2>a. job[r] \in Job
    BY DEF TypeOK
  <2>b. job[r].rows \in Rows
    BY <2>a DEF Job
  <2>c. pc[r] = "committed" => job[r].key \in Nat
    BY <2>a DEF Job, JobsFresh
  <2>1. CASE ReadKey(r)
    <3>1. job' \in [Refreshes -> Job]
      BY <2>1, <1>b, <2>a, JobFields DEF ReadKey, TypeOK
    <3> QED BY <2>1, <3>1, <1>a DEF ReadKey, Goto, TypeOK, Steps, localVars, serverVars
  <2>2. CASE Compare(r)
    <3> DEFINE valid == (stored = job[r].key)
    <3>1. valid \in BOOLEAN /\ job' = [job EXCEPT ![r].valid = valid]
      BY <2>2 DEF Compare
    <3> HIDE DEF valid
    <3>2. job' \in [Refreshes -> Job]
      BY <3>1 DEF TypeOK, Job
    <3> QED BY <2>2, <3>2, <1>a DEF Compare, Goto, TypeOK, Steps, localVars, serverVars
  <2>3. CASE LoadCached(r) \/ FetchFails(r) \/ Skip(r) \/ SyncFails(r)
    BY <2>3, <1>a, <1>c DEF LoadCached, FetchFails, Skip, SyncFails, Finish,
       Goto, TypeOK, Steps, localVars, serverVars
  <2>4. CASE Request(r) \/ Retry(r)
    <3>1. job' \in [Refreshes -> Job]
      BY <2>4, <1>b, <2>a, JobFields DEF Request, Retry, TypeOK
    <3>2. pc' \in [Refreshes -> Steps]
      BY <2>4 DEF Request, Retry, Goto, TypeOK, Steps
    <3> QED BY <2>4, <3>1, <3>2, <1>a DEF Request, Retry, TypeOK, localVars, serverVars
  <2>5. CASE Receive(r)
    <3>1. PICK rows \in Responses(job[r].since) :
             job' = [job EXCEPT ![r] = [@ EXCEPT !.rows = rows]]
      BY <2>5 DEF Receive
    <3>2. job[r].since \in Nat \ {0}
      BY <2>5 DEF Receive, JobsFresh, KeysAnnounced, Now, TypeOK
    <3>3. rows \in Rows
      BY <3>2, ResponseFacts
    <3> QED BY <2>5, <3>1, <3>3, <1>a, <2>a DEF Receive, Goto, TypeOK, Job,
               Steps, localVars, serverVars
  <2>6. CASE StartSync(r)
    BY <2>6, <1>a DEF StartSync, Goto, TypeOK, Steps, localVars, serverVars
  <2>7. CASE Rebuild(r)
    BY <2>7, <1>a, <2>b DEF Rebuild, Goto, TypeOK, Steps, serverVars
  <2>11. CASE StoreKey(r)
    BY <2>11, <1>a, <1>c, <2>c DEF StoreKey, Finish, Goto, TypeOK, Steps, serverVars
  <2>8. ASSUME NEW todo \in SUBSET Ids, Loop(r, todo)
        PROVE  pc' \in [Refreshes -> Steps] /\ job' \in [Refreshes -> Job]
    <3>1. pc' \in [Refreshes -> Steps]
      BY <2>8 DEF Loop, Goto, TypeOK, Steps
    <3> DEFINE j == [job[r] EXCEPT !.todo = todo]
    <3>2. j \in Job /\ job' = [job EXCEPT ![r] = j]
      BY <2>8, <2>a DEF Loop, Job
    <3> HIDE DEF j
    <3> QED BY <3>1, <3>2 DEF TypeOK
  <2>9. CASE Clear(r) \/ KeepOld(r)
    <3>1. ToWrite(r) \in SUBSET Ids
      BY DEF ToWrite
    <3>2. Loop(r, ToWrite(r)) /\ pc[r] = "syncing" /\ spoilt' \subseteq Ids
      BY <2>9, <3>1 DEF Clear, KeepOld, TypeOK
    <3>3. local' \in Rows
      BY <2>9, <1>d DEF Clear, KeepOld, TypeOK
    <3>4. pc' \in [Refreshes -> Steps] /\ job' \in [Refreshes -> Job]
      BY <2>8, <3>1, <3>2
    <3> QED BY <2>9, <3>2, <3>3, <3>4, <1>a DEF Clear, KeepOld, TypeOK, localVars, serverVars
  <2>10. ASSUME NEW i \in Ids, Insert(r, i) \/ LoseRow(r, i) PROVE TypeOK'
    <3>1. job[r].todo \ {i} \in SUBSET Ids
      BY <2>a DEF Job
    <3>2. Loop(r, job[r].todo \ {i}) /\ pc[r] = "writing" /\ spoilt' \subseteq Ids
      BY <2>10 DEF Insert, LoseRow, TypeOK
    <3>3. local' \in Rows
      BY <2>10, <2>b DEF Insert, LoseRow, TypeOK, Rows
    <3>4. pc' \in [Refreshes -> Steps] /\ job' \in [Refreshes -> Job]
      BY <2>8, <3>1, <3>2
    <3> QED BY <2>10, <3>2, <3>3, <3>4, <1>a DEF Insert, LoseRow, TypeOK, localVars, serverVars
  <2> QED BY <1>4, <2>1, <2>2, <2>3, <2>4, <2>5, <2>6, <2>7, <2>9, <2>10, <2>11
             DEF Continue
<1>5. CASE Invalidate
  BY <1>5, <1>a DEF Invalidate, TypeOK, localVars, serverVars
<1>6. CASE Close
  BY <1>6, <1>a, <1>c DEF Close, TypeOK, Steps, localVars, serverVars
<1>7. CASE Evict
  BY <1>7, <1>a, <1>d DEF Evict, TypeOK, localVars, serverVars
<1> QED BY <1>1, <1>2, <1>3, <1>4, <1>5, <1>6, <1>7
           DEF Next, Next, Server

\* A new key is announced after the change it stands for.
LEMMA KeysStep == ASSUME TypeOK, KeysAnnounced, Next PROVE KeysAnnounced'
<1>1. Grows
  BY ServerGrows
<1>2. Now \in Nat \ {0} /\ Now' \in Nat /\ RemoteKey \in Nat
  BY ServerGrows DEF TypeOK, Now, RemoteKey
<1>3. CASE announced' = announced
  <2>1. RemoteKey' = RemoteKey
    BY <1>3 DEF RemoteKey
  <2>2. \A key \in 1..RemoteKey : announced[key] \in 1..Now'
    BY <1>1, <1>2 DEF KeysAnnounced, Grows
  <2>3. \A k, l \in 1..RemoteKey : k <= l => announced[k] <= announced[l]
    BY DEF KeysAnnounced
  <2> QED BY <1>3, <2>1, <2>2, <2>3 DEF KeysAnnounced
<1>4. CASE Announce
  <2>1. announced' = Append(announced, Now) /\ Now' = Now
    BY <1>4 DEF Announce, Now
  <2>2. RemoteKey' = RemoteKey + 1 /\ announced'[RemoteKey + 1] = Now
    BY <2>1, <1>2 DEF RemoteKey, TypeOK
  <2>3. \A key \in 1..RemoteKey : announced'[key] \in 1..Now
    BY <1>1 DEF KeysAnnounced, Grows
  <2>4. \A key \in 1..RemoteKey' : key \in 1..RemoteKey \/ key = RemoteKey + 1
    BY <1>2, <2>2
  <2>5. Now' = Now /\ Now \in 1..Now
    BY <1>2, <2>1
  <2>6. \A key \in 1..RemoteKey' : announced'[key] \in 1..Now'
    BY <2>2, <2>3, <2>4, <2>5
  <2>7. ASSUME NEW k \in 1..RemoteKey', NEW l \in 1..RemoteKey', k <= l
        PROVE  announced'[k] <= announced'[l]
    <3>1. CASE l = RemoteKey + 1
      <4>1. announced'[k] \in 1..Now
        BY <2>5, <2>6
      <4> QED BY <1>2, <2>2, <3>1, <4>1
    <3>2. CASE l # RemoteKey + 1
      <4>1. k \in 1..RemoteKey /\ l \in 1..RemoteKey
        BY <1>2, <2>2, <2>7, <3>2
      <4> QED BY <1>1, <2>7, <4>1 DEF KeysAnnounced, Grows
    <3> QED BY <3>1, <3>2
  <2> QED BY <2>6, <2>7 DEF KeysAnnounced
<1> QED BY <1>3, <1>4 DEF Next, Next, Server, Change, Begin, Continue,
           ReadKey, Compare, LoadCached, Request, Receive, Retry, FetchFails,
           Skip, StartSync, Rebuild, StoreKey, Clear, KeepOld, Insert, LoseRow,
           SyncFails, Invalidate, Close, Evict, serverVars

-----------------------------------------------------------------------------
\* JobsFresh, of one refresh at step with record j.
Knows(step, j) ==
    /\ j.key \in 1..RemoteKey \union {None}
    /\ step \in {"fetching", "fetched", "syncing", "writing", "committed"} => j.key # None
    /\ step = "fetching" => j.since \in announced[j.key]..Now
    /\ step \in {"fetched", "syncing", "writing", "committed"} => AtLeast(j.rows, j.key, Ids)

LEMMA KnowsBlank == Knows("idle", Blank)
BY DEF Knows, Blank

\* What a refresh knows survives the steps of others.
LEMMA StillKnows ==
    ASSUME TypeOK, KeysAnnounced, Next, NEW step, NEW j, Knows(step, j)
    PROVE  /\ j.key \in 1..RemoteKey' \union {None}
           /\ step = "fetching" => j.since \in announced'[j.key]..Now'
           /\ step \in {"fetched", "syncing", "writing", "committed"} =>
                 \A i \in Ids : \E n \in announced'[j.key]..Now' :
                    j.rows[i] = past'[n][i]
<1>1. Grows
  BY ServerGrows
<1>2. RemoteKey \in Nat /\ Now \in Nat /\ RemoteKey' \in Int /\ Now' \in Int
  BY <1>1, ServerGrows, KeysStep DEF TypeOK, RemoteKey, Now, Grows
<1>3. j.key \in 1..RemoteKey' \union {None}
  BY <1>1, <1>2 DEF Knows, Grows
<1>4. ASSUME step = "fetching" PROVE j.since \in announced'[j.key]..Now'
  <2>1. j.key \in 1..RemoteKey
    BY <1>4 DEF Knows
  <2>2. announced'[j.key] = announced[j.key] /\ announced[j.key] \in 1..Now
    BY <2>1, <1>1 DEF Grows, KeysAnnounced
  <2> QED BY <1>1, <1>2, <1>4, <2>2 DEF Knows, Grows
<1>5. ASSUME step \in {"fetched", "syncing", "writing", "committed"}
      PROVE  \A i \in Ids : \E n \in announced'[j.key]..Now' :
                j.rows[i] = past'[n][i]
  <2>1. j.key \in 1..RemoteKey /\ AtLeast(j.rows, j.key, Ids)
    BY <1>5 DEF Knows
  <2> QED BY <1>1, <2>1, StillFresh
<1> QED BY <1>3, <1>4, <1>5

\* The key is read before the rows, and both are kept together.
LEMMA JobsStep == ASSUME Honest, Next PROVE JobsFresh'
<1> USE DEF Honest
<1> SUFFICES ASSUME NEW q \in Refreshes PROVE Knows(pc[q], job[q])'
  BY DEF JobsFresh, Knows
<1>a. Knows(pc[q], job[q])
  BY DEF JobsFresh, Knows
<1>b. Now \in Nat \ {0} /\ RemoteKey \in Nat \ {0}
  BY DEF TypeOK, Now, RemoteKey
<1>1. ASSUME job'[q] = job[q], pc'[q] = pc[q] PROVE Knows(pc[q], job[q])'
  <2>1. TypeOK /\ KeysAnnounced
    OBVIOUS
  <2>2. /\ job[q].key \in 1..RemoteKey' \union {None}
        /\ pc[q] = "fetching" =>
              job[q].since \in announced'[job[q].key]..Now'
        /\ pc[q] \in {"fetched", "syncing", "writing", "committed"} =>
              \A i \in Ids : \E n \in announced'[job[q].key]..Now' :
                 job[q].rows[i] = past'[n][i]
    BY ONLY <2>1, Next, <1>a, StillKnows
  <2>3. pc[q] \in {"fetching", "fetched", "syncing", "writing", "committed"} =>
           job[q].key # None
    BY <1>a DEF Knows
  <2> QED BY <1>1, <2>2, <2>3 DEF Knows, AtLeast
<1>2. ASSUME job'[q] = Blank, pc'[q] = "idle" PROVE Knows(pc[q], job[q])'
  BY <1>2 DEF Knows, Blank
<1>3. ASSUME NEW r \in Refreshes, Begin(r) PROVE Knows(pc[q], job[q])'
  <2>1. job'[q] = job[q] /\ pc'[q] \in {pc[q], "begun"} /\ RemoteKey' = RemoteKey
    BY <1>3 DEF Begin, Goto, TypeOK, serverVars, RemoteKey
  <2>2. CASE pc'[q] = "begun"
    BY <2>1, <2>2, <1>a DEF Knows
  <2> QED BY <2>1, <2>2, <1>1
<1>4. ASSUME NEW r \in Refreshes, Continue(r) PROVE Knows(pc[q], job[q])'
  <2>a. UNCHANGED serverVars
    BY <1>4 DEF Continue, ReadKey, Compare, LoadCached, Request, Receive, Retry,
       FetchFails, Skip, StartSync, Rebuild, StoreKey, Clear, KeepOld, Insert,
       LoseRow, SyncFails
  <2>b. Now' = Now /\ RemoteKey' = RemoteKey /\ past' = past
        /\ announced' = announced
    BY <2>a DEF serverVars, Now, RemoteKey
  <2>c. job[q] \in Job /\ job \in [Refreshes -> Job] /\ pc \in [Refreshes -> Steps]
    BY DEF TypeOK
  <2>1. CASE q # r
    <3>1. job'[q] = job[q] /\ pc'[q] = pc[q]
      BY <2>1, <1>4, <2>c DEF Continue, ReadKey, Compare, LoadCached, Request,
         Receive, Retry, FetchFails, Skip, StartSync, Rebuild, StoreKey, Clear,
         KeepOld, Insert, LoseRow, SyncFails, Loop, Finish, Goto
    <3> QED BY <3>1, <1>1
  <2> SUFFICES ASSUME q = r PROVE Knows(pc[q], job[q])'
    BY <2>1
  <2>2. CASE ReadKey(q)
    BY <2>2, <2>b, <2>c, <1>b DEF ReadKey, Goto, Knows, Job
  <2>3. CASE Compare(q)
    BY <2>3, <2>b, <2>c, <1>a DEF Compare, Goto, Knows, Job
  <2>4. ASSUME Finish(q) PROVE Knows(pc[q], job[q])'
    BY <2>4, <2>c, <1>2 DEF Finish, Goto
  <2>5. CASE LoadCached(q) \/ FetchFails(q) \/ Skip(q) \/ SyncFails(q)
             \/ StoreKey(q)
    BY <2>5, <2>4 DEF LoadCached, FetchFails, Skip, SyncFails, StoreKey
  <2>12. CASE Rebuild(q)
    BY <2>12, <2>b, <2>c, <1>a DEF Rebuild, Goto, Knows, AtLeast
  <2>6. CASE Request(q) \/ Retry(q)
    <3>1. job[q].key \in 1..RemoteKey
      BY <2>6, <1>a DEF Request, Retry, Cached, Knows
    <3>2. announced[job[q].key] \in 1..Now
      BY <3>1 DEF KeysAnnounced
    <3>3. /\ pc'[q] = "fetching"
          /\ job'[q].key = job[q].key /\ job'[q].since = Now
      BY <2>6, <2>c DEF Request, Retry, Goto, Job
    <3> QED BY <3>1, <3>2, <3>3, <2>b, <1>b, NoneAssumption DEF Knows
  <2>7. CASE Receive(q)
    <3>1. PICK rows \in Responses(job[q].since) :
             job' = [job EXCEPT ![q].rows = rows]
      BY <2>7 DEF Receive
    <3>2. job[q].key \in 1..RemoteKey /\ job[q].since \in announced[job[q].key]..Now
      BY <2>7, <1>a DEF Receive, Knows
    <3>3. announced[job[q].key] \in 1..Now
      BY <3>2 DEF KeysAnnounced
    <3>4. \A i \in Ids : \E n \in job[q].since..Now : rows[i] = past[n][i]
      BY <3>2, <3>3, <1>b, ResponseFacts
    <3>5. AtLeast(rows, job[q].key, Ids)
      BY <3>2, <3>3, <3>4, <1>b DEF AtLeast
    <3>6. /\ pc'[q] = "fetched"
          /\ job'[q].key = job[q].key /\ job'[q].rows = rows
      BY <2>7, <3>1, <2>c DEF Receive, Goto, Job
    <3> QED BY <3>2, <3>5, <3>6, <2>b, <1>b, NoneAssumption DEF Knows, AtLeast
  <2>8. CASE StartSync(q)
    BY <2>8, <2>b, <2>c, <1>a DEF StartSync, Goto, Knows, AtLeast
  <2>10. ASSUME NEW todo, Loop(q, todo), pc[q] \in {"syncing", "writing"}
         PROVE  Knows(pc[q], job[q])'
    <3>1. /\ pc'[q] \in {"writing", "committed"}
          /\ job'[q] = [job[q] EXCEPT !.todo = todo]
      BY <2>10, <2>c DEF Loop, Goto
    <3>2. job'[q].key = job[q].key /\ job'[q].rows = job[q].rows
      BY <2>c, <3>1 DEF Job
    <3> QED BY <2>10, <3>1, <3>2, <2>b, <1>a DEF Knows, AtLeast
  <2>11. CASE \/ Clear(q) \/ KeepOld(q)
              \/ \E i \in Ids : Insert(q, i) \/ LoseRow(q, i)
    <3>1. /\ pc[q] \in {"syncing", "writing"}
          /\ \/ Loop(q, ToWrite(q))
             \/ \E i \in Ids : Loop(q, job[q].todo \ {i})
      BY <2>11 DEF Clear, KeepOld, Insert, LoseRow
    <3> QED BY <2>10, <3>1
  <2> QED BY <1>4, <2>2, <2>3, <2>5, <2>6, <2>7, <2>8, <2>11, <2>12 DEF Continue
<1>5. CASE Close
  BY <1>5, <1>2 DEF Close
<1>6. CASE Server \/ Invalidate \/ Evict
  BY <1>6, <1>1 DEF Server, Change, Announce, Invalidate, Evict
<1> QED BY <1>3, <1>4, <1>5, <1>6 DEF Next, Next

-----------------------------------------------------------------------------
\* The steps of a refresh that leave the cache and its key alone.
Quiet(r) ==
    \/ ReadKey(r) \/ Compare(r) \/ LoadCached(r) \/ Request(r) \/ Receive(r)
    \/ Retry(r) \/ FetchFails(r) \/ Skip(r) \/ StartSync(r) \/ SyncFails(r)

\* The steps that write a table row by row.
Writes(r) ==
    \/ Clear(r) \/ KeepOld(r)
    \/ \E i \in Ids : Insert(r, i) \/ LoseRow(r, i)

\* All that happens.
LEMMA StepKinds ==
    ASSUME Next
    PROVE  \/ Server \/ Invalidate \/ Close \/ Evict
           \/ \E r \in Refreshes : \/ Begin(r) \/ Quiet(r)
                                  \/ Rebuild(r) \/ StoreKey(r) \/ Writes(r)
BY DEF Next, Continue, Quiet, Writes

\* The table is the same throughout.
LEMMA TableFixed == ASSUME Next PROVE table' = table
BY StepKinds DEF Server, Change, Announce, Invalidate, Close, Evict, Begin,
   Quiet, ReadKey, Compare, LoadCached, Request, Receive, Retry, FetchFails,
   Skip, StartSync, SyncFails, Rebuild, StoreKey, Writes, Clear, KeepOld, Insert, LoseRow,
   serverVars

\* What a step of a refresh leaves of the others, and where quiet steps lead.
LEMMA OthersStay ==
    ASSUME TypeOK, NEW r \in Refreshes,
           Begin(r) \/ Quiet(r) \/ Rebuild(r) \/ StoreKey(r) \/ Writes(r),
           NEW q \in Refreshes
    PROVE  /\ q # r => pc'[q] = pc[q] /\ job'[q] = job[q]
           /\ ~Begin(r) => pc[r] # "idle"
           /\ Begin(r) =>
                /\ pc[r] = "idle" /\ pc'[r] = "begun"
                /\ UNCHANGED localVars
           /\ Quiet(r) =>
                /\ pc[r] # "committed" /\ pc'[r] \notin {"writing", "committed"}
                /\ UNCHANGED localVars
           /\ Rebuild(r) =>
                /\ table \in Transactional
                /\ pc[r] = "syncing" /\ pc'[r] = "committed" /\ job' = job
                /\ local' = job[r].rows /\ torn' = FALSE
                /\ UNCHANGED <<serverVars, stored, spoilt>>
           /\ StoreKey(r) =>
                /\ pc[r] = "committed" /\ pc'[r] = "idle"
                /\ stored' = job[r].key
                /\ UNCHANGED <<serverVars, local, spoilt, torn>>
           /\ Writes(r) =>
                /\ pc[r] \in {"syncing", "writing"}
                /\ pc'[r] \in {"writing", "committed"}
                /\ UNCHANGED <<serverVars, stored, torn>>
<1>1. pc \in [Refreshes -> Steps] /\ job \in [Refreshes -> Job]
  BY DEF TypeOK
<1>2. ASSUME Begin(r)
      PROVE  /\ q # r => pc'[q] = pc[q] /\ job'[q] = job[q]
             /\ pc'[r] = "begun" /\ UNCHANGED localVars
  BY <1>1, <1>2 DEF Begin, Goto
<1>3. ASSUME Quiet(r)
      PROVE  /\ q # r => pc'[q] = pc[q] /\ job'[q] = job[q]
             /\ pc'[r] \notin {"writing", "committed"}
             /\ UNCHANGED localVars
  BY <1>1, <1>3 DEF Quiet, ReadKey, Compare, LoadCached, Request, Receive, Retry,
     FetchFails, Skip, StartSync, SyncFails, Begin, Finish, Goto
<1>4. ASSUME Rebuild(r)
      PROVE  /\ q # r => pc'[q] = pc[q] /\ job'[q] = job[q]
             /\ table \in Transactional
             /\ pc[r] = "syncing" /\ pc'[r] = "committed" /\ job' = job
             /\ local' = job[r].rows /\ torn' = FALSE
             /\ UNCHANGED <<serverVars, stored, spoilt>>
  BY <1>1, <1>4 DEF Rebuild, Goto
<1>5. ASSUME StoreKey(r)
      PROVE  /\ q # r => pc'[q] = pc[q] /\ job'[q] = job[q]
             /\ pc[r] = "committed" /\ pc'[r] = "idle"
             /\ stored' = job[r].key
             /\ UNCHANGED <<serverVars, local, spoilt, torn>>
  BY <1>1, <1>5 DEF StoreKey, Finish, Goto
<1>6. ASSUME Writes(r)
      PROVE  /\ q # r => pc'[q] = pc[q] /\ job'[q] = job[q]
             /\ pc[r] \in {"syncing", "writing"}
             /\ pc'[r] \in {"writing", "committed"}
             /\ UNCHANGED <<serverVars, stored, torn>>
  <2>1. /\ pc[r] \in {"syncing", "writing"}
        /\ \E todo : Loop(r, todo)
        /\ UNCHANGED <<serverVars, stored, torn>>
    BY <1>6 DEF Writes, Clear, KeepOld, Insert, LoseRow
  <2>2. /\ q # r => pc'[q] = pc[q] /\ job'[q] = job[q]
        /\ pc'[r] \in {"writing", "committed"}
    BY <1>1, <2>1 DEF Loop, Goto
  <2> QED BY <2>1, <2>2
<1>7. /\ Begin(r) => pc[r] = "idle"
      /\ Quiet(r) => pc[r] \notin {"idle", "committed"}
  BY DEF Begin, Quiet, ReadKey, Compare, LoadCached, Request, Receive, Retry,
     FetchFails, Skip, StartSync, SyncFails
<1>8. /\ Begin(r) => /\ q # r => pc'[q] = pc[q] /\ job'[q] = job[q]
                     /\ pc'[r] = "begun" /\ UNCHANGED localVars
      /\ Quiet(r) => /\ q # r => pc'[q] = pc[q] /\ job'[q] = job[q]
                     /\ pc'[r] \notin {"writing", "committed"}
                     /\ UNCHANGED localVars
  BY <1>2, <1>3
<1> QED BY <1>4, <1>5, <1>6, <1>7, <1>8

\* A refresh of a table written row by row stays alone.
LEMMA AloneStep == ASSUME IInv, Next PROVE Alone'
<1>a. TypeOK /\ Alone /\ table' = table /\ pc \in [Refreshes -> Steps]
  BY TableFixed DEF IInv, Honest, TypeOK
<1>1. ASSUME \A q \in Refreshes : pc'[q] # "idle" => pc[q] # "idle"
      PROVE  Alone'
  BY <1>a, <1>1 DEF Alone
<1>2. ASSUME NEW r \in Refreshes, Begin(r) PROVE Alone'
  <2>1. \A q \in Refreshes : q # r => pc'[q] = pc[q]
    BY <1>a, <1>2, OthersStay
  <2>2. table \notin Overlapping => \A q \in Refreshes : pc[q] = "idle"
    BY <1>2 DEF Begin
  <2> QED BY <1>a, <2>1, <2>2 DEF Alone
<1>3. ASSUME NEW r \in Refreshes, ~Begin(r),
             Quiet(r) \/ Rebuild(r) \/ StoreKey(r) \/ Writes(r)
      PROVE  Alone'
  <2>1. \A q \in Refreshes : /\ q # r => pc'[q] = pc[q]
                            /\ pc[r] # "idle"
    BY <1>a, <1>3, OthersStay
  <2> QED BY <1>1, <2>1
<1>4. CASE Server \/ Invalidate \/ Close \/ Evict
  BY <1>1, <1>4 DEF Server, Change, Announce, Invalidate, Close, Evict
<1> QED BY <1>2, <1>3, <1>4, StepKinds

\* Only tolerant tables lose rows.
LEMMA SpoiltStep == ASSUME IInv, Next PROVE SpoiltTolerated'
<1>a. SpoiltTolerated /\ table' = table /\ TypeOK
  BY TableFixed DEF IInv, Honest
<1>1. ASSUME spoilt' \subseteq spoilt PROVE SpoiltTolerated'
  BY <1>a, <1>1 DEF SpoiltTolerated
<1>2. ASSUME NEW r \in Refreshes, Writes(r) PROVE SpoiltTolerated'
  <2>1. \/ spoilt' \subseteq spoilt
        \/ table \in Tolerant
    BY <1>2 DEF Writes, Clear, KeepOld, Insert, LoseRow
  <2> QED BY <1>a, <1>1, <2>1 DEF SpoiltTolerated
<1>3. ASSUME NEW r \in Refreshes, Begin(r) \/ Quiet(r) PROVE SpoiltTolerated'
  BY <1>a, <1>1, <1>3, OthersStay DEF localVars
<1>4. ASSUME NEW r \in Refreshes, Rebuild(r) \/ StoreKey(r)
      PROVE  SpoiltTolerated'
  BY <1>1, <1>4 DEF Rebuild, StoreKey
<1>5. CASE Server \/ Invalidate \/ Close \/ Evict
  BY <1>1, <1>5 DEF Server, Change, Announce, Invalidate, Close, Evict, localVars
<1> QED BY <1>2, <1>3, <1>4, <1>5, StepKinds

\* What one write of a row leaves: nobody else is at work, and the rest of
\* the loop knows the same.
LEMMA WriterFacts ==
    ASSUME IInv, NEW r \in Refreshes, Writes(r)
    PROVE  /\ table \notin Transactional
           /\ \A q \in Refreshes : q # r => pc[q] = "idle" /\ pc'[q] = "idle"
           /\ UNCHANGED serverVars
           /\ job[r].key \in 1..RemoteKey /\ AtLeast(job[r].rows, job[r].key, Ids)
           /\ \E todo : /\ Loop(r, todo)
                        /\ \A i \in Ids \ todo :
                              local'[i] = job[r].rows[i] \/ i \in spoilt'
<1>a. TypeOK /\ Alone /\ JobsWritten /\ JobsFresh
  BY DEF IInv, Honest
<1>1. pc[r] \in {"syncing", "writing"} /\ UNCHANGED serverVars
  BY <1>a, OthersStay
<1>2. table \notin Transactional
  BY <1>a DEF Writes, Clear, KeepOld, Insert, LoseRow, JobsWritten,
     Transactional, Tolerant
<1>3. table \notin Overlapping
  BY <1>2, TablesAssumption
<1>4. \A q \in Refreshes : q # r => pc[q] = "idle"
  BY <1>a, <1>1, <1>3 DEF Alone
<1>5. \A q \in Refreshes : q # r => pc'[q] = "idle"
  BY <1>a, <1>4, OthersStay
<1>6. job[r].key \in 1..RemoteKey /\ AtLeast(job[r].rows, job[r].key, Ids)
  BY <1>a, <1>1 DEF JobsFresh
<1>7. CASE Clear(r)
  <2>1. \A i \in Ids \ ToWrite(r) : local'[i] = job[r].rows[i]
    BY <1>7 DEF Clear, ToWrite, NoRows
  <2> QED BY <1>1, <1>2, <1>4, <1>5, <1>6, <1>7, <2>1 DEF Clear
<1>8. CASE KeepOld(r)
  <2>1. \A i \in Ids \ ToWrite(r) : local'[i] = job[r].rows[i] \/ i \in spoilt'
    BY <1>8 DEF KeepOld, ToWrite
  <2> QED BY <1>1, <1>2, <1>4, <1>5, <1>6, <1>8, <2>1 DEF KeepOld
<1>9. ASSUME NEW i \in Ids, Insert(r, i) \/ LoseRow(r, i)
      PROVE  \E todo : /\ Loop(r, todo)
                       /\ \A k \in Ids \ todo :
                             local'[k] = job[r].rows[k] \/ k \in spoilt'
  <2>1. Loop(r, job[r].todo \ {i}) /\ pc[r] = "writing"
    BY <1>9 DEF Insert, LoseRow
  <2>2. \A k \in Ids \ job[r].todo : local[k] = job[r].rows[k] \/ k \in spoilt
    BY <1>a, <2>1 DEF JobsWritten
  <2>3. local \in [Ids -> Nat]
    BY <1>a DEF TypeOK, Rows
  <2>4. ASSUME NEW k \in Ids \ (job[r].todo \ {i})
        PROVE  local'[k] = job[r].rows[k] \/ k \in spoilt'
    <3>1. CASE k = i
      BY <1>9, <2>3, <3>1 DEF Insert, LoseRow
    <3>2. CASE k # i
      BY <1>9, <2>2, <2>3, <3>2 DEF Insert, LoseRow
    <3> QED BY <3>1, <3>2
  <2> QED BY <2>1, <2>4
<1> QED BY <1>1, <1>2, <1>4, <1>5, <1>6, <1>7, <1>8, <1>9 DEF Writes

\* What a loop is done with stays written, and nobody writes between a
\* refresh's rows and its key.
LEMMA WrittenStep == ASSUME IInv, Next PROVE JobsWritten' /\ OneCommitted'
<1>a. /\ TypeOK /\ Alone /\ JobsWritten /\ OneCommitted /\ table' = table
      /\ job \in [Refreshes -> Job] /\ pc \in [Refreshes -> Steps]
  BY TableFixed DEF IInv, Honest, TypeOK
<1>1. ASSUME UNCHANGED <<local, spoilt>>,
             \A q \in Refreshes : pc'[q] \in {"writing", "committed"} =>
                pc'[q] = pc[q] /\ job'[q] = job[q]
      PROVE  JobsWritten' /\ OneCommitted'
  <2>1. JobsWritten'
    BY <1>a, <1>1 DEF JobsWritten
  <2>2. OneCommitted'
    BY <1>a, <1>1 DEF OneCommitted
  <2> QED BY <2>1, <2>2
<1>2. ASSUME NEW r \in Refreshes, Begin(r) \/ Quiet(r) \/ StoreKey(r)
      PROVE  JobsWritten' /\ OneCommitted'
  <2>1. \A q \in Refreshes : q # r => pc'[q] = pc[q] /\ job'[q] = job[q]
    BY <1>a, <1>2, OthersStay
  <2>2. pc'[r] \notin {"writing", "committed"} /\ UNCHANGED <<local, spoilt>>
    BY <1>a, <1>2, OthersStay DEF localVars
  <2> QED BY <1>1, <2>1, <2>2
<1>3. ASSUME NEW r \in Refreshes, Rebuild(r)
      PROVE  JobsWritten' /\ OneCommitted'
  <2>1. /\ \A q \in Refreshes : pc[q] \notin {"writing", "committed"}
        /\ \A q \in Refreshes : q # r => pc'[q] = pc[q]
        /\ job' = job /\ local' = job[r].rows
    BY <1>a, <1>3, OthersStay DEF Rebuild, JobsWritten
  <2>2. \A q \in Refreshes : pc'[q] \in {"writing", "committed"} =>
                              q = r /\ pc'[q] = "committed"
    <3>1. pc'[r] = "committed"
      BY <1>a, <1>3, OthersStay
    <3> QED BY <2>1, <3>1
  <2> QED BY <2>1, <2>2 DEF JobsWritten, OneCommitted
<1>4. ASSUME NEW r \in Refreshes, Writes(r)
      PROVE  JobsWritten' /\ OneCommitted'
  <2>1. PICK todo : /\ Loop(r, todo)
                    /\ \A i \in Ids \ todo :
                          local'[i] = job[r].rows[i] \/ i \in spoilt'
    BY <1>4, WriterFacts
  <2>2. table \notin Transactional /\ \A q \in Refreshes : q # r => pc'[q] = "idle"
    BY <1>4, WriterFacts
  <2>3. /\ job'[r] = [job[r] EXCEPT !.todo = todo]
        /\ pc'[r] = "committed" => todo = {}
    BY <1>a, <2>1 DEF Loop, Goto
  <2>4. job'[r].todo = todo /\ job'[r].rows = job[r].rows
    BY <1>a, <2>3 DEF Job
  <2> QED BY <1>a, <2>1, <2>2, <2>3, <2>4 DEF JobsWritten, OneCommitted
<1>5. CASE Server \/ Invalidate
  BY <1>1, <1>5 DEF Server, Change, Announce, Invalidate, localVars
<1>6. CASE Close \/ Evict
  <2>1. \A q \in Refreshes : pc'[q] = "idle"
    BY <1>6 DEF Close, Evict
  <2> QED BY <2>1 DEF JobsWritten, OneCommitted
<1> QED BY <1>2, <1>3, <1>4, <1>5, <1>6, StepKinds

-----------------------------------------------------------------------------
\* JobsNewer and EmptyIfValid, of one refresh at step with record j.
Newer(step, j) ==
    step \notin {"idle", "begun"} /\ j.key # None => stored <= j.key

Empties(step, j) ==
    /\ step \notin {"idle", "begun", "keyRead"} /\ j.key # None /\ ~j.valid =>
          stored # j.key
    /\ step \in {"fetching", "fetched", "syncing"} /\ j.valid =>
          local = NoRows

\* What a quiet step makes of the refresh it is one of.
LEMMA QuietFacts ==
    ASSUME IInv, NEW q \in Refreshes, Quiet(q)
    PROVE  /\ Newer(pc[q], job[q]) => Newer(pc[q], job[q])'
           /\ Empties(pc[q], job[q]) => Empties(pc[q], job[q])'
<1>a. /\ TypeOK /\ job \in [Refreshes -> Job] /\ pc \in [Refreshes -> Steps]
      /\ stored \in Nat /\ RemoteKey \in Nat /\ stored <= RemoteKey
      /\ job[q] \in Job
  BY DEF IInv, Honest, TypeOK, RemoteKey, StoredFresh
<1>b. UNCHANGED <<stored, local>> /\ NoRows' = NoRows
  BY <1>a, OthersStay DEF localVars, NoRows
<1>1. CASE pc'[q] = "idle"
  BY <1>1 DEF Newer, Empties
<1>2. CASE ReadKey(q)
  <2>1. pc'[q] = "keyRead" /\ job'[q].key \in {RemoteKey, None}
    BY <1>a, <1>2 DEF ReadKey, Goto, Job
  <2> QED BY <1>a, <1>b, <2>1 DEF Newer, Empties
<1>3. CASE Compare(q)
  <2> DEFINE valid == (stored = job[q].key)
  <2>1. /\ pc'[q] = "checked" /\ pc[q] = "keyRead"
        /\ job'[q].key = job[q].key /\ job'[q].valid = valid
    BY <1>a, <1>3 DEF Compare, Goto, Job
  <2> QED BY <1>b, <2>1 DEF Newer, Empties
<1>4. CASE LoadCached(q) \/ FetchFails(q) \/ Skip(q) \/ SyncFails(q)
  <2>1. pc'[q] = "idle"
    BY <1>a, <1>4 DEF LoadCached, FetchFails, Skip, SyncFails, Finish, Goto
  <2> QED BY <1>1, <2>1
<1>5. CASE Request(q)
  <2>1. /\ pc[q] = "checked" /\ pc'[q] = "fetching"
        /\ job'[q].key = job[q].key /\ job'[q].valid = job[q].valid
    BY <1>a, <1>5 DEF Request, Goto, Job
  <2>2. job[q].valid => local = NoRows
    BY <1>5 DEF Request, Cached
  <2> QED BY <1>b, <2>1, <2>2 DEF Newer, Empties
<1>6. CASE Receive(q) \/ Retry(q) \/ StartSync(q)
  <2>1. /\ pc[q] \in {"fetching", "fetched"}
        /\ pc'[q] \in {"fetching", "fetched", "syncing"}
        /\ job'[q].key = job[q].key /\ job'[q].valid = job[q].valid
    BY <1>a, <1>6 DEF Receive, Retry, StartSync, Goto, Job
  <2> QED BY <1>b, <2>1 DEF Newer, Empties
<1> QED BY <1>2, <1>3, <1>4, <1>5, <1>6 DEF Quiet

\* So does a write of rows.
LEMMA WriteFacts ==
    ASSUME IInv, NEW q \in Refreshes, Writes(q)
    PROVE  /\ Newer(pc[q], job[q]) => Newer(pc[q], job[q])'
           /\ Empties(pc[q], job[q]) => Empties(pc[q], job[q])'
<1>a. TypeOK /\ job \in [Refreshes -> Job] /\ job[q] \in Job
  BY DEF IInv, Honest, TypeOK
<1>1. /\ pc[q] \in {"syncing", "writing"}
      /\ pc'[q] \in {"writing", "committed"} /\ stored' = stored
  BY <1>a, OthersStay
<1>2. PICK todo : Loop(q, todo)
  BY WriterFacts
<1>3. job'[q] = [job[q] EXCEPT !.todo = todo]
  BY <1>a, <1>2 DEF Loop
<1>4. job'[q].key = job[q].key /\ job'[q].valid = job[q].valid
  BY <1>a, <1>3 DEF Job
<1> QED BY <1>1, <1>4 DEF Newer, Empties

\* A refresh that is alone is not overtaken, so no page is closed at the wrong
\* time.
LEMMA NewerStep == ASSUME IInv, Next PROVE JobsNewer'
<1>a. /\ TypeOK /\ JobsFresh /\ JobsNewer /\ Alone /\ table' = table
      /\ job \in [Refreshes -> Job] /\ pc \in [Refreshes -> Steps]
      /\ stored \in Nat /\ RemoteKey \in Nat
  BY TableFixed DEF IInv, Honest, TypeOK, RemoteKey
<1> SUFFICES ASSUME table \notin Overlapping
             PROVE  ~torn' /\ \A q \in Refreshes : Newer(pc[q], job[q])'
  BY <1>a DEF JobsNewer, Newer
<1>b. ~torn /\ \A q \in Refreshes : Newer(pc[q], job[q])
  BY <1>a DEF JobsNewer, Newer
<1>e. \A q \in Refreshes : job[q].key \in 1..RemoteKey \union {None}
  BY <1>a DEF JobsFresh
<1>1. ASSUME NEW q \in Refreshes, pc'[q] \in {"idle", "begun"}
      PROVE  Newer(pc[q], job[q])'
  BY <1>1 DEF Newer
<1>2. ASSUME NEW q \in Refreshes, stored' = stored, pc'[q] = pc[q],
             job'[q] = job[q]
      PROVE  Newer(pc[q], job[q])'
  BY <1>2, <1>b DEF Newer
<1>3. ASSUME NEW r \in Refreshes, Begin(r) \/ Quiet(r) \/ Writes(r),
             NEW q \in Refreshes
      PROVE  ~torn' /\ Newer(pc[q], job[q])'
  <2>1. /\ q # r => pc'[q] = pc[q] /\ job'[q] = job[q]
        /\ Begin(r) => pc'[r] = "begun"
        /\ UNCHANGED <<stored, torn>>
    BY <1>a, <1>3, OthersStay DEF localVars
  <2> QED BY <1>b, <1>1, <1>2, <1>3, <2>1, QuietFacts, WriteFacts
<1>4. ASSUME NEW r \in Refreshes, Rebuild(r), NEW q \in Refreshes
      PROVE  ~torn' /\ Newer(pc[q], job[q])'
  <2>1. /\ q # r => pc'[q] = pc[q]
        /\ pc[r] = "syncing" /\ pc'[r] = "committed" /\ job' = job
        /\ stored' = stored /\ torn' = FALSE
    BY <1>a, <1>4, OthersStay
  <2> QED BY <1>b, <2>1 DEF Newer
<1>5. ASSUME NEW r \in Refreshes, StoreKey(r), NEW q \in Refreshes
      PROVE  ~torn' /\ Newer(pc[q], job[q])'
  <2>1. /\ q # r => pc'[q] = pc[q]
        /\ pc[r] = "committed" /\ pc'[r] = "idle" /\ torn' = torn
    BY <1>a, <1>5, OthersStay
  <2>2. q # r => pc[q] = "idle"
    BY <1>a, <2>1 DEF Alone
  <2> QED BY <1>b, <1>1, <2>1, <2>2
<1>6. CASE Server \/ Evict
  <2>1. UNCHANGED <<stored, torn, pc, job>>
    BY <1>6 DEF Server, Change, Announce, Evict, localVars
  <2> QED BY <1>b, <1>2, <2>1
<1>7. CASE Invalidate
  <2>1. /\ stored' = 0 /\ torn' = torn /\ pc' = pc /\ job' = job
    BY <1>7 DEF Invalidate
  <2> QED BY <1>b, <1>e, <2>1 DEF Newer
<1>8. CASE Close
  <2>1. \A q \in Refreshes : ~Overtaken(q)
    <3> SUFFICES ASSUME NEW q \in Refreshes, Overtaken(q) PROVE FALSE
      OBVIOUS
    <3>1. pc[q] = "committed" /\ job[q].key < stored
      BY DEF Overtaken
    <3>2. job[q].key \in 1..RemoteKey
      BY <1>a, <3>1 DEF JobsFresh
    <3>3. stored <= job[q].key
      BY <1>b, <3>1, <3>2, NoneAssumption DEF Newer
    <3> QED BY <1>a, <3>1, <3>2, <3>3
  <2>2. torn' = (torn \/ \E q \in Refreshes : Overtaken(q))
        /\ \A q \in Refreshes : pc'[q] = "idle"
    BY <1>8 DEF Close
  <2> QED BY <1>b, <1>1, <2>1, <2>2
<1> QED BY <1>3, <1>4, <1>5, <1>6, <1>7, <1>8, StepKinds

\* A refresh of a table written row by row that passes for valid writes into
\* an empty cache.
LEMMA EmptyStep == ASSUME IInv, Next PROVE EmptyIfValid'
<1>a. /\ TypeOK /\ JobsFresh /\ EmptyIfValid /\ Alone /\ table' = table
      /\ job \in [Refreshes -> Job] /\ pc \in [Refreshes -> Steps]
      /\ stored \in Nat /\ RemoteKey \in Nat
  BY TableFixed DEF IInv, Honest, TypeOK, RemoteKey
<1> SUFFICES ASSUME table \notin Transactional, NEW q \in Refreshes
             PROVE  Empties(pc[q], job[q])'
  BY <1>a DEF EmptyIfValid, Empties
<1>b. Empties(pc[q], job[q])
  BY <1>a DEF EmptyIfValid, Empties
<1>c. NoRows' = NoRows
  BY DEF NoRows
<1>e. job[q].key \in 1..RemoteKey \union {None}
  BY <1>a DEF JobsFresh
<1>1. ASSUME pc'[q] \in {"idle", "begun"} PROVE Empties(pc[q], job[q])'
  BY <1>1 DEF Empties
<1>2. ASSUME UNCHANGED <<stored, local>>, pc'[q] = pc[q], job'[q] = job[q]
      PROVE  Empties(pc[q], job[q])'
  BY <1>2, <1>b, <1>c DEF Empties
<1>3. ASSUME NEW r \in Refreshes, Begin(r) \/ Quiet(r)
      PROVE  Empties(pc[q], job[q])'
  <2>1. /\ q # r => pc'[q] = pc[q] /\ job'[q] = job[q]
        /\ Begin(r) => pc'[r] = "begun"
        /\ UNCHANGED <<stored, local>>
    BY <1>a, <1>3, OthersStay DEF localVars
  <2> QED BY <1>b, <1>1, <1>2, <1>3, <2>1, QuietFacts
<1>4. ASSUME NEW r \in Refreshes, Writes(r) \/ StoreKey(r)
      PROVE  Empties(pc[q], job[q])'
  <2>1. /\ q # r => pc'[q] = pc[q]
        /\ pc[r] # "idle" /\ StoreKey(r) => pc'[r] = "idle"
    BY <1>a, <1>4, OthersStay
  <2>2. pc[r] # "idle"
    <3>1. CASE Writes(r)
      BY <1>a, <3>1, OthersStay
    <3>2. CASE StoreKey(r)
      BY <1>a, <3>2, OthersStay
    <3> QED BY <1>4, <3>1, <3>2
  <2>3. q # r => pc[q] = "idle"
    BY <1>a, <2>2, TablesAssumption DEF Alone
  <2> QED BY <1>b, <1>1, <1>4, <2>1, <2>2, <2>3, WriteFacts
<1>6. CASE Server
  BY <1>2, <1>6 DEF Server, Change, Announce, localVars
<1>7. CASE Invalidate
  <2>1. /\ stored' = 0 /\ local' = local /\ pc' = pc /\ job' = job
    BY <1>7 DEF Invalidate
  <2> QED BY <1>b, <1>c, <1>e, <2>1 DEF Empties
<1>8. CASE Close
  BY <1>1, <1>8 DEF Close
<1>9. ~Evict /\ \A r \in Refreshes : ~Rebuild(r)
  BY TablesAssumption DEF Evict, Rebuild
<1> QED BY <1>3, <1>4, <1>6, <1>7, <1>8, <1>9, StepKinds

\* A loop whose table passes for valid all the while, because the cache was
\* empty when it began, changes a row to one that is fresh, if at all.
LEMMA LoopFacts ==
    ASSUME IInv, NEW r \in Refreshes, Writes(r),
           stored = RemoteKey, NEW i \in Ids \ spoilt'
    PROVE  /\ job[r].key = stored
           /\ \/ local'[i] = local[i] /\ i \notin spoilt
              \/ local'[i] = job[r].rows[i]
<1>a. /\ TypeOK /\ JobsNewer /\ EmptyIfValid /\ stored \in Nat /\ local \in [Ids -> Nat]
      /\ RemoteKey \in Nat
  BY DEF IInv, Honest, TypeOK, Rows, RemoteKey
<1>b. /\ table \notin Transactional /\ job[r].key \in 1..RemoteKey
      /\ pc[r] \in {"syncing", "writing"}
  BY <1>a, WriterFacts, OthersStay
<1>1. stored <= job[r].key /\ job[r].key # None
  BY <1>a, <1>b, NoneAssumption, TablesAssumption DEF JobsNewer
<1>2. job[r].key = stored
  BY <1>a, <1>b, <1>1
<1>3. pc[r] = "syncing" => local = NoRows
  <2>1. job[r] \in Job
    BY <1>a DEF TypeOK
  <2>2. job[r].valid
    BY <1>a, <1>b, <1>1, <1>2 DEF EmptyIfValid
  <2> QED BY <1>a, <1>b, <2>2 DEF EmptyIfValid
<1>4. CASE Clear(r) \/ KeepOld(r)
  <2>1. pc[r] = "syncing" /\ local = NoRows
    BY <1>3, <1>4 DEF Clear, KeepOld
  <2>2. local'[i] = 0 /\ local[i] = 0
    BY <1>4, <2>1 DEF Clear, KeepOld, NoRows
  <2>3. i \notin spoilt \/ job[r].rows[i] = 0
    BY <1>4 DEF Clear, KeepOld, ToWrite
  <2> QED BY <1>2, <2>2, <2>3
<1>5. ASSUME NEW k \in Ids, Insert(r, k)
      PROVE  \/ local'[i] = local[i] /\ i \notin spoilt
             \/ local'[i] = job[r].rows[i]
  BY <1>a, <1>5 DEF Insert
<1>6. ASSUME NEW k \in Ids, LoseRow(r, k)
      PROVE  local'[i] = local[i] /\ i \notin spoilt
  BY <1>6 DEF LoseRow
<1> QED BY <1>2, <1>4, <1>5, <1>6 DEF Writes

\* Rows as new as a key are as new as an older one.
LEMMA NewerKey ==
    ASSUME TypeOK, KeysAnnounced, NEW k \in 1..RemoteKey, NEW l \in 1..RemoteKey,
           k <= l, NEW rows, NEW ids, AtLeast(rows, l, ids)
    PROVE  AtLeast(rows, k, ids)
<1> SUFFICES ASSUME NEW i \in ids
             PROVE  \E n \in announced[k]..Now : rows[i] = past[n][i]
  BY DEF AtLeast
<1>1. PICK n \in announced[l]..Now : rows[i] = past[n][i]
  BY DEF AtLeast
<1>2. /\ announced[k] \in 1..Now /\ announced[l] \in 1..Now
      /\ announced[k] <= announced[l] /\ Now \in Nat
  BY DEF KeysAnnounced, TypeOK, Now
<1>3. n \in announced[k]..Now
  BY <1>2
<1> QED BY <1>1, <1>3

\* Rows and the key they lie under.
LEMMA StoredStep == ASSUME IInv, Next PROVE StoredFresh'
<1>a. /\ TypeOK /\ KeysAnnounced /\ JobsFresh /\ StoredFresh
      /\ JobsNewer /\ JobsWritten
      /\ SpoiltTolerated /\ table' = table /\ Grows
  BY TableFixed, ServerGrows DEF IInv, Honest
<1>b. RemoteKey \in Nat /\ RemoteKey' \in Int /\ NoRows' = NoRows /\ stored \in Nat
  BY <1>a DEF TypeOK, RemoteKey, Grows, NoRows
<1>1. ASSUME stored' = stored, spoilt \subseteq spoilt',
             local' = local \/ (local' = NoRows /\ table \in Transactional),
             torn => torn',
             \A r \in Refreshes : Overtaken(r) => torn' \/ Overtaken(r)'
      PROVE  StoredFresh'
  <2>1. CASE stored = 0
    BY <2>1, <1>1 DEF StoredFresh
  <2>2. CASE stored # 0
    <3>1. stored \in 1..RemoteKey /\ stored \in 1..RemoteKey'
      BY <2>2, <1>a, <1>b DEF StoredFresh, Grows
    <3>2. stored # RemoteKey => stored # RemoteKey'
      BY <3>1, <1>a, <1>b DEF Grows
    <3>3. AtLeast(local, stored, Ids \ spoilt) =>
             \A i \in Ids \ spoilt : \E n \in announced'[stored]..Now' :
                local[i] = past'[n][i]
      <4>1. TypeOK /\ KeysAnnounced /\ Grows
        BY <1>a
      <4> QED BY ONLY <4>1, <3>1, StillFresh
    <3>4. \/ table \in Transactional /\ local' = NoRows
          \/ torn' \/ \E r \in Refreshes : Overtaken(r)'
          \/ table \notin Transactional /\ stored # RemoteKey'
          \/ local' = local /\ AtLeast(local, stored, Ids \ spoilt)
      BY <2>2, <3>2, <1>a, <1>1 DEF StoredFresh
    <3> QED BY <1>a, <1>b, <1>1, <3>1, <3>3, <3>4 DEF StoredFresh, AtLeast
  <2> QED BY <2>1, <2>2
<1>2. CASE Server
  BY <1>1, <1>2 DEF Server, Change, Announce, localVars, Overtaken
<1>3. ASSUME NEW r \in Refreshes, Begin(r) \/ Quiet(r) PROVE StoredFresh'
  <2>1. UNCHANGED localVars /\ pc[r] # "committed"
    BY <1>a, <1>3, OthersStay
  <2>2. \A q \in Refreshes : Overtaken(q) => Overtaken(q)'
    BY <1>a, <1>3, <2>1, OthersStay DEF Overtaken, localVars
  <2> QED BY <1>1, <2>1, <2>2 DEF localVars
<1>4. ASSUME NEW r \in Refreshes, Rebuild(r) PROVE StoredFresh'
  <2>1. /\ pc[r] = "syncing" /\ pc'[r] = "committed" /\ job' = job
        /\ local' = job[r].rows
        /\ UNCHANGED <<serverVars, stored, spoilt>>
    BY <1>a, <1>4, OthersStay
  <2>2. job[r].key \in 1..RemoteKey /\ AtLeast(job[r].rows, job[r].key, Ids)
    BY <2>1, <1>a DEF JobsFresh
  <2>3. CASE stored = 0
    BY <2>1, <2>3 DEF StoredFresh
  <2>4. CASE stored # 0 /\ job[r].key < stored
    <3>1. Overtaken(r)'
      BY <2>1, <2>4 DEF Overtaken
    <3>2. stored \in 1..RemoteKey
      BY <2>4, <1>a DEF StoredFresh
    <3> QED BY <2>1, <3>1, <3>2 DEF StoredFresh, serverVars, RemoteKey
  <2>5. CASE stored # 0 /\ ~(job[r].key < stored)
    <3>1. stored \in 1..RemoteKey /\ stored <= job[r].key
      BY <2>2, <2>5, <1>a, <1>b DEF StoredFresh
    <3>2. AtLeast(job[r].rows, stored, Ids)
      BY <1>a, <2>2, <3>1, NewerKey
    <3> QED BY <2>1, <3>1, <3>2
            DEF StoredFresh, AtLeast, serverVars, Now, RemoteKey
  <2> QED BY <2>3, <2>4, <2>5
<1>8. ASSUME NEW r \in Refreshes, StoreKey(r) PROVE StoredFresh'
  <2>1. /\ pc[r] = "committed" /\ stored' = job[r].key
        /\ UNCHANGED <<serverVars, local, spoilt>>
    BY <1>a, <1>8, OthersStay
  <2>2. job[r].key \in 1..RemoteKey /\ AtLeast(job[r].rows, job[r].key, Ids)
    BY <2>1, <1>a DEF JobsFresh
  <2>3. \A i \in Ids \ spoilt : local[i] = job[r].rows[i]
    BY <2>1, <1>a DEF JobsWritten
  <2>4. AtLeast(local, job[r].key, Ids \ spoilt)
    BY <2>2, <2>3 DEF AtLeast
  <2> QED BY <2>1, <2>2, <2>4
          DEF StoredFresh, AtLeast, serverVars, Now, RemoteKey
<1>5. ASSUME NEW r \in Refreshes, Writes(r) PROVE StoredFresh'
  <2>1. /\ table \notin Transactional /\ table \notin Overlapping
        /\ job[r].key \in 1..RemoteKey /\ AtLeast(job[r].rows, job[r].key, Ids)
        /\ UNCHANGED <<serverVars, stored>>
    BY <1>a, <1>5, WriterFacts, OthersStay, TablesAssumption
  <2>2. Now' = Now /\ RemoteKey' = RemoteKey /\ past' = past
        /\ announced' = announced
    BY <2>1 DEF serverVars, Now, RemoteKey
  <2>3. CASE stored = 0 \/ stored # RemoteKey
    BY <1>a, <2>1, <2>2, <2>3 DEF StoredFresh
  <2>4. CASE stored # 0 /\ stored = RemoteKey
    <3>1. ~torn /\ \A q \in Refreshes : ~Overtaken(q)
      BY <1>a, <1>b, <2>1, NoneAssumption DEF JobsNewer, JobsFresh, Overtaken
    <3>2. AtLeast(local, stored, Ids \ spoilt)
      BY <1>a, <2>1, <2>4, <3>1 DEF StoredFresh
    <3>3. ASSUME NEW i \in Ids \ spoilt'
          PROVE  \E n \in announced[stored]..Now : local'[i] = past[n][i]
      <4>1. /\ job[r].key = stored
            /\ \/ local'[i] = local[i] /\ i \notin spoilt
               \/ local'[i] = job[r].rows[i]
        BY <1>5, <2>4, LoopFacts
      <4> QED BY <2>1, <3>2, <4>1 DEF AtLeast
    <3> QED BY <1>a, <2>1, <2>2, <2>4, <3>3 DEF StoredFresh, AtLeast
  <2> QED BY <2>3, <2>4
<1>6. CASE Invalidate
  BY <1>6 DEF Invalidate, StoredFresh
<1>7. CASE Close \/ Evict
  <2>1. stored' = stored /\ spoilt' = spoilt
    BY <1>7 DEF Close, Evict
  <2>2. torn => torn'
    BY <1>7 DEF Close, Evict
  <2>3. local' = local \/ (local' = NoRows /\ table \in Transactional)
    BY <1>7, TablesAssumption DEF Close, Evict
  <2>4. \A r \in Refreshes : Overtaken(r) => torn'
    BY <1>7 DEF Close, Evict, Overtaken
  <2> QED BY <1>1, <2>1, <2>2, <2>3, <2>4
<1> QED BY <1>2, <1>3, <1>4, <1>5, <1>6, <1>7, <1>8, StepKinds

-----------------------------------------------------------------------------
LEMMA InitIInv == Init => IInv
<1> SUFFICES ASSUME Init PROVE IInv
  OBVIOUS
<1>1. PICK rows \in [Ids -> {0, 1}] : past = <<rows>>
  BY DEF Init
<1>2. rows \in Rows
  BY DEF Rows
<1>3. past \in Seq(Rows) /\ past # <<>> /\ Now = 1
  BY <1>1, <1>2 DEF Now
<1>4. announced \in Seq(Nat \ {0}) /\ announced # <<>> /\ RemoteKey = 1
      /\ announced[1] = 1
  BY DEF Init, RemoteKey
<1>5. TypeOK
  BY <1>3, <1>4, BlankType DEF Init, TypeOK, NoRows, Rows, Steps
<1>6. KeysAnnounced
  BY <1>3, <1>4 DEF KeysAnnounced
<1>7. JobsFresh
  BY DEF Init, JobsFresh, Blank
<1>8. /\ StoredFresh /\ Alone /\ JobsNewer /\ EmptyIfValid
      /\ JobsWritten /\ OneCommitted /\ SpoiltTolerated
  BY DEF Init, StoredFresh, Alone, JobsNewer, EmptyIfValid, JobsWritten,
     OneCommitted, SpoiltTolerated
<1> QED BY <1>5, <1>6, <1>7, <1>8 DEF IInv, Honest

LEMMA Stutter ==
    ASSUME UNCHANGED vars PROVE (Honest => Honest') /\ (IInv => IInv')
<1>1. TypeOK => TypeOK'
  BY DEF vars, serverVars, localVars, TypeOK
<1>2. KeysAnnounced => KeysAnnounced'
  BY DEF vars, serverVars, KeysAnnounced, Now, RemoteKey
<1>3. JobsFresh => JobsFresh'
  BY DEF vars, serverVars, JobsFresh, AtLeast, Now, RemoteKey
<1>4. StoredFresh => StoredFresh'
  BY DEF vars, serverVars, localVars, StoredFresh, Overtaken, AtLeast, Now,
     RemoteKey, NoRows
<1>5. /\ Alone => Alone'
      /\ OneCommitted => OneCommitted'
      /\ SpoiltTolerated => SpoiltTolerated'
  BY DEF vars, serverVars, localVars, Alone, OneCommitted, SpoiltTolerated
<1>6. /\ JobsNewer => JobsNewer'
      /\ EmptyIfValid => EmptyIfValid'
      /\ JobsWritten => JobsWritten'
  BY DEF vars, serverVars, localVars, JobsNewer, EmptyIfValid, JobsWritten,
     NoRows
<1> QED BY <1>1, <1>2, <1>3, <1>4, <1>5, <1>6 DEF IInv, Honest

\* What the refreshes know, and that everything is readable
\* (localTableSyncCheck, getEntity).
THEOREM RefreshesHonest == Spec => []Honest
<1>1. Init => Honest
  BY InitIInv DEF IInv
<1>2. Honest /\ [Next]_vars => Honest'
  BY TypeStep, KeysStep, JobsStep, Stutter DEF Honest
<1> QED BY <1>1, <1>2, PTL DEF Spec

\* The shapes of everything localTableSyncCheck and the sync functions handle.
THEOREM TypeCorrect == Spec => []TypeOK
<1>1. Honest => TypeOK
  BY DEF Honest
<1> QED BY <1>1, RefreshesHonest, PTL

\* The inductive invariant, of tables written in any of the ways (syncEvents,
\* syncAnnouncements, syncBuildings).
THEOREM Invariance == Spec => []IInv
<1>1. Init => IInv
  BY InitIInv
<1>2. ASSUME IInv, Next PROVE IInv'
  <2>1. Honest
    BY <1>2 DEF IInv
  <2>2. Honest'
    BY <1>2, <2>1, TypeStep, KeysStep, JobsStep DEF Honest
  <2> QED BY <1>2, <2>2, StoredStep, AloneStep, NewerStep, EmptyStep,
             WrittenStep, SpoiltStep DEF IInv
<1>3. IInv /\ [Next]_vars => IInv'
  BY <1>2, Stutter
<1> QED BY <1>1, <1>3, PTL DEF Spec

\* A cache that passes for valid holds what was announced, with any number of
\* refreshes, closed pages and swallowed errors, and of tables written in a
\* transaction with any overlaps and lost databases (sync.ts, getEntity),
\* unless an overtaken refresh is between its rows and its key or was closed
\* there.
THEOREM TrustedFresh == Spec => []TrustedIsFresh
<1>1. IInv => TrustedIsFresh
  <2> SUFFICES ASSUME IInv, stored = RemoteKey, local # NoRows, ~torn,
                      \A r \in Refreshes : ~Overtaken(r)
               PROVE  AtLeast(local, stored, Ids \ spoilt)
    BY DEF TrustedIsFresh
  <2>1. stored # 0
    BY DEF IInv, Honest, TypeOK, RemoteKey
  <2> QED BY <2>1 DEF IInv, StoredFresh
<1> QED BY <1>1, Invariance, PTL

=============================================================================
