------------------------- MODULE EntityUpdateProofs -------------------------
(***************************************************************************)
(* TLAPS proofs about EntityUpdate, for any number of editors, fields and  *)
(* values, any of them outside the row, both places the after-snapshot can *)
(* come from, and calls that fail after their write.                       *)
(***************************************************************************)
EXTENDS EntityUpdate, SequenceTheorems, TLAPS

USE KeptAssumption, ApartAssumption, UnsetAssumption, InputsAssumption, RereadAssumption,
    MaxVersionAssumption, NoEditAssumption

\* Applying a change to a content and picking the revertable fields of one
\* give a content and a change.
LEMMA ChangeTypes ==
    /\ \A input \in Change, c \in Content : Apply(input, c) \in Content
    /\ \A c \in Content : RevertInput(c) \in Change
BY DEF Apply, RevertInput, Content, Change

\* A call that has not begun is well typed.
LEMMA BlankType == Blank \in Job
BY DEF Blank, Job, Change

\* The initial state satisfies the invariant: nothing is logged yet and the
\* row shows its first version.
LEMMA InitIInv == Init => IInv
<1> SUFFICES ASSUME Init
             PROVE  IInv
  OBVIOUS
<1>1. TypeOK
  BY BlankType DEF Init, TypeOK, Steps
<1>2. PastNumbered
  BY DEF Init, PastNumbered
<1>3. JobsConsistent
  <2>1. Blank.expected = 1
    BY DEF Blank
  <2>2. version = 1 /\ \A e \in Editors : pc[e] = "idle" /\ job[e] = Blank
    BY DEF Init
  <2>3. ASSUME NEW e \in Editors
        PROVE  /\ job[e].expected <= version
               /\ pc[e] \notin {"read", "written", "reread", "logged"}
    <3>1. job[e].expected = 1 /\ version = 1 /\ pc[e] = "idle"
      BY <2>1, <2>2, Zenon
    <3>2. QED
      BY <3>1
  <2>4. QED
    BY <2>3, Zenon DEF JobsConsistent
<1>4. HistoryFaithful
  BY DEF Init, HistoryFaithful
<1>5. OnlyRereadWaits /\ FailuresPast
  BY DEF Init, OnlyRereadWaits, FailuresPast
<1>6. RestoresKnown
  BY DEF Init, RestoresKnown, Blank
<1>7. NoWriteForgotten
  BY DEF Init, NoWriteForgotten
<1>8. QED
  BY <1>1, <1>2, <1>3, <1>4, <1>5, <1>6, <1>7 DEF IInv

\* Reading or starting, with the tables as they are, keeps the types.
LEMMA JobTypes ==
    ASSUME TypeOK, NEW e \in Editors, NEW step \in Steps, NEW j \in Job,
           pc' = [pc EXCEPT ![e] = step], job' = [job EXCEPT ![e] = j]
    PROVE  pc' \in [Editors -> Steps] /\ job' \in [Editors -> Job]
BY DEF TypeOK

\* What a call was asked stays while it runs.
SameRequest(j, k) ==
    j.expected = k.expected /\ j.input = k.input /\ j.restored = k.restored

\* The shape of every step: which editor's call moves, from where to where,
\* and what it remembers then. Reads leave the tables alone.
LEMMA StepShapes ==
    ASSUME TypeOK, NEW e \in Editors
    PROVE  /\ Ask(e) =>
                \E v \in 1..version, j \in Job :
                   /\ pc[e] = "idle"
                   /\ j.expected = v
                   /\ pc' = [pc EXCEPT ![e] = "asked"]
                   /\ job' = [job EXCEPT ![e] = j]
                   /\ UNCHANGED <<version, content, past, history, keyAt, failures>>
           /\ ReadBefore(e) =>
                \E j \in Job :
                   /\ pc[e] = "asked"
                   /\ SameRequest(j, job[e])
                   /\ j.before = Live
                   /\ pc' = [pc EXCEPT ![e] = "read"]
                   /\ job' = [job EXCEPT ![e] = j]
                   /\ UNCHANGED <<version, content, past, history, keyAt, failures>>
<1>0. job[e] \in Job /\ Live \in Snapshot
  BY DEF TypeOK, Live, Snapshot
<1>1. ASSUME Ask(e)
      PROVE  \E v \in 1..version, j \in Job :
                /\ pc[e] = "idle"
                /\ j.expected = v
                /\ pc' = [pc EXCEPT ![e] = "asked"]
                /\ job' = [job EXCEPT ![e] = j]
                /\ UNCHANGED <<version, content, past, history, keyAt, failures>>
  <2>1. PICK v \in 1..version :
          \/ \E input \in Change : Edit(e, v, input)
          \/ \E h \in 1..Len(history) : Restore(e, v, h)
    BY <1>1 DEF Ask
  <2>2. v \in Nat \ {0}
    BY DEF TypeOK
  <2>3. ASSUME NEW input \in Change, NEW h \in Nat,
               pc[e] = "idle",
               job' = [job EXCEPT ![e] =
                         [Blank EXCEPT !.expected = v, !.input = input,
                                       !.restored = h]],
               pc' = [pc EXCEPT ![e] = "asked"],
               UNCHANGED <<version, content, past, history, keyAt, failures>>
        PROVE  \E j \in Job :
                  /\ pc[e] = "idle"
                  /\ j.expected = v
                  /\ pc' = [pc EXCEPT ![e] = "asked"]
                  /\ job' = [job EXCEPT ![e] = j]
                  /\ UNCHANGED <<version, content, past, history, keyAt, failures>>
    <3> DEFINE j == [Blank EXCEPT !.expected = v, !.input = input,
                                  !.restored = h]
    <3>1. j \in Job /\ j.expected = v
      BY <2>2, BlankType DEF Job, Blank
    <3> HIDE DEF j
    <3>2. job' = [job EXCEPT ![e] = j]
      BY <2>3 DEF j
    <3>3. QED
      BY <2>3, <3>1, <3>2
  <2>4. ASSUME NEW input \in Change, Edit(e, v, input)
        PROVE  \E j \in Job :
                  /\ pc[e] = "idle"
                  /\ j.expected = v
                  /\ pc' = [pc EXCEPT ![e] = "asked"]
                  /\ job' = [job EXCEPT ![e] = j]
                  /\ UNCHANGED <<version, content, past, history, keyAt, failures>>
    BY <2>3, <2>4 DEF Edit, Begin, Goto
  <2>5. ASSUME NEW h \in 1..Len(history), Restore(e, v, h)
        PROVE  \E j \in Job :
                  /\ pc[e] = "idle"
                  /\ j.expected = v
                  /\ pc' = [pc EXCEPT ![e] = "asked"]
                  /\ job' = [job EXCEPT ![e] = j]
                  /\ UNCHANGED <<version, content, past, history, keyAt, failures>>
    <3>1. history[h].after.content \in Content /\ h \in Nat
      <4>1. history \in Seq(Entry)
        BY DEF TypeOK
      <4>2. history[h] \in Entry /\ h \in Nat
        BY <4>1, ElementOfSeq, LenProperties
      <4>3. QED
        BY <4>2 DEF Entry, Snapshot
    <3>2. RevertInput(history[h].after.content) \in Change
      BY <3>1, ChangeTypes
    <3>3. QED
      BY <2>3, <2>5, <3>1, <3>2 DEF Restore, Begin, Goto
  <2>6. QED
    BY <2>1, <2>4, <2>5
<1>2. ASSUME ReadBefore(e)
      PROVE  \E j \in Job :
                /\ pc[e] = "asked"
                /\ SameRequest(j, job[e])
                /\ j.before = Live
                /\ pc' = [pc EXCEPT ![e] = "read"]
                /\ job' = [job EXCEPT ![e] = j]
                /\ UNCHANGED <<version, content, past, history, keyAt, failures>>
  <2> DEFINE j == [job[e] EXCEPT !.before = Live, !.unread = Rest]
  <2>1. j \in Job /\ j.before = Live /\ SameRequest(j, job[e])
    BY <1>0 DEF Job, Reads, SameRequest
  <2>2. job' = [job EXCEPT ![e] = j]
    BY <1>2 DEF ReadBefore
  <2> HIDE DEF j
  <2>3. QED
    BY <1>2, <2>1, <2>2 DEF ReadBefore, Goto
<1>3. QED
  BY <1>1, <1>2

\* Reading a part of a snapshot leaves a snapshot.
LEMMA ShowType ==
    ASSUME TypeOK, NEW s \in Snapshot, NEW part
    PROVE  Show(s, part) \in Snapshot
BY DEF Show, Snapshot, TypeOK, Content

\* The later reads of a snapshot: a part of it is replaced by what is live,
\* and the tables stay as they are. The before-snapshot is read by a call
\* that is still to write, the after-snapshot by one that has written.
LEMMA ReadShapes ==
    ASSUME IInv, NEW e \in Editors, NEW part \in Reads
    PROVE  /\ ReadRest(e, part) =>
                \E j \in Job :
                   /\ pc[e] = "read"
                   /\ SameRequest(j, job[e])
                   /\ job[e].before \in Snapshot
                   /\ j.before = Show(job[e].before, part)
                   /\ pc' = pc
                   /\ job' = [job EXCEPT ![e] = j]
                   /\ UNCHANGED <<version, content, past, history, keyAt, failures>>
           /\ ReadAfter(e, part) =>
                \E j \in Job, step \in {"written", "reread"} :
                   /\ pc[e] = "written"
                   /\ SameRequest(j, job[e])
                   /\ job[e].after \in Snapshot
                   /\ j.before = job[e].before
                   /\ j.after = Show(job[e].after, part)
                   /\ pc' = [pc EXCEPT ![e] = step]
                   /\ job' = [job EXCEPT ![e] = j]
                   /\ UNCHANGED <<version, content, past, history, keyAt, failures>>
<1>0. TypeOK /\ job[e] \in Job
  BY DEF IInv, TypeOK
<1>1. ASSUME ReadRest(e, part)
      PROVE  \E j \in Job :
                /\ pc[e] = "read"
                /\ SameRequest(j, job[e])
                /\ job[e].before \in Snapshot
                /\ j.before = Show(job[e].before, part)
                /\ pc' = pc
                /\ job' = [job EXCEPT ![e] = j]
                /\ UNCHANGED <<version, content, past, history, keyAt, failures>>
  <2>1. job[e].before \in Snapshot
    BY <1>1 DEF ReadRest, IInv, JobsConsistent, Since
  <2>2. PICK s \in Snapshot : s = Show(job[e].before, part)
    BY <1>0, <2>1, ShowType
  <2> DEFINE j == [job[e] EXCEPT !.before = s, !.unread = job[e].unread \ {part}]
  <2>3. j \in Job /\ j.before = s /\ SameRequest(j, job[e])
    BY <1>0, <2>2 DEF Job, SameRequest
  <2>4. job' = [job EXCEPT ![e] = j]
    BY <1>1, <2>2 DEF ReadRest
  <2> HIDE DEF j
  <2>5. QED
    BY <1>1, <2>1, <2>2, <2>3, <2>4 DEF ReadRest
<1>2. ASSUME ReadAfter(e, part)
      PROVE  \E j \in Job, step \in {"written", "reread"} :
                /\ pc[e] = "written"
                /\ SameRequest(j, job[e])
                /\ job[e].after \in Snapshot
                /\ j.before = job[e].before
                /\ j.after = Show(job[e].after, part)
                /\ pc' = [pc EXCEPT ![e] = step]
                /\ job' = [job EXCEPT ![e] = j]
                /\ UNCHANGED <<version, content, past, history, keyAt, failures>>
  <2>1. job[e].after \in Snapshot
    BY <1>2 DEF ReadAfter, IInv, JobsConsistent, Around, Since
  <2>2. PICK s \in Snapshot : s = Show(job[e].after, part)
    BY <1>0, <2>1, ShowType
  <2> DEFINE j == [job[e] EXCEPT !.after = s, !.unread = job[e].unread \ {part}]
             step == IF job[e].unread = {part} THEN "reread" ELSE "written"
  <2>3. /\ j \in Job /\ j.after = s /\ j.before = job[e].before
        /\ SameRequest(j, job[e])
    BY <1>0, <2>2 DEF Job, SameRequest
  <2>4. job' = [job EXCEPT ![e] = j]
    BY <1>2, <2>2 DEF ReadAfter
  <2>5. step \in {"written", "reread"} /\ pc' = [pc EXCEPT ![e] = step]
    BY <1>2 DEF ReadAfter, Goto
  <2> HIDE DEF j, step
  <2>6. QED
    BY <1>2, <2>1, <2>2, <2>3, <2>4, <2>5 DEF ReadAfter
<1>3. QED
  BY <1>1, <1>2

\* What the write does: the row moves to the next version, which past records,
\* and every version it had before stays where it was.
LEMMA WriteShape ==
    ASSUME IInv, NEW e \in Editors, Write(e)
    PROVE  LET c == Apply(job[e].input, content)
               s == [version |-> version + 1, content |-> c]
               j == [job[e] EXCEPT !.after = s,
                                   !.unread = IF Reread THEN Reads ELSE {}] IN
           /\ pc[e] = "read" /\ version = job[e].expected
           /\ c \in Content
           /\ version' = version + 1 /\ content' = c
           /\ past' \in Seq(Content) /\ Len(past') = version + 1
           /\ past'[version + 1] = c
           /\ \A v \in 1..version : past'[v] = past[v]
           /\ j \in Job /\ j.before = job[e].before /\ j.after = s
           /\ SameRequest(j, job[e])
           /\ s \in Snapshot
           /\ job' = [job EXCEPT ![e] = j]
           /\ pc' = [pc EXCEPT ![e] = IF Reread THEN "written" ELSE "reread"]
           /\ UNCHANGED <<history, keyAt, failures>>
<1> DEFINE c == Apply(job[e].input, content)
           s == [version |-> version + 1, content |-> c]
           j == [job[e] EXCEPT !.after = s,
                               !.unread = IF Reread THEN Reads ELSE {}]
<1>0. /\ TypeOK /\ Len(past) = version
      /\ version \in Nat \ {0} /\ past \in Seq(Content)
      /\ job[e] \in Job /\ content \in Content
  BY DEF IInv, TypeOK, PastNumbered
<1>1. c \in Content
  BY <1>0, ChangeTypes DEF Job
<1>2. /\ pc[e] = "read" /\ version = job[e].expected
      /\ version' = version + 1 /\ content' = c
      /\ past' = Append(past, c)
      /\ job' = [job EXCEPT ![e] = j]
      /\ pc' = [pc EXCEPT ![e] = IF Reread THEN "written" ELSE "reread"]
      /\ UNCHANGED <<history, keyAt, failures>>
  BY DEF Write, Matches, Goto
<1> HIDE DEF c
<1>3. s \in Snapshot
  BY <1>0, <1>1 DEF Snapshot
<1> HIDE DEF s
<1>4. /\ j \in Job /\ j.before = job[e].before /\ j.after = s
      /\ SameRequest(j, job[e])
  BY <1>0, <1>3 DEF Job, SameRequest
<1>5. /\ past' \in Seq(Content) /\ Len(past') = version + 1
      /\ past'[version + 1] = c
      /\ \A v \in 1..version : past'[v] = past[v]
  BY <1>0, <1>1, <1>2, AppendProperties
<1> HIDE DEF j
<1>6. QED
  BY <1>1, <1>2, <1>3, <1>4, <1>5 DEF c, s, j

\* What the call knows after its write.
LEMMA WriteJob ==
    ASSUME IInv, NEW e \in Editors, Write(e)
    PROVE  \E j \in Job :
              /\ SameRequest(j, job[e])
              /\ j.before = job[e].before
              /\ j.after = [version |-> version + 1,
                            content |-> Apply(job[e].input, content)]
              /\ job' = [job EXCEPT ![e] = j]
<1> DEFINE s == [version |-> version + 1,
                 content |-> Apply(job[e].input, content)]
           j == [job[e] EXCEPT !.after = s,
                               !.unread = IF Reread THEN Reads ELSE {}]
<1>1. /\ j \in Job /\ j.before = job[e].before /\ j.after = s
      /\ SameRequest(j, job[e])
      /\ job' = [job EXCEPT ![e] = j]
  BY WriteShape
<1> HIDE DEF j, s
<1>2. \E k \in Job : /\ SameRequest(k, job[e])
                     /\ k.before = job[e].before /\ k.after = s
                     /\ job' = [job EXCEPT ![e] = k]
  BY <1>1
<1>3. QED
  BY <1>2 DEF s

\* The entry a call logs is one: both its snapshots are snapshots.
LEMMA LogShape ==
    ASSUME IInv, NEW e \in Editors, Log(e)
    PROVE  LET x == [before |-> job[e].before, after |-> job[e].after] IN
           /\ pc[e] = "reread"
           /\ x \in Entry /\ Around(x.before, x.after)
           /\ history' = Append(history, x)
           /\ history' \in Seq(Entry)
           /\ pc' = [pc EXCEPT ![e] = "logged"]
           /\ UNCHANGED <<version, content, past, keyAt, failures, job>>
<1>1. /\ pc[e] = "reread"
      /\ history' = Append(history, [before |-> job[e].before,
                                     after |-> job[e].after])
      /\ pc' = [pc EXCEPT ![e] = "logged"]
      /\ UNCHANGED <<version, content, past, keyAt, failures, job>>
  BY DEF Log, Goto
<1>2. Around(job[e].before, job[e].after)
  BY <1>1, Zenon DEF IInv, JobsConsistent
<1>3. job[e].before \in Snapshot /\ job[e].after \in Snapshot
  BY <1>2 DEF Around, Genuine, Since
<1> DEFINE x == [before |-> job[e].before, after |-> job[e].after]
<1>4. x \in Entry /\ Around(x.before, x.after)
  BY <1>2, <1>3 DEF Entry
<1>5. history \in Seq(Entry)
  BY DEF IInv, TypeOK
<1> HIDE DEF x
<1>6. history' = Append(history, x)
  BY <1>1 DEF x
<1>7. history' \in Seq(Entry)
  BY <1>4, <1>5, <1>6, AppendProperties
<1>8. QED
  BY <1>1, <1>4, <1>6, <1>7 DEF x

\* The version before a write is lower than the row's.
LEMMA AroundVersions ==
    ASSUME version \in Nat
    PROVE  \A x, y : Around(x, y) =>
             x \in Snapshot /\ x.version \in 1..version /\ x.version < version
BY DEF Around, Genuine, Since, Snapshot

\* A call that fails after its write had replaced a version of the row.
LEMMA FailShape ==
    ASSUME IInv, NEW e \in Editors, Fail(e)
    PROVE  LET f == [replaced |-> job[e].before.version,
                     logged |-> pc[e] = "logged"] IN
           /\ f \in [replaced : Nat, logged : BOOLEAN]
           /\ f.replaced < version
           /\ failures' = failures \union {f}
           /\ pc' = [pc EXCEPT ![e] = "idle"]
           /\ UNCHANGED <<version, content, past, history, keyAt>>
<1>1. pc[e] \in {"written", "reread", "logged"}
  BY DEF Fail
<1>2. job[e].before \in Snapshot /\ job[e].before.version < version
  BY <1>1, AroundVersions DEF IInv, TypeOK, JobsConsistent
<1>3. QED
  BY <1>2 DEF Fail, Finish, Snapshot

\* Every step keeps the types.
LEMMA NextTypeOK ==
    ASSUME IInv, [Next]_vars
    PROVE  TypeOK'
<1>0. TypeOK
  BY DEF IInv
<1>s. Steps = {"idle", "asked", "read", "written", "reread", "logged"}
  BY DEF Steps
<1>1. CASE UNCHANGED vars
  BY <1>0, <1>1 DEF vars, TypeOK
<1>2. ASSUME NEW e \in Editors, Ask(e)
      PROVE  TypeOK'
  BY <1>0, <1>s, <1>2, StepShapes, JobTypes DEF TypeOK
<1>3. ASSUME NEW e \in Editors, Refuse(e) \/ Conflict(e) \/ Sync(e) \/ Fail(e)
      PROVE  TypeOK'
  <2>1. Finish(e) /\ UNCHANGED <<version, content, past, history>>
    BY <1>3 DEF Refuse, Conflict, Sync, Fail
  <2>2. keyAt' \in Nat
    BY <1>0, <1>3 DEF Refuse, Conflict, Sync, Fail, TypeOK
  <2>5. failures' \subseteq [replaced : Nat, logged : BOOLEAN]
    BY <1>0, <1>3, FailShape DEF Refuse, Conflict, Sync, TypeOK
  <2>3. pc' \in [Editors -> Steps] /\ job' \in [Editors -> Job]
    BY <1>0, <1>s, <2>1, BlankType, JobTypes DEF Finish
  <2>4. QED
    BY <1>0, <2>1, <2>2, <2>3, <2>5 DEF TypeOK
<1>4. ASSUME NEW e \in Editors, NEW part \in Reads,
             ReadBefore(e) \/ ReadRest(e, part) \/ ReadAfter(e, part)
      PROVE  TypeOK'
  <2>1. PICK j \in Job, step \in Steps :
           /\ pc' = [pc EXCEPT ![e] = step]
           /\ job' = [job EXCEPT ![e] = j]
           /\ UNCHANGED <<version, content, past, history, keyAt, failures>>
    <3>1. CASE ReadBefore(e)
      BY <1>0, <1>s, <3>1, StepShapes
    <3>2. CASE ReadRest(e, part)
      <4>1. pc' = [pc EXCEPT ![e] = pc[e]] /\ pc[e] \in Steps
        BY <1>0, <3>2 DEF ReadRest, TypeOK
      <4>2. QED
        BY <3>2, <4>1, ReadShapes
    <3>3. CASE ReadAfter(e, part)
      BY <1>s, <3>3, ReadShapes
    <3>4. QED
      BY <1>4, <3>1, <3>2, <3>3
  <2>2. QED
    BY <1>0, <2>1, JobTypes DEF TypeOK
<1>5. ASSUME NEW e \in Editors, Write(e)
      PROVE  TypeOK'
  <2>0. PICK j \in Job :
           /\ job' = [job EXCEPT ![e] = j]
           /\ pc' = [pc EXCEPT ![e] = IF Reread THEN "written" ELSE "reread"]
    BY <1>5, WriteShape
  <2>1. pc' \in [Editors -> Steps] /\ job' \in [Editors -> Job]
    BY <1>0, <1>s, <2>0, JobTypes
  <2>2. /\ version' = version + 1 /\ content' \in Content
        /\ past' \in Seq(Content)
        /\ UNCHANGED <<history, keyAt, failures>>
    BY <1>5, WriteShape
  <2>3. version' \in Nat \ {0}
    BY <1>0, <2>2 DEF TypeOK
  <2>4. QED
    BY <1>0, <2>1, <2>2, <2>3 DEF TypeOK
<1>6. ASSUME NEW e \in Editors, Log(e)
      PROVE  TypeOK'
  BY <1>0, <1>s, <1>6, LogShape DEF TypeOK
<1>7. QED
  <2>1. Row \in Reads
    BY DEF Reads
  <2>2. QED
    BY <2>1, <1>1, <1>2, <1>3, <1>4, <1>5, <1>6 DEF Next, Continue

\* The version only moves up, and what past says of a version stays.
LEMMA PastGrows ==
    ASSUME IInv, [Next]_vars
    PROVE  /\ version' \in Nat /\ version <= version'
           /\ \A v \in 1..version : past'[v] = past[v]
           /\ PastNumbered'
<1>0. version \in Nat /\ PastNumbered
  BY DEF IInv, TypeOK
<1>1. CASE UNCHANGED <<version, content, past>>
  BY <1>0, <1>1 DEF PastNumbered
<1>2. ASSUME NEW e \in Editors, Write(e)
      PROVE  /\ version' \in Nat /\ version <= version'
             /\ \A v \in 1..version : past'[v] = past[v]
             /\ PastNumbered'
  <2>1. /\ version' = version + 1
        /\ content' = Apply(job[e].input, content)
        /\ Len(past') = version + 1
        /\ past'[version + 1] = Apply(job[e].input, content)
        /\ \A v \in 1..version : past'[v] = past[v]
    BY <1>2, WriteShape
  <2>2. QED
    BY <1>0, <2>1 DEF PastNumbered
<1>3. UNCHANGED <<version, content, past>> \/ \E e \in Editors : Write(e)
  BY DEF Next, Ask, Edit, Restore, Begin, Continue, Refuse,
         ReadBefore, ReadRest, Conflict, ReadAfter, Log, Sync, Fail, vars
<1>4. QED
  BY <1>1, <1>2, <1>3

\* Genuine, Since and Around, with the version and the past they are about.
Real(s, v, p) ==
    s \in Snapshot /\ s.version \in 1..v /\ s.content = p[s.version]

Pieced(first, s, v, p) ==
    /\ s \in Snapshot
    /\ s.version \in first..v
    /\ \A f \in Row : s.content[f] = p[s.version][f]
    /\ \A f \in Apart : \E w \in first..v : s.content[f] = p[w][f]

Brackets(a, b, v, p) ==
    /\ Real(a, v, p)
    /\ Pieced(a.version + 1, b, v, p)
    /\ ~Reread => Real(b, v, p) /\ b.version = a.version + 1

\* One call's part of JobsConsistent.
JobOK(j, step, v, p) ==
    /\ j.expected <= v
    /\ step = "read" => Pieced(j.expected, j.before, v, p)
    /\ step \in {"written", "reread", "logged"} =>
          Brackets(j.before, j.after, v, p)

\* A snapshot that was real stays real, and one put together since a version
\* stays that.
LEMMA RealStays ==
    ASSUME IInv, [Next]_vars
    PROVE  /\ \A s : Real(s, version, past) => Real(s, version', past')
           /\ \A first \in Nat \ {0} : \A s :
                Pieced(first, s, version, past)
                  => Pieced(first, s, version', past')
           /\ \A a, b : Brackets(a, b, version, past)
                           => Brackets(a, b, version', past')
<1>1. /\ version \in Nat /\ version' \in Nat /\ version <= version'
      /\ \A v \in 1..version : past'[v] = past[v]
  BY PastGrows DEF IInv, TypeOK
<1>2. ASSUME NEW s, Real(s, version, past)
      PROVE  Real(s, version', past')
  <2>1. s \in Snapshot /\ s.version \in 1..version /\ s.content = past[s.version]
    BY <1>2 DEF Real
  <2>2. s.version \in 1..version' /\ past'[s.version] = past[s.version]
    BY <1>1, <2>1
  <2>3. QED
    BY <2>1, <2>2 DEF Real
<1>3. ASSUME NEW first \in Nat \ {0}, NEW s, Pieced(first, s, version, past)
      PROVE  Pieced(first, s, version', past')
  <2>1. /\ s \in Snapshot /\ s.version \in first..version
        /\ \A f \in Row : s.content[f] = past[s.version][f]
    BY <1>3 DEF Pieced
  <2>2. s.version \in first..version' /\ past'[s.version] = past[s.version]
    BY <1>1, <2>1
  <2>3. ASSUME NEW f \in Apart
        PROVE  \E w \in first..version' : s.content[f] = past'[w][f]
    <3>1. PICK w \in first..version : s.content[f] = past[w][f]
      BY <1>3 DEF Pieced
    <3>2. w \in first..version' /\ past'[w] = past[w]
      BY <1>1
    <3>3. QED
      BY <3>1, <3>2
  <2>4. QED
    BY <2>1, <2>2, <2>3 DEF Pieced
<1>4. ASSUME NEW a, NEW b, Brackets(a, b, version, past)
      PROVE  Brackets(a, b, version', past')
  <2>1. a.version + 1 \in Nat \ {0}
    BY <1>4 DEF Brackets, Real, Snapshot
  <2>2. QED
    BY <1>2, <1>3, <1>4, <2>1 DEF Brackets
<1>5. QED
  BY <1>2, <1>3, <1>4

\* Reading one more part keeps a snapshot put together since a version.
LEMMA ShowPieced ==
    ASSUME IInv, NEW first \in Nat \ {0}, first <= version,
           NEW s, Pieced(first, s, version, past), NEW part \in Reads
    PROVE  Pieced(first, Show(s, part), version, past)
<1>0. /\ TypeOK /\ version \in Nat /\ past[version] = content
      /\ s \in Snapshot /\ s.version \in first..version
  BY DEF IInv, TypeOK, PastNumbered, Pieced
<1>1. PICK t \in Snapshot : t = Show(s, part)
  BY <1>0, ShowType
<1>2. /\ t.version = IF part = Row THEN version ELSE s.version
      /\ \A f \in Fields : t.content[f] = IF f \in part THEN content[f]
                                           ELSE s.content[f]
  BY <1>1 DEF Show
<1>3. version \in first..version
  BY <1>0
<1>4. t.version \in first..version
  BY <1>0, <1>2, <1>3
<1>5. ASSUME NEW f \in Row
      PROVE  t.content[f] = past[t.version][f]
  <2>1. f \in Fields /\ (f \in part <=> part = Row)
    BY DEF Row, Reads, Rest
  <2>2. QED
    BY <1>0, <1>2, <2>1 DEF Pieced
<1>6. ASSUME NEW f \in Apart
      PROVE  \E w \in first..version : t.content[f] = past[w][f]
  <2>1. f \in Fields
    OBVIOUS
  <2>2. CASE f \in part
    BY <1>0, <1>2, <1>3, <2>1, <2>2
  <2>3. CASE f \notin part
    BY <1>2, <2>1, <2>3 DEF Pieced
  <2>4. QED
    BY <2>2, <2>3
<1>7. QED
  BY <1>1, <1>4, <1>5, <1>6 DEF Pieced

\* A snapshot put together since the row's present version is what the row
\* shows.
LEMMA PiecedNow ==
    ASSUME version \in Nat \ {0}, PastNumbered, content \in Content,
           NEW s, Pieced(version, s, version, past)
    PROVE  Real(s, version, past) /\ s.version = version
<1>1. s \in Snapshot /\ s.version = version
  BY DEF Pieced
<1>2. ASSUME NEW f \in Fields
      PROVE  s.content[f] = past[version][f]
  <2>1. CASE f \in Apart
    <3>1. PICK w \in version..version : s.content[f] = past[w][f]
      BY <2>1 DEF Pieced
    <3>2. QED
      BY <3>1
  <2>2. CASE f \notin Apart
    BY <1>1, <2>2 DEF Pieced, Row
  <2>3. QED
    BY <2>1, <2>2
<1>3. s.content \in Content /\ past[version] \in Content
  BY <1>1 DEF Snapshot, PastNumbered
<1>4. s.content = past[version]
  BY <1>2, <1>3 DEF Content
<1>5. QED
  BY <1>1, <1>4 DEF Real

\* A call's knowledge stays right whatever the other calls write: what it read
\* is no older than the version it expects, so that when its write succeeds
\* all of it is the state that was replaced.
LEMMA NextJobsConsistent ==
    ASSUME IInv, [Next]_vars
    PROVE  JobsConsistent'
<1>0. /\ TypeOK /\ PastNumbered
      /\ version \in Nat \ {0}
      /\ pc \in [Editors -> Steps]
      /\ job \in [Editors -> Job]
      /\ version' \in Nat /\ version <= version'
  BY PastGrows DEF IInv, TypeOK
<1> SUFFICES ASSUME NEW e \in Editors
             PROVE  JobOK(job'[e], pc'[e], version', past')
  BY DEF JobsConsistent, JobOK, Real, Pieced, Brackets, Genuine, Since, Around
<1>a. job[e] \in Job /\ job[e].expected \in Nat \ {0}
  BY <1>0 DEF Job
<1>b. JobOK(job[e], pc[e], version, past)
  BY DEF IInv, JobsConsistent, JobOK, Real, Pieced, Brackets, Genuine, Since,
         Around
<1>c. Pieced(job[e].expected, Live, version, past)
  <2>1. /\ Live \in Snapshot /\ Live.version = version
        /\ Live.content = past[version]
    BY <1>0 DEF Live, Snapshot, PastNumbered, TypeOK
  <2>2. version \in job[e].expected..version
    BY <1>0, <1>a, <1>b DEF JobOK
  <2> HIDE DEF Live
  <2>3. QED
    BY <2>1, <2>2 DEF Pieced
<1>d. job[e].expected <= version'
  BY <1>0, <1>a, <1>b DEF JobOK
<1>1. CASE pc'[e] = pc[e] /\ job'[e] = job[e]
  BY <1>1, <1>a, <1>b, <1>d, RealStays DEF JobOK
<1>2. CASE pc'[e] \in {"idle", "asked"} /\ job'[e].expected <= version'
  BY <1>2 DEF JobOK
<1>3. CASE ReadBefore(e)
  <2>1. PICK j \in Job :
           /\ SameRequest(j, job[e]) /\ j.before = Live
           /\ pc' = [pc EXCEPT ![e] = "read"]
           /\ job' = [job EXCEPT ![e] = j]
           /\ UNCHANGED <<version, past>>
    BY <1>0, <1>3, StepShapes
  <2>2. pc'[e] = "read" /\ job'[e] = j /\ j.expected = job[e].expected
    BY <1>0, <2>1 DEF SameRequest
  <2>3. QED
    BY <1>c, <1>d, <2>1, <2>2 DEF JobOK
<1>7. ASSUME NEW part \in Reads, ReadRest(e, part)
      PROVE  JobOK(job'[e], pc'[e], version', past')
  <2>1. PICK j \in Job :
           /\ pc[e] = "read"
           /\ SameRequest(j, job[e]) /\ j.before = Show(job[e].before, part)
           /\ pc' = pc
           /\ job' = [job EXCEPT ![e] = j]
           /\ UNCHANGED <<version, past>>
    BY <1>7, ReadShapes
  <2>2. pc'[e] = "read" /\ job'[e] = j /\ j.expected = job[e].expected
    BY <1>0, <2>1 DEF SameRequest
  <2>3. Pieced(job[e].expected, j.before, version, past)
    BY <1>a, <1>b, <2>1, ShowPieced DEF JobOK
  <2>4. QED
    BY <1>d, <2>1, <2>2, <2>3 DEF JobOK
<1>4. ASSUME NEW part \in Reads, ReadAfter(e, part)
      PROVE  JobOK(job'[e], pc'[e], version', past')
  <2>1. PICK j \in Job, step \in {"written", "reread"} :
           /\ pc[e] = "written"
           /\ SameRequest(j, job[e])
           /\ j.before = job[e].before /\ j.after = Show(job[e].after, part)
           /\ pc' = [pc EXCEPT ![e] = step]
           /\ job' = [job EXCEPT ![e] = j]
           /\ UNCHANGED <<version, past>>
    BY <1>4, ReadShapes
  <2>2. /\ pc'[e] = step /\ job'[e] = j /\ j.expected = job[e].expected
        /\ Reread
    BY <1>0, <2>1 DEF SameRequest, IInv, OnlyRereadWaits
  <2>3. /\ Real(job[e].before, version, past)
        /\ Pieced(job[e].before.version + 1, job[e].after, version, past)
    BY <1>b, <2>1 DEF JobOK, Brackets
  <2>4. PICK n \in Nat \ {0} : n = job[e].before.version + 1 /\ n <= version
    <3>1. job[e].before.version + 1 \in Nat \ {0}
      BY <2>3 DEF Real, Snapshot
    <3>2. job[e].before.version + 1 <= version
      BY <1>0, <2>3, <3>1 DEF Pieced, Snapshot
    <3>3. QED
      BY <3>1, <3>2
  <2>5. Pieced(n, j.after, version, past)
    BY <2>1, <2>3, <2>4, ShowPieced
  <2>6. Brackets(j.before, j.after, version, past)
    BY <2>1, <2>2, <2>3, <2>4, <2>5 DEF Brackets
  <2>7. QED
    BY <1>d, <2>1, <2>2, <2>6 DEF JobOK
<1>5. CASE Write(e)
  <2> DEFINE c == Apply(job[e].input, content)
             s == [version |-> version + 1, content |-> c]
  <2>1. /\ pc[e] = "read" /\ version = job[e].expected
        /\ version' = version + 1
        /\ s \in Snapshot
        /\ past'[version + 1] = c
        /\ \A v \in 1..version : past'[v] = past[v]
    BY <1>0, <1>5, WriteShape
  <2>a. PICK j \in Job : /\ SameRequest(j, job[e])
                         /\ j.before = job[e].before /\ j.after = s
                         /\ job' = [job EXCEPT ![e] = j]
    BY <1>5, WriteJob
  <2>c. pc' = [pc EXCEPT ![e] = IF Reread THEN "written" ELSE "reread"]
    BY <1>5, WriteShape
  <2>b. /\ pc'[e] \in {"written", "reread"}
        /\ job'[e].before = job[e].before /\ job'[e].after = s
        /\ job'[e].expected = job[e].expected
    BY <1>0, <2>a, <2>c DEF SameRequest
  <2>2. Real(job[e].before, version, past) /\ job[e].before.version = version
    <3>1. Pieced(version, job[e].before, version, past)
      BY <1>b, <2>1 DEF JobOK
    <3>2. PastNumbered /\ content \in Content
      BY DEF IInv, TypeOK
    <3>3. QED
      BY <1>0, <3>1, <3>2, PiecedNow
  <2>3. s.version = version + 1 /\ s.content = c
    OBVIOUS
  <2> HIDE DEF s, c
  <2>4. Real(s, version', past') /\ Pieced(version + 1, s, version', past')
    <3>1. version + 1 \in (version + 1)..version'
      BY <1>0, <2>1
    <3>2. QED
      BY <1>0, <2>1, <2>3, <3>1 DEF Real, Pieced
  <2>5. Real(job[e].before, version', past')
    BY <2>2, RealStays
  <2>6. Brackets(job[e].before, s, version', past')
    BY <1>0, <2>2, <2>3, <2>4, <2>5 DEF Brackets
  <2>7. QED
    BY <1>d, <2>b, <2>6 DEF JobOK
<1>6. QED
  <2>1. ASSUME NEW d \in Editors, Ask(d)
        PROVE  \/ pc'[e] = pc[e] /\ job'[e] = job[e]
               \/ pc'[e] = "asked" /\ job'[e].expected <= version'
    <3>1. PICK v \in 1..version, j \in Job :
             /\ j.expected = v
             /\ pc' = [pc EXCEPT ![d] = "asked"]
             /\ job' = [job EXCEPT ![d] = j]
      BY <1>0, <2>1, StepShapes
    <3>2. v <= version'
      BY <1>0
    <3>3. QED
      BY <1>0, <3>1, <3>2
  <2>2. ASSUME NEW d \in Editors,
               Refuse(d) \/ Conflict(d) \/ Sync(d) \/ Fail(d)
        PROVE  \/ pc'[e] = pc[e] /\ job'[e] = job[e]
               \/ pc'[e] = "idle" /\ job'[e].expected <= version'
    <3>1. Finish(d)
      BY <2>2 DEF Refuse, Conflict, Sync, Fail
    <3>2. Blank.expected <= version'
      BY <1>0 DEF Blank
    <3>3. QED
      BY <1>0, <3>1, <3>2 DEF Finish
  <2>3. ASSUME NEW d \in Editors, Log(d)
        PROVE  \/ pc'[e] = pc[e] /\ job'[e] = job[e]
               \/ JobOK(job'[e], pc'[e], version', past')
    <3>1. /\ pc[d] = "reread" /\ pc' = [pc EXCEPT ![d] = "logged"]
          /\ UNCHANGED <<version, past, job>>
      BY <2>3, LogShape
    <3>2. CASE d = e
      BY <1>0, <1>b, <3>1, <3>2 DEF JobOK
    <3>3. CASE d # e
      BY <1>0, <3>1, <3>3
    <3>4. QED
      BY <3>2, <3>3
  <2>4. ASSUME NEW d \in Editors, NEW part \in Reads, d # e,
               \/ ReadBefore(d) \/ ReadRest(d, part)
               \/ ReadAfter(d, part) \/ Write(d)
        PROVE  pc'[e] = pc[e] /\ job'[e] = job[e]
    BY <1>0, <2>4 DEF ReadBefore, ReadRest, ReadAfter, Write, Goto
  <2>5. CASE UNCHANGED vars
    BY <1>1, <2>5 DEF vars
  <2>6. Row \in Reads
    BY DEF Reads
  <2>7. QED
    BY <1>1, <1>2, <1>3, <1>4, <1>5, <1>7, <2>1, <2>2, <2>3, <2>4, <2>5, <2>6
       DEF Next, Continue

\* Every entry brackets a real write; older entries keep doing so.
LEMMA NextHistoryFaithful ==
    ASSUME IInv, [Next]_vars
    PROVE  HistoryFaithful'
<1>0. /\ history \in Seq(Entry)
      /\ \A h \in 1..Len(history) :
            Brackets(history[h].before, history[h].after, version, past)
      /\ \A a, b : Brackets(a, b, version, past)
                      => Brackets(a, b, version', past')
  BY RealStays
     DEF IInv, TypeOK, HistoryFaithful, Brackets, Real, Pieced, Around, Genuine, Since
<1> SUFFICES \A h \in 1..Len(history') :
               Brackets(history'[h].before, history'[h].after, version', past')
  BY DEF HistoryFaithful, Brackets, Real, Pieced, Around, Genuine, Since
<1>1. CASE UNCHANGED history
  BY <1>0, <1>1
<1>2. ASSUME NEW e \in Editors, Log(e)
      PROVE  \A h \in 1..Len(history') :
               Brackets(history'[h].before, history'[h].after, version', past')
  <2> DEFINE x == [before |-> job[e].before, after |-> job[e].after]
  <2>1. x \in Entry /\ Around(x.before, x.after) /\ history' = Append(history, x)
    BY <1>2, LogShape
  <2> HIDE DEF x
  <2>2. Brackets(x.before, x.after, version, past)
    BY <2>1 DEF Brackets, Real, Pieced, Around, Genuine, Since
  <2>3. /\ Len(history') = Len(history) + 1 /\ Len(history) \in Nat
        /\ \A h \in 1..Len(history) : history'[h] = history[h]
        /\ history'[Len(history) + 1] = x
    BY <1>0, <2>1, AppendProperties, LenProperties
  <2>4. SUFFICES ASSUME NEW h \in 1..Len(history')
                 PROVE  Brackets(history'[h].before, history'[h].after,
                                 version', past')
    OBVIOUS
  <2>5. h \in 1..Len(history) \/ h = Len(history) + 1
    BY <2>3
  <2>6. QED
    BY <1>0, <2>2, <2>3, <2>5
<1>3. UNCHANGED history \/ \E e \in Editors : Log(e)
  BY DEF Next, Ask, Edit, Restore, Begin, Continue, Refuse,
         ReadBefore, ReadRest, Conflict, ReadAfter, Write, Sync, Fail, vars
<1>4. QED
  BY <1>1, <1>2, <1>3

\* Only the write of a re-reading update leads to the wait for its re-read.
LEMMA NextOnlyRereadWaits ==
    ASSUME IInv, [Next]_vars
    PROVE  OnlyRereadWaits'
BY DEF IInv, TypeOK, OnlyRereadWaits, Next, Ask, Edit, Restore,
       Begin, Continue, Refuse, ReadBefore, ReadRest, Conflict, ReadAfter, Write,
       Log, Sync, Fail, Goto, Finish, vars

\* A failed call had replaced a version that the row no longer shows.
LEMMA NextFailuresPast ==
    ASSUME IInv, [Next]_vars
    PROVE  FailuresPast'
<1>0. /\ \A f \in failures : f.replaced \in Nat /\ f.replaced < version
      /\ version \in Nat /\ version' \in Nat /\ version <= version'
  BY PastGrows DEF IInv, TypeOK, FailuresPast
<1>1. CASE UNCHANGED failures
  BY <1>0, <1>1 DEF FailuresPast
<1>2. ASSUME NEW e \in Editors, Fail(e)
      PROVE  FailuresPast'
  BY <1>0, <1>2, FailShape DEF FailuresPast
<1>3. UNCHANGED failures \/ \E e \in Editors : Fail(e)
  BY DEF Next, Ask, Edit, Restore, Begin, Continue, Refuse, ReadBefore,
         ReadRest, Conflict, ReadAfter, Write, Log, Sync, vars
<1>4. QED
  BY <1>1, <1>2, <1>3

\* Entries are added to the history, never changed.
LEMMA HistoryGrows ==
    ASSUME IInv, [Next]_vars
    PROVE  /\ 1..Len(history) \subseteq 1..Len(history')
           /\ \A h \in 1..Len(history) : history'[h] = history[h]
<1>0. history \in Seq(Entry)
  BY DEF IInv, TypeOK
<1>1. ASSUME NEW e \in Editors, Log(e)
      PROVE  /\ 1..Len(history) \subseteq 1..Len(history')
             /\ \A h \in 1..Len(history) : history'[h] = history[h]
  <2>1. PICK x \in Entry : history' = Append(history, x)
    BY <1>1, LogShape
  <2>2. QED
    BY <1>0, <2>1, AppendProperties, LenProperties
<1>2. UNCHANGED history \/ \E e \in Editors : Log(e)
  BY DEF Next, Ask, Edit, Restore, Begin, Continue, Refuse, ReadBefore,
         ReadRest, Conflict, ReadAfter, Write, Sync, Fail, vars
<1>3. QED
  BY <1>1, <1>2

\* What a call restores, if anything, is settled when it begins.
LEMMA RestoreSettled ==
    ASSUME IInv, [Next]_vars, NEW c \in Editors, job'[c].restored # 0
    PROVE  \/ /\ job'[c].restored = job[c].restored
              /\ job'[c].input = job[c].input
           \/ \E h \in 1..Len(history) :
                 /\ job'[c].restored = h
                 /\ job'[c].input = RevertInput(history[h].after.content)
<1>0. job \in [Editors -> Job]
  BY DEF IInv, TypeOK
<1>1. ASSUME NEW e \in Editors, Finish(e)
      PROVE  job'[c].restored = 0 \/ job'[c] = job[c]
  BY <1>0, <1>1 DEF Finish, Blank
<1>2. ASSUME NEW e \in Editors, NEW j,
             job' = [job EXCEPT ![e] = j],
             j.restored = job[e].restored, j.input = job[e].input
      PROVE  job'[c].restored = job[c].restored /\ job'[c].input = job[c].input
  BY <1>0, <1>2
<1>3. ASSUME NEW e \in Editors, NEW part \in Reads,
             \/ ReadBefore(e) \/ ReadRest(e, part)
             \/ ReadAfter(e, part) \/ Write(e)
      PROVE  job'[c].restored = job[c].restored /\ job'[c].input = job[c].input
  <2>1. PICK j \in Job :
           job' = [job EXCEPT ![e] = j] /\ SameRequest(j, job[e])
    <3>1. CASE ReadBefore(e)
      BY <3>1, StepShapes DEF IInv
    <3>2. CASE ReadRest(e, part) \/ ReadAfter(e, part)
      BY <3>2, ReadShapes
    <3>3. CASE Write(e)
      BY <3>3, WriteShape
    <3>4. QED
      BY <1>3, <3>1, <3>2, <3>3
  <2>2. QED
    BY <1>2, <2>1 DEF SameRequest
<1>6. ASSUME NEW e \in Editors, NEW v, NEW input, Edit(e, v, input)
      PROVE  job'[c].restored = 0 \/ job'[c] = job[c]
  BY <1>0, <1>6 DEF Edit, Begin, Blank
<1>7. ASSUME NEW e \in Editors, NEW v, NEW h \in 1..Len(history),
             Restore(e, v, h)
      PROVE  \/ job'[c] = job[c]
             \/ /\ job'[c].restored = h
                /\ job'[c].input = RevertInput(history[h].after.content)
  <2>1. PICK input : input = RevertInput(history[h].after.content)
    OBVIOUS
  <2>2. job' = [job EXCEPT ![e] = [Blank EXCEPT !.expected = v, !.input = input,
                                                !.restored = h]]
    BY <1>7, <2>1 DEF Restore, Begin
  <2>3. QED
    BY <1>0, <2>1, <2>2 DEF Blank
<1>8. ASSUME NEW e \in Editors, Continue(e) \/ Fail(e)
      PROVE  \/ job'[c].restored = 0
             \/ job'[c].restored = job[c].restored /\ job'[c].input = job[c].input
  <2>1. \/ Finish(e) \/ UNCHANGED job
        \/ \E part \in Reads : \/ ReadBefore(e) \/ ReadRest(e, part)
                              \/ ReadAfter(e, part) \/ Write(e)
    <3>1. Row \in Reads
      BY DEF Reads
    <3>2. QED
      BY <1>8, <3>1 DEF Continue, Refuse, Conflict, Log, Sync, Fail
  <2>2. QED
    BY <1>1, <1>3, <2>1
<1>9. CASE UNCHANGED vars
  BY <1>9 DEF vars
<1>10. QED
  BY <1>6, <1>7, <1>8, <1>9 DEF Next, Ask

\* So is the entry, which stays where it is.
LEMMA NextRestoresKnown ==
    ASSUME IInv, [Next]_vars
    PROVE  RestoresKnown'
<1> SUFFICES ASSUME NEW c \in Editors, job'[c].restored # 0
             PROVE  /\ job'[c].restored \in 1..Len(history')
                    /\ job'[c].input =
                          RevertInput(history'[job'[c].restored].after.content)
  BY DEF RestoresKnown, RevertInput
<1>1. /\ job'[c].restored \in 1..Len(history)
      /\ job'[c].input =
            RevertInput(history[job'[c].restored].after.content)
  BY RestoreSettled DEF IInv, RestoresKnown
<1>2. history'[job'[c].restored] = history[job'[c].restored]
  BY <1>1, HistoryGrows
<1>3. QED
  BY <1>1, <1>2, HistoryGrows

\* Whoever writes a version owes its key until it changes it or fails.
LEMMA NextNoWriteForgotten ==
    ASSUME IInv, [Next]_vars
    PROVE  NoWriteForgotten'
<1>0. /\ TypeOK /\ version \in Nat \ {0} /\ keyAt \in Nat
      /\ pc \in [Editors -> Steps] /\ job \in [Editors -> Job]
      /\ \A v \in 2..version : KeyComes(v)
  BY DEF IInv, TypeOK, NoWriteForgotten
<1>1. ASSUME NEW e \in Editors, pc'[e] \in {"written", "reread", "logged"},
             job'[e].before = job[e].before,
             \A d \in Editors : d # e => pc'[d] = pc[d] /\ job'[d] = job[d],
             keyAt' = keyAt, failures' = failures,
             NEW v \in 2..version
      PROVE  KeyComes(v)'
  BY <1>0, <1>1 DEF KeyComes
<1>2. ASSUME NEW e \in Editors, pc[e] \notin {"written", "reread", "logged"},
             \A d \in Editors : d # e => pc'[d] = pc[d] /\ job'[d] = job[d],
             keyAt' = keyAt, failures' = failures,
             NEW v \in 2..version
      PROVE  KeyComes(v)'
  BY <1>0, <1>2 DEF KeyComes
<1>3. CASE UNCHANGED vars
  BY <1>0, <1>3 DEF NoWriteForgotten, KeyComes, vars
<1>4. ASSUME NEW e \in Editors,
             \/ Ask(e) \/ ReadBefore(e) \/ Refuse(e) \/ Conflict(e)
             \/ \E part \in Reads : ReadRest(e, part)
      PROVE  NoWriteForgotten'
  <2>1. /\ pc[e] \notin {"written", "reread", "logged"}
        /\ \A d \in Editors : d # e => pc'[d] = pc[d] /\ job'[d] = job[d]
        /\ UNCHANGED <<version, keyAt, failures>>
    <3>1. CASE Ask(e)
      <4>1. PICK j \in Job : /\ pc[e] = "idle"
                             /\ pc' = [pc EXCEPT ![e] = "asked"]
                             /\ job' = [job EXCEPT ![e] = j]
                             /\ UNCHANGED <<version, keyAt, failures>>
        BY <1>0, <3>1, StepShapes
      <4>2. QED
        BY <1>0, <4>1
    <3>3. CASE ReadBefore(e)
      BY <1>0, <3>3 DEF ReadBefore, Goto
    <3>2. CASE Refuse(e) \/ Conflict(e)
      BY <1>0, <3>2 DEF Refuse, Conflict, Finish
    <3>4. CASE \E part \in Reads : ReadRest(e, part)
      BY <1>0, <3>4 DEF ReadRest
    <3>5. QED
      BY <1>4, <3>1, <3>2, <3>3, <3>4
  <2>2. QED
    BY <1>2, <2>1 DEF NoWriteForgotten
<1>5. ASSUME NEW e \in Editors, Log(e) \/ \E part \in Reads : ReadAfter(e, part)
      PROVE  NoWriteForgotten'
  <2>1. /\ pc'[e] \in {"written", "reread", "logged"}
        /\ job'[e].before = job[e].before
        /\ \A d \in Editors : d # e => pc'[d] = pc[d] /\ job'[d] = job[d]
        /\ UNCHANGED <<version, keyAt, failures>>
    <3>1. CASE Log(e)
      BY <1>0, <3>1 DEF Log, Goto
    <3>2. ASSUME NEW part \in Reads, ReadAfter(e, part)
          PROVE  \E j \in Job, step \in {"written", "reread"} :
                    /\ j.before = job[e].before
                    /\ pc' = [pc EXCEPT ![e] = step]
                    /\ job' = [job EXCEPT ![e] = j]
                    /\ UNCHANGED <<version, keyAt, failures>>
      BY <3>2, ReadShapes
    <3>3. QED
      BY <1>0, <1>5, <3>1, <3>2
  <2>2. QED
    BY <1>1, <2>1 DEF NoWriteForgotten
<1>6. ASSUME NEW e \in Editors, Write(e)
      PROVE  NoWriteForgotten'
  <2>0. PICK j \in Job : /\ j.before = job[e].before
                         /\ job' = [job EXCEPT ![e] = j]
    BY <1>6, WriteJob
  <2>a. /\ pc[e] = "read" /\ version = job[e].expected
        /\ pc' = [pc EXCEPT ![e] = IF Reread THEN "written" ELSE "reread"]
        /\ version' = version + 1
        /\ UNCHANGED <<keyAt, failures>>
    BY <1>6, WriteShape
  <2>1. /\ pc[e] = "read" /\ version = job[e].expected
        /\ pc'[e] \in {"written", "reread"}
        /\ job'[e].before = job[e].before
        /\ \A d \in Editors : d # e => pc'[d] = pc[d] /\ job'[d] = job[d]
        /\ version' = version + 1
        /\ UNCHANGED <<keyAt, failures>>
    BY <1>0, <2>0, <2>a
  <2>2. job[e].before.version = version
    <3>1. job[e].before.version \in version..version
      BY <2>1 DEF IInv, JobsConsistent, Since
    <3>2. QED
      BY <1>0, <3>1
  <2>3. ASSUME NEW v \in Nat, v = version + 1
        PROVE  KeyComes(v)'
    BY <1>0, <2>1, <2>2, <2>3 DEF KeyComes
  <2>4. \A v \in 2..version : KeyComes(v)'
    BY <1>2, <2>1
  <2>5. QED
    BY <1>0, <2>1, <2>3, <2>4 DEF NoWriteForgotten
<1>7. ASSUME NEW e \in Editors, Sync(e)
      PROVE  NoWriteForgotten'
  BY <1>0, <1>7 DEF Sync, NoWriteForgotten, KeyComes
<1>8. ASSUME NEW e \in Editors, Fail(e)
      PROVE  NoWriteForgotten'
  <2>1. /\ failures \subseteq failures'
        /\ [replaced |-> job[e].before.version, logged |-> pc[e] = "logged"]
              \in failures'
        /\ \A d \in Editors : d # e => pc'[d] = pc[d] /\ job'[d] = job[d]
        /\ UNCHANGED <<version, keyAt>>
    BY <1>0, <1>8 DEF Fail, Finish
  <2>2. \E f \in failures' : f.replaced = job[e].before.version
    BY <2>1
  <2>3. ASSUME NEW v \in 2..version
        PROVE  KeyComes(v)'
    BY <1>0, <2>1, <2>2, <2>3 DEF KeyComes
  <2>4. QED
    BY <2>1, <2>3 DEF NoWriteForgotten
<1>9. QED
  BY <1>3, <1>4, <1>5, <1>6, <1>7, <1>8 DEF Next, Continue

\* IInv is inductive.
LEMMA NextIInv ==
    ASSUME IInv, [Next]_vars
    PROVE  IInv'
<1>1. PastNumbered'
  BY PastGrows
<1>2. QED
  BY <1>1, NextTypeOK, NextJobsConsistent, NextOnlyRereadWaits,
     NextFailuresPast, NextHistoryFaithful, NextRestoresKnown,
     NextNoWriteForgotten DEF IInv

\* The invariant holds in every behaviour, failing calls included.
THEOREM Invariance == Spec => []IInv
<1>1. IInv /\ [Next]_vars => IInv'
  BY NextIInv
<1>2. QED
  BY InitIInv, <1>1, PTL DEF Spec

\* The row, its history and the calls keep their shape.
THEOREM TypeCorrect == Spec => []TypeOK
<1>1. IInv => TypeOK
  BY DEF IInv
<1>2. QED
  BY Invariance, <1>1, PTL

\* Every history entry brackets a write that happened: the snapshots a restore
\* goes back to and the panel's before/after lists were once live.
THEOREM Faithful == Spec => []HistoryFaithful
<1>1. IInv => HistoryFaithful
  BY DEF IInv
<1>2. QED
  BY Invariance, <1>1, PTL

\* No write is forgotten by the viewers' caches: as long as the sync key is
\* behind a version, the call that wrote it is on its way to the key, or has
\* failed. WritesAnnounced adds to it only that such a call arrives.
THEOREM KeysComing == Spec => []NoWriteForgotten
<1>1. IInv => NoWriteForgotten
  BY DEF IInv
<1>2. QED
  BY Invariance, <1>1, PTL

-----------------------------------------------------------------------------
(* What a restore writes. *)

\* The fields of a version that a restore asks for, applied to the row.
LEMMA RevertApplied ==
    ASSUME NEW s \in Content, NEW c \in Content
    PROVE  Apply(RevertInput(s), c) =
             [f \in Fields |-> IF f \in Kept THEN c[f] ELSE s[f]]
<1>1. ASSUME NEW f \in Fields
      PROVE  (IF RevertInput(s)[f] = Unset THEN c[f] ELSE RevertInput(s)[f])
               = IF f \in Kept THEN c[f] ELSE s[f]
  BY DEF RevertInput, Content
<1>2. QED
  BY <1>1 DEF Apply

\* The write of a restore makes the row what it was at the version the entry
\* ended in, but for the fields a restore leaves alone.
LEMMA WriteRestores ==
    ASSUME IInv, NEW e \in Editors, Write(e), job[e].restored # 0
    PROVE  LET v == history[job[e].restored].after.version IN
           /\ v \in 1..version
           /\ content' = [f \in Fields |-> IF f \in Kept THEN content[f]
                                         ELSE past[v][f]]
<1>1. PICK h \in 1..Len(history) : h = job[e].restored
  BY DEF IInv, RestoresKnown
<1>2. job[e].input = RevertInput(history[h].after.content)
  BY <1>1 DEF IInv, RestoresKnown
<1>3. /\ \A f \in Row : history[h].after.content[f]
                            = past[history[h].after.version][f]
      /\ history[h].after.version \in 1..version
      /\ history[h].after.content \in Content
  <2>1. Around(history[h].before, history[h].after) /\ version \in Nat
    BY DEF IInv, TypeOK, HistoryFaithful
  <2>2. QED
    BY <2>1 DEF Around, Genuine, Since, Snapshot
<1>4. content \in Content
  BY DEF IInv, TypeOK
<1>5. PICK s \in Content : s = history[h].after.content
  BY <1>3
<1>6. content' = Apply(RevertInput(s), content)
  BY <1>2, <1>5 DEF Write
<1>7. content' = [f \in Fields |-> IF f \in Kept THEN content[f] ELSE s[f]]
  BY <1>4, <1>6, RevertApplied
<1>8. \A f \in Fields \ Kept : s[f] = past[history[h].after.version][f]
  BY <1>3, <1>5 DEF Row
<1>9. QED
  BY <1>1, <1>3, <1>7, <1>8

\* A restore that lands shows the row as it was at the version its entry ended
\* in, whoever saved in between.
THEOREM Restores == Spec => RestoresExact
<1>1. IInv /\ [Next]_vars =>
        [\A e \in Editors : Write(e) /\ job[e].restored # 0 =>
            LET v == history[job[e].restored].after.version IN
            /\ v \in 1..version
            /\ content' = [f \in Fields |-> IF f \in Kept THEN content[f]
                                          ELSE past[v][f]]]_vars
  BY WriteRestores
<1>2. QED
  BY Invariance, <1>1, PTL DEF Spec, RestoresExact

-----------------------------------------------------------------------------
(* No version goes unaccounted for. *)

\* Nothing answers yet for a version that has not been replaced.
LEMMA NoAccountYet ==
    ASSUME IInv, NEW v \in Nat, v >= version
    PROVE  Accounts(v) = {}
<1>1. version \in Nat
  BY DEF IInv, TypeOK
<1>2. CallsFor(v) = {}
  <2>1. ASSUME NEW e \in Editors, pc[e] \in {"written", "reread"}
        PROVE  job[e].before.version # v
    BY <1>1, <2>1, AroundVersions DEF IInv, JobsConsistent
  <2>2. QED
    BY <2>1, Zenon DEF CallsFor
<1>3. EntriesFor(v) = {}
  <2>1. ASSUME NEW h \in 1..Len(history)
        PROVE  history[h].before.version # v
    BY <1>1, AroundVersions DEF IInv, HistoryFaithful
  <2>2. QED
    BY <2>1, Zenon DEF EntriesFor
<1>4. FailuresFor(v) = {}
  <2>1. ASSUME NEW f \in failures
        PROVE  f.replaced # v
    BY <1>1 DEF IInv, TypeOK, FailuresPast
  <2>2. QED
    BY <2>1, Zenon DEF FailuresFor
<1>5. QED
  BY <1>2, <1>3, <1>4 DEF Accounts

\* The write opens the account of the version it replaces and touches no other.
LEMMA WriteAccounts ==
    ASSUME IInv, NEW e \in Editors, Write(e), NEW v \in Nat
    PROVE  Accounts(v)' = IF v = version THEN Accounts(v) \union {<<"call", e>>}
                                         ELSE Accounts(v)
<1>0. job \in [Editors -> Job] /\ pc \in [Editors -> Steps] /\ version \in Nat
  BY DEF IInv, TypeOK
<1>1. /\ pc[e] = "read" /\ pc'[e] \in {"written", "reread"}
      /\ job'[e].before = job[e].before
      /\ version = job[e].expected
      /\ \A d \in Editors : d # e => pc'[d] = pc[d] /\ job'[d] = job[d]
      /\ UNCHANGED <<history, failures>>
  BY <1>0, WriteShape
<1>2. job[e].before.version = version
  <2>1. job[e].before.version \in version..version
    BY <1>1 DEF IInv, JobsConsistent, Since
  <2>2. QED
    BY <1>0, <2>1
<1>3. ASSUME NEW d \in Editors
      PROVE  (pc'[d] \in {"written", "reread"} /\ job'[d].before.version = v)
               <=> \/ pc[d] \in {"written", "reread"} /\ job[d].before.version = v
                   \/ d = e /\ v = version
  BY <1>1, <1>2
<1>4. CallsFor(v)' = IF v = version THEN CallsFor(v) \union {<<"call", e>>}
                                    ELSE CallsFor(v)
  BY <1>3 DEF CallsFor
<1>5. EntriesFor(v)' = EntriesFor(v) /\ FailuresFor(v)' = FailuresFor(v)
  BY <1>1 DEF EntriesFor, FailuresFor
<1>6. QED
  BY <1>4, <1>5 DEF Accounts

\* A call that ends its wait hands the account over: the others keep theirs.
LEMMA CallLeaves ==
    ASSUME IInv, NEW e \in Editors, NEW v \in Nat,
           pc[e] \in {"written", "reread"}, pc'[e] \notin {"written", "reread"},
           \A d \in Editors : d # e => pc'[d] = pc[d] /\ job'[d] = job[d]
    PROVE  CallsFor(v)' = CallsFor(v) \ {<<"call", e>>}
<1>1. ASSUME NEW d \in Editors
      PROVE  (pc'[d] \in {"written", "reread"} /\ job'[d].before.version = v)
               <=> /\ pc[d] \in {"written", "reread"}
                   /\ job[d].before.version = v
                   /\ d # e
  OBVIOUS
<1>2. QED
  BY <1>1 DEF CallsFor

\* Writing the entry moves the account from the call to the entry.
LEMMA LogAccounts ==
    ASSUME IInv, NEW e \in Editors, Log(e), NEW v \in Nat
    PROVE  Accounts(v)' =
             IF v = job[e].before.version
             THEN (Accounts(v) \ {<<"call", e>>})
                    \union {<<"entry", Len(history) + 1>>}
             ELSE Accounts(v)
<1> DEFINE x == [before |-> job[e].before, after |-> job[e].after]
           n == Len(history) + 1
<1>0. history \in Seq(Entry) /\ pc \in [Editors -> Steps]
  BY DEF IInv, TypeOK
<1>1. /\ pc[e] = "reread" /\ pc' = [pc EXCEPT ![e] = "logged"]
      /\ x \in Entry /\ history' = Append(history, x)
      /\ UNCHANGED <<failures, job>>
  BY LogShape
<1>2. /\ Len(history') = n /\ Len(history) \in Nat
      /\ history'[n].before = job[e].before
      /\ \A h \in 1..Len(history) : history'[h] = history[h]
  BY <1>0, <1>1, AppendProperties, LenProperties
<1>3. CallsFor(v)' = CallsFor(v) \ {<<"call", e>>}
  BY <1>0, <1>1, CallLeaves
<1>4. <<"call", e>> \in CallsFor(v) <=> v = job[e].before.version
  BY <1>1 DEF CallsFor
<1>5. ASSUME NEW h
      PROVE  (h \in 1..Len(history') /\ history'[h].before.version = v)
               <=> \/ h \in 1..Len(history) /\ history[h].before.version = v
                   \/ h = n /\ v = job[e].before.version
  <2>1. h \in 1..Len(history') <=> h \in 1..Len(history) \/ h = n
    BY <1>2
  <2>2. h = n => h \notin 1..Len(history)
    BY <1>2
  <2>3. QED
    BY <1>2, <2>1, <2>2
<1> HIDE DEF n
<1>6. EntriesFor(v)' = IF v = job[e].before.version
                       THEN EntriesFor(v) \union {<<"entry", n>>}
                       ELSE EntriesFor(v)
  BY <1>5 DEF EntriesFor
<1>7. FailuresFor(v)' = FailuresFor(v)
  BY <1>1 DEF FailuresFor
<1>8. <<"call", e>> \notin EntriesFor(v) /\ <<"call", e>> \notin FailuresFor(v)
  BY DEF EntriesFor, FailuresFor
<1>9. QED
  BY <1>3, <1>4, <1>6, <1>7, <1>8 DEF Accounts, n

\* Failing moves it from the call to the record of the failure, unless the
\* entry was written before.
LEMMA FailAccounts ==
    ASSUME IInv, NEW e \in Editors, Fail(e), NEW v \in Nat
    PROVE  LET f == [replaced |-> job[e].before.version,
                     logged |-> pc[e] = "logged"] IN
           Accounts(v)' =
             IF v = job[e].before.version /\ pc[e] # "logged"
             THEN (Accounts(v) \ {<<"call", e>>}) \union {<<"failure", f>>}
             ELSE Accounts(v)
<1> DEFINE f == [replaced |-> job[e].before.version,
                 logged |-> pc[e] = "logged"]
<1>0. pc \in [Editors -> Steps] /\ job \in [Editors -> Job]
  BY DEF IInv, TypeOK
<1>1. /\ failures' = failures \union {f}
      /\ pc' = [pc EXCEPT ![e] = "idle"]
      /\ UNCHANGED history
  BY FailShape
<1>2. /\ pc[e] \in {"written", "reread", "logged"}
      /\ \A d \in Editors : d # e => pc'[d] = pc[d] /\ job'[d] = job[d]
  BY <1>0 DEF Fail, Finish
<1>3. f.replaced = job[e].before.version /\ f.logged = (pc[e] = "logged")
  OBVIOUS
<1> HIDE DEF f
<1>4. EntriesFor(v)' = EntriesFor(v)
  BY <1>1 DEF EntriesFor
<1>5. FailuresFor(v)' = IF v = job[e].before.version /\ pc[e] # "logged"
                        THEN FailuresFor(v) \union {<<"failure", f>>}
                        ELSE FailuresFor(v)
  <2>1. ASSUME NEW g
        PROVE  (g \in failures' /\ g.replaced = v /\ ~g.logged)
                 <=> \/ g \in failures /\ g.replaced = v /\ ~g.logged
                     \/ /\ g = f
                        /\ v = job[e].before.version /\ pc[e] # "logged"
    BY <1>1, <1>3
  <2>2. QED
    BY <2>1 DEF FailuresFor
<1>6. CASE pc[e] = "logged"
  <2>1. ASSUME NEW d \in Editors
        PROVE  (pc'[d] \in {"written", "reread"} /\ job'[d].before.version = v)
                 <=> /\ pc[d] \in {"written", "reread"}
                     /\ job[d].before.version = v
    BY <1>0, <1>1, <1>2, <1>6
  <2>2. CallsFor(v)' = CallsFor(v)
    BY <2>1 DEF CallsFor
  <2>3. QED
    BY <1>4, <1>5, <1>6, <2>2 DEF Accounts, f
<1>7. CASE pc[e] # "logged"
  <2>1. CallsFor(v)' = CallsFor(v) \ {<<"call", e>>}
    BY <1>0, <1>1, <1>2, <1>7, CallLeaves
  <2>2. <<"call", e>> \in CallsFor(v) <=> v = job[e].before.version
    BY <1>2, <1>7 DEF CallsFor
  <2>3. <<"call", e>> \notin EntriesFor(v) /\ <<"call", e>> \notin FailuresFor(v)
    BY DEF EntriesFor, FailuresFor
  <2>4. QED
    BY <1>4, <1>5, <1>7, <2>1, <2>2, <2>3 DEF Accounts, f
<1>8. QED
  BY <1>6, <1>7

\* The other steps leave every account as it is.
LEMMA OtherAccounts ==
    ASSUME IInv, NEW v,
           \/ UNCHANGED vars
           \/ \E e \in Editors : \/ Ask(e) \/ Refuse(e) \/ ReadBefore(e)
                                 \/ Conflict(e) \/ Sync(e)
                                 \/ \E part \in Reads : \/ ReadRest(e, part)
                                                        \/ ReadAfter(e, part)
    PROVE  Accounts(v)' = Accounts(v) /\ version' = version
<1>0. pc \in [Editors -> Steps] /\ job \in [Editors -> Job] /\ TypeOK
  BY DEF IInv, TypeOK
<1>1. UNCHANGED <<version, history, failures>>
  BY DEF Ask, Edit, Restore, Begin, Refuse, ReadBefore, ReadRest, Conflict,
         ReadAfter, Sync, vars
<1>2. ASSUME NEW d \in Editors
      PROVE  (pc'[d] \in {"written", "reread"} /\ job'[d].before.version = v)
               <=> /\ pc[d] \in {"written", "reread"}
                   /\ job[d].before.version = v
  <2>1. CASE UNCHANGED vars
    BY <2>1 DEF vars
  <2>2. ASSUME NEW e \in Editors,
               \/ Ask(e) \/ Refuse(e) \/ ReadBefore(e) \/ Conflict(e) \/ Sync(e)
               \/ \E part \in Reads : ReadRest(e, part)
        PROVE  /\ pc[e] \notin {"written", "reread"}
               /\ pc'[e] \notin {"written", "reread"}
               /\ d # e => pc'[d] = pc[d] /\ job'[d] = job[d]
    BY <1>0, <2>2 DEF Ask, Edit, Restore, Begin, Refuse, ReadBefore, ReadRest,
                      Conflict, Sync, Goto, Finish
  <2>3. ASSUME NEW e \in Editors, NEW part \in Reads, ReadAfter(e, part)
        PROVE  /\ pc[e] = "written" /\ pc'[e] \in {"written", "reread"}
               /\ job'[e].before = job[e].before
               /\ d # e => pc'[d] = pc[d] /\ job'[d] = job[d]
    <3>1. PICK j \in Job, step \in {"written", "reread"} :
             /\ pc[e] = "written" /\ pc' = [pc EXCEPT ![e] = step]
             /\ j.before = job[e].before
             /\ job' = [job EXCEPT ![e] = j]
      BY <2>3, ReadShapes
    <3>2. QED
      BY <1>0, <3>1
  <2>4. QED
    BY <2>1, <2>2, <2>3
<1>3. CallsFor(v)' = CallsFor(v)
  BY <1>2 DEF CallsFor
<1>4. EntriesFor(v)' = EntriesFor(v) /\ FailuresFor(v)' = FailuresFor(v)
  BY <1>1 DEF EntriesFor, FailuresFor
<1>5. QED
  BY <1>1, <1>3, <1>4 DEF Accounts

\* Each replaced version keeps exactly one account.
LEMMA NextHistoryComplete ==
    ASSUME IInv, [Next]_vars, HistoryComplete
    PROVE  HistoryComplete'
<1>0. version \in Nat \ {0}
  BY DEF IInv, TypeOK
<1>s. SUFFICES ASSUME NEW v \in 1..(version' - 1)
               PROVE  \E a \in Accounts(v)' : Accounts(v)' = {a}
  BY DEF HistoryComplete
<1>1. ASSUME NEW e \in Editors, Write(e)
      PROVE  \E a \in Accounts(v)' : Accounts(v)' = {a}
  <2>0. version' = version + 1
    BY <1>1, WriteShape
  <2>1. version' = version + 1 /\ v \in Nat
    BY <1>0, <2>0
  <2>2. CASE v = version
    <3>1. Accounts(v)' = {<<"call", e>>}
      BY <1>0, <1>1, <2>1, <2>2, NoAccountYet, WriteAccounts
    <3>2. QED
      BY <3>1
  <2>3. CASE v # version
    <3>1. v \in 1..(version - 1)
      BY <1>0, <2>1, <2>3
    <3>2. Accounts(v)' = Accounts(v)
      BY <1>1, <2>1, <2>3, WriteAccounts
    <3>3. QED
      BY <3>1, <3>2 DEF HistoryComplete
  <2>4. QED
    BY <2>2, <2>3
<1>2. ASSUME version' = version
      PROVE  v \in Nat /\ \E a \in Accounts(v) : Accounts(v) = {a}
  BY <1>0, <1>2 DEF HistoryComplete
<1>3. ASSUME NEW e \in Editors, Log(e)
      PROVE  \E a \in Accounts(v)' : Accounts(v)' = {a}
  <2>1. version' = version /\ pc[e] = "reread"
    BY <1>3, LogShape
  <2>2. PICK a \in Accounts(v) : Accounts(v) = {a}
    BY <1>2, <2>1
  <2>3. CASE v = job[e].before.version
    <3>1. <<"call", e>> \in Accounts(v)
      BY <2>1, <2>3 DEF Accounts, CallsFor
    <3>2. Accounts(v)' = {<<"entry", Len(history) + 1>>}
      BY <1>2, <1>3, <2>1, <2>2, <2>3, <3>1, LogAccounts
    <3>3. QED
      BY <3>2
  <2>4. CASE v # job[e].before.version
    BY <1>2, <1>3, <2>1, <2>2, <2>4, LogAccounts
  <2>5. QED
    BY <2>3, <2>4
<1>4. ASSUME NEW e \in Editors, Fail(e)
      PROVE  \E a \in Accounts(v)' : Accounts(v)' = {a}
  <2>1. version' = version /\ pc[e] \in {"written", "reread", "logged"}
    BY <1>4 DEF Fail
  <2>2. PICK a \in Accounts(v) : Accounts(v) = {a}
    BY <1>2, <2>1
  <2>3. CASE v = job[e].before.version /\ pc[e] # "logged"
    <3> DEFINE f == [replaced |-> job[e].before.version,
                     logged |-> pc[e] = "logged"]
    <3>1. <<"call", e>> \in Accounts(v)
      BY <2>1, <2>3 DEF Accounts, CallsFor
    <3>2. Accounts(v)' = (Accounts(v) \ {<<"call", e>>}) \union {<<"failure", f>>}
      BY <1>2, <1>4, <2>1, <2>3, FailAccounts
    <3> HIDE DEF f
    <3>3. Accounts(v)' = {<<"failure", f>>}
      BY <2>2, <3>1, <3>2
    <3>4. QED
      BY <3>3
  <2>4. CASE ~(v = job[e].before.version /\ pc[e] # "logged")
    <3>1. Accounts(v)' = Accounts(v)
      BY <1>2, <1>4, <2>1, <2>4, FailAccounts
    <3>2. QED
      BY <2>2, <3>1
  <2>5. QED
    BY <2>3, <2>4
<1>5. CASE \/ UNCHANGED vars
           \/ \E e \in Editors : \/ Ask(e) \/ Refuse(e) \/ ReadBefore(e)
                                 \/ Conflict(e) \/ Sync(e)
                                 \/ \E part \in Reads : \/ ReadRest(e, part)
                                                        \/ ReadAfter(e, part)
  <2>1. Accounts(v)' = Accounts(v) /\ version' = version
    BY <1>5, OtherAccounts
  <2>2. QED
    BY <1>2, <2>1
<1>6. QED
  BY <1>1, <1>3, <1>4, <1>5 DEF Next, Continue

\* Every version that was ever replaced is accounted for once, whichever calls
\* interleave and whichever fail.
THEOREM Complete == Spec => []HistoryComplete
<1>1. Init => HistoryComplete
  BY DEF Init, HistoryComplete
<1>2. IInv /\ [Next]_vars /\ HistoryComplete => HistoryComplete'
  BY NextHistoryComplete
<1>3. QED
  BY Invariance, <1>1, <1>2, PTL DEF Spec

-----------------------------------------------------------------------------
(* Optimistic locking keeps what it promises. *)

\* A call under way is an edit of something the row once showed.
LEMMA EditTypes ==
    ASSUME IInv, NEW e \in Editors
    PROVE  [base |-> past[job[e].expected], input |-> job[e].input] \in OE!Edit
<1>1. /\ job[e] \in Job /\ past \in Seq(Content)
      /\ Len(past) = version /\ job[e].expected <= version
      /\ version \in Nat
  BY DEF IInv, TypeOK, PastNumbered, JobsConsistent
<1>2. job[e].expected \in 1..Len(past) /\ job[e].input \in Change
  BY <1>1 DEF Job
<1>3. past[job[e].expected] \in Content
  BY <1>1, <1>2, ElementOfSeq
<1>4. QED
  BY <1>2, <1>3 DEF OE!Edit, OE!Content, OE!Change, Content, Change

\* A step moves at most one edit: those of the other calls show what they did,
\* because past only grows.
LEMMA OthersKeepTheirEdit ==
    ASSUME IInv, [Next]_vars, NEW e \in Editors,
           pc'[e] = pc[e], job'[e] = job[e]
    PROVE  EditUnderWay'[e] = EditUnderWay[e]
<1>1. job[e].expected \in 1..version
  BY DEF IInv, TypeOK, Job, JobsConsistent
<1>2. past'[job[e].expected] = past[job[e].expected]
  BY <1>1, PastGrows
<1>3. QED
  BY <1>2 DEF EditUnderWay

\* Each step of an update is a step of OptimisticEdit or changes nothing there:
\* the call's arrival begins an edit, its write publishes it, a conflict or a
\* refusal drops it, everything else is invisible.
LEMMA StepRefines ==
    ASSUME IInv, IInv', [Next]_vars
    PROVE  [OE!Next]_<<content, EditUnderWay>>
<1>0. /\ TypeOK
      /\ pc \in [Editors -> Steps]
      /\ job \in [Editors -> Job]
  BY DEF IInv, TypeOK
<1>e. /\ EditUnderWay = [e \in Editors |-> EditUnderWay[e]]
      /\ EditUnderWay' = [e \in Editors |-> EditUnderWay'[e]]
  BY DEF EditUnderWay
<1>1. ASSUME NEW e \in Editors, Ask(e)
      PROVE  OE!Next
  <2>1. PICK v \in 1..version, j \in Job :
           /\ pc[e] = "idle"
           /\ j.expected = v
           /\ pc' = [pc EXCEPT ![e] = "asked"]
           /\ job' = [job EXCEPT ![e] = j]
           /\ UNCHANGED <<content, past>>
    BY <1>0, <1>1, StepShapes
  <2> DEFINE d == [base |-> past[v], input |-> j.input]
  <2>2. d \in OE!Edit
    <3>1. past \in Seq(Content) /\ Len(past) = version
      BY DEF IInv, TypeOK, PastNumbered
    <3>2. past[v] \in Content /\ j.input \in Change
      BY <3>1, ElementOfSeq DEF Job
    <3>3. QED
      BY <3>2 DEF OE!Edit, OE!Content, OE!Change, Content, Change
  <2>3. EditUnderWay[e] = NoEdit /\ EditUnderWay'[e] = d
    BY <1>0, <2>1 DEF EditUnderWay
  <2>4. \A c \in Editors \ {e} : EditUnderWay'[c] = EditUnderWay[c]
    BY <1>0, <2>1, OthersKeepTheirEdit
  <2>5. EditUnderWay' = [EditUnderWay EXCEPT ![e] = d]
    BY <1>e, <2>3, <2>4
  <2>6. OE!Begin(e, d)
    BY <2>1, <2>3, <2>5 DEF OE!Begin
  <2>7. QED
    BY <2>2, <2>6 DEF OE!Next
<1>2. ASSUME NEW e \in Editors, Write(e)
      PROVE  OE!Next
  <2>1. /\ pc[e] = "read" /\ version = job[e].expected
        /\ content' = Apply(job[e].input, content)
        /\ pc' = [pc EXCEPT ![e] = IF Reread THEN "written" ELSE "reread"]
        /\ \A c \in Editors : c # e => job'[c] = job[c]
    BY <1>0, <1>2, WriteShape
  <2> DEFINE d == [base |-> past[job[e].expected], input |-> job[e].input]
  <2>2. EditUnderWay[e] = d /\ EditUnderWay'[e] = NoEdit
    BY <1>0, <2>1 DEF EditUnderWay
  <2>3. d # NoEdit
    BY EditTypes, NoEditAssumption
       DEF OE!Edit, OE!Content, OE!Change, Content, Change
  <2>4. d.base = content
    BY <2>1 DEF IInv, PastNumbered
  <2>5. \A c \in Editors \ {e} : EditUnderWay'[c] = EditUnderWay[c]
    BY <1>0, <2>1, OthersKeepTheirEdit
  <2>6. EditUnderWay' = [EditUnderWay EXCEPT ![e] = NoEdit]
    BY <1>e, <2>2, <2>5
  <2>7. content' = OE!Apply(d.input, content)
    BY <2>1 DEF Apply, OE!Apply
  <2>8. OE!Publish(e)
    BY <2>2, <2>3, <2>4, <2>6, <2>7 DEF OE!Publish
  <2>9. QED
    BY <2>8 DEF OE!Next
<1>3. ASSUME NEW e \in Editors, Refuse(e) \/ Conflict(e)
      PROVE  OE!Next
  <2>1. pc[e] \in {"asked", "read"} /\ Finish(e) /\ UNCHANGED content
    BY <1>3 DEF Refuse, Conflict
  <2> DEFINE d == [base |-> past[job[e].expected], input |-> job[e].input]
  <2>2. EditUnderWay[e] = d /\ EditUnderWay'[e] = NoEdit
    BY <1>0, <2>1 DEF EditUnderWay, Finish
  <2>3. d # NoEdit
    BY EditTypes, NoEditAssumption
       DEF OE!Edit, OE!Content, OE!Change, Content, Change
  <2>4. \A c \in Editors \ {e} : EditUnderWay'[c] = EditUnderWay[c]
    BY <1>0, <2>1, OthersKeepTheirEdit DEF Finish
  <2>5. EditUnderWay' = [EditUnderWay EXCEPT ![e] = NoEdit]
    BY <1>e, <2>2, <2>4
  <2>6. OE!Drop(e)
    BY <2>1, <2>2, <2>3, <2>5 DEF OE!Drop
  <2>7. QED
    BY <2>6 DEF OE!Next
<1>4. ASSUME NEW e \in Editors, NEW part \in Reads,
             ReadBefore(e) \/ ReadRest(e, part)
      PROVE  UNCHANGED <<content, EditUnderWay>>
  <2>1. PICK j \in Job :
           /\ pc[e] \in {"asked", "read"} /\ pc' = [pc EXCEPT ![e] = "read"]
           /\ SameRequest(j, job[e])
           /\ job' = [job EXCEPT ![e] = j]
           /\ UNCHANGED <<content, past>>
    <3>1. CASE ReadBefore(e)
      BY <1>0, <3>1, StepShapes
    <3>2. CASE ReadRest(e, part)
      <4>1. pc' = [pc EXCEPT ![e] = "read"] /\ pc[e] = "read"
        BY <1>0, <3>2 DEF ReadRest
      <4>2. QED
        BY <3>2, <4>1, ReadShapes
    <3>3. QED
      BY <1>4, <3>1, <3>2
  <2>2. job'[e].expected = job[e].expected /\ job'[e].input = job[e].input
    BY <1>0, <2>1 DEF SameRequest
  <2>3. EditUnderWay'[e] = EditUnderWay[e]
    BY <1>0, <2>1, <2>2 DEF EditUnderWay
  <2>4. \A c \in Editors \ {e} : EditUnderWay'[c] = EditUnderWay[c]
    BY <1>0, <2>1, OthersKeepTheirEdit
  <2>5. QED
    BY <1>e, <2>1, <2>3, <2>4
<1>5. ASSUME NEW e \in Editors, NEW part \in Reads,
             ReadAfter(e, part) \/ Log(e) \/ Sync(e) \/ Fail(e)
      PROVE  UNCHANGED <<content, EditUnderWay>>
  <2>1. /\ pc[e] \notin {"asked", "read"} /\ pc'[e] \notin {"asked", "read"}
        /\ \A c \in Editors \ {e} : pc'[c] = pc[c] /\ job'[c] = job[c]
        /\ UNCHANGED content
    BY <1>0, <1>5 DEF ReadAfter, Log, Sync, Fail, Finish, Goto
  <2>2. EditUnderWay'[e] = EditUnderWay[e]
    BY <2>1 DEF EditUnderWay
  <2>3. \A c \in Editors \ {e} : EditUnderWay'[c] = EditUnderWay[c]
    BY <2>1, OthersKeepTheirEdit
  <2>4. QED
    BY <1>e, <2>1, <2>2, <2>3
<1>6. CASE UNCHANGED vars
  BY <1>6 DEF vars, EditUnderWay
<1>7. QED
  <2>1. Row \in Reads
    BY DEF Reads
  <2>2. QED
    BY <2>1, <1>1, <1>2, <1>3, <1>4, <1>5, <1>6 DEF Next, Continue

\* No update is lost: an edit lands only on exactly the state its author was
\* looking at, as if reading, comparing and writing were one step.
THEOREM Refinement == Spec => NoLostUpdate
<1>1. Init => OE!Init
  BY DEF Init, OE!Init, OE!Content, Content, EditUnderWay
<1>2. IInv /\ IInv' /\ [Next]_vars => [OE!Next]_<<content, EditUnderWay>>
  BY StepRefines
<1>3. QED
  BY <1>1, <1>2, Invariance, PTL DEF Spec, NoLostUpdate, OE!Spec
=============================================================================
