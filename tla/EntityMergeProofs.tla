------------------------- MODULE EntityMergeProofs -------------------------
(***************************************************************************)
(* TLAPS proofs about EntityMerge, for any number of merges, parents and   *)
(* children and each of the merge functions: the statements of a merge     *)
(* implement one atomic step.                                              *)
(***************************************************************************)
EXTENDS EntityMerge, TLAPS

USE NoneAssumption, EmptyAssumption, MaxAsksAssumption, SnapshotAssumption

\* A call that is not under way is well typed, and so is a row that is read.
LEMMA JobShapes ==
    /\ Blank \in Job
    /\ TypeOK => \A p \in Parents : Row(p) \in Snapshot
BY DEF Blank, Job, TypeOK, Row, Snapshot

\* Picking one of two texts gives a text.
LEMMA PickType ==
    \A a, b \in Texts \union {Empty} : Pick(a, b) \in Texts \union {Empty}
BY DEF Pick

\* The initial state satisfies the invariant: no merge is under way and every
\* child has its parent.
LEMMA InitIInv == Init => IInv
<1> SUFFICES ASSUME Init
             PROVE  IInv
  OBVIOUS
<1>1. \A m \in Merges : pc[m] = "idle"
  BY DEF Init
<1>2. TypeOK
  BY JobShapes DEF Init, TypeOK, Steps
<1>3. EF!Housed
  BY DEF Init, EF!Housed
<1>4. ReadsKept /\ HeldChildren /\ ExclusiveChildren
  BY <1>1 DEF ReadsKept, HeldChildren, ExclusiveChildren, Holding
<1>5. KeysOwed /\ EntriesOwed
  BY DEF Init, KeysOwed, EntriesOwed
<1>6. QED
  BY <1>2, <1>3, <1>4, <1>5 DEF IInv

\* A call that moves on, with what it was asked kept or dropped, keeps the
\* typing of the calls.
LEMMA CallTypes ==
    ASSUME TypeOK, NEW m \in Merges, NEW step \in Steps, NEW j \in Job,
           step # "idle" => j.s \in Parents /\ j.t \in Parents /\ j.s # j.t,
           pc' = [pc EXCEPT ![m] = step],
           job' = [job EXCEPT ![m] = j]
    PROVE  /\ pc' \in [Merges -> Steps]
           /\ job' \in [Merges -> Job]
           /\ \A n \in Merges : pc'[n] # "idle" =>
                 job'[n].s \in Parents /\ job'[n].t \in Parents
                                       /\ job'[n].s # job'[n].t
BY DEF TypeOK

\* What each step of a running merge does to its call: where it stands then
\* and what it remembers.
LEMMA CallShapes ==
    ASSUME IInv, NEW m \in Merges, Continue(m) \/ Fail(m)
    PROVE  \E step \in Steps, j \in Job :
              /\ pc' = [pc EXCEPT ![m] = step]
              /\ job' = [job EXCEPT ![m] = j]
              /\ step # "idle" => j.s \in Parents /\ j.t \in Parents /\ j.s # j.t
              /\ step \in {"checked", "repointed", "updated"} =>
                    j.source # None /\ j.target # None
<1> DEFINE Shape(step, j) ==
              /\ pc' = [pc EXCEPT ![m] = step]
              /\ job' = [job EXCEPT ![m] = j]
              /\ step # "idle" => j.s \in Parents /\ j.t \in Parents /\ j.s # j.t
              /\ step \in {"checked", "repointed", "updated"} =>
                    j.source # None /\ j.target # None
<1>0. /\ TypeOK /\ ReadsKept
      /\ job[m] \in Job /\ pc[m] \in Steps
      /\ pc = [pc EXCEPT ![m] = pc[m]] /\ job = [job EXCEPT ![m] = job[m]]
  BY DEF IInv, TypeOK
<1>1. ASSUME Finish(m)
      PROVE  Shape("idle", Blank)
  BY <1>1 DEF Finish, Goto
<1>2. ASSUME pc[m] # "idle",
             NEW step \in Steps, pc' = [pc EXCEPT ![m] = step],
             UNCHANGED job,
             step \in {"checked", "repointed", "updated"} => BothRead(m)
      PROVE  Shape(step, job[m])
  BY <1>0, <1>2 DEF TypeOK, BothRead
<1>3. CASE ReadSource(m)
  <2>1. job[m].s \in Parents /\ pc[m] = "asked"
    BY <1>0, <1>3 DEF ReadSource, TypeOK
  <2> DEFINE j == [job[m] EXCEPT !.source = Row(job[m].s)]
  <2>2. j \in Job /\ j.s = job[m].s /\ j.t = job[m].t
    BY <1>0, <2>1, JobShapes DEF Job
  <2>3. job' = [job EXCEPT ![m] = j]
    BY <1>3 DEF ReadSource
  <2>4. pc' = [pc EXCEPT ![m] = "asked"]
    BY <1>0, <1>3, <2>1 DEF ReadSource
  <2> HIDE DEF j
  <2>5. Shape("asked", j)
    BY <1>0, <2>1, <2>2, <2>3, <2>4 DEF TypeOK
  <2>6. QED
    BY <2>2, <2>5 DEF Steps
<1>4. CASE ReadTarget(m)
  <2>1. job[m].t \in Parents /\ pc[m] = "asked"
    BY <1>0, <1>4 DEF ReadTarget, TypeOK
  <2> DEFINE j == [job[m] EXCEPT !.target = Row(job[m].t)]
  <2>2. j \in Job /\ j.s = job[m].s /\ j.t = job[m].t
    BY <1>0, <2>1, JobShapes DEF Job
  <2>3. job' = [job EXCEPT ![m] = j]
    BY <1>4 DEF ReadTarget
  <2>4. pc' = [pc EXCEPT ![m] = "asked"]
    BY <1>0, <1>4, <2>1 DEF ReadTarget
  <2> HIDE DEF j
  <2>5. Shape("asked", j)
    BY <1>0, <2>1, <2>2, <2>3, <2>4 DEF TypeOK
  <2>6. QED
    BY <2>2, <2>5 DEF Steps
<1>5. CASE Refuse(m) \/ Conflict(m) \/ Abort(m) \/ Sync(m) \/ Fail(m)
  <2>1. Finish(m)
    BY <1>5 DEF Refuse, Conflict, Abort, Sync, Fail, Throw
  <2>2. QED
    BY <1>1, <2>1, JobShapes DEF Steps
<1>6. CASE CheckSource(m)
  BY <1>0, <1>2, <1>6 DEF CheckSource, Goto, Steps
<1>7. CASE Repoint(m)
  <2> DEFINE j == [job[m] EXCEPT !.moved = ChildrenOf(job[m].s)]
  <2>1. j \in Job /\ \A field \in {"s", "t", "source", "target"} :
                        j[field] = job[m][field]
    BY <1>0 DEF Job, ChildrenOf
  <2>2. job' = [job EXCEPT ![m] = j] /\ pc' = [pc EXCEPT ![m] = "repointed"]
    BY <1>7 DEF Repoint, Goto
  <2>3. BothRead(m) /\ job[m].s \in Parents /\ job[m].t \in Parents
                    /\ job[m].s # job[m].t
    BY <1>0, <1>7 DEF Repoint, ReadsKept, TypeOK
  <2> HIDE DEF j
  <2>4. Shape("repointed", j)
    BY <2>1, <2>2, <2>3 DEF BothRead
  <2>5. QED
    BY <2>1, <2>4 DEF Steps
<1>8. CASE UpdateTarget(m)
  <2> DEFINE met == job[m].t \in live
             j == [job[m] EXCEPT !.wrote = met]
  <2>0. met \in BOOLEAN
    OBVIOUS
  <2>2. job' = [job EXCEPT ![m] = j] /\ pc' = [pc EXCEPT ![m] = "updated"]
    BY <1>8, Zenon DEF UpdateTarget, Goto
  <2> HIDE DEF met
  <2>1. j \in Job /\ \A field \in {"s", "t", "source", "target"} :
                        j[field] = job[m][field]
    BY <1>0, <2>0 DEF Job
  <2>3. BothRead(m) /\ job[m].s \in Parents /\ job[m].t \in Parents
                    /\ job[m].s # job[m].t
    BY <1>0, <1>8 DEF UpdateTarget, ReadsKept, TypeOK
  <2> HIDE DEF j
  <2>4. Shape("updated", j)
    BY <2>1, <2>2, <2>3 DEF BothRead
  <2>5. QED
    BY <2>1, <2>4 DEF Steps
<1>9. CASE DeleteSource(m)
  BY <1>0, <1>2, <1>9 DEF DeleteSource, Goto, Steps
<1>10. CASE Reload(m)
  <2>1. CASE Finish(m)
    BY <1>1, <2>1, JobShapes DEF Steps
  <2>2. CASE Goto(m, "loaded") /\ UNCHANGED job
    BY <1>0, <1>2, <1>10, <2>2 DEF Reload, Goto, Steps
  <2>3. QED
    BY <1>10, <2>1, <2>2 DEF Reload, Throw
<1>11. CASE Log(m)
  BY <1>0, <1>2, <1>11 DEF Log, Goto, Steps
<1>12. QED
  BY <1>3, <1>4, <1>5, <1>6, <1>7, <1>8, <1>9, <1>10, <1>11 DEF Continue

\* Each step keeps the types.
LEMMA TypeStep ==
    ASSUME IInv, [Next]_vars
    PROVE  TypeOK'
<1>0. TypeOK /\ ReadsKept
  BY DEF IInv
<1>1. ASSUME NEW m \in Merges, Continue(m) \/ Fail(m)
      PROVE  TypeOK'
  <2>1. /\ pc' \in [Merges -> Steps]
        /\ job' \in [Merges -> Job]
        /\ \A n \in Merges : pc'[n] # "idle" =>
              job'[n].s \in Parents /\ job'[n].t \in Parents
                                    /\ job'[n].s # job'[n].t
    <3>1. PICK step \in Steps, j \in Job :
            /\ pc' = [pc EXCEPT ![m] = step]
            /\ job' = [job EXCEPT ![m] = j]
            /\ step # "idle" => j.s \in Parents /\ j.t \in Parents /\ j.s # j.t
      BY <1>1, CallShapes
    <3>2. QED
      BY <1>0, <3>1, CallTypes
  <2>0. job[m] \in Job /\ Written(m) \subseteq Tables
    <3>1. job[m] \in Job
      BY <1>0 DEF TypeOK
    <3>2. \A c \in job[m].moved : c[1] \in K.repoints
      BY <3>1 DEF Job, Children
    <3>3. QED
      BY <3>1, <3>2 DEF Written, Tables
  <2>2. CASE DeleteSource(m)
    <3>1. /\ job[m] \in Job /\ job[m].s \in Parents /\ job[m].t \in Parents
          /\ BothRead(m)
      BY <1>0, <2>2 DEF DeleteSource, TypeOK, ReadsKept
    <3>2. live' \subseteq Parents /\ home' \in [Children -> Parents]
      BY <1>0, <2>2, <3>1 DEF DeleteSource, TypeOK
    <3>3. /\ version' \in [Parents -> Nat]
          /\ text' \in [Parents -> Texts \union {Empty}]
      <4>1. Pick(job[m].target.text, job[m].source.text) \in Texts \union {Empty}
        BY <3>1, PickType DEF BothRead, Job, Snapshot
      <4>2. QED
        BY <1>0, <2>2, <3>1, <4>1 DEF DeleteSource, TypeOK
    <3>4. stale' \subseteq Tables
      BY <1>0, <2>0, <2>2 DEF DeleteSource, TypeOK
    <3>5. UNCHANGED <<history, failures, asks>>
      BY <2>2 DEF DeleteSource
    <3>6. QED
      BY <1>0, <2>1, <3>2, <3>3, <3>4, <3>5 DEF TypeOK
  <2>3. CASE Log(m)
    <3>1. <<job[m].s, job[m].t>> \in Parents \X Parents
      BY <1>0, <2>3 DEF Log, TypeOK
    <3>2. QED
      BY <1>0, <2>1, <2>3, <3>1 DEF Log, rowVars, TypeOK
  <2>4. CASE Sync(m)
    BY <1>0, <2>1, <2>4 DEF Sync, rowVars, TypeOK
  <2>5. CASE UNCHANGED <<rowVars, stale, history, failures, asks>>
    BY <1>0, <2>1, <2>5 DEF rowVars, TypeOK
  <2>6. ASSUME pc[m] # "idle", Throw(m),
               UNCHANGED <<rowVars, stale, history, asks>>
        PROVE  TypeOK'
    <3>1. [source |-> job[m].s, tables |-> Written(m)]
            \in [source : Parents, tables : SUBSET Tables]
      BY <1>0, <2>0, <2>6 DEF TypeOK
    <3>2. failures' \subseteq [source : Parents, tables : SUBSET Tables]
      BY <1>0, <2>6, <3>1 DEF Throw, TypeOK
    <3>3. QED
      BY <1>0, <2>1, <2>6, <3>2 DEF rowVars, TypeOK
  <2>7. CASE Reload(m) \/ Fail(m)
    BY <2>5, <2>6, <2>7 DEF Reload, Fail
  <2>8. QED
    BY <1>1, <2>2, <2>3, <2>4, <2>5, <2>7 DEF Continue, ReadSource, ReadTarget,
       Refuse, CheckSource, Conflict, Repoint, UpdateTarget, Abort
<1>2. ASSUME NEW m \in Merges, NEW s \in Parents, NEW t \in Parents,
             NEW v \in 1..version[s], MergeAsk(m, s, t, v)
      PROVE  TypeOK'
  <2> DEFINE j == [Blank EXCEPT !.s = s, !.t = t, !.expected = v]
  <2>1. v \in Nat
    BY <1>0 DEF TypeOK
  <2>2. j \in Job /\ j.s = s /\ j.t = t /\ s # t
    BY <1>2, <2>1 DEF MergeAsk, Blank, Job
  <2>3. pc' = [pc EXCEPT ![m] = "asked"] /\ job' = [job EXCEPT ![m] = j]
    BY <1>2 DEF MergeAsk, Goto
  <2> HIDE DEF j
  <2>4. /\ pc' \in [Merges -> Steps]
        /\ job' \in [Merges -> Job]
        /\ \A n \in Merges : pc'[n] # "idle" =>
              job'[n].s \in Parents /\ job'[n].t \in Parents
                                    /\ job'[n].s # job'[n].t
    BY <1>0, <2>2, <2>3, CallTypes DEF Steps
  <2>5. UNCHANGED <<live, version, text, home, stale, history, failures>> /\ asks' = asks + 1
    BY <1>2 DEF MergeAsk, Asked, rowVars
  <2>6. QED
    BY <1>0, <2>4, <2>5 DEF TypeOK
<1>3. ASSUME NEW p \in Parents, NEW x \in Texts, EditParent(p, x)
      PROVE  TypeOK'
  BY <1>0, <1>3 DEF EditParent, Asked, TypeOK
<1>4. ASSUME NEW c \in Children, NEW p \in Parents, MoveChild(c, p)
      PROVE  TypeOK'
  BY <1>0, <1>4 DEF MoveChild, Asked, TypeOK
<1>5. CASE UNCHANGED vars
  BY <1>0, <1>5 DEF vars, TypeOK
<1>6. QED
  BY <1>1, <1>2, <1>3, <1>4, <1>5 DEF Next, Ask

\* Each step keeps what a merge has read until it is done.
LEMMA ReadsStep ==
    ASSUME IInv, [Next]_vars
    PROVE  ReadsKept'
<1>0. TypeOK /\ ReadsKept
  BY DEF IInv
<1>1. ASSUME NEW m \in Merges, Continue(m) \/ Fail(m)
      PROVE  ReadsKept'
  <2>1. PICK step \in Steps, j \in Job :
          /\ pc' = [pc EXCEPT ![m] = step]
          /\ job' = [job EXCEPT ![m] = j]
          /\ step \in {"checked", "repointed", "updated"} =>
                j.source # None /\ j.target # None
    BY <1>1, CallShapes
  <2>2. QED
    BY <1>0, <2>1 DEF TypeOK, ReadsKept, BothRead
<1>2. ASSUME NEW m \in Merges, pc' = [pc EXCEPT ![m] = "asked"],
             \A n \in Merges \ {m} : job'[n] = job[n]
      PROVE  ReadsKept'
  BY <1>0, <1>2 DEF TypeOK, ReadsKept, BothRead
<1>3. ASSUME UNCHANGED <<pc, job>>
      PROVE  ReadsKept'
  BY <1>0, <1>3 DEF ReadsKept, BothRead
<1>4. ASSUME NEW m \in Merges, NEW s \in Parents, NEW t \in Parents,
             NEW v \in 1..version[s], MergeAsk(m, s, t, v)
      PROVE  ReadsKept'
  BY <1>0, <1>2, <1>4 DEF MergeAsk, Goto, TypeOK
<1>5. QED
  BY <1>1, <1>3, <1>4 DEF Next, Ask, EditParent, MoveChild, vars

\* What relates merges to the children and to each other.
Families == EF!Housed /\ HeldChildren /\ ExclusiveChildren

\* A step that leaves rows and children alone and puts no merge into its
\* transaction keeps it.
LEMMA QuietStep ==
    ASSUME IInv, UNCHANGED <<live, home>>,
           \A n \in Merges : Holding(n)' => pc'[n] = pc[n] /\ job'[n] = job[n]
    PROVE  Families'
<1>1. EF!Housed'
  BY DEF IInv, EF!Housed
<1>2. HeldChildren'
  BY DEF IInv, HeldChildren, Holding, Updating
<1>3. ExclusiveChildren'
  BY DEF IInv, ExclusiveChildren, Holding
<1>4. QED
  BY <1>1, <1>2, <1>3 DEF Families

\* Re-pointing takes only children no other merge has taken, which name the
\* source, and finds the target there.
LEMMA RepointStep ==
    ASSUME IInv, NEW m \in Merges, Repoint(m)
    PROVE  Families'
<1>0. TypeOK /\ EF!Housed /\ HeldChildren /\ ExclusiveChildren
  BY DEF IInv
<1>1. UNCHANGED <<live, home>>
  BY DEF Repoint, rowVars
<1>2. /\ pc'[m] = "repointed" /\ job'[m].moved = ChildrenOf(job[m].s)
      /\ job'[m].s = job[m].s /\ job'[m].t = job[m].t
      /\ \A n \in Merges \ {m} : pc'[n] = pc[n] /\ job'[n] = job[n]
  <2>1. job[m] \in Job
    BY <1>0 DEF TypeOK
  <2>2. job' = [job EXCEPT ![m] = [job[m] EXCEPT !.moved = ChildrenOf(job[m].s)]]
    BY DEF Repoint
  <2>3. pc' = [pc EXCEPT ![m] = "repointed"]
    BY DEF Repoint, Goto
  <2>4. QED
    BY <1>0, <2>1, <2>2, <2>3 DEF TypeOK, Job
<1>3. \A n \in Merges : Holding(n) => job[n].moved \cap ChildrenOf(job[m].s) = {}
  BY DEF Repoint, ChildLocked
<1>4. EF!Housed'
  BY <1>0, <1>1 DEF EF!Housed
<1>5. HeldChildren'
  <2>1. /\ \A c \in job'[m].moved : home[c] = job'[m].s
        /\ job'[m].moved # {} => job'[m].t \in live
        /\ ~Updating(m, job[m].t)'
    BY <1>2 DEF Repoint, ChildrenOf, Updating
  <2>2. QED
    BY <1>0, <1>1, <1>2, <2>1 DEF HeldChildren, Holding, Updating
<1>6. ExclusiveChildren'
  BY <1>0, <1>2, <1>3 DEF ExclusiveChildren, Holding
<1>7. QED
  BY <1>4, <1>5, <1>6 DEF Families

\* The update of the target takes its lock only on a row that is there.
LEMMA UpdateStep ==
    ASSUME IInv, NEW m \in Merges, UpdateTarget(m)
    PROVE  Families'
<1>0. TypeOK /\ EF!Housed /\ HeldChildren /\ ExclusiveChildren
  BY DEF IInv
<1>1. UNCHANGED <<live, home>> /\ Holding(m)
  BY DEF UpdateTarget, rowVars, Holding
<1>2. /\ job'[m].moved = job[m].moved
      /\ job'[m].s = job[m].s /\ job'[m].t = job[m].t
      /\ job'[m].wrote => job[m].t \in live
      /\ \A n \in Merges \ {m} : pc'[n] = pc[n] /\ job'[n] = job[n]
  <2> DEFINE met == job[m].t \in live
  <2>0. met \in BOOLEAN /\ (met => job[m].t \in live)
    OBVIOUS
  <2>1. job' = [job EXCEPT ![m] = [job[m] EXCEPT !.wrote = met]]
    BY Zenon DEF UpdateTarget
  <2> HIDE DEF met
  <2>2. job[m] \in Job
    BY <1>0 DEF TypeOK
  <2>3. pc' = [pc EXCEPT ![m] = "updated"]
    BY DEF UpdateTarget, Goto
  <2>4. /\ job'[m] = [job[m] EXCEPT !.wrote = met]
        /\ \A n \in Merges \ {m} : pc'[n] = pc[n] /\ job'[n] = job[n]
    BY <1>0, <2>1, <2>3 DEF TypeOK
  <2>5. /\ job'[m].moved = job[m].moved
        /\ job'[m].s = job[m].s /\ job'[m].t = job[m].t
        /\ job'[m].wrote = met
    BY <2>2, <2>4 DEF Job
  <2>6. QED
    BY <2>0, <2>4, <2>5, Zenon
<1>3. EF!Housed'
  BY <1>0, <1>1 DEF EF!Housed
<1>4. HeldChildren'
  <2>1. ASSUME NEW n \in Merges, Holding(n)'
        PROVE  /\ \A c \in job'[n].moved : home'[c] = job'[n].s
               /\ job'[n].moved # {} => job'[n].t \in live'
               /\ Updating(n, job[n].t)' => job'[n].t \in live'
    <3>1. CASE n = m
      BY <1>0, <1>1, <1>2, <3>1 DEF HeldChildren, Updating
    <3>2. CASE n # m
      BY <1>0, <1>1, <1>2, <2>1, <3>2 DEF HeldChildren, Holding, Updating
    <3>3. QED
      BY <3>1, <3>2
  <2>2. QED
    BY <1>2, <2>1 DEF HeldChildren, Updating
<1>5. ExclusiveChildren'
  BY <1>0, <1>1, <1>2 DEF ExclusiveChildren, Holding
<1>6. QED
  BY <1>3, <1>4, <1>5 DEF Families

\* The commit moves exactly the children that name the source, and no row
\* another merge relies on is deleted.
LEMMA CommitStep ==
    ASSUME IInv, NEW m \in Merges, DeleteSource(m)
    PROVE  Families' /\ EF!Absorb(job[m].s, job[m].t)
<1>0. TypeOK /\ EF!Housed /\ HeldChildren /\ ExclusiveChildren
  BY DEF IInv
<1> DEFINE s == job[m].s
           t == job[m].t
<1>1. /\ pc[m] = "updated" /\ Holding(m)
      /\ live' = live \ {s}
      /\ home' = [c \in Children |-> IF c \in job[m].moved THEN t ELSE home[c]]
      /\ job' = job
      /\ pc' = [pc EXCEPT ![m] = "committed"]
      /\ \A n \in Merges \ {m} : ~Updating(n, s) /\ ~KeyShared(n, s)
  BY DEF DeleteSource, Holding, Goto
<1>2. s \in Parents /\ t \in Parents /\ s # t /\ job[m].moved \subseteq Children
  BY <1>0, <1>1 DEF TypeOK, Job
<1>3. \A c \in Children : c \in job[m].moved <=> home[c] = s
  BY <1>0, <1>1 DEF HeldChildren, DeleteSource, NoOrphans, ChildrenOf
<1>4. job[m].moved # {} => t \in live
  BY <1>0, <1>1 DEF HeldChildren
<1>5. EF!Absorb(s, t)
  BY <1>1, <1>2, <1>3, <1>4 DEF EF!Absorb
<1>6. EF!Housed'
  BY <1>0, <1>1, <1>2, <1>3, <1>4 DEF EF!Housed
<1>7. \A n \in Merges : Holding(n)' => n # m /\ Holding(n) /\ pc'[n] = pc[n]
  BY <1>0, <1>1 DEF Holding, TypeOK
<1>8. HeldChildren'
  <2>1. ASSUME NEW n \in Merges, Holding(n)'
        PROVE  /\ \A c \in job[n].moved : home'[c] = job[n].s
               /\ job[n].moved # {} => job[n].t \in live'
               /\ Updating(n, job[n].t) => job[n].t \in live'
    <3>1. job[n].moved \cap job[m].moved = {} /\ job[n].moved \subseteq Children
      BY <1>0, <1>1, <1>7, <2>1 DEF ExclusiveChildren, TypeOK, Job
    <3>2. \A c \in job[n].moved : home[c] = job[n].s
      BY <1>0, <1>7, <2>1 DEF HeldChildren
    <3>3. QED
      BY <1>0, <1>1, <1>7, <2>1, <3>1, <3>2 DEF HeldChildren, KeyShared
  <2>2. QED
    BY <1>1, <1>7, <2>1 DEF HeldChildren, Updating
<1>9. ExclusiveChildren'
  BY <1>0, <1>1, <1>7 DEF ExclusiveChildren
<1>10. QED
  BY <1>5, <1>6, <1>8, <1>9 DEF Families

\* An editor moves only a child that no merge has taken.
LEMMA MoveStep ==
    ASSUME IInv, NEW c \in Children, NEW p \in Parents, MoveChild(c, p)
    PROVE  Families' /\ EF!Move(c, p)
<1>0. TypeOK /\ EF!Housed /\ HeldChildren /\ ExclusiveChildren
  BY DEF IInv
<1>1. /\ p \in live /\ ~ChildLocked(c)
      /\ home' = [home EXCEPT ![c] = p]
      /\ UNCHANGED <<live, pc, job>>
  BY DEF MoveChild
<1>2. EF!Move(c, p)
  BY <1>1 DEF EF!Move
<1>3. EF!Housed'
  BY <1>0, <1>1 DEF EF!Housed, TypeOK
<1>4. HeldChildren'
  <2>1. \A n \in Merges : Holding(n) =>
           \A d \in job[n].moved : d \in Children /\ home'[d] = home[d]
    BY <1>0, <1>1 DEF ChildLocked, TypeOK, Job
  <2>2. QED
    BY <1>0, <1>1, <2>1 DEF HeldChildren, Holding, Updating
<1>5. ExclusiveChildren'
  BY <1>0, <1>1 DEF ExclusiveChildren, Holding
<1>6. QED
  BY <1>2, <1>3, <1>4, <1>5 DEF Families

\* Each step keeps the families together, and is one of EntityFamily's or
\* changes nothing there.
LEMMA FamilyStep ==
    ASSUME IInv, [Next]_vars
    PROVE  Families' /\ [EF!Next]_<<live, home>>
<1>0. TypeOK
  BY DEF IInv
<1>1. ASSUME NEW m \in Merges, Continue(m) \/ Fail(m)
      PROVE  Families' /\ [EF!Next]_<<live, home>>
  <2>1. CASE Repoint(m)
    BY <2>1, RepointStep DEF Repoint, rowVars
  <2>2. CASE UpdateTarget(m)
    BY <2>2, UpdateStep DEF UpdateTarget, rowVars
  <2>3. CASE DeleteSource(m)
    <3>1. job[m].s \in Parents /\ job[m].t \in Parents
      BY <1>0, <2>3 DEF DeleteSource, TypeOK
    <3>2. QED
      BY <2>3, <3>1, CommitStep DEF EF!Next
  <2>4. ASSUME UNCHANGED rowVars,
               NEW step \in Steps \ {"repointed", "updated"},
               pc' = [pc EXCEPT ![m] = step],
               \A n \in Merges \ {m} : job'[n] = job[n]
        PROVE  Families' /\ [EF!Next]_<<live, home>>
    <3>1. \A n \in Merges : Holding(n)' => pc'[n] = pc[n] /\ job'[n] = job[n]
      BY <1>0, <2>4 DEF Holding, TypeOK
    <3>2. QED
      BY <2>4, <3>1, QuietStep DEF rowVars
  <2>5. ASSUME Finish(m), UNCHANGED rowVars
        PROVE  Families' /\ [EF!Next]_<<live, home>>
    BY <1>0, <2>4, <2>5 DEF Finish, Goto, Steps, TypeOK
  <2>6. CASE ReadSource(m) \/ ReadTarget(m)
    <3>1. pc' = [pc EXCEPT ![m] = "asked"]
      BY <1>0, <2>6 DEF ReadSource, ReadTarget, TypeOK
    <3>2. UNCHANGED rowVars /\ \A n \in Merges \ {m} : job'[n] = job[n]
      BY <1>0, <2>6 DEF ReadSource, ReadTarget, TypeOK
    <3>3. QED
      BY <2>4, <3>1, <3>2 DEF Steps
  <2>7. CASE Refuse(m) \/ Conflict(m) \/ Abort(m) \/ Sync(m) \/ Fail(m)
    BY <2>5, <2>7 DEF Refuse, Conflict, Abort, Sync, Fail, Throw
  <2>8. CASE CheckSource(m) \/ Log(m)
    BY <2>4, <2>8 DEF CheckSource, Log, Goto, Steps
  <2>9. CASE Reload(m)
    BY <2>4, <2>5, <2>9 DEF Reload, Throw, Goto, Steps
  <2>10. QED
    BY <1>1, <2>1, <2>2, <2>3, <2>6, <2>7, <2>8, <2>9 DEF Continue
<1>2. ASSUME NEW m \in Merges, NEW s \in Parents, NEW t \in Parents,
             NEW v \in 1..version[s], MergeAsk(m, s, t, v)
      PROVE  Families' /\ [EF!Next]_<<live, home>>
  <2>1. UNCHANGED <<live, home>>
    BY <1>2 DEF MergeAsk, rowVars
  <2>2. \A n \in Merges : Holding(n)' => pc'[n] = pc[n] /\ job'[n] = job[n]
    BY <1>0, <1>2 DEF MergeAsk, Goto, Holding, TypeOK
  <2>3. QED
    BY <2>1, <2>2, QuietStep
<1>3. ASSUME NEW p \in Parents, NEW x \in Texts, EditParent(p, x)
      PROVE  Families' /\ [EF!Next]_<<live, home>>
  BY <1>3, QuietStep DEF EditParent
<1>4. ASSUME NEW c \in Children, NEW p \in Parents, MoveChild(c, p)
      PROVE  Families' /\ [EF!Next]_<<live, home>>
  BY <1>4, MoveStep DEF EF!Next
<1>5. CASE UNCHANGED vars
  BY <1>5, QuietStep DEF vars
<1>6. QED
  BY <1>1, <1>2, <1>3, <1>4, <1>5 DEF Next, Ask

-----------------------------------------------------------------------------
(* What a merge still owes after its commit. *)

Owed == KeysOwed /\ EntriesOwed

\* A step that neither ends nor starts the last part of a merge owes nothing
\* new and pays nothing back.
LEMMA OwedKept ==
    ASSUME IInv, UNCHANGED <<live, stale, history, failures>>,
           \A n \in Merges : Finishing(n) =>
               pc'[n] = pc[n] /\ job'[n] = job[n]
    PROVE  Owed'
<1>1. \A n \in Merges : Finishing(n) =>
         /\ Finishing(n)' /\ Written(n)' = Written(n)
         /\ pc'[n] = pc[n] /\ job'[n].s = job[n].s
  BY DEF Finishing, Written
<1>2. KeysOwed'
  BY <1>1 DEF IInv, KeysOwed
<1>3. EntriesOwed'
  BY <1>1 DEF IInv, EntriesOwed, Finishing
<1>4. QED
  BY <1>2, <1>3 DEF Owed

\* A running merge that moves on without touching what other merges remember.
Others(m) ==
    \A n \in Merges : n # m => pc'[n] = pc[n] /\ job'[n] = job[n]

\* What the others owe or have failed to pay is owed after the step as before.
LEMMA OthersOwe ==
    ASSUME IInv, NEW m \in Merges, Others(m), failures \subseteq failures',
           history \subseteq history'
    PROVE  /\ \A table \in stale \cap K.announces :
                 \/ \E n \in Merges : Finishing(n)' /\ table \in Written(n)'
                 \/ \E f \in failures' : table \in f.tables
                 \/ Finishing(m) /\ table \in Written(m)
           /\ \A p \in Parents \ live :
                 \/ \E t \in Parents : <<p, t>> \in history'
                 \/ \E n \in Merges : /\ pc'[n] \in {"committed", "loaded"}
                                      /\ job'[n].s = p
                 \/ \E f \in failures' : f.source = p
                 \/ pc[m] \in {"committed", "loaded"} /\ job[m].s = p
<1>1. \A n \in Merges : n # m =>
         /\ Finishing(n)' = Finishing(n) /\ Written(n)' = Written(n)
         /\ pc'[n] = pc[n] /\ job'[n].s = job[n].s
  BY DEF Others, Finishing, Written
<1>2. KeysOwed /\ EntriesOwed
  BY DEF IInv
<1>3. ASSUME NEW table \in stale \cap K.announces
      PROVE  \/ \E n \in Merges : Finishing(n)' /\ table \in Written(n)'
             \/ \E f \in failures' : table \in f.tables
             \/ Finishing(m) /\ table \in Written(m)
  BY <1>1, <1>2 DEF KeysOwed
<1>4. ASSUME NEW p \in Parents \ live
      PROVE  \/ \E t \in Parents : <<p, t>> \in history'
             \/ \E n \in Merges : /\ pc'[n] \in {"committed", "loaded"}
                                  /\ job'[n].s = p
             \/ \E f \in failures' : f.source = p
             \/ pc[m] \in {"committed", "loaded"} /\ job[m].s = p
  BY <1>1, <1>2 DEF EntriesOwed
<1>5. QED
  BY <1>3, <1>4

\* The commit starts to owe an entry for its source and the keys of the tables
\* it wrote to.
LEMMA CommitOwes ==
    ASSUME IInv, NEW m \in Merges, DeleteSource(m)
    PROVE  Owed'
<1>1. /\ TypeOK
      /\ pc[m] = "updated" /\ pc'[m] = "committed"
      /\ Others(m)
      /\ live' = live \ {job[m].s} /\ stale' = stale \union Written(m)
      /\ UNCHANGED <<job, history, failures>>
  BY DEF IInv, DeleteSource, Goto, TypeOK, Others
<1>2. ~Finishing(m) /\ Finishing(m)' /\ Written(m)' = Written(m)
  BY <1>1 DEF Finishing, Written
<1>3. KeysOwed'
  BY <1>1, <1>2, OthersOwe DEF KeysOwed
<1>4. EntriesOwed'
  <2> SUFFICES ASSUME NEW p \in Parents, p \notin live'
               PROVE  \/ \E t \in Parents : <<p, t>> \in history'
                      \/ \E n \in Merges : /\ pc'[n] \in {"committed", "loaded"}
                                           /\ job'[n].s = p
                      \/ \E f \in failures' : f.source = p
    BY DEF EntriesOwed
  <2>1. CASE p = job[m].s
    BY <1>1, <2>1
  <2>2. CASE p # job[m].s
    <3>1. p \in Parents \ live
      BY <1>1, <2>2
    <3>2. QED
      BY <1>1, <3>1, OthersOwe
  <2>3. QED
    BY <2>1, <2>2
<1>5. QED
  BY <1>3, <1>4 DEF Owed

\* A merge that throws after its commit, by itself or because its target is
\* gone, is among the failures.
LEMMA ThrowOwes ==
    ASSUME IInv, NEW m \in Merges, Throw(m), UNCHANGED <<live, stale, history>>
    PROVE  Owed'
<1> DEFINE x == [source |-> job[m].s, tables |-> Written(m)]
<1>1. /\ failures' = failures \union {x}
      /\ x.source = job[m].s /\ x.tables = Written(m)
  BY DEF Throw
<1>2. Others(m)
  BY DEF Throw, Finish, Goto, IInv, TypeOK, Others
<1> HIDE DEF x
<1>3. x \in failures' /\ failures \subseteq failures'
  BY <1>1
<1>4. KeysOwed'
  BY <1>1, <1>2, <1>3, OthersOwe DEF KeysOwed
<1>5. EntriesOwed'
  BY <1>1, <1>2, <1>3, OthersOwe DEF EntriesOwed
<1>6. QED
  BY <1>4, <1>5 DEF Owed

\* A merge that finds its target goes on.
LEMMA ReloadOwes ==
    ASSUME IInv, NEW m \in Merges, Reload(m)
    PROVE  Owed'
<1>1. CASE Throw(m)
  BY <1>1, ThrowOwes DEF Reload, rowVars
<1>2. CASE Goto(m, "loaded") /\ UNCHANGED <<job, failures>>
  <2>1. /\ Others(m) /\ pc'[m] = "loaded"
        /\ UNCHANGED <<live, stale, history, job, failures>>
    BY <1>2 DEF Reload, Goto, IInv, TypeOK, Others, rowVars
  <2>2. Finishing(m)' /\ Written(m)' = Written(m)
    BY <2>1 DEF Finishing, Written
  <2>3. KeysOwed'
    BY <2>1, <2>2, OthersOwe DEF KeysOwed
  <2>4. EntriesOwed'
    BY <2>1, OthersOwe DEF EntriesOwed
  <2>5. QED
    BY <2>3, <2>4 DEF Owed
<1>3. QED
  BY <1>1, <1>2 DEF Reload

\* The entry of a merge is paid.
LEMMA LogOwes ==
    ASSUME IInv, NEW m \in Merges, Log(m)
    PROVE  Owed'
<1>1. /\ Others(m) /\ pc'[m] = "logged"
      /\ job[m].t \in Parents
      /\ history' = history \union {<<job[m].s, job[m].t>>}
      /\ UNCHANGED <<live, stale, job, failures>>
  BY DEF IInv, Log, Goto, TypeOK, rowVars, Others
<1>2. Finishing(m)' /\ Written(m)' = Written(m)
  BY <1>1 DEF Finishing, Written
<1>3. KeysOwed'
  BY <1>1, <1>2, OthersOwe DEF KeysOwed
<1>4. EntriesOwed'
  BY <1>1, OthersOwe DEF EntriesOwed
<1>5. QED
  BY <1>3, <1>4 DEF Owed

\* The keys of all tables are paid by whichever merge changes them.
LEMMA SyncOwes ==
    ASSUME IInv, NEW m \in Merges, Sync(m)
    PROVE  Owed'
<1>1. /\ Others(m) /\ pc[m] = "logged"
      /\ stale' = stale \ K.announces
      /\ UNCHANGED <<live, history, failures>>
  BY DEF IInv, Sync, Finish, Goto, TypeOK, rowVars, Others
<1>2. KeysOwed'
  BY <1>1 DEF KeysOwed
<1>3. EntriesOwed'
  BY <1>1, OthersOwe DEF EntriesOwed
<1>4. QED
  BY <1>2, <1>3 DEF Owed

\* Whatever the merges and the editors do, what is owed stays owed by somebody.
LEMMA OwedStep ==
    ASSUME IInv, [Next]_vars
    PROVE  Owed'
<1>0. TypeOK /\ pc \in [Merges -> Steps] /\ job \in [Merges -> Job]
  BY DEF IInv, TypeOK
<1>1. ASSUME NEW m \in Merges, UNCHANGED <<live, stale, history, failures>>,
             pc[m] \notin {"committed", "loaded", "logged"},
             \A n \in Merges : n # m => pc'[n] = pc[n] /\ job'[n] = job[n]
      PROVE  Owed'
  BY <1>1, OwedKept DEF Finishing
<1>2. ASSUME NEW m \in Merges, ReadSource(m) \/ ReadTarget(m)
      PROVE  Owed'
  BY <1>0, <1>1, <1>2 DEF ReadSource, ReadTarget, rowVars
<1>3. ASSUME NEW m \in Merges, Refuse(m) \/ Conflict(m) \/ Abort(m)
      PROVE  Owed'
  BY <1>0, <1>1, <1>3 DEF Refuse, Conflict, Abort, Finish, Goto, rowVars
<1>4. ASSUME NEW m \in Merges, CheckSource(m) \/ Repoint(m) \/ UpdateTarget(m)
      PROVE  Owed'
  BY <1>0, <1>1, <1>4 DEF CheckSource, Repoint, UpdateTarget, Goto, rowVars
<1>5. ASSUME NEW m \in Merges, NEW s \in Parents, NEW t \in Parents,
             NEW v \in 1..version[s], MergeAsk(m, s, t, v)
      PROVE  Owed'
  BY <1>0, <1>1, <1>5 DEF MergeAsk, Goto, rowVars
<1>6. ASSUME NEW m \in Merges, Fail(m)
      PROVE  Owed'
  BY <1>6, ThrowOwes DEF Fail, rowVars
<1>7. CASE UNCHANGED <<live, stale, history, failures, pc, job>>
  BY <1>7, OwedKept
<1>8. QED
  BY <1>2, <1>3, <1>4, <1>5, <1>6, <1>7, CommitOwes, ReloadOwes, LogOwes,
     SyncOwes DEF Next, Ask, Continue, EditParent, MoveChild, vars

\* The inductive invariant holds in every state: a merge inside its
\* transaction has read both rows, its children still name its source, and its
\* target and its children are nobody else's to take.
THEOREM Invariance == Spec => []IInv
<1>1. Init => IInv
  BY InitIInv
<1>2. IInv /\ [Next]_vars => IInv'
  BY TypeStep, ReadsStep, FamilyStep, OwedStep DEF IInv, Families, Owed
<1>3. QED
  BY <1>1, <1>2, PTL DEF Spec

\* Rows, children and calls keep their shape.
THEOREM TypeCorrect == Spec => []TypeOK
<1>1. IInv => TypeOK
  BY DEF IInv
<1>2. QED
  BY <1>1, Invariance, PTL

\* The statements of the merge functions, interleaved with other merges and
\* with editors who move children, implement one step that hands over all
\* children and deletes the source.
THEOREM Refinement == Spec => FamiliesKept
<1>1. Init => EF!Init
  BY DEF Init, EF!Init
<1>2. IInv /\ [Next]_vars => [EF!Next]_<<live, home>>
  BY FamilyStep
<1>3. QED
  BY <1>1, <1>2, Invariance, PTL DEF Spec, FamiliesKept, EF!Spec

\* No child ever names a parent that has been merged away.
THEOREM NoChildLost == Spec => []EF!Housed
<1>1. IInv => EF!Housed
  BY DEF IInv
<1>2. QED
  BY <1>1, Invariance, PTL

\* The promise to the children follows from EntityFamily alone: whatever hands
\* children over in such steps leaves each with a parent that exists.
THEOREM FamilySuffices == EF!Spec => []EF!Housed
<1>1. EF!Init => EF!Housed
  BY DEF EF!Init, EF!Housed
<1>2. EF!Housed /\ [EF!Next]_<<live, home>> => EF!Housed'
  <2> SUFFICES ASSUME EF!Housed, [EF!Next]_<<live, home>>
               PROVE  EF!Housed'
    OBVIOUS
  <2>1. CASE UNCHANGED <<live, home>>
    BY <2>1 DEF EF!Housed
  <2>2. ASSUME NEW c \in Children, NEW p \in Parents, EF!Move(c, p)
        PROVE  EF!Housed'
    BY <2>2 DEF EF!Move, EF!Housed
  <2>3. ASSUME NEW s \in Parents, NEW t \in Parents, EF!Absorb(s, t)
        PROVE  EF!Housed'
    BY <2>3 DEF EF!Absorb, EF!Housed
  <2>4. QED
    BY <2>1, <2>2, <2>3 DEF EF!Next
<1>3. QED
  BY <1>1, <1>2, PTL DEF EF!Spec

\* After a commit nothing is forgotten: while viewers are to be told of a table,
\* or a vanished parent has no entry, a merge that wrote or removed it is on its
\* way to the key or the entry, or has failed.
THEOREM NothingForgotten == Spec => [](KeysOwed /\ EntriesOwed)
<1>1. IInv => KeysOwed /\ EntriesOwed
  BY DEF IInv
<1>2. QED
  BY <1>1, Invariance, PTL
=============================================================================
