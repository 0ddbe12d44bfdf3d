------------------------- MODULE AdminAccountsProofs -------------------------
(***************************************************************************)
(* TLAPS proofs about AdminAccounts, for any number of calls, accounts and *)
(* identities.                                                             *)
(***************************************************************************)
EXTENDS AdminAccounts, TLAPS

USE NoneAssumption, MaxAsksAssumption

\* A call that has not begun is well typed.
LEMMA BlankType == Blank \in Job
BY DEF Blank, Job, Patch, Choice

\* What the columns of a patch leave is a boolean.
LEMMA ChosenType ==
    ASSUME NEW choice \in Choice, NEW old \in BOOLEAN
    PROVE  Chosen(choice, old) \in BOOLEAN
BY DEF Chosen

\* In the initial state nothing is under way.
LEMMA InitIInv == Init => IInv
<1> SUFFICES ASSUME Init
             PROVE  IInv
  OBVIOUS
<1>1. /\ \A h \in Handlers : pc[h] = "idle"
      /\ \A a \in exists : ~row[a].deleted /\ (row[a].password \/ row[a].google # None)
  BY DEF Init
<1>2. TypeOK
  BY BlankType DEF Init, TypeOK, Steps
<1>3. AdminRemains
  BY DEF Init, AdminRemains, Administers, ActiveAdmin, Active
<1>4. CanSignIn
  BY <1>1 DEF CanSignIn
<1>5. LockHeld /\ SeenHolds /\ GuardHolds /\ UnlinkHolds /\ Present /\ LinksName
  BY <1>1 DEF LockHeld, SeenHolds, GuardHolds, UnlinkHolds, Present, LinksName
<1>6. QED
  BY <1>2, <1>3, <1>4, <1>5 DEF IInv

\* A call takes a step to somewhere with something in mind.
LEMMA JobTypes ==
    ASSUME TypeOK, NEW h \in Handlers, NEW step \in Steps, NEW j \in Job,
           j.account \in Accounts
             \/ step \in {"idle", "create", "signin", "unlinked", "unmatched"},
           pc' = [pc EXCEPT ![h] = step], job' = [job EXCEPT ![h] = j]
    PROVE  /\ pc' \in [Handlers -> Steps] /\ job' \in [Handlers -> Job]
           /\ \A k \in Handlers :
                 pc'[k] \notin {"idle", "create", "signin", "unlinked",
                                "unmatched"} => job'[k].account \in Accounts
           /\ \A k \in Handlers \ {h} : pc'[k] = pc[k] /\ job'[k] = job[k]
           /\ pc'[h] = step /\ job'[h] = j
BY DEF TypeOK

\* The steps that only read or end: the accounts stay as they are.
Reads(h) ==
    \/ Asks(h) \/ Fail(h)
    \/ ManageRead(h) \/ ManageMissing(h) \/ ManageCount(h) \/ ManageRefuse(h)
    \/ LinkRead(h) \/ LinkTaken(h) \/ UnlinkRead(h) \/ UnlinkRefuse(h)
    \/ SigninLinked(h) \/ SigninUnlinked(h) \/ SigninMatch(h)
    \/ SigninNoMatch(h)

\* The steps that write the row of the call's account, and end the call.
Writes(h) ==
    \/ ManageWrite(h) \/ DeleteWrite(h) \/ PasswordWrite(h)
    \/ LinkWrite(h) \/ UnlinkWrite(h) \/ SigninLink(h)

\* The steps that insert an account, and end the call.
Inserts(h, a) == CreateInsert(h, a) \/ SigninInsert(h, a)

\* These, an inserted account, or nothing, are all that happens.
LEMMA StepKinds ==
    ASSUME [Next]_vars
    PROVE  \/ \E h \in Handlers : Reads(h)
           \/ \E h \in Handlers : Writes(h)
           \/ \E h \in Handlers, a \in Accounts : Inserts(h, a)
           \/ UNCHANGED vars
BY DEF Next, Continue, Reads, Writes, Inserts

\* What a reading step does.
LEMMA ReadShape ==
    ASSUME IInv, NEW h \in Handlers, Reads(h)
    PROVE  /\ UNCHANGED <<exists, row>> /\ asks' \in Nat
           /\ \E step \in Steps, j \in Job :
                 /\ \/ j.account \in Accounts
                    \/ step \in {"idle", "create", "signin", "unlinked", "unmatched"}
                 /\ pc' = [pc EXCEPT ![h] = step]
                 /\ job' = [job EXCEPT ![h] = j]
<1> DEFINE Shape ==
             /\ UNCHANGED <<exists, row>> /\ asks' \in Nat
             /\ \E step \in Steps, j \in Job :
                   /\ \/ j.account \in Accounts
                      \/ step \in {"idle", "create", "signin", "unlinked", "unmatched"}
                   /\ pc' = [pc EXCEPT ![h] = step]
                   /\ job' = [job EXCEPT ![h] = j]
<1>0. /\ TypeOK /\ asks \in Nat /\ job[h] \in Job /\ exists \subseteq Accounts
      /\ row \in [Accounts -> Row]
      /\ job \in [Handlers -> Job]
  BY DEF IInv, TypeOK
<1>s. Steps = {"idle", "manage", "guarding", "counted", "create", "delete",
               "password", "link", "linkable", "unlink", "unlinkable",
               "signin", "unlinked", "matched", "unmatched"}
  BY DEF Steps
<1>1. ASSUME Finish(h), UNCHANGED <<exists, row, asks>>
      PROVE  Shape
  BY <1>0, <1>s, <1>1, BlankType DEF Finish, Goto
<1>2. ASSUME NEW step \in Steps, UNCHANGED <<exists, row, job, asks>>,
             Goto(h, step), job[h].account \in Accounts
                \/ step \in {"idle", "create", "signin", "unlinked", "unmatched"}
      PROVE  Shape
  <2>1. job' = [job EXCEPT ![h] = job[h]] /\ UNCHANGED <<exists, row, asks>>
    BY <1>0, <1>2
  <2>2. pc' = [pc EXCEPT ![h] = step]
    BY <1>2 DEF Goto
  <2>3. QED
    BY <1>0, <1>2, <2>1, <2>2
<1>3. ASSUME NEW step \in Steps, NEW j \in Job, Ask(h, step, j),
             j.account \in Accounts \/ step \in {"create", "signin"}
      PROVE  Shape
  <2>1. /\ pc' = [pc EXCEPT ![h] = step] /\ job' = [job EXCEPT ![h] = j]
        /\ UNCHANGED <<exists, row>> /\ asks' = asks + 1
    BY <1>3 DEF Ask, Goto
  <2>2. asks' \in Nat
    BY <1>0, <2>1
  <2>3. QED
    BY <1>3, <2>1, <2>2
<1>4. CASE Asks(h)
  <2>1. ASSUME NEW a \in Accounts, NEW patch \in Patch
        PROVE  [Blank EXCEPT !.account = a, !.patch = patch] \in Job
    BY BlankType DEF Job, Blank
  <2>2. ASSUME NEW a \in Accounts, NEW g \in Googles \union {None}
        PROVE  [Blank EXCEPT !.account = a, !.google = g] \in Job
    BY BlankType DEF Job, Blank
  <2>3. ASSUME NEW g \in Googles
        PROVE  [Blank EXCEPT !.google = g] \in Job
    BY BlankType DEF Job, Blank
  <2>4. ASSUME NEW a \in Accounts, NEW patch \in Patch, ManageAsk(h, a, patch)
        PROVE  Shape
    <3> DEFINE j == [Blank EXCEPT !.account = a, !.patch = patch]
    <3>1. j \in Job /\ j.account = a /\ Ask(h, "manage", j)
      BY <2>1, <2>4 DEF ManageAsk, Blank
    <3> HIDE DEF j
    <3>2. QED
      BY <1>s, <1>3, <3>1
  <2>5. ASSUME NEW a \in Accounts, NEW g \in Googles \union {None},
               NEW step \in {"delete", "password", "unlink", "link"},
               OwnAsk(h, step, a, g)
        PROVE  Shape
    <3> DEFINE j == [Blank EXCEPT !.account = a, !.google = g]
    <3>1. j \in Job /\ j.account = a /\ Ask(h, step, j)
      BY <2>2, <2>5 DEF OwnAsk, Blank
    <3> HIDE DEF j
    <3>2. QED
      BY <1>s, <1>3, <3>1
  <2>6. ASSUME NEW g \in Googles, SigninAsk(h, g)
        PROVE  Shape
    <3> DEFINE j == [Blank EXCEPT !.google = g]
    <3>1. j \in Job /\ Ask(h, "signin", j)
      BY <2>3, <2>6 DEF SigninAsk
    <3> HIDE DEF j
    <3>2. QED
      BY <1>s, <1>3, <3>1
  <2>7. ASSUME NEW admin \in {"yes", "no"}, CreateAsk(h, admin)
        PROVE  Shape
    <3> DEFINE j == [Blank EXCEPT !.patch = [admin |-> admin, active |-> "yes"]]
    <3>1. j \in Job
      BY BlankType DEF Job, Blank, Patch, Choice
    <3>2. Ask(h, "create", j)
      BY <2>7 DEF CreateAsk
    <3> HIDE DEF j
    <3>3. QED
      BY <1>s, <1>3, <3>1, <3>2
  <2>8. ASSUME NEW a \in Accounts, ResetAsk(h, a)
        PROVE  Shape
    <3> DEFINE j == [Blank EXCEPT !.account = a]
    <3>1. j \in Job /\ j.account = a
      BY BlankType DEF Job, Blank
    <3>2. Ask(h, "password", j)
      BY <2>8 DEF ResetAsk
    <3> HIDE DEF j
    <3>3. QED
      BY <1>s, <1>3, <3>1, <3>2
  <2>9. QED
    BY <1>4, <2>4, <2>5, <2>6, <2>7, <2>8 DEF Asks
<1>5. CASE ManageRead(h)
  <2> DEFINE a == job[h].account
             j == [job[h] EXCEPT !.admin = row[a].admin,
                                 !.active = row[a].active]
  <2>1. a \in Accounts /\ row[a] \in Row
    BY <1>0, <1>5 DEF ManageRead
  <2>2. j \in Job /\ j.account = a
    BY <1>0, <2>1 DEF Job, Row
  <2>3. /\ job' = [job EXCEPT ![h] = j] /\ UNCHANGED <<exists, row, asks>>
        /\ \/ pc' = [pc EXCEPT ![h] = "guarding"]
           \/ pc' = [pc EXCEPT ![h] = "counted"]
    BY <1>5 DEF ManageRead, Goto
  <2> HIDE DEF j
  <2>4. QED
    BY <1>0, <1>s, <2>1, <2>2, <2>3
<1>6. CASE SigninMatch(h)
  <2>1. PICK a \in exists :
          IF row[a].active
          THEN /\ job' = [job EXCEPT ![h] = [job[h] EXCEPT !.account = a]]
               /\ Goto(h, "matched")
          ELSE Finish(h)
    BY <1>6 DEF SigninMatch
  <2>2. UNCHANGED <<exists, row, asks>>
    BY <1>6 DEF SigninMatch
  <2> DEFINE j == [job[h] EXCEPT !.account = a]
  <2>3. j \in Job /\ j.account = a /\ a \in Accounts
    BY <1>0 DEF Job
  <2>4. CASE row[a].active
    <3>1. job' = [job EXCEPT ![h] = j] /\ pc' = [pc EXCEPT ![h] = "matched"]
      BY <2>1, <2>4 DEF Goto
    <3> HIDE DEF j
    <3>2. QED
      BY <1>0, <1>s, <2>2, <2>3, <3>1
  <2>5. CASE ~row[a].active
    BY <1>1, <2>1, <2>2, <2>5
  <2>6. QED
    BY <2>4, <2>5
<1>7. CASE \/ Fail(h) \/ ManageMissing(h) \/ ManageRefuse(h)
           \/ LinkTaken(h) \/ UnlinkRefuse(h) \/ SigninLinked(h)
  BY <1>1, <1>7 DEF Fail, ManageMissing, ManageRefuse, LinkTaken, UnlinkRefuse,
                    SigninLinked
<1>8. CASE \/ ManageCount(h) \/ LinkRead(h) \/ UnlinkRead(h)
           \/ SigninUnlinked(h) \/ SigninNoMatch(h)
  <2>1. \/ /\ pc[h] \in {"guarding", "link", "unlink"}
           /\ \E step \in {"counted", "linkable", "unlinkable"} : Goto(h, step)
        \/ \E step \in {"unlinked", "unmatched"} : Goto(h, step)
    BY <1>8 DEF ManageCount, LinkRead, UnlinkRead, SigninUnlinked, SigninNoMatch
  <2>2. UNCHANGED <<exists, row, job, asks>>
    BY <1>8 DEF ManageCount, LinkRead, UnlinkRead, SigninUnlinked, SigninNoMatch
  <2>3. pc[h] \in {"guarding", "link", "unlink"} => job[h].account \in Accounts
    BY <1>0 DEF TypeOK
  <2>4. QED
    BY <1>2, <1>s, <2>1, <2>2, <2>3
<1>9. QED
  BY <1>4, <1>5, <1>6, <1>7, <1>8 DEF Reads

\* What a writing step does: one row changes, and the call is over.
LEMMA WriteShape ==
    ASSUME IInv, NEW h \in Handlers, Writes(h)
    PROVE  /\ pc[h] \in {"counted", "delete", "password", "linkable",
                         "unlinkable", "matched"}
           /\ job[h].account \in Accounts
           /\ pc' = [pc EXCEPT ![h] = "idle"]
           /\ job' = [job EXCEPT ![h] = Blank]
           /\ UNCHANGED <<exists, asks>>
           /\ \E r \in Row :
                 /\ row' = [row EXCEPT ![job[h].account] = r]
                 /\ \/ ManageWrite(h)
                    \/ /\ r.admin = row[job[h].account].admin
                       /\ \/ r.active = row[job[h].account].active
                             /\ r.deleted = row[job[h].account].deleted
                          \/ ~r.active /\ r.deleted
<1> DEFINE a == job[h].account
<1>0. row \in [Accounts -> Row] /\ job[h] \in Job
  BY DEF IInv, TypeOK
<1>1. /\ pc[h] \in {"counted", "delete", "password", "linkable",
                     "unlinkable", "matched"}
      /\ Finish(h) /\ UNCHANGED <<exists, asks>>
  BY DEF Writes, ManageWrite, DeleteWrite, PasswordWrite, LinkWrite,
         UnlinkWrite, SigninLink, SetGoogle
<1>2. a \in Accounts
  BY <1>1 DEF IInv, TypeOK
<1>3. row[a] \in Row
  BY <1>0, <1>2
<1>4. ASSUME NEW g \in Googles \union {None}, SetGoogle(h, g)
      PROVE  \E r \in Row :
               /\ row' = [row EXCEPT ![a] = r]
               /\ r.admin = row[a].admin
               /\ r.active = row[a].active /\ r.deleted = row[a].deleted
  <2> DEFINE r == [row[a] EXCEPT !.google = g]
  <2>1. /\ r \in Row /\ r.admin = row[a].admin
        /\ r.active = row[a].active /\ r.deleted = row[a].deleted
    BY <1>3 DEF Row
  <2>2. row' = [row EXCEPT ![a] = r]
    BY <1>4 DEF SetGoogle
  <2> HIDE DEF r
  <2>3. QED
    BY <2>1, <2>2
<1>5. CASE ManageWrite(h)
  <2> DEFINE p == job[h].patch
             r == [row[a] EXCEPT !.admin = Chosen(p.admin, row[a].admin),
                                 !.active = Chosen(p.active, row[a].active)]
  <2>1. r \in Row
    <3>1. p.admin \in Choice /\ p.active \in Choice
      BY <1>0 DEF Job, Patch
    <3>2. row[a].admin \in BOOLEAN /\ row[a].active \in BOOLEAN
      BY <1>3 DEF Row
    <3>3. /\ Chosen(p.admin, row[a].admin) \in BOOLEAN
          /\ Chosen(p.active, row[a].active) \in BOOLEAN
      BY <3>1, <3>2, ChosenType
    <3>4. QED
      BY <1>3, <3>3 DEF Row
  <2>2. row' = [row EXCEPT ![a] = r]
    BY <1>5 DEF ManageWrite
  <2> HIDE DEF r
  <2>3. QED
    BY <1>1, <1>2, <1>5, <2>1, <2>2 DEF Finish, Goto
<1>6. CASE DeleteWrite(h)
  <2> DEFINE r == [row[a] EXCEPT !.active = FALSE, !.deleted = TRUE,
                                 !.password = FALSE, !.google = None]
  <2>1. r \in Row /\ r.admin = row[a].admin /\ ~r.active /\ r.deleted
    BY <1>3 DEF Row
  <2>2. row' = [row EXCEPT ![a] = r]
    BY <1>6 DEF DeleteWrite
  <2> HIDE DEF r
  <2>3. QED
    BY <1>1, <1>2, <2>1, <2>2 DEF Finish, Goto
<1>7. CASE PasswordWrite(h)
  <2> DEFINE r == [row[a] EXCEPT !.password = TRUE]
  <2>1. /\ r \in Row /\ r.admin = row[a].admin
        /\ r.active = row[a].active /\ r.deleted = row[a].deleted
    BY <1>3 DEF Row
  <2>2. row' = [row EXCEPT ![a] = r]
    BY <1>7 DEF PasswordWrite
  <2> HIDE DEF r
  <2>3. QED
    BY <1>1, <1>2, <2>1, <2>2 DEF Finish, Goto
<1>8. CASE LinkWrite(h) \/ UnlinkWrite(h) \/ SigninLink(h)
  <2>1. job[h].google \in Googles \union {None}
    BY <1>0 DEF Job
  <2>2. \E g \in Googles \union {None} : SetGoogle(h, g)
    BY <1>8, <2>1 DEF LinkWrite, UnlinkWrite, SigninLink
  <2>3. QED
    BY <1>1, <1>2, <1>4, <2>2 DEF Finish, Goto
<1>9. QED
  BY <1>5, <1>6, <1>7, <1>8 DEF Writes

\* An inserted account is new, not deleted, and can sign in; the call is over.
LEMMA InsertShape ==
    ASSUME IInv, NEW a \in Accounts, NEW h \in Handlers, Inserts(h, a)
    PROVE  /\ a \notin exists /\ exists' = exists \union {a} /\ UNCHANGED asks
           /\ pc' = [pc EXCEPT ![h] = "idle"]
           /\ job' = [job EXCEPT ![h] = Blank]
           /\ \E r \in Row : /\ row' = [row EXCEPT ![a] = r]
                             /\ ~r.deleted
                             /\ r.password \/ r.google # None
<1>1. CASE SigninInsert(h, a)
  <2> DEFINE r == [admin |-> FALSE, active |-> TRUE, deleted |-> FALSE,
                   password |-> FALSE, google |-> job[h].google]
  <2>1. job[h].google \in Googles
    BY <1>1 DEF SigninInsert, IInv, LinksName
  <2>2. r \in Row /\ ~r.deleted /\ r.google # None
    BY <2>1 DEF Row
  <2>3. row' = [row EXCEPT ![a] = r]
    BY <1>1 DEF SigninInsert
  <2> HIDE DEF r
  <2>4. QED
    BY <1>1, <2>2, <2>3 DEF SigninInsert, Finish, Goto
<1>2. CASE CreateInsert(h, a)
  <2> DEFINE r == [admin |-> job[h].patch.admin = "yes", active |-> TRUE,
                   deleted |-> FALSE, password |-> TRUE, google |-> None]
  <2>1. r \in Row /\ ~r.deleted /\ r.password
    BY DEF Row
  <2>2. row' = [row EXCEPT ![a] = r]
    BY <1>2 DEF CreateInsert
  <2> HIDE DEF r
  <2>3. QED
    BY <1>2, <2>1, <2>2 DEF CreateInsert, Finish, Goto
<1>3. QED
  BY <1>1, <1>2 DEF Inserts

\* Every step keeps the types.
LEMMA NextTypeOK ==
    ASSUME IInv, [Next]_vars
    PROVE  TypeOK'
<1>0. TypeOK
  BY DEF IInv
<1>1. ASSUME NEW h \in Handlers, Reads(h)
      PROVE  TypeOK'
  <2>1. PICK step \in Steps, j \in Job :
           /\ \/ j.account \in Accounts
              \/ step \in {"idle", "create", "signin", "unlinked", "unmatched"}
           /\ pc' = [pc EXCEPT ![h] = step]
           /\ job' = [job EXCEPT ![h] = j]
    BY <1>1, ReadShape
  <2>2. UNCHANGED <<exists, row>> /\ asks' \in Nat
    BY <1>1, ReadShape
  <2>3. QED
    BY <1>0, <2>1, <2>2, JobTypes DEF TypeOK
<1>2. ASSUME NEW h \in Handlers, Writes(h)
      PROVE  TypeOK'
  <2>1. /\ pc' = [pc EXCEPT ![h] = "idle"]
        /\ job' = [job EXCEPT ![h] = Blank]
        /\ UNCHANGED <<exists, asks>>
        /\ \E r \in Row : row' = [row EXCEPT ![job[h].account] = r]
    BY <1>2, WriteShape
  <2>2. row' \in [Accounts -> Row]
    BY <1>0, <2>1 DEF TypeOK
  <2>3. "idle" \in Steps
    BY DEF Steps
  <2>4. QED
    BY <1>0, <2>1, <2>2, <2>3, BlankType, JobTypes DEF TypeOK
<1>3. ASSUME NEW a \in Accounts,
             NEW h \in Handlers, Inserts(h, a)
      PROVE  TypeOK'
  <2>1. /\ exists' = exists \union {a} /\ UNCHANGED asks
        /\ pc' = [pc EXCEPT ![h] = "idle"]
        /\ job' = [job EXCEPT ![h] = Blank]
        /\ \E r \in Row : row' = [row EXCEPT ![a] = r]
    BY <1>3, InsertShape
  <2>2. row' \in [Accounts -> Row] /\ exists' \subseteq Accounts
    BY <1>0, <2>1 DEF TypeOK
  <2>3. "idle" \in Steps
    BY DEF Steps
  <2>4. QED
    BY <1>0, <2>1, <2>2, <2>3, BlankType, JobTypes DEF TypeOK
<1>4. CASE UNCHANGED vars
  BY <1>0, <1>4 DEF vars, TypeOK
<1>5. QED
  BY <1>1, <1>2, <1>3, <1>4, StepKinds

\* A reading step that takes the call to the lock or to its write is one of
\* these, and no reading step forgets the identity or the account of a call.
LEMMA ReadTargets ==
    ASSUME IInv, NEW h \in Handlers, Reads(h)
    PROVE  /\ pc'[h] \in {"guarding", "counted"} =>
                 ManageRead(h) \/ ManageCount(h)
           /\ pc'[h] = "unlinkable" => UnlinkRead(h)
           /\ pc'[h] \in {"delete", "password", "link", "linkable", "unlink",
                          "unlinkable", "matched"} => job'[h].account \in exists
           /\ pc'[h] \in {"link", "linkable", "signin", "unlinked", "matched",
                          "unmatched"} => job'[h].google \in Googles
<1>0. pc \in [Handlers -> Steps] /\ job \in [Handlers -> Job] /\ job[h] \in Job
  BY DEF IInv, TypeOK
<1>1. Present /\ LinksName
  BY DEF IInv
<1>2. CASE \/ Fail(h) \/ ManageMissing(h) \/ ManageRefuse(h)
           \/ LinkTaken(h) \/ UnlinkRefuse(h) \/ SigninLinked(h)
  <2>1. pc'[h] = "idle"
    BY <1>0, <1>2 DEF Fail, ManageMissing, ManageRefuse, LinkTaken,
                      UnlinkRefuse, SigninLinked, Finish, Goto
  <2>2. QED
    BY <2>1
<1>3. CASE Asks(h)
  <2>1. ASSUME NEW a \in Accounts, NEW patch \in Patch, ManageAsk(h, a, patch)
        PROVE  pc'[h] = "manage"
    BY <1>0, <2>1 DEF ManageAsk, Ask, Goto
  <2>2. ASSUME NEW a \in Accounts, NEW g \in Googles \union {None},
               NEW step \in {"delete", "password", "unlink", "link"},
               OwnAsk(h, step, a, g)
        PROVE  pc'[h] = step /\ job'[h].account \in exists /\ job'[h].google = g
    BY <1>0, <2>2 DEF OwnAsk, Ask, Goto, Active, Blank
  <2>3. ASSUME NEW g \in Googles, SigninAsk(h, g)
        PROVE  pc'[h] = "signin" /\ job'[h].google = g
    BY <1>0, <2>3 DEF SigninAsk, Ask, Goto, Blank
  <2>4. CASE \E a \in Accounts, patch \in Patch : ManageAsk(h, a, patch)
    BY <2>1, <2>4
  <2>5. CASE \E a \in Accounts, step \in {"delete", "password", "unlink"} :
                OwnAsk(h, step, a, None)
    <3>1. pc'[h] \in {"delete", "password", "unlink"} /\ job'[h].account \in exists
      BY <2>2, <2>5
    <3>2. QED
      BY <3>1
  <2>6. CASE \E a \in Accounts, g \in Googles : OwnAsk(h, "link", a, g)
    <3>1. /\ pc'[h] = "link" /\ job'[h].account \in exists
          /\ job'[h].google \in Googles
      BY <2>2, <2>6
    <3>2. QED
      BY <3>1
  <2>7. CASE \E g \in Googles : SigninAsk(h, g)
    <3>1. pc'[h] = "signin" /\ job'[h].google \in Googles
      BY <2>3, <2>7
    <3>2. QED
      BY <3>1
  <2>8. CASE \E admin \in {"yes", "no"} : CreateAsk(h, admin)
    <3>1. pc'[h] = "create"
      BY <1>0, <2>8 DEF CreateAsk, Ask, Goto
    <3>2. QED
      BY <3>1
  <2>9. CASE \E a \in Accounts : ResetAsk(h, a)
    <3>1. pc'[h] = "password" /\ job'[h].account \in exists
      BY <1>0, <2>9 DEF ResetAsk, Ask, Goto, Blank
    <3>2. QED
      BY <3>1
  <2>10. QED
    BY <1>3, <2>4, <2>5, <2>6, <2>7, <2>8, <2>9 DEF Asks
<1>4. CASE ManageRead(h) \/ ManageCount(h)
  <2>1. pc'[h] \in {"guarding", "counted"}
    BY <1>0, <1>4 DEF ManageRead, ManageCount, Goto
  <2>2. QED
    BY <1>4, <2>1
<1>5. CASE LinkRead(h)
  BY <1>0, <1>1, <1>5 DEF LinkRead, Goto, Present, LinksName
<1>6. CASE UnlinkRead(h)
  BY <1>0, <1>1, <1>6 DEF UnlinkRead, Goto, Present
<1>7. CASE SigninUnlinked(h) \/ SigninNoMatch(h)
  <2>1. /\ pc[h] \in {"signin", "unlinked"} /\ pc'[h] \in {"unlinked", "unmatched"}
        /\ job' = job
    BY <1>0, <1>7 DEF SigninUnlinked, SigninNoMatch, Goto
  <2>2. QED
    BY <1>1, <2>1 DEF LinksName
<1>8. CASE SigninMatch(h)
  <2>1. job[h].google \in Googles
    BY <1>1, <1>8 DEF SigninMatch, LinksName
  <2>2. PICK a \in exists :
          IF row[a].active
          THEN /\ job' = [job EXCEPT ![h] = [job[h] EXCEPT !.account = a]]
               /\ Goto(h, "matched")
          ELSE Finish(h)
    BY <1>8 DEF SigninMatch
  <2>3. \/ pc'[h] = "idle"
        \/ /\ pc'[h] = "matched" /\ job'[h].account = a
           /\ job'[h].google = job[h].google
    BY <1>0, <2>2 DEF Finish, Goto, Job
  <2>4. QED
    BY <2>1, <2>2, <2>3
<1>9. QED
  BY <1>2, <1>3, <1>4, <1>5, <1>6, <1>7, <1>8 DEF Reads

\* A write keeps a password, or what else signs an account in, unless it
\* deletes the account.
LEMMA WriteKeeps ==
    ASSUME IInv, NEW h \in Handlers, Writes(h), NEW a, a = job[h].account
    PROVE  /\ a \in exists
           /\ row[a].password \/ row[a].deleted =>
                 row'[a].password \/ row'[a].deleted
           /\ row[a].deleted \/ row[a].password \/ row[a].google # None =>
                 row'[a].deleted \/ row'[a].password \/ row'[a].google # None
<1>0. row \in [Accounts -> Row] /\ a \in Accounts
  BY WriteShape DEF IInv, TypeOK
<1>1. a \in exists
  <2>1. CASE ManageWrite(h)
    BY <2>1 DEF ManageWrite, IInv, SeenHolds
  <2>2. CASE \/ DeleteWrite(h) \/ PasswordWrite(h) \/ LinkWrite(h)
             \/ UnlinkWrite(h) \/ SigninLink(h)
    BY <2>2 DEF DeleteWrite, PasswordWrite, LinkWrite, UnlinkWrite, SigninLink,
                IInv, Present
  <2>3. QED
    BY <2>1, <2>2 DEF Writes
<1>2. row[a] \in Row
  BY <1>0
<1>3. CASE ManageWrite(h)
  <2>1. row'[a] = [row[a] EXCEPT
                     !.admin = Chosen(job[h].patch.admin, row[a].admin),
                     !.active = Chosen(job[h].patch.active, row[a].active)]
    BY <1>0, <1>3 DEF ManageWrite
  <2>2. /\ row'[a].password = row[a].password /\ row'[a].google = row[a].google
        /\ row'[a].deleted = row[a].deleted
    BY <1>2, <2>1 DEF Row
  <2>3. QED
    BY <1>1, <2>2
<1>4. CASE DeleteWrite(h)
  <2>1. row'[a] = [row[a] EXCEPT !.active = FALSE, !.deleted = TRUE,
                                 !.password = FALSE, !.google = None]
    BY <1>0, <1>4 DEF DeleteWrite
  <2>2. row'[a].deleted
    BY <1>2, <2>1 DEF Row
  <2>3. QED
    BY <1>1, <2>2
<1>5. CASE PasswordWrite(h)
  <2>1. row'[a] = [row[a] EXCEPT !.password = TRUE]
    BY <1>0, <1>5 DEF PasswordWrite
  <2>2. row'[a].password
    BY <1>2, <2>1 DEF Row
  <2>3. QED
    BY <1>1, <2>2
<1>6. ASSUME NEW g \in Googles \union {None}, SetGoogle(h, g)
      PROVE  /\ row'[a].password = row[a].password
             /\ row'[a].deleted = row[a].deleted /\ row'[a].google = g
  <2>1. row'[a] = [row[a] EXCEPT !.google = g]
    BY <1>0, <1>6 DEF SetGoogle
  <2>2. QED
    BY <1>2, <2>1 DEF Row
<1>7. CASE LinkWrite(h) \/ SigninLink(h)
  <2>1. job[h].google \in Googles /\ SetGoogle(h, job[h].google)
    BY <1>7 DEF LinkWrite, SigninLink, IInv, LinksName
  <2>2. QED
    BY <1>1, <1>6, <2>1
<1>8. CASE UnlinkWrite(h)
  <2>1. row[a].password \/ row[a].deleted
    BY <1>8 DEF UnlinkWrite, IInv, UnlinkHolds
  <2>2. SetGoogle(h, None)
    BY <1>8 DEF UnlinkWrite
  <2>3. QED
    BY <1>1, <1>6, <2>1, <2>2
<1>9. QED
  BY <1>3, <1>4, <1>5, <1>7, <1>8 DEF Writes

\* A write ends nobody's administering but that of a managed target, and of
\* that only if somebody else administers.
LEMMA WriteAdministers ==
    ASSUME IInv, NEW h \in Handlers, Writes(h), NEW a, a = job[h].account
    PROVE  /\ \A b \in Accounts \ {a} : Administers(b) => Administers(b)'
           /\ \/ Administers(a) => Administers(a)'
              \/ /\ ManageWrite(h)
                 /\ \E b \in Accounts \ {a} : Administers(b)
<1>0. row \in [Accounts -> Row] /\ a \in Accounts /\ exists' = exists
  BY WriteShape DEF IInv, TypeOK
<1>1. PICK r \in Row :
        /\ row' = [row EXCEPT ![a] = r]
        /\ \/ ManageWrite(h)
           \/ /\ r.admin = row[a].admin
              /\ \/ r.active = row[a].active /\ r.deleted = row[a].deleted
                 \/ ~r.active /\ r.deleted
  BY WriteShape
<1>2. ASSUME NEW b \in Accounts \ {a}, Administers(b)
      PROVE  Administers(b)'
  BY <1>0, <1>1, <1>2 DEF Administers
<1>3. CASE ~ManageWrite(h)
  <2>1. Administers(a) => Administers(a)'
    BY <1>0, <1>1, <1>3 DEF Administers
  <2>2. QED
    BY <1>2, <2>1
<1>4. CASE ManageWrite(h)
  <2>1. SUFFICES ASSUME Administers(a), ~ Administers(a)'
                 PROVE  \E b \in Accounts \ {a} : Administers(b)
    BY <1>2, <1>4
  <2> DEFINE p == job[h].patch
  <2>2. pc[h] = "counted" /\ job[h] \in Job
    BY <1>4 DEF ManageWrite, IInv, TypeOK
  <2>3. row'[a] = [row[a] EXCEPT !.admin = Chosen(p.admin, row[a].admin),
                                 !.active = Chosen(p.active, row[a].active)]
    BY <1>0, <1>4 DEF ManageWrite
  <2>4. /\ row'[a].admin = Chosen(p.admin, row[a].admin)
        /\ row'[a].active = Chosen(p.active, row[a].active)
        /\ row'[a].deleted = row[a].deleted
    BY <1>0, <2>3 DEF Row
  <2>5. p.admin \in Choice /\ p.active \in Choice
    BY <2>2 DEF Job, Patch
  <2>6. row[a].admin /\ (row[a].active \/ row[a].deleted)
    BY <2>1 DEF Administers
  <2>7. ~row'[a].admin \/ (~row'[a].active /\ ~row'[a].deleted)
    BY <1>0, <2>1 DEF Administers
  <2>8. job[h].admin = row[a].admin /\ (job[h].active = row[a].active \/ row[a].deleted)
    BY <2>2 DEF IInv, SeenHolds
  <2>9. RemovesAdmin(job[h].admin, job[h].active, p)
    <3>1. job[h].admin
      BY <2>6, <2>8
    <3>2. CASE ~row'[a].admin
      <4>1. p.admin = "no"
        BY <2>4, <2>5, <2>6, <3>2 DEF Chosen, Choice
      <4>2. QED
        BY <3>1, <4>1 DEF RemovesAdmin
    <3>3. CASE ~row'[a].active /\ ~row'[a].deleted
      <4>1. row[a].active /\ job[h].active
        BY <2>4, <2>6, <2>8, <3>3
      <4>2. p.active = "no"
        BY <2>4, <2>5, <3>3, <4>1 DEF Chosen, Choice
      <4>3. QED
        BY <3>1, <4>1, <4>2 DEF RemovesAdmin
    <3>4. QED
      BY <2>7, <3>2, <3>3
  <2>10. QED
    BY <2>2, <2>9 DEF IInv, GuardHolds
<1>5. QED
  BY <1>3, <1>4

\* What every step leaves of the other calls.
LEMMA ReadOthers ==
    ASSUME IInv, NEW h \in Handlers, Reads(h), NEW k \in Handlers, k # h
    PROVE  pc'[k] = pc[k] /\ job'[k] = job[k]
<1>1. PICK step \in Steps, j \in Job :
         pc' = [pc EXCEPT ![h] = step] /\ job' = [job EXCEPT ![h] = j]
  BY ReadShape
<1>2. QED
  BY <1>1 DEF IInv, TypeOK

LEMMA WriteOthers ==
    ASSUME IInv, NEW h \in Handlers, Writes(h), NEW k \in Handlers
    PROVE  \/ pc'[k] = "idle"
           \/ k # h /\ pc'[k] = pc[k] /\ job'[k] = job[k]
<1>1. pc' = [pc EXCEPT ![h] = "idle"] /\ job' = [job EXCEPT ![h] = Blank]
  BY WriteShape
<1>2. QED
  BY <1>1 DEF IInv, TypeOK

LEMMA InsertOthers ==
    ASSUME IInv, NEW a \in Accounts, NEW k \in Handlers,
           NEW h \in Handlers, Inserts(h, a)
    PROVE  pc'[k] = "idle" \/ (pc'[k] = pc[k] /\ job'[k] = job[k])
<1>1. pc' = [pc EXCEPT ![h] = "idle"] /\ job' = [job EXCEPT ![h] = Blank]
  BY InsertShape
<1>2. QED
  BY <1>1 DEF IInv, TypeOK

\* A row that is there already is not the one a call inserts.
LEMMA InsertKeeps ==
    ASSUME IInv, NEW a \in Accounts, NEW b \in exists,
           NEW h \in Handlers, Inserts(h, a)
    PROVE  b \in exists' /\ row'[b] = row[b]
<1>1. a \notin exists /\ exists' = exists \union {a}
  BY InsertShape
<1>2. PICK r \in Row : row' = [row EXCEPT ![a] = r]
  BY InsertShape
<1>3. QED
  BY <1>1, <1>2 DEF IInv, TypeOK

-----------------------------------------------------------------------------
\* Every step leaves somebody who administers.
LEMMA NextAdminRemains ==
    ASSUME IInv, [Next]_vars
    PROVE  AdminRemains'
<1>0. PICK b \in Accounts : Administers(b)
  BY DEF IInv, AdminRemains
<1>1. ASSUME NEW h \in Handlers, Reads(h)
      PROVE  AdminRemains'
  BY <1>0, <1>1, ReadShape DEF AdminRemains, Administers
<1>2. ASSUME NEW h \in Handlers, Writes(h)
      PROVE  AdminRemains'
  <2> DEFINE a == job[h].account
  <2>1. \E c : c = a
    OBVIOUS
  <2>2. PICK c : c = a
    BY <2>1
  <2>3. /\ \A d \in Accounts \ {c} : Administers(d) => Administers(d)'
        /\ \/ Administers(c) => Administers(c)'
           \/ \E d \in Accounts \ {c} : Administers(d)
    BY <1>2, <2>2, WriteAdministers
  <2>4. \E d \in Accounts : Administers(d)'
    BY <1>0, <2>3
  <2>5. QED
    BY <2>4 DEF AdminRemains
<1>3. ASSUME NEW a \in Accounts,
             NEW h \in Handlers, Inserts(h, a)
      PROVE  AdminRemains'
  BY <1>0, <1>3, InsertKeeps DEF AdminRemains, Administers
<1>4. CASE UNCHANGED vars
  BY <1>0, <1>4 DEF vars, AdminRemains, Administers
<1>5. QED
  BY <1>1, <1>2, <1>3, <1>4, StepKinds

\* Every step leaves whoever has an account a way to sign in.
LEMMA NextCanSignIn ==
    ASSUME IInv, [Next]_vars
    PROVE  CanSignIn'
<1>0. CanSignIn
  BY DEF IInv
<1>1. ASSUME NEW h \in Handlers, Reads(h)
      PROVE  CanSignIn'
  BY <1>0, <1>1, ReadShape DEF CanSignIn
<1>2. ASSUME NEW h \in Handlers, Writes(h)
      PROVE  CanSignIn'
  <2>1. PICK a : a = job[h].account
    OBVIOUS
  <2>2. exists' = exists /\ a \in Accounts /\ row \in [Accounts -> Row]
    BY <1>2, <2>1, WriteShape DEF IInv, TypeOK
  <2>3. PICK r \in Row : row' = [row EXCEPT ![a] = r]
    BY <1>2, <2>1, WriteShape
  <2>4. ASSUME NEW b \in exists, b # a
        PROVE  row'[b] = row[b]
    BY <2>2, <2>3, <2>4 DEF IInv, TypeOK
  <2>5. row'[a].deleted \/ row'[a].password \/ row'[a].google # None
    <3>1. a \in exists
      BY <1>2, <2>1, WriteKeeps
    <3>2. QED
      BY <1>0, <1>2, <2>1, <3>1, WriteKeeps DEF CanSignIn
  <2>6. QED
    BY <1>0, <2>2, <2>4, <2>5 DEF CanSignIn
<1>3. ASSUME NEW a \in Accounts,
             NEW h \in Handlers, Inserts(h, a)
      PROVE  CanSignIn'
  <2>1. exists' = exists \union {a} /\ row \in [Accounts -> Row]
    BY <1>3, InsertShape DEF IInv, TypeOK
  <2>2. row'[a].password \/ row'[a].google # None
    <3>1. PICK r \in Row : row' = [row EXCEPT ![a] = r]
                           /\ (r.password \/ r.google # None)
      BY <1>3, InsertShape
    <3>2. QED
      BY <2>1, <3>1
  <2>3. \A b \in exists : row'[b] = row[b]
    BY <1>3, InsertKeeps
  <2>4. QED
    BY <1>0, <2>1, <2>2, <2>3 DEF CanSignIn
<1>4. CASE UNCHANGED vars
  BY <1>0, <1>4 DEF vars, CanSignIn
<1>5. QED
  BY <1>1, <1>2, <1>3, <1>4, StepKinds

\* One transaction at a time holds the lock.
LEMMA NextLockHeld ==
    ASSUME IInv, [Next]_vars
    PROVE  LockHeld'
<1>0. LockHeld
  BY DEF IInv
<1>1. ASSUME NEW h \in Handlers, Reads(h)
      PROVE  LockHeld'
  <2>1. \A k \in Handlers \ {h} : pc'[k] = pc[k]
    BY <1>1, ReadOthers
  <2>2. pc'[h] \in {"guarding", "counted"} =>
           \A k \in Handlers \ {h} : pc[k] \notin {"guarding", "counted"}
    BY <1>0, <1>1, ReadTargets
       DEF ManageRead, ManageCount, LockFree, LockHeld
  <2>3. QED
    BY <1>0, <2>1, <2>2 DEF LockHeld
<1>2. ASSUME NEW h \in Handlers, Writes(h)
      PROVE  LockHeld'
  <2>1. \A k \in Handlers : pc'[k] = "idle" \/ pc'[k] = pc[k]
    BY <1>2, WriteOthers
  <2>2. QED
    BY <1>0, <2>1 DEF LockHeld
<1>3. ASSUME NEW a \in Accounts,
             NEW h \in Handlers, Inserts(h, a)
      PROVE  LockHeld'
  <2>1. \A k \in Handlers : pc'[k] = "idle" \/ pc'[k] = pc[k]
    BY <1>3, InsertOthers
  <2>2. QED
    BY <1>0, <2>1 DEF LockHeld
<1>4. CASE UNCHANGED vars
  BY <1>0, <1>4 DEF vars, LockHeld
<1>5. QED
  BY <1>1, <1>2, <1>3, <1>4, StepKinds

\* What the lock holder read of its target stays so, but for a deletion.
LEMMA NextSeenHolds ==
    ASSUME IInv, [Next]_vars
    PROVE  SeenHolds'
<1>0. SeenHolds /\ LockHeld /\ job \in [Handlers -> Job] /\ pc \in [Handlers -> Steps]
      /\ row \in [Accounts -> Row] /\ exists \subseteq Accounts
  BY DEF IInv, TypeOK
<1>1. ASSUME NEW h \in Handlers, Reads(h)
      PROVE  SeenHolds'
  <2>1. \A k \in Handlers \ {h} : pc'[k] = pc[k] /\ job'[k] = job[k]
    BY <1>1, ReadOthers
  <2>2. exists' = exists /\ row' = row
    BY <1>1, ReadShape
  <2>3. CASE ManageRead(h)
    <3>1. /\ job[h].account \in exists
          /\ job'[h] = [job[h] EXCEPT !.admin = row[job[h].account].admin,
                                      !.active = row[job[h].account].active]
      BY <1>0, <2>3 DEF ManageRead
    <3>2. /\ job'[h].account = job[h].account
          /\ job'[h].admin = row[job[h].account].admin
          /\ job'[h].active = row[job[h].account].active
      BY <1>0, <3>1 DEF Job
    <3>3. QED
      BY <1>0, <2>1, <2>2, <3>1, <3>2 DEF SeenHolds
  <2>4. CASE ManageCount(h)
    <3>1. pc[h] = "guarding" /\ job' = job
      BY <2>4 DEF ManageCount
    <3>2. QED
      BY <1>0, <2>1, <2>2, <3>1 DEF SeenHolds
  <2>5. CASE pc'[h] \notin {"guarding", "counted"}
    BY <1>0, <2>1, <2>2, <2>5 DEF SeenHolds
  <2>6. QED
    BY <1>1, <2>3, <2>4, <2>5, ReadTargets
<1>2. ASSUME NEW h \in Handlers, Writes(h)
      PROVE  SeenHolds'
  <2>1. \A k \in Handlers : \/ pc'[k] = "idle"
                            \/ k # h /\ pc'[k] = pc[k] /\ job'[k] = job[k]
    BY <1>2, WriteOthers
  <2>2. exists' = exists
    BY <1>2, WriteShape
  <2>3. ManageWrite(h) => \A k \in Handlers : pc'[k] \notin {"guarding", "counted"}
    <3>1. ManageWrite(h) => pc[h] = "counted"
      BY DEF ManageWrite
    <3>2. QED
      BY <1>0, <2>1, <3>1 DEF LockHeld
  <2>4. PICK a : a = job[h].account
    OBVIOUS
  <2>5. PICK r \in Row :
          /\ row' = [row EXCEPT ![a] = r]
          /\ \/ ManageWrite(h)
             \/ /\ r.admin = row[a].admin
                /\ \/ r.active = row[a].active /\ r.deleted = row[a].deleted
                   \/ ~r.active /\ r.deleted
    BY <1>2, <2>4, WriteShape
  <2>6. ASSUME NEW k \in Handlers, pc'[k] \in {"guarding", "counted"}
        PROVE  /\ job'[k].account \in exists'
               /\ job'[k].admin = row'[job'[k].account].admin
               /\ \/ job'[k].active = row'[job'[k].account].active
                  \/ row'[job'[k].account].deleted
    <3>1. pc'[k] = pc[k] /\ job'[k] = job[k] /\ ~ManageWrite(h)
      BY <2>1, <2>3, <2>6
    <3>2. PICK b : b = job[k].account
      OBVIOUS
    <3>3. /\ b \in exists /\ job[k].admin = row[b].admin
          /\ job[k].active = row[b].active \/ row[b].deleted
      BY <1>0, <2>6, <3>1, <3>2 DEF SeenHolds
    <3>4. CASE a = b
      <4>1. row'[b] = r
        BY <1>0, <2>5, <3>3, <3>4
      <4>2. QED
        BY <2>2, <2>5, <3>1, <3>2, <3>3, <3>4, <4>1
    <3>5. CASE a # b
      <4>1. row'[b] = row[b]
        BY <1>0, <2>5, <3>3, <3>5
      <4>2. QED
        BY <2>2, <3>1, <3>2, <3>3, <4>1
    <3>6. QED
      BY <3>4, <3>5
  <2>7. QED
    BY <2>6 DEF SeenHolds
<1>3. ASSUME NEW a \in Accounts,
             NEW h \in Handlers, Inserts(h, a)
      PROVE  SeenHolds'
  <2>1. \A k \in Handlers : pc'[k] = "idle" \/ (pc'[k] = pc[k] /\ job'[k] = job[k])
    BY <1>3, InsertOthers
  <2>2. \A b \in exists : b \in exists' /\ row'[b] = row[b]
    BY <1>3, InsertKeeps
  <2>3. QED
    BY <1>0, <2>1, <2>2 DEF SeenHolds
<1>4. CASE UNCHANGED vars
  BY <1>0, <1>4 DEF vars, SeenHolds
<1>5. QED
  BY <1>1, <1>2, <1>3, <1>4, StepKinds

\* Somebody other than the target administers until the lock is given back.
LEMMA NextGuardHolds ==
    ASSUME IInv, [Next]_vars
    PROVE  GuardHolds'
<1>0. GuardHolds /\ LockHeld /\ job \in [Handlers -> Job] /\ pc \in [Handlers -> Steps]
      /\ row \in [Accounts -> Row] /\ exists \subseteq Accounts
  BY DEF IInv, TypeOK
<1>1. ASSUME NEW h \in Handlers, Reads(h)
      PROVE  GuardHolds'
  <2>1. \A k \in Handlers \ {h} : pc'[k] = pc[k] /\ job'[k] = job[k]
    BY <1>1, ReadOthers
  <2>2. exists' = exists /\ row' = row
    BY <1>1, ReadShape
  <2>3. CASE ManageRead(h)
    <3> DEFINE a == job[h].account
    <3>1. /\ job'[h] = [job[h] EXCEPT !.admin = row[a].admin,
                                      !.active = row[a].active]
          /\ pc'[h] = "counted" =>
                ~RemovesAdmin(row[a].admin, row[a].active, job[h].patch)
      BY <1>0, <2>3 DEF ManageRead, Goto
    <3>2. /\ job'[h].patch = job[h].patch /\ job'[h].admin = row[a].admin
          /\ job'[h].active = row[a].active
      BY <1>0, <3>1 DEF Job
    <3>3. pc'[h] = "counted" =>
             ~RemovesAdmin(job'[h].admin, job'[h].active, job'[h].patch)
      BY <3>1, <3>2
    <3>4. QED
      BY <1>0, <2>1, <2>2, <3>3 DEF GuardHolds, Administers, RemovesAdmin
  <2>4. CASE ManageCount(h)
    <3>1. pc[h] = "guarding" /\ job' = job /\ OthersRemain(h)
      BY <2>4 DEF ManageCount
    <3>2. \E b \in Accounts \ {job[h].account} : Administers(b)
      BY <3>1 DEF OthersRemain, ActiveAdmin, Active, Administers
    <3>3. QED
      BY <1>0, <2>1, <2>2, <3>1, <3>2 DEF GuardHolds, Administers, RemovesAdmin
  <2>5. CASE pc'[h] \notin {"guarding", "counted"}
    BY <1>0, <2>1, <2>2, <2>5 DEF GuardHolds, Administers, RemovesAdmin
  <2>6. QED
    BY <1>1, <2>3, <2>4, <2>5, ReadTargets
<1>2. ASSUME NEW h \in Handlers, Writes(h)
      PROVE  GuardHolds'
  <2>1. \A k \in Handlers : \/ pc'[k] = "idle"
                            \/ k # h /\ pc'[k] = pc[k] /\ job'[k] = job[k]
    BY <1>2, WriteOthers
  <2>2. ManageWrite(h) => \A k \in Handlers : pc'[k] # "counted"
    <3>1. ManageWrite(h) => pc[h] = "counted"
      BY DEF ManageWrite
    <3>2. QED
      BY <1>0, <2>1, <3>1 DEF LockHeld
  <2>3. PICK a : a = job[h].account
    OBVIOUS
  <2>4. ~ManageWrite(h) => \A b \in Accounts : Administers(b) => Administers(b)'
    BY <1>2, <2>3, WriteAdministers
  <2>5. ASSUME NEW k \in Handlers, pc'[k] = "counted",
               RemovesAdmin(job'[k].admin, job'[k].active, job'[k].patch)
        PROVE  \E b \in Accounts \ {job'[k].account} : Administers(b)'
    <3>1. pc[k] = "counted" /\ job'[k] = job[k] /\ ~ManageWrite(h)
      BY <2>1, <2>2, <2>5
    <3>2. RemovesAdmin(job[k].admin, job[k].active, job[k].patch)
      BY <2>5, <3>1
    <3>3. PICK b \in Accounts \ {job[k].account} : Administers(b)
      BY <1>0, <3>1, <3>2 DEF GuardHolds
    <3>4. QED
      BY <2>4, <3>1, <3>3
  <2>6. QED
    BY <2>5 DEF GuardHolds, RemovesAdmin
<1>3. ASSUME NEW a \in Accounts,
             NEW h \in Handlers, Inserts(h, a)
      PROVE  GuardHolds'
  <2>1. \A k \in Handlers : pc'[k] = "idle" \/ (pc'[k] = pc[k] /\ job'[k] = job[k])
    BY <1>3, InsertOthers
  <2>2. \A b \in Accounts : Administers(b) => Administers(b)'
    BY <1>3, InsertKeeps DEF Administers
  <2>3. QED
    BY <1>0, <2>1, <2>2 DEF GuardHolds, RemovesAdmin
<1>4. CASE UNCHANGED vars
  BY <1>0, <1>4 DEF vars, GuardHolds, Administers, RemovesAdmin
<1>5. QED
  BY <1>1, <1>2, <1>3, <1>4, StepKinds

\* What calls remember of the accounts they work on stays true.
LEMMA NextOwned ==
    ASSUME IInv, [Next]_vars
    PROVE  UnlinkHolds' /\ Present' /\ LinksName'
<1>0. /\ UnlinkHolds /\ Present /\ LinksName
      /\ row \in [Accounts -> Row] /\ exists \subseteq Accounts
  BY DEF IInv, TypeOK
<1>1. ASSUME NEW h \in Handlers, Reads(h)
      PROVE  UnlinkHolds' /\ Present' /\ LinksName'
  <2>1. \A k \in Handlers \ {h} : pc'[k] = pc[k] /\ job'[k] = job[k]
    BY <1>1, ReadOthers
  <2>2. exists' = exists /\ row' = row
    BY <1>1, ReadShape
  <2>3. pc'[h] = "unlinkable" => row[job'[h].account].password
    <3>1. pc'[h] = "unlinkable" => UnlinkRead(h)
      BY <1>1, ReadTargets
    <3>2. QED
      BY <3>1 DEF UnlinkRead, MayUnlink
  <2>4. UnlinkHolds'
    BY <1>0, <2>1, <2>2, <2>3 DEF UnlinkHolds
  <2>5. Present'
    BY <1>0, <1>1, <2>1, <2>2, ReadTargets DEF Present
  <2>6. LinksName'
    BY <1>0, <1>1, <2>1, ReadTargets DEF LinksName
  <2>7. QED
    BY <2>4, <2>5, <2>6
<1>2. ASSUME NEW h \in Handlers, Writes(h)
      PROVE  UnlinkHolds' /\ Present' /\ LinksName'
  <2>1. \A k \in Handlers : \/ pc'[k] = "idle"
                            \/ k # h /\ pc'[k] = pc[k] /\ job'[k] = job[k]
    BY <1>2, WriteOthers
  <2>2. exists' = exists
    BY <1>2, WriteShape
  <2>3. PICK a : a = job[h].account
    OBVIOUS
  <2>4. PICK r \in Row : row' = [row EXCEPT ![a] = r]
    BY <1>2, <2>3, WriteShape
  <2>5. ASSUME NEW k \in Handlers, pc'[k] = "unlinkable"
        PROVE  row'[job'[k].account].password \/ row'[job'[k].account].deleted
    <3>1. pc[k] = "unlinkable" /\ job'[k] = job[k]
      BY <2>1, <2>5
    <3>2. PICK b : b = job[k].account
      OBVIOUS
    <3>3. b \in exists /\ (row[b].password \/ row[b].deleted)
      BY <1>0, <3>1, <3>2 DEF UnlinkHolds, Present
    <3>4. CASE a = b
      BY <1>2, <2>3, <3>1, <3>2, <3>3, <3>4, WriteKeeps
    <3>5. CASE a # b
      <4>1. row'[b] = row[b]
        BY <1>0, <2>4, <3>3, <3>5
      <4>2. QED
        BY <3>1, <3>2, <3>3, <4>1
    <3>6. QED
      BY <3>4, <3>5
  <2>6. UnlinkHolds'
    BY <2>5 DEF UnlinkHolds
  <2>7. Present' /\ LinksName'
    BY <1>0, <2>1, <2>2 DEF Present, LinksName
  <2>8. QED
    BY <2>6, <2>7
<1>3. ASSUME NEW a \in Accounts,
             NEW h \in Handlers, Inserts(h, a)
      PROVE  UnlinkHolds' /\ Present' /\ LinksName'
  <2>1. \A k \in Handlers : pc'[k] = "idle" \/ (pc'[k] = pc[k] /\ job'[k] = job[k])
    BY <1>3, InsertOthers
  <2>2. \A b \in exists : b \in exists' /\ row'[b] = row[b]
    BY <1>3, InsertKeeps
  <2>3. UnlinkHolds'
    <3>1. ASSUME NEW k \in Handlers, pc'[k] = "unlinkable"
          PROVE  row'[job'[k].account].password \/ row'[job'[k].account].deleted
      <4>1. pc[k] = "unlinkable" /\ job'[k] = job[k]
        BY <2>1, <3>1
      <4>2. job[k].account \in exists
        BY <1>0, <4>1 DEF Present
      <4>3. QED
        BY <1>0, <2>2, <4>1, <4>2 DEF UnlinkHolds
    <3>2. QED
      BY <3>1 DEF UnlinkHolds
  <2>4. Present' /\ LinksName'
    BY <1>0, <2>1, <2>2 DEF Present, LinksName
  <2>5. QED
    BY <2>3, <2>4
<1>4. CASE UNCHANGED vars
  BY <1>0, <1>4 DEF vars, UnlinkHolds, Present, LinksName
<1>5. QED
  BY <1>1, <1>2, <1>3, <1>4, StepKinds

-----------------------------------------------------------------------------
\* The inductive invariant holds always: locks exclude, readings taken under
\* the lock and by an unlinking call stay true.
THEOREM Invariance == Spec => []IInv
<1>1. IInv /\ [Next]_vars => IInv'
  BY NextTypeOK, NextAdminRemains, NextCanSignIn, NextLockHeld, NextSeenHolds,
     NextGuardHolds, NextOwned DEF IInv
<1>2. QED
  BY InitIInv, <1>1, PTL DEF Spec

\* Accounts and calls are always well typed.
THEOREM TypeCorrect == Spec => []TypeOK
<1>1. IInv => TypeOK
  BY DEF IInv
<1>2. QED
  BY Invariance, <1>1, PTL

\* However many role changes, deactivations, deletions and sign-ins run at
\* once, they do not leave the site without an admin, but for one who deleted
\* the own account (updateManagedUser under the advisory lock).
THEOREM AdminAlways == Spec => []AdminRemains
<1>1. IInv => AdminRemains
  BY DEF IInv
<1>2. QED
  BY Invariance, <1>1, PTL

\* Nobody unlinks, links or changes a password to where no way to sign in is
\* left (unlinkGoogleIdentity, which reads the password before it writes).
THEOREM SignInAlways == Spec => []CanSignIn
<1>1. IInv => CanSignIn
  BY DEF IInv
<1>2. QED
  BY Invariance, <1>1, PTL
-----------------------------------------------------------------------------
(* The rules, and that the calls follow them. *)

\* A write that changes no more than the rule for it says.
LEMMA WriteFollows ==
    ASSUME IInv, NEW h \in Handlers, Writes(h)
    PROVE  Rules!Next
<1>1. PICK a \in Accounts : a = job[h].account
  BY WriteShape
<1>2. /\ a \in exists /\ exists' = exists
      /\ row \in [Accounts -> Row] /\ job[h] \in Job
  BY <1>1, WriteKeeps, WriteShape DEF IInv, TypeOK
<1>3. SUFFICES Rules!Change(a)
  BY DEF Rules!Next
<1>4. CASE ManageWrite(h)
  <2>1. PICK admin, active \in BOOLEAN :
           row' = [row EXCEPT ![a] = [row[a] EXCEPT !.admin = admin,
                                                    !.active = active]]
    <3>1. /\ job[h].patch.admin \in Choice /\ job[h].patch.active \in Choice
          /\ row[a].admin \in BOOLEAN /\ row[a].active \in BOOLEAN
      BY <1>2 DEF Job, Patch, Row
    <3>2. /\ Chosen(job[h].patch.admin, row[a].admin) \in BOOLEAN
          /\ Chosen(job[h].patch.active, row[a].active) \in BOOLEAN
      BY <3>1, ChosenType
    <3>3. QED
      BY <1>1, <1>4, <3>2 DEF ManageWrite
  <2>2. Administers(a) => Administers(a)' \/ \E b \in Accounts \ {a} : Administers(b)
    BY <1>1, WriteAdministers
  <2>3. Rules!Manage(a, admin, active)
    BY <1>2, <2>1, <2>2
       DEF Rules!Manage, Rules!Becomes, Rules!Administers, Administers
  <2>4. QED
    BY <2>3 DEF Rules!Change
<1>5. CASE DeleteWrite(h)
  BY <1>1, <1>2, <1>5 DEF DeleteWrite, Rules!Change, Rules!Delete, Rules!Becomes
<1>6. CASE PasswordWrite(h)
  BY <1>1, <1>2, <1>6
     DEF PasswordWrite, Rules!Change, Rules!SetPassword, Rules!Becomes
<1>7. CASE LinkWrite(h) \/ SigninLink(h)
  <2>1. job[h].google \in Googles /\ SetGoogle(h, job[h].google)
    BY <1>7 DEF LinkWrite, SigninLink, IInv, LinksName
  <2>2. Rules!Link(a, job[h].google)
    BY <1>1, <1>2, <2>1 DEF SetGoogle, Rules!Link, Rules!Becomes
  <2>3. QED
    BY <2>1, <2>2 DEF Rules!Change
<1>8. CASE UnlinkWrite(h)
  <2>1. row[a].password \/ row[a].deleted
    BY <1>1, <1>8 DEF UnlinkWrite, IInv, UnlinkHolds
  <2>2. Rules!Unlink(a)
    BY <1>1, <1>2, <1>8, <2>1
       DEF UnlinkWrite, SetGoogle, Rules!Unlink, Rules!Becomes
  <2>3. QED
    BY <2>2 DEF Rules!Change
<1>9. QED
  BY <1>4, <1>5, <1>6, <1>7, <1>8 DEF Writes

\* An account is inserted as the rules want it.
LEMMA InsertFollows ==
    ASSUME IInv, NEW a \in Accounts, NEW h \in Handlers, Inserts(h, a)
    PROVE  Rules!Next
<1>1. PICK r \in Row :
        /\ row' = [row EXCEPT ![a] = r]
        /\ r.active /\ ~r.deleted
        /\ r.password \/ r.google # None
        /\ r.admin => r.password
  <2>1. CASE SigninInsert(h, a)
    <3> DEFINE r == [admin |-> FALSE, active |-> TRUE, deleted |-> FALSE,
                     password |-> FALSE, google |-> job[h].google]
    <3>1. job[h].google \in Googles
      BY <2>1 DEF SigninInsert, IInv, LinksName
    <3>2. /\ r \in Row /\ r.active /\ ~r.deleted /\ ~r.password /\ ~r.admin
          /\ r.google # None
      BY <3>1 DEF Row
    <3>3. row' = [row EXCEPT ![a] = r]
      BY <2>1 DEF SigninInsert
    <3> HIDE DEF r
    <3>4. QED
      BY <3>2, <3>3
  <2>2. CASE CreateInsert(h, a)
    <3> DEFINE r == [admin |-> job[h].patch.admin = "yes", active |-> TRUE,
                     deleted |-> FALSE, password |-> TRUE, google |-> None]
    <3>1. r \in Row /\ r.active /\ ~r.deleted /\ r.password /\ r.google = None
      BY DEF Row
    <3>2. row' = [row EXCEPT ![a] = r]
      BY <2>2 DEF CreateInsert
    <3> HIDE DEF r
    <3>3. QED
      BY <3>1, <3>2
  <2>3. QED
    BY <2>1, <2>2 DEF Inserts
<1>2. a \notin exists /\ exists' = exists \union {a}
  BY InsertShape
<1>3. Rules!Create(a, r)
  BY <1>1, <1>2 DEF Rules!Create
<1>4. r \in Rules!Row
  BY DEF Row, Rules!Row
<1>5. QED
  BY <1>3, <1>4 DEF Rules!Change, Rules!Next

\* Where the calls start, and every step they take.
LEMMA InitFollows == Init => Rules!Init
<1> SUFFICES ASSUME Init
             PROVE  Rules!Init
  OBVIOUS
<1>1. Rules!AdminRemains
  BY DEF Init, Rules!AdminRemains, Rules!Administers, ActiveAdmin, Active
<1>2. Rules!NobodyLockedOut
  BY DEF Init, Rules!NobodyLockedOut, Rules!CanSignIn
<1>3. row \in [Accounts -> Rules!Row]
  BY DEF Init, Row, Rules!Row
<1>4. QED
  BY <1>1, <1>2, <1>3 DEF Init, Rules!Init

LEMMA NextFollows ==
    ASSUME IInv, [Next]_vars
    PROVE  [Rules!Next]_<<exists, row>>
<1>1. ASSUME NEW h \in Handlers, Reads(h)
      PROVE  UNCHANGED <<exists, row>>
  BY <1>1, ReadShape
<1>2. ASSUME NEW h \in Handlers, Writes(h)
      PROVE  Rules!Next
  BY <1>2, WriteFollows
<1>3. ASSUME NEW h \in Handlers, NEW a \in Accounts, Inserts(h, a)
      PROVE  Rules!Next
  BY <1>3, InsertFollows
<1>4. CASE UNCHANGED vars
  BY <1>4 DEF vars
<1>5. QED
  BY <1>1, <1>2, <1>3, <1>4, StepKinds

\* What the rules alone are good for: a step that follows them leaves an
\* administrator and locks nobody out.
RulesInv ==
    /\ exists \subseteq Accounts /\ row \in [Accounts -> Rules!Row]
    /\ Rules!AdminRemains /\ Rules!NobodyLockedOut

LEMMA RulesInit == Rules!Init => RulesInv
BY DEF Rules!Init, RulesInv

\* The one account a change is about.
LEMMA RulesBecome ==
    ASSUME RulesInv, NEW a \in Accounts, NEW r \in Rules!Row,
           Rules!Becomes(a, r)
    PROVE  /\ row' \in [Accounts -> Rules!Row]
           /\ a \in exists /\ exists' = exists
           /\ row'[a] = r
           /\ \A b \in Accounts \ {a} : row'[b] = row[b]
BY DEF RulesInv, Rules!Becomes

LEMMA RulesChange ==
    ASSUME RulesInv, NEW a \in Accounts, Rules!Change(a)
    PROVE  /\ row' \in [Accounts -> Rules!Row]
           /\ exists' = exists \union {a}
           /\ \A b \in Accounts \ {a} : row'[b] = row[b]
           /\ Rules!CanSignIn(a)'
           /\ \/ Rules!Administers(a) => Rules!Administers(a)'
              \/ \E b \in Accounts \ {a} : Rules!Administers(b)
<1>0. /\ row[a] \in Rules!Row
      /\ a \in exists =>
            row[a].deleted \/ row[a].password \/ row[a].google # None
  BY DEF RulesInv, Rules!NobodyLockedOut, Rules!CanSignIn
<1>1. ASSUME NEW admin \in BOOLEAN, NEW active \in BOOLEAN,
             Rules!Manage(a, admin, active)
      PROVE  /\ row' \in [Accounts -> Rules!Row]
             /\ exists' = exists \union {a}
             /\ \A b \in Accounts \ {a} : row'[b] = row[b]
             /\ Rules!CanSignIn(a)'
             /\ \/ Rules!Administers(a) => Rules!Administers(a)'
                \/ \E b \in Accounts \ {a} : Rules!Administers(b)
  <2> DEFINE r == [row[a] EXCEPT !.admin = admin, !.active = active]
  <2>1. /\ r \in Rules!Row /\ r.deleted = row[a].deleted
        /\ r.password = row[a].password /\ r.google = row[a].google
    BY <1>0 DEF Rules!Row
  <2>2. Rules!Becomes(a, r)
    BY <1>1 DEF Rules!Manage
  <2>3. \/ Rules!Administers(a) => Rules!Administers(a)'
        \/ \E b \in Accounts \ {a} : Rules!Administers(b)
    BY <1>1 DEF Rules!Manage
  <2> HIDE DEF r
  <2>4. QED
    BY <1>0, <2>1, <2>2, <2>3, RulesBecome DEF Rules!CanSignIn
<1>2. CASE Rules!Delete(a)
  <2> DEFINE r == [row[a] EXCEPT !.active = FALSE, !.deleted = TRUE,
                                 !.password = FALSE, !.google = None]
  <2>1. r \in Rules!Row /\ r.deleted /\ r.admin = row[a].admin
    BY <1>0 DEF Rules!Row
  <2>2. Rules!Becomes(a, r)
    BY <1>2 DEF Rules!Delete
  <2> HIDE DEF r
  <2>3. QED
    BY <2>1, <2>2, RulesBecome DEF Rules!CanSignIn, Rules!Administers
<1>3. CASE Rules!SetPassword(a)
  <2> DEFINE r == [row[a] EXCEPT !.password = TRUE]
  <2>1. /\ r \in Rules!Row /\ r.password /\ r.admin = row[a].admin
        /\ r.active = row[a].active /\ r.deleted = row[a].deleted
    BY <1>0 DEF Rules!Row
  <2>2. Rules!Becomes(a, r)
    BY <1>3 DEF Rules!SetPassword
  <2> HIDE DEF r
  <2>3. QED
    BY <2>1, <2>2, RulesBecome DEF Rules!CanSignIn, Rules!Administers
<1>4. ASSUME NEW g \in Googles \union {None},
             g # None \/ row[a].password \/ row[a].deleted,
             Rules!Becomes(a, [row[a] EXCEPT !.google = g])
      PROVE  /\ row' \in [Accounts -> Rules!Row]
             /\ exists' = exists \union {a}
             /\ \A b \in Accounts \ {a} : row'[b] = row[b]
             /\ Rules!CanSignIn(a)'
             /\ Rules!Administers(a) => Rules!Administers(a)'
  <2> DEFINE r == [row[a] EXCEPT !.google = g]
  <2>1. /\ r \in Rules!Row /\ r.google = g /\ r.password = row[a].password
        /\ r.admin = row[a].admin /\ r.active = row[a].active
        /\ r.deleted = row[a].deleted
    BY <1>0 DEF Rules!Row
  <2>2. Rules!Becomes(a, r)
    BY <1>4
  <2> HIDE DEF r
  <2>3. QED
    BY <1>4, <2>1, <2>2, RulesBecome DEF Rules!CanSignIn, Rules!Administers
<1>5. CASE \E g \in Googles : Rules!Link(a, g)
  BY <1>4, <1>5 DEF Rules!Link
<1>6. CASE Rules!Unlink(a)
  BY <1>4, <1>6 DEF Rules!Unlink
<1>7. ASSUME NEW r \in Rules!Row, Rules!Create(a, r)
      PROVE  /\ row' \in [Accounts -> Rules!Row]
             /\ exists' = exists \union {a}
             /\ \A b \in Accounts \ {a} : row'[b] = row[b]
             /\ Rules!CanSignIn(a)'
             /\ ~Rules!Administers(a)
  BY <1>7 DEF RulesInv, Rules!Create, Rules!CanSignIn, Rules!Administers
<1>8. QED
  BY <1>1, <1>2, <1>3, <1>5, <1>6, <1>7 DEF Rules!Change

LEMMA RulesNext ==
    ASSUME RulesInv, [Rules!Next]_<<exists, row>>
    PROVE  RulesInv'
<1>0. PICK c \in Accounts : Rules!Administers(c)
  BY DEF RulesInv, Rules!AdminRemains
<1>1. ASSUME NEW a \in Accounts, Rules!Change(a)
      PROVE  RulesInv'
  <2>1. /\ row' \in [Accounts -> Rules!Row]
        /\ exists' = exists \union {a}
        /\ \A b \in Accounts \ {a} : row'[b] = row[b]
        /\ Rules!CanSignIn(a)'
        /\ \/ Rules!Administers(a) => Rules!Administers(a)'
           \/ \E b \in Accounts \ {a} : Rules!Administers(b)
    BY <1>1, RulesChange
  <2>2. ASSUME NEW b \in Accounts \ {a}, Rules!Administers(b)
        PROVE  Rules!Administers(b)'
    BY <2>1, <2>2 DEF Rules!Administers
  <2>3. \E b \in Accounts : Rules!Administers(b)'
    BY <1>0, <2>1, <2>2
  <2>4. ASSUME NEW b \in exists'
        PROVE  Rules!CanSignIn(b)'
    BY <2>1 DEF RulesInv, Rules!NobodyLockedOut, Rules!CanSignIn
  <2>5. QED
    BY <2>1, <2>3, <2>4
       DEF RulesInv, Rules!AdminRemains, Rules!NobodyLockedOut
<1>2. CASE UNCHANGED <<exists, row>>
  BY <1>2 DEF RulesInv, Rules!AdminRemains, Rules!Administers,
              Rules!NobodyLockedOut, Rules!CanSignIn
<1>3. QED
  BY <1>1, <1>2 DEF Rules!Next

\* Whatever follows the rules has an administrator left and locks nobody out,
\* however it is carried out: the two promises rest on the rules alone.
THEOREM RulesSuffice ==
    Rules!Spec => [](Rules!AdminRemains /\ Rules!NobodyLockedOut)
<1>1. RulesInv => Rules!AdminRemains /\ Rules!NobodyLockedOut
  BY DEF RulesInv
<1>2. RulesInv /\ [Rules!Next]_<<exists, row>> => RulesInv'
  BY RulesNext
<1>3. QED
  BY RulesInit, <1>1, <1>2, PTL DEF Rules!Spec

\* The calls of admin-user-service.ts, statement by statement and in any
\* number at a time, follow the rules.
THEOREM Refinement == Spec => FollowsRules
<1>1. IInv /\ [Next]_vars => [Rules!Next]_<<exists, row>>
  BY NextFollows
<1>2. QED
  BY InitFollows, Invariance, <1>1, PTL DEF Spec, FollowsRules, Rules!Spec
=============================================================================
