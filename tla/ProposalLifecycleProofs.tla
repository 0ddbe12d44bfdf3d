---------------------- MODULE ProposalLifecycleProofs ----------------------
(***************************************************************************)
(* TLAPS proofs about ProposalLifecycle, for any number of invocations,    *)
(* rows, entities, contributors and fields, any of which the platform may  *)
(* end between two statements (HandlerDies).                               *)
(***************************************************************************)
EXTENDS ProposalLifecycle, TLAPS

USE NewEntryAssumption, AnonymousAssumption, NoneAssumption, UnsetAssumption,
    MaxAsksAssumption

\* An empty patch, a patch authored at a version and a merge of two patches
\* are patches.
LEMMA PatchTypes ==
    /\ EmptyPatch \in Patch
    /\ \A S \in SUBSET Fields, b \in Nat : Authored(S, b) \in Patch
    /\ \A older, newer \in Patch : Merge(older, newer) \in Patch
BY DEF EmptyPatch, Patch, Authored, Merge

\* The fresh request and the absent row are well typed.
LEMMA BlankTypes == Blank \in Request /\ AbsentRow \in Row
BY PatchTypes
   DEF Blank, Request, AbsentRow, Row, Targets, Owners, Statuses

\* The initial state is well typed.
LEMMA InitTypeOK == Init => TypeOK
BY PatchTypes, BlankTypes
   DEF Init, TypeOK, Targets, Steps

\* Finishing an invocation keeps the types of pc and req.
LEMMA FinishTypes ==
    ASSUME TypeOK, NEW r \in Requests, Finish(r)
    PROVE  /\ pc' \in [Requests -> Steps]
           /\ req' \in [Requests -> Request]
           /\ \A q \in Requests :
                 pc'[q] \notin {"idle", "submit"} => req'[q].p \in Proposals
BY BlankTypes DEF TypeOK, Finish, Steps

\* The step writes the review columns of row p and nothing else.
RowReviewed(p, status, note, reviewed) ==
    /\ rows' \in [Proposals -> Row]
    /\ \A q \in Proposals : q # p => rows'[q] = rows[q]
    /\ rows'[p].status = status
    /\ rows'[p].note = note
    /\ rows'[p].reviewed = reviewed
    /\ rows'[p].target = rows[p].target
    /\ rows'[p].owner = rows[p].owner
    /\ rows'[p].patch = rows[p].patch
    /\ rows'[p].base = rows[p].base

\* Writing the review columns of a row leaves every row a row, and changes
\* nothing but those columns of that row.
LEMMA SetReviewRows ==
    ASSUME rows \in [Proposals -> Row], NEW p \in Proposals,
           NEW status \in Statuses, NEW note \in BOOLEAN,
           NEW reviewed \in BOOLEAN, SetReview(p, status, note, reviewed)
    PROVE  RowReviewed(p, status, note, reviewed)
<1> DEFINE new == [rows[p] EXCEPT !.status = status, !.note = note,
                                  !.reviewed = reviewed]
<1>1. rows[p] \in Row
  OBVIOUS
<1>2. /\ new \in Row
      /\ new.status = status /\ new.note = note /\ new.reviewed = reviewed
      /\ new.target = rows[p].target /\ new.owner = rows[p].owner
      /\ new.patch = rows[p].patch /\ new.base = rows[p].base
  BY <1>1 DEF Row
<1>3. rows' = [rows EXCEPT ![p] = new]
  BY DEF SetReview
<1> HIDE DEF new
<1>4. QED
  BY <1>2, <1>3 DEF RowReviewed

\* A revision (the UPDATE of submitProposal) leaves every row a row, reopens
\* its own with cleared review columns, and touches no other.
LEMMA ReviseRows ==
    ASSUME TypeOK, NEW r \in Requests, SubmitRevise(r)
    PROVE  LET p == req[r].p IN
           /\ p \in Proposals
           /\ rows' \in [Proposals -> Row]
           /\ \A q \in Proposals : q # p => rows'[q] = rows[q]
           /\ rows'[p].status = "pending"
           /\ rows'[p].note = FALSE
           /\ rows'[p].reviewed = FALSE
           /\ rows'[p].owner = rows[p].owner
<1> DEFINE p == req[r].p
           new == [rows[p] EXCEPT !.patch = req[r].patch, !.base = req[r].base,
                                  !.status = "pending", !.note = FALSE,
                                  !.reviewed = FALSE]
<1>1. req[r] \in Request /\ p \in Proposals
  BY DEF SubmitRevise, TypeOK, Request
<1>2. rows[p] \in Row
  BY <1>1 DEF TypeOK
<1>3. /\ new \in Row
      /\ new.status = "pending" /\ new.note = FALSE /\ new.reviewed = FALSE
      /\ new.owner = rows[p].owner
  BY <1>1, <1>2 DEF Row, Request, Statuses, Open
<1>4. rows' = [rows EXCEPT ![p] = new]
  BY DEF SubmitRevise
<1>5. rows \in [Proposals -> Row]
  BY DEF TypeOK
<1> HIDE DEF new
<1>6. QED
  BY <1>1, <1>3, <1>4, <1>5

\* An insertion (the INSERT of submitProposal) fills one absent row and touches
\* no other.
LEMMA InsertRows ==
    ASSUME TypeOK, NEW r \in Requests, SubmitInsert(r)
    PROVE  \E p \in Proposals :
             /\ rows[p].status = "absent"
             /\ rows' \in [Proposals -> Row]
             /\ \A q \in Proposals : q # p => rows'[q] = rows[q]
             /\ rows'[p].status = "pending"
             /\ rows'[p].note = FALSE
             /\ rows'[p].reviewed = FALSE
<1>1. PICK p \in Proposals :
        /\ rows[p].status = "absent"
        /\ rows' = [rows EXCEPT ![p] =
                      [AbsentRow EXCEPT !.status = "pending",
                                        !.target = req[r].target,
                                        !.owner = req[r].owner,
                                        !.patch = req[r].patch,
                                        !.base = req[r].base]]
  BY DEF SubmitInsert
<1> DEFINE new == [AbsentRow EXCEPT !.status = "pending",
                                    !.target = req[r].target,
                                    !.owner = req[r].owner,
                                    !.patch = req[r].patch,
                                    !.base = req[r].base]
<1>2. req[r] \in Request
  BY DEF TypeOK
<1>3. /\ new \in Row
      /\ new.status = "pending" /\ new.note = FALSE /\ new.reviewed = FALSE
  BY <1>2, BlankTypes DEF Row, Request, AbsentRow, Statuses, Open
<1>4. rows' = [rows EXCEPT ![p] = new]
  BY <1>1
<1>5. rows \in [Proposals -> Row] /\ rows[p].status = "absent"
  BY <1>1 DEF TypeOK
<1> HIDE DEF new
<1>6. QED
  BY <1>3, <1>4, <1>5

\* Moving a running approval on keeps the types of pc.
LEMMA GotoTypes ==
    ASSUME TypeOK, NEW r \in Requests, NEW step \in Steps,
           pc[r] \notin {"idle", "submit"}, Goto(r, step),
           \A q \in Requests : req'[q].p = req[q].p
    PROVE  /\ pc' \in [Requests -> Steps]
           /\ \A q \in Requests :
                 pc'[q] \notin {"idle", "submit"} => req'[q].p \in Proposals
BY DEF TypeOK, Goto

\* A step of any invocation, or a call, or a death keeps the types.
LEMMA NextTypeOK ==
    ASSUME TypeOK, [Next]_vars
    PROVE  TypeOK'
<1> USE DEF entityVars, ledgerVars
<1>1. CASE UNCHANGED vars
  BY <1>1 DEF vars, TypeOK
<1>2. ASSUME NEW r \in Requests, NEW u \in Owners, NEW t \in Targets,
             NEW S \in SUBSET Fields, NEW named \in Proposals \union {None},
             NEW b \in 0..version[t], SubmitRead(r, u, t, b, S, named)
      PROVE  TypeOK'
  <2>1. b \in Nat
    BY DEF TypeOK
  <2>2. PICK p \in (IF RevisedRows(u, t, named) = {}
                    THEN {None} ELSE RevisedRows(u, t, named)) :
          req' = [req EXCEPT ![r] =
                    [Blank EXCEPT !.p = p, !.target = t, !.owner = u,
                                  !.base = b,
                                  !.patch = IF p = None
                                            THEN Authored(S, b)
                                            ELSE Merge(rows[p].patch,
                                                       Authored(S, b))]]
    BY <1>2 DEF SubmitRead
  <2>3. p \in Proposals \union {None}
    BY <2>2 DEF RevisedRows
  <2>4. (IF p = None THEN Authored(S, b)
                     ELSE Merge(rows[p].patch, Authored(S, b))) \in Patch
    <3>1. CASE p = None
      BY <3>1, <2>1, PatchTypes
    <3>2. CASE p # None
      <4>1. rows[p].patch \in Patch
        BY <3>2, <2>3 DEF TypeOK, Row
      <4>2. QED
        BY <3>2, <4>1, <2>1, PatchTypes
    <3>3. QED
      BY <3>1, <3>2
  <2>5. req' \in [Requests -> Request]
    BY <2>1, <2>2, <2>3, <2>4, BlankTypes DEF TypeOK, Request, Blank, Statuses
  <2>6. QED
    BY <1>2, <2>5 DEF SubmitRead, Asked, Goto, TypeOK, Steps
<1>3. ASSUME NEW r \in Requests, NEW p \in Proposals,
             NEW step \in {"approve", "reject", "changes", "withdraw"},
             ReviewRead(r, p, step)
      PROVE  TypeOK'
  <2>1. rows[p].status \in Statuses /\ rows[p].note \in BOOLEAN
    BY DEF TypeOK, Row
  <2>2. req' \in [Requests -> Request]
    BY <1>3, <2>1, BlankTypes DEF ReviewRead, TypeOK, Request, Blank
  <2>3. QED
    BY <1>3, <2>2 DEF ReviewRead, Asked, Goto, TypeOK, Steps
<1>4. ASSUME NEW e \in Entities, NEW S \in SUBSET Fields, EditorPublish(e, S)
      PROVE  TypeOK'
  <2>1. e \in Targets /\ version[e] + 1 \in Nat
    BY DEF TypeOK, Targets
  <2>2. QED
    BY <1>4, <2>1 DEF EditorPublish, Asked, TypeOK
<1>5. ASSUME NEW r \in Requests, Continue(r)
      PROVE  TypeOK'
  <2>0. req[r] \in Request
    BY DEF TypeOK
  <2>1. CASE SubmitRevise(r)
    BY <2>1, FinishTypes, ReviseRows DEF SubmitRevise, TypeOK
  <2>2. CASE SubmitInsert(r)
    BY <2>2, FinishTypes, InsertRows DEF SubmitInsert, TypeOK
  <2>3. CASE ApproveClaim(r)
    <3>1. req[r].p \in Proposals
      BY <2>3 DEF ApproveClaim, TypeOK
    <3>2. rows' \in [Proposals -> Row]
      BY <2>3, <3>1, SetReviewRows
         DEF ApproveClaim, RowReviewed, TypeOK, Statuses, Decided
    <3>3. rows[req[r].p] \in Row
      BY <3>1 DEF TypeOK
    <3>4. /\ req' \in [Requests -> Request]
          /\ \A q \in Requests : req'[q].p = req[q].p
      BY <2>3, <2>0, <3>3 DEF ApproveClaim, TypeOK, Request, Row
    <3>5. orphans' \subseteq Proposals
      BY <2>3 DEF ApproveClaim, TypeOK
    <3>6. QED
      BY <2>3, <3>2, <3>4, <3>5, GotoTypes DEF ApproveClaim, TypeOK, Steps
  <2>4. CASE ApproveLost(r)
    BY <2>4, FinishTypes DEF ApproveLost, TypeOK
  <2>5. CASE ApproveApply(r)
    <3> DEFINE v == version[req[r].target] + 1
               x == [p |-> req[r].p, target |-> req[r].target, version |-> v,
                     patch |-> req[r].patch, base |-> req[r].base]
    <3>1. v \in Nat /\ req[r].p \in Proposals
      BY <2>5, <2>0 DEF ApproveApply, TypeOK, Request
    <3>2. x \in Publication
      BY <2>0, <3>1 DEF Publication, Request
    <3>3. published' \subseteq Publication
      BY <2>5, <3>2 DEF ApproveApply, TypeOK
    <3>4. version' \in [Targets -> Nat]
      BY <2>5, <3>1 DEF ApproveApply, TypeOK
    <3>5. content' \in [Entities -> [Fields -> Nat]]
      BY <2>5, <3>1 DEF ApproveApply, TypeOK
    <3>6. /\ req' \in [Requests -> Request]
          /\ \A q \in Requests : req'[q].p = req[q].p
      BY <2>5, <2>0, <3>1 DEF ApproveApply, TypeOK, Request
    <3>7. QED
      BY <2>5, <3>3, <3>4, <3>5, <3>6, GotoTypes
         DEF ApproveApply, TypeOK, Steps
  <2>6. CASE ApproveConflict(r)
    BY <2>6, GotoTypes DEF ApproveConflict, TypeOK, Steps
  <2>7. CASE ApproveLog(r)
    <3>1. history' \in [Targets -> SUBSET Nat]
      BY <2>7, <2>0 DEF ApproveLog, TypeOK, Request
    <3>2. QED
      BY <2>7, <3>1, GotoTypes DEF ApproveLog, TypeOK, Steps
  <2>8. CASE ApproveSync(r)
    <3>1. keyAt' \in [Targets -> Nat]
      BY <2>8, <2>0 DEF ApproveSync, TypeOK, Request
    <3>2. QED
      BY <2>8, <3>1, GotoTypes DEF ApproveSync, TypeOK, Steps
  <2>9. CASE ApproveCredit(r)
    <3>1. req[r].p \in Proposals
      BY <2>9 DEF ApproveCredit, TypeOK
    <3>2. [p |-> req[r].p, target |-> req[r].target,
           version |-> req[r].version] \in Credit
      BY <2>0, <3>1 DEF Request, Credit
    <3>3. credits' \subseteq Credit
      BY <2>9, <3>2 DEF ApproveCredit, TypeOK
    <3>4. QED
      BY <2>9, <3>3, FinishTypes DEF ApproveCredit, TypeOK
  <2>10. CASE ApproveFail(r)
    BY <2>10, GotoTypes DEF ApproveFail, TypeOK, Steps
  <2>11. CASE ApproveRollback(r)
    <3>1. req[r].p \in Proposals
      BY <2>11 DEF ApproveRollback, TypeOK
    <3>2. /\ rows \in [Proposals -> Row]
          /\ req[r].status \in Statuses
          /\ req[r].note \in BOOLEAN
          /\ FALSE \in BOOLEAN
      BY <2>0 DEF TypeOK, Request
    <3>3. SetReview(req[r].p, req[r].status, req[r].note, FALSE)
      BY <2>11 DEF ApproveRollback
    <3>4. rows' \in [Proposals -> Row]
      BY <3>1, <3>2, <3>3, SetReviewRows, Zenon DEF RowReviewed
    <3>5. QED
      BY <2>11, <3>4, FinishTypes DEF ApproveRollback, TypeOK
  <2>12. CASE RejectWrite(r)
    <3>1. req[r].p \in Proposals
      BY <2>12 DEF RejectWrite, TypeOK
    <3>2. PICK noted \in BOOLEAN : SetReview(req[r].p, "rejected", noted, TRUE)
      BY <2>12 DEF RejectWrite
    <3>3. /\ rows \in [Proposals -> Row]
          /\ "rejected" \in Statuses
          /\ TRUE \in BOOLEAN
      BY DEF TypeOK, Statuses, Decided
    <3>4. rows' \in [Proposals -> Row]
      BY <3>1, <3>2, <3>3, SetReviewRows, Zenon DEF RowReviewed
    <3>5. QED
      BY <2>12, <3>4, FinishTypes DEF RejectWrite, TypeOK
  <2>13. CASE ChangesWrite(r)
    BY <2>13, FinishTypes, SetReviewRows
       DEF ChangesWrite, RowReviewed, TypeOK, Statuses, Open
  <2>14. CASE WithdrawWrite(r)
    BY <2>14, FinishTypes, SetReviewRows
       DEF WithdrawWrite, RowReviewed, TypeOK, Statuses, Decided
  <2>15. QED
    BY <1>5, <2>1, <2>2, <2>3, <2>4, <2>5, <2>6, <2>7, <2>8, <2>9, <2>10,
       <2>11, <2>12, <2>13, <2>14 DEF Continue
<1>6. ASSUME NEW r \in Requests, HandlerDies(r)
      PROVE  TypeOK'
  <2>1. orphans' \subseteq Proposals
    BY <1>6 DEF HandlerDies, Claimed, TypeOK
  <2>2. QED
    BY <1>6, <2>1, FinishTypes DEF HandlerDies, TypeOK
<1>7. QED
  BY <1>1, <1>2, <1>3, <1>4, <1>5, <1>6
     DEF Next, Ask, ApproveRead, RejectRead, ChangesRead,
         WithdrawRead

\* Every variable keeps its type in every behaviour, invocations dying
\* included.
THEOREM TypeCorrect == Spec => []TypeOK
<1>1. TypeOK /\ [Next]_vars => TypeOK'
  BY NextTypeOK
<1>2. QED
  BY InitTypeOK, <1>1, PTL DEF Spec

-----------------------------------------------------------------------------
(* What a step can do to the tables. *)

\* The status, note and reviewer of one row agree.
FieldsAgree(status, note, reviewed) ==
    /\ status = "pending" => ~note /\ ~reviewed
    /\ status = "needs_changes" => note
    /\ status \in {"approved", "withdrawn"} => ~note
    /\ status \in Decided => reviewed

\* Invocation r writes the review columns of the row it works on.
ReviewWrite(r) ==
    /\ req[r].p \in Proposals
    /\ \E status \in Statuses \ {"absent"}, note, reviewed \in BOOLEAN :
          /\ FieldsAgree(status, note, reviewed)
          /\ SetReview(req[r].p, status, note, reviewed)

\* Each of the five review writes stores columns that agree: the fixed ones by
\* their constants, the rollback because it restores what an open row held.
LEMMA ReviewWrites ==
    ASSUME IInv, NEW r \in Requests,
           \/ ApproveClaim(r) \/ ApproveRollback(r) \/ RejectWrite(r)
           \/ ChangesWrite(r) \/ WithdrawWrite(r)
    PROVE  ReviewWrite(r) \/ UNCHANGED rows
<1>0. req[r] \in Request /\ req[r].p \in Proposals
  BY DEF IInv, TypeOK, ApproveClaim, ApproveRollback, RejectWrite,
         ChangesWrite, WithdrawWrite
<1>s. {"approved", "rejected", "withdrawn", "pending", "needs_changes"}
        \subseteq Statuses \ {"absent"}
  BY DEF Statuses, Open, Decided
<1>1. CASE ApproveClaim(r)
  <2>1. SetReview(req[r].p, "approved", FALSE, TRUE)
    BY <1>1 DEF ApproveClaim
  <2>2. FieldsAgree("approved", FALSE, TRUE)
    BY DEF FieldsAgree, Decided
  <2>3. QED
    BY <1>0, <1>s, <2>1, <2>2, Zenon DEF ReviewWrite
<1>2. CASE ApproveRollback(r)
  <2>1. SetReview(req[r].p, req[r].status, req[r].note, FALSE)
    BY <1>2 DEF ApproveRollback
  <2>2. /\ req[r].status \in Open
        /\ req[r].status = "pending" => ~req[r].note
        /\ req[r].status = "needs_changes" => req[r].note
    BY <1>2
       DEF ApproveRollback, IInv, RequestsConsistent, RequestConsistent
  <2>3. FieldsAgree(req[r].status, req[r].note, FALSE)
    BY <2>2 DEF FieldsAgree, Open, Decided
  <2>4. req[r].status \in Statuses \ {"absent"} /\ req[r].note \in BOOLEAN
    BY <1>0, <2>2 DEF Request, Open, Statuses
  <2>5. QED
    BY <1>0, <2>1, <2>3, <2>4, Zenon DEF ReviewWrite
<1>3. CASE RejectWrite(r)
  <2>1. PICK noted \in BOOLEAN : SetReview(req[r].p, "rejected", noted, TRUE)
    BY <1>3 DEF RejectWrite
  <2>2. FieldsAgree("rejected", noted, TRUE)
    BY DEF FieldsAgree, Decided
  <2>3. QED
    BY <1>0, <1>s, <2>1, <2>2, Zenon DEF ReviewWrite
<1>4. CASE ChangesWrite(r)
  <2>1. SetReview(req[r].p, "needs_changes", TRUE, TRUE)
    BY <1>4 DEF ChangesWrite
  <2>2. FieldsAgree("needs_changes", TRUE, TRUE)
    BY DEF FieldsAgree, Decided
  <2>3. QED
    BY <1>0, <1>s, <2>1, <2>2, Zenon DEF ReviewWrite
<1>5. CASE WithdrawWrite(r)
  <2>1. SetReview(req[r].p, "withdrawn", FALSE, TRUE) \/ UNCHANGED rows
    BY <1>5 DEF WithdrawWrite
  <2>2. FieldsAgree("withdrawn", FALSE, TRUE)
    BY DEF FieldsAgree, Decided
  <2>3. QED
    BY <1>0, <1>s, <2>1, <2>2, Zenon DEF ReviewWrite
<1>6. QED
  BY <1>1, <1>2, <1>3, <1>4, <1>5

\* Calls and direct edits leave the proposals table alone.
LEMMA AskLeavesRows == Ask => UNCHANGED rows
<1>1. \A r \in Requests, p \in Proposals, step \in Steps :
        ReviewRead(r, p, step) => UNCHANGED rows
  BY DEF ReviewRead
<1>2. \A e \in Entities, S \in SUBSET Fields :
        EditorPublish(e, S) => UNCHANGED rows
  BY DEF EditorPublish
<1>3. \A r, u, t, b, S, named :
        SubmitRead(r, u, t, b, S, named) => UNCHANGED rows
  BY DEF SubmitRead
<1>4. QED
  BY <1>1, <1>2, <1>3
     DEF Ask, ApproveRead, RejectRead, ChangesRead, WithdrawRead, Steps

\* The proposals table changes in three ways only.
LEMMA RowsChange ==
    ASSUME IInv, [Next]_vars
    PROVE  \/ UNCHANGED rows
           \/ \E r \in Requests : \/ SubmitRevise(r)
                                  \/ SubmitInsert(r)
                                  \/ ReviewWrite(r)
<1>1. CASE UNCHANGED vars
  BY <1>1 DEF vars
<1>2. ASSUME NEW r \in Requests, HandlerDies(r)
      PROVE  UNCHANGED rows
  BY <1>2 DEF HandlerDies
<1>3. ASSUME NEW r \in Requests, Continue(r)
      PROVE  \/ UNCHANGED rows
             \/ SubmitRevise(r) \/ SubmitInsert(r) \/ ReviewWrite(r)
  BY <1>3, ReviewWrites
     DEF Continue, ApproveLost, ApproveApply, ApproveConflict, ApproveLog,
         ApproveSync, ApproveCredit, ApproveFail
<1>4. QED
  BY <1>1, <1>2, <1>3, AskLeavesRows DEF Next

\* A row never vanishes and never changes hands.
LEMMA RowsPersist ==
    ASSUME IInv, [Next]_vars, NEW p \in Proposals,
           rows[p].status # "absent"
    PROVE  rows'[p].status # "absent" /\ rows'[p].owner = rows[p].owner
<1>0. TypeOK
  BY DEF IInv
<1>1. CASE UNCHANGED rows
  BY <1>1
<1>2. ASSUME NEW r \in Requests, SubmitRevise(r)
      PROVE  rows'[p].status # "absent" /\ rows'[p].owner = rows[p].owner
  BY <1>0, <1>2, ReviseRows
<1>3. ASSUME NEW r \in Requests, SubmitInsert(r)
      PROVE  rows'[p].status # "absent" /\ rows'[p].owner = rows[p].owner
  BY <1>0, <1>3, InsertRows
<1>4. ASSUME NEW r \in Requests, ReviewWrite(r)
      PROVE  rows'[p].status # "absent" /\ rows'[p].owner = rows[p].owner
  <2>1. PICK status \in Statuses \ {"absent"}, note, reviewed \in BOOLEAN :
               SetReview(req[r].p, status, note, reviewed)
    BY <1>4 DEF ReviewWrite
  <2>2. req[r].p \in Proposals /\ rows \in [Proposals -> Row]
    BY <1>0, <1>4 DEF ReviewWrite, TypeOK
  <2>3. RowReviewed(req[r].p, status, note, reviewed)
    BY <2>1, <2>2, SetReviewRows, Zenon
  <2>4. QED
    BY <2>3, Zenon DEF RowReviewed
<1>5. QED
  BY <1>1, <1>2, <1>3, <1>4, RowsChange

\* The review columns keep agreeing with the status.
LEMMA NextReviewFields ==
    ASSUME IInv, [Next]_vars
    PROVE  ReviewFieldsConsistent'
<1>0. TypeOK /\ ReviewFieldsConsistent
  BY DEF IInv
<1>1. SUFFICES ASSUME NEW p \in Proposals
               PROVE  FieldsAgree(rows'[p].status, rows'[p].note,
                                  rows'[p].reviewed)
  BY DEF ReviewFieldsConsistent, FieldsAgree
<1>2. FieldsAgree(rows[p].status, rows[p].note, rows[p].reviewed)
  BY <1>0 DEF ReviewFieldsConsistent, FieldsAgree
<1>3. CASE UNCHANGED rows
  BY <1>2, <1>3
<1>4. FieldsAgree("pending", FALSE, FALSE)
  BY DEF FieldsAgree, Decided
<1>5. ASSUME NEW r \in Requests, SubmitRevise(r)
      PROVE  FieldsAgree(rows'[p].status, rows'[p].note, rows'[p].reviewed)
  BY <1>0, <1>2, <1>4, <1>5, ReviseRows
<1>6. ASSUME NEW r \in Requests, SubmitInsert(r)
      PROVE  FieldsAgree(rows'[p].status, rows'[p].note, rows'[p].reviewed)
  BY <1>0, <1>2, <1>4, <1>6, InsertRows
<1>7. ASSUME NEW r \in Requests, ReviewWrite(r)
      PROVE  FieldsAgree(rows'[p].status, rows'[p].note, rows'[p].reviewed)
  <2>1. PICK status \in Statuses \ {"absent"}, note, reviewed \in BOOLEAN :
               /\ FieldsAgree(status, note, reviewed)
               /\ SetReview(req[r].p, status, note, reviewed)
    BY <1>7 DEF ReviewWrite
  <2>2. req[r].p \in Proposals /\ rows \in [Proposals -> Row]
    BY <1>0, <1>7 DEF ReviewWrite, TypeOK
  <2>s. SetReview(req[r].p, status, note, reviewed)
    BY <2>1
  <2>3. status \in Statuses
    OBVIOUS
  <2>4. RowReviewed(req[r].p, status, note, reviewed)
    BY <2>2, <2>3, <2>s, SetReviewRows, Zenon
  <2>5. CASE p = req[r].p
    BY <2>1, <2>4, <2>5, Zenon DEF RowReviewed
  <2>6. CASE p # req[r].p
    <3>1. rows'[p] = rows[p]
      BY <2>4, <2>6, Zenon DEF RowReviewed
    <3>2. QED
      BY <1>2, <3>1, Zenon
  <2>7. QED
    BY <2>5, <2>6
<1>8. QED
  BY <1>3, <1>5, <1>6, <1>7, RowsChange
-----------------------------------------------------------------------------
(* Publications. *)

\* Only an approval's write to the entity adds a publication; an editor's
\* direct edit moves one entity's version up.
LEMMA PublishedChange ==
    ASSUME [Next]_vars
    PROVE  \/ UNCHANGED <<version, published>>
           \/ /\ UNCHANGED published
              /\ \E e \in Entities :
                    version' = [version EXCEPT ![e] = version[e] + 1]
           \/ \E r \in Requests : ApproveApply(r)
<1> USE DEF entityVars, ledgerVars
<1>1. CASE UNCHANGED vars
  BY <1>1 DEF vars
<1>2. ASSUME NEW r \in Requests, Continue(r), ~ApproveApply(r)
      PROVE  UNCHANGED <<version, published>>
  BY <1>2
     DEF Continue, SubmitRevise, SubmitInsert, ApproveClaim, ApproveLost,
         ApproveConflict, ApproveLog, ApproveSync, ApproveCredit, ApproveFail,
         ApproveRollback, RejectWrite, ChangesWrite, WithdrawWrite
<1>3. ASSUME NEW r \in Requests, HandlerDies(r)
      PROVE  UNCHANGED <<version, published>>
  BY <1>3 DEF HandlerDies
<1>4. ASSUME Ask
      PROVE  \/ UNCHANGED <<version, published>>
             \/ /\ UNCHANGED published
                /\ \E e \in Entities :
                      version' = [version EXCEPT ![e] = version[e] + 1]
  <2>1. \A r \in Requests, p \in Proposals, step \in Steps :
          ReviewRead(r, p, step) => UNCHANGED <<version, published>>
    BY DEF ReviewRead
  <2>2. \A e \in Entities, S \in SUBSET Fields : EditorPublish(e, S) =>
          /\ UNCHANGED published
          /\ version' = [version EXCEPT ![e] = version[e] + 1]
    BY DEF EditorPublish
  <2>3. \A r, u, t, b, S, named : SubmitRead(r, u, t, b, S, named) =>
          UNCHANGED <<version, published>>
    BY DEF SubmitRead
  <2>4. QED
    BY <1>4, <2>1, <2>2, <2>3
       DEF Ask, ApproveRead, RejectRead, ChangesRead, WithdrawRead, Steps
<1>5. QED
  BY <1>1, <1>2, <1>3, <1>4 DEF Next

\* What an approval has published stays on record.
LEMMA PublishedGrows ==
    ASSUME [Next]_vars
    PROVE  published \subseteq published'
BY PublishedChange DEF ApproveApply

\* Publications stay numbered by the version they produced: a new one takes
\* the successor of its target's version, which no older one can have.
LEMMA NextPublicationsNumbered ==
    ASSUME IInv, [Next]_vars
    PROVE  PublicationsNumbered'
<1>0. /\ PublicationsNumbered
      /\ published \subseteq Publication
      /\ version \in [Targets -> Nat]
      /\ req \in [Requests -> Request]
  BY DEF IInv, TypeOK
<1>1. CASE UNCHANGED <<version, published>>
  BY <1>0, <1>1 DEF PublicationsNumbered
<1>2. ASSUME UNCHANGED published,
             NEW e \in Entities,
             version' = [version EXCEPT ![e] = version[e] + 1]
      PROVE  PublicationsNumbered'
  BY <1>0, <1>2 DEF PublicationsNumbered, Publication, Targets
<1>3. ASSUME NEW r \in Requests, ApproveApply(r)
      PROVE  PublicationsNumbered'
  <2> DEFINE q == req[r]
             v == version[q.target] + 1
             new == [p |-> q.p, target |-> q.target, version |-> v,
                     patch |-> q.patch, base |-> q.base]
  <2>1. q.target \in Targets /\ version[q.target] \in Nat /\ v \in Nat
    BY <1>0 DEF Request
  <2>2. /\ published' = published \union {new}
        /\ version' = [version EXCEPT ![q.target] = v]
        /\ q.target \in Entities => v = q.base + 1
    BY <1>3 DEF ApproveApply, CanApply
  <2>3. /\ new.target = q.target
        /\ new.version = v
        /\ new.base = q.base
    OBVIOUS
  <2>4. \A x \in published : /\ x.target \in Targets
                             /\ x.version \in Nat
                             /\ x.version <= version[x.target]
    BY <1>0 DEF PublicationsNumbered, Publication
  <2>5. \A x \in published : x.target = q.target => x.version # v
    BY <2>1, <2>4
  <2>6. \A t \in Targets : version[t] \in Nat /\ version[t] <= version'[t]
    BY <1>0, <2>1, <2>2
  <2>7. version'[q.target] = v
    BY <1>0, <2>1, <2>2
  <2> HIDE DEF new, v, q
  <2>8. \A x \in published' :
          /\ x.version <= version'[x.target]
          /\ x.target \in Entities => x.version = x.base + 1
    <3>1. \A x \in published :
            /\ x.version <= version'[x.target]
            /\ x.target \in Entities => x.version = x.base + 1
      <4>1. SUFFICES ASSUME NEW x \in published
                     PROVE  x.version <= version'[x.target]
        BY <1>0 DEF PublicationsNumbered
      <4>2. version'[x.target] \in Nat
        BY <1>0, <2>1, <2>2, <2>4
      <4>3. QED
        BY <2>4, <2>6, <4>2
    <3>2. QED
      BY <2>1, <2>2, <2>3, <2>7, <3>1
  <2>9. \A x, y \in published' :
          x.target = y.target /\ x.version = y.version => x = y
    BY <1>0, <2>2, <2>3, <2>5 DEF PublicationsNumbered
  <2>10. QED
    BY <2>8, <2>9 DEF PublicationsNumbered
<1>4. QED
  BY <1>1, <1>2, <1>3, PublishedChange
-----------------------------------------------------------------------------
(* Invocations. *)

\* The steps after which an invocation still remembers something that a later
\* statement of an approval, a review or a withdrawal depends on.
Remembers(r) ==
    \/ \E p \in Proposals, step \in {"approve", "reject", "changes", "withdraw"} :
          ReviewRead(r, p, step)
    \/ ApproveClaim(r)
    \/ ApproveApply(r)
    \/ ApproveConflict(r)
    \/ ApproveLog(r)
    \/ ApproveSync(r)
    \/ ApproveFail(r)

\* In a step an invocation stands still, ends, has read for a submission, or
\* takes one of the steps of Remembers: handlers share no memory.
LEMMA RequestMoves ==
    ASSUME TypeOK, [Next]_vars, NEW s \in Requests
    PROVE  \/ pc'[s] = pc[s] /\ req'[s] = req[s]
           \/ pc'[s] \in {"idle", "submit"}
           \/ Remembers(s)
<1>0. pc \in [Requests -> Steps] /\ req \in [Requests -> Request]
  BY DEF TypeOK
<1>1. CASE UNCHANGED vars
  BY <1>1 DEF vars
<1>2. ASSUME NEW r \in Requests, NEW u, NEW t, NEW b, NEW S, NEW named,
             SubmitRead(r, u, t, b, S, named)
      PROVE  \/ pc'[s] = pc[s] /\ req'[s] = req[s]
             \/ pc'[s] \in {"idle", "submit"}
  <2>1. pc' = [pc EXCEPT ![r] = "submit"]
    BY <1>2 DEF SubmitRead, Goto
  <2>2. s # r => req'[s] = req[s]
    BY <1>0, <1>2 DEF SubmitRead
  <2>3. QED
    BY <1>0, <2>1, <2>2
<1>3. ASSUME NEW r \in Requests, NEW p \in Proposals,
             NEW step \in {"approve", "reject", "changes", "withdraw"},
             ReviewRead(r, p, step)
      PROVE  (pc'[s] = pc[s] /\ req'[s] = req[s]) \/ Remembers(s)
  <2>1. CASE r = s
    BY <1>3, <2>1 DEF Remembers
  <2>2. CASE r # s
    BY <1>0, <1>3, <2>2 DEF ReviewRead, Goto
  <2>3. QED
    BY <2>1, <2>2
<1>4. ASSUME NEW r \in Requests, Continue(r)
      PROVE  \/ pc'[s] = pc[s] /\ req'[s] = req[s]
             \/ pc'[s] \in {"idle", "submit"}
             \/ Remembers(s)
  <2>1. CASE r = s /\ ~Remembers(s)
    <3>1. Finish(s)
      BY <1>4, <2>1
         DEF Continue, Remembers, SubmitRevise, SubmitInsert, ApproveLost,
             ApproveCredit, ApproveRollback, RejectWrite, ChangesWrite,
             WithdrawWrite
    <3>2. QED
      BY <1>0, <3>1 DEF Finish
  <2>2. CASE r # s
    BY <1>0, <1>4, <2>2
       DEF Continue, Finish, Goto, SubmitRevise, SubmitInsert, ApproveClaim,
           ApproveLost, ApproveApply, ApproveConflict, ApproveLog,
           ApproveSync, ApproveCredit, ApproveFail, ApproveRollback,
           RejectWrite, ChangesWrite, WithdrawWrite
  <2>3. QED
    BY <2>1, <2>2
<1>5. ASSUME NEW r \in Requests, HandlerDies(r)
      PROVE  (pc'[s] = pc[s] /\ req'[s] = req[s]) \/ pc'[s] = "idle"
  BY <1>0, <1>5 DEF HandlerDies, Finish
<1>6. ASSUME NEW e, NEW S, EditorPublish(e, S)
      PROVE  pc'[s] = pc[s] /\ req'[s] = req[s]
  BY <1>6 DEF EditorPublish
<1>7. QED
  BY <1>1, <1>2, <1>3, <1>4, <1>5, <1>6
     DEF Next, Ask, ApproveRead, RejectRead, ChangesRead,
         WithdrawRead

\* What an invocation remembers keeps agreeing with the tables, whatever the
\* others write between its statements.
LEMMA NextRequestsConsistent ==
    ASSUME IInv, [Next]_vars
    PROVE  RequestsConsistent'
<1>0. /\ TypeOK
      /\ pc \in [Requests -> Steps]
      /\ req \in [Requests -> Request]
      /\ \A s \in Requests : RequestConsistent(s)
      /\ \A s \in Requests :
            pc[s] \notin {"idle", "submit"} => req[s].p \in Proposals
      /\ published \subseteq published'
      /\ \A p \in Proposals : rows[p].status # "absent" =>
            rows'[p].status # "absent" /\ rows'[p].owner = rows[p].owner
  BY PublishedGrows, RowsPersist DEF IInv, TypeOK, RequestsConsistent
<1> SUFFICES ASSUME NEW s \in Requests
             PROVE  RequestConsistent(s)'
  BY DEF RequestsConsistent
<1>1. CASE pc'[s] = pc[s] /\ req'[s] = req[s]
  BY <1>0, <1>1 DEF RequestConsistent
<1>2. CASE pc'[s] \in {"idle", "submit"}
  BY <1>2 DEF RequestConsistent
<1>3. ASSUME NEW p \in Proposals,
             NEW step \in {"approve", "reject", "changes", "withdraw"},
             ReviewRead(s, p, step)
      PROVE  RequestConsistent(s)'
  <2>1. /\ pc'[s] = step
        /\ req'[s] = [Blank EXCEPT !.p = p, !.status = rows[p].status,
                                   !.note = rows[p].note]
    BY <1>0, <1>3 DEF ReviewRead, Goto
  <2>2. /\ req'[s].p = p
        /\ req'[s].status = rows[p].status
        /\ req'[s].note = rows[p].note
    BY <2>1, BlankTypes DEF Request, Blank
  <2>3. rows[p].status \in Open /\ rows[p].status # "absent"
    BY <1>3 DEF ReviewRead, IsOpen, Open
  <2>4. /\ rows[p].status = "pending" => ~rows[p].note
        /\ rows[p].status = "needs_changes" => rows[p].note
    BY DEF IInv, ReviewFieldsConsistent
  <2>5. rows'[p].status # "absent"
    BY <1>0, <2>3
  <2>6. QED
    BY <2>1, <2>2, <2>3, <2>4, <2>5 DEF RequestConsistent
<1>4. CASE ApproveClaim(s)
  <2> DEFINE p == req[s].p
  <2>1. /\ pc[s] = "approve"
        /\ pc'[s] = "claimed"
        /\ req'[s] = [req[s] EXCEPT !.target = rows[p].target,
                                    !.owner = rows[p].owner,
                                    !.patch = rows[p].patch,
                                    !.base = rows[p].base]
    BY <1>0, <1>4 DEF ApproveClaim, Goto
  <2>2. /\ req'[s].p = p
        /\ req'[s].status = req[s].status
        /\ req'[s].note = req[s].note
        /\ req'[s].owner = rows[p].owner
    BY <1>0, <2>1 DEF Request
  <2>3. p \in Proposals /\ rows[p].status # "absent"
    BY <1>0, <2>1 DEF RequestConsistent
  <2>4. rows'[p].status # "absent" /\ rows'[p].owner = rows[p].owner
    BY <1>0, <2>3
  <2>5. /\ req[s].status \in Open
        /\ req[s].status = "pending" => ~req[s].note
        /\ req[s].status = "needs_changes" => req[s].note
    BY <1>0, <2>1 DEF RequestConsistent
  <2>6. QED
    BY <2>1, <2>2, <2>4, <2>5 DEF RequestConsistent
<1>5. CASE ApproveApply(s)
  <2> DEFINE q == req[s]
             v == version[q.target] + 1
             new == [p |-> q.p, target |-> q.target, version |-> v,
                     patch |-> q.patch, base |-> q.base]
  <2>1. /\ pc[s] = "claimed"
        /\ pc'[s] = "applied"
        /\ req'[s] = [q EXCEPT !.version = v]
        /\ new \in published'
    BY <1>0, <1>5 DEF ApproveApply, Goto
  <2>2. /\ req'[s].p = q.p
        /\ req'[s].status = q.status
        /\ req'[s].note = q.note
        /\ req'[s].owner = q.owner
        /\ req'[s].target = q.target
        /\ req'[s].patch = q.patch
        /\ req'[s].base = q.base
        /\ req'[s].version = v
    BY <1>0, <2>1 DEF Request
  <2>3. /\ q.p \in Proposals
        /\ rows[q.p].status # "absent"
        /\ q.owner = rows[q.p].owner
        /\ q.status \in Open
        /\ q.status = "pending" => ~q.note
        /\ q.status = "needs_changes" => q.note
    BY <1>0, <2>1 DEF RequestConsistent
  <2>4. rows'[q.p].status # "absent" /\ rows'[q.p].owner = rows[q.p].owner
    BY <1>0, <2>3
  <2>5. QED
    BY <2>1, <2>2, <2>3, <2>4 DEF RequestConsistent
<1>6. CASE \/ ApproveConflict(s) \/ ApproveLog(s)
           \/ ApproveSync(s) \/ ApproveFail(s)
  <2>1. /\ req'[s] = req[s]
        /\ pc[s] \in {"claimed", "applied", "logged", "synced"}
        /\ \/ pc'[s] = "failed"
           \/ pc[s] \in {"applied", "logged"} /\ pc'[s] \in {"logged", "synced"}
    BY <1>0, <1>6
       DEF ApproveConflict, ApproveLog, ApproveSync, ApproveFail, Goto
  <2>2. QED
    BY <1>0, <2>1 DEF RequestConsistent
<1>7. QED
  BY <1>0, <1>1, <1>2, <1>3, <1>4, <1>5, <1>6, RequestMoves DEF Remembers
-----------------------------------------------------------------------------
(* The ledger, and the invariant. *)

\* Only the last statement of an approval adds a credit.
LEMMA CreditsChange ==
    ASSUME [Next]_vars
    PROVE  UNCHANGED credits \/ \E r \in Requests : ApproveCredit(r)
<1> USE DEF entityVars, ledgerVars
<1>1. CASE UNCHANGED vars
  BY <1>1 DEF vars
<1>2. ASSUME NEW r \in Requests, Continue(r), ~ApproveCredit(r)
      PROVE  UNCHANGED credits
  BY <1>2
     DEF Continue, SubmitRevise, SubmitInsert, ApproveClaim, ApproveLost,
         ApproveApply, ApproveConflict, ApproveLog, ApproveSync, ApproveFail,
         ApproveRollback, RejectWrite, ChangesWrite, WithdrawWrite
<1>3. ASSUME NEW r \in Requests, HandlerDies(r)
      PROVE  UNCHANGED credits
  BY <1>3 DEF HandlerDies
<1>4. ASSUME Ask
      PROVE  UNCHANGED credits
  <2>1. \A r \in Requests, p \in Proposals, step \in Steps :
          ReviewRead(r, p, step) => UNCHANGED credits
    BY DEF ReviewRead
  <2>2. \A e \in Entities, S \in SUBSET Fields :
          EditorPublish(e, S) => UNCHANGED credits
    BY DEF EditorPublish
  <2>3. \A r, u, t, b, S, named :
          SubmitRead(r, u, t, b, S, named) => UNCHANGED credits
    BY DEF SubmitRead
  <2>4. QED
    BY <1>4, <2>1, <2>2, <2>3
       DEF Ask, ApproveRead, RejectRead, ChangesRead, WithdrawRead, Steps
<1>5. QED
  BY <1>1, <1>2, <1>3, <1>4 DEF Next

\* A credit names a row that exists, owned by a user, and a publication of it:
\* a new one because the approval that writes it remembers its publication,
\* an old one because rows and publications persist.
LEMMA NextCreditsBacked ==
    ASSUME IInv, [Next]_vars
    PROVE  CreditedRowsExist' /\ CreditsBacked'
<1>0. /\ CreditedRowsExist /\ CreditsBacked
      /\ credits \subseteq Credit
      /\ req \in [Requests -> Request]
      /\ published \subseteq published'
      /\ \A p \in Proposals : rows[p].status # "absent" =>
            rows'[p].status # "absent" /\ rows'[p].owner = rows[p].owner
  BY PublishedGrows, RowsPersist DEF IInv, TypeOK
<1>1. \A c \in credits :
        /\ rows'[c.p].status # "absent"
        /\ rows'[c.p].owner \in Users
        /\ \E x \in published' : /\ x.p = c.p
                                 /\ x.target = c.target
                                 /\ x.version = c.version
  BY <1>0 DEF CreditedRowsExist, CreditsBacked, Credit
<1>2. CASE UNCHANGED credits
  BY <1>1, <1>2 DEF CreditedRowsExist, CreditsBacked
<1>3. ASSUME NEW r \in Requests, ApproveCredit(r)
      PROVE  CreditedRowsExist' /\ CreditsBacked'
  <2> DEFINE q == req[r]
             new == [p |-> q.p, target |-> q.target, version |-> q.version]
             x == [p |-> q.p, target |-> q.target, version |-> q.version,
                   patch |-> q.patch, base |-> q.base]
  <2>1. /\ q.p \in Proposals
        /\ rows[q.p].status # "absent"
        /\ q.owner = rows[q.p].owner
        /\ x \in published
    BY <1>3
       DEF ApproveCredit, IInv, TypeOK, RequestsConsistent, RequestConsistent
  <2>2. /\ rows'[q.p].status # "absent"
        /\ rows'[q.p].owner = q.owner
        /\ x \in published'
    BY <1>0, <2>1
  <2>3. CASE q.owner \in Users
    <3>1. credits' = credits \union {new}
      BY <1>3, <2>3 DEF ApproveCredit
    <3>2. /\ rows'[new.p].status # "absent"
          /\ rows'[new.p].owner \in Users
          /\ \E y \in published' : /\ y.p = new.p
                                   /\ y.target = new.target
                                   /\ y.version = new.version
      BY <2>2, <2>3
    <3> HIDE DEF new, x, q
    <3>3. QED
      BY <1>1, <3>1, <3>2 DEF CreditedRowsExist, CreditsBacked
  <2>4. CASE q.owner \notin Users
    <3>1. UNCHANGED credits
      BY <1>3, <2>4 DEF ApproveCredit
    <3>2. QED
      BY <1>1, <3>1 DEF CreditedRowsExist, CreditsBacked
  <2>5. QED
    BY <2>3, <2>4
<1>4. QED
  BY <1>2, <1>3, CreditsChange

\* The empty tables satisfy the invariant.
LEMMA InitIInv == Init => IInv
<1> SUFFICES ASSUME Init
             PROVE  IInv
  OBVIOUS
<1>1. TypeOK
  BY InitTypeOK
<1>2. RequestsConsistent
  BY DEF Init, RequestsConsistent, RequestConsistent
<1>3. PublicationsNumbered /\ CreditedRowsExist /\ CreditsBacked
  BY DEF Init, PublicationsNumbered, CreditedRowsExist, CreditsBacked
<1>4. ReviewFieldsConsistent
  BY DEF Init, ReviewFieldsConsistent, AbsentRow, Decided
<1>5. QED
  BY <1>1, <1>2, <1>3, <1>4 DEF IInv

\* IInv is inductive: no statement of any handler, and no death of one between
\* two statements, breaks it.
LEMMA NextIInv ==
    ASSUME IInv, [Next]_vars
    PROVE  IInv'
<1>1. TypeOK'
  BY NextTypeOK DEF IInv
<1>2. QED
  BY <1>1, NextRequestsConsistent, NextPublicationsNumbered,
     NextReviewFields, NextCreditsBacked DEF IInv

\* The inductive invariant holds in every behaviour, invocations dying
\* included.
THEOREM Invariance == Spec => []IInv
<1>1. IInv /\ [Next]_vars => IInv'
  BY NextIInv
<1>2. QED
  BY InitIInv, <1>1, PTL DEF Spec

\* Publications numbered by the version they produced are exclusive: two with
\* one base have one number, hence are one.
LEMMA NumberedImpliesExclusive ==
    PublicationsNumbered => CompetingSuggestionsExclusive
BY DEF PublicationsNumbered, CompetingSuggestionsExclusive

\* Of the suggestions made against one version of an entity the approvals
\* publish at most one, whoever reviews at the same time and wherever an
\* approval is cut off.
THEOREM Exclusive == Spec => []CompetingSuggestionsExclusive
<1>1. IInv => CompetingSuggestionsExclusive
  BY NumberedImpliesExclusive DEF IInv
<1>2. QED
  BY Invariance, <1>1, PTL

\* Status, note and reviewer of every row agree at all times, although five
\* handlers write them without a common lock.
THEOREM ReviewFields == Spec => []ReviewFieldsConsistent
<1>1. IInv => ReviewFieldsConsistent
  BY DEF IInv
<1>2. QED
  BY Invariance, <1>1, PTL

\* The contributions ledger credits only signed-in contributors, for patches
\* that went live.
THEOREM CreditsAreBacked == Spec => []CreditsBacked
<1>1. IInv => CreditsBacked
  BY DEF IInv
<1>2. QED
  BY Invariance, <1>1, PTL
-----------------------------------------------------------------------------
(* Approved rows.                                                           *)

\* Row p, as it stands, is in the hands of an approval or has been published.
Covered(p) ==
    \/ \E r \in Requests : /\ Approving(r, p)
                           /\ req[r].patch = rows[p].patch
                           /\ req[r].base = rows[p].base
    \/ \E x \in published : /\ x.p = p
                            /\ x.patch = rows[p].patch
                            /\ x.base = rows[p].base

\* An approval that holds a claimed row either goes on holding the same patch,
\* or ends with that patch published, or its catch block reopens the row, or
\* the platform ends it and the row is an orphan.
LEMMA ApprovalMoves ==
    ASSUME IInv, [Next]_vars, NEW r \in Requests, NEW p \in Proposals,
           Approving(r, p)
    PROVE  \/ /\ Approving(r, p)'
              /\ req'[r].patch = req[r].patch
              /\ req'[r].base = req[r].base
           \/ \E x \in published : /\ x.p = p
                                   /\ x.patch = req[r].patch
                                   /\ x.base = req[r].base
           \/ rows'[p].status # "approved"
           \/ p \in orphans'
<1>0. /\ TypeOK
      /\ pc \in [Requests -> Steps]
      /\ req[r] \in Request
      /\ pc[r] \in {"claimed", "applied", "logged", "synced", "failed"}
      /\ req[r].p = p
      /\ rows \in [Proposals -> Row]
  BY DEF IInv, TypeOK, Approving, Claimed
<1>1. CASE pc'[r] = pc[r] /\ req'[r] = req[r]
  BY <1>0, <1>1 DEF Approving, Claimed
<1>2. CASE ApproveApply(r)
  <2>1. /\ pc'[r] = "applied"
        /\ req'[r] = [req[r] EXCEPT !.version = version[req[r].target] + 1]
    BY <1>0, <1>2 DEF ApproveApply, Goto, TypeOK
  <2>2. /\ req'[r].p = p
        /\ req'[r].patch = req[r].patch
        /\ req'[r].base = req[r].base
    BY <1>0, <2>1 DEF Request
  <2>3. QED
    BY <2>1, <2>2 DEF Approving, Claimed
<1>3. CASE \/ ApproveConflict(r) \/ ApproveLog(r)
           \/ ApproveSync(r) \/ ApproveFail(r)
  BY <1>0, <1>3
     DEF ApproveConflict, ApproveLog, ApproveSync, ApproveFail, Goto,
         Approving, Claimed
<1>4. CASE ApproveCredit(r)
  <2>1. [p |-> req[r].p, target |-> req[r].target, version |-> req[r].version,
         patch |-> req[r].patch, base |-> req[r].base] \in published
    BY <1>4 DEF ApproveCredit, IInv, RequestsConsistent, RequestConsistent
  <2>2. QED
    BY <1>0, <2>1
<1>5. CASE ApproveRollback(r)
  <2>1. SetReview(p, req[r].status, req[r].note, FALSE)
    BY <1>0, <1>5 DEF ApproveRollback
  <2>2. /\ req[r].status \in Statuses
        /\ req[r].note \in BOOLEAN
        /\ FALSE \in BOOLEAN
    BY <1>0 DEF Request
  <2>3. req[r].status # "approved"
    BY <1>5
       DEF ApproveRollback, IInv, RequestsConsistent, RequestConsistent, Open
  <2>4. RowReviewed(p, req[r].status, req[r].note, FALSE)
    BY <1>0, <2>1, <2>2, SetReviewRows, Zenon
  <2>5. QED
    BY <2>3, <2>4, Zenon DEF RowReviewed
<1>6. QED
  <2>1. CASE UNCHANGED vars
    BY <1>1, <2>1 DEF vars
  <2>2. ASSUME NEW s \in Requests, NEW u, NEW t, NEW b, NEW S, NEW named,
               SubmitRead(s, u, t, b, S, named)
        PROVE  pc'[r] = pc[r] /\ req'[r] = req[r]
    BY <1>0, <2>2 DEF SubmitRead, Goto, TypeOK
  <2>3. ASSUME NEW s \in Requests, NEW q, NEW step, ReviewRead(s, q, step)
        PROVE  pc'[r] = pc[r] /\ req'[r] = req[r]
    BY <1>0, <2>3 DEF ReviewRead, Goto, TypeOK
  <2>4. ASSUME NEW e, NEW S, EditorPublish(e, S)
        PROVE  pc'[r] = pc[r] /\ req'[r] = req[r]
    BY <2>4 DEF EditorPublish
  <2>5. ASSUME NEW s \in Requests, Continue(s), s # r
        PROVE  pc'[r] = pc[r] /\ req'[r] = req[r]
    BY <1>0, <2>5
       DEF Continue, Finish, Goto, SubmitRevise, SubmitInsert, ApproveClaim,
           ApproveLost, ApproveApply, ApproveConflict, ApproveLog,
           ApproveSync, ApproveCredit, ApproveFail, ApproveRollback,
           RejectWrite, ChangesWrite, WithdrawWrite, TypeOK
  <2>6. ASSUME Continue(r)
        PROVE  \/ ApproveApply(r) \/ ApproveConflict(r) \/ ApproveLog(r)
               \/ ApproveSync(r) \/ ApproveFail(r) \/ ApproveCredit(r)
               \/ ApproveRollback(r)
    BY <1>0, <2>6
       DEF Continue, SubmitRevise, SubmitInsert, ApproveClaim, ApproveLost,
           RejectWrite, ChangesWrite, WithdrawWrite
  <2>7. ASSUME NEW s \in Requests, HandlerDies(s), s # r
        PROVE  pc'[r] = pc[r] /\ req'[r] = req[r]
    BY <1>0, <2>7 DEF HandlerDies, Finish
  <2>8. ASSUME HandlerDies(r)
        PROVE  p \in orphans'
    BY <1>0, <2>8 DEF HandlerDies, Claimed
  <2>9. QED
    BY <1>1, <1>2, <1>3, <1>4, <1>5, <2>1, <2>2, <2>3, <2>4, <2>5, <2>6,
       <2>7, <2>8
       DEF Next, Ask, ApproveRead, RejectRead, ChangesRead, WithdrawRead

\* A row that reads "approved" after a step read the same before it, with the
\* same patch and base, unless the step is the claim that approved it: a
\* revision always makes its row pending.
LEMMA ApprovedRowChange ==
    ASSUME IInv, [Next]_vars, NEW p \in Proposals,
           rows'[p].status = "approved"
    PROVE  \/ /\ rows[p].status = "approved"
              /\ rows'[p].patch = rows[p].patch
              /\ rows'[p].base = rows[p].base
           \/ \E r \in Requests : ApproveClaim(r) /\ req[r].p = p
<1>0. TypeOK /\ rows \in [Proposals -> Row]
  BY DEF IInv, TypeOK
<1>1. CASE UNCHANGED rows
  BY <1>1
<1>2. ASSUME NEW r \in Requests, SubmitRevise(r)
      PROVE  rows'[p] = rows[p]
  BY <1>0, <1>2, ReviseRows
<1>3. ASSUME NEW r \in Requests, SubmitInsert(r)
      PROVE  rows'[p] = rows[p]
  BY <1>0, <1>3, InsertRows
<1>4. ASSUME NEW r \in Requests, ApproveClaim(r), req[r].p # p
      PROVE  rows'[p] = rows[p]
  BY <1>0, <1>4 DEF ApproveClaim, SetReview
<1>5. ASSUME NEW r \in Requests,
             \/ ApproveRollback(r) \/ RejectWrite(r)
             \/ ChangesWrite(r) \/ WithdrawWrite(r)
      PROVE  rows'[p] = rows[p]
  <2>1. /\ req[r].p \in Proposals
        /\ \/ UNCHANGED rows
           \/ \E status \in Statuses \ {"approved"}, note, reviewed \in BOOLEAN :
                 SetReview(req[r].p, status, note, reviewed)
    <3>1. CASE ApproveRollback(r)
      <4>1. SetReview(req[r].p, req[r].status, req[r].note, FALSE)
        BY <3>1 DEF ApproveRollback
      <4>2. req[r].p \in Proposals /\ req[r].note \in BOOLEAN
        BY <3>1 DEF ApproveRollback, IInv, TypeOK, Request
      <4>3. req[r].status \in Statuses \ {"approved"}
        BY <3>1 DEF ApproveRollback, IInv, RequestsConsistent,
                    RequestConsistent, Open, Statuses
      <4>4. QED
        BY <4>1, <4>2, <4>3, Zenon
    <3>2. CASE RejectWrite(r) \/ ChangesWrite(r) \/ WithdrawWrite(r)
      <4>1. req[r].p \in Proposals
        BY <1>0, <3>2 DEF RejectWrite, ChangesWrite, WithdrawWrite, TypeOK
      <4>2. \/ UNCHANGED rows
            \/ \E noted \in BOOLEAN : SetReview(req[r].p, "rejected", noted, TRUE)
            \/ SetReview(req[r].p, "needs_changes", TRUE, TRUE)
            \/ SetReview(req[r].p, "withdrawn", FALSE, TRUE)
        BY <3>2 DEF RejectWrite, ChangesWrite, WithdrawWrite
      <4>3. {"rejected", "needs_changes", "withdrawn"}
              \subseteq Statuses \ {"approved"}
        BY DEF Statuses, Open, Decided
      <4>4. QED
        BY <4>1, <4>2, <4>3, Zenon
    <3>3. QED
      BY <1>5, <3>1, <3>2
  <2>2. CASE UNCHANGED rows
    BY <2>2
  <2>3. ASSUME NEW status \in Statuses \ {"approved"},
               NEW note \in BOOLEAN, NEW reviewed \in BOOLEAN,
               SetReview(req[r].p, status, note, reviewed)
        PROVE  rows'[p] = rows[p]
    <3>1. RowReviewed(req[r].p, status, note, reviewed)
      BY <1>0, <2>1, <2>3, SetReviewRows, Zenon
    <3>2. req[r].p # p
      BY <3>1, Zenon DEF RowReviewed
    <3>3. QED
      BY <3>1, <3>2, Zenon DEF RowReviewed
  <2>4. QED
    BY <2>1, <2>2, <2>3
<1>6. UNCHANGED rows \/ \E r \in Requests : Continue(r)
  BY AskLeavesRows DEF Next, HandlerDies, vars
<1>7. QED
  BY <1>1, <1>2, <1>3, <1>4, <1>5, <1>6
     DEF Continue, ApproveLost, ApproveApply, ApproveConflict, ApproveLog,
         ApproveSync, ApproveCredit, ApproveFail

\* A row stops being an orphan only when an approval claims it again.
LEMMA OrphansClaimed ==
    ASSUME [Next]_vars, NEW p \in orphans, p \notin orphans'
    PROVE  \E r \in Requests : ApproveClaim(r) /\ req[r].p = p
<1> USE DEF ledgerVars
<1>1. ~UNCHANGED vars /\ Next
  BY DEF vars
<1>2. ASSUME NEW r \in Requests, Continue(r), ~ApproveClaim(r)
      PROVE  FALSE
  BY <1>2
     DEF Continue, SubmitRevise, SubmitInsert, ApproveLost, ApproveApply,
         ApproveConflict, ApproveLog, ApproveSync, ApproveCredit, ApproveFail,
         ApproveRollback, RejectWrite, ChangesWrite, WithdrawWrite
<1>3. ASSUME NEW r \in Requests, HandlerDies(r)
      PROVE  FALSE
  BY <1>3 DEF HandlerDies
<1>4. ASSUME Ask
      PROVE  FALSE
  <2>1. \A r \in Requests, q \in Proposals, step \in Steps :
          ReviewRead(r, q, step) => UNCHANGED orphans
    BY DEF ReviewRead
  <2>2. \A e \in Entities, S \in SUBSET Fields :
          EditorPublish(e, S) => UNCHANGED orphans
    BY DEF EditorPublish
  <2>3. \A r, u, t, b, S, named :
          SubmitRead(r, u, t, b, S, named) => UNCHANGED orphans
    BY DEF SubmitRead
  <2>4. QED
    BY <1>4, <2>1, <2>2, <2>3
       DEF Ask, ApproveRead, RejectRead, ChangesRead, WithdrawRead, Steps
<1>5. ASSUME NEW r \in Requests, ApproveClaim(r)
      PROVE  req[r].p = p
  BY <1>5 DEF ApproveClaim
<1>6. QED
  BY <1>1, <1>2, <1>3, <1>4, <1>5 DEF Next

\* Every approved row stays covered.
LEMMA NextApproved ==
    ASSUME IInv, ApprovedMeansPublished, [Next]_vars
    PROVE  ApprovedMeansPublished'
<1>0. /\ TypeOK
      /\ pc \in [Requests -> Steps]
      /\ req \in [Requests -> Request]
      /\ \A p \in Proposals \ orphans :
            rows[p].status = "approved" => Covered(p)
      /\ published \subseteq published'
  BY PublishedGrows DEF IInv, TypeOK, ApprovedMeansPublished, Covered
<1> SUFFICES ASSUME NEW p \in Proposals, p \notin orphans',
                    rows'[p].status = "approved"
             PROVE  Covered(p)'
  BY DEF ApprovedMeansPublished, Covered
<1>1. ASSUME p \notin orphans,
             rows[p].status = "approved",
             rows'[p].patch = rows[p].patch,
             rows'[p].base = rows[p].base
      PROVE  Covered(p)'
  <2>1. ASSUME NEW r \in Requests, Approving(r, p),
               req[r].patch = rows[p].patch, req[r].base = rows[p].base
        PROVE  Covered(p)'
    BY <1>0, <1>1, <2>1, ApprovalMoves DEF Covered
  <2>2. ASSUME NEW x \in published, x.p = p,
               x.patch = rows[p].patch, x.base = rows[p].base
        PROVE  Covered(p)'
    BY <1>0, <1>1, <2>2 DEF Covered
  <2>3. QED
    BY <1>0, <1>1, <2>1, <2>2 DEF Covered
<1>2. ASSUME NEW r \in Requests, ApproveClaim(r), req[r].p = p
      PROVE  Covered(p)'
  <2>1. /\ pc'[r] = "claimed"
        /\ req'[r] = [req[r] EXCEPT !.target = rows[p].target,
                                    !.owner = rows[p].owner,
                                    !.patch = rows[p].patch,
                                    !.base = rows[p].base]
    BY <1>0, <1>2 DEF ApproveClaim, Goto
  <2>2. /\ req'[r].p = p
        /\ req'[r].patch = rows[p].patch
        /\ req'[r].base = rows[p].base
    BY <1>0, <1>2, <2>1 DEF Request
  <2>3. RowReviewed(p, "approved", FALSE, TRUE)
    BY <1>0, <1>2, SetReviewRows DEF ApproveClaim, TypeOK, Statuses, Decided
  <2>4. rows'[p].patch = rows[p].patch /\ rows'[p].base = rows[p].base
    BY <2>3 DEF RowReviewed
  <2>5. QED
    BY <2>1, <2>2, <2>4 DEF Covered, Approving, Claimed
<1>3. QED
  BY <1>1, <1>2, ApprovedRowChange, OrphansClaimed

\* A row that reads "approved" has had exactly its patch published, or the
\* approval that claimed exactly this patch is still running and will publish
\* it or reopen the row, unless the platform ended that approval.
THEOREM ApprovedPublished == Spec => []ApprovedMeansPublished
<1>1. Init => ApprovedMeansPublished
  BY DEF Init, ApprovedMeansPublished, AbsentRow
<1>2. IInv /\ ApprovedMeansPublished /\ [Next]_vars => ApprovedMeansPublished'
  BY NextApproved
<1>3. QED
  BY <1>1, <1>2, Invariance, PTL DEF Spec

-----------------------------------------------------------------------------
(* The handlers implement Publishing. *)

\* What the abstraction sees of the rows and of the running approvals.
StateSeen == [p \in Proposals |-> StateOf(p)]
WorkSeen == [p \in Proposals |-> WorkOf(rows[p])]
HandSeen == [r \in Requests |-> InHand(r)]

Seen == <<StateSeen, WorkSeen, HandSeen, version, content, published, credits>>

\* A statement that writes one row changes the abstract state of that row.
LEMMA StateChange ==
    ASSUME NEW p \in Proposals, NEW s,
           \A q \in Proposals : q # p => rows'[q] = rows[q],
           StateOf(p)' = s
    PROVE  StateSeen' = [StateSeen EXCEPT ![p] = s]
BY DEF StateSeen, StateOf, IsOpen

\* A statement that leaves alone what the rows suggest.
LEMMA WorkKept ==
    ASSUME \A q \in Proposals : WorkOf(rows[q])' = WorkOf(rows[q])
    PROVE  WorkSeen' = WorkSeen
BY DEF WorkSeen

\* Writing the review columns is, to the abstraction, a new state of the row.
LEMMA ReviewSeen ==
    ASSUME TypeOK, NEW p \in Proposals, NEW status \in Statuses,
           NEW note \in BOOLEAN, NEW reviewed \in BOOLEAN,
           SetReview(p, status, note, reviewed)
    PROVE  /\ WorkSeen' = WorkSeen
           /\ status \in Open =>
                 StateSeen' = [StateSeen EXCEPT ![p] = "open"]
           /\ status = "approved" =>
                 StateSeen' = [StateSeen EXCEPT ![p] = "approved"]
           /\ status \in {"rejected", "withdrawn"} =>
                 StateSeen' = [StateSeen EXCEPT ![p] = "closed"]
<1>1. RowReviewed(p, status, note, reviewed)
  BY SetReviewRows DEF TypeOK
<1>2. \A q \in Proposals : WorkOf(rows[q])' = WorkOf(rows[q])
  BY <1>1 DEF RowReviewed, WorkOf
<1>3. /\ status \in Open => StateOf(p)' = "open"
      /\ status = "approved" => StateOf(p)' = "approved"
      /\ status \in {"rejected", "withdrawn"} => StateOf(p)' = "closed"
  BY <1>1 DEF RowReviewed, StateOf, IsOpen, Open
<1>4. \A q \in Proposals : q # p => rows'[q] = rows[q]
  BY <1>1 DEF RowReviewed
<1>5. QED
  BY <1>2, <1>3, <1>4, StateChange, WorkKept

\* A handler with no claim in hand, before and after its statement, changes
\* nothing of what is in hand.
LEMMA HandKept ==
    ASSUME NEW r \in Requests, pc[r] # "claimed", pc'[r] # "claimed",
           \A q \in Requests : q # r => pc'[q] = pc[q] /\ req'[q] = req[q]
    PROVE  HandSeen' = HandSeen
BY DEF HandSeen, InHand

\* A handler's statement changes only what it has in hand itself.
LEMMA HandChange ==
    ASSUME NEW r \in Requests, NEW h, InHand(r)' = h,
           \A q \in Requests : q # r => pc'[q] = pc[q] /\ req'[q] = req[q]
    PROVE  HandSeen' = [HandSeen EXCEPT ![r] = h]
BY DEF HandSeen, InHand

\* A handler that returns holds nothing and leaves the others alone.
LEMMA FinishMoves ==
    ASSUME TypeOK, NEW r \in Requests, Finish(r)
    PROVE  /\ pc'[r] = "idle"
           /\ \A q \in Requests : q # r => pc'[q] = pc[q] /\ req'[q] = req[q]
BY DEF TypeOK, Finish

\* A statement that moves an approval on leaves the others alone.
LEMMA GotoMoves ==
    ASSUME TypeOK, NEW r \in Requests, NEW step, Goto(r, step),
           \A q \in Requests : q # r => req'[q] = req[q]
    PROVE  /\ pc'[r] = step
           /\ \A q \in Requests : q # r => pc'[q] = pc[q] /\ req'[q] = req[q]
BY DEF TypeOK, Goto

\* The fields a request's patch sets, on the version it produces, are what
\* the abstract publication shows.
LEMMA ApplyShows ==
    ASSUME TypeOK, NEW r \in Requests, ApproveApply(r)
    PROVE  LET q == req[r] IN
           PB!Shows(q.target, version[q.target] + 1,
                    {f \in Fields : q.patch[f] # Unset})
<1>1. content \in [Entities -> [Fields -> Nat]]
  BY DEF TypeOK
<1> DEFINE t == req[r].target
           d == req[r].patch
           v == version[t] + 1
<1>2. /\ version' = [version EXCEPT ![t] = v]
      /\ content' = [e \in Entities |->
                       IF e = t
                       THEN [f \in Fields |-> IF d[f] = Unset
                                              THEN content[e][f] ELSE v]
                       ELSE content[e]]
  BY DEF ApproveApply
<1> HIDE DEF t, d, v
<1> DEFINE F == {f \in Fields : d[f] # Unset}
<1>3. ASSUME NEW e \in Entities
      PROVE  content'[e] = [f \in Fields |->
                              IF e = t /\ f \in F THEN v ELSE content[e][f]]
  <2>1. CASE e = t
    BY <1>1, <1>2, <2>1
  <2>2. CASE e # t
    <3>1. content'[e] = content[e]
      BY <1>2, <2>2
    <3>2. content[e] = [f \in Fields |-> content[e][f]]
      BY <1>1
    <3>3. QED
      BY <2>2, <3>1, <3>2
  <2>3. QED
    BY <2>1, <2>2
<1>4. content' = [e \in Entities |-> [f \in Fields |->
                     IF e = t /\ f \in F THEN v ELSE content[e][f]]]
  <2>1. content' = [e \in Entities |-> content'[e]]
    BY <1>2
  <2>2. QED
    BY <1>3, <2>1
<1>5. PB!Shows(t, v, F)
  BY <1>2, <1>4 DEF PB!Shows
<1>6. QED
  BY <1>5 DEF t, d, v

\* A direct edit shows its fields on the next version.
LEMMA EditShows ==
    ASSUME TypeOK, NEW e \in Entities, NEW S \in SUBSET Fields,
           EditorPublish(e, S)
    PROVE  PB!Shows(e, version[e] + 1, S)
<1> DEFINE v == version[e] + 1
<1>1. /\ content \in [Entities -> [Fields -> Nat]]
      /\ version' = [version EXCEPT ![e] = v]
      /\ content' = [content EXCEPT ![e] =
                       [f \in Fields |-> IF f \in S THEN v ELSE @[f]]]
  BY DEF TypeOK, EditorPublish
<1> HIDE DEF v
<1>2. ASSUME NEW d \in Entities
      PROVE  content'[d] = [f \in Fields |->
                              IF d = e /\ f \in S THEN v ELSE content[d][f]]
  <2>1. CASE d = e
    BY <1>1, <2>1
  <2>2. CASE d # e
    <3>1. content'[d] = content[d]
      BY <1>1, <2>2
    <3>2. content[d] = [f \in Fields |-> content[d][f]]
      BY <1>1
    <3>3. QED
      BY <2>2, <3>1, <3>2
  <2>3. QED
    BY <2>1, <2>2
<1>3. content' = [d \in Entities |-> content'[d]]
  BY <1>1
<1>4. QED
  BY <1>1, <1>2, <1>3 DEF PB!Shows, v

\* A revision makes its row anew: it is open, about the same target.
LEMMA ReviseMaps ==
    ASSUME IInv, NEW r \in Requests, SubmitRevise(r)
    PROVE  PB!Suggest(req[r].p)
<1>0. PICK p \in Proposals : p = req[r].p
  BY DEF SubmitRevise, IInv, TypeOK, Request
<1> DEFINE new == [rows[p] EXCEPT !.patch = req[r].patch, !.base = req[r].base,
                                  !.status = "pending", !.note = FALSE,
                                  !.reviewed = FALSE]
<1> USE DEF entityVars, ledgerVars
<1>1. TypeOK /\ req[r] \in Request /\ pc[r] = "submit"
  BY DEF SubmitRevise, IInv, TypeOK, Request
<1>2. rows[p] \in Row
  BY <1>1 DEF TypeOK
<1>3. /\ new.status = "pending"
      /\ new.target = rows[p].target
      /\ new.patch = req[r].patch
      /\ new.base = req[r].base
  BY <1>2 DEF Row
<1>4. rows' = [rows EXCEPT ![p] = new]
  BY <1>0 DEF SubmitRevise
<1>5. rows \in [Proposals -> Row]
  BY <1>1 DEF TypeOK
<1> HIDE DEF new
<1>6. rows'[p] = new /\ \A q \in Proposals : q # p => rows'[q] = rows[q]
  BY <1>1, <1>4, <1>5
<1>7. StateSeen' = [StateSeen EXCEPT ![p] = "open"]
  <2>1. StateOf(p)' = "open"
    BY <1>3, <1>6 DEF StateOf, IsOpen, Open
  <2>2. QED
    BY <1>1, <1>6, <2>1, StateChange
<1>8. /\ WorkSeen'[p] = [target |-> rows[p].target, base |-> req[r].base,
                         patch |-> req[r].patch]
      /\ WorkSeen' = [WorkSeen EXCEPT ![p] = WorkSeen'[p]]
  BY <1>1, <1>3, <1>6 DEF WorkSeen, WorkOf
<1>9. WorkSeen'[p] \in PB!Work
  <2>1. rows[p].target \in Targets
    BY <1>2 DEF Row
  <2>2. req[r].base \in Nat /\ req[r].patch \in [Fields -> Nat \union {Unset}]
    BY <1>1 DEF Request, Patch
  <2>3. QED
    BY <1>8, <2>1, <2>2 DEF PB!Work, PB!Targets, Targets
<1>10. WorkSeen[p].target = rows[p].target /\ WorkSeen'[p].target = rows[p].target
  <2>1. WorkSeen'[p].target = rows[p].target
    BY <1>8
  <2>2. QED
    BY <1>1, <2>1 DEF WorkSeen, WorkOf
<1>11. HandSeen' = HandSeen
  <2>1. Finish(r)
    BY DEF SubmitRevise
  <2>2. QED
    BY <1>1, <2>1, FinishMoves, HandKept
<1>12. UNCHANGED <<version, content, published, credits>>
  BY DEF SubmitRevise
<1>13. QED
  BY <1>0, <1>7, <1>8, <1>9, <1>10, <1>11, <1>12
     DEF PB!Suggest, StateSeen, WorkSeen, HandSeen

\* An insertion makes a suggestion.
LEMMA InsertMaps ==
    ASSUME IInv, NEW r \in Requests, SubmitInsert(r)
    PROVE  \E p \in Proposals : PB!Suggest(p)
<1> USE DEF entityVars, ledgerVars
<1>1. PICK p \in Proposals :
        /\ rows[p].status = "absent"
        /\ rows' = [rows EXCEPT ![p] =
                      [AbsentRow EXCEPT !.status = "pending",
                                        !.target = req[r].target,
                                        !.owner = req[r].owner,
                                        !.patch = req[r].patch,
                                        !.base = req[r].base]]
  BY DEF SubmitInsert
<1> DEFINE new == [AbsentRow EXCEPT !.status = "pending",
                                    !.target = req[r].target,
                                    !.owner = req[r].owner,
                                    !.patch = req[r].patch,
                                    !.base = req[r].base]
<1>2. /\ TypeOK /\ req[r] \in Request /\ pc[r] = "submit"
      /\ rows \in [Proposals -> Row]
  BY DEF SubmitInsert, IInv, TypeOK
<1>3. /\ new.status = "pending"
      /\ new.target = req[r].target
      /\ new.patch = req[r].patch
      /\ new.base = req[r].base
  BY DEF AbsentRow
<1>4. rows' = [rows EXCEPT ![p] = new]
  BY <1>1
<1> HIDE DEF new
<1>5. rows'[p] = new /\ \A q \in Proposals : q # p => rows'[q] = rows[q]
  BY <1>2, <1>4
<1>6. StateSeen' = [StateSeen EXCEPT ![p] = "open"]
  <2>1. StateOf(p)' = "open"
    BY <1>3, <1>5 DEF StateOf, IsOpen, Open
  <2>2. QED
    BY <1>5, <2>1, StateChange
<1>7. /\ WorkSeen'[p] = [target |-> req[r].target, base |-> req[r].base,
                         patch |-> req[r].patch]
      /\ WorkSeen' = [WorkSeen EXCEPT ![p] = WorkSeen'[p]]
  BY <1>3, <1>5 DEF WorkSeen, WorkOf
<1>8. WorkSeen'[p] \in PB!Work
  <2>1. /\ req[r].target \in Targets
        /\ req[r].base \in Nat
        /\ req[r].patch \in [Fields -> Nat \union {Unset}]
    BY <1>2 DEF Request, Patch
  <2>2. QED
    BY <1>7, <2>1 DEF PB!Work, PB!Targets, Targets
<1>9. StateSeen[p] = "absent"
  BY <1>1 DEF StateSeen, StateOf, IsOpen, Open
<1>10. HandSeen' = HandSeen
  <2>1. Finish(r)
    BY DEF SubmitInsert
  <2>2. QED
    BY <1>2, <2>1, FinishMoves, HandKept
<1>11. UNCHANGED <<version, content, published, credits>>
  BY DEF SubmitInsert
<1>12. PB!Suggest(p)
  BY <1>6, <1>7, <1>8, <1>9, <1>10, <1>11
     DEF PB!Suggest, StateSeen, WorkSeen, HandSeen
<1>13. QED
  BY <1>12

\* The claim of an open row is a claim of what the row says at that moment.
LEMMA ClaimMaps ==
    ASSUME IInv, NEW r \in Requests, ApproveClaim(r)
    PROVE  PB!Claim(r, req[r].p)
<1> DEFINE p == req[r].p
           new == [req[r] EXCEPT !.target = rows[p].target,
                                 !.owner = rows[p].owner,
                                 !.patch = rows[p].patch,
                                 !.base = rows[p].base]
<1>1. /\ TypeOK /\ req[r] \in Request /\ p \in Proposals
      /\ req \in [Requests -> Request]
      /\ pc[r] = "approve"
      /\ rows[p].status \in Open
  BY DEF ApproveClaim, IInv, TypeOK, IsOpen
<1>2. SetReview(p, "approved", FALSE, TRUE) /\ "approved" \in Statuses
  BY DEF ApproveClaim, Statuses, Decided
<1>3. /\ WorkSeen' = WorkSeen
      /\ StateSeen' = [StateSeen EXCEPT ![p] = "approved"]
  BY <1>1, <1>2, ReviewSeen
<1>4. /\ new.p = p
      /\ new.target = rows[p].target
      /\ new.patch = rows[p].patch
      /\ new.base = rows[p].base
  BY <1>1 DEF Request
<1>5. req' = [req EXCEPT ![r] = new]
  BY DEF ApproveClaim
<1> HIDE DEF new
<1>6. req'[r] = new /\ \A q \in Requests : q # r => req'[q] = req[q]
  BY <1>1, <1>5
<1>7. Goto(r, "claimed")
  BY DEF ApproveClaim
<1>8. InHand(r)' = {[p |-> p, work |-> WorkSeen[p]]}
  <2>1. pc'[r] = "claimed"
    BY <1>1, <1>6, <1>7, GotoMoves
  <2>2. WorkOf(req[r])' = WorkSeen[p]
    BY <1>1, <1>4, <1>6 DEF WorkSeen, WorkOf
  <2>3. QED
    BY <1>4, <1>6, <2>1, <2>2 DEF InHand
<1>9. HandSeen' = [HandSeen EXCEPT ![r] = {[p |-> p, work |-> WorkSeen[p]]}]
  BY <1>1, <1>6, <1>7, <1>8, GotoMoves, HandChange
<1>10. HandSeen[r] = {} /\ StateSeen[p] = "open"
  BY <1>1 DEF HandSeen, InHand, StateSeen, StateOf, IsOpen
<1>11. UNCHANGED <<version, content, published, credits>>
  BY DEF ApproveClaim, entityVars
<1>12. QED
  BY <1>3, <1>9, <1>10, <1>11 DEF PB!Claim, StateSeen, WorkSeen, HandSeen

\* The write of an approval publishes what it has in hand.
LEMMA ApplyMaps ==
    ASSUME IInv, NEW r \in Requests, ApproveApply(r)
    PROVE  PB!Publish(r)
<1> DEFINE q == req[r]
           c == [p |-> q.p, work |-> WorkOf(q)]
           v == version[q.target] + 1
<1>1. TypeOK /\ req \in [Requests -> Request] /\ pc[r] = "claimed"
  BY DEF ApproveApply, IInv, TypeOK
<1>2. c \in HandSeen[r]
  BY <1>1 DEF HandSeen, InHand
<1>3. /\ c.p = q.p /\ c.work.target = q.target /\ c.work.base = q.base
      /\ c.work.patch = q.patch
  BY DEF WorkOf
<1>4. q.target \in Entities => version[q.target] = q.base
  BY DEF ApproveApply, CanApply
<1>5. PB!Shows(q.target, v, {f \in Fields : q.patch[f] # Unset})
  BY <1>1, ApplyShows
<1>6. published' = published \union
        {[p |-> q.p, target |-> q.target, version |-> v,
          patch |-> q.patch, base |-> q.base]}
  BY DEF ApproveApply
<1>7. HandSeen' = [HandSeen EXCEPT ![r] = {}]
  <2>1. \A s \in Requests : s # r => req'[s] = req[s]
    BY <1>1 DEF ApproveApply
  <2>2. Goto(r, "applied")
    BY DEF ApproveApply
  <2>3. pc'[r] = "applied" /\ \A s \in Requests : s # r => pc'[s] = pc[s]
    BY <1>1, <2>1, <2>2, GotoMoves
  <2>4. InHand(r)' = {}
    BY <2>3 DEF InHand
  <2>5. QED
    BY <2>1, <2>3, <2>4, HandChange
<1>8. StateSeen' = StateSeen /\ WorkSeen' = WorkSeen /\ credits' = credits
  BY DEF ApproveApply, StateSeen, WorkSeen, StateOf, IsOpen, WorkOf
<1> HIDE DEF q, c, v
<1>9. QED
  BY <1>2, <1>3, <1>4, <1>5, <1>6, <1>7, <1>8
     DEF PB!Publish, StateSeen, WorkSeen, HandSeen, v

\* A rollback reopens its row: the status it restores is one it read before
\* its claim, an open one.
LEMMA RollbackMaps ==
    ASSUME IInv, NEW r \in Requests, ApproveRollback(r)
    PROVE  PB!Decide(req[r].p, "open")
<1>0. PICK q : q = req[r]
  OBVIOUS
<1>1. /\ TypeOK /\ q \in Request /\ q.p \in Proposals
      /\ q.status \in Open
      /\ rows[q.p].status # "absent"
      /\ pc[r] = "failed"
  BY <1>0 DEF ApproveRollback, IInv, TypeOK, RequestsConsistent,
              RequestConsistent
<1>2. q.status \in Statuses /\ q.note \in BOOLEAN
  BY <1>1 DEF Request
<1>3. SetReview(q.p, q.status, q.note, FALSE)
  BY <1>0 DEF ApproveRollback
<1>4. Finish(r) /\ UNCHANGED <<version, content, published, credits>>
  BY DEF ApproveRollback, entityVars, ledgerVars
<1>5. /\ WorkSeen' = WorkSeen
      /\ StateSeen' = [StateSeen EXCEPT ![q.p] = "open"]
  BY <1>1, <1>2, <1>3, ReviewSeen
<1>6. HandSeen' = HandSeen
  BY <1>1, <1>4, FinishMoves, HandKept
<1>7. StateSeen[q.p] # "absent"
  BY <1>1 DEF StateSeen, StateOf, IsOpen
<1>8. QED
  BY <1>0, <1>4, <1>5, <1>6, <1>7
     DEF PB!Decide, StateSeen, WorkSeen, HandSeen

\* A rejection and a request for changes are decisions about a row that
\* exists, whatever its state has become since it was read.
LEMMA DecisionMaps ==
    ASSUME IInv, NEW r \in Requests, RejectWrite(r) \/ ChangesWrite(r)
    PROVE  \E p \in Proposals, s \in {"open", "closed"} : PB!Decide(p, s)
<1> DEFINE p == req[r].p
<1>1. /\ TypeOK /\ p \in Proposals
      /\ rows[p].status # "absent"
      /\ pc[r] \in {"reject", "changes"}
      /\ Finish(r) /\ UNCHANGED <<version, content, published, credits>>
  BY DEF RejectWrite, ChangesWrite, IInv, TypeOK, RequestsConsistent,
         RequestConsistent, entityVars, ledgerVars
<1>2. \/ \E noted \in BOOLEAN : SetReview(p, "rejected", noted, TRUE)
      \/ SetReview(p, "needs_changes", TRUE, TRUE)
  BY DEF RejectWrite, ChangesWrite
<1> HIDE DEF p
<1>3. HandSeen' = HandSeen
  BY <1>1, FinishMoves, HandKept
<1>4. StateSeen[p] # "absent"
  BY <1>1 DEF StateSeen, StateOf, IsOpen
<1>5. PICK s \in {"open", "closed"} :
        /\ WorkSeen' = WorkSeen
        /\ StateSeen' = [StateSeen EXCEPT ![p] = s]
  <2>1. /\ "rejected" \in Statuses /\ "needs_changes" \in Statuses
        /\ "needs_changes" \in Open
    BY DEF Statuses, Open, Decided
  <2>2. ASSUME NEW noted \in BOOLEAN, SetReview(p, "rejected", noted, TRUE)
        PROVE  /\ WorkSeen' = WorkSeen
               /\ StateSeen' = [StateSeen EXCEPT ![p] = "closed"]
    BY <1>1, <2>1, <2>2, ReviewSeen
  <2>3. ASSUME SetReview(p, "needs_changes", TRUE, TRUE)
        PROVE  /\ WorkSeen' = WorkSeen
               /\ StateSeen' = [StateSeen EXCEPT ![p] = "open"]
    BY <1>1, <2>1, <2>3, ReviewSeen
  <2>4. QED
    BY <1>2, <2>2, <2>3
<1>6. QED
  BY <1>1, <1>3, <1>4, <1>5 DEF PB!Decide, StateSeen, WorkSeen, HandSeen

\* A withdrawal closes an open row or finds none.
LEMMA WithdrawMaps ==
    ASSUME IInv, NEW r \in Requests, WithdrawWrite(r)
    PROVE  PB!Decide(req[r].p, "closed") \/ UNCHANGED Seen
<1> DEFINE p == req[r].p
<1>1. /\ TypeOK /\ p \in Proposals
      /\ rows[p].status # "absent"
      /\ pc[r] = "withdraw"
      /\ Finish(r) /\ UNCHANGED <<version, content, published, credits>>
  BY DEF WithdrawWrite, IInv, TypeOK, RequestsConsistent,
         RequestConsistent, entityVars, ledgerVars
<1>2. SetReview(p, "withdrawn", FALSE, TRUE) \/ UNCHANGED rows
  BY DEF WithdrawWrite
<1>3. HandSeen' = HandSeen
  BY <1>1, FinishMoves, HandKept
<1>4. StateSeen[p] # "absent"
  BY <1>1 DEF StateSeen, StateOf, IsOpen
<1>5. CASE SetReview(p, "withdrawn", FALSE, TRUE)
  <2>1. "withdrawn" \in Statuses
    BY DEF Statuses, Decided
  <2>2. /\ WorkSeen' = WorkSeen
        /\ StateSeen' = [StateSeen EXCEPT ![p] = "closed"]
    BY <1>1, <1>5, <2>1, ReviewSeen
  <2>3. QED
    BY <1>1, <1>3, <1>4, <2>2 DEF PB!Decide, StateSeen, WorkSeen, HandSeen
<1>6. CASE UNCHANGED rows
  <2>1. StateSeen' = StateSeen /\ WorkSeen' = WorkSeen
    BY <1>6 DEF StateSeen, WorkSeen, StateOf, IsOpen, WorkOf
  <2>2. QED
    BY <1>1, <1>3, <2>1 DEF Seen
<1>7. QED
  BY <1>2, <1>5, <1>6

\* A credit is a credit for a publication on record, or none is given.
LEMMA CreditMaps ==
    ASSUME IInv, NEW r \in Requests, ApproveCredit(r)
    PROVE  (\E x \in published : PB!Credit(x)) \/ UNCHANGED Seen
<1> DEFINE q == req[r]
           x == [p |-> q.p, target |-> q.target, version |-> q.version,
                 patch |-> q.patch, base |-> q.base]
<1>1. /\ TypeOK /\ pc[r] = "synced" /\ Finish(r)
      /\ UNCHANGED <<rows, version, content, published>>
      /\ x \in published
  BY DEF ApproveCredit, IInv, RequestsConsistent, RequestConsistent, entityVars
<1>2. \/ credits' = credits
      \/ credits' = credits \union
           {[p |-> x.p, target |-> x.target, version |-> x.version]}
  BY DEF ApproveCredit
<1>3. HandSeen' = HandSeen
  BY <1>1, FinishMoves, HandKept
<1>4. StateSeen' = StateSeen /\ WorkSeen' = WorkSeen
  BY <1>1 DEF StateSeen, WorkSeen, StateOf, IsOpen, WorkOf
<1> HIDE DEF x
<1>5. QED
  BY <1>1, <1>2, <1>3, <1>4
     DEF PB!Credit, Seen, StateSeen, WorkSeen, HandSeen

\* The other statements of a handler give up what it has in hand, or show
\* the abstraction nothing: a lost claim, a failure, the end of an invocation,
\* the history and the sync key.
LEMMA OtherMaps ==
    ASSUME IInv, NEW r \in Requests,
           \/ ApproveLost(r) \/ ApproveConflict(r) \/ ApproveLog(r)
           \/ ApproveSync(r) \/ ApproveFail(r) \/ HandlerDies(r)
    PROVE  PB!GiveUp(r) \/ UNCHANGED Seen
<1>1. /\ TypeOK
      /\ UNCHANGED <<rows, version, content, published, credits>>
  BY DEF IInv, ApproveLost, ApproveConflict, ApproveLog, ApproveSync,
         ApproveFail, HandlerDies, entityVars, ledgerVars
<1>2. /\ pc'[r] # "claimed"
      /\ \A q \in Requests : q # r => pc'[q] = pc[q] /\ req'[q] = req[q]
  <2>1. CASE ApproveLost(r) \/ HandlerDies(r)
    BY <1>1, <2>1, FinishMoves DEF ApproveLost, HandlerDies
  <2>2. CASE ApproveConflict(r) \/ ApproveLog(r) \/ ApproveSync(r)
                \/ ApproveFail(r)
    <3>1. UNCHANGED req /\ \E step \in Steps \ {"claimed"} : Goto(r, step)
      BY <2>2 DEF ApproveConflict, ApproveLog, ApproveSync, ApproveFail, Steps
    <3>2. QED
      BY <1>1, <3>1, GotoMoves
  <2>3. QED
    BY <2>1, <2>2
<1>3. StateSeen' = StateSeen /\ WorkSeen' = WorkSeen
  BY <1>1 DEF StateSeen, WorkSeen, StateOf, IsOpen, WorkOf
<1>4. HandSeen' = [HandSeen EXCEPT ![r] = {}]
  <2>1. InHand(r)' = {}
    BY <1>2 DEF InHand
  <2>2. QED
    BY <1>2, <2>1, HandChange
<1>5. QED
  BY <1>1, <1>3, <1>4 DEF PB!GiveUp, StateSeen, WorkSeen, HandSeen

\* The reads that start an invocation show the abstraction nothing; a direct
\* edit is one.
LEMMA AskMaps ==
    ASSUME IInv, Ask
    PROVE  \/ UNCHANGED Seen
           \/ \E e \in Entities, F \in SUBSET Fields : PB!Edit(e, F)
<1>1. TypeOK /\ pc \in [Requests -> Steps] /\ req \in [Requests -> Request]
  BY DEF IInv, TypeOK
<1>2. ASSUME NEW r \in Requests, NEW step \in Steps \ {"claimed"},
             pc[r] = "idle", Goto(r, step),
             \A q \in Requests : q # r => req'[q] = req[q],
             UNCHANGED <<rows, entityVars, ledgerVars>>
      PROVE  UNCHANGED Seen
  <2>1. HandSeen' = HandSeen
    BY <1>1, <1>2, GotoMoves, HandKept
  <2>2. StateSeen' = StateSeen /\ WorkSeen' = WorkSeen
    BY <1>2 DEF StateSeen, WorkSeen, StateOf, IsOpen, WorkOf
  <2>3. QED
    BY <1>2, <2>1, <2>2 DEF Seen, entityVars, ledgerVars
<1>3. ASSUME NEW r \in Requests, NEW u \in Owners, NEW t \in Targets,
             NEW S \in SUBSET Fields, NEW named \in Proposals \union {None},
             NEW b \in 0..version[t], SubmitRead(r, u, t, b, S, named)
      PROVE  UNCHANGED Seen
  <2>1. \A q \in Requests : q # r => req'[q] = req[q]
    BY <1>1, <1>3 DEF SubmitRead
  <2>2. "submit" \in Steps \ {"claimed"}
    BY DEF Steps
  <2>3. QED
    BY <1>2, <1>3, <2>1, <2>2 DEF SubmitRead
<1>4. ASSUME NEW r \in Requests, NEW p \in Proposals,
             NEW step \in {"approve", "reject", "changes", "withdraw"},
             ReviewRead(r, p, step)
      PROVE  UNCHANGED Seen
  <2>1. \A q \in Requests : q # r => req'[q] = req[q]
    BY <1>1, <1>4 DEF ReviewRead
  <2>2. step \in Steps \ {"claimed"}
    BY DEF Steps
  <2>3. QED
    BY <1>2, <1>4, <2>1, <2>2 DEF ReviewRead
<1>5. ASSUME NEW e \in Entities, NEW S \in SUBSET Fields, EditorPublish(e, S)
      PROVE  PB!Edit(e, S)
  <2>1. PB!Shows(e, version[e] + 1, S)
    BY <1>1, <1>5, EditShows
  <2>2. UNCHANGED <<rows, pc, req, published, credits>>
    BY <1>5 DEF EditorPublish, ledgerVars
  <2>3. UNCHANGED <<StateSeen, WorkSeen, HandSeen>>
    BY <2>2 DEF StateSeen, WorkSeen, HandSeen, StateOf, IsOpen, WorkOf, InHand
  <2>4. QED
    BY <2>1, <2>2, <2>3 DEF PB!Edit, StateSeen, WorkSeen, HandSeen
<1>6. QED
  BY <1>3, <1>4, <1>5
     DEF Ask, ApproveRead, RejectRead, ChangesRead, WithdrawRead

\* Every step of the handlers is a step of Publishing or changes nothing that
\* it sees.
LEMMA NextMaps ==
    ASSUME IInv, [Next]_vars
    PROVE  PB!Next \/ UNCHANGED Seen
<1>1. CASE UNCHANGED vars
  BY <1>1 DEF vars, Seen, StateSeen, WorkSeen, HandSeen, StateOf, IsOpen,
              WorkOf, InHand
<1>2. CASE Ask
  BY <1>2, AskMaps DEF PB!Next
<1>3. ASSUME NEW r \in Requests, Continue(r)
      PROVE  PB!Next \/ UNCHANGED Seen
  <2>0. IInv /\ TypeOK
    BY DEF IInv
  <2>1. CASE SubmitRevise(r)
    <3>1. req[r].p \in Proposals
      BY <2>0, <2>1 DEF SubmitRevise, TypeOK, Request
    <3>2. QED
      BY <2>1, <3>1, ReviseMaps DEF PB!Next
  <2>2. CASE SubmitInsert(r)
    BY <2>2, InsertMaps DEF PB!Next
  <2>3. CASE ApproveClaim(r)
    <3>1. req[r].p \in Proposals
      BY <2>0, <2>3 DEF ApproveClaim, TypeOK
    <3>2. QED
      BY <2>3, <3>1, ClaimMaps DEF PB!Next
  <2>4. CASE ApproveApply(r)
    BY <2>4, ApplyMaps DEF PB!Next
  <2>5. CASE ApproveRollback(r)
    <3>1. req[r].p \in Proposals
      BY <2>0, <2>5 DEF ApproveRollback, TypeOK
    <3>2. QED
      BY <2>5, <3>1, RollbackMaps DEF PB!Next
  <2>6. CASE RejectWrite(r) \/ ChangesWrite(r)
    BY <2>6, DecisionMaps DEF PB!Next
  <2>7. CASE WithdrawWrite(r)
    <3>1. req[r].p \in Proposals
      BY <2>0, <2>7 DEF WithdrawWrite, TypeOK
    <3>2. QED
      BY <2>7, <3>1, WithdrawMaps DEF PB!Next
  <2>8. CASE ApproveCredit(r)
    BY <2>8, CreditMaps DEF PB!Next
  <2>9. CASE ApproveLost(r) \/ ApproveConflict(r) \/ ApproveLog(r)
                \/ ApproveSync(r) \/ ApproveFail(r)
    BY <2>9, OtherMaps DEF PB!Next
  <2>10. QED
    BY <1>3, <2>1, <2>2, <2>3, <2>4, <2>5, <2>6, <2>7, <2>8, <2>9 DEF Continue
<1>4. ASSUME NEW r \in Requests, HandlerDies(r)
      PROVE  PB!Next \/ UNCHANGED Seen
  BY <1>4, OtherMaps DEF PB!Next
<1>5. QED
  BY <1>1, <1>2, <1>3, <1>4 DEF Next

\* Empty tables with nobody at work are an initial state of Publishing.
LEMMA InitMaps == Init => PB!Init
<1> SUFFICES ASSUME Init
             PROVE  PB!Init
  OBVIOUS
<1>1. TypeOK
  BY InitTypeOK
<1>2. StateSeen = [p \in Proposals |-> "absent"]
  BY DEF Init, StateSeen, StateOf, IsOpen, Open, AbsentRow
<1>3. WorkSeen \in [Proposals -> PB!Work]
  <2>1. WorkSeen = [p \in Proposals |-> [target |-> NewEntry, base |-> 0,
                                         patch |-> EmptyPatch]]
    BY DEF Init, WorkSeen, WorkOf, AbsentRow
  <2>2. [target |-> NewEntry, base |-> 0, patch |-> EmptyPatch] \in PB!Work
    BY PatchTypes DEF PB!Work, PB!Targets, Patch
  <2>3. QED
    BY <2>1, <2>2
<1>4. HandSeen = [r \in Requests |-> {}]
  BY DEF Init, HandSeen, InHand
<1>5. QED
  BY <1>1, <1>2, <1>3, <1>4
     DEF PB!Init, StateSeen, WorkSeen, HandSeen, TypeOK, Init, PB!Targets,
         Targets

\* The handlers keep the promise of Publishing however their statements
\* interleave and wherever the platform ends them: an approval publishes what
\* its claim returned, once, onto the version it was written for, and only
\* what was published is credited.
THEOREM Refinement == Spec => PublishesAsClaimed
<1>1. IInv /\ [Next]_vars => PB!Next \/ UNCHANGED Seen
  BY NextMaps
<1>2. QED
  BY <1>1, InitMaps, Invariance, PTL
     DEF Spec, PublishesAsClaimed, PB!Spec, Seen, StateSeen, WorkSeen, HandSeen

-----------------------------------------------------------------------------
(* What Publishing promises follows from its steps alone. *)

\* Suggestions and claims are about entities that exist; publications are
\* numbered by the version they showed, an entity's by the successor of their
\* base.
PromiseInv ==
    /\ version \in [Targets -> Nat]
    /\ \A p \in Proposals : WorkSeen[p] \in PB!Work
    /\ \A r \in Requests : \A c \in HandSeen[r] : c.work \in PB!Work
    /\ \A x \in published :
          /\ x.target \in Targets
          /\ x.version \in Nat
          /\ x.version <= version[x.target]
          /\ x.target \in Entities => x.version = x.base + 1
          /\ x.base \in Nat
    /\ \A x, y \in published :
          x.target = y.target /\ x.version = y.version => x = y
    /\ PB!CreditsEarned

\* A new version of one entity leaves the numbering of what is published.
LEMMA ShownNumbered ==
    ASSUME PromiseInv, NEW t \in Targets, NEW F, PB!Shows(t, version[t] + 1, F)
    PROVE  /\ version' \in [Targets -> Nat]
           /\ version'[t] = version[t] + 1
           /\ \A x \in published : x.version <= version'[x.target]
<1>1. version' = [version EXCEPT ![t] = version[t] + 1]
  BY DEF PB!Shows
<1>2. version \in [Targets -> Nat] /\ version[t] \in Nat
  BY DEF PromiseInv
<1>3. ASSUME NEW x \in published
      PROVE  x.version <= version'[x.target]
  <2>1. /\ x.target \in Targets /\ x.version \in Nat
        /\ x.version <= version[x.target]
    BY <1>3 DEF PromiseInv
  <2>2. CASE x.target = t
    BY <1>1, <1>2, <2>1, <2>2
  <2>3. CASE x.target # t
    BY <1>1, <1>2, <2>1, <2>3
  <2>4. QED
    BY <2>2, <2>3
<1>4. QED
  BY <1>1, <1>2, <1>3

\* A publication is the first of its target's new version.
LEMMA PublishPromise ==
    ASSUME PromiseInv, NEW r \in Requests, PB!Publish(r)
    PROVE  PromiseInv'
<1>1. PICK c \in HandSeen[r] :
        /\ c.work.target \in Entities => version[c.work.target] = c.work.base
        /\ PB!Shows(c.work.target, version[c.work.target] + 1,
                    {f \in Fields : c.work.patch[f] # Unset})
        /\ published' = published \union
              {[p |-> c.p, target |-> c.work.target,
                version |-> version[c.work.target] + 1,
                patch |-> c.work.patch, base |-> c.work.base]}
        /\ HandSeen' = [HandSeen EXCEPT ![r] = {}]
        /\ WorkSeen' = WorkSeen
        /\ credits' = credits
  BY DEF PB!Publish, HandSeen, WorkSeen
<1> DEFINE w == c.work
           x == [p |-> c.p, target |-> w.target,
                 version |-> version[w.target] + 1,
                 patch |-> w.patch, base |-> w.base]
<1>2. w \in PB!Work /\ w.target \in Targets /\ w.base \in Nat
  BY DEF PromiseInv, PB!Work, PB!Targets, Targets
<1>3. /\ version \in [Targets -> Nat]
      /\ version' \in [Targets -> Nat]
      /\ version'[w.target] = version[w.target] + 1
      /\ \A y \in published : y.version <= version'[y.target]
  BY <1>1, <1>2, ShownNumbered DEF PromiseInv
<1>4. /\ x.target = w.target /\ x.base = w.base
      /\ x.version = version[w.target] + 1
  OBVIOUS
<1>5. published' = published \union {x}
  BY <1>1
<1>6. w.target \in Entities => version[w.target] = w.base
  BY <1>1
<1> HIDE DEF x, w
<1>7. \A y \in published : y.target = x.target => y.version # x.version
  BY <1>2, <1>3, <1>4 DEF PromiseInv
<1>8. /\ \A p \in Proposals : WorkSeen'[p] \in PB!Work
      /\ \A s \in Requests : \A d \in HandSeen'[s] : d.work \in PB!Work
  <2>1. \A s \in Requests : HandSeen'[s] \subseteq HandSeen[s]
    BY <1>1 DEF HandSeen
  <2>2. QED
    BY <1>1, <2>1 DEF PromiseInv
<1>9. /\ x.target \in Targets /\ x.version \in Nat /\ x.base \in Nat
      /\ x.version <= version'[x.target]
      /\ x.target \in Entities => x.version = x.base + 1
  BY <1>2, <1>3, <1>4, <1>6
<1>10. PB!CreditsEarned'
  BY <1>1, <1>5 DEF PromiseInv, PB!CreditsEarned
<1>11. \A y \in published' :
          /\ y.target \in Targets /\ y.version \in Nat
          /\ y.version <= version'[y.target]
          /\ y.target \in Entities => y.version = y.base + 1
          /\ y.base \in Nat
  BY <1>3, <1>5, <1>9 DEF PromiseInv
<1>12. \A y, z \in published' :
          y.target = z.target /\ y.version = z.version => y = z
  BY <1>5, <1>7 DEF PromiseInv
<1>13. PB!Work' = PB!Work
  BY DEF PB!Work, PB!Targets
<1>14. QED
  BY <1>3, <1>8, <1>10, <1>11, <1>12, <1>13 DEF PromiseInv

\* Every step of Publishing keeps it.
LEMMA NextPromise ==
    ASSUME PromiseInv, PB!Next \/ UNCHANGED Seen
    PROVE  PromiseInv'
<1>0. PB!Work' = PB!Work
  BY DEF PB!Work, PB!Targets
<1>1. CASE UNCHANGED Seen
  BY <1>0, <1>1 DEF Seen, PromiseInv, PB!CreditsEarned
<1>2. ASSUME NEW p \in Proposals, PB!Suggest(p)
      PROVE  PromiseInv'
  <2>1. /\ WorkSeen'[p] \in PB!Work
        /\ WorkSeen' = [WorkSeen EXCEPT ![p] = WorkSeen'[p]]
        /\ HandSeen' = HandSeen
        /\ UNCHANGED <<version, published, credits>>
    BY <1>2 DEF PB!Suggest, WorkSeen, HandSeen
  <2>2. \A q \in Proposals : WorkSeen'[q] \in PB!Work
    BY <2>1 DEF PromiseInv, WorkSeen
  <2>3. QED
    BY <1>0, <2>1, <2>2 DEF PromiseInv, PB!CreditsEarned
<1>3. ASSUME NEW p \in Proposals, NEW s, PB!Decide(p, s)
      PROVE  PromiseInv'
  <2>1. /\ WorkSeen' = WorkSeen /\ HandSeen' = HandSeen
        /\ UNCHANGED <<version, published, credits>>
    BY <1>3 DEF PB!Decide, WorkSeen, HandSeen
  <2>2. QED
    BY <1>0, <2>1 DEF PromiseInv, PB!CreditsEarned
<1>4. ASSUME NEW p \in Proposals, NEW r \in Requests, PB!Claim(r, p)
      PROVE  PromiseInv'
  <2>1. /\ HandSeen' = [HandSeen EXCEPT ![r] = {[p |-> p,
                                                 work |-> WorkSeen[p]]}]
        /\ WorkSeen' = WorkSeen
        /\ UNCHANGED <<version, published, credits>>
    BY <1>4 DEF PB!Claim, WorkSeen, HandSeen
  <2>2. \A q \in Requests : \A c \in HandSeen'[q] : c.work \in PB!Work
    <3>1. ASSUME NEW c \in HandSeen'[r]
          PROVE  c.work \in PB!Work
      <4>1. c = [p |-> p, work |-> WorkSeen[p]]
        BY <2>1, <3>1 DEF HandSeen
      <4>2. QED
        BY <4>1 DEF PromiseInv
    <3>2. \A q \in Requests : q # r => HandSeen'[q] = HandSeen[q]
      BY <2>1 DEF HandSeen
    <3>3. QED
      BY <3>1, <3>2 DEF PromiseInv
  <2>3. QED
    BY <1>0, <2>1, <2>2 DEF PromiseInv, PB!CreditsEarned
<1>5. ASSUME NEW r \in Requests, PB!GiveUp(r)
      PROVE  PromiseInv'
  <2>1. /\ HandSeen' = [HandSeen EXCEPT ![r] = {}]
        /\ WorkSeen' = WorkSeen
        /\ UNCHANGED <<version, published, credits>>
    BY <1>5 DEF PB!GiveUp, WorkSeen, HandSeen
  <2>2. \A q \in Requests : HandSeen'[q] \subseteq HandSeen[q]
    BY <2>1 DEF HandSeen
  <2>3. \A q \in Requests : \A c \in HandSeen'[q] : c.work \in PB!Work
    BY <2>2 DEF PromiseInv
  <2>4. QED
    BY <1>0, <2>1, <2>3 DEF PromiseInv, PB!CreditsEarned
<1>6. ASSUME NEW x \in published, PB!Credit(x)
      PROVE  PromiseInv'
  <2>1. /\ credits' = credits \union
              {[p |-> x.p, target |-> x.target, version |-> x.version]}
        /\ WorkSeen' = WorkSeen /\ HandSeen' = HandSeen
        /\ UNCHANGED <<version, published>>
    BY <1>6 DEF PB!Credit, WorkSeen, HandSeen
  <2>2. PB!CreditsEarned'
    BY <2>1 DEF PromiseInv, PB!CreditsEarned
  <2>3. QED
    BY <1>0, <2>1, <2>2 DEF PromiseInv
<1>7. ASSUME NEW e \in Entities, NEW F, PB!Edit(e, F)
      PROVE  PromiseInv'
  <2>1. /\ PB!Shows(e, version[e] + 1, F)
        /\ WorkSeen' = WorkSeen /\ HandSeen' = HandSeen
        /\ UNCHANGED <<published, credits>>
    BY <1>7 DEF PB!Edit, WorkSeen, HandSeen
  <2>2. /\ version' \in [Targets -> Nat]
        /\ \A x \in published : x.version <= version'[x.target]
    BY <2>1, ShownNumbered DEF Targets
  <2>3. QED
    BY <1>0, <2>1, <2>2 DEF PromiseInv, PB!CreditsEarned
<1>8. QED
  BY <1>1, <1>2, <1>3, <1>4, <1>5, <1>6, <1>7, PublishPromise DEF PB!Next

\* Whoever follows Publishing publishes at most one of the suggestions made
\* for one version of an entity and credits nothing that was not published,
\* although a suggestion may be rewritten, reopened and approved again under
\* the hands of the reviewer who claimed it.
THEOREM PromisesKept ==
    PublishesAsClaimed => [](PB!OnePerVersion /\ PB!CreditsEarned)
<1>1. PB!Init => PromiseInv
  <2> SUFFICES ASSUME PB!Init
               PROVE  PromiseInv
    OBVIOUS
  <2>1. /\ WorkSeen \in [Proposals -> PB!Work]
        /\ HandSeen = [r \in Requests |-> {}]
        /\ version \in [Targets -> Nat]
        /\ published = {} /\ credits = {}
    BY DEF PB!Init, WorkSeen, HandSeen, PB!Targets, Targets
  <2>2. QED
    BY <2>1 DEF PromiseInv, PB!CreditsEarned
<1>2. PromiseInv /\ (PB!Next \/ UNCHANGED Seen) => PromiseInv'
  BY NextPromise
<1>3. PromiseInv => PB!OnePerVersion /\ PB!CreditsEarned
  <2> SUFFICES ASSUME PromiseInv
               PROVE  PB!OnePerVersion
    BY DEF PromiseInv
  <2>1. ASSUME NEW x \in published, NEW y \in published,
               x.target \in Entities, x.target = y.target, x.base = y.base
        PROVE  x = y
    <3>1. x.version = x.base + 1 /\ y.version = y.base + 1
      BY <2>1 DEF PromiseInv
    <3>2. QED
      BY <2>1, <3>1 DEF PromiseInv
  <2>2. QED
    BY <2>1 DEF PB!OnePerVersion
<1>4. QED
  BY <1>1, <1>2, <1>3, PTL
     DEF PublishesAsClaimed, PB!Spec, Seen, StateSeen, WorkSeen, HandSeen
=============================================================================
