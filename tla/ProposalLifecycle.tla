------------------------- MODULE ProposalLifecycle -------------------------
(***************************************************************************)
(* The life of an edit proposal (src/lib/services/proposal-service.ts): a  *)
(* contributor submits and revises it, reviewers approve, reject or send   *)
(* it back, the contributor may withdraw it, and an approval publishes its *)
(* patch to the live entity under optimistic locking.                      *)
(*                                                                         *)
(* Every handler is a serverless invocation that awaits the database       *)
(* several times, so other invocations run between its statements. One     *)
(* action is one database statement (or a run of reads of which only the   *)
(* last is used later); what a handler has read is kept in req[r].         *)
(*                                                                         *)
(* Data abstraction. A live entity's content is, for each field, the       *)
(* version that last wrote it. A patch gives, for each field it sets, the  *)
(* entity version its author was looking at. An adminNote and the          *)
(* reviewedBy/reviewedAt pair are "present" or "absent".                   *)
(***************************************************************************)
EXTENDS Integers, FiniteSets

CONSTANTS
    Requests,   \* handler invocations the server can be running at one time
    Mortal,     \* those the platform may end between two statements
    Proposals,  \* ids the edit_proposals table can hold
    Entities,   \* live entities an update proposal can name
    NewEntry,   \* the target of every create_* proposal (entityId = 0)
    Users,      \* signed-in contributors
    Anonymous,  \* a contributor without an account
    Fields,     \* editable fields of an entity
    None,       \* no row
    Unset,      \* a field the patch leaves alone
    MaxAsks     \* bound on the calls made: invocations started, direct edits

ASSUME NewEntryAssumption == NewEntry \notin Entities
ASSUME AnonymousAssumption == Anonymous \notin Users
ASSUME NoneAssumption == None \notin Proposals
ASSUME UnsetAssumption == Unset \notin Nat
ASSUME MaxAsksAssumption == MaxAsks \in Nat

VARIABLES
    rows,       \* edit_proposals, by id
    version,    \* version column of each entity; for NewEntry, rows created
    content,    \* for each entity and field, the version that last wrote it
    history,    \* editor_history: the versions recorded for each target
    keyAt,      \* the target's version when its table's sync key last changed
    published,  \* every publication an approval made
    credits,    \* contributions rows with source = proposal_approved
    orphans,    \* rows whose approval the platform ended after its claim
    pc,         \* where each invocation stands
    req,        \* what each invocation has read or was asked
    asks        \* calls made so far, for the bound

vars == <<rows, version, content, history, keyAt, published, credits,
          orphans, pc, req, asks>>

entityVars == <<version, content, history, keyAt>>
ledgerVars == <<published, credits, orphans>>

-----------------------------------------------------------------------------
Targets == Entities \union {NewEntry}
Owners == Users \union {Anonymous}
Open == {"pending", "needs_changes"}
Decided == {"approved", "rejected", "withdrawn"}
Statuses == Open \union Decided \union {"absent"}

Patch == [Fields -> Nat \union {Unset}]
EmptyPatch == [f \in Fields |-> Unset]

\* The patch { f : f \in S } written by someone looking at version b.
Authored(S, b) == [f \in Fields |-> IF f \in S THEN b ELSE Unset]

\* { ...older, ...newer }
Merge(older, newer) ==
    [f \in Fields |-> IF newer[f] = Unset THEN older[f] ELSE newer[f]]

Row == [status : Statuses, target : Targets, owner : Owners,
        patch : Patch, base : Nat, note : BOOLEAN, reviewed : BOOLEAN]

AbsentRow == [status |-> "absent", target |-> NewEntry, owner |-> Anonymous,
              patch |-> EmptyPatch, base |-> 0,
              note |-> FALSE, reviewed |-> FALSE]

\* p is the row a handler works on (None: a submission that will insert);
\* status and note are the values an approval saw before its claim, patch and
\* base those it claimed or those a submission will store, version the version
\* its publication produced.
Request == [p : Proposals \union {None}, target : Targets, owner : Owners,
            status : Statuses, note : BOOLEAN, patch : Patch, base : Nat,
            version : Nat]

Blank == [p |-> None, target |-> NewEntry, owner |-> Anonymous,
          status |-> "absent", note |-> FALSE, patch |-> EmptyPatch,
          base |-> 0, version |-> 0]

Steps == {"idle", "approve", "claimed", "applied", "logged", "synced",
          "failed", "reject", "changes", "withdraw", "submit"}

Publication == [p : Proposals, target : Targets, version : Nat,
                patch : Patch, base : Nat]
Credit == [p : Proposals, target : Targets, version : Nat]

IsOpen(p) == rows[p].status \in Open

\* Mutant of Finish: an error is sent but the handler does not return.
FinishRunsOn(r) == req' = [req EXCEPT ![r] = Blank] /\ UNCHANGED pc

\* The invocation returns (or throws): nothing it read survives.
Finish(r) ==
    /\ pc' = [pc EXCEPT ![r] = "idle"]
    /\ req' = [req EXCEPT ![r] = Blank]

\* One more call, within the bound.
Asked == asks < MaxAsks /\ asks' = asks + 1

Goto(r, step) == pc' = [pc EXCEPT ![r] = step]

\* UPDATE edit_proposals SET status, admin_note, reviewed_by/reviewed_at.
SetReview(p, status, note, reviewed) ==
    rows' = [rows EXCEPT ![p] = [@ EXCEPT !.status = status, !.note = note,
                                          !.reviewed = reviewed]]

-----------------------------------------------------------------------------
(* submitProposal *)

\* The open rows a submission by u for t would revise: the row named by the
\* caller's proposalId when it is open and the caller's, otherwise, for a
\* signed-in update only, any open row of that user for that entity.
RevisedRows(u, t, named) ==
    IF named # None
    THEN {p \in {named} : IsOpen(p) /\ rows[p].owner = u}
    ELSE IF u \in Users /\ t # NewEntry
         THEN {p \in Proposals : /\ IsOpen(p)
                                 /\ rows[p].owner = u
                                 /\ rows[p].target = t}
         ELSE {}

\* A row id is left for every submission that may still insert one.
RoomToInsert ==
    Cardinality({r \in Requests : pc[r] = "submit" /\ req[r].p = None})
        < Cardinality({p \in Proposals : rows[p].status = "absent"})

\* The reads: find the row to revise and merge the new patch over its patch.
\* The caller edits what its page loaded, version b; a create has base 0. A
\* proposalId names a submission for the same target, perhaps another's.
SubmitRead(r, u, t, b, S, named) ==
    /\ pc[r] = "idle"
    /\ RevisedRows(u, t, named) = {} => RoomToInsert
    /\ S # {}
    /\ IF t = NewEntry THEN b = 0 ELSE b \in 1..version[t]
    /\ named # None => /\ rows[named].status # "absent"
                       /\ rows[named].target = t
    /\ \E p \in (IF RevisedRows(u, t, named) = {}
                 THEN {None} ELSE RevisedRows(u, t, named)) :
          req' = [req EXCEPT ![r] =
                    [Blank EXCEPT !.p = p, !.target = t, !.owner = u,
                                  !.base = b,
                                  !.patch = IF p = None
                                            THEN Authored(S, b)
                                            ELSE Merge(rows[p].patch,
                                                       Authored(S, b))]]
    /\ Goto(r, "submit")
    /\ Asked
    /\ UNCHANGED <<rows, entityVars, ledgerVars>>

\* Mutant of SubmitRevise: the UPDATE leaves the status alone.
SubmitReviseKeepsStatus(r) ==
    /\ pc[r] = "submit"
    /\ req[r].p # None
    /\ rows' = [rows EXCEPT ![req[r].p] =
                  [@ EXCEPT !.patch = req[r].patch, !.base = req[r].base]]
    /\ Finish(r)
    /\ UNCHANGED <<entityVars, ledgerVars, asks>>

\* UPDATE ... WHERE id = existing.id: no condition on the status.
SubmitRevise(r) ==
    /\ pc[r] = "submit"
    /\ req[r].p # None
    /\ rows' = [rows EXCEPT ![req[r].p] =
                  [@ EXCEPT !.patch = req[r].patch, !.base = req[r].base,
                            !.status = "pending", !.note = FALSE,
                            !.reviewed = FALSE]]
    /\ Finish(r)
    /\ UNCHANGED <<entityVars, ledgerVars, asks>>

SubmitInsert(r) ==
    /\ pc[r] = "submit"
    /\ req[r].p = None
    /\ \E p \in Proposals :
          /\ rows[p].status = "absent"
          /\ rows' = [rows EXCEPT ![p] =
                        [AbsentRow EXCEPT !.status = "pending",
                                          !.target = req[r].target,
                                          !.owner = req[r].owner,
                                          !.patch = req[r].patch,
                                          !.base = req[r].base]]
    /\ Finish(r)
    /\ UNCHANGED <<entityVars, ledgerVars, asks>>

-----------------------------------------------------------------------------
(* approveProposal *)

\* Every review handler first reads the row and stops unless it is open.
ReviewRead(r, p, step) ==
    /\ pc[r] = "idle"
    /\ IsOpen(p)
    /\ req' = [req EXCEPT ![r] = [Blank EXCEPT !.p = p,
                                               !.status = rows[p].status,
                                               !.note = rows[p].note]]
    /\ Goto(r, step)
    /\ Asked
    /\ UNCHANGED <<rows, entityVars, ledgerVars>>

ApproveRead(r, p) == ReviewRead(r, p, "approve")

\* Mutant of ApproveClaim: UPDATE ... WHERE id, whatever the row says.
ApproveClaimAnyStatus(r) ==
    LET p == req[r].p IN
    /\ pc[r] = "approve"
    /\ SetReview(p, "approved", FALSE, TRUE)
    /\ req' = [req EXCEPT ![r] = [@ EXCEPT !.target = rows[p].target,
                                           !.owner = rows[p].owner,
                                           !.patch = rows[p].patch,
                                           !.base = rows[p].base]]
    /\ Goto(r, "claimed")
    /\ orphans' = orphans \ {p}
    /\ UNCHANGED <<entityVars, published, credits, asks>>

\* UPDATE ... WHERE id AND status IN (open) RETURNING: from here on the
\* handler works with the row the claim returned.
ApproveClaim(r) ==
    LET p == req[r].p IN
    /\ pc[r] = "approve"
    /\ IsOpen(p)
    /\ SetReview(p, "approved", FALSE, TRUE)
    /\ req' = [req EXCEPT ![r] = [@ EXCEPT !.target = rows[p].target,
                                           !.owner = rows[p].owner,
                                           !.patch = rows[p].patch,
                                           !.base = rows[p].base]]
    /\ Goto(r, "claimed")
    /\ orphans' = orphans \ {p}
    /\ UNCHANGED <<entityVars, published, credits, asks>>

\* The claim matched no row: 409, nothing to undo.
ApproveLost(r) ==
    /\ pc[r] = "approve"
    /\ ~IsOpen(req[r].p)
    /\ Finish(r)
    /\ UNCHANGED <<rows, entityVars, ledgerVars, asks>>

\* Mutant of CanApply: the UPDATE is not conditional on the version.
CanApplyToAnyVersion(q) == TRUE

\* An update is published only onto the version it names; a create is an
\* insert that nothing can make stale.
CanApply(q) == q.target \in Entities => version[q.target] = q.base

ApproveApply(r) ==
    LET q == req[r]
        v == version[q.target] + 1 IN
    /\ pc[r] = "claimed"
    /\ CanApply(q)
    /\ version' = [version EXCEPT ![q.target] = v]
    /\ content' = [e \in Entities |->
                     IF e = q.target
                     THEN [f \in Fields |-> IF q.patch[f] = Unset
                                            THEN content[e][f] ELSE v]
                     ELSE content[e]]
    /\ published' = published \union
                      {[p |-> q.p, target |-> q.target, version |-> v,
                        patch |-> q.patch, base |-> q.base]}
    /\ req' = [req EXCEPT ![r] = [@ EXCEPT !.version = v]]
    /\ Goto(r, "applied")
    /\ UNCHANGED <<rows, history, keyAt, credits, orphans, asks>>

\* EditConflictError: the entity moved on since the base version.
ApproveConflict(r) ==
    /\ pc[r] = "claimed"
    /\ ~CanApply(req[r])
    /\ Goto(r, "failed")
    /\ UNCHANGED <<rows, entityVars, ledgerVars, req, asks>>

\* recordEditorHistory, still inside the update or create function.
ApproveLog(r) ==
    /\ pc[r] = "applied"
    /\ history' = [history EXCEPT ![req[r].target] = @ \union {req[r].version}]
    /\ Goto(r, "logged")
    /\ UNCHANGED <<rows, version, content, keyAt, ledgerVars, req, asks>>

\* refreshSyncKey: a fresh key announces whatever is in the table by now.
ApproveSync(r) ==
    /\ pc[r] = "logged"
    /\ keyAt' = [keyAt EXCEPT ![req[r].target] = version[req[r].target]]
    /\ Goto(r, "synced")
    /\ UNCHANGED <<rows, version, content, history, ledgerVars, req, asks>>

\* Mutant of ApproveCredit: anonymous submitters are credited too.
ApproveCreditEveryone(r) ==
    LET q == req[r] IN
    /\ pc[r] = "synced"
    /\ credits' = credits \union {[p |-> q.p, target |-> q.target,
                                   version |-> q.version]}
    /\ Finish(r)
    /\ UNCHANGED <<rows, entityVars, published, orphans, asks>>

\* recordProposalContribution: one ledger row, signed-in submitters only.
ApproveCredit(r) ==
    LET q == req[r] IN
    /\ pc[r] = "synced"
    /\ credits' = IF q.owner \in Users
                  THEN credits \union {[p |-> q.p, target |-> q.target,
                                        version |-> q.version]}
                  ELSE credits
    /\ Finish(r)
    /\ UNCHANGED <<rows, entityVars, published, orphans, asks>>

\* Any statement of the try block may throw: a validation error, a duplicate
\* name or slug, a lost connection.
ApproveFail(r) ==
    /\ pc[r] \in {"claimed", "applied", "logged", "synced"}
    /\ Goto(r, "failed")
    /\ UNCHANGED <<rows, entityVars, ledgerVars, req, asks>>

\* Mutants of ApproveRollback: the note is not restored; nothing is.
ApproveRollbackDropsNote(r) ==
    /\ pc[r] = "failed"
    /\ SetReview(req[r].p, req[r].status, FALSE, FALSE)
    /\ Finish(r)
    /\ UNCHANGED <<entityVars, ledgerVars, asks>>

ApproveRollbackMissing(r) ==
    /\ pc[r] = "failed"
    /\ Finish(r)
    /\ UNCHANGED <<rows, entityVars, ledgerVars, asks>>

\* The catch block: UPDATE ... WHERE id, to the status and note read before
\* the claim, whatever the row holds now.
ApproveRollback(r) ==
    /\ pc[r] = "failed"
    /\ SetReview(req[r].p, req[r].status, req[r].note, FALSE)
    /\ Finish(r)
    /\ UNCHANGED <<entityVars, ledgerVars, asks>>

-----------------------------------------------------------------------------
(* rejectProposal, requestProposalChanges, withdrawProposal *)

RejectRead(r, p) == ReviewRead(r, p, "reject")

\* finalizeProposal: UPDATE ... WHERE id, again without the status.
RejectWrite(r) ==
    /\ pc[r] = "reject"
    /\ \E noted \in BOOLEAN : SetReview(req[r].p, "rejected", noted, TRUE)
    /\ Finish(r)
    /\ UNCHANGED <<entityVars, ledgerVars, asks>>

ChangesRead(r, p) == ReviewRead(r, p, "changes")

\* The note is required here.
ChangesWrite(r) ==
    /\ pc[r] = "changes"
    /\ SetReview(req[r].p, "needs_changes", TRUE, TRUE)
    /\ Finish(r)
    /\ UNCHANGED <<entityVars, ledgerVars, asks>>

\* canWithdrawProposal lets the owner through, a call by anyone else ends here.
WithdrawRead(r, p) == ReviewRead(r, p, "withdraw")

\* UPDATE ... WHERE id AND status IN (open); no row: 409.
WithdrawWrite(r) ==
    /\ pc[r] = "withdraw"
    /\ IF IsOpen(req[r].p)
       THEN SetReview(req[r].p, "withdrawn", FALSE, TRUE)
       ELSE UNCHANGED rows
    /\ Finish(r)
    /\ UNCHANGED <<entityVars, ledgerVars, asks>>

-----------------------------------------------------------------------------
\* An editor publishes an edit of the fields S directly (the admin PATCH
\* routes), seen here as one step; EntityUpdate has its statements.
EditorPublish(e, S) ==
    LET v == version[e] + 1 IN
    /\ S # {}
    /\ Asked
    /\ version' = [version EXCEPT ![e] = v]
    /\ content' = [content EXCEPT ![e] =
                     [f \in Fields |-> IF f \in S THEN v ELSE @[f]]]
    /\ history' = [history EXCEPT ![e] = @ \union {v}]
    /\ keyAt' = [keyAt EXCEPT ![e] = v]
    /\ UNCHANGED <<rows, ledgerVars, pc, req>>

\* approveProposal between its claim and its return.
Claimed(r) ==
    pc[r] \in {"claimed", "applied", "logged", "synced", "failed"}

\* The platform ends an invocation (timeout, redeploy) between two of its
\* statements.
HandlerDies(r) ==
    /\ r \in Mortal
    /\ pc[r] # "idle"
    /\ orphans' = IF Claimed(r) THEN orphans \union {req[r].p} ELSE orphans
    /\ Finish(r)
    /\ UNCHANGED <<rows, entityVars, published, credits, asks>>

-----------------------------------------------------------------------------
Init ==
    /\ rows = [p \in Proposals |-> AbsentRow]
    /\ version = [t \in Targets |-> IF t = NewEntry THEN 0 ELSE 1]
    /\ content = [e \in Entities |-> [f \in Fields |-> 1]]
    /\ history = [t \in Targets |-> {}]
    /\ keyAt = version
    /\ published = {}
    /\ credits = {}
    /\ orphans = {}
    /\ pc = [r \in Requests |-> "idle"]
    /\ req = [r \in Requests |-> Blank]
    /\ asks = 0

\* What an invocation does once it is running.
Continue(r) ==
    \/ SubmitRevise(r)
    \/ SubmitInsert(r)
    \/ ApproveClaim(r)
    \/ ApproveLost(r)
    \/ ApproveApply(r)
    \/ ApproveConflict(r)
    \/ ApproveLog(r)
    \/ ApproveSync(r)
    \/ ApproveCredit(r)
    \/ ApproveFail(r)
    \/ ApproveRollback(r)
    \/ RejectWrite(r)
    \/ ChangesWrite(r)
    \/ WithdrawWrite(r)

\* What people ask for.
Ask ==
    \/ \E r \in Requests, u \in Owners, t \in Targets, S \in SUBSET Fields,
          named \in Proposals \union {None} :
          \E b \in 0..version[t] : SubmitRead(r, u, t, b, S, named)
    \/ \E r \in Requests, p \in Proposals :
          \/ ApproveRead(r, p)
          \/ RejectRead(r, p)
          \/ ChangesRead(r, p)
          \/ WithdrawRead(r, p)
    \/ \E e \in Entities, S \in SUBSET Fields : EditorPublish(e, S)

Next == Ask \/ \E r \in Requests : Continue(r) \/ HandlerDies(r)

\* A running invocation is not suspended for ever; nobody has to ask.
Fairness == \A r \in Requests : WF_vars(Continue(r))

Spec == Init /\ [][Next]_vars /\ Fairness

-----------------------------------------------------------------------------
\* Every variable keeps its shape: the rows, the live data and the ledger
\* are always readable by the handlers above.
TypeOK ==
    /\ rows \in [Proposals -> Row]
    /\ version \in [Targets -> Nat]
    /\ content \in [Entities -> [Fields -> Nat]]
    /\ history \in [Targets -> SUBSET Nat]
    /\ keyAt \in [Targets -> Nat]
    /\ published \subseteq Publication
    /\ credits \subseteq Credit
    /\ orphans \subseteq Proposals
    /\ pc \in [Requests -> Steps]
    /\ req \in [Requests -> Request]
    /\ \A r \in Requests :
          pc[r] \notin {"idle", "submit"} => req[r].p \in Proposals
    /\ asks \in Nat

Approving(r, p) == Claimed(r) /\ req[r].p = p

\* A row that reads "approved" is either still being published by the
\* approval that claimed exactly this patch, or that patch went live, unless
\* the platform ended an approval after the row was last claimed. It is
\* what makes it right to publish the row the claim returned and not the row
\* read before it: a revision may have come between.
ApprovedMeansPublished ==
    \A p \in Proposals \ orphans : rows[p].status = "approved" =>
        \/ \E r \in Requests : /\ Approving(r, p)
                               /\ req[r].patch = rows[p].patch
                               /\ req[r].base = rows[p].base
        \/ \E x \in published : /\ x.p = p
                                /\ x.patch = rows[p].patch
                                /\ x.base = rows[p].base

\* Of all suggestions made against one version of an entity at most one is
\* ever published, however many reviewers approve at once and however often a
\* proposal is rolled back, revised and approved again (the version test in
\* the UPDATE of every updateX).
CompetingSuggestionsExclusive ==
    \A x, y \in published :
        x.target \in Entities /\ x.target = y.target /\ x.base = y.base
            => x = y

\* The review columns agree with the status whatever statements interleave:
\* a pending row shows no note and no reviewer, a row sent back always has
\* the note that says why, a decided row names who decided. A rollback that
\* restored the status without its note, or a revision that kept the old
\* note, would break it.
ReviewFieldsConsistent ==
    \A p \in Proposals :
        LET row == rows[p] IN
        /\ row.status = "pending" => ~row.note /\ ~row.reviewed
        /\ row.status = "needs_changes" => row.note
        /\ row.status \in {"approved", "withdrawn"} => ~row.note
        /\ row.status \in Decided => row.reviewed

\* The contributions ledger credits only work that went live, under the
\* proposal that produced it, and never an anonymous one.
CreditsBacked ==
    \A c \in credits :
        /\ rows[c.p].owner \in Users
        /\ \E x \in published : /\ x.p = c.p
                                /\ x.target = c.target
                                /\ x.version = c.version

\* The abstraction: a row is open, approved, closed or absent and suggests a
\* patch; a reviewer has a claim in hand from the claim to the write.
StateOf(p) == IF IsOpen(p) THEN "open"
              ELSE IF rows[p].status \in {"approved", "absent"}
                   THEN rows[p].status ELSE "closed"

WorkOf(x) == [target |-> x.target, base |-> x.base, patch |-> x.patch]

InHand(r) == IF pc[r] = "claimed"
             THEN {[p |-> req[r].p, work |-> WorkOf(req[r])]} ELSE {}

PB == INSTANCE Publishing WITH Reviewers <- Requests,
                               state <- [p \in Proposals |-> StateOf(p)],
                               work <- [p \in Proposals |-> WorkOf(rows[p])],
                               hand <- [r \in Requests |-> InHand(r)]

\* Whatever interleaves, fails or dies: only an open row is claimed, what is
\* published is what the claim returned, once and onto its version, writing
\* the fields it sets and no others, and only that is credited.
PublishesAsClaimed == PB!Spec

\* A claim is resolved: a row does not stay "approved" without its patch
\* having been published, because the handler goes on to publish it or its
\* catch block reopens it, if the platform lets it.
ClaimResolved ==
    \A p \in Proposals :
        (rows[p].status = "approved")
            ~> (\/ rows[p].status # "approved"
                \/ p \in orphans
                \/ \E x \in published : x.p = p /\ x.patch = rows[p].patch)

-----------------------------------------------------------------------------
(* The inductive invariant behind the safety properties. *)

\* What a running invocation remembers still agrees with the tables: it names
\* a row, an approval's rollback values are those of an open row, a claimed
\* row exists and belongs to the remembered owner, and past its write its
\* publication is on record.
RequestConsistent(r) ==
    LET q == req[r] IN
    /\ pc[r] \notin {"idle", "submit"} => rows[q.p].status # "absent"
    /\ pc[r] \in {"approve", "claimed", "applied", "logged", "synced",
                  "failed"} =>
          /\ q.status \in Open
          /\ q.status = "pending" => ~q.note
          /\ q.status = "needs_changes" => q.note
    /\ pc[r] \in {"claimed", "applied", "logged", "synced"} =>
          q.owner = rows[q.p].owner
    /\ pc[r] \in {"applied", "logged", "synced"} =>
          [p |-> q.p, target |-> q.target, version |-> q.version,
           patch |-> q.patch, base |-> q.base] \in published

RequestsConsistent == \A r \in Requests : RequestConsistent(r)

\* Publications are numbered by the version they produced: never beyond the
\* target's version, never two with one number, and an update's number is
\* the successor of its base.
PublicationsNumbered ==
    /\ \A x \in published :
          /\ x.version <= version[x.target]
          /\ x.target \in Entities => x.version = x.base + 1
    /\ \A x, y \in published :
          x.target = y.target /\ x.version = y.version => x = y

\* A credited row exists, so its owner no longer changes.
CreditedRowsExist == \A c \in credits : rows[c.p].status # "absent"

IInv ==
    /\ TypeOK
    /\ RequestsConsistent
    /\ PublicationsNumbered
    /\ CreditedRowsExist
    /\ ReviewFieldsConsistent
    /\ CreditsBacked

-----------------------------------------------------------------------------
(* Statements of the repository's own documents and guards that the code    *)
(* does not keep; each has a run that shows a counterexample.               *)

\* rejectProposal refuses a row that "is no longer open": a row turns
\* "rejected" only from an open status. The refusal tests an earlier read and
\* the write does not repeat the test.
RejectsOnlyOpen ==
    [][\A p \in Proposals :
          rows'[p].status = "rejected" /\ rows[p].status # "rejected"
              => rows[p].status \in Open]_vars

\* "approve publishes atomically (entity + history + sync key)": once no
\* approval is running, every version an approval published is in the
\* history and was announced by a sync key.
PublishIsAtomic ==
    (\A r \in Requests : pc[r] = "idle") =>
        \A x \in published : /\ x.version \in history[x.target]
                             /\ keyAt[x.target] >= x.version

\* "A concurrent editor publish makes the contributor proposal stale;
\* approval must not publish it": an approval overwrites no field that was
\* rewritten after the contributor wrote that part of the patch. Revising
\* another field renews the base of the whole merged patch.
StaleFieldNotPublished ==
    [][\A x \in published' \ published : x.target \in Entities =>
          \A f \in Fields : x.patch[f] # Unset =>
              content[x.target][f] <= x.patch[f]]_vars
=============================================================================
