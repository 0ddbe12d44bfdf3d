---------------------------- MODULE AdminAccounts ----------------------------
(***************************************************************************)
(* The accounts of admin_users under concurrent requests                   *)
(* (src/lib/services/admin-user-service.ts): admins change roles and       *)
(* activity under an advisory lock, owners delete their account, set a     *)
(* password, link and unlink Google, and Google sign-ins link or create    *)
(* accounts.                                                               *)
(*                                                                         *)
(* Only updateManagedUser is a transaction. The other calls read, decide   *)
(* and write by id in separate statements and take no lock. Reads whose    *)
(* result only decides whether the call is refused are part of Fail.       *)
(*                                                                         *)
(* A role is admin or not. Whose e-mail address an identity shares is left *)
(* open: any one account's, or nobody's. A row is never removed; a row     *)
(* outside exists has not been inserted yet.                               *)
(***************************************************************************)
EXTENDS Integers

CONSTANTS
    Handlers,   \* calls that can be under way at one time
    Accounts,
    Googles,    \* Supabase identities
    None,
    MaxAsks     \* bound on the calls made

ASSUME NoneAssumption == None \notin Googles /\ None \notin Accounts
ASSUME MaxAsksAssumption == MaxAsks \in Nat

VARIABLES
    exists,     \* the rows of admin_users
    row,        \* what they say
    pc,         \* where each call stands
    job,        \* what it was asked and has read
    asks        \* calls made, for the bound

vars == <<exists, row, pc, job, asks>>

-----------------------------------------------------------------------------
Row == [admin : BOOLEAN, active : BOOLEAN, deleted : BOOLEAN,
        password : BOOLEAN, google : Googles \union {None}]

\* The columns a PATCH may give: set it, clear it, or do not give it.
Choice == {"yes", "no", "keep"}
Chosen(choice, old) == IF choice = "keep" THEN old ELSE choice = "yes"

Patch == [admin : Choice, active : Choice]

Job == [account : Accounts \union {None}, patch : Patch,
        google : Googles \union {None},
        admin : BOOLEAN, active : BOOLEAN]

Blank == [account |-> None, patch |-> [admin |-> "keep", active |-> "keep"],
          google |-> None, admin |-> FALSE, active |-> FALSE]

Steps == {"idle", "manage", "guarding", "counted", "create", "delete",
          "password", "link", "linkable", "unlink", "unlinkable",
          "signin", "unlinked", "matched", "unmatched"}

\* A row that has not been inserted.
NoRow == [admin |-> FALSE, active |-> FALSE, deleted |-> FALSE,
          password |-> FALSE, google |-> None]

Active(a) == a \in exists /\ row[a].active
ActiveAdmin(a) == Active(a) /\ row[a].admin

Goto(h, step) == pc' = [pc EXCEPT ![h] = step]

Finish(h) == Goto(h, "idle") /\ job' = [job EXCEPT ![h] = Blank]

Ask(h, step, j) ==
    /\ pc[h] = "idle"
    /\ asks < MaxAsks
    /\ asks' = asks + 1
    /\ job' = [job EXCEPT ![h] = j]
    /\ Goto(h, step)
    /\ UNCHANGED <<exists, row>>

-----------------------------------------------------------------------------
\* PATCH /api/admin/users/[id], for which some admin's session was good.
ManageAsk(h, a, patch) ==
    /\ \E b \in Accounts : ActiveAdmin(b)
    /\ Ask(h, "manage", [Blank EXCEPT !.account = a, !.patch = patch])

\* Mutant of LockFree: nobody takes the advisory lock.
LockFreeAlways == TRUE

\* pg_advisory_xact_lock: held until the transaction ends.
LockFree == \A h \in Handlers : pc[h] \notin {"guarding", "counted"}

\* demotingFromAdmin || deactivatingAdmin, from the row as read
RemovesAdmin(admin, active, patch) ==
    /\ admin
    /\ \/ patch.admin = "no"
       \/ patch.active = "no" /\ active

\* The lock is granted and the target is read.
ManageRead(h) ==
    LET a == job[h].account IN
    /\ pc[h] = "manage"
    /\ LockFree
    /\ a \in exists
    /\ job' = [job EXCEPT ![h] = [@ EXCEPT !.admin = row[a].admin,
                                           !.active = row[a].active]]
    /\ Goto(h, IF RemovesAdmin(row[a].admin, row[a].active, job[h].patch)
               THEN "guarding" ELSE "counted")
    /\ UNCHANGED <<exists, row, asks>>

ManageMissing(h) ==
    /\ pc[h] = "manage"
    /\ LockFree
    /\ job[h].account \notin exists
    /\ Finish(h)
    /\ UNCHANGED <<exists, row, asks>>

\* Mutant of OthersRemain: the target counts as well.
OthersRemainSelf(h) == \E b \in Accounts : ActiveAdmin(b)

\* countActiveAdmins(tx, targetUserId) >= 1
OthersRemain(h) == \E b \in Accounts \ {job[h].account} : ActiveAdmin(b)

ManageCount(h) ==
    /\ pc[h] = "guarding"
    /\ OthersRemain(h)
    /\ Goto(h, "counted")
    /\ UNCHANGED <<exists, row, job, asks>>

\* Mutant of ManageRefuse: the transaction stays open.
ManageRefuseHangs(h) ==
    /\ pc[h] = "guarding"
    /\ ~OthersRemain(h)
    /\ UNCHANGED vars

\* "Cannot remove the last remaining admin."
ManageRefuse(h) ==
    /\ pc[h] = "guarding"
    /\ ~OthersRemain(h)
    /\ Finish(h)
    /\ UNCHANGED <<exists, row, asks>>

\* UPDATE ... SET the given columns WHERE id, and COMMIT.
ManageWrite(h) ==
    LET a == job[h].account
        p == job[h].patch IN
    /\ pc[h] = "counted"
    /\ row' = [row EXCEPT ![a] =
                 [row[a] EXCEPT !.admin = Chosen(p.admin, row[a].admin),
                                !.active = Chosen(p.active, row[a].active)]]
    /\ Finish(h)
    /\ UNCHANGED <<exists, asks>>

-----------------------------------------------------------------------------
\* createAdminUser, for an admin of that time or as a signup, which makes
\* contributors only;
CreateAsk(h, admin) ==
    /\ admin = "yes" => \E b \in Accounts : ActiveAdmin(b)
    /\ Ask(h, "create",
           [Blank EXCEPT !.patch = [admin |-> admin, active |-> "yes"]])

\* one INSERT when the password is hashed.
CreateInsert(h, a) ==
    /\ pc[h] = "create"
    /\ a \notin exists
    /\ exists' = exists \union {a}
    /\ row' = [row EXCEPT ![a] =
                 [admin |-> job[h].patch.admin = "yes", active |-> TRUE,
                  deleted |-> FALSE, password |-> TRUE, google |-> None]]
    /\ Finish(h)
    /\ UNCHANGED asks

\* A call of an account's owner, whose session was good when it began.
OwnAsk(h, step, a, g) ==
    /\ Active(a)
    /\ Ask(h, step, [Blank EXCEPT !.account = a, !.google = g])

\* confirmPasswordReset: a token that was mailed stands for the session, and
\* the account may have been deactivated since.
ResetAsk(h, a) ==
    /\ a \in exists
    /\ Ask(h, "password", [Blank EXCEPT !.account = a])

\* softDeleteAccount: UPDATE ... WHERE id. No lock, and the role stays.
DeleteWrite(h) ==
    /\ pc[h] = "delete"
    /\ row' = [row EXCEPT ![job[h].account] =
                 [@ EXCEPT !.active = FALSE, !.deleted = TRUE,
                           !.password = FALSE, !.google = None]]
    /\ Finish(h)
    /\ UNCHANGED <<exists, asks>>

\* changePassword and confirmPasswordReset: UPDATE ... WHERE id.
PasswordWrite(h) ==
    /\ pc[h] = "password"
    /\ row' = [row EXCEPT ![job[h].account] = [@ EXCEPT !.password = TRUE]]
    /\ Finish(h)
    /\ UNCHANGED <<exists, asks>>

LinkedTo(g) == {a \in exists : row[a].google = g}

\* linkGoogleIdentity: no other row, active or not, has the identity;
LinkRead(h) ==
    /\ pc[h] = "link"
    /\ LinkedTo(job[h].google) \subseteq {job[h].account}
    /\ Goto(h, "linkable")
    /\ UNCHANGED <<exists, row, job, asks>>

LinkTaken(h) ==
    /\ pc[h] = "link"
    /\ ~ (LinkedTo(job[h].google) \subseteq {job[h].account})
    /\ Finish(h)
    /\ UNCHANGED <<exists, row, asks>>

SetGoogle(h, g) ==
    /\ row' = [row EXCEPT ![job[h].account] = [@ EXCEPT !.google = g]]
    /\ Finish(h)
    /\ UNCHANGED <<exists, asks>>

\* then UPDATE ... WHERE id.
LinkWrite(h) == pc[h] = "linkable" /\ SetGoogle(h, job[h].google)

\* Mutant of MayUnlink: the password is not asked for.
MayUnlinkAlways(h) == TRUE

\* "Set a password before disconnecting Google, so you can still sign in."
MayUnlink(h) == row[job[h].account].password

\* unlinkGoogleIdentity
UnlinkRead(h) ==
    /\ pc[h] = "unlink"
    /\ MayUnlink(h)
    /\ Goto(h, "unlinkable")
    /\ UNCHANGED <<exists, row, job, asks>>

UnlinkRefuse(h) ==
    /\ pc[h] = "unlink"
    /\ ~MayUnlink(h)
    /\ Finish(h)
    /\ UNCHANGED <<exists, row, asks>>

UnlinkWrite(h) == pc[h] = "unlinkable" /\ SetGoogle(h, None)

-----------------------------------------------------------------------------
\* GET /api/auth/callback: linkOrCreateContributorFromSupabase
SigninAsk(h, g) == Ask(h, "signin", [Blank EXCEPT !.google = g])

\* getAdminUserBySupabaseId finds an active row: signed in.
SigninLinked(h) ==
    /\ pc[h] = "signin"
    /\ \E a \in LinkedTo(job[h].google) : row[a].active
    /\ Finish(h)
    /\ UNCHANGED <<exists, row, asks>>

\* It finds none, or fails, which it catches and answers with none.
SigninUnlinked(h) ==
    /\ pc[h] = "signin"
    /\ Goto(h, "unlinked")
    /\ UNCHANGED <<exists, row, job, asks>>

\* A row has the identity's verified address. An inactive one signs nobody in.
SigninMatch(h) ==
    /\ pc[h] = "unlinked"
    /\ \E a \in exists :
          IF row[a].active
          THEN /\ job' = [job EXCEPT ![h] = [@ EXCEPT !.account = a]]
               /\ Goto(h, "matched")
          ELSE Finish(h)
    /\ UNCHANGED <<exists, row, asks>>

SigninNoMatch(h) ==
    /\ pc[h] = "unlinked"
    /\ Goto(h, "unmatched")
    /\ UNCHANGED <<exists, row, job, asks>>

SigninLink(h) == pc[h] = "matched" /\ SetGoogle(h, job[h].google)

\* INSERT of a contributor without a password.
SigninInsert(h, a) ==
    /\ pc[h] = "unmatched"
    /\ a \notin exists
    /\ exists' = exists \union {a}
    /\ row' = [row EXCEPT ![a] = [admin |-> FALSE, active |-> TRUE,
                                  deleted |-> FALSE, password |-> FALSE,
                                  google |-> job[h].google]]
    /\ Finish(h)
    /\ UNCHANGED asks

\* A wrong password, a name that is taken, a statement that throws, or the
\* end of the invocation: nothing is written, and the lock is released with
\* the transaction.
Fail(h) ==
    /\ pc[h] # "idle"
    /\ Finish(h)
    /\ UNCHANGED <<exists, row, asks>>

-----------------------------------------------------------------------------
\* There is an active admin, and everybody who is active can sign in.
Init ==
    /\ exists \in SUBSET Accounts
    /\ row \in [Accounts -> Row]
    /\ \A a \in exists : /\ ~row[a].deleted
                         /\ row[a].password \/ row[a].google # None
    /\ \A a \in Accounts \ exists : row[a] = NoRow
    /\ \E a \in Accounts : ActiveAdmin(a)
    /\ pc = [h \in Handlers |-> "idle"]
    /\ job = [h \in Handlers |-> Blank]
    /\ asks = 0

Asks(h) ==
    \/ \E a \in Accounts, patch \in Patch : ManageAsk(h, a, patch)
    \/ \E admin \in {"yes", "no"} : CreateAsk(h, admin)
    \/ \E a \in Accounts : ResetAsk(h, a)
    \/ \E a \in Accounts, step \in {"delete", "password", "unlink"} :
          OwnAsk(h, step, a, None)
    \/ \E a \in Accounts, g \in Googles : OwnAsk(h, "link", a, g)
    \/ \E g \in Googles : SigninAsk(h, g)

Continue(h) ==
    \/ ManageRead(h) \/ ManageMissing(h) \/ ManageCount(h)
    \/ ManageRefuse(h) \/ ManageWrite(h)
    \/ DeleteWrite(h) \/ PasswordWrite(h)
    \/ LinkRead(h) \/ LinkTaken(h) \/ LinkWrite(h)
    \/ UnlinkRead(h) \/ UnlinkRefuse(h) \/ UnlinkWrite(h)
    \/ SigninLinked(h) \/ SigninUnlinked(h) \/ SigninMatch(h)
    \/ SigninNoMatch(h) \/ SigninLink(h)
    \/ \E a \in Accounts : CreateInsert(h, a) \/ SigninInsert(h, a)

Next == \E h \in Handlers : Asks(h) \/ Continue(h) \/ Fail(h)

\* A running call is not suspended for ever; nobody has to ask, nothing has
\* to fail.
Fairness == \A h \in Handlers : WF_vars(Continue(h))

Spec == Init /\ [][Next]_vars /\ Fairness

-----------------------------------------------------------------------------
\* The accounts and the calls on them are always readable.
TypeOK ==
    /\ exists \subseteq Accounts
    /\ row \in [Accounts -> Row]
    /\ pc \in [Handlers -> Steps]
    /\ job \in [Handlers -> Job]
    /\ \A h \in Handlers :
          pc[h] \notin {"idle", "create", "signin", "unlinked", "unmatched"} =>
              job[h].account \in Accounts
    /\ asks \in Nat

\* An account that administers, or would if its owner had not deleted it.
Administers(a) ==
    a \in exists /\ row[a].admin /\ (row[a].active \/ row[a].deleted)

\* "Two concurrent demotions can't both pass the last-admin check and leave
\* zero active admins": whatever role changes, deactivations, deletions and
\* sign-ins run at once, there is an active admin, unless an admin has
\* deleted the own account, which asks nobody else to remain.
AdminRemains == \E a \in Accounts : Administers(a)

\* Nobody is locked out by the own doing: an account that was never deleted
\* has a password or a Google identity, although the password that lets it
\* unlink Google is read in an earlier statement.
CanSignIn ==
    \A a \in exists : row[a].deleted \/ row[a].password \/ row[a].google # None

Rules == INSTANCE AccountRules

\* Every change of an account follows the rule it was checked against, in the
\* very state it is made in, although the check and the write are statements of
\* their own: a role is taken while another admin remains, Google while there
\* is a password, and no call changes more of an account than it is about.
FollowsRules == Rules!Spec

\* A role change is answered in the end: waiting for the advisory lock is not
\* for ever, and whoever holds it gives it back, refused or not.
ManageAnswered ==
    \A h \in Handlers : pc[h] = "manage" ~> pc[h] = "idle"

\* The inductive invariant. One transaction at a time holds the lock;
LockHeld ==
    \A h, k \in Handlers :
        pc[h] \in {"guarding", "counted"} /\ pc[k] \in {"guarding", "counted"}
            => h = k

\* what it read of its target is so still, but for a deletion;
SeenHolds ==
    \A h \in Handlers : pc[h] \in {"guarding", "counted"} =>
        LET a == job[h].account IN
        /\ a \in exists
        /\ job[h].admin = row[a].admin
        /\ job[h].active = row[a].active \/ row[a].deleted

\* the admin it counted is one still, or has deleted the account since;
GuardHolds ==
    \A h \in Handlers :
        /\ pc[h] = "counted"
        /\ RemovesAdmin(job[h].admin, job[h].active, job[h].patch)
        => \E b \in Accounts \ {job[h].account} : Administers(b)

\* and the password an unlinking call saw is there, or the account deleted.
UnlinkHolds ==
    \A h \in Handlers : pc[h] = "unlinkable" =>
        row[job[h].account].password \/ row[job[h].account].deleted

\* What an owner's call, or a sign-in that matched, works on has been inserted.
Present ==
    \A h \in Handlers :
        pc[h] \in {"delete", "password", "link", "linkable", "unlink",
                   "unlinkable", "matched"} => job[h].account \in exists

\* A sign-in or a link has an identity to write.
LinksName ==
    \A h \in Handlers :
        pc[h] \in {"link", "linkable", "signin", "unlinked", "matched",
                   "unmatched"} => job[h].google \in Googles

IInv == /\ TypeOK
        /\ AdminRemains /\ CanSignIn
        /\ LockHeld /\ SeenHolds /\ GuardHolds /\ UnlinkHolds
        /\ Present /\ LinksName
=============================================================================
