---------------------------- MODULE AccountRules ----------------------------
(***************************************************************************)
(* What admin_users promises, said without statements, locks and calls     *)
(* that overlap: every change of an account is one step, and what the      *)
(* change depends on holds in the state it is made in. An administrator is *)
(* demoted or deactivated while another one remains, Google is given up by *)
(* an account that has a password.                                         *)
(*                                                                         *)
(* There is no rule about whose identity is linked: the lookup before the  *)
(* write is backed by no unique index.                                     *)
(***************************************************************************)
CONSTANTS Accounts, Googles, None

VARIABLES exists,  \* the accounts there are
          row      \* what each says

Row == [admin : BOOLEAN, active : BOOLEAN, deleted : BOOLEAN,
        password : BOOLEAN, google : Googles \union {None}]

\* An account that administers, or would if its owner had not deleted it.
Administers(a) ==
    a \in exists /\ row[a].admin /\ (row[a].active \/ row[a].deleted)

CanSignIn(a) == row[a].deleted \/ row[a].password \/ row[a].google # None

AdminRemains == \E a \in Accounts : Administers(a)

NobodyLockedOut == \A a \in exists : CanSignIn(a)

-----------------------------------------------------------------------------
Becomes(a, r) ==
    /\ a \in exists
    /\ row' = [row EXCEPT ![a] = r]
    /\ UNCHANGED exists

\* A role or the activity is set.
Manage(a, admin, active) ==
    /\ Becomes(a, [row[a] EXCEPT !.admin = admin, !.active = active])
    /\ Administers(a) => Administers(a)' \/ \E b \in Accounts \ {a} : Administers(b)

\* The owner deletes the account. Nobody else has to remain.
Delete(a) ==
    Becomes(a, [row[a] EXCEPT !.active = FALSE, !.deleted = TRUE,
                              !.password = FALSE, !.google = None])

SetPassword(a) == Becomes(a, [row[a] EXCEPT !.password = TRUE])

Link(a, g) == Becomes(a, [row[a] EXCEPT !.google = g])

Unlink(a) ==
    /\ row[a].password \/ row[a].deleted
    /\ Becomes(a, [row[a] EXCEPT !.google = None])

\* An account begins active and with a way to sign in. An identity alone makes
\* no administrator.
Create(a, r) ==
    /\ a \notin exists
    /\ r.active /\ ~r.deleted
    /\ r.password \/ r.google # None
    /\ r.admin => r.password
    /\ exists' = exists \union {a}
    /\ row' = [row EXCEPT ![a] = r]

-----------------------------------------------------------------------------
Init ==
    /\ exists \in SUBSET Accounts
    /\ row \in [Accounts -> Row]
    /\ AdminRemains /\ NobodyLockedOut

Change(a) ==
    \/ \E admin, active \in BOOLEAN : Manage(a, admin, active)
    \/ Delete(a)
    \/ SetPassword(a)
    \/ \E g \in Googles : Link(a, g)
    \/ Unlink(a)
    \/ \E r \in Row : Create(a, r)

Next == \E a \in Accounts : Change(a)

Spec == Init /\ [][Next]_<<exists, row>>
=============================================================================
