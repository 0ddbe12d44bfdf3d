----------------------------- MODULE Publishing -----------------------------
(***************************************************************************)
(* What an approval promises, said without handlers and statements. A      *)
(* reviewer claims a suggestion that is open, and from then on has in hand *)
(* what it said at that moment. A claim is published once or given up, and *)
(* a suggestion about an entity is published only onto the version it was  *)
(* written for. Only published work is credited.                           *)
(*                                                                         *)
(* Nothing is promised about the suggestion meanwhile: the contributor and *)
(* other reviewers may write over it, claimed or not.                      *)
(***************************************************************************)
EXTENDS Integers

CONSTANTS Reviewers, Proposals, Entities, NewEntry, Fields,
          Unset       \* a field that a suggestion leaves alone

VARIABLES state,      \* of each suggestion
          work,       \* what it suggests
          hand,       \* the claim each reviewer has in hand, if any
          version,    \* of each entity; for NewEntry, the entries created
          content,    \* for each entity and field, the version that wrote it
          published,
          credits

States == {"absent", "open", "approved", "closed"}
Targets == Entities \union {NewEntry}

Work == [target : Targets, base : Nat, patch : [Fields -> Nat \union {Unset}]]

\* Entity t shows version v, which wrote the fields F.
Shows(t, v, F) ==
    /\ version' = [version EXCEPT ![t] = v]
    /\ content' = [e \in Entities |-> [f \in Fields |->
                      IF e = t /\ f \in F THEN v ELSE content[e][f]]]

-----------------------------------------------------------------------------
\* A suggestion is made, or made anew: then it is open and about the same.
Suggest(p) ==
    /\ work'[p] \in Work
    /\ state[p] # "absent" => work'[p].target = work[p].target
    /\ work' = [work EXCEPT ![p] = work'[p]]
    /\ state' = [state EXCEPT ![p] = "open"]
    /\ UNCHANGED <<hand, version, content, published, credits>>

\* It is turned down, withdrawn, sent back or reopened.
Decide(p, s) ==
    /\ state[p] # "absent"
    /\ state' = [state EXCEPT ![p] = s]
    /\ UNCHANGED <<work, hand, version, content, published, credits>>

Claim(r, p) ==
    /\ hand[r] = {}
    /\ state[p] = "open"
    /\ state' = [state EXCEPT ![p] = "approved"]
    /\ hand' = [hand EXCEPT ![r] = {[p |-> p, work |-> work[p]]}]
    /\ UNCHANGED <<work, version, content, published, credits>>

GiveUp(r) ==
    /\ hand' = [hand EXCEPT ![r] = {}]
    /\ UNCHANGED <<state, work, version, content, published, credits>>

Publish(r) ==
    \E c \in hand[r] :
        LET w == c.work
            v == version[w.target] + 1 IN
        /\ w.target \in Entities => version[w.target] = w.base
        /\ Shows(w.target, v, {f \in Fields : w.patch[f] # Unset})
        /\ published' = published \union
              {[p |-> c.p, target |-> w.target, version |-> v,
                patch |-> w.patch, base |-> w.base]}
        /\ hand' = [hand EXCEPT ![r] = {}]
        /\ UNCHANGED <<state, work, credits>>

Credit(x) ==
    /\ credits' = credits \union
          {[p |-> x.p, target |-> x.target, version |-> x.version]}
    /\ UNCHANGED <<state, work, hand, version, content, published>>

\* An editor writes an entity directly.
Edit(e, F) ==
    /\ Shows(e, version[e] + 1, F)
    /\ UNCHANGED <<state, work, hand, published, credits>>

-----------------------------------------------------------------------------
Init ==
    /\ state = [p \in Proposals |-> "absent"]
    /\ work \in [Proposals -> Work]
    /\ hand = [r \in Reviewers |-> {}]
    /\ version \in [Targets -> Nat]
    /\ content \in [Entities -> [Fields -> Nat]]
    /\ published = {}
    /\ credits = {}

Next ==
    \/ \E p \in Proposals : \/ Suggest(p)
                            \/ \E s \in {"open", "closed"} : Decide(p, s)
                            \/ \E r \in Reviewers : Claim(r, p)
    \/ \E r \in Reviewers : GiveUp(r) \/ Publish(r)
    \/ \E x \in published : Credit(x)
    \/ \E e \in Entities, F \in SUBSET Fields : Edit(e, F)

Spec == Init /\ [][Next]_<<state, work, hand, version, content, published,
                           credits>>

-----------------------------------------------------------------------------
\* Of the suggestions made for one version of an entity one is published.
OnePerVersion ==
    \A x, y \in published :
        x.target \in Entities /\ x.target = y.target /\ x.base = y.base
            => x = y

CreditsEarned ==
    \A c \in credits : \E x \in published :
        x.p = c.p /\ x.target = c.target /\ x.version = c.version
=============================================================================
