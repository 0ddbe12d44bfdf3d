------------------------- MODULE PlannerSyncProofs -------------------------
(***************************************************************************)
(* TLAPS proofs about PlannerSync, for any number of tabs, browsers, plans *)
(* and terms.                                                              *)
(***************************************************************************)
EXTENDS PlannerSync, TLAPS

USE TermOfAssumption, PlacementsAssumption, NoneAssumption, MaxAsksAssumption,
    WaitingAssumption

\* A well-formed copy, of ids in U only.
Copy(b, U) == b \in Planners /\ Sound(b) /\ Held(b) \subseteq U

-----------------------------------------------------------------------------
(* What the operations make of a planner. *)

\* The empty planner is a copy of no ids.
LEMMA EmptyCopy == Copy(Empty, {})
BY DEF Copy, Empty, Planners, Sound, Held

\* Reading a copy that was written gives it back.
LEMMA ParseCopy ==
    ASSUME NEW b \in Planners, Sound(b)
    PROVE  Parse(b) = b
<1>1. /\ b.active \in [Terms -> Ids \union {None}]
      /\ b = [plans |-> b.plans, active |-> b.active]
  BY DEF Planners
<1>2. \A t \in Terms : b.active[t] \in Held(b) \/ b.active[t] = None
  BY DEF Sound, HeldFor
<1>3. Existing(b.active, Held(b)) = b.active
  BY <1>1, <1>2 DEF Existing
<1>4. QED
  BY <1>1, <1>3 DEF Parse

\* A merge holds the plans of both.
LEMMA MergeHolds ==
    ASSUME NEW l, NEW r, NEW U, Copy(l, U), Copy(r, U)
    PROVE  Held(Merge(l, r)) = Held(l) \union Held(r)
<1>1. l.plans \in [Ids -> Nat] /\ r.plans \in [Ids -> Nat]
  BY DEF Copy, Planners
<1>2. Merge(l, r).plans = MergePlans(l, r)
  BY DEF Merge
<1>3. QED
  BY <1>1, <1>2 DEF MergePlans, Held

\* A merge points to plans it holds.
LEMMA MergeCopies ==
    ASSUME NEW l, NEW r, NEW U, Copy(l, U), Copy(r, U)
    PROVE  Copy(Merge(l, r), U)
<1> DEFINE m == Merge(l, r)
<1>1. /\ l.plans \in [Ids -> Nat] /\ r.plans \in [Ids -> Nat]
      /\ l.active \in [Terms -> Ids \union {None}]
      /\ r.active \in [Terms -> Ids \union {None}]
  BY DEF Copy, Planners
<1>2. /\ m.plans = MergePlans(l, r)
      /\ m.active = MergeActive(l, r)
      /\ m = [plans |-> m.plans, active |-> m.active]
  BY DEF Merge
<1>3. m.plans \in [Ids -> Nat]
  BY <1>1, <1>2 DEF MergePlans
<1>4. Held(m) = Held(l) \union Held(r)
  BY MergeHolds
<1>5. \A t \in Terms :
        \/ m.active[t] = None
        \/ m.active[t] \in HeldFor(m, t)
  <2> SUFFICES ASSUME NEW t \in Terms, m.active[t] # None
               PROVE  m.active[t] \in HeldFor(m, t)
    OBVIOUS
  <2>1. m.active[t] \in {l.active[t], r.active[t]}
    BY <1>2 DEF MergeActive, Existing
  <2>2. m.active[t] \in HeldFor(l, t) \union HeldFor(r, t)
    BY <2>1 DEF Copy, Sound
  <2>3. QED
    BY <2>2, <1>4 DEF HeldFor
<1>6. m.active \in [Terms -> Ids \union {None}]
  <2>1. DOMAIN m.active = Terms /\ m.active = [t \in Terms |-> m.active[t]]
    BY <1>2 DEF MergeActive, Existing
  <2>2. QED
    BY <2>1, <1>5 DEF HeldFor, Held
<1>7. m \in Planners
  BY <1>2, <1>3, <1>6 DEF Planners
<1>8. QED
  BY <1>4, <1>5, <1>7 DEF Copy, Sound

\* The account's copy has the last word on every plan it holds and on every
\* term it has a choice for.
LEMMA MergeInto ==
    ASSUME NEW x \in Planners, NEW m \in Planners, Sound(m),
           Held(x) \subseteq Held(m),
           \A t \in Terms : m.active[t] = None => x.active[t] = None
    PROVE  Merge(x, m) = m
<1>1. /\ x.plans \in [Ids -> Nat] /\ m.plans \in [Ids -> Nat]
      /\ x.active \in [Terms -> Ids \union {None}]
      /\ m.active \in [Terms -> Ids \union {None}]
      /\ m = [plans |-> m.plans, active |-> m.active]
  BY DEF Planners
<1>2. MergePlans(x, m) = m.plans
  <2>1. \A p \in Ids : p \notin Held(m) => x.plans[p] = m.plans[p]
    BY <1>1 DEF Held
  <2>2. QED
    BY <1>1, <2>1 DEF MergePlans
<1>3. MergeActive(x, m) = m.active
  <2>1. \A t \in Terms : m.active[t] # None => m.active[t] \in Held(m)
    BY DEF Sound, HeldFor
  <2>2. QED
    BY <1>1, <2>1 DEF MergeActive, Existing
<1>4. QED
  BY <1>1, <1>2, <1>3 DEF Merge

\* Signing in settles: merging the account's plans once more changes nothing,
\* and when the merged planner has reached the account, a tab that still has
\* what was merged, or the merged planner, gets the merged planner, to the
\* plan it shows for each term (mergePlannerState).
THEOREM MergeSettles ==
    ASSUME NEW l \in Planners, NEW r \in Planners, Sound(l), Sound(r)
    PROVE  /\ Merge(Merge(l, r), r) = Merge(l, r)
           /\ \A b \in {l, r, Merge(l, r)} :
                 Merge(b, Merge(l, r)) = Merge(l, r)
<1>1. /\ l.plans \in [Ids -> Nat] /\ r.plans \in [Ids -> Nat]
      /\ l.active \in [Terms -> Ids \union {None}]
      /\ r.active \in [Terms -> Ids \union {None}]
  BY DEF Planners
<1>2. PICK m : m = Merge(l, r)
  OBVIOUS
<1>3. Copy(l, Ids) /\ Copy(r, Ids)
  BY DEF Copy, Held
<1>4. m \in Planners /\ Sound(m) /\ Held(m) = Held(l) \union Held(r)
  BY <1>2, <1>3, MergeHolds, MergeCopies DEF Copy
<1>5. m.plans = MergePlans(l, r) /\ m.active = MergeActive(l, r)
  BY <1>2 DEF Merge
<1>6. \A t \in Terms : /\ l.active[t] # None => l.active[t] \in Held(l)
                       /\ r.active[t] # None => r.active[t] \in Held(r)
  BY DEF Sound, HeldFor
<1>7. \A t \in Terms :
        m.active[t] = IF r.active[t] # None THEN r.active[t] ELSE l.active[t]
  <2> SUFFICES ASSUME NEW t \in Terms
               PROVE  m.active[t] = IF r.active[t] # None THEN r.active[t]
                                                          ELSE l.active[t]
    OBVIOUS
  <2> DEFINE c == IF r.active[t] # None THEN r.active[t] ELSE l.active[t]
             P == Held(l) \union Held(r)
  <2>1. m.active[t] = IF c \in P THEN c ELSE None
    BY <1>5 DEF MergeActive, Existing
  <2>2. c \in P \/ c = None
    BY <1>6
  <2>3. QED
    BY <2>1, <2>2
<1>8. Merge(m, r) = m
  <2>1. m = [plans |-> m.plans, active |-> m.active]
    BY <1>4 DEF Planners
  <2>2. MergePlans(m, r) = m.plans
    BY <1>1, <1>5 DEF MergePlans
  <2>3. MergeActive(m, r) = m.active
    <3>1. \A t \in Terms :
            (IF r.active[t] # None THEN r.active[t] ELSE m.active[t])
              = m.active[t]
      BY <1>7
    <3>2. \A t \in Terms : m.active[t] # None => m.active[t] \in Held(m)
      BY <1>4 DEF Sound, HeldFor
    <3>3. m.active \in [Terms -> Ids \union {None}]
      BY <1>4 DEF Planners
    <3>4. QED
      BY <1>4, <3>1, <3>2, <3>3 DEF MergeActive, Existing
  <2>4. QED
    BY <2>1, <2>2, <2>3 DEF Merge
<1>9. ASSUME NEW b \in {l, r, m}
      PROVE  Merge(b, m) = m
  <2>1. b \in Planners /\ Held(b) \subseteq Held(m)
    BY <1>4
  <2>2. \A t \in Terms : m.active[t] = None => b.active[t] = None
    BY <1>7
  <2>3. QED
    BY <1>4, <2>1, <2>2, MergeInto
<1>10. QED
  BY <1>2, <1>8, <1>9

\* Writing a plan of a copy, or a new one, and showing it.
LEMMA WrittenCopy ==
    ASSUME NEW U, NEW b, Copy(b, U), NEW p \in Ids, asks \in Nat
    PROVE  LET new == [plans |-> Written(b, p), active |-> Shown(b, p)] IN
           Copy(new, U \union {p}) /\ Held(new) = Held(b) \union {p}
<1> DEFINE new == [plans |-> Written(b, p), active |-> Shown(b, p)]
<1>1. b.plans \in [Ids -> Nat] /\ b.active \in [Terms -> Ids \union {None}]
  BY DEF Copy, Planners
<1>2. new.plans = [b.plans EXCEPT ![p] = asks + 1] /\ asks + 1 \in Nat
  BY DEF Written
<1>3. Held(new) = Held(b) \union {p}
  BY <1>1, <1>2 DEF Held
<1>4. new.active = [b.active EXCEPT ![TermOf[p]] = p] /\ TermOf[p] \in Terms
  BY DEF Shown
<1>5. new \in Planners
  BY <1>1, <1>2, <1>4 DEF Planners
<1>6. Sound(new)
  BY <1>1, <1>3, <1>4 DEF Sound, HeldFor, Copy
<1>7. QED
  BY <1>3, <1>5, <1>6 DEF Copy

\* Deleting a plan takes it, and the pointers to it, out of the copy.
LEMMA WithoutCopy ==
    ASSUME NEW U, NEW b, Copy(b, U), NEW p \in Ids
    PROVE  /\ Copy(Without(b, p), U)
           /\ Held(Without(b, p)) = Held(b) \ {p}
<1> DEFINE new == Without(b, p)
<1>1. b.plans \in [Ids -> Nat] /\ b.active \in [Terms -> Ids \union {None}]
  BY DEF Copy, Planners
<1>2. /\ new.plans = [b.plans EXCEPT ![p] = 0]
      /\ new.active = [t \in Terms |-> IF b.active[t] = p THEN None
                                                         ELSE b.active[t]]
      /\ new = [plans |-> new.plans, active |-> new.active]
  BY DEF Without
<1>3. Held(new) = Held(b) \ {p}
  BY <1>1, <1>2 DEF Held
<1>4. new \in Planners
  BY <1>1, <1>2 DEF Planners
<1>5. Sound(new)
  BY <1>1, <1>2, <1>3 DEF Sound, HeldFor, Copy
<1>6. QED
  BY <1>3, <1>4, <1>5 DEF Copy

-----------------------------------------------------------------------------
(* The steps. *)

\* The copies there are, one by one.
AllCopies(U) ==
    /\ \A t \in Tabs : /\ Copy(planner[t], U)
                       /\ Copy(sent[t], U)
                       /\ \A b \in gets[t] \ {Waiting} : Copy(b, U)
    /\ \A b \in Browsers : Copy(stored[b], U)
    /\ \A b \in puts : Copy(b, U)
    /\ Copy(account, U)

\* TypeOK without its last conjunct about copies.
Typed ==
    /\ browser \in [Tabs -> Browsers]
    /\ planner \in [Tabs -> Planners]
    /\ stored \in [Browsers -> Planners]
    /\ sync \in [Tabs -> BOOLEAN]
    /\ timer \in [Tabs -> BOOLEAN]
    /\ gets \in [Tabs -> SUBSET (Planners \union {Waiting})]
    /\ skipped \in [Tabs -> BOOLEAN]
    /\ sent \in [Tabs -> Planners]
    /\ puts \subseteq Planners
    /\ account \in Planners
    /\ used \subseteq Ids
    /\ asks \in Nat

\* The invariant, said of the copies one by one.
LEMMA CopiesListed ==
    IInv <=> Typed /\ AllCopies(used) /\ StorageCurrent /\ ChangesPushed
<1>1. Typed => (AllCopies(used) <=>
          \A b \in Copies : Sound(b) /\ Held(b) \subseteq used)
  BY DEF Typed, AllCopies, Copies, Copy
<1>2. QED
  BY <1>1 DEF IInv, TypeOK, Typed, PointersSound

\* The same of the next state.
LEMMA CopiesListedNext ==
    Typed' /\ AllCopies(used)' /\ StorageCurrent' /\ ChangesPushed' => IInv'
BY CopiesListed, PTL

\* More ids given out leave every copy one.
LEMMA MoreIds ==
    ASSUME NEW U, NEW V, U \subseteq V
    PROVE  \A b : Copy(b, U) => Copy(b, V)
BY DEF Copy

\* Tab t saves a copy; at most its answers are used up.
SaveStep(t, b) ==
    /\ Save(t, b)
    /\ Copy(b, used')
    /\ used \subseteq used' /\ used' \subseteq Ids
    /\ asks' \in Nat
    /\ gets' \in [Tabs -> SUBSET (Planners \union {Waiting})]
    /\ gets'[t] \subseteq gets[t]
    /\ \A s \in Tabs : s # t => gets'[s] = gets[s]

\* A fresh plan, or a write to one that is there, saves a copy that holds it.
LEMMA WriteSaves ==
    ASSUME IInv, NEW t \in Tabs, NEW p \in Ids,
           CreatePlan(t, p) \/ AddOffering(t, p)
    PROVE  \E b : SaveStep(t, b) /\ Held(b) = Held(planner[t]) \union {p}
<1> DEFINE b == [plans |-> Written(planner[t], p),
                 active |-> Shown(planner[t], p)]
<1>0. Typed /\ AllCopies(used)
  BY CopiesListed
<1>1. Copy(planner[t], used) /\ asks \in Nat
  BY <1>0 DEF AllCopies, Typed
<1>2. Copy(b, used \union {p}) /\ Held(b) = Held(planner[t]) \union {p}
  BY <1>1, WrittenCopy
<1>3. /\ used' = used \union {p} /\ Save(t, b)
      /\ asks' = asks + 1 /\ gets' = gets
  <2>1. CASE CreatePlan(t, p)
    BY <2>1 DEF CreatePlan, Asked
  <2>2. CASE AddOffering(t, p)
    <3>1. p \in used
      BY <1>1, <2>2 DEF AddOffering, Copy
    <3>2. QED
      BY <2>2, <3>1 DEF AddOffering, Asked
  <2>3. QED
    BY <2>1, <2>2
<1> HIDE DEF b
<1>4. SaveStep(t, b)
  BY <1>0, <1>1, <1>2, <1>3 DEF SaveStep, Typed
<1>5. QED
  BY <1>2, <1>4

\* An edit or a choice keeps the plans that are there.
LEMMA EditSaves ==
    ASSUME IInv, NEW t \in Tabs, NEW p \in Ids,
           EditPlan(t, p) \/ SelectPlan(t, p)
    PROVE  \E b : SaveStep(t, b) /\ Held(b) = Held(planner[t])
<1>0. Typed /\ AllCopies(used)
  BY CopiesListed
<1>1. Copy(planner[t], used) /\ asks \in Nat /\ p \in Held(planner[t])
  BY <1>0 DEF AllCopies, Typed, EditPlan, SelectPlan
<1> DEFINE old == planner[t]
           new == [plans |-> Written(old, p), active |-> Shown(old, p)]
<1>2. Copy(new, used) /\ Held(new) = Held(old)
  <2>1. used \union {p} = used /\ Held(old) \union {p} = Held(old)
    BY <1>1 DEF Copy
  <2>2. Copy(new, used \union {p}) /\ Held(new) = Held(old) \union {p}
    BY <1>1, WrittenCopy
  <2> HIDE DEF new, old
  <2>3. QED
    BY <2>1, <2>2
<1>3. old.plans \in [Ids -> Nat] /\ old.active \in [Terms -> Ids \union {None}]
  BY <1>1 DEF Copy, Planners
<1>4. /\ used' = used /\ asks' = asks + 1 /\ gets' = gets
      /\ \/ Save(t, [old EXCEPT !.plans = new.plans])
         \/ Save(t, [old EXCEPT !.active = new.active])
  BY DEF EditPlan, SelectPlan, Asked
<1>5. ASSUME NEW b, \/ b = [old EXCEPT !.plans = new.plans]
                    \/ b = [old EXCEPT !.active = new.active]
      PROVE  Copy(b, used) /\ Held(b) = Held(old)
  <2>1. old = [plans |-> old.plans, active |-> old.active]
    BY <1>1 DEF Copy, Planners
  <2>2. new.plans \in [Ids -> Nat] /\ new.active \in [Terms -> Ids \union {None}]
    BY <1>2 DEF Copy, Planners
  <2> HIDE DEF new, old
  <2>3. CASE b = [old EXCEPT !.plans = new.plans]
    <3>1. b.plans = new.plans /\ b.active = old.active /\ b \in Planners
      BY <2>1, <2>2, <2>3, <1>3 DEF Planners
    <3>2. Held(b) = Held(old)
      BY <3>1, <1>2 DEF Held
    <3>3. Sound(b)
      BY <3>1, <3>2, <1>1 DEF Sound, HeldFor, Copy, old
    <3>4. QED
      BY <3>1, <3>2, <3>3, <1>2 DEF Copy
  <2>4. CASE b = [old EXCEPT !.active = new.active]
    <3>1. b.plans = old.plans /\ b.active = new.active /\ b \in Planners
      BY <2>1, <2>2, <2>4, <1>3 DEF Planners
    <3>2. Held(b) = Held(old)
      BY <3>1 DEF Held
    <3>3. Sound(b)
      BY <3>1, <3>2, <1>2 DEF Sound, HeldFor, Copy
    <3>4. QED
      BY <3>1, <3>2, <3>3, <1>2 DEF Copy
  <2>5. QED
    BY <1>5, <2>3, <2>4
<1>6. PICK b : /\ Save(t, b)
               /\ \/ b = [old EXCEPT !.plans = new.plans]
                  \/ b = [old EXCEPT !.active = new.active]
  BY <1>4
<1>7. Copy(b, used) /\ Held(b) = Held(old)
  BY <1>5, <1>6
<1>8. QED
  BY <1>0, <1>4, <1>6, <1>7 DEF SaveStep, Typed

\* A deletion takes out its plan and no other, and leaves its term a plan.
LEMMA DeleteSaves ==
    ASSUME IInv, NEW t \in Tabs, NEW p \in Ids, DeletePlan(t, p)
    PROVE  \E b : /\ SaveStep(t, b)
                  /\ Held(planner[t]) \ {p} \subseteq Held(b)
                  /\ HeldFor(b, TermOf[p]) # {}
<1> DEFINE old == planner[t]
           rest == Without(old, p)
<1>0. Typed /\ AllCopies(used)
  BY CopiesListed
<1>1. Copy(old, used) /\ asks \in Nat
  BY <1>0 DEF AllCopies, Typed
<1>2. Copy(rest, used) /\ Held(rest) = Held(old) \ {p}
  BY <1>1, WithoutCopy
<1>3. asks' = asks + 1 /\ gets' = gets
  BY DEF DeletePlan, Asked
<1>4. CASE HeldFor(rest, TermOf[p]) # {}
  <2>1. Save(t, rest) /\ used' = used
    BY <1>4 DEF DeletePlan
  <2> HIDE DEF rest, old
  <2>2. SaveStep(t, rest)
    BY <1>0, <1>1, <1>2, <1>3, <2>1 DEF SaveStep, Typed
  <2>3. QED
    BY <1>2, <1>4, <2>2 DEF old
<1>5. CASE HeldFor(rest, TermOf[p]) = {}
  <2>1. PICK q \in Ids \ used :
          /\ TermOf[q] = TermOf[p]
          /\ used' = used \union {q}
          /\ Save(t, [plans |-> Written(rest, q), active |-> Shown(rest, q)])
    BY <1>5 DEF DeletePlan
  <2> DEFINE new == [plans |-> Written(rest, q), active |-> Shown(rest, q)]
  <2>2. Copy(new, used \union {q}) /\ Held(new) = Held(rest) \union {q}
    BY <1>1, <1>2, WrittenCopy
  <2>s. Save(t, new)
    BY <2>1
  <2> HIDE DEF new, rest, old
  <2>3. SaveStep(t, new)
    BY <1>0, <1>1, <1>3, <2>1, <2>2, <2>s DEF SaveStep, Typed
  <2>4. q \in HeldFor(new, TermOf[p])
    BY <2>1, <2>2 DEF HeldFor
  <2>5. QED
    BY <1>2, <2>2, <2>3, <2>4 DEF old
<1>6. QED
  BY <1>4, <1>5

\* A merge saves a copy that holds what the tab held.
LEMMA HydrateSaves ==
    ASSUME IInv, NEW t \in Tabs, Hydrate(t)
    PROVE  \E b : SaveStep(t, b) /\ Held(planner[t]) \subseteq Held(b)
<1>0. Typed /\ AllCopies(used)
  BY CopiesListed
<1>1. PICK b \in gets[t] \ {Waiting} :
        /\ Save(t, Merge(planner[t], b))
        /\ gets' = [gets EXCEPT ![t] = @ \ {b}]
        /\ UNCHANGED <<used, asks>>
  BY DEF Hydrate
<1>2. Copy(planner[t], used) /\ Copy(b, used)
  BY <1>0 DEF AllCopies
<1>m. /\ Copy(Merge(planner[t], b), used)
      /\ Held(Merge(planner[t], b)) = Held(planner[t]) \union Held(b)
  <2> DEFINE old == planner[t]
  <2>1. Copy(old, used) /\ Copy(b, used)
    BY <1>2
  <2> HIDE DEF old
  <2>2. Copy(Merge(old, b), used)
    BY <2>1, MergeCopies
  <2>3. Held(Merge(old, b)) = Held(old) \union Held(b)
    BY <2>1, MergeHolds
  <2>4. QED
    BY <2>2, <2>3 DEF old
<1> DEFINE new == Merge(planner[t], b)
<1>3. Copy(new, used) /\ Held(new) = Held(planner[t]) \union Held(b)
  BY <1>m
<1>s. Save(t, new)
  BY <1>1
<1> HIDE DEF new
<1>4. SaveStep(t, new)
  BY <1>0, <1>1, <1>3, <1>s DEF SaveStep, Typed
<1>5. QED
  BY <1>3, <1>4

\* A save keeps the invariant.
LEMMA SaveKeeps ==
    ASSUME IInv, NEW t \in Tabs, NEW b, SaveStep(t, b)
    PROVE  IInv'
<1>0. Typed /\ AllCopies(used) /\ StorageCurrent /\ ChangesPushed
  BY CopiesListed
<1>1. /\ planner' = [planner EXCEPT ![t] = b]
      /\ timer' = [timer EXCEPT ![t] = timer[t] \/ sync[t]]
      /\ skipped' = [skipped EXCEPT ![t] = FALSE]
      /\ UNCHANGED <<browser, sync, sent, puts, account>>
  BY DEF SaveStep, Save, Pushes, network
<1>2. \/ browser[t] \in Private /\ stored' = stored
      \/ /\ browser[t] \notin Private
         /\ stored' = [stored EXCEPT ![browser[t]] = b]
  BY DEF SaveStep, Save
<1>3. /\ b \in Planners /\ Copy(b, used')
      /\ used' \subseteq Ids /\ asks' \in Nat
      /\ gets' \in [Tabs -> SUBSET (Planners \union {Waiting})]
      /\ gets'[t] \subseteq gets[t]
      /\ \A s \in Tabs : s # t => gets'[s] = gets[s]
  BY DEF SaveStep, Copy
<1>4. Typed'
  <2>1. /\ planner' \in [Tabs -> Planners] /\ sent' \in [Tabs -> Planners]
        /\ sync' \in [Tabs -> BOOLEAN] /\ skipped' \in [Tabs -> BOOLEAN]
    BY <1>0, <1>1, <1>3 DEF Typed
  <2>2. timer' \in [Tabs -> BOOLEAN]
    BY <1>0, <1>1 DEF Typed
  <2>3. browser' \in [Tabs -> Browsers] /\ stored' \in [Browsers -> Planners]
    BY <1>0, <1>1, <1>2, <1>3 DEF Typed
  <2>4. QED
    BY <1>0, <1>1, <1>3, <2>1, <2>2, <2>3 DEF Typed
<1>5. AllCopies(used)'
  <2>1. AllCopies(used')
    BY <1>0, MoreIds DEF AllCopies, SaveStep
  <2>2. /\ \A s \in Tabs : Copy(planner'[s], used')
        /\ \A s \in Tabs : Copy(sent'[s], used')
        /\ \A s \in Tabs : \A c \in gets'[s] \ {Waiting} : Copy(c, used')
        /\ \A c \in puts' : Copy(c, used')
        /\ Copy(account', used')
    BY <2>1, <1>0, <1>1, <1>3 DEF AllCopies, Typed
  <2>3. \A x \in Browsers : Copy(stored'[x], used')
    BY <2>1, <1>0, <1>2, <1>3 DEF AllCopies, Typed
  <2>4. QED
    BY <2>2, <2>3 DEF AllCopies, Copy, Sound, Held, HeldFor
<1>6. StorageCurrent'
  <2> SUFFICES ASSUME NEW s \in Tabs, Durable(s)'
               PROVE  stored'[browser'[s]] = planner'[s]
    BY DEF StorageCurrent
  <2>1. Durable(s) /\ browser'[s] = browser[s] /\ browser[s] \in Browsers
    BY <1>0, <1>1 DEF Durable, Typed
  <2>2. CASE s = t
    BY <2>1, <2>2, <1>0, <1>1, <1>2 DEF Durable, Typed
  <2>3. CASE s # t
    <3>1. browser[s] # browser[t]
      BY <2>1, <2>3 DEF Durable
    <3>2. stored'[browser[s]] = stored[browser[s]]
      BY <3>1, <2>1, <1>0, <1>2 DEF Typed
    <3>3. planner'[s] = planner[s]
      BY <2>3, <1>0, <1>1 DEF Typed
    <3>4. QED
      BY <2>1, <3>2, <3>3, <1>0 DEF StorageCurrent
  <2>4. QED
    BY <2>2, <2>3
<1>7. ChangesPushed'
  <2> SUFFICES ASSUME NEW s \in Tabs,
                      sync'[s], gets'[s] = {}, ~skipped'[s]
               PROVE  timer'[s] \/ sent'[s] = planner'[s]
    BY DEF ChangesPushed
  <2>1. CASE s = t
    BY <2>1, <1>0, <1>1 DEF Typed
  <2>2. CASE s # t
    BY <2>2, <1>0, <1>1, <1>3 DEF Typed, ChangesPushed
  <2>3. QED
    BY <2>1, <2>2
<1>8. QED
  BY <1>4, <1>5, <1>6, <1>7, CopiesListedNext

\* The steps of the account and the network, and the other things people do,
\* move copies about.
LEMMA OtherStepKeeps ==
    ASSUME IInv, NEW t \in Tabs,
           \/ SignIn(t) \/ SignOut(t) \/ Reload(t) \/ ServeGet(t)
           \/ GetFails(t) \/ Push(t)
    PROVE  IInv'
<1>0. Typed /\ AllCopies(used) /\ StorageCurrent /\ ChangesPushed
  BY CopiesListed
<1> USE DEF network
<1>1. UNCHANGED <<browser, stored, used>>
  BY DEF SignIn, SignOut, Reload, ServeGet, GetFails, Push
<1>2. \A b \in Planners : Sound(b) => Parse(b) = b
  BY ParseCopy
<1>3. Empty \in Planners /\ Copy(Empty, used)
  BY EmptyCopy DEF Copy
<1>4. CASE SignIn(t)
  <2>1. Typed'
    BY <1>0, <1>1, <1>4 DEF SignIn, Asked, Typed
  <2>2. AllCopies(used)'
    BY <1>0, <1>1, <1>4 DEF SignIn, AllCopies, Typed
  <2>3. StorageCurrent'
    BY <1>0, <1>1, <1>4 DEF SignIn, StorageCurrent, Durable
  <2>4. ChangesPushed'
    BY <1>0, <1>4 DEF SignIn, ChangesPushed, Typed
  <2>5. QED
    BY <2>1, <2>2, <2>3, <2>4, CopiesListedNext
<1>5. CASE SignOut(t)
  <2>1. Typed'
    BY <1>0, <1>1, <1>5 DEF SignOut, Asked, Typed
  <2>2. AllCopies(used)'
    BY <1>0, <1>1, <1>5 DEF SignOut, AllCopies
  <2>3. StorageCurrent'
    BY <1>0, <1>1, <1>5 DEF SignOut, StorageCurrent, Durable
  <2>4. ChangesPushed'
    BY <1>0, <1>5 DEF SignOut, ChangesPushed, Typed
  <2>5. QED
    BY <2>1, <2>2, <2>3, <2>4, CopiesListedNext
<1>6. CASE Reload(t)
  <2>0. browser[t] \in Browsers
    BY <1>0 DEF Typed
  <2>1. Copy(stored[browser[t]], used)
    BY <1>0, <2>0 DEF AllCopies
  <2>2. planner' = [planner EXCEPT ![t] = stored[browser[t]]]
    BY <1>2, <1>6, <2>1 DEF Reload, Copy
  <2>3. Typed'
    BY <1>0, <1>1, <1>3, <1>6, <2>0, <2>2 DEF Reload, Asked, Typed
  <2>4. AllCopies(used)'
    BY <1>0, <1>1, <1>3, <1>6, <2>1, <2>2 DEF Reload, AllCopies, Typed
  <2>5. StorageCurrent'
    BY <1>0, <1>1, <2>2 DEF StorageCurrent, Durable, Typed
  <2>6. ChangesPushed'
    BY <1>0, <1>6, <2>2 DEF Reload, ChangesPushed, Typed
  <2>7. QED
    BY <2>3, <2>4, <2>5, <2>6, CopiesListedNext
<1>7. CASE ServeGet(t)
  <2>1. PICK b \in {account, Empty} :
          gets' = [gets EXCEPT ![t] = (gets[t] \ {Waiting}) \union {Parse(b)}]
    BY <1>7 DEF ServeGet
  <2>2. Copy(b, used) /\ b \in Planners /\ b # Waiting
    BY <1>0, <1>3, <2>1 DEF AllCopies, Typed
  <2>3. gets' = [gets EXCEPT ![t] = (gets[t] \ {Waiting}) \union {b}]
    BY <1>2, <2>1, <2>2 DEF Copy
  <2>4. Typed'
    BY <1>0, <1>1, <1>7, <2>2, <2>3 DEF ServeGet, Typed
  <2>5. AllCopies(used)'
    BY <1>0, <1>1, <1>7, <2>2, <2>3 DEF ServeGet, AllCopies, Typed
  <2>6. StorageCurrent'
    BY <1>0, <1>1, <1>7 DEF ServeGet, StorageCurrent, Durable
  <2>7. ChangesPushed'
    BY <1>0, <1>7, <2>3 DEF ServeGet, ChangesPushed, Typed
  <2>8. QED
    BY <2>4, <2>5, <2>6, <2>7, CopiesListedNext
<1>8. CASE GetFails(t)
  <2>1. PICK b \in gets[t] : gets' = [gets EXCEPT ![t] = gets[t] \ {b}]
    BY <1>8 DEF GetFails
  <2>2. Typed'
    BY <1>0, <1>1, <1>8, <2>1 DEF GetFails, Typed
  <2>3. AllCopies(used)'
    BY <1>0, <1>1, <1>8, <2>1 DEF GetFails, AllCopies, Typed
  <2>4. StorageCurrent'
    BY <1>0, <1>1, <1>8 DEF GetFails, StorageCurrent, Durable
  <2>5. ChangesPushed'
    BY <1>0, <1>8, <2>1 DEF GetFails, ChangesPushed, Typed
  <2>6. QED
    BY <2>2, <2>3, <2>4, <2>5, CopiesListedNext
<1>9. CASE Push(t)
  <2>1. Typed'
    BY <1>0, <1>1, <1>9 DEF Push, Typed
  <2>2. AllCopies(used)'
    BY <1>0, <1>1, <1>9 DEF Push, AllCopies, Typed
  <2>3. StorageCurrent'
    BY <1>0, <1>1, <1>9 DEF Push, StorageCurrent, Durable
  <2>4. ChangesPushed'
    BY <1>0, <1>9 DEF Push, ChangesPushed, Typed
  <2>5. QED
    BY <2>1, <2>2, <2>3, <2>4, CopiesListedNext
<1>10. QED
  BY <1>4, <1>5, <1>6, <1>7, <1>8, <1>9

-----------------------------------------------------------------------------
(* The theorems. *)

\* The steps, by what they do to the planner of a tab.
LEMMA StepKinds ==
    ASSUME [Next]_vars
    PROVE  \/ UNCHANGED vars
           \/ \E t \in Tabs, p \in Ids :
                 \/ CreatePlan(t, p) \/ AddOffering(t, p)
                 \/ EditPlan(t, p) \/ SelectPlan(t, p) \/ DeletePlan(t, p)
           \/ \E t \in Tabs : Hydrate(t)
           \/ \E t \in Tabs :
                 \/ SignIn(t) \/ SignOut(t) \/ Reload(t) \/ ServeGet(t)
                 \/ GetFails(t) \/ Push(t)
           \/ ServePut \/ PutFails
BY DEF Next, Ask, Answer

\* PUTs carry copies to the account, or are lost.
LEMMA NetworkKeeps ==
    ASSUME IInv, ServePut \/ PutFails
    PROVE  IInv'
<1>0. Typed /\ AllCopies(used) /\ StorageCurrent /\ ChangesPushed
  BY CopiesListed
<1>1. Typed' /\ AllCopies(used)' /\ StorageCurrent' /\ ChangesPushed'
  BY <1>0 DEF ServePut, PutFails, Typed, AllCopies, StorageCurrent, Durable,
             ChangesPushed
<1>2. QED
  BY <1>1, CopiesListedNext

\* At first all copies are empty.
LEMMA InitIInv == Init => IInv
<1> SUFFICES ASSUME Init
             PROVE  IInv
  OBVIOUS
<1>0. Empty \in Planners /\ Copy(Empty, {})
  BY EmptyCopy DEF Copy
<1>1. Typed
  BY <1>0 DEF Init, Typed
<1>2. AllCopies(used)
  BY <1>0 DEF Init, AllCopies
<1>3. StorageCurrent /\ ChangesPushed
  BY DEF Init, StorageCurrent, ChangesPushed, Typed
<1>4. QED
  BY <1>1, <1>2, <1>3, CopiesListed

\* Whatever tabs, the account and the network do, IInv is kept.
LEMMA NextIInv ==
    ASSUME IInv, [Next]_vars
    PROVE  IInv'
<1>1. CASE UNCHANGED vars
  <2>0. Typed /\ AllCopies(used) /\ StorageCurrent /\ ChangesPushed
    BY CopiesListed
  <2>1. Typed' /\ AllCopies(used)' /\ StorageCurrent' /\ ChangesPushed'
    BY <1>1, <2>0 DEF vars, Typed, AllCopies, StorageCurrent, Durable,
                      ChangesPushed
  <2>2. QED
    BY <2>1, CopiesListedNext
<1>2. ASSUME NEW t \in Tabs, NEW p \in Ids,
             \/ CreatePlan(t, p) \/ AddOffering(t, p)
             \/ EditPlan(t, p) \/ SelectPlan(t, p) \/ DeletePlan(t, p)
      PROVE  IInv'
  <2>1. \E b : SaveStep(t, b)
    BY <1>2, WriteSaves, EditSaves, DeleteSaves
  <2>2. QED
    BY <2>1, SaveKeeps
<1>3. ASSUME NEW t \in Tabs, Hydrate(t)
      PROVE  IInv'
  <2>1. \E b : SaveStep(t, b)
    BY <1>3, HydrateSaves
  <2>2. QED
    BY <2>1, SaveKeeps
<1>4. QED
  BY <1>1, <1>2, <1>3, StepKinds, OtherStepKeeps, NetworkKeeps

\* The invariant holds in every behaviour.
THEOREM Invariance == Spec => []IInv
<1>1. IInv /\ [Next]_vars => IInv'
  BY NextIInv
<1>2. QED
  BY InitIInv, <1>1, PTL DEF Spec

\* Every copy of the planner keeps its shape, and holds only plans whose id was
\* given out.
THEOREM TypeCorrect == Spec => []TypeOK
<1>1. IInv => TypeOK
  BY DEF IInv
<1>2. QED
  BY <1>1, Invariance, PTL

\* No copy of the planner ever points to a plan it does not hold.
THEOREM PointersAlways == Spec => []PointersSound
<1>1. IInv => PointersSound
  BY DEF IInv
<1>2. QED
  BY <1>1, Invariance, PTL

\* Nothing that changed while signed in is forgotten.
THEOREM PushedAlways == Spec => []ChangesPushed
<1>1. IInv => ChangesPushed
  BY DEF IInv
<1>2. QED
  BY <1>1, Invariance, PTL

\* A step that keeps the plans of every tab but those deleted in it.
LEMMA StepKeepsPlans ==
    ASSUME IInv, [Next]_vars, NEW t \in Tabs, NEW p \in Held(planner[t])
    PROVE  \/ p \in Held(planner'[t])
           \/ DeletePlan(t, p)
           \/ Reload(t) /\ ~Durable(t)
<1>0. Typed /\ AllCopies(used) /\ StorageCurrent
  BY CopiesListed
<1>1. ASSUME NEW s \in Tabs, NEW b, SaveStep(s, b),
             s = t => p \in Held(b)
      PROVE  p \in Held(planner'[t])
  BY <1>0, <1>1 DEF SaveStep, Save, Typed
<1>2. CASE UNCHANGED planner
  BY <1>2
<1>3. ASSUME NEW s \in Tabs, NEW q \in Ids,
             \/ CreatePlan(s, q) \/ AddOffering(s, q)
             \/ EditPlan(s, q) \/ SelectPlan(s, q)
      PROVE  p \in Held(planner'[t])
  <2>1. \E b : SaveStep(s, b) /\ Held(planner[s]) \subseteq Held(b)
    BY <1>3, WriteSaves, EditSaves
  <2>2. QED
    BY <1>1, <2>1
<1>4. ASSUME NEW s \in Tabs, NEW q \in Ids, DeletePlan(s, q),
             s # t \/ q # p
      PROVE  p \in Held(planner'[t])
  <2>1. \E b : SaveStep(s, b) /\ Held(planner[s]) \ {q} \subseteq Held(b)
    BY <1>4, DeleteSaves
  <2>2. QED
    BY <1>1, <1>4, <2>1
<1>5. ASSUME NEW s \in Tabs, Hydrate(s)
      PROVE  p \in Held(planner'[t])
  <2>1. \E b : SaveStep(s, b) /\ Held(planner[s]) \subseteq Held(b)
    BY <1>5, HydrateSaves
  <2>2. QED
    BY <1>1, <2>1
<1>6. ASSUME NEW s \in Tabs, Reload(s)
      PROVE  \/ p \in Held(planner'[t])
             \/ Reload(t) /\ ~Durable(t)
  <2>1. CASE s # t
    BY <1>0, <1>6, <2>1 DEF Reload, Typed
  <2>2. CASE s = t /\ Durable(t)
    <3>1. stored[browser[t]] = planner[t]
      BY <1>0, <2>2 DEF StorageCurrent
    <3>2. Parse(planner[t]) = planner[t]
      BY <1>0, ParseCopy DEF AllCopies, Copy
    <3>3. planner'[t] = planner[t]
      BY <1>0, <1>6, <2>2, <3>1, <3>2 DEF Reload, Typed
    <3>4. QED
      BY <3>3
  <2>3. QED
    BY <1>6, <2>1, <2>2
<1>7. ASSUME NEW s \in Tabs,
             \/ SignIn(s) \/ SignOut(s) \/ ServeGet(s)
             \/ GetFails(s) \/ Push(s)
      PROVE  UNCHANGED planner
  BY <1>7 DEF SignIn, SignOut, ServeGet, GetFails, Push
<1>8. ASSUME ServePut \/ PutFails \/ UNCHANGED vars
      PROVE  UNCHANGED planner
  BY <1>8 DEF ServePut, PutFails, vars
<1>9. QED
  BY <1>2, <1>3, <1>4, <1>5, <1>6, <1>7, <1>8, StepKinds

\* A deletion leaves the term of its plan another one.
LEMMA DeleteLeavesOne ==
    ASSUME IInv, NEW t \in Tabs, NEW p \in Ids, DeletePlan(t, p)
    PROVE  HeldFor(planner'[t], TermOf[p]) # {}
<1>1. PICK b : SaveStep(t, b) /\ HeldFor(b, TermOf[p]) # {}
  BY DeleteSaves
<1>2. planner \in [Tabs -> Planners]
  BY CopiesListed DEF Typed
<1>3. planner'[t] = b
  BY <1>1, <1>2 DEF SaveStep, Save
<1>4. QED
  BY <1>1, <1>3

\* A plan disappears from a tab only because it is deleted there, or on a reload
\* of a tab that does not have a working storage to itself.
THEOREM PlansAlwaysKept == Spec => PlansKept
<1>1. IInv /\ [Next]_vars =>
        [\A t \in Tabs : \A p \in Held(planner[t]) :
            \/ p \in Held(planner'[t])
            \/ DeletePlan(t, p)
            \/ Reload(t) /\ ~Durable(t)]_vars
  BY StepKeepsPlans
<1>2. QED
  BY <1>1, Invariance, PTL DEF Spec, PlansKept

\* A term that had a plan goes on having one, with the same exception.
THEOREM TermsAlwaysKept == Spec => TermsKept
<1>1. ASSUME IInv, [Next]_vars, NEW t \in Tabs, NEW m \in Terms,
             HeldFor(planner[t], m) # {}
      PROVE  \/ HeldFor(planner'[t], m) # {}
             \/ Reload(t) /\ ~Durable(t)
  <2>1. PICK p \in Held(planner[t]) : TermOf[p] = m
    BY <1>1 DEF HeldFor
  <2>2. p \in Ids
    BY DEF Held
  <2>3. CASE p \in Held(planner'[t])
    BY <2>1, <2>3 DEF HeldFor
  <2>4. CASE DeletePlan(t, p)
    BY <1>1, <2>1, <2>2, <2>4, DeleteLeavesOne
  <2>5. QED
    BY <1>1, <2>3, <2>4, StepKeepsPlans
<1>2. IInv /\ [Next]_vars =>
        [\A t \in Tabs, m \in Terms : HeldFor(planner[t], m) # {} =>
            \/ HeldFor(planner'[t], m) # {}
            \/ Reload(t) /\ ~Durable(t)]_vars
  BY <1>1
<1>3. QED
  BY <1>2, Invariance, PTL DEF Spec, TermsKept
=============================================================================
