---------------------------- MODULE PlannerSync ----------------------------
(***************************************************************************)
(* Class plans and their account copy (src/lib/stores/                     *)
(* planner-store.svelte.ts, src/lib/planner/persist.ts,                    *)
(* src/pages/api/account/plans.ts). Every open tab keeps the plans in      *)
(* memory and writes all of them to the browser's storage after a change.  *)
(* While someone is signed in, a change also starts a timer that sends the *)
(* whole planner to the account, and signing in fetches the account's      *)
(* planner and merges it in. Requests are answered late, in any order, or  *)
(* never; tabs of one browser share its storage; any tab may be closed and *)
(* opened again at any moment.                                             *)
(*                                                                         *)
(* Data abstraction. A plan is its id, which fixes its term, and the       *)
(* number of the call that last wrote it, 0 for a plan that is not there;  *)
(* sections, labels and notes are left out, and so is the order of plans.  *)
(***************************************************************************)
EXTENDS Integers

CONSTANTS
    Tabs,       \* open tabs
    Browsers,   \* browsers they run in
    Private,    \* those whose storage cannot be written
    Placements, \* the ways the tabs may be spread over them
    Ids,        \* plan ids crypto.randomUUID can return
    Terms,      \* academic terms
    TermOf,     \* the term a plan with this id is made for
    None,       \* no plan is active for a term
    Waiting,    \* a GET the server has not read for yet
    MaxAsks     \* bound on what people do: edits, sign-ins, reloads

ASSUME TermOfAssumption == TermOf \in [Ids -> Terms]
ASSUME PlacementsAssumption == Placements \subseteq [Tabs -> Browsers]
ASSUME NoneAssumption == None \notin Ids
ASSUME MaxAsksAssumption == MaxAsks \in Nat

\* PlannerPersisted: the plans and, by term, the one that is shown.
Planners ==
    [plans : [Ids -> Nat], active : [Terms -> Ids \union {None}]]

ASSUME WaitingAssumption == Waiting \notin Planners

VARIABLES
    browser,    \* where each tab runs
    planner,    \* the plans each tab shows
    stored,     \* local storage of each browser
    sync,       \* accountSync of each tab
    timer,      \* a push is due
    gets,       \* answers to a tab's GETs, on their way
    skipped,    \* a GET failed and nothing was saved since
    sent,       \* what the tab last sent
    puts,       \* PUTs on their way
    account,    \* planner_plans.data of the one account
    used,       \* ids given out
    asks        \* calls made so far, for the bound

vars == <<browser, planner, stored, sync, timer, gets, skipped, sent, puts,
          account, used, asks>>

network == <<puts, account>>

-----------------------------------------------------------------------------
(* persist.ts *)

Empty == [plans |-> [p \in Ids |-> 0], active |-> [t \in Terms |-> None]]

Held(b) == {p \in Ids : b.plans[p] # 0}
HeldFor(b, t) == {p \in Held(b) : TermOf[p] = t}

\* Keep the choices that name a plan of P.
Existing(choice, P) ==
    [t \in Terms |-> IF choice[t] \in P THEN choice[t] ELSE None]

\* parsePlanner, of what serializePlanner wrote.
Parse(b) == [plans |-> b.plans, active |-> Existing(b.active, Held(b))]

\* Mutant of MergePlans: the account's plans replace the tab's.
MergePlansReplaces(local, remote) == remote.plans

\* The union, with the account's version of a shared plan.
MergePlans(local, remote) ==
    [p \in Ids |->
        IF p \in Held(remote) THEN remote.plans[p] ELSE local.plans[p]]

\* { ...local, ...remote }, for plans that survive the merge.
MergeActive(local, remote) ==
    Existing([t \in Terms |-> IF remote.active[t] # None
                              THEN remote.active[t] ELSE local.active[t]],
             Held(local) \union Held(remote))

\* mergePlannerState
Merge(local, remote) ==
    [plans |-> MergePlans(local, remote), active |-> MergeActive(local, remote)]

-----------------------------------------------------------------------------
(* planner-store.svelte.ts: the plans *)

Asked == asks < MaxAsks /\ asks' = asks + 1

\* Mutant of Pushes: what is saved before the account has answered is not sent.
PushesOnceMerged(t) == sync[t] /\ gets[t] = {}

Pushes(t) == sync[t]

\* persist: storage, where it can be written, and the timer of #pushToAccount.
Save(t, b) ==
    /\ planner' = [planner EXCEPT ![t] = b]
    /\ stored' = IF browser[t] \in Private THEN stored
                 ELSE [stored EXCEPT ![browser[t]] = b]
    /\ timer' = [timer EXCEPT ![t] = @ \/ Pushes(t)]
    /\ skipped' = [skipped EXCEPT ![t] = FALSE]
    /\ UNCHANGED <<browser, sync, sent, network>>

\* Plan p is written by this call.
Written(b, p) == [b.plans EXCEPT ![p] = asks + 1]

Shown(b, p) == [b.active EXCEPT ![TermOf[p]] = p]

\* createPlan, duplicatePlan, importShared, ensurePlanForActiveTerm, and the
\* plan addOffering makes for a term that has none.
CreatePlan(t, p) ==
    /\ Asked
    /\ p \notin used
    /\ used' = used \union {p}
    /\ Save(t, [plans |-> Written(planner[t], p),
                active |-> Shown(planner[t], p)])
    /\ UNCHANGED gets

\* addOffering, replaceCourse: into the plan that is shown for the term, or one
\* of its others when none is.
AddOffering(t, p) ==
    LET b == planner[t]
        choice == b.active[TermOf[p]] IN
    /\ Asked
    /\ p \in Held(b)
    /\ choice \in HeldFor(b, TermOf[p]) => p = choice
    /\ Save(t, [plans |-> Written(b, p), active |-> Shown(b, p)])
    /\ UNCHANGED <<gets, used>>

\* removeSections, removeOffering, updateSectionNote, refreshActivePlan,
\* renamePlan.
EditPlan(t, p) ==
    /\ Asked
    /\ p \in Held(planner[t])
    /\ Save(t, [planner[t] EXCEPT !.plans = Written(planner[t], p)])
    /\ UNCHANGED <<gets, used>>

SelectPlan(t, p) ==
    /\ Asked
    /\ p \in Held(planner[t])
    /\ Save(t, [planner[t] EXCEPT !.active = Shown(planner[t], p)])
    /\ UNCHANGED <<gets, used>>

\* The planner of b without p.
Without(b, p) ==
    [plans |-> [b.plans EXCEPT ![p] = 0],
     active |-> [t \in Terms |-> IF b.active[t] = p THEN None
                                                    ELSE b.active[t]]]

\* Mutants of DeletePlan: a term may be left without a plan; the pointer to
\* the deleted plan stays.
DeletePlanLeavesNone(t, p) ==
    /\ Asked
    /\ p \in Held(planner[t])
    /\ Save(t, Without(planner[t], p))
    /\ UNCHANGED <<gets, used>>

DeletePlanKeepsPointer(t, p) ==
    /\ Asked
    /\ p \in Held(planner[t])
    /\ Save(t, [planner[t] EXCEPT !.plans = Without(planner[t], p).plans])
    /\ UNCHANGED <<gets, used>>

\* The last plan of a term is replaced by a fresh one.
DeletePlan(t, p) ==
    LET rest == Without(planner[t], p) IN
    /\ Asked
    /\ p \in Held(planner[t])
    /\ \/ /\ HeldFor(rest, TermOf[p]) # {}
          /\ Save(t, rest)
          /\ UNCHANGED used
       \/ /\ HeldFor(rest, TermOf[p]) = {}
          /\ \E q \in Ids \ used :
                /\ TermOf[q] = TermOf[p]
                /\ used' = used \union {q}
                /\ Save(t, [plans |-> Written(rest, q),
                            active |-> Shown(rest, q)])
    /\ UNCHANGED gets

-----------------------------------------------------------------------------
(* planner-store.svelte.ts: the account *)

\* enableAccountSync, on sign-in and when a page finds itself signed in: the
\* GET of #hydrateFromAccount goes out. (Unread GETs of one tab count as one.)
SignIn(t) ==
    /\ Asked
    /\ ~sync[t]
    /\ sync' = [sync EXCEPT ![t] = TRUE]
    /\ gets' = [gets EXCEPT ![t] = @ \union {Waiting}]
    /\ skipped' = [skipped EXCEPT ![t] = FALSE]
    /\ UNCHANGED <<browser, planner, stored, timer, sent, network, used>>

\* disableAccountSync, on sign-out. An answer on its way is not called off.
SignOut(t) ==
    /\ Asked
    /\ sync[t]
    /\ sync' = [sync EXCEPT ![t] = FALSE]
    /\ timer' = [timer EXCEPT ![t] = FALSE]
    /\ UNCHANGED <<browser, planner, stored, gets, skipped, sent, network,
                   used>>

\* The tab is closed and opened again, or reloaded: init reads the storage.
Reload(t) ==
    /\ Asked
    /\ planner' = [planner EXCEPT ![t] = Parse(stored[browser[t]])]
    /\ sync' = [sync EXCEPT ![t] = FALSE]
    /\ timer' = [timer EXCEPT ![t] = FALSE]
    /\ gets' = [gets EXCEPT ![t] = {}]
    /\ skipped' = [skipped EXCEPT ![t] = FALSE]
    /\ sent' = [sent EXCEPT ![t] = Empty]
    /\ UNCHANGED <<browser, stored, network, used>>

\* GET /api/account/plans reads the account; a failing read is answered as if
\* nothing had been saved.
ServeGet(t) ==
    /\ Waiting \in gets[t]
    /\ \E b \in {account, Empty} :
          gets' = [gets EXCEPT ![t] = (@ \ {Waiting}) \union {Parse(b)}]
    /\ UNCHANGED <<browser, planner, stored, sync, timer, skipped, sent,
                   network, used, asks>>

\* The rest of #hydrateFromAccount.
Hydrate(t) ==
    \E b \in gets[t] \ {Waiting} :
        /\ Save(t, Merge(planner[t], b))
        /\ gets' = [gets EXCEPT ![t] = @ \ {b}]
        /\ UNCHANGED <<used, asks>>

\* No answer, or one that is not ok: the tab keeps its plans, and syncs on.
GetFails(t) ==
    /\ \E b \in gets[t] : gets' = [gets EXCEPT ![t] = @ \ {b}]
    /\ skipped' = [skipped EXCEPT ![t] = TRUE]
    /\ UNCHANGED <<browser, planner, stored, sync, timer, sent, network, used,
                   asks>>

\* Mutants of Push: the PUT holds what the tab sent before; the timer never
\* fires.
PushAgain(t) ==
    /\ timer[t]
    /\ timer' = [timer EXCEPT ![t] = FALSE]
    /\ puts' = puts \union {sent[t]}
    /\ UNCHANGED <<browser, planner, stored, sync, gets, skipped, sent,
                   account, used, asks>>

PushNever(t) == FALSE /\ UNCHANGED vars

\* The timer of #pushToAccount: the PUT holds the plans of this moment.
Push(t) ==
    /\ timer[t]
    /\ timer' = [timer EXCEPT ![t] = FALSE]
    /\ sent' = [sent EXCEPT ![t] = planner[t]]
    /\ puts' = puts \union {planner[t]}
    /\ UNCHANGED <<browser, planner, stored, sync, gets, skipped, account,
                   used, asks>>

\* PUT /api/account/plans: the whole planner is replaced (savePlannerData).
ServePut ==
    \E b \in puts :
        /\ account' = b
        /\ puts' = puts \ {b}
        /\ UNCHANGED <<browser, planner, stored, sync, timer, gets, skipped,
                       sent, used, asks>>

\* A PUT that fails is forgotten.
PutFails ==
    \E b \in puts :
        /\ puts' = puts \ {b}
        /\ UNCHANGED <<browser, planner, stored, sync, timer, gets, skipped,
                       sent, account, used, asks>>

-----------------------------------------------------------------------------
Init ==
    /\ browser \in Placements
    /\ planner = [t \in Tabs |-> Empty]
    /\ stored = [b \in Browsers |-> Empty]
    /\ sync = [t \in Tabs |-> FALSE]
    /\ timer = [t \in Tabs |-> FALSE]
    /\ gets = [t \in Tabs |-> {}]
    /\ skipped = [t \in Tabs |-> FALSE]
    /\ sent = [t \in Tabs |-> Empty]
    /\ puts = {}
    /\ account = Empty
    /\ used = {}
    /\ asks = 0

\* What people do.
Ask(t) ==
    \/ \E p \in Ids : \/ CreatePlan(t, p)
                      \/ AddOffering(t, p)
                      \/ EditPlan(t, p)
                      \/ SelectPlan(t, p)
                      \/ DeletePlan(t, p)
    \/ SignIn(t)
    \/ SignOut(t)
    \/ Reload(t)

\* A GET gets an answer, if only that there is none.
Answer(t) == ServeGet(t) \/ Hydrate(t) \/ GetFails(t)

Next ==
    \/ \E t \in Tabs : Ask(t) \/ Answer(t) \/ Push(t)
    \/ ServePut
    \/ PutFails

\* Timers fire and requests end; nobody has to ask, and no PUT need be served.
Fairness == \A t \in Tabs : WF_vars(Answer(t)) /\ WF_vars(Push(t))

Spec == Init /\ [][Next]_vars /\ Fairness

-----------------------------------------------------------------------------
\* The copies of the planner there are: in tabs, in storage, in the account, in
\* what was last sent, and on their way.
Copies ==
    {planner[t] : t \in Tabs} \union {stored[b] : b \in Browsers}
        \union {sent[t] : t \in Tabs}
        \union ((UNION {gets[t] : t \in Tabs}) \ {Waiting})
        \union puts \union {account}

\* Every copy is a planner, and holds only plans whose id was given out: a new
\* plan never meets an older one of its id.
TypeOK ==
    /\ browser \in [Tabs -> Browsers]
    /\ planner \in [Tabs -> Planners]
    /\ stored \in [Browsers -> Planners]
    /\ sync \in [Tabs -> BOOLEAN]
    /\ timer \in [Tabs -> BOOLEAN]
    /\ gets \in [Tabs -> SUBSET (Planners \union {Waiting})]
    /\ skipped \in [Tabs -> BOOLEAN]
    /\ sent \in [Tabs -> Planners]
    /\ puts \subseteq Planners
    /\ account \in Planners
    /\ used \subseteq Ids
    /\ \A b \in Copies : Held(b) \subseteq used
    /\ asks \in Nat

\* The plan shown for a term exists and is one of that term.
Sound(b) ==
    \A t \in Terms : b.active[t] # None => b.active[t] \in HeldFor(b, t)

\* No copy of the planner ever points to a plan it does not hold, however
\* deletions in one tab meet the choices another one sent (deletePlan drops
\* the pointers, mergePlannerState filters them).
PointersSound == \A b \in Copies : Sound(b)

\* The storage of the tab's browser can be written, and by this tab alone.
Durable(t) ==
    /\ browser[t] \notin Private
    /\ \A s \in Tabs : s # t => browser[s] # browser[t]

\* The storage of such a tab holds what the tab shows.
StorageCurrent == \A t \in Tabs : Durable(t) => stored[browser[t]] = planner[t]

\* Nothing that changed while signed in is forgotten: it is being pushed or
\* was in the last push, unless the account has not answered yet or failed to
\* and nothing was saved since.
ChangesPushed ==
    \A t \in Tabs : sync[t] /\ gets[t] = {} /\ ~skipped[t] =>
        timer[t] \/ sent[t] = planner[t]

IInv == TypeOK /\ PointersSound /\ StorageCurrent /\ ChangesPushed

\* A plan disappears from a tab only because it is deleted there, whatever the
\* account answers and however often the page is reloaded ("prevents losing
\* local-only plans when a user signs in on a device that already has plans").
\* Tabs that share a browser can lose one, as a reload shows what the last of
\* them saved, and so can one whose browser stores nothing.
PlansKept ==
    [][\A t \in Tabs : \A p \in Held(planner[t]) :
          \/ p \in Held(planner'[t])
          \/ DeletePlan(t, p)
          \/ Reload(t) /\ ~Durable(t)]_vars

\* A term that had a plan goes on having one ("must leave a fresh empty plan,
\* not a blank tab strip"), with the same exception.
TermsKept ==
    [][\A t \in Tabs, m \in Terms : HeldFor(planner[t], m) # {} =>
          \/ HeldFor(planner'[t], m) # {}
          \/ Reload(t) /\ ~Durable(t)]_vars

\* Once people stop, what every signed-in tab shows was sent to the account,
\* also the plans made before signing in, unless the account could not be
\* asked.
PlansSent ==
    []<>(\A t \in Tabs : sync[t] => sent[t] = planner[t] \/ skipped[t])
=============================================================================
