# Room TBA: formal models

TLA+ models of the parts of Room TBA in which several people, several requests,
several database statements or several browser tabs meet: the contributor
proposals, the versioned updates of campus entities and their history, the
merging of two entities, the accounts, the browser's cache with its sync keys,
the room lists, the planner that follows its owner from device to device, and the
map on which editors move pins and undo the moves. TLC checks every model on
small instances; the TLA+ proof system proves the main results for instances of
any size. Paths below are relative to the repository; service files are in
`src/lib/services/`.

## The system

Room TBA is an Astro/Svelte site backed by Postgres (drizzle). Every API route
is a serverless invocation: a request handler that awaits the database several
times, with other invocations running in between. There are no long
transactions; rows carry a `version` column for optimistic locking.

| Component | State | Operations | What makes it correct |
|---|---|---|---|
| Contributor proposals (`proposal-service.ts`) | `edit_proposals`, `contributions` | submit / revise, approve, reject, request changes, withdraw | an approved row is published, once, with the patch that was claimed; competing suggestions exclude each other; review columns agree with the status; only published work is credited |
| Entity updates (`admin-service.ts`, `transit-service.ts`) | the entity tables with `version`, `editor_history`, the sync keys in `update_table` | updateRoom, updateBuilding, ..., each: read, versioned write, history entry, sync key | no lost update; each history entry brackets a real write; no version unaccounted for; every write announced |
| History restore (`history-service.ts`) | `editor_history` | restore an entry's after-snapshot through the update functions | the row shows the snapshot again |
| Entity merges (`merge-service.ts`) | entity tables, aliases, children | read both rows; in a transaction re-point the children, overwrite the target, delete the source; then history and sync keys | no child lost or left behind; what vanished can be looked up; tables written are announced; no edit lost |
| Accounts (`admin-user-service.ts`) | `admin_users` | role and activity changes under an advisory lock, creation, deletion, passwords, linking and unlinking Google, Google sign-in | an active admin remains; nobody locks themselves out; a waiting role change is answered |
| Client cache (`src/lib/local/data/`) | a PGlite database and the sync keys in local storage | compare keys, fetch, rewrite the rows, store the key | a cache that passes for valid holds everything announced |
| Room lists and offline downloads (`BuildingResult.svelte` and its siblings, `campus-directory-sync.ts`) | the cached rooms, a `rooms_fetched` flag per list, the list shown | open a list: paint, check, fetch, paint, write; download all lists | the panel shows the selected list, and a fresh one in the end; a saved directory has its rooms |
| Planner (`planner-store.svelte.ts`, `planner/persist.ts`, `planner-service.ts`) | plans in the tab, in local storage and in `planner_data` of the account | edit plans; on sign-in GET and merge; PUT after each change | no plan lost but by its deletion; no pointer to a plan that is not there; changes are sent |
| Map edit (`Map.svelte`, `map-move-history.ts`, `map-edit/`) | position overrides, an undo and a redo stack in the tab | drag a pin, undo, redo: each a PATCH with an expected version, whose answer sets the position and moves an entry between the stacks | what is shown and recorded is true of the row; an undo is exact or refused; it never overwrites another editor's position |
| AMIS import (`src/lib/amis/`) | `classes`, terms | batch import, run by hand | rows match the feed |
| Notifications, announcements, digests, read-only queries, user interface | little or none of their own | | |

How they interact. A proposal's approval calls the same update functions as the
admin PATCH routes, with the proposal's base version as the expected version.
The update functions write the history and change the sync key; a client that
polls the keys refetches the tables whose key changed. A restore calls the update
functions with fields of an old snapshot. Merges write entity rows without
going through the update functions. Notifications are sent without being
awaited once a handler is done. Admin pages and PATCH routes ask the session,
that is the account's row, before each call. A page loads the keyed tables
through the cache; a selected building, college or division loads its rooms
through its own panel, into the same database as the download. The planner
talks to the account only through its GET and PUT. The map sends the same PATCHes as
the panels of the admin pages; a second editor's save is seen as a conflict.

Hard behaviours. Every handler reads, decides and writes in separate
statements. Only some of the writes repeat the test the handler made (the claim
of an approval, a withdrawal, every versioned update); others are conditional on
the id alone (a resubmission, a rejection, a request for changes, the rollback
of an approval, most account updates). A statement may fail after earlier ones
succeeded, and the platform may end an invocation between two statements. In
the browser, loads do not wait for each other, answers arrive in any order, a
page may be closed in the middle of a loop of inserts, local storage survives
the database, and tabs and devices each write the whole planner. `PROJECT.json`
lists each hazard at its line, with the properties that cover it.

## Modules

| Module | Models |
|---|---|
| `Publishing` | abstract: what an approval promises about the work it claimed |
| `ProposalLifecycle` | `edit_proposals` and its handlers, the publication an approval makes, the contributions ledger; implements `Publishing` |
| `OptimisticEdit` | abstract: what the version column of an editable entity promises, without versions |
| `EntityUpdate` | one entity under concurrent updates and restores, statement by statement; implements `OptimisticEdit` |
| `EntityFamily` | abstract: what a merge promises to the children of the two parents |
| `EntityMerge` | merges of two parents, statement by statement, against editors; implements `EntityFamily` |
| `AccountRules` | abstract: what `admin_users` promises about each change of an account |
| `AdminAccounts` | `admin_users` under concurrent calls, statement by statement; implements `AccountRules` |
| `CacheSync` | one table of the browser's cache, its key, and the server's rows and key, for each way in which tables are written |
| `RoomLists` | the panel that shows a list of rooms, the cached rooms and flags, the download of all lists |
| `PlannerSync` | the copies of a planner in tabs, browsers, account and requests |
| `MapMoves` | drags, undos and redos of pins in one tab, against other editors |
| `ProposalLifecycleProofs`, `EntityUpdateProofs`, `EntityMergeProofs`, `AdminAccountsProofs`, `CacheSyncProofs`, `RoomListsProofs`, `PlannerSyncProofs`, `MapMovesProofs` | the theorems about them |
| `MCProposalLifecycle`, `MCEntityUpdate`, `MCEntityMerge`, `MCAdminAccounts`, `MCCacheSync`, `MCRoomLists`, `MCPlannerSync`, `MCMapMoves` | the instances for TLC (symmetry sets, functions over model values) |

### ProposalLifecycle and Publishing

`Requests` are the invocations that can run at one time. `pc[r]` says at which
statement invocation r stands, `req[r]` what it has read or was asked. One
action is one database statement, or a run of reads of which only the last is
used later:

| Code | Actions |
|---|---|
| `submitProposal`: lookup and merge | `SubmitRead` |
| ... `UPDATE ... WHERE id` / `INSERT` | `SubmitRevise` / `SubmitInsert` |
| `approveProposal`: read; claim; claim without a row | `ApproveRead`; `ApproveClaim`; `ApproveLost` |
| `applyProposalPatch` -> updateX / createX: versioned write; conflict; history; sync key | `ApproveApply`; `ApproveConflict`; `ApproveLog`; `ApproveSync` |
| `recordProposalContribution`, return | `ApproveCredit` |
| an error in the try block; the catch block | `ApproveFail`; `ApproveRollback` |
| `rejectProposal`, `requestProposalChanges` | `RejectRead`, `RejectWrite`; `ChangesRead`, `ChangesWrite` |
| `withdrawProposal` | `WithdrawRead`, `WithdrawWrite` |
| an editor's direct edit | `EditorPublish` (one step here, `EntityUpdate` has its statements) |
| the platform ends the invocation | `HandlerDies` (of the requests in `Mortal`) |

Data abstraction. The content of an entity is, per field, the version that last
wrote it; a patch gives, per field it sets, the version its author was looking
at. That is what the properties tell apart. All `create_*` proposals share one
target, `NewEntry`, whose version counts the rows created. Notes and reviewer
columns are present or absent. Anonymous contributors are one contributor
without an account; names are not modelled. A proposal id sent with a
submission names a row for the same entity, as the application's pages do;
it may be closed or belong to somebody else, and then a new row is inserted.

A patch sets a field the update knows. One that has only keys the update
ignores is approved in the code without a write of the entity (`updateRoom` and
its siblings skip the `UPDATE` when nothing is left to set), and is left out.

An approval whose invocation ends after the claim leaves a row that says
"approved" and may never have been published. `orphans` remembers those rows
for the properties: `ApprovedMeansPublished` and `ClaimResolved` except them,
because nothing in the code looks for them again.

`Publishing` says what an approval promises without handlers and statements: a
reviewer claims a suggestion that is open and from then on has *in hand* what it
said at that moment; the claim is published once, onto the version it was written
for and in the fields it sets, or given up; only published work is credited. About
the suggestion meanwhile it promises nothing, since the code does not:
`SubmitRevise`, `RejectWrite`, `ChangesWrite` and `ApproveRollback` are updates
`WHERE id`, and may rewrite, close or reopen a row another handler has claimed.
`PublishesAsClaimed` says that the handlers implement it. A row is *open*,
*approved*, *absent* or *closed* (rejected, withdrawn); a handler has its claim in
hand from the `UPDATE ... RETURNING` to the write; a failure, a conflict or its end
give it up, and history, sync key and notes are not seen.

### EntityUpdate and OptimisticEdit

One entity, its `version` and `content`, the history entries, and per editor a
call at one of its statements: `Edit` or `Restore` (the request arrives with the
version its panel showed), `Refuse` (duplicate name, validation), `ReadBefore`,
`Write` or `Conflict`, `ReadAfter`, `ReadRest`, `Log`, `Sync`. The constant `Reread`
distinguishes the two shapes in the code: buildings, colleges, divisions, dorms,
organizations and jeepney stops take the after-snapshot from the write's
`RETURNING`; rooms, room positions and events read again. `Kept` are the
fields a restore leaves alone, `Apart` those of them that are not in the entity's
row: a room's position, an event's locations, routes and stops. They are written in
the transaction that writes the row, but read by statements of their own, before
or after that of the row (`updateRoomPosition` sends both at once, `hydrateEvents`
one after the other), so a snapshot may show the version of one moment and such
a field of another. `unread` says which of them a call still waits for. The
coordinates an event's location takes from its building's or dorm's row are not
the event's, and not in its content; a merge that re-points such a location
belongs to `EntityMerge`. `past` is never stored by the program: it
remembers what the row showed at each version, for the properties. `Fail` ends
a call at any statement: the error is answered, what was written stays, and
`failures` remembers, again for the properties, which replaced version went
without its history entry.

`OptimisticEdit` says without versions what locking is for: an edit remembers
the *content* its author saw and lands in one step, only if the record still
shows exactly that, and touches only the fields it sets. `NoLostUpdate` states
that `EntityUpdate` implements it, with `record <- content` and
`edit <- EditUnderWay` (a call that has not written yet, with the content of
its expected version).

### EntityMerge and EntityFamily

`Kind` selects one of `mergeBuildings`, `mergeColleges`, `mergeDivisions` and
`mergeDorms`, which differ in the tables they re-point and the keys they change
(`Merger`). `mergeRooms`, whose children are classes and a map position that it
may delete instead, is not modelled.

| Code | Actions |
|---|---|
| the request, with the source version of the panel | `MergeAsk` |
| `Promise.all` of the two reads; not found, duplicate name | `ReadSource`, `ReadTarget`; `Refuse` |
| transaction: `lockedSource` select; its version differs | `CheckSource`; `Conflict` |
| `UPDATE` of the tables of children | `Repoint` |
| `UPDATE` of the target | `UpdateTarget` |
| `DELETE` of the source, `COMMIT` | `DeleteSource` |
| a statement of the transaction throws | `Abort` |
| a statement after the commit throws, or the invocation ends | `Fail` |
| reload of the target; two history entries; sync keys | `Reload`; `Log`; `Sync` |
| other editors | `EditParent`, `MoveChild` |

Isolation is Postgres' default, read committed. The select called
`lockedSource` takes no lock. An `UPDATE` locks the rows it meets until the
transaction ends, and a foreign key that is set holds a key-share lock on the
row it names. The model does not store locks: who holds what follows from
`pc[m]` and `job[m].moved`. What a transaction has written becomes visible
when it commits, so `DeleteSource` applies all of it. A child re-pointed to the
source after `Repoint` makes the delete fail on its foreign key (`NoOrphans`).

`Repoint` is one step for the `UPDATE`s of all tables of children: two for a
building (rooms, event locations). Nothing of the first is seen before the
commit, and a child moved to the source between the two is one that the delete
finds. `organizations.building_id` is no part of this: it has no foreign
key, no merge re-points it, and after a merge it may name a building that is
gone (the map then has no pin for an organization without coordinates).

The merged fields of a row are one text, picked as the code picks each: the
target's if it has one. The name an editor may prefer is left out. A merge
re-points children without changing their versions; child versions are not in
this model.

What is left when a merge throws after its commit, in `Reload` or by `Fail`, is
remembered in `failures`: its source and the tables it wrote, for which nobody
writes the entry or changes the keys later. The calls in `Mortal` may `Fail`. The
keys change at once (`Promise.all`); a failure among them is taken to leave all
of them as they were, the worst case for viewers.

`EntityFamily` has parents and children only: a merge is one step that removes
the source and hands all its children to the target. `FamiliesKept` states that
`EntityMerge` implements it, with `live` and `home` mapped to themselves.

### AdminAccounts

`Handlers` are the calls that can run at one time, a call of one of the
functions of `admin-user-service.ts` behind its route. Only
`updateManagedUser` is a transaction, and the lock it takes is held by whoever
stands between its read and its end.

| Code | Actions |
|---|---|
| PATCH of a user by an admin: the request; `pg_advisory_xact_lock` and the read; no such row | `ManageAsk`; `ManageRead`; `ManageMissing` |
| ... `countActiveAdmins`: another remains; none does | `ManageCount`; `ManageRefuse` |
| ... `UPDATE`, `COMMIT` | `ManageWrite` |
| `createAdminUser`, by an admin or as a signup | `CreateAsk`, `CreateInsert` |
| `softDeleteAccount` | `OwnAsk`, `DeleteWrite` |
| `changePassword`, `confirmPasswordReset` | `OwnAsk` or `ResetAsk`, `PasswordWrite` |
| `linkGoogleIdentity`: whose is it; somebody's; `UPDATE` | `OwnAsk`, `LinkRead`; `LinkTaken`; `LinkWrite` |
| `unlinkGoogleIdentity`: is there a password; none; `UPDATE` | `OwnAsk`, `UnlinkRead`; `UnlinkRefuse`; `UnlinkWrite` |
| Google sign-in: by identity, found or not | `SigninAsk`; `SigninLinked`; `SigninUnlinked` |
| ... by e-mail address, found or not; `UPDATE`; `INSERT` | `SigninMatch`, `SigninNoMatch`; `SigninLink`; `SigninInsert` |
| a refusal, an error or the end of the invocation | `Fail` |

A row is its role (admin or not), `is_active`, deleted or not, whether there is
a password, and the Google identity. Which account shares an identity's e-mail
address is left open: any one of them, or none. Profiles, the change of an
e-mail address, password sign-in (which writes nothing the properties speak of)
and `ensureBootstrapAdminUser`, which makes the first account, are left out; the
model starts with an active admin.

`AccountRules` has the rows only. A change of an account is one step, and its condition is
about the state it is made in: a role or the activity of an administrator is taken while
another one remains, Google is given up by an account with a password, an account begins
with a way to sign in and an identity alone makes no administrator. `FollowsRules` states
that `AdminAccounts` implements it, with `exists` and `row` mapped to themselves: none of
the checks made one or two statements before the write is stale when it lands. There is no
rule about whose identity is linked, since the code keeps none (see Disagreements).

### CacheSync

One table of the cache, the rigid variable `table`. The server changes rows
(`Change`) and, in a later statement, the table's key (`Announce`). A row is the
number of the change that wrote it, a key the number of its announcement, so
"older than" is "less than"; `past` and `announced` remember what the server had
and are stored nowhere.

| Code | Actions |
|---|---|
| `refreshFromNetwork` | `Begin` |
| `getSyncKey`, then `localTableSyncCheck` with local storage | `ReadKey`, `Compare` |
| `getEntity`: cached; request; answer; failure | `LoadCached`; `Request`; `Receive`; `FetchFails` |
| `retryStaleEventsInBackground` | `Retry` |
| `shouldSkipValidSync` | `Skip`, `StartSync` |
| the sync functions, see below | `Rebuild`, `Clear`, `KeepOld`, `Insert`, `LoseRow`, `SyncFails` |
| `updateSyncKeyFromLs` at their end | `StoreKey` |
| `invalidateLocalSyncKeys` | `Invalidate` |
| the page is closed; the browser drops the database | `Close`; `Evict` |

The sync functions of `sync.ts` write in three ways:

| Tables | How | Actions |
|---|---|---|
| events, jeepney routes | one transaction | `Rebuild`, or `SyncFails` and nothing is written |
| announcements | `DELETE`, then `INSERT` row by row, errors swallowed, that of the `DELETE` too | `Clear` or `KeepOld`, `Insert`, `LoseRow` |
| buildings, colleges, divisions, dorms, organizations, places | `INSERT ... ON CONFLICT DO UPDATE` row by row, errors swallowed, nothing deleted | `KeepOld`, `Insert`, `LoseRow` |

`spoilt` remembers the rows whose error was swallowed or that the server has
deleted and nobody else has. Refreshes run side by side: at load, when the
browser comes back online, and after a publication. An events answer is put
together by several statements of the server, so each of its rows is as it was
at some moment of the request (`Responses`); the others are one statement.
The number of retries is not counted.

Rows and key are two durable writes, of the browser's database and of local
storage, and the page may be closed between them (`Close` at `"committed"`). What
one page does is ordered: transactions queue, and the key of one is stored when
its awaited call resolves, before the next can end, so `Rebuild` waits for
whoever has committed. That leaves one bad moment: a refresh that read an older
key commits its rows over those of a newer one, and its page is closed before it
stores its key. `torn` remembers that for `TrustedIsFresh`, which excepts it; the next
commit ends it.

Classes have no rows in the cache and are not in the model: `GET /api/classes`
answers an object with `rows`, `nextCursor` and `hasMore`, `getEntity` takes only
arrays, and `syncClasses` therefore returns before it writes (see Disagreements).

Overlapping refreshes and a lost database (`Overlapping`, `Evictable`) are
allowed for the tables written in a transaction only. For the others
`TrustedIsFresh` is false with them (see Disagreements); the model therefore says
what holds while refreshes of such a table do not overlap, and what breaks it is
told there.

### RoomLists

The panel of one building, college or division, and the download of all lists.
`Loads` are the runs of the panel's effect; `Download` is the one download. The
panels of the three kinds run the same code, but only the building's is emptied
when another building is selected (`Clearing`). A panel of another kind is
mounted afresh (`seen`), a later selection in the same panel makes earlier loads
outdated (`current`); a load that is both is `Latest` and may write to the panel.

| Code | Actions |
|---|---|
| the effect: a selection; none; the rows there are; the list; the refresh after it | `Open`; `Unselect`; `Look`; `Show`; `After` |
| `checkLocalBuildingRoom` and its siblings | `Check` |
| `getEntityRooms` | `Get` |
| `fetchEntityRoomsRemote`: an answer; none | `Answer`; `NoAnswer` |
| `syncBuildingRooms` and its siblings: a row; the flag | `WriteRow`; `Flag` |
| `syncCampusDirectoryForOffline`: buildings, colleges, divisions; each list | `StartDownload`; `NextList`, `Take` |
| `downloadCampusDirectory`: the flag, the end and the error | `FlagTaken`, `NextList` |
| editors of rooms; a closed page (external) | `EditRooms`; `ClosePage` |

A row of a room is the set of lists it belongs to. `less` (of a load) and
`skipped` (of the download) remember where the code settles for less than the
server's list: a request failed and counts as an empty list, a row or the flag
could not be written, the refresh came back empty, or rows of the list were in
the table already and the server was not asked. The alias cache and pictures of
rooms are left out.

### PlannerSync

A planner is a set of plans, each with the number of the call that last wrote
it, and the plan shown for each term. There are copies in the tabs, in the
storage of each browser, in the account, and in requests under way.

| Code | Actions |
|---|---|
| `createPlan`, `duplicatePlan`, `importShared`, `ensurePlanForActiveTerm` | `CreatePlan` |
| `addOffering`, `replaceCourse` | `AddOffering` |
| `removeSections`, `removeOffering`, `updateSectionNote`, `refreshActivePlan`, `renamePlan` | `EditPlan` |
| `selectPlan`; `deletePlan` | `SelectPlan`; `DeletePlan` |
| `enableAccountSync`; `disableAccountSync`; `init` | `SignIn`; `SignOut`; `Reload` |
| GET `/api/account/plans` | `ServeGet` |
| `#hydrateFromAccount` with an answer; without | `Hydrate`; `GetFails` |
| `#pushToAccount`, when its timer fires | `Push` |
| PUT `/api/account/plans`; a PUT that fails | `ServePut`; `PutFails` |

Every action that changes the planner ends in `persist` (`Save`): local storage,
where it can be written, and the timer of the PUT. `Placements` says which tab
runs in which browser; the storage of a browser in `Private` cannot be written.
`Merge` is `mergePlannerState`: the union of the plans, the account's version of a
plan both have, and pointers to plans that exist. Requests are sets, so that an
answer or a PUT may be late, overtaken or lost. Plans' names, contents and
conflicts are left out; `used` (the ids given out) stands for random ids.

### MapMoves

A pin is a building, a dorm or an event's location (`Events`). `past[p]` lists the
positions its row has had, by version, as in `EntityUpdate`, whose statements
are one step here. `local` is the position and the version the tab has, whether
in an override (`own`) or in what it fetched.

An event's position is what its location says: coordinates, or the building or
dorm it is anchored to (`Anchors`; a building that was merged counts as the one it
was merged into). That is what PATCHes save and stacks keep. Where an anchored
event is drawn depends on the building's row (`resolveLocation`), which moves
without a new version of the event, so about the coordinates of anchored events
this module says nothing. A drag takes the location off its building; an undo puts
it back. Only the location that the map lets one drag is in the model.

| Code | Actions |
|---|---|
| `handleBuildingDragEnd` and its siblings, up to the PATCH of `saveBuildingPosition` | `Drag` |
| `undoLastMove`, `redoMoveBranch`, up to the PATCH | `Undo`, `Redo` |
| `updateBuilding`, `updateDorm`, `updateEventLocations`: the write; the answer; `EditConflictError`; an error before the write | `Serve`; `Reply`; `Conflict`; `Break` |
| `getEventById`, after the commit or for the conflict: the row; `hydrateEvents`: the locations | `ReadEvent`; in `Reply`, `Conflict` |
| `setLocalPosition` and `recordMapMove` | `DragSaved` |
| ... and `completeMapMoveUndo`; `completeMapMoveRedo` | `UndoSaved`; `RedoSaved` |
| the catch blocks: a conflict; any other error | `Conflicted`; `Failed` |
| fetching again what has no override | `Refresh` |
| other editors (external) | `EditorSaves` |

The buttons are disabled while an undo is under way (`undoing`), but Ctrl+Z is
not and neither are the pins, so any number of PATCHes overlap. The answer to an
event's PATCH is the event read again after the commit, so it may be a later
editor's, and as its version is read before its locations, these may be of a later
version still; so may those of a fetched event (`Refresh`). The answer to
a building's or a dorm's PATCH is the row written. `touched` is not in
the code: it names the pins of which `UndoReady` promises nothing. Suggesting a
move as a contributor, the override that shows an event's marker, and the switch
of the edit mode are left out.

## Runs

| Run | Specification | Shows |
|---|---|---|
| `ProposalHandlers` | `Spec` | two handlers, either of which may die between two statements, an editor, two rows of one entity: `ApprovedMeansPublished`, `CompetingSuggestionsExclusive`, `ReviewFieldsConsistent`, `CreditsBacked`; the inductive invariant `IInv`; the refinement `PublishesAsClaimed`; `ClaimResolved`: a claimed row is published or reopened, unless its handler died |
| `ProposalRejectRace` | `Spec` | counterexample to `RejectsOnlyOpen` |
| `ProposalAtomic` | `Spec` | counterexample to `PublishIsAtomic` |
| `ProposalStaleField` | `Spec` | counterexample to `StaleFieldNotPublished` |
| `EntityUpdates` | `MCSpec` | updates and restores of an entity with two fields, of which one is in another table, read apart and left alone by restores, and whose statements may fail: `IInv`, `HistoryFaithful`, `HistoryComplete`, `RestoresExact`, the refinement `NoLostUpdate`, and `WritesAnnounced` |
| `MergeFamilies` | `MCSpec` | two merges of colleges, and editors who move children or save: `IInv`, the refinement `FamiliesKept`, and `MergesAnnounced`, `MergesRecorded` |
| `MergeStaleTarget` | `Spec` | counterexample to `KeepsTargetEdits` |
| `Accounts` | `Spec` | two calls at a time over two accounts and a Google identity: `IInv`, `AdminRemains`, `CanSignIn`, the refinement `FollowsRules`, and `ManageAnswered` |
| `CacheTables` | `Spec` | events, jeepney routes, announcements and buildings, closed pages, failing statements, and for the first two overlapping refreshes and a lost database: `TypeOK`, `TrustedIsFresh`, `IInv` |
| `RoomLists` | `Spec` | two loads at a time, one of which may be the download, over two buildings and two colleges: `IInv`, `ShownOfSelection`, `ShownFresh`, `DirectorySaved`, `LoadsEnd` |
| `PlannerSync` | `Spec` | two tabs in one browser, in two, or one of them in a private window: `PointersSound`, `ChangesPushed`, `IInv`, `PlansKept`, `TermsKept`, `PlansSent` |
| `MapMoves` | `MCSpec` | a building and an event, two PATCHes at a time: `IInv`, `UndoReady`, `UndoExact`, `ButtonsReturn` |

Where a run does not list `TypeOK`, it is checked as a conjunct of `IInv`.

The runs with a counterexample have no handler that dies and one row: the trace
needs no more.

Bounds. `MaxAsks` bounds the calls made in a behaviour (submissions, reviews,
direct edits; merges, edits and moves; refreshes; what people do in the
browser), `MaxVersion` the versions an
entity reaches, `MaxChanges` the changes on the server, `MaxFailures` the requests
and statements of room lists that fail, `MaxOverlap` the jobs under way at a time.
Statements inside a call are not bounded.

* Proposals: two handlers at a time and four calls reach submit, approve, revise
  and a second approval or a direct edit. Each race listed is between two
  statements of one handler and a statement of another. Competing suggestions
  need two rows of one entity. The passing run has one field; what a patch with
  two fields adds, fields written against different versions, is what
  `ProposalStaleField` is about.
* Entities: three versions with two editors contain an update, a competing one
  and a restore of the first. With two fields an update can set one and leave
  the other, and a restore can keep one; one field of each place is enough for a
  snapshot to mix two versions. All fields start with one value (`MCInit`). The after-snapshot is read again
  (`Reread`), which allows more than taking it from the write; the proofs cover
  both.
* Merges: three colleges allow chains (b1 into b2 while b2 into b3),
  exchanges and two merges of one source; one row in each of two child tables is enough for
  a merge to take one child and not the other; the third call is an editor's
  move or save. Of the initial states that differ only in the names of the
  colleges one is taken, with all texts filled in (`MCInit`), and one of the two
  merges may fail (the other still throws when its target is gone). The other
  kinds differ in the tables that are re-pointed and the keys that are changed;
  the proofs are for all of them. `MergeStaleTarget` needs two texts.
* Accounts: two accounts, of which either, both or one may be admins, and one
  identity for which they can compete; three calls, two of them at a time, let a
  third finish inside the window of the first.
* Cache: two rows show torn answers and half-written tables. Two changes and
  three refreshes of which two overlap let an old refresh finish after a newer
  one.
* Room lists: a building and a college with one room in common, and a second of
  each to which the other room moves, so that rows of a list arrive by another
  list; one move, a closed page or an overtaking selection fits in three calls,
  and one failure is enough to see each way of settling for less.
* Planner: two plans of one term and one of another are needed to delete a
  term's last plan, with and without siblings; four calls let both tabs create a
  plan, one sign in, and one delete or edit.
* Map: one pin whose answers are the row written and one whose answers are read
  again, which may be anchored to a hall; two entries fit on the stacks; four calls let a
  drag, another pin's drag, an undo and a drag while it is under way meet, or two of
  them and another editor's saves between the statements of an answer. Every pin starts at
  one place or is anchored (`MCInit`): places of two pins are never compared.

Merges, parents, refreshes and rows are interchangeable in the runs that declare
a symmetry set; runs with a liveness property declare none. Deadlock checking is
off where the bound on calls lets the system stop (all but `EntityUpdates`).

Fairness. `WF(Continue(r))` per invocation (handler, update, merge, account call):
one that is running is not suspended for ever between two statements. Each is an
awaited database call that either returns or throws, and both are in `Continue`,
or the call goes on to the next statement. Nobody has to ask for anything, so
`Ask`, `EditorPublish`, `EditParent` and `MoveChild` have none; `HandlerDies` and
`Fail` have none either, so the liveness properties hold whether or not they
happen. `RoomLists`: `WF(Load(j))` and `WF(DownloadStep)`, a local statement ends
and a request is answered, if only by the error of its timeout. `PlannerSync`:
`WF(Answer(t))`, the GET gets an answer or fails, and `WF(Push(t))`, a timer that
was set fires; no PUT need ever be served. `MapMoves`: `WF(Answer(c) \/ Return(c))`,
a PATCH ends, if only in an error, and its handler runs. `CacheSync` states no fairness: a user
may close the page whenever they like.

Where a liveness property is narrower than one would wish. `MergesAnnounced` is
about colleges and divisions: building and dorm merges re-point event locations
and do not change the key of events. `MergesAnnounced` and `MergesRecorded`
except what a merge that threw after its commit has written or removed
(`failures`). That needs no broken database: when one merge removes the target of
another before it is reloaded, the other throws before its history entry and keys.
`LoadsEnd` and `PlansSent` speak of the time after people have stopped (in the model,
after `MaxAsks`): a user who keeps selecting or editing restarts loads and timers.
`ButtonsReturn` is about overlapping undos that fail or get lost, not about a user
who presses Ctrl+Z for ever.
`PlansSent` is about sending, since a PUT that fails is not repeated.

## Disagreements with the repository's documents

Each of the first four has a run with a counterexample.

* A rejection or a request for changes overwrites a row that was decided
  after its read (`finalizeProposal` updates by id). A proposal can read
  "rejected" with its patch live.
* An approval is not atomic. If the history entry, the sync key or the credit
  fails, the entity is changed and the proposal is open again; approving it
  again creates a second row for a `create_*` proposal.
* A contributor's revision renews the base version of the whole merged patch,
  so fields written against an old version are published over newer ones.
* A merge writes the target's fields as it read them before the transaction, and
  compares no version of the target: a save in between is overwritten.

Seen while modelling, without a run of their own:

* Two submissions at once leave two open rows of one contributor for one entity.
* Restoring a building leaves `crFacilities` as it is.
* The source's version is compared by a select without a lock; a source saved
  between that and the delete is deleted with the save.
* If the target is deleted meanwhile, or two merges exchange source and target,
  a merge of a source without children leaves no survivor.
* Building and dorm merges change event locations without announcing events.
* Tables written row by row: two overlapping refreshes, or a database the
  browser has dropped followed by a page closed in the middle of the inserts,
  can leave part of the table under a key that passes for valid.
* Events and jeepney routes: a comment (`sync.ts:576-579`) promises that a
  "stale-but-complete cache is retried on the next sync instead of being marked up to
  date". Rows of an older refresh can lie under a newer one's key when the page is
  closed between the two writes, and are not retried until the key changes again
  (`torn`).
* Classes never reach the browser's cache, since the answer of `/api/classes` is no
  array; the download of class schedules reports success with no rows.
* A snapshot in the history of a room's position or of an event is read by several
  statements. With another save in between it shows the row of one version and
  position or locations of another, so the entry's "after" need not be anything that
  was ever saved. A restore takes none of those fields.
* An event anchored to a building is drawn where the building was when the event
  was fetched; a move of the building reaches it with the next fetch only.
* Announcements: a comment (`sync.ts:458-459`) says that deleted announcements
  must leave the cache too, but a `DELETE` that fails is swallowed, and the key is
  stored as if it had worked.
* Accounts: no unique index backs the lookup of a Google identity, so a link and
  a sign-in at once can give one identity to two accounts. The comment at
  `admin-user-service.ts:101-104` speaks of an existing account without a link;
  the code writes over a link the account has. A lookup that fails counts as
  "no account" and goes on to the e-mail address. An admin who deletes the
  own account is not asked whether another one is left, and a password, a link or
  a role change that was under way then lands on the deleted row.
* Planner: after a PUT that failed, the next sign-in takes the account's older
  version of the plan over the edited one, although the comment at the catch
  says that local storage already holds the change. A GET that fails, or is
  answered with `data: null` because the read failed, leaves syncing on, and the
  next PUT replaces plans of the account that were never merged. PUTs that
  overtake each other, or come from two devices, replace the whole planner; a
  deleted plan comes back by the union with a copy that has it. Two tabs of one
  browser write under one key, and a reload shows what the last one saved.
* No function stores the key of `rooms`, so each online check of a building's
  rooms finds a mismatch and resets `rooms_fetched` of all buildings.
* The panels of colleges and divisions show the list selected before, under the
  new name, until the first rows of the new one are there.
* The download does not ask for a list of which the table holds any row (one
  that a college shares with a building, or is left from a download that was
  broken off), and counts it as fetched. A request that fails counts as an empty
  list. The directory is then reported as saved, which `OfflineMaps.svelte`
  words as "Buildings, rooms, ... saved for offline search."
* Rows that another load wrote between the two looks at the table are shown as the
  whole list, without a refresh. A list that became empty on the server keeps
  its old rooms on the screen, and rooms that were deleted stay in the cache.
* Undo on the map. `docs/editor-foundation-test-plan.md:95-104` says that Undo restores the
  most recent saved move and that failures show no misleading position. A pin moved
  twice and undone once leaves its first move on the stack with a past
  version: every further undo answers with a conflict, and as the entry stays on
  top, nothing below it can be undone any more. A move that is saved while an
  undo is under way is dropped in its place, and the undone one stays. A save that fails
  after a later one was saved sets the map back to the older position.
* For an event, the version recorded with a move is read again after the commit and may
  be another editor's; the undo then passes the version check and
  overwrites what that editor saved, which the same plan (`:104`) rules out.
* The override of a moved building or dorm hides what others save later, until
  the page is loaded again.

## Proofs

All theorems hold for any sets of handlers, rows, entities, users, fields,
merges, parents, accounts, refreshes, rooms, lists, tabs, browsers, plans, pins and any
bounds. Their only assumptions are those named in the modules: `NewEntry`, `Anonymous`,
`None`, `Unset`, `NoEdit`, `Empty`, `Waiting` and `Download` are outside the sets they
extend, `Kept` is a set of fields, `Apart` one of those, `Kind` and `Tables` are among those the code has, bounds
are numbers, every list has a kind, a room is in at most one list of a kind, every plan has
a term, events are pins, anchors places. There may be any finite number of loads of room lists, and no more
under way than there are (`LoadsAssumption`, `BoundsAssumption`): a load that starts needs a
name nobody uses.
`CacheSync` also assumes what its section says of `Overlapping` and `Evictable`.

`ProposalLifecycleProofs`:

* `TypeCorrect`: `TypeOK`.
* `Invariance`: `IInv`, the inductive invariant. The safety properties are not
  inductive alone. `CreditsBacked` needs to know that the invocation about to
  write a credit remembers a publication on record and the owner of an existing
  row (`RequestConsistent`), and that a credited row exists, so that its
  owner is settled (`CreditedRowsExist`). `ReviewFieldsConsistent` needs the
  values a rollback restores to be those of an open row. Exclusion of
  competing suggestions follows from the numbering of publications
  (`PublicationsNumbered`): an update's version is the successor of its base,
  and no two publications of a target share a version.
* `Exclusive`, `ReviewFields`, `CreditsAreBacked`: the three properties, from it.
* `ApprovedPublished`: `ApprovedMeansPublished`, one step per action on top of
  `IInv`. Rows whose approval died after its claim are excepted, until an approval
  claims them again (lemma `OrphansClaimed`).
* `Refinement`: `PublishesAsClaimed`, one lemma per kind of statement. The interesting
  steps are the unconditional updates: `ApproveRollback` is a `Decide(p, "open")`
  because the status it restores is an open one and its row exists
  (`RequestConsistent`), `RejectWrite` one to "closed" whatever the row says by
  now, `SubmitRevise` a `Suggest` because a revision keeps its target;
  `ApproveCredit` is a `Credit` because the publication it remembers is on record.
* `PromisesKept`: whatever follows `Publishing` publishes at most one of the
  suggestions made for one version of an entity and credits only what was published.
  So these follow from the protocol of claims alone, not from anything the handlers
  do to the rows between; the proof (`PromiseInv`) uses only the abstract steps.

`EntityUpdateProofs`, with statements that may fail:

* `Invariance`: `IInv`. `past` lists the contents by version and ends in the live
  one (`PastNumbered`), and each call knows of its snapshots where their fields come
  from (`JobsConsistent`, `Since`): nothing in a before-snapshot is older than the
  call's expected version; since the write requires the version to *be* the
  expected one, every part of it turns out to be exactly what the write replaced, in
  however many statements it was read. An after-snapshot has no such luck: its row is of
  the version it names, and its fields outside the row of versions that need not be,
  but never of one before the write. Where the after-snapshot is the write's `RETURNING`
  it is genuine and the next version.
* `TypeCorrect`: `TypeOK`. `Faithful`: `HistoryFaithful`.
* `KeysComing`: `NoWriteForgotten`, a part of `IInv`. Every version is announced, or the
  call that wrote it is on its way to the key, or it failed. A new key makes viewers fetch
  the row as it is by then, so one key change settles all versions before it, whichever
  calls wrote them.
* `Complete`: `HistoryComplete`. Every version that was replaced has exactly one
  account: its entry, the call that is about to write it, or the failure that
  lost it. The proof follows the accounts of one version through each action: a
  `Write` opens that of the version it replaces, `Log` and `Fail` move it, nothing
  else touches it.
* `Restores`: `RestoresExact`. A call knows the entry it restores, and the history only
  grows (`RestoresKnown`, lemmas `RestoreSettled`, `HistoryGrows`). The entry's
  after-snapshot shows its row at a version it really had (`HistoryFaithful`), and the restored
  fields are all taken from that one (lemma `RevertApplied`).
* `Refinement`: `NoLostUpdate`. Initial states map to initial states; `Write`
  maps to `Publish` because at that step the expected version is the current
  one, so the content the editor saw, `past[expected]`, is the content there;
  `Edit` and `Restore` map to `Begin`, `Refuse` and `Conflict` to `Drop`, the
  rest to stuttering.

`EntityMergeProofs`:

* `Invariance`: `IInv`. Every child has a live parent (`Housed`); what a
  transaction has re-pointed still names its source for everybody else and its
  target is live (`HeldChildren`); no two transactions hold a child
  (`ExclusiveChildren`). These are what the locks are for, and each action
  of another party preserves them because it has to wait for the lock.
* `TypeCorrect`: `TypeOK`.
* `NothingForgotten`: `KeysOwed` and `EntriesOwed`, parts of `IInv`. While a table a merge
  announces is stale, or a vanished parent has no entry, a merge that wrote that table or
  removed that parent is on its way there or has failed. `DeleteSource` takes on both
  debts, `Log` and `Sync` pay them, `Throw` records them as lost; one
  merge's key change may pay another's debt, as viewers fetch whatever is committed by then.
* `Refinement`: `FamiliesKept`. `DeleteSource` maps to `Absorb`: by `HeldChildren`
  what was moved belongs to the source, and by the foreign key (`NoOrphans`)
  nothing else does. `MoveChild` maps to `Move`, the rest to stuttering.
* `NoChildLost`: `Housed`, from the invariant. `FamilySuffices`: it follows from
  `EntityFamily` alone as well, so any code that implements that module keeps it.

`AdminAccountsProofs`:

* `Invariance`: `IInv`. `AdminRemains` follows because the lock has one holder
  (`LockHeld`), what the holder read of its target stays true but for a deletion
  (`SeenHolds`), and the other admin it counted is one still (`GuardHolds`):
  whoever else could demote or deactivate that admin would need the lock.
  `CanSignIn` needs `UnlinkHolds`, that the password an unlinking call saw is
  still there, since nothing but a deletion takes a password away, and `Present`
  and `LinksName`, that such calls work on rows that exist and identities that do.
* `TypeCorrect`, `AdminAlways`, `SignInAlways`: the properties, from it.
* `Refinement`: `FollowsRules`. Reads and refusals map to stuttering, each write to the rule
  for it: `ManageWrite` to `Manage` by `GuardHolds`, `UnlinkWrite` to `Unlink` by
  `UnlinkHolds`, the inserts to `Create` by `LinksName`.
* `RulesSuffice`: a step that follows the rules leaves an administrator and locks nobody
  out. A change of `admin-user-service.ts` that keeps the rules keeps both promises.

`CacheSyncProofs`:

* `RefreshesHonest`: a key is announced after its change (`KeysAnnounced`), and
  what a refresh fetches is no older than the key it read before (`JobsFresh`).
  The order matters: the server writes rows first and the key second, the client
  reads the key first and the rows second.
* `TypeCorrect`: `TypeOK`.
* `Invariance`: `IInv`: the above and `StoredFresh`, that rows and key belong
  together, be it that an older refresh is between its rows and its key, or was closed
  there. For a table written row by row this needs to know that a refresh is alone
  (`Alone`), that its key is newer than the stored one, so that the cache does not pass
  for valid while it is half-written and no page closed can tear it (`JobsNewer`), and that
  what it has done is done (`JobsWritten`, `SpoiltTolerated`). For the others, that one
  refresh at a time has committed and not stored its key (`OneCommitted`).
* `TrustedFresh`: `TrustedIsFresh`, for every kind of table, with its exception.

`RoomListsProofs`:

* `Invariance`: `IInv`. The panel: the latest load is one of the panel's, never the
  download (`PanelOwned`); it is of the list selected, and from the first time it paints on
  that list is shown (`PanelTrue`). What it has in hand and will not refresh, or has shown
  for good, the server held since the selection (`PanelFresh`). That needs the order of a
  load's statements (`LoadsOrdered`), as "will refresh" is decided by what it found in the
  table. An earlier load may still paint, read, reset flags and write rows; the proof has one
  lemma per action (`...Moves`) that says how it changes its own record, and one
  (`LatestHolds`) that a record which is not the latest is no concern of the panel.
* ... The download: room by room and list by list, a room of the server that has not
  changed is in a list still to be taken or settled for less on, or is in the table, or is
  before the download in its current list (`SavedSoFar`, `Due`). `WriteRow` moves a room from
  the third kind to the second, a failure its whole list to the first; writes of other loads
  only add rows (lemma `RowsGrow`). `DownloadOrdered` says that rows it will not write are of
  a list settled for less on.
* `LoadFree`: where a load may start, one of the panel's is not in use. `Open` chooses it, and
  would otherwise overwrite a load under way.
* `TypeCorrect`: `TypeOK`. `SelectionShown`, `FreshShown`, `SavedDirectory`: the properties
  `ShownOfSelection`, `ShownFresh` and `DirectorySaved`, from `IInv`.

`PlannerSyncProofs`:

* `Invariance`: `IInv`. Every step is one of two kinds: it saves a new planner in
  one tab, or it moves copies there already are. A new planner is sound and holds
  only plans given out, which is shown once for each way to make one (a plan
  written, chosen, taken out, merged, parsed); the rest is that copies stay
  copies.
* `TypeCorrect`, `PointersAlways`, `PushedAlways`: the properties, from it.
* `PlansAlwaysKept`, `TermsAlwaysKept`: the action properties `PlansKept` and
  `TermsKept`. The only steps that shrink a tab's planner are `DeletePlan`, which
  puts a fresh plan in the place of a term's last one, and `Reload`, which in a
  tab with a working storage of its own finds what it last saved
  (`StorageCurrent`).
* `MergeSettles`: `mergePlannerState` reaches a fixed point at once. With the merged
  planner in the account, tabs that have either side of the merge agree with it after they
  sign in; they differ only by what they edit later. It needs both sides to be `Sound`,
  which `PointersAlways` says of every copy: a pointer to no plan would be overtaken
  by the other side's choice one merge later.

`MapMovesProofs`:

* `MovesTrue`: `IInv`. Its first part (`Truthful`) says of every place in which the tab
  keeps a position and a version, of what it shows (`LocalTrue`), the stacks
  (`StacksTrue`) and the requests under way (`CallsTrue`), that the row had this
  position at this version, or, for an event, at this version or later (`Read`). Rows
  are only appended to, so what was true stays true (lemma `PastKept`), and the order of
  answers does not matter: an old answer is an old truth. That a PATCH says of an event
  where it was needs no more: if the version is still the row's, no later one can have
  been read. Stacks and undos of events are excepted, for the reason above. The second
  part is about the pins the tab keeps track of: such a pin has one move on the two
  stacks together (`OneEntry`), and if the move's version is not the row's, the call
  that wrote the row is still under way (`Awaited`). When that call returns, it pops
  just this move.
* `UndosExact`: `UndoExact`. A PATCH is served when its version is the row's; by
  `CallsTrue` the position it was made from is then the row's too, for an event
  because none newer than the row's last can have been read.
* `MovesReady`: `UndoReady`, from `Awaited`. `MovesTyped`: `TypeOK`.

Only model-checked: the liveness properties `ClaimResolved`, `WritesAnnounced`,
`MergesAnnounced`, `MergesRecorded`, `ManageAnswered`, `LoadsEnd`, `PlansSent` and
`ButtonsReturn`, as fairness and `ENABLED` are outside the prover's reach. What they rest on
beside fairness is proved where it could be wrong: that whatever is owed has somebody who
owes it (`KeysComing`, `NothingForgotten`, `PushedAlways`, `ApprovedPublished`, and `Awaited`
in `MovesTrue`). Every other property of a passing run is a theorem. The counterexamples are runs.

## Not modelled, and the plan

The order of the work was: proposals first, then the versioned updates on which
they rest, merges, the cache, which reads what they announce, accounts, the
planner, the room lists with the offline download, and the map's undo. What is left, in this
order:

1. A composition of `EntityUpdate` and `EntityMerge`: a merge re-points a child
   without changing its version while an editor's panel is open on it; a
   restore of an entry from before a merge; deletions with an expected version.
2. `CreateBundle`: the rooms of a `create_building` proposal and the deletes that
   undo a failed bundle (one insert in `ProposalLifecycle`).
3. `mergeRooms`, and the lookups of duplicate names, which no unique index backs.
4. Suggested pin moves (`mapProposalStore`), which end in a proposal.

Left out: notifications (not awaited, change no state), announcements, digests
and read-only queries (single statements), the AMIS import (a batch run by
hand), the download of map tiles and of class schedules (counters), the user interface, and pure functions
that change no state, which unit tests cover (conflicts of a plan, the encoding
of a shared one). `updatePlace` keeps no history and is covered as far as its
version-checked write goes.
