# WikiTraveler in TLA+

A verification project for WikiTraveler, a federation of self-hosted nodes that
collect and exchange accessibility facts about places. The modules are
translated from the TypeScript source; `PROJECT.json` maps every definition to
the lines it stands for, lists the TLC runs and the theorems, and keeps the list
of hazards that the properties are aimed at.

    tlc -workers 2 -config MeshSafety.cfg MCFactRaces    model-check one run
    tlapm FactMesh_proofs.tla                            check the proofs of a module

## 1. Inventory

The repository is a monorepo: `apps/node` (a Next.js server with a Postgres
database through Prisma), `apps/access` (a PWA for travelers and auditors),
`apps/lens` (a browser extension), `packages/core` (the merge rules shared by
all), and clients, sites, scripts and deployment files around them. Nodes have no
shared state: they push to each other's `/api/inbox` and pull each other's
`/api/gossip/snapshot`. Inside a node every request is a handler of its own, and
handlers interleave at every `await` of a database call; only a few use a
transaction.

| Component | State | Operations | What is hard | What makes it correct |
|---|---|---|---|---|
| Merge rules (`core/merge.ts`) | none | `evaluateConfirmed`, `mergeGossipDelta` | tier *or* time decides; promotion is sticky | only enough auditors promote; same tier: newest wins |
| Fact federation (accessibility, push, inbox, snapshot, ingest, cron routes) | `AccessibilityFact`, requests under way | audit, push, receive, fetch, ingest | read-merge-write without a transaction, lost pushes, partial failures, restarts | every stored fact was audited; CONFIRMED is earned; nodes converge; no newer fact is lost |
| Metadata overrides (`propertyMetadata.ts`, `metadataMerge.ts`) | `PropertyMetadataOverride` | PATCH, reset, push, apply, resolve | field-by-field writes, write-back of stale rows, region filter by the current position | corrections arrive everywhere, whole and unaltered |
| Refresh sessions (`refreshSession.ts`, `authStorage.ts`, `accessApi.ts`) | `RefreshSession`, stored token, in-flight request per tab | login, rotate, expire, sign out, refresh on 401 | find-then-revoke, lost answers, several tabs | a token is used once; the stored token is live |
| Other fact writers (`overpass.ts`, `aiAnalyze.ts`, `wheelmap.ts`, `auditReconcile.ts`) | `AccessibilityFact` | upsert OFFICIAL / AI_GUESS, delete | protected fields read long before the write; no tombstones | an audit is never replaced or resurrected |
| Region ingest jobs (`ingestJob.ts`, `tileCache.ts`) | `IngestJob`, `IngestJobTile`, cache on disk, node bbox | create, process, retry, fail stale | restarts, two processors of one job, timeouts | a completed tile was ingested; an undisturbed job is whole |
| Region save and purge (`regionSave.ts`, `regionPurge.ts`) | node bbox, properties | save, purge, note of re-import | bbox committed before the purge, gossip already let through | nothing outside a region that shrank stays |
| Backup / restore / export / import (`admin` routes, `nodeDataTransfer.ts`) | properties, facts, settings, files | backup, restore, export, re-import, import | row by row, while audits and gossip go on | what was in the file is there again |
| Profile sync (`profileSync.ts`, favourites and preferences routes) | browser cache, stamps, timers, server lists | edit, debounce, push, pull, close | answers that overtake edits, list and stamp read apart | an edit is not lost; equal stamps mean equal lists |
| Community signals (`communitySignals.ts`) | `CommunitySignal` | report, settle, delete, clear | count, find and write apart | the limit holds up to the calls in flight; nobody overwrites another's report |
| Gossip property upsert (`gossipProperties.ts`) | `Property`, fact ids | find, create, remap ids | two deltas at once, renames and deletes between | an accepted fact is attached to its place |
| Peer tables (`bootstrap.ts`, `linkPeer.ts`, `nodes`, `inbox`, `snapshot`, `ingest`, `cron`) | `NodePeer` | link, add, remove, refresh, push, pull | six writers of one row, hearsay | a stored key is the peer's own; clients are sent to a node that covers the place |
| Peer resolution (`peerResolve.ts`) | none | smallest containing bbox | ties, boundaries | the choice meets its definition |
| Authentication (`auth.ts`, `httpSignature.ts`, integrators) | key cache | sign, verify | stale keys | - |
| Audit form (Access and a copy in the node UI) | form, draft in sessionStorage, photos being compressed, submissions | prefill, edit, save, pick, submit, cancel | late facts, late photos, late answers | answers and photos are kept; a submitted draft is gone |
| Lens (`nodeApi.js`, popup, options, content scripts) | extension storage | sign in, refresh, sign out | no single flight, pages that close | the stored token is live; token and name are of one account |
| Hover cards of Lens (`content.js`) | node and cards of the page, timers, the tooltip | enter, leave, focus, blur, look up, show, hide | one variable for all hide timers, answers after the pointer has left, a setting that changes meanwhile | cards are of the node in the settings; no tooltip stays behind |
| Discovery screen of Access (`SearchTab.tsx`, `RegionMap.tsx`) | query, position, node, results | type, search around, browse the map | three kinds of search share results and node; one of them is never aborted | what is shown is what was asked for, from the node the links lead to |
| Read caches (`clientCache.ts`, `lensCache.js`) | entries, requests under way | read, join, remember, evict, invalidate | an invalidation while a request is under way | own changes are seen |
| Photos, translations, field registry, statistics, rate limiting, SDK, sites, scripts | own tables or none | reads, I/O, presentation | - | - |

The hazards, each at its line, are in `PROJECT.json`; those without a property
carry a note that says why or in which planned module they belong. Many passing
properties carry an exception (`crossed`, `disturbed`, `late`, `strayed` and the like),
because the code does go wrong there. Where the exception is the very case of a hazard
the note says so: the property then shows that nothing else goes wrong, and not that
the hazard is harmless.

## 2. Modules

| Module | Models |
|---|---|
| `FactMerge` | the operators of `packages/core/src/merge.ts` on the rows of one (property, field, scope) |
| `ProvenanceLog` | abstract: what the exchange of rows promises, copies of the logs that their owners append to |
| `FactMesh` (extends `FactMerge`) | the federation of nodes exchanging facts; implements `ProvenanceLog` |
| `FactRaces` (extends `FactMesh`) | the same with a history of the rows that were overtaken between a read and an upsert |
| `FactWriters` (extends `FactMerge`) | everything that writes the facts of one field on one node: audits, deletions, OSM, Wheelmap, two AI analyses, gossip; two scopes; what a reader is shown |
| `MetadataOverrides` | corrections of a property's coordinates and their exchange; implements `ProvenanceLog` |
| `OverrideRaces` (extends `MetadataOverrides`) | the same with a history of the rows that were overtaken |
| `PropertyIds` | property rows, their unique ids, and the remapping of fact ids by concurrent deltas |
| `NodeData` | what an administrator does to the data of a node: region save and purge, backup, restore, export, re-import, import |
| `IngestJob` | ingest jobs, their tiles and the processors that advance them |
| `CommunitySignals` | reports of travelers, their limit and their queue |
| `PeerTables` | the peer tables of the nodes and the keys in them |
| `SessionFamily` | abstract: what refresh tokens promise, families in which a token is spent before it gets a successor |
| `RefreshSession` | refresh tokens: the server's sessions and the tabs of one browser; implements `SessionFamily` |
| `LensSession` | the session of the Lens extension; its home node is an instance of `SessionFamily` |
| `ProfileSync` | favourites of one account on its home node and several devices |
| `AuditWizard` | the audit form of one tab with its draft, photos and submissions |
| `PlaceSearch` | the discovery screen: typed search, search around the traveler, browsing the map |
| `ClientCache` | the read caches of Access and Lens |
| `LensCards` | the hover cards of Lens on a page of search results |
| `NodeServices`, `ClientsAndPeers` | components side by side, see below |
| `MCFactMesh`, `MCFactRaces`, `MCMetadataOverrides`, `MCOverrideRaces`, `MCRefreshSession`, `MCFactWriters`, `MCNodeServices`, `MCClientsAndPeers` | TLC instances: symmetry and values of constants |
| `FactMesh_proofs`, `MetadataOverrides_proofs` | theorems and proofs of the module they are named after, of its races and of its refinement of `ProvenanceLog` |
| `FactWriters_proofs`, `IngestJob_proofs`, `PeerTables_proofs` | theorems and proofs of the module they are named after |
| `Sessions_proofs` | of `RefreshSession` with its refinement of `SessionFamily`, and of `LensSession` |
| `NodeServices_proofs` | of `CommunitySignals`, `PropertyIds` and `NodeData`, and of `NodeServices` |
| `Clients_proofs` | of `LensCards`, `ClientCache`, `PlaceSearch`, `AuditWizard` and `ProfileSync`, and of `ClientsAndPeers` |

Definitions called `Mutant:` in a comment are plausible faults of the code. They
are used by no specification; each shows that a property notices the fault.

### FactMesh

`facts[n]` is the table of node `n`. The database key of a fact is (property,
field, sourceNodeId, scope); the model follows one property, field and scope, so
the table has one row per source node. `SubmitAudit` is the POST handler of the
accessibility route up to its upsert, `PushFactsToPeers` the push it then starts
without waiting, with a timestamp of its own. `InboxReceive` and `IngestReceive`
are the receiving handlers up to the end of their merge: they read the table and
keep in `todo[n][h]` the merged rows, *all* rows of the table and not only the
changed ones, as the code does. `WriteRow` upserts one of them, in any order
(`Promise.all`); like the update clause of the code it leaves `submittedBy`
alone. `FetchSnapshot` is the cron's request, asked without `since`. `WriteFails`
fails one upsert; `Crash` drops what a node's handlers held and keeps its tables.
A push that is lost is one that is never received.

Abstractions: every node knows the property and has it in its region; every pair
of nodes is linked; each node runs at most one inbox and one ingest handler at a
time; every reading of the time is fresh and nodes' clocks agree, so what fails
does not fail because of clock skew. `issued` is a history variable.

`FactLog` maps the mesh to `ProvenanceLog`: `issued` becomes the log, a row becomes
a copy of an entry, and handlers, messages and faults disappear. `Enough`, the sets
of sources that may confirm a value, counts nodes and not auditors, since an upsert
of a relayed value keeps the auditor of the row it replaces (`mesh_auditors`).

`FactRaces` adds `overtaken`: of the rows a merge has read and still has to upsert,
those that an audit or the node's other merge moved ahead meanwhile. It guards no
action. `mesh_lost_update` shows that a stored fact can give way to an older one;
`OnlyRacesLoseFacts` says that such a race is the only way it can.

### ProvenanceLog

Each key has an owner, which appends to the key's log, one entry a time; every
node holds, per key, nothing or a copy of an entry. It serves facts, whose keys are
source nodes, and overrides, whose keys are pairs of source and field. It says
nothing of order: that is the part of `Converges` and of the races.

### MetadataOverrides

`rows[n][s][f]` is what node `n` stores for field `f` edited on node `s`; `lat`
and `lon` are the two fields that only mean something together. `PatchProperty`
reads the time once; `WriteOverride` upserts one field, with the handler's time
when the row exists and with the database's time when it is created, and after
the last field hands the rows to the push. `StartApply` is the region filter and
the merge of both receiving handlers: the filter uses the position the receiver
resolves *now* (`EffectiveAt`). `WriteRow` writes one merged row, the whole of
it, also when it is the stored row. `ApplyFails` and `EditFails` end a handler at
its next upsert. A reset of both coordinates is a PATCH to the base position.

`History` maps the module to `ProvenanceLog`. `OverrideRaces` adds `overtaken`, as
`FactRaces` does, and `outdated`: the fields an edit has still to write whose row
another edit, with a later time, has written since.

Abstractions: one property under one canonicalId; filter, read and merge are one
step (the filter's read and the merge's read are two statements in the code); the
fields name and location are left out, as their rows are resolved one by one.

### RefreshSession

`session[k]` is the row of token `k`; `from` remembers the token it was rotated
from. A rotation is `FindSession`, `RevokeSession`, `IssueSession`: three
statements without a transaction. `stored` is localStorage, shared by the tabs;
`waiting[t]` is the single request that tab `t` has in flight. `RotationFails`
stops the handler anywhere; `GiveUp` is the client's timeout or network error,
after which the server may still finish; `Navigate` closes the tab;
`ReceiveAnswer` stores the new token or, when refused, clears whatever is stored
*now* (`authFetch`). Login's request and answer are one step, and sign-out tells
the server nothing, as in the code.

Abstractions: the access JWT is not modelled, any moment may bring a 401; one
browser; tokens never repeat (`randomBytes`); thirty days may pass at any time.

`Family` maps a row of the table to a token of `SessionFamily`: expiry, requests,
tabs and the statement between revoking and issuing are stutters. That the table
implements it is checked (`ImplementsFamily`) and proved.

### FactWriters

`fact[scope]` is a table of `FactMerge`. Each writer is split where the code
awaits: `StartImport` reads the protected fields, `WriteImport` upserts (an update
leaves the tier, unless the AI makes it); `CreateSubmission` and `WriteAudit` are
the two statements of the audit route; `StartDelete`, `FindFact`, `RemoveFact` and
`DeleteSubmission` those of a deletion. `ReceiveGossip` reads the facts as the
handlers do, without their scope, so that a room's row is merged and written back
under the scope of the property (`Read`, `Target`), and `WriteMerged` upserts one
row at a time and fails on a key that is taken. `Shown` is the selection of GET.
`raced`, `echoed`, `late` note when two endpoint calls overlapped, gossip changed
a row of the node's own, or an import crossed a promotion: the properties hold
short of that, and each of the exceptions is needed. Gossip arrives from peers
that hold this node's audits or one of their own.

### NodeData

One administrator, one operation at a time (`op`); each action is a statement of
its route. Audits, OSM imports and gossip go on in between; `arriving` are the
places a handler has let through the region filter and not created yet.
`intruded` and `touched` note what others created or wrote since the operation
began: `RestoreBringsBack` and `ReattachIsComplete` speak of the rest, and
`ShrinkLeavesNothingOutside` excepts only what intruded. A region is a set of
places. A restart leaves an operation half done. The restore drops the scope of
the facts it writes, as the code does; the model shows that one fact per property,
field and source comes back, not one per scope.

### IngestJob

`proc[p]` is a call of `processIngestJob`: the step it is at and the copy of job
and tiles it read at the start and works from to its end. The kinds "tiles"
(initial, expand, move), "refresh", "import" and "shrink" take the paths the code
gives them. `TileFails`, `JobCrash` and `FindStale` / `FailStale` are the faults;
a stale job is failed by id whatever became of it. `disturbed` marks jobs met by a
restart, a timeout or a second call: a job in that state can end COMPLETED without
some tile (left RUNNING, it is not among the remaining), and the properties that
count tiles speak of the others; `CompletedTileWasIngested` speaks of all.

### CommunitySignals

A call counts the day's signals, looks for an open one and writes, in three
statements; calls overlap, auditors settle, reopen and delete in between, and the
oldest signals leave the window of a day one by one. A new
row is stored without its field name, as in the code, so a second report of a
field is not found and becomes a row of its own.

### PropertyIds

One delta per peer at a time; its properties are read together, created or
completed in parallel, read again for their ids, and its facts follow. Unique keys
are `Taken`; a statement that violates one throws, the delta is refused and its
other statements still run. `answered` notes what the peer was told is stored.

### PeerTables

A node stands for its URL, id, bbox and key; a column of a row names the node it is
the id, bbox or key of, so hearsay shows as a row whose columns name different
nodes. `AddPeer`, `LinkPeer`, `LinkRow`, `RefreshPeer`, `ReceivePush`, `IngestPeer`,
`NotePeer` and `GetSnapshot` are its writers, one upsert each: what a link or an
ingest has still to write is in `link` and `pull`, and other writers come between. A
key that was fetched stays, also when the signature then fails. Not modelled: a node
that changes its key or moves, and two URLs of one node.

### LensSession

Popup, options page and content scripts (`Context`) share the extension's storage.
`TakeToken` reads it when the refresh begins, `StoreRenewed` and `ForgetTokens`
write it when it ends, whatever is stored by then. A page that goes away leaves
the home node working (`late`) on a rotation whose answer nobody gets.

### ProfileSync

`device[d]` is what localStorage and the tab of a device hold; `push[d]` the PUTs
under way, any number up to the bound `Slot`, also of timers that fire one after the
other; `sync[d]` the run of `syncProfileFromServer`. A PUT reads the clock
(`BeginPut`) before its transaction (`PutFavorites`), so of two that overlap the one
with the earlier stamp may be stored last; one whose client gave up may still be
stored. The GET and the answer of a PUT read list and stamp in two statements. All
clocks agree. `crossed` and `unpushed` are history. The stronger statement, that a
pull never replaces an edit the node has not stored (`docs`: CHANGELOG.md:121, edits
are flushed before a pull), does not hold: a PUT that reaches the node after a
second edit gets the later stamp, and the next pull brings the first list back. The
property therefore excepts an edit that met a call under way.

### AuditWizard

`form` is the form on the screen, numbered, so that photos and answers know whether
it is still theirs; `draft` is sessionStorage. An empty value does not stand against
a loaded one (`MergeDraft`), in spite of the comment at AuditWizard.tsx:362.
`PostFails`: nothing catches a request without an answer and the button stays busy.
A page that is left leaves its photos and answers under way: `form.page` is the last
form of earlier pages, whose answers clear the draft and do not touch this page
(`OpenPage`, `Accepted`). `given`, `kept`, `unsaved`, `taken` are history: what the
auditor entered and did not lose to a page that closed before a save, and that the
node took an audit since a form last opened. One form serves all rooms; several
fields behave like one.

### PlaceSearch

A place on the map stands for the node that covers it too. `Shows` is the effect on
query, node and `nearMe`: whenever one of them changes, the request under way is
aborted and the next one is due. `Run` is a call of `runNearMe`, which is neither
aborted nor numbered; `refresh` is the latest fetch of the visible area, which is
numbered. What is typed is a text and whether there are filters; a position that
arrives clears the text alone. `ChangeHome` stands for the settings on another tab
of the screen, `Reopen` for the page that is left and comes back with what its
session kept: it starts with the built-in home node and learns of the stored one at
once. Pins and the pages of a result are not modelled, and `ResolvedCoversPlace` is
about which node may answer. `aborted` are requests that were aborted and are still
listed by `dedupedFetch`. `strayed` notes the answers that nobody waited for: a late
search around the traveler, a node that is set under the results of another search,
also by a changed home node, a search that joined an aborted request.

### ClientCache

One module for two copies of the same cache; `client` says which. The order of
`memory` is the order of eviction. Invalidation in Access leaves the registered
requests, in Lens it forgets them, and neither stops them; whichever ends first
unregisters the key. In Access only the map's pins (`PinKey`) are invalidated after an
audit, and `OwnChangeIsSeen` speaks of what is invalidated: a repeated search may
show the state before the audit for three minutes.

### LensCards

A call of `handleCardEnter` asks for the node when the page does not know it,
waits for the one hover timer and looks the place up. `hides` are the timers that
hide the tooltip, `lastHide` the only one that can be cancelled. Timers fire in any
order. `setting` is the storage of the extension, of which the page is told later
(`told`); the node that `RESOLVE_NODE` finds for a region counts as the setting it
was asked of. `changedAmid`, `keyed` and `wentOn` note what the properties except:
a setting that changed under a call, the keyboard, and a call that went on after
the pointer had left.

### Side by side

`NodeServices` and `ClientsAndPeers` put components that share no variable in
one module. A behaviour is one of the component chosen at the start (`part`);
the others stay in their initial state. The state space is the sum of theirs,
not the product, and nothing is lost: no action of one reads a variable of
another. That each component then behaves as its own module says is proved
(`ServicesImplementComponents`, `PartiesImplementComponents`). The values x, y,
h serve all of them, which keeps symmetry sound, since in each state only one
component uses them. Where components do interact, they are composed in one
module: `FactWriters` with the merge, `PropertyIds` and `NodeData` with gossip,
`LensSession` with the home node.

## 3. Runs

Passing runs:

| Run | Instance | Shows |
|---|---|---|
| `mesh_safety` | 2 nodes, 2 auditors, 2 values, threshold 2, 3 timestamps, 1 fault, 2 merges in progress; symmetry | `TypeOK`, `EveryFactWasAudited`, `ConfirmedNeedsSources`; `ImplementsLog`, `OnlyRacesLoseFacts` |
| `mesh_converges` | 2 nodes, 1 auditor, threshold 3, all 4 handlers may be busy, 1 fault; `FairSpec` | `Converges`: below the threshold gossip repairs every lost push, failed upsert, lost update and restart |
| `overrides_sync` | 2 nodes, edits on one, a move and its reset, 4 timestamps, 1 fault; `RaceFairSpec` | `TypeOK`, `EveryOverrideWasMade`, `CorrectionsTravel`; `ImplementsLog`, `OnlyRacesLoseOverrides` |
| `node_services` | 2 jobs of 2 tiles, 2 processors, 3 calls, 1 fault; 2 auditors, 1 importer, 4 writes, 1 payload; 2 places, 3 operations, 2 steps of others; 2 reporters, 2 calls, limit 1; 2 peers, 2 places, 3 rows, 4 changes | `CompletedTileWasIngested`, `ProgressIsExact`, `CompletionIsWhole`; `LocalFactHasSubmission`, `NewestSubmissionHasFact`, `ConfirmedValueWasAgreed`; `ShrinkLeavesNothingOutside`, `RestoreBringsBack`, `ReattachIsComplete`; `LimitOvershootIsBounded`, `SignalIsOfItsReporter`; `AnsweredMeansAttached`; the types |
| `clients_and_peers` | 2 devices, 3 favourites of which 1 fits, 2 PUTs at a time, 4 times, 1 fault; 3 nodes, 6 operations; 2 tabs, 2 accounts, 3 tokens, 2 requests; 1 field, 2 answers, 2 photos of which 1 may be sent, 6 operations; 2 pages, 3 tokens, 5 operations; 3 keys of which 2 are of pins and 2 are remembered, 2 requests, 2 changes; 1 text with and without filters, 2 places, 2 home nodes, 4 operations; 2 cards, 3 nodes, 4 operations | `SameStampSameList`, `PullKeepsUncrossedEdits`; `KeyIsOfItsPeer`, `ResolvedCoversPlace`; `StoredIsUnspent`, `ImplementsFamily`; `AnswersAreKept`, `PhotosAreKept`, `DraftGoneAfterSubmit`; `StoredTokenIsLive`; `OwnChangeIsSeen`; `ShownIsWhatWasAskedFor`; `CardsAreOfTheNode`, `NoTooltipIsLeftBehind`; the types |

Runs that end in a counterexample, each against a statement of the repository
(quoted under `findings`):

| Run | Violated | What happens |
|---|---|---|
| `mesh_lost_update` | `SameTierNewestWins` | an audit between the read and the upsert of a merge is overwritten by the older row |
| `mesh_auditors` | `ConfirmedNeedsAuditors` | the relayed value keeps the previous row's auditor, and one auditor counts as two |
| `mesh_flipflop` | `Converges` | a CONFIRMED row and its newer VERIFIED correction replace each other for ever |
| `writers_shown` | `AuditedFactIsShown` | tiers are compared as strings: an OFFICIAL row hides a CONFIRMED one |
| `overrides_region` | `CorrectionsTravel` | a correction out of a node's region locks out all later ones |
| `overrides_torn` | `EditsStayWhole` | a stale write-back settles every node on one edit's latitude and another's longitude |
| `sessions_single_use` | `SingleUse` | two tabs' requests both read the session before either revokes it |

Read off the code while modelling and not stated by a property: a submission
without an answer leaves the form's button busy; an emptied field is refilled by
facts that load later; a stale draft resubmits old answers over a newer audit; an
answer that comes while the next form is open lets that form save the submitted
draft again; a sign-out is undone by the answer of a refresh in flight; Lens
forgets its tokens when a refresh times out, and when a regional node, which does
not know them, is asked; an osmId that another row has makes every later delta of
its property fail; a peer that was linked from one side only is not authenticated
by the other; machine authors count towards a confirmation; promotion is never
withdrawn; a re-import of audits overwrites newer ones; a refused position wipes
the results of a typed search, and a position that arrives late wipes the query; a
keyboard lookup of Lens that answers after the focus is lost leaves a tooltip that
nothing hides.

**Bounds.** `MaxClock`, `MaxFaults`, `MaxMerges`, `MaxEdits`, `MaxRequests`, the
`Max...` constants of the other modules and the pools of tokens and ids bound the
runs; they stand in guards and are named in the modules. Every race of these
components is one between two handlers, calls, tabs, devices or peers, so there
are two of each; three nodes let a peer be heard of from a third. Two timestamps
beyond the first audit let each race of the federation happen, and the violating
runs show that they do. Threshold 2 with two auditors stands for 3 of 3: promotion
is reached, withdrawn and relayed. A limit of one favourite, photo or signal stands
for 100, 8 and 20, two remembered reads for 80 and 100: the limit is reached and overtaken. Two tiles let a job fail, be
retried and be resumed half done, and two jobs of different kinds disturb each
other. Each property fails under a plausible fault of the code within the same
bounds (the mutants), so the cases happen. Two refresh requests are the ones that
race; a third, after a rotation that succeeded, is left to the theorems, which hold
for any number. In `mesh_converges` promotion is out of
reach on purpose: `mesh_flipflop` is the same property where it is not.
`overrides_sync` puts every position in every region; `overrides_region` is the
same property where it is not. The runs with fairness use no symmetry.
`CHECK_DEADLOCK FALSE` is set where the system may really stop: browsers stop
asking, administrators and auditors stop working, and pools are finite. The
federation and overrides never deadlock, since the cron can always fetch.

**Fairness.** A handler that has started runs to its end unless it fails
(weak fairness of `WriteRow`, `IngestReceive`, `WriteOverride`; of the rows of one
override merge it is the handler that goes on, whichever row it is at). The cron visits
every active peer at every run and is started for ever by its scheduler, while
the ingest it waits for makes the next fetch possible again and again: strong
fairness of `FetchSnapshot` for every pair. Nothing else is fair: no audit, push
or inbox request ever has to happen, so convergence rests on the pull alone. The
number of faults is bounded, as eventual delivery requires.

## 4. Proofs

Proved for every value of the constants, under the assumptions each module names
(`...Assumption`: bounds are naturals, pools that are counted are finite, a value
that stands for "none" is none of the values it stands beside):

* `FactMesh_proofs`: `TypeCorrect`, `Provenance` (`EveryFactWasAudited`) and
  `ConfirmedHonesty` (`ConfirmedNeedsSources`). Neither is inductive: a row is
  only as sound as the copy it was merged from. `IInv` says both of every row,
  stored, to be written, fetched or under way (`Sound`). The core lemma is
  `MergeSound`: a merge takes each row from one of its arguments, and promotes a
  value only when enough sources of the table report it, each of which audited
  it (`AgreeingBound`: auditors counted never outnumber sources reporting).
  `MeshImplementsLog` (`ImplementsLog`) is the refinement of `ProvenanceLog`. An
  audit is `Publish`, which needs that its time was never handed out before
  (`TimesPast`). An upsert is `Adopt` of the entry the row comes from, which `IInv`
  provides, and every other step is a stutter.
  `OnlyRaces` (`OnlyRacesLoseFacts`) needs `RaceIInv`: what a merge has still to
  upsert is ahead of what is stored, unless it was overtaken (`Ahead`). It holds when
  the merge has read the table, since a merge replaces a row only by one that is
  ahead of it, and a write in between either keeps it or is noted.
* `MetadataOverrides_proofs`: `TypeCorrect` and `OverridesGenuine`
  (`EveryOverrideWasMade`), again from an invariant over every place a row can
  be in: tables, unfinished edits, requests, snapshots and rows to be written.
  `OverridesImplementLog` (`ImplementsLog`), with a log for each source and field.
  That no two overrides of a field share a time is the hard part, because an updated
  row carries the time its edit read before it wrote and a created row the time of
  the database: `TimesSound` says that edits have read distinct times, and that a row
  which carries the time of an unfinished edit is one this edit has written.
  `OnlyRaces` (`OnlyRacesLoseOverrides`): as for facts, and `EditsAhead` says the
  same of the fields an edit has still to write.
* `Sessions_proofs`, of `RefreshSession`: `TypeCorrect`, `RotationRevokes`
  (`RotatedIsRevoked`) and `StoredTokenUnspent` (`StoredIsUnspent`). The last needs
  most of the invariant: requests name issued tokens and belong to at most one tab
  (`RequestsSound`, `TabsSound`), an answer that is still awaited is known to
  nobody else (`AnswersFresh`), and whoever spends the stored token is awaited by
  a tab or was abandoned (`SpendersAwaited`).
  `SessionsImplementFamily` (`ImplementsFamily`) is the refinement of
  `SessionFamily`. A login is the abstract `OpenFamily`, the statement that revokes
  a session is `Spend`, the one that creates its successor `Renew`; every other
  step leaves the mapped table alone. That a successor's token was never used,
  and that its parent is spent and of the same user, comes from `IInv`.
  Of `LensSession`: `LensTypesCorrect` and `StoredTokensAreLive`
  (`StoredTokenIsLive`). `LensIInv` says that a token on its way in an answer is
  fresh and known to nobody else, and that a stored token which is spent, or about
  to be, has a call under way that will replace or remove it, unless a page closed.
* `FactWriters_proofs`: `WritersTypesHold`; `ConfirmedValuesHold`
  (`ConfirmedValueWasAgreed`), from `ConfirmSound`: gossip that waits is no more
  trusted than the table, and while an import is under way that read the table
  before a promotion, either no row is CONFIRMED or its source is among the late
  ones; `LocalFactsHaveSubmissions` (`LocalFactHasSubmission`) and
  `NewestSubmissionsHold` (`NewestSubmissionHasFact`). The two are inductive only
  together: which fact a deletion leaves depends on which submission is the newest,
  and the other way round. `OwnSound` speaks of the submissions that the call under
  way has not stored yet, or is about to drop, and of the call being the only one.
* `IngestJob_proofs`: `JobTypesCorrect` and `MarksAreEarned`
  (`CompletedTileWasIngested`): a call that is about to mark a tile has ingested
  it, whatever restarts, timeouts and other calls do to the job meanwhile.
  `StoredProgressIsExact` (`ProgressIsExact`) and the action property
  `CompletionsAreWhole` (`CompletionIsWhole`) need `WholeIInv`, which describes an
  undisturbed job at every step of its call: what the call has read and counted is
  what is stored (`CountsExact`, one less than the marks at `progress`), the only
  tile that is RUNNING is the one in hand (`TilesExact`), what was purged, committed
  and recorded is so (`PlacesExact`), and no other call is under way (`Alone`).
  Between calls it is `AtRest`. A job that is half done is left alone by the calls
  on others, since `Disturbs` would have marked it: that is why the places a retry
  finds are those the failed call left.
* `NodeServices_proofs`, of `CommunitySignals`: `SignalTypesCorrect`,
  `SignalsAreOwn` (`SignalIsOfItsReporter`) and `OvershootIsBounded`
  (`LimitOvershootIsBounded`). A row that a call has found stays its reporter's
  because ids are not used twice. For the bound the invariant counts calls that
  are past the check together with the rows: both are below limit plus calls.
  Of `PropertyIds`: `PropertyTypesHold` and `AnsweredFactsAreAttached`
  (`AnsweredMeansAttached`): the ids a delta read are of rows that had the name at
  some time, and of the places it is through with the facts are attached
  (`DeltasSound`); a delta whose statement threw answers nobody.
  Of `NodeData`: `NodeTypesHold`, `ShrunkRegionIsClean`
  (`ShrinkLeavesNothingOutside`), `BackupsAreBrought` (`RestoreBringsBack`) and
  `ReimportsAreComplete` (`ReattachIsComplete`). `NodeIInv` has a part for each
  operation (`StepSound`) saying what its statements so far have done to the rows
  they are through with, and what others may have done to them since. A restore
  needs besides that ids are unique and never reused (`PropsSound`, `IdRows`): the
  row it puts back meets no other.
  Of `NodeServices`: `ServicesImplementComponents`, each of the five components
  satisfies its own specification in every behaviour of the composition, and
  `ServicesTypesHold` (`ServicesTypeOK`).
* `PeerTables_proofs`: `PeerTypesCorrect` and `KeysAreOwn` (`KeyIsOfItsPeer`).
  `PeerIInv` says of every row under a URL, in tables and in answers under way,
  that its key is that URL's own or none; hearsay, of links and of gossip that are
  half written too, may fill the other columns.
  `ResolvedPeersCover` (`ResolvedCoversPlace`): `Boxes` says the same of the bbox,
  of snapshots under way too, for every URL that no table held without one.
* `Clients_proofs`, of `LensCards`: `CardTypesHold`, `CardsAreOfOneNode`
  (`CardsAreOfTheNode`) and `TooltipsAreHidden` (`NoTooltipIsLeftBehind`): what
  waits for the timer is what the pointer is on, and a tooltip it left has a timer
  that will hide it. Of `ClientCache`: `CacheTypesHold` and `OwnChangesAreSeen`
  (`OwnChangeIsSeen`), from the same statement about the answers under way. Of
  `PlaceSearch`: `SearchTypesHold` and `ShownResultsWereAskedFor`
  (`ShownIsWhatWasAskedFor`), which with the types is inductive. Of `AuditWizard`:
  `WizardTypesHold`, `AnswersStayKept`, `PhotosStayKept` and `DraftIsGone`: what
  counts is in the open form and, once saved, in the draft too (`WorkIsHeld`), and
  nothing counts of a form that will not be saved (`DiscardForgets`). Of
  `ProfileSync`: `ProfileTypesHold`, `EqualStampsShowEqualLists`
  (`SameStampSameList`) and the action property `PullsKeepEdits`
  (`PullKeepsUncrossedEdits`). `CallsSettled` says of a device nothing crossed that
  it has one call under way, which carries what the device stores, that every stamp
  which is the account's goes with the account's list, and that an edit the node has
  not stored waits for its timer or is on its way. `StampsFresh` is what makes this
  hold although a PUT reads the clock before it writes: the time it has read is
  known to nobody else until it is stored.
  Of `ClientsAndPeers`: `PartiesImplementComponents`, the same for its eight
  components, and `ClientsTypesHold` (`ClientsTypeOK`). With these two every theorem
  about a component holds of the module that TLC runs it in.

The assumptions on constants beyond finiteness and bounds: values that stand for
"none" lie outside the sets they extend (`NoCall` is no call of an auditor, `NoDraft`
no draft, `Unread` no list, stamp or push, `NotMade` and `Gone` no property,
`NoJob` no job), a job has at least one tile and a batch takes at least one, the
limits of remembered reads, photos and favourites are at least one, and the
time of `ProfileSync` has a first value.

TLC checked the inductive invariants on small instances before they were proved.
The two refinements and the two properties of races are checked by runs too.

Only model-checked: liveness (`Converges`, `CorrectionsTravel`, `EditsStayWhole`),
since the prover does not handle fairness and ENABLED, and what the counterexamples
show. Every other property of a passing run is a theorem. No module declares a
RECURSIVE operator, and no theorem needs an induction over data, which the installed
provers cannot instantiate: counts are reasoned about with the theorems on finite
sets.

## 5. Not modelled, and what is left

The modules cover the code that keeps state and races over it, a tenth of the
lines. The rest is of kinds a model would only restate:

* Presentation: screens and their styles, the popup of Lens (`popup.js`), maps,
  galleries, the sites, the message catalogues (`i18n.js` and its package) and the
  tables of region presets and field definitions. They are data, or functions of
  the state that the modules hold.
* The node's copy of the audit form, which is the code `AuditWizard` stands for
  once more.
* Reads: lists, statistics, translations and the field registry. Parsing and
  formats: OSM tags, GeoJSON, PBF, JSON-LD, files of a backup.
* Photos as blobs and rate limits, which live in external services; cryptography,
  which is taken to work.
* Scripts, SDK and containers: clients, tests and set-up of the code above.

Left to do, in this order:

1. A PATCH with a subset of the fields, and the overrides of a property that is
   renamed or created in the same payload: `MetadataOverrides` and `PropertyIds`
   in one module.
2. Clocks that disagree in `ProfileSync`; nodes that change their key in
   `PeerTables`.
3. The refinement of dense tiles (`tileRefine.ts`) and the choice of the smallest
   bbox (`peerResolve.ts`) against a reference definition.
