# Verification of Gather

TLA+ modules for the Gather daemon (`src/daemon`) and its desktop shell, TLC
configurations that check them on small instances, and TLAPS proofs of what
matters most for any number of entities, units, edges, files, workers, people
and requests.

Gather ingests conversations, documents and photos, extracts *atomic units*
(facts, here also *claims*) with rules and a local model, files them under
*entities*, draws *edges* between entities, and lets background workers curate
the result: duplicates are merged, contradictions flagged, older facts
superseded, topics clustered. A person can undo or override every automatic
decision. All state is in Postgres; the workers and the HTTP/gRPC handlers of
one daemon (and possibly of two daemons) run concurrently over it.

The system's promise is therefore about histories, not single calls: whatever
order people and workers act in, an undo restores what it says it restores, an
automatic decision never overrides a person's, nothing is read, counted or
stored twice, and what is derived belongs to what it was derived from. That is
what the modules are about.

## 1. Inventory

| Part | State | Operations | What is hard |
|---|---|---|---|
| **Entity merge** `entities/merge.rs`, `entities/mod.rs` | `entities.merged_into_entity_id`, `entity_aliases`, `entity_merge_audit` with its journal, `relationships`, subjects of units | merge one or a group, split, withdraw an automatic merge, dismiss a pair, add alias, resolve a name | an undo journal replayed after other merges; order of equal timestamps; edges deleted as duplicates |
| **Resolution pass** `cluster/resolve.rs`, `safety/identity.rs` | records, plan, tray items `withdraw-merge` | read, plan, detach, merge group by group | reads, plan and writes are separate transactions beside people |
| **Unit lifecycle** `routes/feedback.rs`, `routes/contradictions.rs`, `safety/service.rs` | status, `superseded_by`, `valid_to`, `content_revision` of units, status of edges, contradictions | reject, restore, edit, resolve, reopen, supersede, undo | several owners of one status; undo of one decision over another |
| **Scanner** `scan/`, `safety/contradiction.rs`, `safety/temporal.rs` | scan cursor of units, contradictions, supersession certificates, episodes | score candidates, decide kind and time relation, record, supersede | scores computed outside the transaction that uses them; claims read out of order |
| **Source families** `safety/provenance.rs`, `safety/service.rs` | derivations between files, certificates of corroboration | corroborate, declare a derivation, withdraw or delete a file | independence changes after it was counted |
| **Extraction** `extract/mod.rs`, `persist.rs`, `reread.rs`, `digest_job.rs` | status of chunks, the model's marks, provenance, jobs, digests | open, read by rules, read by a model, read again, digest | worker crash between claim and commit; source withdrawn while the model runs |
| **Embeddings and topics** `extract/persist.rs`, `cluster/` | vectors, the space they are in, topics and members | embed, delay, group, clear for another model | computed outside the database from text that changes |
| **Review tray and tuner** `tune/`, `decide/` | review items, bars, labels | admit, ask, drain, trim, rank, move a bar, reset it | cap and bars read before they are used |
| **Photos** `photo/` | hashes, groups of copies, captions, visual topics | prepare, regroup, caption, say "not a copy" | regroup beside decisions of people |
| **Projects** `projects/mod.rs`, `projects/archive.rs`, `routes/projects.rs` | trees of files, upload jobs | send files, unpack archives in archives, delete | check, read and record are separate; clients stall and hang up while they have the lock |
| **Project comparison** `projects/similarity.rs`, `graph.rs` | cached signatures, shared vocabulary, revision ledger | load, compact, intern, sample, score, rank | commits out of order; numbers used again |
| **Automatic import** `autoimport.rs`, **ingest** `routes/ingest.rs`, `adapters/` | inbox files, import marks, artifacts | look, read, store, file away | files changing while read; one content by several doors |
| **Export and restore** `routes/export.rs` | the whole library, a bundle | export a snapshot, stage, apply row by row | cut bundles, another model, rows already there, edits between two rows |
| **Desktop shell** `apps/desktop/src-tauri` | the daemon's and PostgreSQL's processes, pid file, settings | start, adopt, stop, restart, quit | threads of one app, children of sessions that crashed, the user's own daemon |
| **HTTP/gRPC surface**, drift statistics and evaluation, model client, text heuristics, deployment | none of their own | conversion, read-only queries | none for a model checker |

What makes each part correct:

* *Entity merge*: pointers are one hop deep and agree with the audit; a split
  gives back exactly what its merge took; no edge is lost; a name has one answer.
* *Resolution pass*: it ends in the partition it planned, undoes no person's
  merge and joins no pair a person keeps apart.
* *Unit lifecycle*: a person's decision stands until a person changes it; an undo
  restores status, validity and edges together.
* *Scanner*: every two current claims about one subject are compared as they are
  now, in the end; a conflict found is on show, a change of state is not one.
* *Source families*: what corroborates a claim is a live source of a family of its
  own, and only reading raises support.
* *Extraction*: every file is read in the end, also after a crash; a reader's
  finding counts once; nothing comes from a source withdrawn meanwhile.
* *Embeddings and topics*: they are those of what the claim says now.
* *Review tray and tuner*: open items stay within the cap; the bars come to rest,
  never move back on the same labels, and a reset is durable.
* *Photos*: groups are tight, agree with rows and certificates, and what people
  told apart stays apart.
* *Projects*: no path is file and folder at once; what a client is told is there;
  only a client that has the lock and stalls keeps others waiting.
* *Project comparison*: what is compared includes all that was committed before.
* *Import, ingest, restore*: a content is stored once, whole, and filed away only when
  it was read; an import adds rows and changes none.
* *Desktop shell*: quitting leaves nothing of the app's running; ready means the saved
  settings; the user's own daemon is left alone.

The parts meet in the database: extraction inserts units and edges whose
entities merges repoint; the resolution pass and people write the same merge
journal; the scanner and people change the status of the same units; rejection
withdraws certificates that merges and supersessions rest on; embeddings and
topics follow the revision an edit raises. Two locks order them: row locks
(`FOR UPDATE`, `FOR SHARE`) and one advisory lock taken by writers of certified
decisions.

`PROJECT.json` lists every part with its status, every definition with the
lines it models, and under `hazards` each place where this code is hard to
test, with the properties that guard it.

## 2. Modules

| Module | Models | Used by |
|---|---|---|
| `EntityMerge` | one merge, group merges, unmerge, aliases, extraction and reject/restore as far as they touch the graph | `ResolvePass`, `EntityMergeProofs` |
| `EntityGroups` | what merging promises: groups of entities, joined and parted | `EntityMerge` (`INSTANCE EntityGroups WITH ...`) |
| `ResolvePass` | the worker's pass over `EntityMerge`, beside people | `ResolvePassProofs` |
| `UnitLifecycle` | claims after extraction: scanner, people, sources, merging and splitting their subjects | `UnitLifecycleProofs`, `ClaimStateProofs` |
| `ClaimConflict` | what the scanner makes of two claims: kinds of conflict, time, episodes, supersession | `MCServices` |
| `SourceFamilies` | independence of sources and certificates of corroboration | `MCServices` |
| `ReadingQueue` | the extraction worker's queues | `ArrivalProofs`, `MCServices` |
| `ReadingLedger` | what reading promises, without queues, jobs and workers | `ReadingQueue` (`INSTANCE ReadingLedger WITH ...`) |
| `ClaimIndex` | vectors and topics of claims | `DerivedProofs`, `MCServices` |
| `ReviewTray` | tray, bars and tuner | `ReviewTrayProofs`, `MCServices` |
| `PhotoPipeline` | photos: prepare, regroup, caption | `MCServices` |
| `Intake` | inbox, uploads, a session that grows | `ArrivalProofs`, `MCServices` |
| `ProjectTree` | uploads of folders and archives | `ArrivalProofs`, `MCServices` |
| `ProjectCache` | comparing projects: what daemons keep, and the ledger of changes | `DerivedProofs`, `MCServices` |
| `ProjectWords`, `ProjectRanking` | comparing projects: vocabulary, scores | `MCServices` |
| `LibraryBundle` | export and import of the library | `DesktopProofs`, `MCServices` |
| `DesktopRuntime` | processes of the desktop app | `DesktopProofs`, `MCServices` |
| `EntityMergeProofs`, `ResolvePassProofs`, `UnitLifecycleProofs`, `ClaimStateProofs`, `ReviewTrayProofs` | theorems about the module of that name; `ClaimStateProofs` continues `UnitLifecycleProofs` | `tlapm` |
| `ArrivalProofs`, `DerivedProofs`, `DesktopProofs` | theorems about what arrives (`ReadingQueue`, `Intake`, `ProjectTree`), what is derived (`ClaimIndex`, `ProjectCache`) and the desktop app (`DesktopRuntime`, `LibraryBundle`) | `tlapm` |
| `MC...` | constants, scenarios and symmetry for TLC | the `.cfg` files |
| `MCServices` | the thirteen service modules side by side | `Services_a.cfg`, `Services_b.cfg` |

`EntityMerge` and `UnitLifecycle` look at the same requests from two sides. For
the first, a merge is what happens to pointers, journals, aliases and edges,
and a unit is an id with a status. For the second, a merge of one fixed pair of
entities is what happens to claims: they change subject, lose their cursors,
and a split gives back those the journal names. `ClaimConflict` in turn opens
what `UnitLifecycle` leaves to chance, the outcome of comparing two claims.

`MCServices` EXTENDS all service modules. They write different tables, so a
behaviour picks one of them (`part`) and the others rest at an initial state:
their state spaces add up instead of multiplying. Each keeps its own fairness.

### EntityMerge

A *merge* of `l` into `w` (`MergeEntities`) is `merge_entities_in` after its
checks: it journals what it is about to change (`JournalOf`), moves units,
edges and aliases of `l` to `w`, deletes the edges that would become
self-loops or duplicates, points `l` and everything below it at `w`, and
writes the audit row. `UnmergeCore` replays a journal. The set `audit` holds
the merge rows that no later undo has consumed; the code marks such rows by a
second audit row, and only the live ones are ever read.

* **Transactions.** A merge request has two visible moments. `Open` is the start of the
  transaction, when Postgres fixes `now()`; `MergeNext` is a merge under locks
  on winner and loser. The clustering worker merges a whole group in one
  transaction, so its merges all carry one timestamp; `busy` says that such a
  transaction holds its locks. Everything else is one transaction per action.
* **`now()` is the start of the transaction**, not its commit. So two requests can commit in the
  opposite order of their timestamps, and the model lets them.
* **An undo picks a row by timestamp.** `LatestMerge` and `NewerMerges` are the
  two queries; ties are resolved either way, as `ORDER BY` leaves them.
* **Names.** The name of an entity is written as its id; a `Nickname` is a name
  that only `add_alias` gives. Adding one entity's own name as an alias of
  another is refused by the clash check while the first is live, and
  `AddAlias` is therefore about nicknames only. `unmerge_core`'s own name-clash
  check cannot fire: a merged entity's name stays an alias of its survivor, so
  extraction finds that instead of creating a namesake.
* **Refinement.** `EntityGroups` knows neither pointers nor journals, only which pairs
  have been merged and not taken apart, and the groups these make. `EntityMerge` maps
  the pairs to the merge rows that stand and the group of an entity to all that
  has its head (`MergesMakeGroups`). So a merge joins two groups, an undo parts the two
  it joined, whichever merges came in between, and everything else is a stutter.
* **Histories.** `about` and `asserted` remember what a unit and an edge said
  when they were extracted, `dropped` which edges a merge has ever deleted,
  `doubled` which of them as a duplicate of another edge. Properties compare the
  graph with them; no guard reads them.

Not modelled here: embeddings copied to a survivor, merge suggestions, scan
cursors cleared by a merge, certificates, cluster membership, the label a
split gives the threshold tuner.

### ResolvePass

`resolve.rs` and `identity.rs`: `ReadRecords`, `MakePlan`, then `DetachHead`,
`Unwind`, `EndUnwind` for automatic merges the plan no longer supports, then
`OpenPlanned`, `MergePlanned`, `SkipGroup`, `AbortPass` for the groups it
does plan. Every one of these is a transaction or a read of its own, and
people merge, split and dismiss between any two of them. Which pairs of
entities the similarity evidence supports is chosen anew at every pass, so the
model covers evidence that grows, shrinks and contradicts itself. The
planner's complete-link rule, its refusal of dismissed pairs and the survivor
order are translated; its size limit is the choice of a subset of the
complete groups.

### UnitLifecycle

`routes/feedback.rs`, `routes/contradictions.rs`, `safety/service.rs`,
`safety/explained.rs`, `scan/mod.rs`, and of `extract/persist.rs` and
`entities/merge.rs` what they do to claims.

* **State.** A variable per column of `atomic_units` that decides anything, and a
  set or function for certificates of supersession, certificates of
  contradictions and `contradictions` rows. `Pair` stands for the unordered pair
  under which the code files a contradiction.
* **The scanner** (`Load`, `LoadCandidates`, `Claim`, `Record` / `Skip`, `Finish`)
  reads outside its transaction. `scan[s]` is what `run_one_scan` has in its
  variables. Rows carry a `content_revision` that a trigger raises when one of
  the listed columns changes; the scanner compares it before it acts. The
  model keeps no numbers: `fresh[s]` is the set of rows not revised since `s`
  loaded them, and `Revise` is a conjunct of every action that updates a
  compared column.
* **The recording transaction** is one step per candidate, with `lock` held.
  Everything else waits: rejects, edits, merges and withdrawals take the same
  advisory lock. Resolving a contradiction, extraction and the other scanner's
  reads take none, but they could touch only rows the transaction has not
  locked, that is not written yet, and so might as well have run before it.
* **Data.** A claim is the time it speaks of. Two claims of equal time about one
  subject conflict, the later of two others succeeds the earlier; this is what
  `evaluate` and `temporal.rs` choose between. If one of the two is closed
  already, the model allows every outcome `evaluate` has for such a pair.
* **People's deeds** are `reject`, `restore`, `edit`, `resave` (an edit that
  changes nothing), `resolve`, `settle`, `confirm`, `agree`, `retract` (a
  source), `merge` and `split`; `reassert` is extraction reading a claim again
  elsewhere, `fail` an error or crash of a scanner. `Deeds` says which of them
  a run has, `MaxDeeds` how many in one behaviour.
* **Withdrawal** (`PropagateWithdrawal`) has the eight rounds of the code and
  follows conclusions as the code does. `UndoSupersessions` reads the status as
  the transaction has left it so far.
* **Histories.** `judged` are the pairs that a scanner has compared as they are
  now, `found` those of them read as conflicts. No guard reads them.

Not modelled here: candidates found by embedding and the limit on candidates,
the local judge, items of the review tray, feedback that changes no status,
deletion of a source's data, derived claims.

### ReadingQueue and ReadingLedger

`extract/mod.rs`, `persist.rs`, `reread.rs`, `digest_job.rs`.

* **State.** A variable per column that decides what is read next (`opened`, `read`,
  `llm`, `visit`, `digest`), the re-read job, what each worker holds in its
  variables (`stage`, `work`, `held`), and `backed[f][r]`, the number of
  provenance rows of reader `r` from file `f`.
* **Steps.** Opening claims a batch in a transaction of its own; reading loads a batch
  without claiming it, lets a model answer, fail or give up, and stores in a
  second transaction that looks at the row again (`persist_chunk_units`). A
  re-read job loads, reads and marks the same way. `DbError` ends the queue at
  work, `Crash` the worker; `Start` returns what was "processing".
* **Refinement.** `Ledger == INSTANCE ReadingLedger WITH ...` maps `backed` and
  `withdrawn` to themselves: every step of the worker is one entry of one or more readers, a
  withdrawal, or a stutter. The ledger says what a reader of the code wants to
  know: an entry is made once, stays, and none is made for a withdrawn file.
* **History.** `base` (what had been read when the job started) and `dropped` (files
  an error left "processing"); no guard reads them.

### ClaimConflict

`scan/score.rs`, `scan/mod.rs`, `safety/contradiction.rs`, `temporal.rs`,
`modality.rs`, and the episodes of `extract/persist.rs`. Messages arrive in any
order; each is a new claim or joins an episode; `ScanUnit` compares a claim
with its candidates by subject and by meaning, up to their limit, and records
what `evaluate` decides. A statement is what the rules read from it: cue words,
words, a figure or clock time, years. People resolve, agree and ask for a new
scan. `RelationIsSound` compares `relate_intervals` with a reference: the
relation of every pair of periods the two may be.

### SourceFamilies

`safety/provenance.rs`, `safety/service.rs`, `routes/ingest.rs`: one claim, the
files it was read from, the derivations between files and one certificate of
corroboration per source. `Declare` withdraws the certificates that counted two
now-linked files apart; `TakeAway` withdraws or deletes a file, deletion after
linking what it linked with one another. Reading is two steps, the file loaded
and the transaction that looks at it again.

### ClaimIndex

`embed_pass` and `topic_pass`. A worker loads statements with their revisions,
computes, and stores where the revision still fits; a failure delays the row
(`TimePasses` ends the delay). A daemon started with another model takes the
space over and clears what is derived, while the former may be running.

### ReviewTray

`tune/`, `decide/`, and the admission in `persist_chunk_units`. Scores are hundredths
and the bars and steps are the code's integers; `Library` gives initial states
in which a verdict or two move a bar, as the code needs at least `MinSamples` of
them. The tuner's reads are separate steps, so verdicts, resets and new items
fall in between.

### PhotoPipeline

`photo/worker.rs`, `phash.rs` and `safety/photo.rs`. One pass prepares, regroups and
captions. The regroup reads the library under locks (`ReadLibrary`), the
decisions of people on another connection (`ReadDecisions`) and writes groups,
rows and certificates together (`WriteGroups`).

### Intake and ProjectTree

`Intake` is `autoimport.rs` with the storing of `routes/ingest.rs`: the importer looks,
reads, stores part by part, looks at the file again and moves it, each a step,
while other programs drop and replace files and the session file grows by half
lines. `ProjectTree` is `projects/mod.rs`, `store.rs`, `archive.rs` and
`routes/projects.rs`: requests queue for the in-memory lock of a project; each
entry is checked for a clash, read into Gather and recorded. A request that has
the lock awaits the next part of its body (step "await") for as long as the
client likes: `SendPart` and `BodyBroken` are the client's, and so is hanging up.

### ProjectCache, ProjectWords and ProjectRanking

`projects/similarity.rs` and the ledger of migration 0022. `ProjectCache` separates
the statement that gives a writer its revision from its commit, and a load into
compacting, reading the ledger and three reads of rows. `ProjectWords` counts
the uses of each number. `ProjectRanking` is pure: samples, rarity, weighted
overlap and the pairs that are drawn, checked over a family of small shelves;
its only action takes the next pair off the queue of `graph.rs`.

### LibraryBundle

`routes/export.rs`: tables are sent one by one from a snapshot, and a bundle may be
cut between rows. An import is one transaction at READ COMMITTED that locks
nothing but the model: `StageTable` inserts files, topics and claims, `PutMember` one
member at a time, each looking at what has been committed by then, `EndImport`
commits, `StopImport` is an error or a broken connection. People go on meanwhile:
files are stored, claims embedded and grouped, and an edit (`BeginEdit`, `CommitEdit`) has
deleted the members of its claim some time before it commits. An insert that meets a row so
deleted waits (`awaited`) and goes in once the edit is done, though the claim it was to
stand for is looked at no more; `crossed` remembers such members. Vectors of
another model are dropped with the topics made of them. `Move` starts a new
installation. Ids are random numbers in the code, never given out twice; `used`
keeps that across moves. An edit that is rolled back, a second bundle and
an import beside another one are left out.

### DesktopRuntime

`runtime.rs`, `lib.rs`: two threads that start, adopt, stop and restart PostgreSQL and
the daemon step by step, daemons that boot, hang or end by themselves, saved
settings, updates, and crashes of the app, which `pg_ctl` and `initdb` survive: the
next session clears `pgdata.init` and begins there while the `initdb` of the last may
still be writing (`BeginCluster`, `OrphanedInitdb`), and both may come out spoiled. The
user may start and end a daemon of their own on the port at any time
(`TheirsStarts`, `TheirsEnds`), also while the app's own is starting; whichever answers is
then shown as ready. Nothing serialises the threads; properties
that need it say so with `undisturbed`: no thread began, and the app was not
quit, while another thread was at work, and it did not crash while a daemon was
coming up or about to be stopped. All other crashes are covered. `lost` says that
since the app last looked its daemon has ended by itself or the user has
started one: the app watches neither. Left out: a PostgreSQL that ends by itself,
and a recorded pid that another process has got since.

## 3. What the runs check

| Run | Instance | Question |
|---|---|---|
| `merge_names` | 4 entities, 1 nickname, one person and the worker, 3 requests | pointers, audit rows, journals and names stay consistent; merges make groups |
| `merge_edges` | 3 entities, 1 unit with 2 edges, one person; 2 requests with the worker, 3 where `GATHER_CLUSTER_ENABLED` is off | units and edges follow heads; nothing deleted is lost; where one person's merges are all there is, deleted self-loops also come back right |
| `merge_group_tie` | 3 entities, 1 edge, only the worker | finding 1 |
| `resolve_flat` | 3 entities, one person, 3 requests, 2 passes | an undisturbed pass ends as planned and respects people, except for what it reports |
| `resolve_dragged` | 4 entities, 2 passes, inputs narrowed to one story | finding 3 |
| `lifecycle_subjects` | 3 units, 2 subjects, 2 scanners, merge, split, reject, confirm | no pair escapes comparison while claims change sides; edges and validity follow |
| `lifecycle_people` | 3 units, 1 scanner, 3 of eight deeds | what people decide about a pair stands, and conflicts are on show |
| `lifecycle_sources` | 3 units, 2 sources, 1 scanner, 3 of five deeds | supersessions are in force, questions are about claims that stand |
| `lifecycle_live` | 2 units, 2 scanners, edit, reject, restore, fail | every current claim gets scanned, and against every other |
| `services_a` | reading, intake, projects, index, conflict | what comes in and is derived from it is sound, and is dealt with in the end |
| `services_b` | photos, desktop, bundle, tray, comparison, source families | what each keeps stays sound between any two steps, and its background work ends |
| `photo_not_duplicate` | 3 photos | finding 2 |

`UnitsFollowHeads` joins `SubjectsFollowHeads` and `UnitsComeBack`, `DecisionsStand` joins
`EarlierMergesStand` and `OnlyReportedJoinDifferent`, and `JudgementsStand` says of the
steps of people and scanners that `ConfirmedStands` and `ResolvedStands` hold.
The service runs check one property per component and kind, a conjunction of the
parts that its module states and comments one by one:

| Property | Its parts |
|---|---|
| `ReadingIsSound` | a reader's finding backs its claims once; a finished re-read left no text behind |
| `ReadingImplementsLedger` | the refinement to `ReadingLedger` |
| `ReadingIsFinished` | files are read, re-reads end, documents get digests |
| `IntakeIsSound` | stored once; filed only when read; sessions remembered only when stored |
| `ProjectIsSound` | trees are trees; what a client is told is there; nothing read in vain; unpacking bounded; jobs finished |
| `ArrivalsAreDealtWith` | files leave the inbox; what is said is stored; requests end unless a client ahead of them stalls |
| `IndexIsSound`, `IndexIsFinished` | vectors and topics match what claims say now; each claim gets both |
| `ConflictsAreSound`, `VerdictsStand` | time relation sound; change is no conflict; a replaced claim is closed before its successor; no flagged pair missed; the latest stands; verdicts outlive scans |
| `PhotosAreSound` | groups tight; withdrawn photos leave; groups, rows and certificates agree |
| `StackIsSound` | settings in force; a failed start has a cause; the app stands aside for the user's daemon |
| `BundleIsSound`, `BundleKeeps` | references lead somewhere, vectors fit the model, members stand for claims unless an edit crossed them; restored is exported, an import keeps rows |
| `TrayIsSound`, `TrayIsTuned` | resets durable, nobody asked below the bar; cap, no bar back on the same verdicts, two signals only tighten |
| `CacheIsSound` | loads are current, pairs are of what was loaded |
| `ComparisonIsSound` | numbers keep their words, vocabulary in use; samples line up, rarity positive, counts possible, the closest drawn |
| `SupportIsSound`, `SupportIsKept` | only new families count, support is live; links withdraw, only reading raises support, deletion keeps families |
| `ServicesFinish` | photos are grouped and captioned; starts end, quitting stops both; bars settle, the tray is kept |

**Why these bounds are enough to be interesting.**

* *Merges.* Four entities are the fewest with a chain of three merges beside an
  unrelated entity; three requests build such a chain and race one more. With two edges of one
  label, a merge can delete a duplicate while keeping the other, and the kept
  one can move again. Splits are not counted: a behaviour can split and
  re-split as long as there are merges to undo. In the pass, two passes are
  needed for the second to meet what the first did, and three requests for a
  person to undo and redo something in between.
* *Claims.* Three units are the fewest in which one supersedes another and is
  superseded by a third, so that undoing one supersession meets another. Two
  scanners race for a unit and hold overlapping lists. Two times give equal,
  earlier and later claims. Three deeds give a decision, an undo of it and
  something in between; two suffice where two scanners interleave with them.
* *Services.* Budgets (`MC...Budgets`, `MCScenario`) say how often each deed, error,
  crash and restart may happen in one behaviour; an instance is checked for
  each budget, so that deeds that matter together meet without all of them at
  once. Reading has six scenarios, from a document with a crash and an error to
  two daemons on one message and two models in turn. Three photos are the fewest with a chain
  that is no group. Two clients contend for a project; archives sit inside
  archives, one of them beyond the limit. Two models race in the index, two daemons in the
  project cache, whose ledger keeps two revisions so that it is compacted.
  The tray starts from libraries one or two verdicts away from moving a bar.
  Conflicts range over sequences of two or three messages of three families of
  statements, written days to a year apart and read in every order. Of four files three
  say the same, one in a chunk it shares with another, and the fourth links two
  of them; two links or removals follow.
* `CHECK_DEADLOCK FALSE` where requests, passes or deeds run out: the bounds
  stop the behaviour, not the program.

**Fairness.** Every fair action is a step of a loop that the code repeats for
ever; people, errors, crashes and other programs are never fair.

* `lifecycle_live`: weak fairness of each scanner's
  steps together. `worker_loop` starts a pass after every interval whatever the
  last one came to, a pass is a straight line of database calls, and a unit that
  is unscanned stays on the list. `fail` is not a fair action; the bound on
  deeds says that people and failures pause at last. If they never did, a claim
  edited again before every recording would rightly never be scanned. What the
  run rules out is that scanners block each other, or leave a unit they lost.
* Extraction, index, photos, tuner and importer: weak fairness of the steps of each
  loop, for the same reason, and of starting again a daemon that has crashed
  (`restart: unless-stopped` in the compose file, the desktop shell otherwise).
* `TimePasses`: delays end. Requests to a project: the daemon goes on with every
  request it has, and the lock's queue is served in turn. What the client does is
  not fair: nothing bounds the time between two parts of an upload
  (`routes/projects.rs:85`, `:129`). So `RequestsEnd` says of each request that it
  ends if, again and again, no client it depends on (`WaitsFor`) is being waited for: its own,
  or the one that has the lock it queues for. Requests to other projects, and imports,
  depend on nobody. Desktop: threads and processes, also those a crash left
  behind, run as long as they have something to do; a hung daemon need not.

**Every passing property has a mutant**, a definition headed "Wrong:" that
precedes the right one in its module, under which TLC finds it violated.

### Disagreements between code and its documentation

Each is a run that TLC must find violated.

1. *Group merges tie* (`merge_group_tie`). `unmerge_core` says that merges
   "unwind newest-first" and compares `created_at`, but the merges of one planned
   group share it. The older can be undone first; an edge the younger deleted
   is then inserted again on the wrong entity. Requests of two people behave the
   same when their transactions start in one order and commit in the other.
2. *Not a duplicate, grouped again* (`photo_not_duplicate`). A regroup reads
   people's decisions outside the transaction that writes its groups. A
   decision that commits in between is undone and the photos are stamped, so no
   later pass separates them; `docs/API.md` says they are "never grouped as
   duplicates again".
3. *Dragged along* (`resolve_dragged`). `docs/AUTONOMOUS-PIPELINE.md:189` says that a
   pair marked as different "is never merged automatically". An automatic merge
   that cannot be withdrawn, because a person has merged into its head since,
   stays where it is, and the pass goes on to merge that head with a group it
   planned without that entity (`resolve.rs:482`). The entity goes along, also
   into a group with one it was told apart from.

`KeptEdgesFollowHeads`, `LoopsFollowHeads`, `FlatPassEndsAsPlanned`,
`EarlierMergesStand`, `OnlyReportedJoinDifferent` and `GroupsAreTight` say how far
the promises do hold: for edges that no merge had to delete, for self-loops of
one person's merges, for passes over records that no earlier merge has
flattened, for entities that the pass did not report as kept from withdrawal,
for what people had done before a pass read.

Reading the code for the models brought up more of the same kind, which have
no run of their own.

*Merging.*

* A pair dismissed after the plan was made is merged all the same
  (`resolve.rs:449`).
* The undo of a merge inserts deleted edges with both endpoints they had, even
  if the far one has been merged away since, and with the status they had, even
  if their unit has been rejected since (`merge.rs:637`).
* The pass looks for merges to withdraw under the current head only, so one
  that a later merge has flattened stays although `simulate_apply` detaches it;
  and it reads the list of losers once, so a loser that a person has split and
  merged elsewhere in between is undone there (`resolve.rs:270`, `:284`).
* A split deletes contradictions between its sides and leaves supersessions
  (`merge.rs:586`).

*Claims.*

* When a source of both claims of a supersession is withdrawn, both are retracted;
  undoing the supersession then sets the edges of the older one to active, and
  it does so also when that claim is superseded by another by now
  (`service.rs:300`). Resolving a conflict moves the pointer of a superseded claim
  and leaves the certificate of the earlier supersession: rejecting the newer
  claim of that certificate brings the edges back without the claim.
  `GraphFollowsClaims` is checked, and proved, without `resolve` and `retract`.
* A contradiction's certificate names the sources its claims had when they were
  compared. If those are withdrawn after both claims were read again elsewhere,
  the contradiction is withdrawn, the claims stand, and nothing brings it back
  (`service.rs:466`). `ConflictsAreShown` is checked without `retract`.
* Rejecting and restoring a superseded claim makes it current while
  `superseded_by_unit_id` and `valid_to` stay (`feedback.rs:201`); hence also no
  `restore` in `GraphFollowsClaims`.
* A split deletes the row of a conflict that a person has confirmed
  (`merge.rs:586`). After merging anew the pair is compared again, but a
  confirmed conflict is only ever reopened where a withdrawn row is left
  (`scan/mod.rs:429`), so nobody is shown it; `ConflictsAreShown` is checked
  without `split`.
* The certificate by which a claim superseded a third one is withdrawn when
  that claim is itself no longer superseded (`service.rs:124`).
* If a withdrawn source leaves no claim without support, certificates are
  retracted but their contradictions stay open (`service.rs:475`).
* An edit saved again unchanged withdraws what is known about the claim without
  raising its revision, so a scanner at work stamps it without reporting the
  conflict again (`scan/mod.rs:164`); `lifecycle_people` has one scanner and
  finds nothing, with two `ConflictsAreShown` fails.
* Superseding a claim that has a year's window replaces that window
  (`scan/mod.rs:497`).
* A message read late cannot part an episode that was joined before it
  (`persist.rs:275`), where `docs/OFFLINE-INTEGRITY-CHANGES.md` promises a returning
  state an episode of its own "after an intervening conflicting assertion, even
  if scanning has not run yet"; `LatestStands` speaks of messages read in order.
* `unit_sources` keeps one fingerprint per artifact (`service.rs:706`); a declared link
  between two files that only connect sources leaves corroborations live; and
  links are followed sixteen steps. `LaterLinksWithdraw` is about links with a
  source at one end.

*Reading and importing.*

* `cancel` stops whichever job runs by then (`reread.rs:178`).
* A fresh reading by rules and model adds a provenance row for each reader
  (`persist.rs:281`), which is why the ledger counts by reader.
* The importer compares a file and then moves it; one replaced in between is filed
  unread (`autoimport.rs:264`-`:298`). Twenty-five files that cannot be read and come
  first by name keep the rest waiting (`:254`).
* A `.zip` inside a project is checked against the tree as the folder to unpack it into. If it
  does not open, or the unpacking limit was reached, it is read as a file all the same, and
  where a folder is at its path the tree then refuses it: its content is stored and belongs
  to no project (`projects/mod.rs:240`, `:418`), where `store.rs:144` promises that the check is made
  "so a clash doesn't store the file for nothing". `NothingReadInVain` excepts it, and TLC finds it
  without that exception.
* A client that hangs up leaves its job "processing"; `JobsAreFinished` excepts it.
* A client that stops sending and stays connected keeps the project's lock, and every
  later request to that project, waiting for as long as it likes
  (`routes/projects.rs:85`, `:129`); `RequestsEnd` excepts those, and TLC finds them without
  that exception.

*Derived data and services.*

* `caption_pass` picks withdrawn photos as well; as many of them as a batch holds
  keep the others from a caption.
* A reset between reading verdicts and writing the bar is overwritten by one step;
  lowering a raised bar by a reset drains nothing that waits below the old one.
* With a target precision of 0, which the configuration accepts (`config.rs:575`), the
  tuner can lower the bar for two signals, of which `decide/live.rs` says that it
  "can tighten but never loosen"; `TrayTuned` asks for a positive one.
* A bundle cut between two rows is accepted; a file whose content is there
  under another id fails the whole import; an older bundle imported after
  merges brings deleted edges back.
* An import says that it keeps "only memberships still represented by the restored
  rows" (`export.rs:425`), but where an edit has deleted such a row and not committed
  (`feedback.rs:395`-`:407`) the insert finds the claim as it was, waits, and puts the
  member back although the claim no longer points at that topic. `ImportedFits` excepts
  these (`crossed`), and TLC finds them without that exception.
* An `initdb` that outlives a crashed app may spoil the one of the next session
  (`runtime.rs:397`-`:409`): that start fails, or leaves a cluster without its
  `PG_VERSION` that every later start refuses until it is moved aside by hand, where
  `init_cluster` says the "data directory is never a half-initialized cluster".
* A daemon of the user's that takes the port while the app's own is booting is
  shown as the app's, "ready" (`runtime.rs:189`); a daemon that ends later stays "ready".
  `SettingsInForce` excepts both (`lost`).
* Two settings saved at once restart the stack from two threads; a daemon spawned
  by one can be left running after the other stopped what it knew
  (`runtime.rs:250`), where `docs/INSTALL.md:197` says quitting "stops both". `QuitStopsBoth`
  claims it for an undisturbed app only, and PostgreSQL only where the app did not stand
  aside: with a crashed session's PostgreSQL running and the user's daemon on the
  port, the app is "unmanaged" and has no database to stop. Of threads that overlap the
  properties claim nothing.

## 4. What is proved

All theorems are about the modules' specifications, for all values of the
constants that satisfy their `ASSUME`s. The bounds `MaxRequests`, `MaxDeeds` and
those of a `Scenario` are any numbers, so they restrict nothing.

| Theorem | States |
|---|---|
| **`EntityMergeProofs`** | |
| `TypeCorrect` | `TypeOK` |
| `LineageInvariant` | `Lineage`, the conjunction of the next four |
| `HeadsAreLive` | `OneLevelDeep` |
| `AuditIsTheState` | `AuditMatchesPointers` |
| `JournalsNameDescendants` | `DescendantsAreBelow` |
| `SplitsAreWhole` | `BranchesStayWhole` |
| `UnitsFollow` | `UnitsFollowHeads` |
| `KeptEdgesFollow` | `KeptEdgesFollowHeads` |
| `NamesAnswer` | `NamesHaveOneAnswer` |
| `MergingMakesGroups` | `MergesMakeGroups`: `EntityMerge` implements `EntityGroups` |
| **`ResolvePassProofs`** | |
| `PassIsMerges` | `ResolveSpec => Spec`: a pass among people is a behaviour of `EntityMerge` |
| `PersonsMergesStand` | `EarlierMergesStand` |
| `DismissalsLast` | `ResolveIsSound` |
| `OnlyReportedJoin` | `OnlyReportedJoinDifferent` |
| `DecisionsAreHeeded` | `DecisionsStand`, the two before together |
| `PassEndsAsPlanned` | `FlatPassEndsAsPlanned` |
| **`UnitLifecycleProofs`** | |
| `TypeCorrect` | `TypeOK` |
| `PairsAreJudged` | `NoPairMissed` |
| **`ClaimStateProofs`** | |
| `SupersessionsHold` | `SupersessionsInForce` |
| `OpenRowsAreAboutClaims` | `OpenOnesAreAboutClaims` |
| `ConfirmedStay` | `ConfirmedStands` |
| `ResolvedStay` | `ResolvedStands` |
| `JudgementsStay` | `JudgementsStand`, the two before together |
| `CurrentOnesAreOpen` | `CurrentClaimsAreOpen`, without `restore` |
| `GraphIsFollowed` | `GraphFollowsClaims`, without `resolve`, `retract` and `restore` |
| `ConflictsStayOnShow` | `ConflictsAreShown`, without `retract`, `resave` and `split` |
| **`ArrivalProofs`** | |
| `ReadingIsAlwaysSound` | `ReadingIsSound` |
| `ReadingImplements` | `ReadingImplementsLedger` |
| `IntakeSound` | `IntakeIsSound` |
| `ProjectsAreSound` | `ProjectIsSound` |
| **`DerivedProofs`** | |
| `IndexKeepsUp` | `IndexIsSound` |
| `ComparisonsAreCurrent` | `CacheIsSound` |
| **`ReviewTrayProofs`** | |
| `TraySound` | `TrayIsSound` |
| `TrayTuned` | `TrayIsTuned`, with a positive target precision |
| **`DesktopProofs`** | |
| `BundleInOrder` | `BundleIsSound` |
| `BundleIsKept` | `BundleKeeps` |
| `StackSound` | `StackIsSound` |
| `QuitLeavesNothing` | `QuitStopsBoth` |

### EntityMergeProofs

*Assumptions.* Entities are numbers, `None` is none of the values it stands in
for, nicknames are not entities' names, an edge's label determines its unit,
the worker is not a person.

*The argument.* `OneLevelDeep` alone is not inductive: whether a split leaves
a pointer at a merged entity depends on what its journal calls descendants.
`Lineage` therefore adds three facts about audit rows. `AuditMatchesPointers`:
an entity is merged away iff exactly one live row has it as loser, and both of
a row's entities have one head. `DescendantsAreBelow`: what a row calls
descendants is closed, upward and downward, under the other rows.
`BranchesStayWhole`: descendants share the loser's head, and the journals of
two rows are nested or disjoint. The lemmas `MergeHeads` and `UnmergeHeads`
say what a merge and a split do to `HeadOf`; `TopRow` says that a row
`CanUnmerge` accepts is in nobody else's journal. With these, each conjunct is
preserved by a merge and by a split in any order, hence also by the wrong
order that finding 1 is about: pointers and units survive it, edges do not.

On top of `Lineage`: `Subjects` (units sit on heads, and a journal names
exactly the units about the loser and what is below it), and `KeptEdgesInv`
(the same for both sides of each edge no merge deleted, with the uniqueness of
edge rows and that a journal names only extracted edges).

`NamesHaveOneAnswer` rests on `Names`. The names of entities among the aliases of
a live one are those of what was merged into it, and a journal hands over
exactly the loser's name and those below it (`OwnNames`). A nickname is with one
entity at a time (`NicknameOnce`); what a journal says the loser had, the merge
handed over, and the loser's head has it (`NicknameHandedOver`); and of two
journals that name it one is below the other (`NicknameOnOneBranch`), so that
splits in any order hand it back to one side only.

`MergingMakesGroups` is the refinement to `EntityGroups`, which defines a group as what
chains of pairs join. One half, that merged entities have one head, is `AuditMatchesPointers`.
The other, `ChainsReach`, says that entities with one head are joined by rows that stand,
and is not a consequence of `Lineage`: it is kept by a split because nothing outside the
branch that the split hands back is linked into it (`BranchIsApart`), which is what
`DescendantsAreBelow` and the refusal of all but the top row give. `JoinStep` and
`PartStep` are then the two steps of the simulation, and all others stutter.

### ResolvePassProofs

*Assumptions.* Those of `EntityMerge`; survivor keys are distinct numbers (creation time and
id order entities totally); finitely many entities.

*The argument.* Each step of the pass is a step of `EntityMerge` or leaves its
variables alone (`StepIsMerge`), so what is proved there holds here; that the
survivor is one of the heads (`SurvivorIsAHead`) is a well-foundedness argument. `PassReads`
says what the values read earlier are still worth while people go on merging:
`RecordsAreTrue` (records and the merges that stood then agree), `RequestsAreFresh`
(a row made since carries a time of its own) and `ListedAreAutomatic`: what the
pass is about to undo was merged by the worker, or merged anew since. The last
gives `EarlierMergesStand`, with people interfering at any point.

The other three are about a pass that nobody disturbs, over records that no
merge has flattened (`Quiet`). `FlatPassEndsAsPlanned` describes the end, and is
not inductive; `QuietInv` describes every moment: groups are unions of what
people put together and hold no dismissed pair (`GroupsAreSound`); whatever
hangs on a member of a group is a member, except merges not yet undone or
parked as not undoable (`GroupsHoldTheirOwn`, `TogetherForAReason`); and where
nothing is parked, a group done with is one entity (`DoneGroupsAreOne`) and what
is in no group is where people left it (`OthersAreAlone`). `UnwindQuiet` and
`MergePlannedQuiet` are the two real steps. The exception for parked entities is
the one of finding 3: looking for the invariant is what brought it up.

### UnitLifecycleProofs

*Assumptions.* `None` is no unit, scanner, time, subject or status; the survivor
of the merge is a subject other than the loser, and where splits happen the
loser is a subject as well.

*Types.* `TypeInv` adds to `TypeOK` that a scanner at work holds a unit that has
been extracted, that this unit is not on its own list, and that the owner of
the lock is recording. `DependentsTypes` and `ConflictOutcome` are the lemmas
about the two large transactions, withdrawal and `record_conflict`.

*The argument for `NoPairMissed`.* A unit is stamped when its list is empty, so
the invariant speaks of the lists of scanners that know their candidates and
whose unit has not been revised (`Scored`). `ListsAreComplete`: for every
scanned claim about the subject, the pair is judged or the claim is still
listed. `ListsOverlap`: of two such scanners, at least one still lists the
other's unit, or the pair is judged; without it, two scanners could each miss
the unit the other is about to stamp. `FreshAreActive` and `LockedUnit` say
what a row that nobody has revised is.

One lemma, `ListsKept`, covers every step that only takes rows off lists: it is
enough that no revised row is a scanned current claim afterwards, and that
what leaves a list was revised or judged. `RevisionKeeps` derives this for all
steps of people and extraction from the clearing of cursors, `RecordPairs` from
the fact that a recording revises at most the claim it supersedes. Only
`LoadCandidates` and `Finish` need arguments of their own. So the proof uses the
revision guard of the scanner and the cleared cursor of each handler, and
fails when either is dropped, as the two mutants of `NoPairMissed` show.

### ClaimStateProofs

It extends `UnitLifecycleProofs`: that a scanner in its transaction acts on a row
nobody has revised (`RowsInv`) is what every theorem here rests on. There are no
further assumptions on the constants; three theorems name the deeds they exclude, and section 3
says for each of these what goes wrong in the code.

* `RecordsInv` joins `SupersessionsInForce` and `OpenOnesAreAboutClaims`, which need
  one another: a withdrawal follows certificates to the claims they concern. The
  eight rounds of `PropagateWithdrawal` are a recursive function, unrolled once by
  the lemma `RoundsOf`; `ReachedFrom`, `ComesBack` and `GoesAlong` are then what a
  withdrawal does to a unit, a certificate and a row. `LockedIsAClaim` is the fact about the
  scanner: what it records is not retracted, however long ago it was loaded.
* `CurrentClaimsAreOpen` needs that no certificate remembers a claim that was closed
  before, `EdgesFollowUnits` that a certificate, the pointer of its older
  claim and that claim's edges agree (`EdgesInv`); undoing then restores all
  three together (`UndoneEdges`).
* `ConflictsAreShown` (`FoundInv`): a withdrawal reaches, besides what is withdrawn,
  only superseded claims (`ReachedAreSuperseded`); so a row it takes off the
  list is about a claim that is not current, or comes back revised and is
  judged anew.

### ArrivalProofs

*ReadingQueue: assumptions.* Each file has one of three kinds, there are finitely many, a batch
has at least one; `None` and "rules" are no models.

*The argument.* `SourceCountedOnce` is not inductive: that a reader has made no entry yet
follows from marks that other transactions set. `ReadingInv` adds
`UnreadBacksNothing` (a file not read backs no claim), `StampIsTrue` (the model's
mark is set only where its entry is), and for `JobsLeaveNothing` two facts
about jobs: `JobsAreNamed` (a running job, and the copy a worker reads for, has
a number and a model) and `BaseWasRead` (a job goes over what had been read). The proof has a
lemma per kind of step. `FreshStep` and `AgainStep` are the two transactions that
store: both look at the mark again under the row lock, and it is this second
look that the first entry of a reader rests on, not the load. `LedgerStep` then
shows that a step of the worker is a `Testify`, a `TakeBack` or a stutter of
`ReadingLedger`, and `ReadingImplements` is the refinement as a theorem.

*Intake: assumptions.* Names are in an order; a content has parts, each a set of things;
"nothing" is no content.

*The argument.* That a file in `done/` was read needs what the importer knows of the
file it is at: it is as listed, or was replaced since (`ListedBefore`), and if it is
the one read, the parts already stored and those `left` are its own (`FirstRead`, `ReadSoFar`).
So when nothing is left all of it is stored, and a file filed then is either that one
or came between the last look and the move, which is the exception the property
names. `SessionIsStored` follows for half lines as well: a session is remembered by the
messages that were complete when it was read.

*ProjectTree: assumptions.* Uploads and archives are sequences of entries, an entry has a path that is not
empty, and what an archive holds are entries again.

*The argument.* `ProjectInv` has three facts besides the parts of `ProjectIsSound`. `UsedOnce`: the id of a
project that is there or asked for is not given out again. `InTurn`: of the requests to a folder only the
first in the queue is past the lock, also while it awaits its client. `StillFits`: where a request is about to read or record a file of a
folder, its path is still free. Every write keeps the tree a tree and the kind of every path (`GrownTree`:
`KindsStay`), so what a client was told stays so; and as all writers of a folder are in turn, nobody takes the
place between check and record. The attempt to prove it brought up the exception for a `.zip` that is
checked as a folder and then read as a file: see section 3.

### DerivedProofs

*ClaimIndex: assumptions.* Finitely many claims; "none" is no model.

*The argument.* A vector is stored in the transaction that looks at the claim and at
the space again (`Unchanged`, `Mine`), so `VectorsMatch` is kept whatever a worker has read
before. A topic pass checks nothing again. It relies on its row locks, so the invariant is
about what locks give (`HeldAreUngrouped`): what a pass holds has no topic and is held by no
other pass. What it reads without holding it has a topic (`Neighbour`), so a topic that new
claims join is one of those there were.

*ProjectCache: assumptions.* Finitely many projects.

*The argument.* `LoadsAreCurrent` compares what a request is answered with to the database at
the time it asked. Two invariants carry it. What is kept is either as the database is or the
ledger has a revision that was not there when it was checked (`KeptOrTold`); a compaction
writes a new one first and so makes it one of the newest, which a load reads (`KeptOrShown`,
`KeptOrSeen`), whichever daemon compacts, and whoever commits in between an older revision.
And a load reads each project in three statements that see three moments: what it has read
of a project, or is to read, is never less than was there when it began (`Reads`), since
projects grow until they are deleted. A fingerprint counts items, so a project is passed
over as unchanged only if the kept signature has as many of the items that are there as
there are (`Counted`), that is all. `Grows` is the one fact about writers, commits and
roll-backs that all of this needs, one lemma each.

### ReviewTrayProofs

*Assumptions.* Scores and signals are hundredths, targets are finitely many positive numbers, and
the libraries a behaviour may start from have one verdict per question and no
approval among the verdicts on merges by two signals, as the code records only
undone ones (`LibraryAssumption`). Stored bars may lie outside their bounds:
the configuration can change under them.

*The argument.* The tuner writes a bar from verdicts and bars it read in earlier
statements, while verdicts and resets come in. `BarsAreCurrent`: a bar it has
yet to move is as it read it, or was reset. `ResetIsClean`: a bar that was
reset has no verdicts to be moved on, neither stored nor in the tuner's hands.
`LoweredIsSure`: a bar it brought down has, by the verdicts of now, a share of
right answers that nothing speaks against, so the same verdicts do not put it up again; the
lemmas `Fraction`, `SureIsPrecise` and `Lowest` are the arithmetic of that share.
`RefusalsOnly` and `RefusalsOnlyRaise` give that two signals only tighten,
whoever resets what in between.

### DesktopProofs

*DesktopRuntime: assumptions.* Daemons are counted from 1; finitely many threads.

*The argument.* `StackIsSound` says what holds when all is quiet; `StackInv` what
holds at every step of every thread. Always: PostgreSQL runs and is started only on
a whole cluster (`ClusterIsWhole`), one daemon has the port (`OnePort`). While nobody disturbed it:
one thread works at a time beside the `pg_ctl` and `initdb` of
crashed sessions, and nobody stops the stack beside those (`OneAtATime`); the daemon that runs is the one
on record, in the slot or about to be taken back, with the settings saved last or about to be
stopped (`OneDaemon`); a PostgreSQL that runs is one the next stop will find, or the app
stands aside (`DatabaseIsOurs`); and what is shown is so, but for what happened since the app
looked (`ShownIsSo`). One lemma per action, one step per part of the invariant. `QuitLeavesNothing`
follows from the invariant in the state before quitting.

*LibraryBundle: assumptions.* Finitely many texts, ids and models; `NoModel` is none of them.

*The argument.* `RefersWell` after an import is what the database checks at the commit; that
a whole bundle passes, that no id or content comes twice and that members fit does not follow
from the bundle or the library alone. `ExportInv`: the bundle is part of a snapshot that was in order,
tables in the order in which references lead back, so even a cut bundle refers
only to what it holds. `IdsUsed`: every id of a library was given out,
also after a move, so a row of the bundle either is the row the library
has or has an id unknown to it. `ImportInv` carries this through the steps of an import: what it has
inserted stays new to a library people go on changing (`StagedIsNew`), and a table it is done with has a
row for each of the bundle (`TablesDone`). `MembersInv`: a member in the library, or put in, stands for a claim, or an edit
crossed it; of those the import has come to it has left out none that stands, also after a commit
between two rows. From these `WholeIsRestored` and `RowsAreKept` follow at the commit.

### Only model-checked

* Every liveness property: fairness is beyond the prover.
* `NoEdgeLost` and `PeoplesLoopsFollowHeads`: what a deleted edge leads to depends
  on the journals of merges that deleted it again; no inductive form was found
  short enough to be read.
* `ConflictsAreSound`, `VerdictsStand`, `SupportIsSound`, `SupportIsKept`,
  `PhotosAreSound`, `ComparisonIsSound`: `ClaimConflict`, `SourceFamilies`,
  `PhotoPipeline`, `ProjectWords` and `ProjectRanking` compute verdicts, families,
  groups, vocabulary and overlaps by folds and recursive functions over data,
  and what these yield for every input takes induction. That groups of photos are those
  the plan asks for also needs `HubDegree` to be above what the library reaches, as in the
  run: a photo withdrawn can make a hub an ordinary one, and nothing regroups then (with 2
  instead of 20, TLC finds the neighbours of the former hub left ungrouped).

## 5. Not modelled

* *Model client and text heuristics* (`extract/ollama.rs`, `general.rs`, `worth.rs`,
  `digest.rs`, `segment.rs`, `rules.rs`): requests with retries and rules on
  strings without shared state. The models let a model answer, fail or return
  anything, and let rules find what they may.
* *HTTP and gRPC surface*, configuration, authentication: conversion and read-only
  queries; handlers that change state are actions of the modules.
* *Drift statistics and evaluation* (`safety/drift.rs`, `eval.rs`): computed over
  finished passes, and an offline benchmark.
* *Within modelled parts*: which names are alike (`identity.rs`,
  `entities/similarity.rs`; any choice, anew at each pass), merge suggestions and
  cluster membership of entities, the local judge of the scanner, kinds of
  certificates other than those of contradictions, supersessions,
  corroborations and photo groups, albums (reconciled by the code of the groups),
  nearest neighbours and cosines (given), job counters and pacing, agent logs
  other than the session of Claude Code, the desktop's settings files, downloads
  and upload page, merges and their journals inside a bundle, running the
  migrations.
* *Row locks as such.* Transactions that lock what they change are one step; a
  deadlock that Postgres breaks by aborting one request
  (`contradictions.rs:230`) is not a behaviour of the models.
* *Deployment, scripts and dashboards*: no logic of the daemon.

## 6. Plan

In this order, the most consequential first.

1. *Done.* Merges, the resolution pass, the lifecycle of claims with the scanner,
   extraction with its ledger, and the services around them.
2. *Done.* Proofs about what `UnitLifecycle` leaves on record, the resolution pass,
   names, the review tray, bundles and the desktop runtime.
3. *Done.* Proofs about intake, projects, the index of claims and the comparison of projects;
   `EntityGroups`, what merging promises, which `EntityMerge` is proved to implement.
4. *Deleted edges*: an inductive form of `NoEdgeLost`, then `LoopsFollowHeads` for one
   person.
5. *Identity evidence* (`safety/identity.rs`, `entities/similarity.rs`) as operators
   against a reference, feeding `ResolvePass`.
6. *Certificates*: the causal chain people ask for, and the pure propagation of
   `safety/retraction.rs` against its least fixed point.
7. *Larger instances* of the service modules one at a time, where a finding calls
   for it.
