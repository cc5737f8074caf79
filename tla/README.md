# VeriFS (memfs): TLA+ models, model checking and proofs

VeriFS is a file system with memory for agents: files are stored as
content-addressed blobs, memories are extracted from them, proposed memories are
reviewed and promoted into durable files, and workspaces are synchronised,
snapshotted and mounted. Almost all of its state changes are methods of one class,
`VeriFS` in `src/packages/core/src/index.ts` (called `index.ts` below).

The code runs on one Node thread over SQLite (sql.js, in memory; `persist()` rewrites
the database file after every statement). It takes no locks and opens no
transactions. A method is therefore a sequence of *synchronous segments* separated by
`await`s, and what other requests do during an `await` is the concurrency of this
system. Every model takes one segment as one action; a request keeps its locals in
variables indexed by the request.

## 1. Inventory

| Component | State | Operations | Hard behaviour | What makes it correct |
|---|---|---|---|---|
| File handlers (`index.ts` 1184-1404, 6049-6176, 6284-6353) | `files`, `blobs`, `data/blobs/*`, workspace copies, `sync_events` | write, upload, read, delete, ingest, extract | four to ten awaits per handler; three copies of each file; crash between statements; failed I/O | references resolve, blobs are whole, each request is atomic to its caller, the places agree at rest |
| Trust layer (3392-4136, 4467-4999, 5370-5621) | `memory_nodes`, `memory_promotions`, `memory_reviews`, target files | propose, promote, approve, apply, reject, resolve, edit, stale, confirm, supersede | checks made before an await and used after it; target text read-modify-write; status spread over five columns | a rejection stands against every later request, what is retired stays out of recall, protected text was approved, duplicates are not approved, appends keep blocks |
| Sync (2187-2336, 6457-6495, 6623-6762) | `sync_events`, `sync_cursors`, `conflict_records` | push, pull, resolve | duplicated, delayed, reordered events; check-then-act; echo | replicas agree, no local change lost without a conflict |
| Snapshots (4138-4234, 5640-5877) | `snapshots`, `snapshot_items` | create, diff, list, rollback | a rollback is many awaited steps without a transaction | an undisturbed rollback restores the snapshot, also from half-restored tables |
| Runs, handoffs (2984-3348, 5086-5142) | `agent_runs`, `agent_run_events`, artifacts | start, log, complete, append, hand off, compile | artifacts are read-modify-write across awaits; compilations break off and overlap | events tell the status, no artifact line lost, no lesson twice |
| Archive (1425-1502, 4352-4465) | files below `/archive`, `archive_entries` | write, read, extract candidates | its files are ordinary ones and change meanwhile | the raw reference is the text that was archived |
| Recall, grep, search (1517-2016) | none | read-only | memories are withdrawn, files deleted during its awaits | nothing withdrawn is answered |
| Graph (2338-2906) | `memory_links`, `memory_graph_edges` | link, neighbours, path | cycles, bounds, dangling edges | what is found is nearest, paths are shortest |
| Briefs, health, stale listing (2908-2982, 3359-3390, 4236-4350) | health reports | reports | status spread over columns and links | what recall withholds is listed |
| Roles, protected paths, workspaces (1134-1177, 2117-2185, 6497-6617, 6764-6808, 6949-7037) | `roles`, `workspace_members`, `protected_paths` | members, checks | a refused read taken for an empty file; the last manager | no protected write without permission; an append adds, also when its actor's role changes |
| SQLite wrapper (`packages/db/src/index.ts`) | the database file | open, migrate, run, persist | whole-file rewrite, three stages of opening | what was stored survives a stop; an old database gets the whole schema |
| Adapters (`packages/db`, `packages/core`) | external stores | object, vector, sync stores | remote failure | - |
| Memory package (`packages/memory`) | loaded pipelines | extraction, chunking, curation, embeddings, fusion | model calls that fail or never answer, shared loads | one pipeline a model; no line lost; no risk unflagged in a field the detectors read |
| Mount core, mount daemon (`packages/mount-core`, `apps/mountd`) | handles with buffers, transient directories, registry file | open, write, flush, release, rename, truncate | dirty buffers across awaits, unmount | success means stored, rename keeps the text, every request is answered |
| Virtual bash, SDK, API, CLI, MCP, web | none beyond the core's | translate calls | defaults such as `require_review` | - |

How they interact: API, CLI, MCP, mount and bash call the core's methods in one
process. Within the core, ingest, archive, runs, promotions and sync all go through
`writeFile`; promotions call ingest, which compares with the memory table and may
supersede nodes; every change ends in `recordSyncEvent`, which sync pushes.

`PROJECT.json` lists every component with its status, and under `hazards` what is hard
to test, at its line, with the properties that cover it or the reason none does yet.

## 2. What is modelled

### FileStore (`FileStore.tla`)

One request slot per `t \in Task`; `pc[t]` names the await at which the handler is
suspended, `req`, `seen`, `result` are its locals. The other variables are the store:

| Variable | Code |
|---|---|
| `file` | `files` rows by path: id and `current_blob_sha256` |
| `blobRow`, `blobDisk` | rows of `blobs`; the file below `data/blobs`: absent, partial, full |
| `disk`, `opened` | workspace copies; which requests hold a descriptor on the current inode |
| `outbox` | the `files` rows of `sync_events` |
| `node` | source references of `memory_nodes` |

Handlers and their actions:

- write, upload: `WriteBegin`, `BlobOpen`, `BlobWrite`, `BlobInsert` (`storeBlob`),
  `CopyOpen`, `CopyWrite` (`writeWorkspaceFile`), `Commit` or `CommitUnannounced`
  (row, and event unless a run is given), `RunLogged` (event after
  `appendRunArtifact`), then optionally ingest.
- ingest, extract: `IngestBegin`, `InsertNode`, `LinkNode`, `IngestEnd`.
- delete: `DeleteBegin`, `RemoveCopy`, `Drop`. Read: `ReadBegin`, `ReadBlob`.
- any handler: `Refuse` (workspace, role, protected path), `AwaitFails` (an awaited
  call rejects), `Reply`.
- the process: `Crash` (at an await), `CrashInCommit`, `CrashInDrop` (between two
  statements of one segment).

Operators whose comment begins with "Variant" stand next to the definition they vary:
a plausible mistake, used to show that each property can fail. No run uses them.

Choices: a content stands for its SHA-256; `fs.writeFile` is open-with-truncation and
then the bytes; two descriptors on one inode may overlay their bytes (`Torn`).
`CascadeOn` says whether SQLite enforces `ON DELETE CASCADE`: the wrapper switches
`foreign_keys` on once, and sql.js loses that pragma on the first `export()`, which
`persist()` calls after each statement, so the runs use FALSE; the proofs hold for
both. `file_events` and audit rows, the MIME type, and the artifact line that a read
with a run_id appends are left out; workspaces are independent, so there is one.

### AtomicFiles (`AtomicFiles.tla`)

The abstract specification of the same handlers: a table from paths to contents, and
requests that take effect at one instant between call and answer. `FileStore` maps to
it by `table[p] = InTable(p)` and `AbstractCall(t)`; the instant of a write is the
update of its row, of a delete the deletion, of a read its lookup. It also states what is *not*
promised: a write may take effect and answer "failed" (unknown run, failed
extraction), a second delete may answer "ok", a binary read may return torn bytes, and
a crash may let one pending change take effect without an answer.

### MemoryReview (`MemoryReview.tla`)

`node` is the `memory_nodes` table with the columns that decide a memory's standing
(`status`, `trust_level`, `valid_until`, `duplicate_of`, `conflict_reason`,
`conflicts_with`, its source file), `promo` the promotions in order of creation,
`text[f][p]` how many blocks of promotion `p` file `f` holds. `Scratch`, `Runs` and
`Drafts` are the files whose path gives a memory its trust (`TrustFor`) or makes it a
candidate (`IsCandidate`). Requests that suspend
have `pc` and `loc`; the synchronous handlers (`Reject...`, `ResolveConflict`,
`KeepOld`, `MarkStale`, `ConfirmMemory`, `SupersedeMemory`) are one action each.

- `Propose`, `Promote`, `InsertCandidate`, `Proposed`, `Promoted`: a candidate is
  compared, inserted and given a promotion.
- `ApproveCandidate`, `ApprovalReviewed`, `ApprovePromotion`, `ApprovalBlocked`,
  `Decide`: the review, with its two conflict detections.
- `ApplyPromotion` (or `Decide` with apply), `WriteTarget`, `InsertExtracted`,
  `LinkExtracted`, `IngestEnd`: the target is read, written and ingested, then its
  nodes and the candidate approved.
- `UpdateCandidate`, `EditPromo`: an edit, on both sides of its embedding awaits.
- `ResolveWithTarget`: `updateCandidate` is called without `await`; it goes on by
  itself, or throws where nobody listens, which ends a Node process (`Restart`).
- `Fail(t)`: an awaited call rejects. `Crash`: the process dies while a request waits;
  what its statements wrote is on disk, so at any other time nothing would be lost.

`Next` is a step with `KeepHistory`, which records how requests overlap: `settled[t]` are
the promotions that were rejected all the time request `t` ran, `crossed` the files that
two requests were waiting to write at once.

Choices: what memories *say* is left out, so whether detection finds a duplicate, a
conflict or an update is a choice among the nodes the code compares with; of the trust
levels below `reviewed`, `agent_generated` is one ("generated") and the others are one; a `valid_until` takes effect at once. Files are
never deleted and snapshots never restored in this model. A node status "pending" is
treated as "candidate": the code normalises it so and nothing writes it.

### Sync (`Sync.tla`)

Replicas of one workspace over a shared store (`hub`). `table` is a replica's files,
`events` its `sync_events`, `conflicts` its `conflict_records`, `job[t]` the pull or
resolution a task is in.

- `Push` sends the oldest `PushLimit` rows, again each time, as `syncPush` does; `Pull`
  asks for everything the store holds, so that events come repeated, late, out of order
  with local changes, and a replica gets its own back.
- `PutAside`, `Apply`, `FinishUpload`, `FinishRemoval`, `EndPull` are a pull's segments:
  the conflict check and the write it decided on are two actions.
- `KeepLocal`, `Resolve`, `FinishResolve`: the four resolutions, of which three await a
  write between the look at the status and its change. `Abort`: an awaited call fails.

`Received` keeps what `applyRemoteFileEvent` does to an empty `content_base64`: it writes
the text of the hash. A pull therefore replaces an unchanged local empty file, which the
conflict check finds equal to the remote one; `AppliedWhenSafe` says it should not, and
the run `PullWhenSafe` that it does. `NoSilentOverwrite` leaves events without content
out and holds. Writes and deletes come with and without the allow flag of protected paths. What a file write is inside is FileStore's; here only its last
await remains.

### Snapshots, Runs, Archive

`Snapshots.tla`: `CreateSnapshot` copies the tables in one segment; a rollback empties
them in another and restores blobs, files, rules, nodes and links with an await after
each (`BlobsWritten`, `Wiped`, `Copied`, `Embedded`, `Fails`, `Answer`), while files and
memories are edited, another rollback runs or the process ends (`Killed`).

`Runs.tla`: `CreateRun`, `StartRun`, `LogRunEvent`, `CompleteRun`, `AppendRunArtifact`,
`CreateHandoff`, `CompileRun` and their segments; `BreakOff` ends one request or all.
`EndCreate` tells of the creation after the folder was written (3027), so a run that was
started or completed meanwhile has `run_created` as its last event. `EventsTellStatus`
says what remains true: the last event *other than* that one tells the status of the row,
and the creation is told once at most.

`Archive.tla`: an entry's file is an ordinary file that others rewrite (`Touch`) between
the segments that store it, insert the entry, extract candidates and look their raw
source up.

### Graph and Recall (`Graph.tla`, `Recall.tla`)

`Graph` is the state: memories with their status columns and source, links and edges,
and the handlers that change them; an inserted memory is linked to at most eight others
of its file. Memories have every status a handler writes ("pending" is written by none),
and the review is there as far as recall reads it: `RejectNode`, `MarkStale`, `Confirm`,
`EditCandidate`, `ResolveConflict`, `Approve` (of one memory, or of all of a file),
`SupersedeMemory`, `MarkConflict`, and `RollBack`. `FindRelatedMemories` and `ExplainRelationshipPath` are the two searches:
`RelateNext` and `ExtendNext` take one path from the queue, `RelateAll` and `ExtendAll`
go through its last memory's edges. A search visits a memory once, so as many rounds as
there are memories end it. `Within` is what it is measured by: the memories at most `d`
edges away, defined without a queue. `Recall`
EXTENDS it with asks that suspend (`Ask`, `GrepFile`, `GrepExtracted`, `Score`,
`CollectResults`, `FinishRecall`, `Brief`), the stale list and the health report. Scores
are choices: what an ask *may* answer is what matters here. `since` remembers what stayed
withheld throughout an ask.

`SupersededIsWithheld` relates two things no handler keeps together on purpose: the links,
which the stale list reads, and the row, which recall reads. A memory with a "supersedes"
link to it must stay out of plain asks, though edits, confirmations, approvals and
resolutions write its status and trust and look at no link. It holds because of
`valid_until`, which all of them leave alone. A rollback does not: it inserts the row anew
without it, and `restored` marks the rows it did that to, which the property leaves out.

### Models, Chunks, Curation (`packages/memory`)

`Models.tla`: embedding and extraction calls with timeouts, fallbacks and the map of
local pipelines that overlapping calls share. `Chunks.tla`: `chunkMarkdown` as an
operator, each loop a recursive function with its round as an operator (`Sectioned`,
`Paragraphed`, `Fit`), checked on every text of up to `MaxLines` lines. `Curation.tla`:
validation of model replies, `applyDeterministicSafety`, and the flags a candidate is
stored and shown with; a text is the set of things the detectors find in it. A candidate
has a `trigger` and a lesson `lists` (`applies_to`, `preconditions`, `anti_patterns`):
the code scans neither (560, 697-706), nor the text of an edit, and
`ReadRisksAreFlagged` promises nothing of them.

### Team (`Team.tla`)

Members, roles, the permission check with its provider, and appending clients (shell,
MCP server, CLI, SDK), which read a file and write it back, while members get other roles. A file stands for each
treatment of paths: scratch, protected, other.

### Schema (`Schema.tla`)

The database file: each statement rewrites all of it (`Persist`, `Written`); `Stop` ends
the process anywhere, also between emptying the file and filling it. Opening runs the
script and the compatibility migrations over a schema given by its tables, later
columns and indexes; it starts from the files in `EarlierShapes`.

### Mount (`Mount.tla`)

The FUSE handlers of the daemon over mount core: handles with buffers and their dirty
bits, transient directories, control queries; each request goes from one API call to the
next. A recall stores its response before its audit row: a failure of the audit
leaves the new text of the query behind. `Outside` is another client of the workspace, `Stop` the end and restart of the
daemon, which commits nothing. It composes the daemon and the mount core, which share a
process, over files that change in one step.

### Composition

`MCServices` puts the components beside the file store, the review and the mount into
one instance: they share no state, so `part` chooses one per behaviour and their state
spaces add up. `Recall` is composed with `Graph`; `FileStore` maps to `AtomicFiles`, the
form in which `Mount`, `Runs`, `Archive` and `Team` see a file write.

## 3. Runs

| Run | Instance | Checks | Shows |
|---|---|---|---|
| `FileStore` | 2 paths, 2 contents, 2 slots, 3 requests, 1 fault; 3.7 million states | `TypeOK`, `NothingNamesALostBlob`, `BlobsAreWhole`, `CleanPathsAgree` | references resolve; blobs are whole; table, copy and events agree on clean paths |
| `FileStoreAtomic` | 1 path, one of the contents binary, else the same; 1.2 million states | `ImplementsAtomicFiles`, `OnlyTheFileSeenIsDropped`, `FileIdsAreStable` | the handlers are atomic to their callers |
| `FileStoreBlobs` | 1 path, 1 slot | `BlobsPreserveBytes` (violated) | a cut blob write is never repaired |
| `UnknownRun` | 1 path, 1 slot, no fault | `ContentsAreAnnounced` (violated) | a write for an unknown run changes the file and emits only the events of its history and audit rows: neither the blob's nor the `files` event that a pull applies |
| `MemoryReview` | 2 nodes, 2 promotions, 2 files, 2 slots, 2 requests of any kind, 1 crash | `TypeOK`, `RetiredStaysOut`, `ProtectedTextWasApproved`, `DuplicatesAreNotVetted`, `RejectionsStand`, `AppendKeepsBlocks` | the trust layer under overlapping requests: what a rejection and a written block are safe from |
| `SilentApproval` | 1 slot, 2 requests | `NoSilentApproval` (violated) | applying a promotion approves the duplicates of the target file |
| `RejectRace` | 2 slots: approve and reject | `RejectedIsFinal` (violated) | a rejection during an approval is overwritten |
| `Mount` | 2 paths (one protected, in a folder), 1 query, 2 requests in flight, 3 in all, 2 descriptors, buffers of up to 2 bytes, 1 stop or outside change; 570 thousand states | `TypeOK`, `CleanHandlesAreSaved`, `SuccessMeansStored`, `RenameKeepsTheText`, `ListedIffFound`, `EveryRequestIsAnswered` | what the mount acknowledges is stored; requests end |
| `services` | one part per behaviour, bounds below; 878 thousand states | the twenty properties listed below | the other components |
| `AppendsKeepText` | 2 handles, 1 client, 2 writes | `AppendsKeepText` (violated) | an append whose read is refused overwrites the file |
| `PullWhenSafe` | 2 replicas, 1 path, 1 task, 3 requests | `AppliedWhenSafe` (violated) | a pull writes the text of a hash over an unchanged empty file |
| `ConfirmedMemory` | 1 slot: propose, stale, confirm | `ConfirmedIsCurrent` (violated) | a confirmed memory stays out of recall |

Each violation run checks a sentence of the documentation or of the code, quoted with
its line under `findings` in `PROJECT.json`.

Properties of `services`, by part:

- sync (2 replicas, 2 paths one of them protected, 2 texts one of them empty, 2 tasks, 4
  requests, pushes of 2 rows): `OneOpenConflict`, `NoSilentOverwrite`,
  `ProtectedNotApplied`, `EveryEventAccounted`;
- snapshots (2 files, 2 memories, 2 rollbacks, 2 edits, which never leave a link: that links are restored is
  covered by the theorem alone): `RollbackRestores`;
- runs (1 run, 2 lines, 2 workers, 3 requests, 1 break): `EventsTellStatus`,
  `AppendKeepsLines`, `OneLessonPerKey`;
- graph (4 memories, every graph of up to 3 links up to renaming, and one change of it;
  searches to depth 2 for 2 memories): `SearchesAreExact`; recall (2 linked memories of
  one file or two, one ask, 2 changes) and health (2 memories, 2 changes): `WithdrawnIsNotRecalled`, `SupersededIsWithheld`;
- models (2 models, 2 callers, 2 loads): `OnePipelinePerModel`; chunks (8 lines, pieces
  of 5 characters): `ChunksKeepText`; curation (every reply of one or two items, four
  wordings, a trigger and lists with and without a secret): `ReadRisksAreFlagged`;
- team (2 handles, 1 client, 2 writes): `RemoteAppendsKeepText`; archive (1 entry, 2 requests):
  `ArchiveIsVerbatim`, `CandidatesQuoteTheirSource`;
- schema (files lacking any one, or all, of the later tables and columns, 2 stops):
  `OpenedIsCurrent`, `AcknowledgedSurvive`.

`TypeOK` is the conjunction of the components' type invariants.

Bounds. Two slots give every overlap of two handlers; in `FileStore` a third request
follows or replaces one of them, which is what delete-and-recreate beside a suspended
delete, a repeated write of a cut blob, and a read between two writes need. `MaxFaults`
and `MaxCrashes` bound crashes and failed calls: one suffices to leave every half-done
state, and two requests may still run after it. Two contents tell an old content from a new one;
in the runs with one path one of them is binary, since only those are read from disk.
Two nodes are a candidate and a memory it contradicts or duplicates; two promotions let
one be approved and another not; of the two files one is a run's `candidates.md` and one
protected (a scratch file instead of the former in the runs of one question).
`Handlers` narrows a run to the handlers its question is about. The `Init` of either
module includes stores that an earlier history left (a file, ingested memories,
candidates, a pending promotion), so that two or three requests reach far. `Task`, `Path` and
`Node` are symmetric, and so is `Content` where no content is binary. Deadlock is not
checked: every bounded behaviour stops when its requests are used up.

In `services`, two of everything that competes (replicas, tasks, rollbacks, workers,
callers, archivists) give every overlap of two; the third request lets one follow the
overlap. A pull needs a push before it and a local change beside it: four requests. One
stop while opening and one after suffice for every stage `Schema` has. Three
memories in a row with a fourth aside give a nearer and a farther path.

Fairness. `Mount` is checked under `FairSpec`, weak fairness of `Continue(o)`: every call
of the API returns or fails in the end, and Node then runs the handler that awaited it.
Nothing else is assumed; that new requests come, or the daemon stops, is not.
`EveryRequestIsAnswered` needs it, and that every error path of every handler answers.
The other modules state no liveness: their handlers wait for nothing but I/O, and the
code has no loop that a property would have to drive (a push or a pull happens when
somebody asks for it).

`CleanPathsAgree` speaks of *clean* paths, whose changes never overlapped and never broke
off. That is the code's limit, not a convenience: overlapping writes of one path can
leave the copy behind the table, and a crash in a segment can leave a change
unannounced.

## 4. Proofs

The modules `*_proofs.tla` are checked by TLAPS for every value of the constants, from the
`ASSUME` of each model alone (sets are contained, bounds are naturals, the null values
are not members). They assume nothing about finiteness of the sets of paths, contents or
requests. `Graph` assumes that there are finitely many memories: a table is finite, and
the searches end because of it.

**FileStore.** Proved: `TypeOK`, `NothingNamesALostBlob`, `BlobsAreWhole`,
`OnlyTheFileSeenIsDropped`, `FileIdsAreStable`. None of the last four is inductive. The
inductive invariant is `Inv`, five named parts:

- `TypeOK`;
- `Control`: what a request must be, and hold, at each await;
- `Ids`: ids in use are below `nextId` and differ between paths, and the row a handler
  looked up is gone or still under the path it asked for, so that an upsert or a
  deletion by id acts on the one row it means;
- `Named`: `NothingNamesALostBlob`, and that the content of a write past `storeBlob`
  has its row, which makes naming it in a row or an event safe;
- `Bytes`: a blob is partial only under a writer or after its write broke off, and is
  not absent once it has a row or a request is about to insert one.

Preservation is a lemma per part, with a step per action. The two action properties
follow from `Inv`, from `FileSteps` (only an upsert or a deletion changes the files
table) and from one step.

`Refinement` proves `Spec => ImplementsAtomicFiles`: the initial states map to those of
`AtomicFiles`, and every step of a handler to the step of it that takes effect, answers or
loses a call, or to a stutter. The invariant is `RefInv`: `Inv` with `Calls` (what a
request asks for at each await, and that it has no answer before its end). `Stands` says
what the abstract specification sees at each await; the lemmas `WriteRefines`,
`IngestRefines`, `DeleteRefines` and `ReadRefines` go through the handlers.

`PathsAgree` proves `CleanPathsAgree`. The property says what holds when no request
changes a path; `Agreeing` says what holds in between: at most one change of a clean path
is in flight, and table, copy and events agree but for what that change has half done.
The lemmas from `ReplayedIs` on say what one more event makes of the replay.

**MemoryReview.** Proved: `TypeOK`, `RetiredStaysOut`, `ProtectedTextWasApproved`,
`DuplicatesAreNotVetted`, `RejectionsStand`, `AppendKeepsBlocks`. The inductive invariant
is `Consistent`, with `Counted` for the bounds of the counters:

- `Tables`: promotions are numbered without gaps and belong to existing nodes, and
  conflicts name existing nodes;
- `Held`: what a request holds at each await. A review past its first check holds a
  candidate that is no duplicate; a request about to write a protected file holds a
  promotion that was approved or waived, and only such blocks in the text it keeps;
- `Approved`: a promotion with status "approved" passed a review or had it waived, and
  a vetted promotion's candidate is no duplicate;
- `Texts`: the type of the texts, and `ProtectedTextWasApproved`;
- `Retired`: a retired node exists and has `valid_until` set. This is the reason
  behind `RetiredStaysOut`: its status and trust level may change afterwards (an apply
  marks it approved), its expiry may not.

`Progress` says what any step may do to the tables and the histories; every action is
shown to be a `Progress`, and `Progress` to keep `Tables`, `Approved` and `Retired`.

`RejectionsHold` and `BlocksKept` prove `RejectionsStand` and `AppendKeepsBlocks` of all
of `Spec`: any number of requests in flight, of every kind. They need `Undisturbed`, what
a request that is past its check relies on across its awaits: the promotion it holds is
not one that was rejected all the time it ran, and the text it read is the text of the
file unless that file is `crossed`. `AllMove` says of each step what it may do to any
request (`Moved`: it stands still, is not past its check, goes on with its promotion, or
has just made the check), `TextSteps` and `OneText` that only a write changes a text, and
only its target's, and `UndisturbedKept` puts them together. What the properties leave out is what the code
does not promise: a rejection that overtakes a request under way (`RejectRace`), and two
applications that wait to write one file (section 6).

**Sync.** Proved: `SyncTypeOK`, `OneOpenConflict`, `NoSilentOverwrite`,
`ProtectedNotApplied`, `EveryEventAccounted`. The inductive invariant `SyncInv` adds two
parts to types and `OneOpenConflict`: `Checked`, what a pull that awaits a write has
found out about its event and about the row it saw; and `Grounded`, that a resolution's
record is there. The three action properties follow from `SyncInv` and one step:
`OwnStep` shows that only its own steps move a pull, `PassingStep` which of them pass
an event.

**Schema.** Proved: `OpenedIsCurrent`, `AcknowledgedSurvive`, for any files to start
with whose schema lacks anything. The lemmas say what the script and each part of the compatibility
migrations make of any schema (`CompatibleCompletes`). `SchemaInv` has `Staged`, what each
stage of opening can rely on, and `Kept`, that no row is lost between memory and file.

**Models.** Proved: `OnePipelinePerModel`. The invariant is the property with the types;
the lemmas are about the start and the end of a load, the only steps that touch the map.

**Team.** Proved: `RemoteAppendsKeepText`, and `RolesAreOrdered`, for any handles, clients
and providers. `ReadsKept` says that an append of a client that goes on after a 404 alone
holds what it saw; `ReadForAppendKeeps` is the step that could break it, since a refused
read gives no text.

**Mount.** Proved: `CleanHandlesAreSaved`, `SuccessMeansStored`, for any paths, bytes,
descriptors, requests in flight and stops. `MountInv` adds to the first: `Handles`
(descriptors not given yet are free), `CommitsOfHandles` (the handle of a commit is there
until it ends), `ReleaseIsAlone` (no other commit shares the descriptor of a release:
otherwise the release would drop a handle that another commit marks clean) and
`CommitsCarryTheBuffer` (what a commit is storing, then what is saved, is what its handle
holds unless it was written meanwhile). Steps are grouped by what they do to the requests
(`NoNewCommit`) and to the handles; `OnlyStoredSucceeds` gives the action property.

`MountTyped` proves `TypeOK`. Its invariant `Typed` also says which fields a request has,
which descriptors are given, and that a commit under way is of a handle that is there.
`RenameKeeps` proves `RenameKeepsTheText` from `Moving`: a rename past its read holds the
text that is under one of its names. `ListsTrue` proves `ListedIffFound`: `OneLevelBelow`
is the fact about paths, `ListsWhatIsThere` the two handlers side by side. A path below a
file is neither listed nor found: there the listing is refused (`ENOTDIR`), which the
property needs no exception for.

**Archive.** Proved: `ArchiveIsVerbatim`, `CandidatesQuoteTheirSource`. `ArchiveInv` adds
`WritersAlone` (a request that stores an entry has a text without a secret and no other
request is about the same entry) and `ReadersQuote` (a request that makes candidates has
the text of the file, or the file was changed).

**Runs.** Proved: `RunTypeOK` (`RunsTyped`), `EventsTellStatus`, `OneLessonPerKey`,
`AppendKeepsLines`. `EventsTellStatus` is inductive together with `Unborn` (a run that is
not there has no events) and `Creation` (a request that creates a run is the only one to,
and has not told of it), which `CreatesOnce` preserves: this is why the creation is told
once at most, and may still be told last.
`OneLessonPerKey` needs `Lessons`: in a run that is not mixed (no two compilations of it
have overlapped) one worker at most compiles, and what it is about to insert is of no key
the run has. `AppendKeepsLines` needs `Appending`: an append about to write has the lines
it read.

**Snapshots.** Proved: `SnapTypeOK` (`SnapshotsTyped`), `RollbackRestores`. `SnapInv` says
which snapshot and what remainder of it a rollback holds. `Restoring` says how far a
rollback that nobody disturbs has come (`RestoredTo`): the rows, copies, nodes, links and
vectors it has passed are those of the snapshot, all others of the workspace are gone.
The tables it starts from are arbitrary, so they may be what an earlier rollback left
behind when it broke off. The steps are grouped by what is restored (`RowStep`,
`NodeStep`, `RulesStep`).

**Graph and Recall.** Proved: `SearchesAreExact`, `WithdrawnIsNotRecalled`,
`SupersededIsWithheld`, and the types (`RecallTyped`).

`SearchedExactly` holds for every graph the handlers can write, and every depth, limit
and filter. The searches are loops, so the proof is by induction on their rounds: `Steps`
and `StepsTo` derive it from the library's fact that `<` is well-founded on the naturals,
and `Recursion` that a loop over a set of states computes one of them. The argument is:

- `BallGrows`: what is at most `d + 1` edges away is what is at most `d` edges away and
  one edge on;
- `Layered`, the invariant of both searches: the queue holds paths of two neighbouring
  lengths, the shorter first; each is as long as its end is far (`Exact`); and a visited
  memory waits in the queue, or all that lies beyond it is visited (`Settled`), or it is
  too far to be followed;
- the edges of one memory keep `Layered` (the inner loop), taking a path off the queue
  keeps it, and an empty queue then means that the whole ball was visited (`Reached`);
- `Balance`: each round raises the number of memories that were visited and taken off the
  queue, so as many rounds as there are memories end the search;
- `RelatedNearest` and `PathsShortest` read the property off.

`RecallInv` has the types, that an ask has gathered at most what it ranked, and that what
stayed withheld since an ask began is still withheld. `AllClean` is the property of asks
that are not answered yet. It is kept by scoring because what is ranked is recallable
now, by the collection of results because what a search relates is in force now
(`NeighboursInForce`), and by a grep because a file is skipped if only stale memory is
left in it. Changes of the graph only take from what stayed withheld (`HistoryKeeps`).

`SupersededStays` proves `SupersededIsWithheld` from `HeldDown`: what a "supersedes" link
points to has a `valid_until`, or a rollback inserted its row anew. Each review keeps a
row that is gone (`StaysGone`), and a new link of that kind marks what it points to,
whoever makes it: a request, a supersession, or an insertion that was taken for an update
(`LinkedHeld`, `ConnectHeld`).

**Curation.** Proved: `ReadRisksAreFlagged`, from `Curated` (the verdict is what validation
made of the reply) and `Carded` (a card keeps the flags of the text it was proposed
with), with a lemma for each thing that is made of a reply.

**Chunks.** Proved: `ChunksKeepText`, for texts of any length and any limit. Each loop of
`chunkMarkdown` is followed by the same induction as the searches: what has been cut so
far has the full lines read so far (`SectionsKeep`, `ParagraphsKeep`, `SplittingIs`), a
section has a heading in its first line at most (`Pieces`), so of its paragraphs only the
first begins with one (`OneHead`), and a chunk that is closed was within the limit or is
one paragraph (`Good`, `FitGood`). `TrimKeeps` says that what is trimmed is blank.

**Only model-checked.**

- the `TypeOK` of `MCServices` as a whole: of its conjuncts those of Sync, Snapshots,
  Runs, Graph and Recall have theorems of their own;
- `EveryRequestIsAnswered` (liveness), and whatever needs `ENABLED`: outside the prover's
  reach.

`Services_proofs` holds the theorems of the components that share no state: `Models`,
`Team`, `Schema`, `Curation` and `Archive`; `Recall_proofs` those about loops, of `Graph`,
`Recall` and `Chunks`.

## 5. Plan

The modules of the plan are written and their safety properties are proved, but for those
named above. What is left, in order of importance:

1. the registry of mounts (`apps/mountd`, 633-657), a file that several daemons
   rewrite;
2. the rank fusion of recall against a reference definition.

## 6. Not modelled, and why

- **API server, web, most of CLI, MCP, SDK, virtual bash.** Each method is one call of
  the core without a state of its own. Their appends, which have one across an await,
  are in `Team`. The web dashboard's stale refreshes concern what is displayed.
- **Adapters.** Clients of PostgreSQL, S3, HTTP and pgvector: what those services do is
  not in the repository. `Sync` takes the store to keep what it is given, in order.
- **Text heuristics** (similarity, extraction, scores, query planning, fusion, vectors):
  replaced by choices, so that what is checked holds for any scoring.
- **Benchmarks, scripts.** Not part of the running system.
- **Audit rows and `file_events`.** Written and never read by a handler.

Behaviour met while modelling that no property states, since no text of the
repository promises otherwise: two promotions applied to one file together, the later
write dropping the earlier block; two resolutions of one conflict both running; the rows
after the first thousand never being pushed; `explainRelationshipPath` and
`findContradictions` failing for a whole workspace after the deletion of one memory that
an edge names; an emptied database file reopening as a fresh database; a database that lacks an
indexed column failing to open (`Schema`, `ScriptFails`); risk flags not being computed
again when a candidate is edited (`Curation`, `UpdateCandidate`), and never for a
candidate's trigger and a lesson's lists; `promoteMemory` giving a candidate a second
promotion; `run_created` being logged after the run was started.

## 7. Running

    tlc -workers 2 -config FileStore.cfg MCFileStore.tla
    tlc -workers 2 -config Services.cfg MCServices.tla
    tlapm FileStore_proofs.tla
