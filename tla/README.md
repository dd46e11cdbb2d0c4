# cloudSearch in TLA+

cloudSearch is a single-node search server (Rust, `src/rust/crates`). Clients index, delete and
search JSON documents over HTTP; every index keeps a write-ahead log, immutable segments, sidecar
files and a manifest on disk, and an in-memory handle. This directory holds TLA+ models of it, TLC
configurations that check them on small instances, and proofs checked by TLAPS.

The questions it answers: which documents an index holds after any sequence of operations, refreshes,
flushes, merges, snapshots, restores, failures, crashes and restarts; which handle a request is given
while others create, delete and open the same index; whether mappings, retention and sidecar files
follow the documents; and whether a search returns what the client typed, page after page.

Paths below: *idx* is `cloudsearch-index/src/lib.rs`, *sto* `cloudsearch-storage/src/lib.rs`, *api*
`cloudsearch-api/src/lib.rs`, *qs* `cloudsearch-api/src/query_string.rs`, *node*
`cloudsearch-node/src/main.rs`, *com* `cloudsearch-common/src/lib.rs`.

## 1. Inventory

| Component | State | Operations | Modelled in |
|---|---|---|---|
| Write-ahead log, `WalManager` (sto 158-443) | `wal/NNNNNN.log`, `wal/CURRENT` | open, append, replay_from, rollover, trim_through | `WalLog`, `WalFile` |
| Segments and manifest (sto 47-112, 444-472, 590-609, 786-838) | `seg_N.json`, `manifest.json`, `current.json` | write, read, next number, migration | `SegmentSet`, `IndexHandle` |
| Index handle (idx 529-1807) | searchable documents, pending operations, last sequence number, copy of the manifest | index, delete, bulk, get, refresh, flush with plan_merge/apply_merge_plan, merge, open_index | `IndexHandle`, `DocStore` |
| Named snapshots (idx 1813-1965, sto 611-784) | `snapshots/NAME.json`, `NAME.meta.json` | create, list, delete, restore | `IndexSnapshots` |
| Catalog (idx 58-397) | index directories, `metadata.json`, a lifecycle `RwLock` | create, delete, update settings, open | `Registry`, `IndexMetadata` |
| Registry (idx 399-518) | map from name to `Arc<Mutex<IndexHandle>>`, a second `RwLock` | create, delete, look up or open, metrics | `Registry` |
| Retention (idx 560-644, 1224-1260) | expiry time per document, in memory | noted by writes and replay, evict | `IndexMetadata` |
| Mappings (idx 1967-2025, 2150-2215) | the handle's metadata, `metadata.json` | infer, check, extend, persist | `IndexMetadata` |
| Background loops (node 113-262) | four loops, a semaphore, a shutdown channel | one task per index and tick | `Registry`, fairness in `IndexHandle` |
| HTTP API (api 236-580, 1298-1514) | none | look up a handle, lock it, call one operation | `Registry`, `SearchSession` |
| Request and query-string parsing (api 582-1198, qs) | none | pure | `QueryString`, `QueryDsl` |
| Search (idx 890-1217, 2253-3425, 3671-3830) | none | match, sort, page | `Scoring`, `Meaning`, `Paging` |
| Aggregations, doc values (idx 3427-3657, `doc_values*.rs`) | column files | build, read, count | `DocValues` |
| Positions (`inverted_index.rs`, `positions_writer.rs`) | a file per segment, readers | extract, write, merge, load | `IndexSidecars`, `Scoring` |
| Suggestions (`suggest_*.rs`) | a file per segment, readers | build, look up, unite | `Suggest`, `IndexSidecars` |
| Common types, configuration (`cloudsearch-common`) | none | none | types only |

**How they interact.** A request handler asks the registry for the handle (opening the index on a
miss), locks its async mutex and calls one operation, which runs to its end under the lock; the
background loops do the same. So operations on one index never overlap, but lookups, creations,
deletions and settings updates of the same index do, at every `.await`. Between two steps of an
operation there can also be (a) the end of the process and (b) the early return of that operation:
a file operation fails, or the HTTP server drops the request's future at an `.await`. In both cases
the steps done so far stay, in memory too in case (b). The WAL is written before memory; a flush
rolls the WAL over, writes a segment, publishes it in the manifest, trims the WAL, writes the sidecars
and may merge segments; `open_index` rebuilds memory from manifest, segments, WAL and sidecars.

**What is hard, and what has to hold there.** `PROJECT.json` lists the hazards one by one at their
lines; the properties named here are stated in the modules.

* *Crash consistency of the flush:* five durable steps, and the same again for the merge. At each of
  them a restart must find every acknowledged document: `TailWins`, `RecoveryExact`, `NoPhantom`.
* *Operations that fail half way and go on:* memory and disk disagree about the manifest, a segment
  number is used twice, a WAL record belongs to no acknowledged operation: `ManifestBacked`,
  `SequencesFresh`, `LogOrdered`, `ReadYourWrites`.
* *All of it together:* no internal step changes what clients read: `ImplementsStore`.
* *Torn bytes:* `AckedReplayed`, `NumbersFresh`, `TrimIsInvisible`.
* *Snapshots are two files and a restore rewrites the handle:* `AckedIsRestorable`,
  `ListingSurvivesCreates`, `RestoreIsWhole`, `ReadAfterRestore`.
* *Handles that outlive their index, lookups that race with deletions, five kinds of locks:*
  `CacheIsCurrent`, `OneHandle`, `AckedIsOpen`, `DeletedIsGone`, `RequestsFinish`.
* *One file with two writers, times kept in memory only:* `DocsMatchMappings`, `MappingsSurvive`,
  `ExpiryIsOwn`, `TailRemembers`.
* *Sidecars that follow the documents at a distance:* `PhrasesFound`, `NoStalePostings`,
  `SuggestionsFollow`.
* *Algorithms with two of everything* (two parsers, two orders, two ways of matching, two sources of
  aggregations): `QueryFindsWhatItSays`, `RoutesAgree`, `HitsAreMatches`, `SuggestionsAreBest`,
  `ColumnsAgree`, `ServedOnce`, `ServedAll`.

## 2. Modules

| Module | What it is |
|---|---|
| `WalLog` | Operators on the log as generations of whole records: append, replay, trim. |
| `SegmentSet` | Operators on segments and manifests: numbering, loading, covered sequence number, plan_merge. |
| `IndexHandle` | The state machine of one index on top of both. |
| `DocStore` | What an index promises: a map from ids to versioned documents. `IndexHandle` implements it. |
| `IndexSnapshots` | `IndexHandle` with named snapshots. |
| `IndexSidecars` | `IndexHandle` with positions and suggest files. |
| `WalFile` | The log at the granularity at which it can be torn. A state machine of its own. |
| `Registry` | Directories, catalog, registry, locks, requests and background tasks. |
| `IndexMetadata` | Mappings, `metadata.json` and retention of one index. |
| `QueryString`, `QueryDsl` | The readers of `q=` and of JSON clauses. |
| `Scoring`, `Meaning` | Which documents a query matches by the code, and what it is documented to ask for. |
| `Paging` | The order of hits, and pages by cursor and by offset while the index changes. |
| `Suggest`, `DocValues` | The suggest file and its search; columns and aggregations. |
| `SearchSession` | Composes the last seven: what clients of the search routes see. |
| `MC...` | Constants, symmetry and views for TLC. |
| `StoreFacts` | Lemmas on numbers and on the operators of `WalLog` and `SegmentSet`. |
| `IndexHandleProofs` | Proofs about `IndexHandle`. |
| `IndexSnapshotsProofs`, `IndexSidecarsProofs` | Proofs about its two extensions, on top of those. |
| `WalFileProofs`, `RegistryProofs`, `IndexMetadataProofs`, `SearchSessionProofs` | Proofs about these modules. |

### IndexHandle and DocStore

`logs`, `current`, `segs`, `hasManifest`, `manifest` and `currentJson` are the directory; `up`, `pc`,
`searchable`, `pending`, `lastSeq` and `memManifest` are the handle. `pc` is the position of the flush
that holds the mutex; while it is not `"idle"` no other operation runs. A document map is a total
function on `Docs` with `Absent`; documents are model values, a source is one of `Values`.

| Action | Code |
|---|---|
| `Recover` | `open_index`: migration of `current.json`, segments in manifest order, WAL after their greatest number |
| `Write(d, v)` | `index_document`, with `v = Absent` `delete_document`; one item of `bulk_apply`; one eviction of the retention loop |
| `WriteFault` | the record is written, but the call ends before it updates the handle |
| `Refresh` | `refresh` |
| `Merge`, `MergeFault` | `merge()`, the API and the background loop; and its failure after the rename |
| `FlushRollover`, `FlushSegment`, `FlushManifest`, `TrimGeneration`, `FlushTrimmed` | the durable steps of `flush`, in the order of the code; the trim removes one file per step |
| `MergeSegment`, `MergePublish` | `apply_merge_plan` |
| `FlushManifestFault`, `MergePublishFault` | `manifest.json` was renamed but the call fails (the directory sync), so the handle keeps its old manifest |
| `FlushFault` | any other early return in the middle of a flush |
| `Crash` | the end of the process. The normal shutdown (node 95-110) flushes nothing either |

The five history variables belong to no part of the program. `committed` and `ackedSeq` are what
clients were told. `indoubt` are documents whose last operation returned an error after its record was
written. `swallowed` and `damaged` mark exactly the documents that two gaps of the code (section 4)
have touched, so that the other properties hold for all the rest instead of being weakened.

`DocStore` knows nothing of this: its state is a map `content` with a `version` per document, which
only `Put` changes, and a set `excused` of documents for which nothing is promised. The mapping takes
as `content` what clients get from the index (`View` of an open handle, `Recovered` of a closed one, at
any step of a flush), as `version` the acknowledged sequence number, and as `excused` the documents in
doubt, damaged, or deleted while a segment still holds them. `ImplementsStore` is `Store!Spec`.

### WalFile

A file is a sequence of chunks: whole records, torn headers, torn payloads. `need` says how many of
the following chunks replay takes for the missing bytes of a torn record; it stands for the lengths of
payloads. `Outcome` is what the scan of `replay_from` makes of a file, `OpenFails` and `Replayed` what
it makes of the log. Appends, rollovers and flushes can be cut by a crash (`AppendCut`, `RolloverCut`,
`Crash`) or fail and go on (`AppendFails`, `RolloverCut`, `FlushFails`). Where
`max_sequence_in_generation` reads misaligned bytes, its answer is a nondeterministic choice
(`PerhapsCovered`). `buried` remembers whether a record was ever written behind a torn one.
`IndexHandle` uses whole records; that is justified as long as `buried` is false: then by
`AckedReplayed` a log that can be opened yields every acknowledged record.

### IndexSnapshots

Adds `snapFiles` (the files under `snapshots/`) and the operation that holds the handle (`job`: the
name, the data, and the step that comes `next`; `pc` stays `"idle"`, and `Free` asks for both). A
create writes data and then metadata (`WriteSnapshotData`, `WriteSnapshotMeta`); a delete removes them
one by one; a restore checks the checksum (`Restorable`), replaces documents, pending operations and
the sequence number (`RestoreMemory`), writes `current.json` (`RestoreCurrentJson`) and trims the log.
Any of these can be cut by `Crash` or fail and leave the handle open. `taken`, `dropping` and `rollback`
are history. `DataFile` and `MetaFile` are constants, so that names whose files coincide can be
expressed; the run uses distinct ones.

### IndexSidecars

Every action of `IndexHandle` is taken together with what it does to the sidecars. What is extracted
from a document is identified with its content, so a reader (`posReaders`, `sugReaders`) is a document
map that says of which content each document's postings are. `stage` is the sidecar that a flush writes
next: positions and suggestions after the trim, before the merge. Files are written and read back with
errors ignored, and a request may be dropped at any await between them: `Outcomes` and `Unreadable` choose
what works (while faults are left), `SideMergeDropped`, `SideMergePublishCut`, `SideMergePublishFault` and
`SideFlushFault` end an operation between its files. A merge that is dropped while it reads positions back
has no step left but that one, so it is a choice of `SideMerge` and `MergePositionsRead`. Six variables are
history: postings dropped unwritten (`gap`) or in a file that was not read back (`missing`), documents
rewritten while an older content is searchable, indexed, or held by a segment that a restart may serve
(`stale`, `Known`), segments whose suggest file was never written (`unsuggested`) or not read (`unread`),
and suggest readers that were not reloaded after a merge (`outdated`).

### Registry

A task is a request or a background job; `pc[t]` is the await at which it stands. Locks are RAII
guards, so who holds one is a function of `pc` (`HoldsWrite`, `HoldsRead`, `HoldsCatalog`, `HoldsMap`,
`HoldsHandle`, `HoldsPermit`) and every way to leave a section, normal or not, releases it. `queue` is
the first-in first-out queue of tokio's `RwLock`. `dir` has the stages through which creating and
removing a directory goes; `epoch` is its incarnation, and `made[h]` the one a handle was opened on.

| Action | Code |
|---|---|
| `FastPath`, `ReadLock`, `Recheck`, `Open`, `OpenFails`, `Insert` | `IndexRegistry::index_handle`, with the second look at the map and `open_index` |
| `StartLifecycle`, `WriteLock`, `MakeDirs`, `AlreadyExists`, `WriteMetadata`, `MetadataFails`, `Reopen`, `Publish` | `create_index` of registry and catalog, file by file |
| `StartRemoval`, `NotFound`, `FinishRemoval`, `RemovalFails`, `Forget` | `delete_index` |
| `StartBackground`, `Permit`, `Lock`, `Work`, `MakesDirectory`, `PersistsMappings` | a tick of a loop, or a handler: permit, handle, operation; some operations make the directory again, and `index_document` then saves `metadata.json` there before its append fails |
| `StartMetrics`, `Visit`, `Visited` | `index_metrics`, which keeps the map locked while it waits for handles |
| `Drop`, `DetachedRemoval` | the request's future is dropped; `remove_dir_all` goes on on its thread |
| `Restart` | the process ends and starts again |

`known`, `halfway` and `revived` are history: the last answer to a create or delete, names whose deletion was
cut short, and incarnations whose directory a task with a stale handle has made openable again.

### IndexMetadata

`file` is `metadata.json` (`Torn` while it is truncated), `mem` the handle's copy. `index_document` goes
through `"persist"` and `"append"` (job), a settings update through `"truncate"` and `"write"` (update);
both may have the file open at once (`raced`). Values are classes of JSON values and the time they stand
for. `expiry` is `document_timestamps`, `tail` what a restart would replay, and `timed` the time that this
replay, record by record, would find last for a document. `unsaved`, `lost` and `stale`
are history that mark the gaps.

### Search

`QueryString` works on sequences of pieces (an operator, a quote, a run of letters) and mirrors the
descent of `parse_query_string`. `QueryDsl` maps the body of a clause, a function from keys to kinds of
values, to the clause, sort or request that `_search` and `_msearch` make of it. `Scoring` says of every kind of query
whether a document matches, from the document alone or with postings; of a score it keeps whether it is
there and positive. Words are lowered in two ways, as in the code: `Lower` (`to_lowercase`, the values of
term, terms and prefix) and `AsciiLower` (`to_ascii_lowercase`, everything else). `Meaning` is the reference:
what a query asks for by the documentation (a term is exactly the text of the field, a match a word in
capitals or not), and the gaps (`Lost`, `Spurious`). `SearchSession` picks a request, and its invariants compare. What a client types
is a tree (`Trees`): a record that tells how it is typed, how tightly that holds together, and which documents
are wanted, given what each clause finds by itself. Descents and loops of the code are recursive functions on the length of what they read or on the
nesting of a query (`Nesting`).

In `Paging`, `NextPage` is one search with sort, `search_after` or `from`, and `Change` a refresh between
two pages. `Precedes` is the order of hits (value, then id), `After` the comparison with the cursor
(value, score, id, all three turned around by `desc`). Ids are numbers; that a cursor compares ids which read
as times (RFC 3339) by the time, and the order of hits by the text, is left out.

## 3. Runs

| Run | Instance | What it shows |
|---|---|---|
| `index_crash` | 2 documents, 2 contents, 3 operations, 3 flushes, 2 crashes; 678 000 states | `TypeOK`, `TailWins`, `RecoveryExact`, `NoPhantom`, and that `DocStore` is implemented (`ImplementsStore`) |
| `index_live` | 1 document, 2 contents, 2 operations, 2 flushes, 1 crash, 1 failure, fairness | `SearchCatchesUp` |
| `wal_crash` | 3 numbers, 4 generations, 2 cuts, 1 error, torn records that swallow up to 2 chunks | `TypeOK`, `AckedReplayed`, `NumbersFresh`, `TrimIsInvisible` |
| `index_snapshot` | 1 snapshot name, 1 document, 2 operations, 2 flushes, 1 crash, 1 failure; 1.8 million states | `AckedIsRestorable`, `ListingSurvivesCreates`, `RestoreIsWhole`, `ReadAfterRestore` |
| `index_sidecars` | 2 documents, 2 contents, 2 operations, 2 flushes, 1 crash, 1 failure; 1.4 million states | `PhrasesFound`, `NoStalePostings`, `SuggestionsFollow`; and of the handle below them `LogOrdered`, `SequencesFresh`, `ManifestBacked`, `ReadYourWrites` |
| `registry_race` | 3 tasks, 1 name made twice, 4 handles, 1 permit, 2 faults; 1.3 million states | `TypeOK`, `CacheIsCurrent`, `OneHandle`, `AckedIsOpen`, `DeletedIsGone` |
| `registry_live` | 3 tasks, 1 name made once, 2 handles, 1 fault, fairness; 99 000 states | `RequestsFinish` |
| `metadata_race` | 1 document, 2 fields, 5 sources, 2 retentions, clock to 2, 2 faults; 906 000 states | `TypeOK`, `DocsMatchMappings`, `MappingsSurvive`, `ExpiryIsOwn`, `TailRemembers` |
| `search_session` | 3 documents; query strings of up to four clauses, two operators within each other, columns of up to 3 values, some 90 queries with and without postings, all bodies of JSON clauses, sorts and requests, pages of 1 or 2 hits with 1 change; 90 000 states | `QueryFindsWhatItSays`, `RoutesAgree`, `HitsAreMatches`, `SuggestionsAreBest`, `ColumnsAgree`, `ServedOnce`, `ServedAll` |
| `index_swallow` | violated | `AckedUpsertsSurvive` (section 4) |
| `query_or` | violated | `OrMeansOr` (section 4) |
| `legacy_migration` | violated | `LegacySurvives` (section 4) |

*Why the bounds are enough.*

* Documents, contents, flushes: two documents are what is needed for one to change while the other does
  not; three operations let a document be indexed, overwritten and deleted, or two be indexed and one
  changed. With `Threshold = 2` both branches of `plan_merge` occur: two small segments, and one large
  one. Three flushes give a merge of a merged segment and a segment number that is used twice; the
  second crash can hit the directory that the first restart left. What a failing step does to numbers,
  segment files and reads is checked in `index_sidecars`, whose steps are those of the handle with their
  sidecar files; all properties of `index_crash` and these four were also explored together, with three
  operations, two flushes, one crash and one failure (2 million states). Everything that the two runs
  check is also proved for all bounds (section 5).
* Snapshots: data and metadata of one name can be mixed up with those of an earlier snapshot of that
  name; names do not interact as long as their files differ. `MaxFaults = 1` and one crash interrupt an
  overwrite, and then the restore or the deletion that follows. Proved for all names and bounds too.
* Sidecars: one document with four operations and two crashes, and with three operations, two crashes
  and a failure (4.1 million states), give no different result, and the properties are proved for all
  bounds.
* Registry: three tasks are a creator, a deleter and a lookup (or a holder of a permit). A fourth would
  only wait, but for one exception of `OneHandle` that the run does not reach: a handle of a revived index
  beside a stale one takes the two tasks that revive it, one that opens it, and the one with the stale
  handle; the theorem covers it. Besides, a name made twice has an old and a new incarnation. Names share only the lock of the
  registry, which the proofs cover for any number of names and tasks. In the liveness run the index is
  made once and two handles are opened (three, 299 000 states, were explored too).
* Metadata: the properties speak of one document's fields and times; five sources give one field two
  types, a null and an array, and the time field both forms. Proved for all bounds too.
* Search: each module was explored over its own inputs; the corpus has a document for every way in which
  a field may differ (a word in several fields, capitals, wide letters and a wide capital, missing field, number
  field).
  Paging is proved for all documents, keys and sizes.

Symmetry is used only where the constants are interchangeable and never with liveness. The view of the
index runs hides files that no later step can read: `current.json` once there is a manifest, and
segments that neither manifest names.

*Fairness.* In `IndexHandle`, `FairSpec` assumes that a closed index is opened again (a request
arrives), that a flush which holds the handle makes its next step, and strong fairness of `Refresh`: the
refresh loop of the node starts a task every interval for ever, and tokio's mutex and semaphore are
first in, first out, so refresh gets the handle again and again although flushes and merges take it in
between. No fairness is assumed of clients, of flushes starting, or of failures. In `Registry`,
`FairSpec` assumes strong fairness of every task's `Step`: the runtime polls a task that is woken, and
locks of tokio are granted in the order of the requests, so that a task whose lock is free again and
again gets it. Nothing is assumed of drops, restarts or new work.

*Deadlock* is checked in all runs but `metadata_race` and the search runs: there the system stops when
the clock and the faults are used up, or when the client has its answer.

## 4. What the documentation says and the code does not do

1. `index_swallow`, `AckedUpsertsSurvive`: flush writes the searchable documents under a sequence number
   that covers the pending ones, and trims their records. Index, flush, crash: the document is gone.
   (The merge at the end of a flush includes pending operations; it runs only when there is a plan.)
2. `query_or`, `OrMeansOr`: `a AND b OR c` demands a and b of every hit, since `make_bool_should` merges
   the clauses that its sides must match into those of the whole.
3. `legacy_migration`, `LegacySurvives`: the migration of `current.json` renames it to a segment file and keeps
   the manifest that names this segment in memory only, so that a second opening finds an empty index.

`PROJECT.json` quotes the lines. The following were met while modelling and are exceptions of the
properties, each marked by a history variable or stated in the property itself:

* *Documents.* Segments have no tombstones, so that a deleted document comes back from an older segment
  (idx 781; `Undead`). A flush that was interrupted before its merge leaves small segments behind, and a
  later plan publishes them above the newest (idx 654; `damaged`). `merge()` writes `current.json`, which
  is never read again (idx 1785).
* *Log.* A torn record is tolerated but not removed: the next record is taken for its missing bytes and
  the log ends there without an error, or the index cannot be opened any more (sto 267-278; `buried`). The
  record of a failed append stays and its number is used again (idx 1350; `indoubt`).
* *Snapshots.* A restart undoes a restore, because the manifest is not rewritten (idx 1947). An
  interrupted deletion leaves metadata without data, and then listing snapshots fails.
* *Registry.* A delete whose request was dropped removes the directory later, perhaps one that was made
  again in the meantime (`halfway`). A task with a handle of a deleted index makes its directory again
  by `merge()` or `create_snapshot`; `create_index` then refuses the name. If `index_document` follows on such a
  handle, it saves a new mapping in `metadata.json` before its append fails (idx 1341, 2015-2025), and the
  deleted index is there again (`revived`), with a handle of its own beside the stale one;
  index-lifecycle.md:100 says that it "is no longer part of the runtime and its storage has been removed
  or scheduled for removal".
* *Metadata.* A settings update is not seen by the open handle, whose next mapping takes it back; a
  mapping whose write failed is not written again until another field comes (`unsaved`); a settings
  update that had read the file before a mapping was added removes it (`lost`). Expiry times of flushed
  documents are forgotten by a restart. A version without a time keeps the expiry of the one before, when
  it is written (idx 1344-1348) and again when the tail is replayed (idx 315-333), and is evicted
  (`stale`); api-v1.md:226 says that "documents without a timestamp field are never evicted". A retention of more seconds than `chrono::Duration` holds panics.
* *Sidecars.* Documents that are pending at a flush, or replayed after a crash, lose their positions
  (`gap`). A file that cannot be read back, or a request that is dropped before it is, leaves words without a
  reader until the next opening (`missing`, `unread`), and a merge dropped while it loads the suggest files
  leaves those of the segments that it merged (`outdated`). Postings of old contents stay until a merge of all segments (`stale`). A merge writes no
  suggest file. `merge()` writes positions under the number of the next segment (idx 1773). If the
  flush that takes this number extracted nothing, it writes no file of its own, and after a restart the
  index reads the merge's postings, made from pending contents, next to a segment that may have an
  older one: the postings are of v2 while the search serves v1. `Known` therefore counts what the
  segments hold.
* *Search.* A word in at least half of the documents has rarity 0, and `terms` and wildcards then lose
  hits after a flush. Positions have no field. Posting lists are sorted by id and searched by hash.
  Phrases need postings and match words that merely follow in order. Wildcards see lower-case words
  only. Terms, documented as an "exact match over keyword-like fields" (query-engine.md:80), find a text that has
  the value as one of its words, or in other capitals, and no text of several words by its own value. A
  term, terms or prefix value is lowered by `to_lowercase` (idx 2816), the text by `to_ascii_lowercase`
  (idx 3032), so that a text with a capital like É is never found by it;
  full-text queries find it by É and not by é. The edit distance is wrong
  for letters of more than one byte. `NOT` at the start, values with a
  space, and `message:"hello world"` do not match what they say. `search_after` skips or repeats hits
  in descending order with equal or missing values, and with BM25 scores. A keyword column with a missing
  value makes the reader slice backwards.
* *Requests.* `_search` ignores `boost` and `search_after`, and reads a sort without an order, `{"field":
  "price"}`, as a sort by a field of the name "field". `_msearch` ignores `aggregations` and any key it
  does not know, and reads the type of a multi_match from another key.

## 5. Proofs

Checked by TLAPS for every value of the constants that satisfies the named assumptions of the modules
(finite sets, sentinels that are no members, positive threshold, bounds that are naturals).

| Module | Theorem | States |
|---|---|---|
| `IndexHandleProofs` | `TypeCorrect`, `Invariance` | `Spec => []TypeOK`, `Spec => []IInv` |
| | `TailRecovered`, `WalOrdered`, `NumbersFresh`, `SegmentsBacked` | `TailWins`, `LogOrdered`, `SequencesFresh`, `ManifestBacked` |
| | `PhantomFree` | `NoPhantom`, for every directory, old ones included |
| | `StoreInvariance`, `RestartIsExact`, `ReadsAreWrites` | `StoreInv`, `RecoveryExact`, `ReadYourWrites` |
| | `Refinement` | `Spec => ImplementsStore` |
| `IndexSnapshotsProofs` | `SnapshotsStayRestorable`, `ListingWorks` | `AckedIsRestorable`, `ListingSurvivesCreates` |
| | `RestoresAreWhole`, `RestoredIsServed` | `RestoreIsWhole`, `ReadAfterRestore` |
| `IndexSidecarsProofs` | `WordsAreIndexed`, `WordsAreCurrent`, `SuggestionsAreCurrent` | `PhrasesFound`, `NoStalePostings`, `SuggestionsFollow` |
| `WalFileProofs` | `FileTyping`, `AckedSurviveTearing` | `TypeOK`, `AckedReplayed` |
| | `NumbersGoOn`, `TrimsAreInvisible` | `NumbersFresh`, `TrimIsInvisible` |
| `RegistryProofs` | `RegistryTyping`, `LockExcludes` | `TypeOK`; the registry's lock excludes |
| | `NobodyIsOverlooked` | who waits for the lock stands in its queue, once, and nobody else |
| | `OneHandlePerDirectory`, `MapIsCurrent`, `CreatedIsOpen`, `DeletedStaysGone` | `OneHandle`, `CacheIsCurrent`, `AckedIsOpen`, `DeletedIsGone` |
| `IndexMetadataProofs` | `Typing`, `OneTypePerField`, `FileHasTypes` | `TypeOK`, `DocsMatchMappings`, `MappingsSurvive` |
| | `ExpiryOfVersion`, `EvictionKnowsTail` | `ExpiryIsOwn`, `TailRemembers` |
| `SearchSessionProofs` | `PagingTyping`, `PagesServeOnce`, `PagesServeAll` | types, `ServedOnce`, `ServedAll`, of `Paging` |
| | `SearchInvariance`, `SearchServesOnce`, `SearchServesAll` | `SearchInv`, `ServedOnce`, `ServedAll`, of `SearchSession` |
| | `JsonRoutesAgree`, `AggregationsAgree`, `SuggestionsBest` | `RoutesAgree`, `ColumnsAgree`, `SuggestionsAreBest` |
| | `QueriesFound` | `QueryFindsWhatItSays` |
| | `ClauseFindsWhatItMeans` | a clause of a query string without gaps finds what it is documented to ask for |
| | `LevenshteinIsEditDistance` | `levenshtein_distance` computes the edit distance of words without wide letters |

*The tail of the log* (`IInv`). `TailWins` says that replay ends with the last acknowledged operation of
every document above the covered number. By itself it is not inductive: nothing in it forbids that the
record is trimmed in the next step, or that an older record comes later. `IInv` adds

* `Witnessed`: that record is in the log, and nothing for its document comes after it (`IsTail`);
* `LogOrdered`, `LastsBelow`, `LogBelow`: numbers grow along the log and `lastSeq` bounds them, with one
  more allowed for a failed append, and bounds what both manifests claim to cover;
* `Staged`: between `FlushSegment` and the publication the new file is there with the right number;
* `TrimCovered`: while the trim runs, the manifest *on disk* covers everything up to `lastSeq`, so the
  generations it removes hold no `Witnessed` record;
* `ManifestBacked` and `SequencesFresh`, which `Recover` re-establishes from the log and the manifest.

`Next` is split by what a step changes: nothing of this (`QuietStep`), the log by an append
(`AppendStep`), a segment file (`PutSegmentStep`), the manifest (`PublishStep`), the log by a trim
(`TrimStep`), a restart (`RecoverStep`), the end of the process (`CrashStep`). The lemmas on operators
are in `StoreFacts`, which begins by proving from well-foundedness that sets of naturals have least
elements.

*What the segments hold* (`DeletedInv`, `StoreInv`). `IInv` speaks of records only. For deleted documents
`DeletedInv` adds that what is shown of them is held by a segment of the manifest (`ShownIsHeld`), that no
record is younger than the acknowledged operation (`AckedLast`), and what the segments of a flush under way
hold (`FlushHolds`). `StoreInv` adds the same for documents that exist: memory (`SearchableExact`) and what
the manifest claims to cover (`LoadedExact`) have the last acknowledged content. `Refinement` follows: by
`RecoveryExact` and `ReadYourWrites` what clients get *before and after* a step are both `committed`, which
only an acknowledged operation changes, and that is a `Put`. `StoreInvariance`, `RestartIsExact`,
`ReadsAreWrites` and `Refinement` assume that the directory was made by this version
(`Legacy = {NoFile}`), because of the migration in section 4.

*Snapshots* (`SnapInv`). `TakenHeld` says that the two files of an acknowledged snapshot are still the ones
that were acknowledged, and `JobHolds` that the data a create has written is there when the metadata
follows, and that a deletion has withdrawn the acknowledgement before it takes a file. They assume that the
files of different names differ (`DistinctFiles`), which the code does not enforce (section 6). For the
handle, a restore breaks most of `StoreInv`: the log keeps records that are younger than the restored
sequence number, and the manifest still covers the old documents. So `HandleInv` asks for `StoreInv` only
until the first restore (`rollback = "none"`), and afterwards for the part of it that reads come from
(`PendingKnown`, `SearchableExact`), until the process ends. It starts with a manifest, as `create_index`
writes one.

*Sidecars* (`SideInv` with `StoreInv`). A restart and a merge read files by number, and numbers are used
twice, so that each property needs to know which files are final. `SuggestInv`: a suggest file is made from
the segment with its number (`SuggestFiles`), the last one of the manifest on disk has a file if one was
ever written (`LastSuggested`), and where that manifest is ahead of the handle's nothing was written yet
(`AheadUnsuggested`). `PhraseInv`: a document's postings wait to be written, or are in a file of the
manifest that no step writes again (`Witness`), so that they survive both crash and merge, and a reader has them
unless that file was not read (`ReadersCover`). `StaleInv`:
everything a query can meet after any number of steps, `Alive` (readers, files that can still be read, what
is extracted, shown, held by a segment, or comes back from the log), is one content or `Absent`; only
`Rewritten` may add a second one, and it marks the document. The theorems are about indexes with a manifest
(`SideSpec /\ hasManifest`), which `create_index` writes.

*The log in bytes* (`FileInv`). As long as no record was written behind a torn one, a torn chunk is the last
of its file (`TornIsLast`), so that replay takes nothing for its missing bytes; the numbers grow in the
order of replay (`Sorted`), with which the trim is found to remove nothing that replay returns; the handle
has counted every record but that of a failed append (`Counted`); and what was acknowledged and is not
covered is in some file (`AckedKept`). The types and `Newest`, that nobody has written to a generation above
`CURRENT`, hold of buried logs too.

*The registry* (`RegistryInv`). `OneHandle` needs that a handle in use is the one in the map
(`UsedIsCached`), that a handle about to be inserted is of the present incarnation (`Fresh`), that nobody
has a handle of an incarnation under construction (`Creating`) or of a future one (`NotAhead`), and that a
deletion under way is not announced (`Deleting`); all but `Fresh`, `Creating` and `NotAhead` except incarnations
that a stale handle has brought back (`revived`); all of it rests on `Exclusion`, which says that the
registry's lock is held for writing by one task alone. The queue of the lock is exact (`QueueExact`,
`NobodyIsOverlooked`): a grant or a drop takes one task out and leaves the order of the others.

*Metadata* (`MappingInv`, `ExpiryInv`). `MappingsSurvive` needs what the document under way agrees with
(`JobMatches`), what the file has of the handle's mappings (`FileHasMappings`), and what a settings update
of a closed index would write back (`UpdateMatches`). The retention properties
are inductive with the types and with what replay would find in the tail: if a document's current version has a
time, no other time than that, and none is missing of a document whose record is in the tail (`TailTimes`).

*Paging* (`PagingInv`). The cursor separates: every untouched document the client has been given is
`Behind` it, every other is `Ahead` (`CursorSeparates`), where the two are defined on the document and the
cursor alone, so that a change of other documents, or of the cursor's own, moves nothing. For offsets the
served documents are the first `offset` ones (`OffsetCounts`), by counting what precedes a hit (`Rank`).

*Requests* (`SearchInv`). A request is one of the sets that `SearchSession` names (`RequestTypeOK`) until it is
answered, and a page is served of a `Matching` set of documents whatever the query was, so the invariants of
`Paging` carry over. `RoutesAgree` is shown kind by kind of clause, from the bodies that a clause may have.
`ColumnsAgree` needs that the pool of a keyword column and its offsets give back every value
(`KeywordsRoundTrip`), by induction on the rows; texts are words of the alphabet, so that none holds the byte
that ends a value.

*Suggestions* (`SuggestionsBest`). The words of a field and the answers are put into an order that is strict and
total, which `InOrder` turns into a sequence without gaps (`InOrderFacts`, by induction on the turns). That the
order of words is one is shown for the bytes that letters are made of (`TextOrder`), and that the words with a
prefix stand together in it (`PrefixOrder`); so the binary search for the first of them encloses it at every turn
(`Enclosed`), and the scan behind it finds them all (`SuggestForFieldFacts`). Of the offers of several segments
for one word exactly one is kept, with the highest score (`BestFacts`). Scores are fractions that are compared
crosswise, which is transitive as no denominator is 0 (`AtLeastTransitive`).

*Query strings* (`QueriesFound`). What has been typed is read the same wherever it stands: a text is an `Operand`,
a `Conjunction` or an `Expression` for a query if the reader of that level, at any place of any input where the
text is typed and followed by something that ends it, gives the query and the place behind the text. A clause is
an operand (`ClauseOperand`); a group of an expression is one too, with a level of parentheses less for what is
inside (`GroupOperand`); AND goes on with an operand (`JoinAnd`), OR and NOT with a conjunction (`JoinOr`). The
loops of `parse_and_expr` and `parse_or_expr` keep what they ended with (`AndEnds`, `OrEnds`). On the side of
the search, a query holds as a part of any other for what it finds by itself (`Stable`), so that `make_bool_must`,
`make_bool_should` and `make_bool_must_not_and` can be judged by what their sides find (`MustHits`, `ShouldHits`,
`NotHits`); `OnlyShould` and `Negated` are what the gaps of OR and NOT turn on. The tree of what was typed then
carries both by induction on its height (`Reads`, `TreesUnderstood`). The theorem is about clauses that satisfy
`ClausesAssumption`: each is written in one of the documented forms, and asks for what `Classify` makes of its
value. It judges operators and groups: what a clause finds by itself is taken as what it wants. That this is what
the documentation says holds of clauses without a gap of their own (`Gapless`, `ClauseFindsWhatItMeans`, in
documents without postings): for terms only where the text is one word without capitals. For fuzzy clauses it
needs `LevenshteinIsEditDistance`: neighbouring distances differ by one at most (`AllEven`), so that equal letters
cost nothing. The run has no fuzzy clause in its query strings; those of `HitsAreMatches` have.

*Only model-checked.* The liveness properties `SearchCatchesUp` and `RequestsFinish`, which the prover does
not reach. Of `SearchSession`, `HitsAreMatches`, whose gaps are described for the queries of the run: phrases are
found by byte offsets that a search for substrings collects, and which gaps there are depends on the words.

## 6. Not modelled

* Power loss: `Crash` ends the process, not the machine. Segments, sidecars and manifests are not synced
  before their rename, so a machine crash can do more. WAL appends are synced.
* Damage from outside: unreadable segment files, foreign files in `wal/`. Sequence number overflow (u64).
  In `WalFile`, a torn record whose foreign bytes happen to have the right checksum.
* What a task that still has the handle of a deleted index writes into the files of a new index of the
  same name: `Registry` says which handles are in use, `IndexHandle` has one handle.
* Names: their validation, and snapshots whose names make their files coincide (`x` and `x.meta`).
* The HTTP layer: status codes, the shape of answers, metrics counters, limits that are configured and
  never enforced (`max_indexes`, `max_documents`).
* Parsing of more_like_this and aggregation objects: both are read by a derived reader only, so that
  there is no second one to disagree with.
* The values of BM25 scores (floating-point), and the order of hits without a sort field that follows
  from them; highlights, which cut a text at the offsets of postings; date histograms from columns, where
  every time is 0; the filter of expired documents at search time.
* The byte layout of the sidecar files, and which column file an open index uses: columns are loaded by
  `open_index` only and ignore the query, as `hazards` in `PROJECT.json` records.
* Configuration, logging, and the broadcast of the shutdown signal: a restart may come at any step.
* Assumed where it keeps instances small: every source has some text (`IndexSidecars`); text fields are
  keyword or unmapped (`Suggest`); words are set apart by one blank (`Scoring`); the catalog's lock is
  held from the first to the last line of `open_index` (`Registry`).

## 7. What could come next

A proof that the query parser inverts the typing of every tree, for any nesting; the composition of a torn log
with `IndexHandle`; a handle of a deleted index next to one of its successor, on one directory; `IndexHandle`
with files that are renamed but not synced.
