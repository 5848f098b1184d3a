# iedb: a TLA+ verification project

iedb is a two-tier time-series store written in Rust. **Agents** accept InfluxDB
line protocol, keep it in a write-ahead log and an in-memory buffer, and ship
closed time windows as Parquet files to a **server**, which stores the files,
keeps their statistics in SQLite, merges small files, and answers SQL, optionally
joining in what agents still buffer. `mix` mode runs both in one process.

This directory models the program in TLA+, checks the models with TLC on small
instances and proves some of the invariants with TLAPS for all instances.

## 1. Inventory

Paths are relative to `src/src/`.

| component | state | operations | interacts with |
|---|---|---|---|
| Write handler (`agent/write.rs`) | none of its own; one task per request | parse and bucket rows by window; `buffer_op` each batch; `flush`; apply to buffer; answer 204/503 | WAL mutex, then buffer mutex |
| WAL (`agent/wal/*`) | `pending_ops`, `op_count`, `current_seq`; files `wal/N.wal`; reads `meta/last_snapshot.json` | `new`, `buffer_op`, `flush`, `replay`, `cleanup`, periodic `flush_and_apply` | buffer, disk |
| Buffer (`agent/buffer/*`) | db -> table -> schema + chunks; a chunk has rows, tag index, time bounds, min/max WAL seq | `apply_write_batch`, `rebuild_tag_index`, `query_table` | everything in the agent |
| Snapshot scheduler (`agent/flush/scheduler.rs`) | last snapshot status; position in a cycle | collect, capture, upload, stage on failure, `complete_chunk_handoff` (drain, watermark, meta, WAL cleanup), `retry_staging` | buffer, WAL, staging directory, upload backend |
| Upload backends (`agent/flush/http_upload.rs`, `s3_upload.rs`) | staging directory | `upload_parquet`, `staging_save`, `upload_to_s3`, local write | server, S3, disk |
| Parquet writer (`agent/flush/parquet_writer.rs`) | none | rows + schema -> Parquet | buffer types |
| Agent control (`agent/mod.rs`, `agent/hot_config.rs`, `main.rs`) | `config_version`, last reported schema, hot settings, config cache file | register, heartbeat, apply update, schema diff | server agent API |
| Agent process (`main.rs`) | tasks, accept loop, shutdown `Notify` | start-up order, Ctrl-C, final flush | all agent parts |
| Agent queries (`agent/query.rs`, `agent/federation_query.rs`, `agent/status.rs`, `agent/system.rs`) | none / sampled CPU | read the buffer | buffer, WAL |
| Ingest API (`server/ingest_api.rs`) | `{db}/{table}/*.parquet` | store an uploaded file idempotently by name, update statistics, register table | metadata, compaction, catalog |
| Compaction (`server/compaction.rs`) | the same files, tombstones | merge small files, delete inputs, tombstone, recount | ingest, metadata |
| Metadata and agent stores (`server/metadata_store.rs`, `agent_store.rs`, `db.rs`) | SQLite tables | statistics, schema merge, tombstones, agents, config versions | ingest, compaction, agent API, federation |
| Agent API (`server/agent_api.rs`) | none of its own | register, heartbeat, update config, delete | stores |
| Query engine and federation (`server/query_engine.rs`, `federation/*`, `sql_api.rs`, `table_provider.rs`) | shared DataFusion catalog, query slots, federation RwLock | swap providers, plan, restore, execute | agents, catalog, files |
| Configuration (`config.rs`) | none | parse durations, sizes, files | hot settings |
| Metadata read API, front end (`server/metadata_api.rs`, `frontend.rs`) | none | read-only endpoints | - |

### What is hard, and what each part must guarantee

* **Acknowledged rows are never lost** (WAL, buffer, scheduler, staging, server
  together). A row moves WAL -> buffer -> Parquet -> server or staging, and each
  hand-over deletes the previous copy. The WAL file is written under one lock
  and the rows enter the buffer under another; the scheduler computes what may be
  deleted in between. Uploads may be applied after the agent gave up on them, and
  a crash may fall between any two steps.
* **File names identify contents.** The server skips a name it already has, so
  two different captures under one name lose rows; two names for one row
  duplicate it.
* **Restart**: the sequence must not fall below the watermark, and replay must
  bring back what only the WAL holds.
* **Ingest is durable before 200; compaction neither loses nor duplicates rows**
  across crashes, retries and late uploads; statistics follow the files.
* **Federation restores the shared catalog** although queries run side by side, time
  out and lose their clients between a swap and its undoing; Buffer mode never shows
  persisted rows; All mode misses no row while it is being handed over.
* **Configuration converges**; schema changes reach the server despite failed
  heartbeats.
* **No lock cycle** that lasts between WAL and buffer mutexes, including shutdown, and
  a signal that reaches every task.
* **A row read back is the row written** when the schema of a table evolves.

## 2. Modules

| module | what it holds |
|---|---|
| `AgentData` | batches, windows, chunks, the drain, upload names, and what an upload backend does with a name it has |
| `AgentIngest` | the agent's write path from the request to the backend, with crashes and failures |
| `AgentLocks` | the WAL and buffer mutexes, every task that takes them, Ctrl-C and who hears it |
| `SchemaEvolution` | what a row means: positional values, the growing schema, the tag index, the Parquet file |
| `ServerStore` | the server's files: ingest endpoint, compaction, tombstones, row counts, restarts |
| `RowCustody` | what a keeper of rows promises: the abstract specification that the agent (`AgentIngest`) implements towards its clients and the server (`ServerStore`) towards its agents |
| `ConfigSync` | registration, heartbeats, configurations and schema reports |
| `TimeFilter` | the time range taken from a WHERE clause, and the clause it must be implied by |
| `Federation` | queries in the shared catalog while rows move from the buffers to the files |
| `AgentDataLemmas`, `AgentCustodyProofs`, and a `...Proofs` for `AgentIngest`, `AgentLocks`, `SchemaEvolution`, `ServerStore`, `ConfigSync`, `Federation` | lemmas and theorems |
| `MC...` | values of the constants for TLC (`AgentLocks` needs none) |

The modules meet at the upload. `AgentIngest` carries an abstract backend (`store`,
`Put`): an http server that skips a name it has, or S3 and the local disk, which
overwrite. `ServerStore` opens that box for the http server and assumes what
`AgentIngest` is there to establish, that an agent gives one name to one upload of
a table (`StoreAssumption`). `AgentLocks` has the locking order of the tasks whose
critical sections are single actions of `AgentIngest`. `SchemaEvolution` looks inside
the rows that `AgentIngest` moves as atoms; which files a replay finds is
`AgentIngest`'s, and there any suffix. `Federation` has the two ends of a row's way,
buffer and file, with the orders that `AgentIngest` and `ServerStore` allow (the file
before the drain, the file before its table is announced) and queries both; its
`mapped` is what `ConfigSync`'s reports and the ingest handler fill.

### AgentIngest

A *batch* is the rows of one request in one window of one table (`WriteBatch`). One
action is one critical section of a mutex, or one file or network operation that
can fail or be cut short by a crash.

| model | code |
|---|---|
| `pending`, `curSeq`, `wal` | `WalManager.pending_ops`, `current_seq`, the files `wal/N.wal`; a torn file holds nothing |
| `unread` | files that `replay` found and could not read, until a watermark passes them |
| `late` | calls of `tokio::fs::write` that go on in their blocking thread after their handler was dropped |
| `meta`, `safe` | `flushed_wal_seq` in `meta/last_snapshot.json`, and the watermark a handoff is about to write there |
| `gap` | what a task has flushed under the WAL mutex and not yet applied under the buffer mutex |
| `chunks` | the buffer; a chunk's groups of rows and its `min_wal_seq`, `max_wal_seq`, `time_min` |
| `pc`, `todo`, `job` | where the single scheduler task is in `do_snapshot` / `complete_chunk_handoff` |
| `staged`, `net`, `store` | staging directory; uploads given up that may still arrive; the backend |
| `Write`, `WriteRejected`, `Tick`, `Apply`, `Disconnect` | `WriteHandler::handle` in its two sections (the write of the file succeeds, fails, or loses its client), a full buffer (503), `flush_and_apply`, a client that goes away between the sections |
| `LateWrite` | an abandoned write reaches its file |
| `SnapshotCollect`, `Capture`, `CaptureFails`, `UploadOK/Fails`, `StageOK/Fails` | `do_snapshot`, `upload_bytes`, `staging_save` |
| `Drain`, `MetaCreate`, `MetaWrite`, `MetaFails`, `Cleanup` | `complete_chunk_handoff`; `last_snapshot.json` is truncated before it is filled, and when its sync fails it is filled all the same |
| `RetryOK/Fails`, `Arrive` | `retry_staging`; a late upload |
| `Stop` | Ctrl-C drops the scheduler at an await, perhaps with a request on its way (`InFlight`); `AgentLocks` has what follows |
| `Crash`, `ReplayFile`, `ReplaySkips`, `ReplayDone` | process death, `WalManager::new`, `replay`, which goes on past a file that it cannot read |

`CaptureFails` costs no fault: a batch in `Unwritable` has a number that is too large
for Parquet, or brought a column name that is none, and fails its table in every cycle
(`Stuck`) as long as it is buffered.

`uncovered`, `overtaken`, `clobbered`, `aborted`, `abandoned` are history variables. They note
*how* a row may be lost or stored twice, so that the invariants can say "only so".

The refinement mapping to `RowCustody` is `held <- Custody` (what is buffered, staged
or delivered, and during recovery what is still to be replayed) and `lost <- Lost`: a
row enters custody when it is applied, or when recovery finds its file, and a crash may
take it out again only if a watermark had passed its file, or an abandoned write
had gone over it. A file that recovery skips stays in custody until a watermark passes
it.

### AgentLocks

A task is a place in its code; `wal` and `buffer` are the owners of the mutexes.
The writers stand for the handlers of `/write` and the periodic flush, the readers
for the status, query and heartbeat code; `Loops` are those of them that are
background loops. `Signal` is Ctrl-C: `notify_waiters` reaches the futures that exist
at that moment (`Listening`), and `told` are the tasks whose future it woke. A
`select!` with two ready branches may take the other one and drop the woken future:
so `WriteBegin`, `ReadBegin` and `Accept` take a task out of `told`. The scheduler
waits for the signal beside its whole `run`, so it is dropped at its next await, with
the guard it holds (`SchedulerDropped`). `Hear` .. `StopApplied` are the final flush.

### SchemaEvolution

One table. `written` are the batches in the WAL's files, a batch having the key lists
of its request's *first* line (`TagKeys`, `FieldNames`); `pending` the files not yet
applied; `doing` what the holder of the buffer's lock still has to apply. `Ensure` is
`ensure_tag_key`/`ensure_field`, `Insert` and `DrainChunk` the chunk with its tag index,
`Collect`, `Clone`, `Serialize`, `Handoff` the snapshot cycle with the lock let go
between the clone of the chunks and that of the schema, `Deduped`, `FileOf`, `Fits`,
`Unwritable` the Parquet writer. A file's columns have the names `ColumnName` gives them
(`sanitize_column_name`), and an empty tag is NULL there. `FileReading`, `BufferReading`,
`Selected` are what is read back; `MeantInFile` is what a line says in those terms.
`OneColumnEach` says that no two names come to one column. A row carries the names of the
schema it came under as history.

### ServerStore

A file is the set of uploads its name stands for: a singleton for an uploaded file,
a larger set for a compacted one. `whole`/`torn`/`unsynced` say what is on the disk,
`tombs` and `total` are the SQLite tables, `req` the handlers of
`POST /api/v1/ingest/parquet`, `cpc`.. the compaction task. `Check` .. `Respond`
follow `IngestApiHandler::handle` from the existence check to the answer, with a
step of its own at each await or file operation; `CycleStart` .. `Recount` follow
`run_once`; `Down` is a restart, or a power cut when `PowerCuts` is set. History:
`lost`, `spoiled`, `unmarked`, `skewed`.

The refinement mapping to `RowCustody` is `held <- Readable`, the uploads some
whole file holds: merging, tombstones, retries and counts disappear, and every step
is a `Keep`, a `Lose` or a stutter.

### ConfigSync

`row` is the agent's line in the `agents` table, `known` and `mapped` the `fields`
and `agent_tables`; `hot`, `version`, `cache`, `last` are the agent's `HotConfig`,
`config_version`, `agent_config.cache` and `last_schema`. A request is served in
the steps between which `AgentStore` and `MetadataStore` let go of the lock around
SQLite; a request the agent gave up on, or sent before it crashed, may be served
after later ones. A configuration is a partial function from settings to values, some
of which are `Garbage`: `ApplyUpdate` leaves a setting alone for one (`Parses`), but
`Overlay`, which is `merge_json`, puts it into the cache. Some configurations have a
`version` field (`VersionIn`); an agent then takes that number for its own and otherwise
counts one up (`NextVersion`). A cache that cannot be read is no cache (`Boot`,
`Updated`). `Delete` has its two statements one after the other. History: `haunted`,
`missed`, `told`, `cut`.

### TimeFilter and Federation

`TimeFilter` is an algorithm without state: `Lower`, `Upper` and `InRange` are
`extract_time_range` and what the agent does with the answer, `Satisfies` is the
predicate itself.

In `Federation` a query is named by the slot it holds; `at` and `job` are its place and
what it carries. `writer` is the federation lock's writer (readers hold it in a single
step), `catalog` the shared session's tables: a `Provider` reads the files, row sets in
memory, or both. `PlanHistory` is a query under the read lock; `LockWrite`, `Ask`,
`Reply`/`NoReply`, `Swap`, `Misfit`, `BindLocked` follow `prepare_and_plan` with each
agent's answer a step; `PlanUnlocked` is every fallback; `Register` the retry of
`SqlApiHandler`; `Collect` the execution, which lists the files then. `Drop` is the
timeout or a client that goes away, at any await. `Upload` .. `Report` move rows.
The lines after `skipped` in `Fresh` are history: for each answer, why it may have
missed a row or read it twice.

## 3. Runs

| run | question | distinct states |
|---|---|---|
| `AgentIngestHttp` | http backend, two failing operations, no crash: are acknowledged rows in reach, and does any row leave custody unnoted, and do names collide and rows double only for the causes named? | 467 000 |
| `AgentIngestCrash` | two tables, the local disk, a WAL buffer of one operation, a crash anywhere and a failing operation: does what was acknowledged survive; is the sequence fresh; does the proofs' `IInv` hold; does the agent implement `RowCustody`? | 994 000 |
| `AgentIngestLive` | is an acknowledged row delivered in the end, if nothing that lasts is in its way? | 432 000 |
| `AgentIngestGap` (violation) | may a handoff pass a file whose rows are not applied? | |
| `AgentIngestReorder` (violation) | can two uploads have one name? | |
| `AgentLocks` | who can wait for whom; does everyone get through; does an agent that heard Ctrl-C end? | 6 400 |
| `AgentStop` (violation) | does an agent end when it is told to? | |
| `SchemaEvolution` | three requests of any layout, in any order, two windows, a restart: is a row read back what was written, as far as the layout and the names of columns allow? | 1 297 000 |
| `ServerStoreRace` | two tables with one file name, two requests at a time and the compaction task | 268 000 |
| `ServerStoreRestart` | three files of one table, a restart or power cut; the refinement and `IInv` | 1 246 000 |
| `ConfigSync` | two puts, two mishaps, two requests at a time, values that cannot be read, a configuration with a version | 1 156 000 |
| `Federation` | two queries of any mode, two tables, a row that moves, a dropped request | 4 636 000 |

`cd tla; tlc -config <run>.cfg <module>` repeats one; `PROJECT.json` names the
module and says for every property which plausible bug (a "mutant") breaks it.

**Bounds.** Two handlers are enough for every race in the write path: what one
flush does to another, or a handoff to a flush, needs two tasks and the ticker is
a third. Three batches in two windows let a window be flushed, refilled and flushed
again while another one keeps the buffer from being empty; that is what watermarks,
name collisions and partial drains need. `WithPair` has a request of two windows or
two tables, `Singles` has none. A skipped file, a scheduler that is dropped and an
operation that fails are all counted by `MaxFaults`. One crash with one failure, or two
failures, gives every combination of two mishaps except two crashes; the proofs of `IInv`
cover any number. In `SchemaEvolution` two requests make a schema grow under rows that are there
already, the third is one between the two captures; the request set has a layout that
grows, an empty tag, one with another layout, another name of the same column and a value
of a type that may be unwritable, and two layouts in one request;
`MaxRestarts` is one because a restart forgets the schema entirely. In `ServerStore` two
files make a merge and a third allows a second merge; one agent's retry next to its
lost request needs two handlers. In `ConfigSync` two puts of different settings are
the least that tell an update that makes up for two puts from two updates; two requests
let an old one be served after a new one. In `Federation` two queries meet in the
catalog, a dropped one included (`MaxDrops`); a swap of two tables is what a drop can
leave half done; one row moves (`Moving`) from next to a file of its table, or from next
to another buffered row (`Starts`); times and terms are the least that put a row on a
bound.

**Symmetry** is used only for handlers and slots and only in runs without liveness
properties.

**Deadlock** is not checked where the system may stop: the `AgentIngest`,
`SchemaEvolution` and `Federation` models when the bounded set of requests is used up
and no mishap is left, the `AgentLocks` models when the agent has ended. There deadlock
is a property (`DeadlockIsBroken`, `EveryoneGetsThrough`), about the mutexes. The
`ServerStore` and `ConfigSync` runs check it.

**Fairness.** `AgentIngest`: weak fairness of the scheduler loop (a timer, then
collection, upload, handoff, and a retry of every staged file), of a task's second
critical section and of recovery. Nothing says that uploads succeed, only that
failures are bounded (`MaxFaults`), and nothing forces a crash or a request. Failures that
last are not excluded by this: `AckedDelivered` names them (`Stuck`, `Unread`, a stopped
scheduler). A cycle that meets a row that cannot be written fails again and again, which
is fair. `AgentLocks`: tokio's mutexes are FIFO, so a task that waits for a mutex that is
free again and again gets it: strong fairness of what a task does once it has begun,
and of the final flush. A woken scheduler is dropped at its next await, which it may
reach in any of several places: strong fairness again. The accept loop hands over what
it accepted and, with nothing else ready, hears the signal: weak fairness, which does
not say which branch it takes when both are ready. Nobody has to send a request, start
a handoff or press Ctrl-C. `ConfigSync`: the heartbeat loop's timer, the server serving
each request it has, and the agent taking the answer.

## 4. What the checks show

* An acknowledged row is delivered, staged or replayable at every moment, also after
  a crash (`AckedSafe`), in reach of the running agent (`AckedReachable`) and
  delivered in the end (`AckedDelivered`), but for four ways of losing it: findings 1
  and 2, a WAL file that an abandoned write goes over, and one that recovery could not
  read and a watermark passes (both below). Delivery has more against it: an unwritable
  row in the buffer (`Stuck`), a scheduler that was dropped (`pc = "stopped"`), and a
  skipped file, which waits for another restart.
* WAL numbers stay fresh across restarts (`FreshSequence`), every buffered row is
  replayable but for those `uncovered` (`BufferedReplayable`), a handoff takes no row but
  captured ones out of the buffer, and those when they are stored or staged, or when their
  name was taken and the server kept what it had (`HandoffKeepsRows`; that last case is
  finding 2, and the row is lost). No row, acknowledged or not, leaves what the
  agent has, has delivered or will replay, by any step, unless it is noted as lost
  (`RowsKept`).
* Names collide only after rows were applied out of the order of their files, or
  captured again (`CollisionNeedsCause`); a row is stored under two names only when
  it was captured twice, by a crash or a failed staging (`DuplicateNeedsCause`).
* The handoff and the final flush are the only tasks that can wait for each other, and
  then the handoff has been told to stop and is dropped with the buffer's guard
  (`DeadlockIsBroken`), so an agent that heard the signal ends (`StopsOnceHeard`) and
  until then everyone gets the mutex they wait for (`EveryoneGetsThrough`). A
  handoff writes its watermark and deletes WAL files only after these locks, so being
  dropped costs no row, at most a second upload after the restart.
* If all clients write one layout, whatever is applied, captured and replayed in
  whatever order, each row reads back as written, from the buffer and, under the names of columns and
  without empty tags, from the file, and only exact repetitions leave the file; a file has
  no two columns of one name unless two names come to one (`WellRead`). With any layouts,
  the name a value had when its row came in never changes (`ReadingStable`), although the
  schema is captured after the rows; files of one life of the agent agree on their columns
  (`ColumnsAgree`); and the tag index, rebuilt by the drain, gives rows that have the
  tag, and all of those that came with it when the schema had its key (`IndexExact`).
* The server keeps what it holds and acknowledges what it keeps (`StoreKept`), except
  for uploads sent twice at once, writes that failed or were cut short, and a tombstone
  of another table's file of the same name (`LossNeedsCause`). Rows are in two readable
  files only during a swap, or when a retry came when no tombstone said no
  (`ServerStore!DuplicateNeedsCause`). Row counts are right when nobody is at work on
  the table, unless something interfered (`CountNeedsCause`).
* An agent that counts as high as the server has the settings put last
  (`UpToDate`) and catches up in the end (`Converges`), unless `haunted`: its row was
  deleted and made again while numbers of the old one were about, or a configuration with
  a `version` of its own made the agent skip numbers. It falls back on what it was
  told since its registration, unless a write of the cache was cut short or it could not
  be read (`FallbackKept`); what it takes for reported is known to the server, on its
  way, or was in a report that failed (`ReportKnown`).
* The shared catalog holds a query's own provider only while that query holds the lock,
  unless a query was dropped in between (`CatalogRestored`); a history query reads every
  row that was in a file when it was sent once (`HistoryExact`); a buffer query reads
  files only of tables it did not see by name, could not ask about, or found unlisted
  (`BufferPure`); an all query misses a row only for the causes `NothingMissed` lists,
  and reads a row that was settled in a file twice only beside what a dropped query
  left or without the lock (`SettledOnce`).

### Findings

1. **A handoff that empties the buffer passes a file whose rows are not applied**
   (`AgentIngestGap`, `agent/flush/scheduler.rs:339`). With no live chunk the
   watermark is `current_seq - 1`. A writer between its WAL flush and its apply has
   its file below that; the handoff deletes it, the writer applies and answers 204,
   and a crash before the next upload loses the rows.
2. **Two uploads can have one name** (`AgentIngestReorder`, `scheduler.rs:228`).
   Writers apply in the order in which they get the buffer mutex. File 2 can be applied
   and captured while file 1 still waits; file 1's rows then enter the chunk during its
   upload as `..._2`, the drain leaves them there with the chunk's bounds, the next
   flush is called `..._2` again, the server skips it and the agent drains the rows.
3. **Ctrl-C can be lost** (`AgentStop`, `main.rs:287`). `notify_waiters` wakes the
   futures that exist, once. The accept loop makes a new one every round: with a
   connection ready as well `select!` may take that and drop the woken future, and while
   a connection is handed over there is none. The scheduler and the background loops
   end; the agent goes on accepting writes that no snapshot ever takes.

### Other behaviour met while modelling

The invariants name each as a cause, or leave it outside, and no run is spent on it.

The agent's files:

* The S3 key is made from the time of the first row, without the sequence
  (`AgentData!S3Key`): two flushes of a window whose earliest row is the same
  overwrite each other. A retry knows the window only, and makes the key from that
  (`scheduler.rs:525`): it is another key than the first attempt's, so an attempt that
  did arrive leaves the rows there twice, although "the wal part rebuilds the original
  upload name so retries stay idempotent" (`scheduler.rs:502`); and the retries of two
  flushes of one window overwrite each other.
* A client that goes away while `tokio::fs::write` is under way takes the handler and
  the WAL mutex with it (`wal_core.rs:105`); the write goes on in its blocking thread.
  The number is still the next one: the next flush writes the same file and its rows
  are acknowledged, and when the abandoned write then goes over it, or truncates it, a
  crash before the next snapshot loses them.
* A WAL file that cannot be read at a restart is skipped ("Skipping unreadable WAL file",
  `wal_core.rs:149`) and left there. Nothing in the buffer keeps the watermark below it, so
  the next handoff may pass and delete it with its acknowledged rows (`uncovered`).
* After a failed staging, or a crash between upload and watermark, rows are captured
  again, perhaps with more rows, under a new name (rows twice) or under one the
  server has (new rows lost).

What a row means (`SchemaEvolution`; `WellRead` excludes them by `OneLayout`):

* A request's first line fixes the key lists of all its lines, and rows hold values by
  position (`agent/write.rs:118`, `agent/buffer/chunk.rs:80`). Values of a request with
  other keys than the table's, or a line with other keys than its request's first, are
  read under wrong names; cells beyond the schema are cut.
* A field's type is that of its first value; later values of another type are NULL in
  Parquet. A `u64` above `i64::MAX` ends the snapshot cycle at its table, every cycle
  (`parquet_writer.rs:131`): nothing of that table, nor of those after it in a cycle, is
  delivered any more.
* A column of a file has `-` and a space of its name replaced by `_`
  (`parquet_writer.rs:10`). `data-center` and `data_center`, a tag and a field of one name,
  and a field called `time` are columns of one name in the file. An empty tag is NULL in a
  file and an empty string in the buffer.
* After a restart the schema is learned again from what is replayed, so files before
  and after it may differ in the order and types of columns.
* Only neighbours after the sort by time are compared for duplicates; the tag index
  lacks the tags a row had beyond the schema when it came; of several tag filters only
  the first is applied.

The server's files:

* A tombstone is looked up by name in all tables (`server/ingest_api.rs:124`), and a
  name does not contain the table: a merge in one table suppresses an upload to another.
* A write that fails half-way leaves a torn file under its final name, and the retry is
  answered 200 by the existence check; the same check answers 200 to a second request
  while the first is still writing.
* The compacted file is not synced before the originals, which were, are removed; a
  power cut can leave a torn compacted file and nothing else.
* A crash, or a failing removal, while merged files are removed leaves files that are
  merged again under another name; a retry between a removal and its tombstone
  recreates the file. Rows are then there twice.
* The recount scans and then replaces `total_rows`; an upload in between is counted
  twice or not at all. A request dropped between its file and its statistics stays
  uncounted until the next merge.
* One file without a footer ends every compaction cycle at its table.

Configuration:

* A put replaces the whole configuration (`agent_store.rs:104`), and an agent applies
  and caches configurations by overlaying them: of two partial puts between two
  heartbeats the agent gets the second only, although both were answered "config will
  apply on next heartbeat"; and what an earlier put gave it is gone from the cache
  with the next registration, so a later restart without the server comes up without it.
* A value that cannot be read leaves the running setting alone (`hot_config.rs:28`) and
  takes the place of the good one in the cache (`main.rs:198`): the next start without
  the server has the local setting.
* A configuration with a `version` field sets the agent's number (`main.rs:188`), which is
  otherwise the server's count of puts: with a larger one the agent is taken for up to date
  through later puts, with a smaller one it gets the update again with every heartbeat.
* Deleting an agent is two statements that commit one by one (`agent_store.rs:120`): a
  failure of the second leaves the agent without its tables.
* An agent whose registration failed, or whose row was deleted, never registers again.
* A failed heartbeat loses its schema report until the table changes again or the
  agent restarts. Without the agent's row `merge_schema` fails, is logged, and the
  heartbeat is answered 200.

Federation:

* A query over two tables that times out, or whose client leaves, during the second
  fetch leaves the first table's transient provider in the catalog, although "restoring
  right after planning leaves the catalog as it was for the next query"
  (`server/federation/mod.rs:171`). Everybody reads old buffered rows instead of the
  files, or both twice, from then on.
* Fallbacks plan without the lock and can bind another query's transient provider.
* An all query on a table that the catalog does not list reads the buffer only, without
  a word (`mod.rs:298`), even if its files have arrived by then.
* Restoring the absence of a table removes a listing that an upload registered meanwhile.
* The time range is taken from every comparison of a column called `time`: a term about
  one table cuts the fetch of another (`mod.rs:163`).
* Tables in subqueries of expressions, or with the name of a CTE, are not found by
  `extract_table_names`; a buffer query reads their files.
* A retry that finds no slot is answered 422 and not 503 (`sql_api.rs:61`);
  `truncated` is also true of a result of exactly `max_rows` rows
  (`query_engine.rs:138`).

## 5. Proofs

Each proof module has an inductive invariant, some have a second one on top of it.
The first ones of `AgentIngest`, `AgentLocks`, `ServerStore` and `ConfigSync` are also
invariants of a run; of the others a run has the properties that follow.

* **AgentIngestProofs.** `IInv` = `TypeOK`, `FreshSequence`, `BoundsInv` (sequence
  bounds of chunks and gaps are numbers already used), `LateInv` (an abandoned write is
  for a number already used or the next, and none outlives the process), `UnreadInv` (a
  skipped file is there, above the watermark, and there is none before the first crash),
  `BufferInv` (a buffered row's
  file is above the watermark, the handoff's pending watermark and the chunk's low
  bound), `GapInv` (the file of a row in the gap has its number), `JobInv` (what is
  captured stays buffered until the drain; what the handoff will drain is in the capture,
  and by then has a copy), `AckedInv` (where an
  acknowledged row is). `BufferedReplayable` alone is not inductive: a handoff first
  computes a watermark and writes it later, so what is kept must be above both
  (`Kept`), and the watermark is the least low bound, so rows must be no older than
  their chunk's. From it follow `FreshSequence`, `BufferedReplayable`, `AckedSafe`,
  `AckedReachable` and the action property `HandoffKeepsRows`, for any number of
  handlers, batches, tables, crashes and failures and for all three backends.
* **AgentCustodyProofs.** `AgentKeepsRows` is the refinement of `RowCustody`. `IInv`
  gives what each step needs: what is drained has a copy (`JobInv`), what is overwritten
  is noted, what a crash takes from the buffer is in a file to replay (`BufferInv`), so is
  what the crash finds skipped (`UnreadKept`), and recovery moves rows from one to the other (`CustodyOfReplay`). `AckedInv` says that
  what is acknowledged is held. The second part is about one pass, the agent's life up to
  its first crash or abandoned cycle. Neither `CollisionNeedsCause` nor
  `DuplicateNeedsCause` is inductive, and neither says where rows are; `PassInv` does:
  what is staged, under way or captured has the rows of its table (`SortedInv`); a row is
  in one place until it is applied and under one name once it is captured (`OnceInv`);
  while no file of a table was applied before an older one, rows in the gap are newer than
  anything captured of the table, and what is left in a chunk newer than any name of its
  window (`OrderInv`); so a name is for one set of rows (`NameInv`). Both theorems are for
  the http backend and the local disk, whose names end in the sequence number. An S3 key
  has a time instead; both are false there (section 4), the first without any mishap, the
  second after one upload that failed and arrived all the same.
* **AgentLocksProofs.** `LocksInv` = `TypeOK`, which ties each mutex to the places in
  the code, and `ToldTogether`: the main task stops only because of the signal, and
  that reached the scheduler as well, whose future is never renewed. Without the second
  part `DeadlockIsBroken` does not follow. Both hold for any number of tasks.
* **SchemaEvolutionProofs.** `SchemaInv`: within one life of the agent the schema only
  grows, at its end (`GrowKeeps`), so the names each row came under, in a chunk, in a
  capture or in a file, and the columns of each file written in this life, are a
  beginning of the schema's. Files of one life are then comparable because they are
  beginnings of one list. From it follow `ReadingStable` and `ColumnsAgree`, for any
  requests, windows and restarts. `IndexInv` says that each entry of a tag index is a tag
  of its row and each tag a row came with has an entry; a drain moves rows, and the
  rebuilt index moves with them; `IndexExact` follows. `Formed` says what batches and rows
  are made of: `TypeOK` alone does not keep the names of the schema distinct, as they come
  from a batch. `ReadInv` is under `OneLayout`: the schema is then a beginning of some
  request's layout, with the types that were written (`Followed`), so whatever was
  appended to it, every row has the schema's first names and types (`Suits`); a file keeps
  one row of each set of equal neighbours, and every captured row reads from it as written
  (`KeepsAll`). With `SchemaInv` that is the first part of `WellRead`; the second needs
  that all names of the schema come from batches (`NameInv` there).
* **ServerStoreProofs.** `IInv` = `TypeOK`, `HeldInv` (a request past the checks is
  held), `SwapInv` (the compacted file is there while originals are removed).
  `ServerImplementsStore` is the refinement: every step of the server is a step of
  `RowCustody` or a stutter. `SwapInv` is what makes a removal a stutter. `CauseInv`,
  inductive on top of it, says why losses and copies need a cause: two requests for one
  upload are known to be two (`TwiceInv`); a request that found no file finds none later
  unless there are two, and is in no compacted file unless its upload is noted
  (`PlaceInv`); a torn file is being written or its upload is spoiled, and a tombstone is
  for rows that are readable (`TornInv`); what is merged has no file of its own, is in
  no other compacted file and has a tombstone (`MergedInv`); the files to be merged stay
  until they are removed (`MergeInv`). `LossNeedsCause` and `DuplicateNeedsCause` follow.
  `CountInv` makes `CountNeedsCause` inductive: a count is right when nobody is at work,
  and in between it differs by the uploads that are on disk and have their statistics to
  come (`Due`); the recount's scan differs by the same (`Counted`). It needs that no upload
  is due twice, or is due with a file that somebody else made (`AloneInv`).
* **ConfigSyncProofs.** `IInv` = `TypeOK`, `CountInv` (nobody counts ahead of the
  server), `PutInv`, `AnswerInv` (an answer that makes the agent count as high as the
  server carries the current configuration), `UpToDate`. `UpToDate` needs `AnswerInv`
  because the version is compared in one hold of the lock and the configuration is
  read in another. `CacheInv` says that the cache holds what the agent was told, or is
  about to, and that the agent writes it between its requests; `FallbackKept` follows.
  `ReportInv` says that a request has nothing left to report when it is answered;
  with `ReportKnown` itself it is inductive.
* **FederationProofs.** `RangeIsSound`: a row that satisfies the terms is in the range
  taken from them, where bounds saturate too. `FedInv` says of each query how far it is
  in its list of tables, that what it is going to put back is no query's own provider
  unless one was left there by a dropped query, that the tables which had their turn are
  hidden from a buffer query, and that a history query has planned with listings. It
  needs that only the writer of the lock has anything to put back. From it follow
  `TypeOK`, `CatalogRestored`, `HistoryExact` and `BufferPure`, for any number of
  queries, tables, agents and rows. `GatherInv`, on top of it, follows each row that an
  all query looks for (`Sought`) while it moves: at its table's turn the row is with an
  agent still to be asked, in an answer, or has left the buffer (`Found`), after it in
  what the catalog and then the plan have for the table (`Seen`). A row that was settled in
  a file when the query was sent is never in what is fetched (`Apart`). `NothingMissed` and
  `SettledOnce` follow: a move between two turns costs no row because the files are
  listed last.

Assumptions: `DataAssumption`, `AgentAssumption`, `LocksAssumption`,
`SchemaAssumption`, `StoreAssumption`, `SyncAssumption`, `TimeAssumption`,
`FederationAssumption`; they say what kind of thing each constant is, that names are
unique per table, and that the bounds are numbers. TLC evaluates them in every run.

Only model-checked: the liveness properties `AckedDelivered`, `EveryoneGetsThrough`,
`StopsOnceHeard` and `Converges` (liveness under fairness is out of the prover's reach,
as is ENABLED). Every invariant and every action property of the passing runs is a
theorem. No recursive definition is proved about; the modules have none.

The proof of `NameInv` corrected the model: an upload to the local disk that fails can
leave a truncated file under its name (`UploadError`), and what an earlier file of that
name held is then lost as well.

## 6. Not modelled

* Taken from outside: DataFusion refuses a Parquet file without its footer, and what it
  does with files whose schemas differ is its own; the hash in a compacted file's name
  is injective; SQLite loses nothing it committed; a directory is listed in one step.
* Power cuts at the agent (its WAL is not synced); a snapshot interval that changes
  while there are chunks; the wall clock.
* What SQL computes from the rows it reads, the row limit, the layout of answers.
* Why a WAL file cannot be read, and which names Parquet's schema language refuses: the
  first is a fault, the second a reason for a batch to be in `Unwritable`.
* The encodings of line protocol, WAL and Parquet, but for the names of columns; size estimates and the memory limit,
  which only decide when a cycle starts.
* Compaction's `read_parquet` over files with different columns, and that compaction
  gets to every table in the end (it does not, past a file without a footer).
* Read-only endpoints, the command line, the front end: no state of their own.

## 7. Plan

Done, in this order: `AgentData`/`AgentIngest` (the promise behind a 204), `AgentLocks`
(the order of the mutexes, and the shutdown), `RowCustody`/`ServerStore` (the promise
behind a 200), `ConfigSync`, `TimeFilter`/`Federation`, `SchemaEvolution`, each with its
proofs, and last `AgentIngest` as another keeper of `RowCustody`. What would come next:

1. What S3's keys promise: which two flushes of a window meet under one key, and that
   no others do.
2. More than one pass: which rows a crash makes the agent capture again, and that only
   those are stored twice.
3. An abstract specification of a query's answer for `Federation` to implement.
4. Liveness of compaction, with the tables it does not get to as the exception.
