# A verification project for little_bigtable

little_bigtable is a Cloud Bigtable emulator: a gRPC server (`src/bttest`) that
keeps its tables, views, backups and change records in one SQL database
(SQLite or PostgreSQL). This directory holds TLA+ modules that model the
server, TLC configurations that check them on small instances, and theorems
that TLAPS proves for instances of every size.

## The system and its state

| Part | State | Operations that change it | Module |
|---|---|---|---|
| Tables (`table_admin.go`, `inmem.go`, `sql_tables.go`) | `s.tables`, `s.deletedTables`, the `*table` objects, `tables_t`, `rows_t` | CreateTable, UpdateTable, ModifyColumnFamilies, DropRowRange, DeleteTable, UndeleteTable, purge, restart | `TableLifecycle`, `TableService` |
| Writes (`data_write.go`, `mutation_engine.go`) | `rows_t`, `idempotency_t` | MutateRow, MutateRows, CheckAndMutateRow, ReadModifyWriteRow | `WriteRequests`, `RowMutation` |
| Change streams (`localcloud_change_stream.go`) | `change_stream_t`, the position of each reader | every committed write, ReadChangeStream, purges | `ChangeStream` |
| Materialized views (`materialized_views.go`) | `s.mvs`, `dirty`, `refreshMu`, hidden rows | create, update, delete, source commit, read | `MaterializedView` |
| Authorized views, schema bundles, logical views, IAM | stores keyed by resource name, etags | create, update, delete, set policy | `NamedResources`, `ViewPolicy` |
| Instances, clusters, app profiles (`localcloud_instance_admin.go`) | three maps and their SQL copies | create, update, delete | `InstanceAdmin` |
| Backups (`localcloud_backups.go`) | manifests, snapshot rows | create, update, copy, delete, restore, expiry | `Backups`, `Listing`, `Operations` |
| Operations, pagination (`operations.go`) | `operations_t`, a counter | complete, delete | `Operations`, `Listing` |
| Reads, filters, sessions (`data_read.go`, `filter.go`, `session_streaming.go`, `targets.go`) | none that outlives a request | | `KeyRanges`, `Keys`, `ReadPath`, `RowFilter`, `Sessions`, `ViewPolicy` |
| Queries (`query_service.go`, `internal/gsql`) | none that outlives a request | | `QueryStream`, `SqlValues`, `SqlLogic`, `SqlExec`, `SqlSource`, `KeyCodec`, `Pushdown`, `Sketch` |
| Locks | `s.mu`, `tbl.mu`, `refreshMu`, the connection | every request | `LockOrder` |

How the parts interact: `s.mu` protects the maps, `tbl.mu` the object and the
rows of one table. Most requests look their table up under `s.mu`, release it
and work under `tbl.mu` later. Every database change runs in a transaction
(`withTx`) or is a single statement, and memory is changed before, in or after
it; with SQLite there is one connection. At start everything is rebuilt from
the database. A maintenance goroutine purges expired tombstones, change records
and backups.

## The runs

| Run | Asks |
|---|---|
| `lifecycle_race`, `lifecycle_serial` | does the life cycle of a table name implement `TableService`, through races, failures and restarts? |
| `lifecycle_fault` (violated) | does UndeleteTable restore the table when it is sent again after a storage error? |
| `view` | is no stale flag of a materialized view lost, and is every reader answered? |
| `view_reads` (violated) | does every read of a view observe the writes acknowledged before it? |
| `row` | do the change records of a row say what happened to it, whatever is written, aggregated and collected? |
| `clients` | are retried writes applied once and answered truthfully, and do etags keep two administrators from undoing each other's updates? |
| `stream` | does a consumer that is cut off and resumes get each change once? |
| `backups` | do instances, clusters, profiles and backups stay consistent with one another? |
| `resources_policy` (violated) | does a re-created view start without a policy? |
| `resources_logical` (violated) | do stale etags of logical views fail? |
| `algorithms` | do the pure algorithms compute what they are meant to, and can requests wait for each other forever? |

### The life of a table name: `TableService`, `TableLifecycle`

`TableLifecycle` follows one table name. `tables` and `deletedTables` are the
two maps of the server, `obj` the heap of `*table` objects (a pointer is a
number), `tables_t`, `rows_t`, `authorized_views_t` the database keyed by
storage id: 0 stands for the table id, `t > 0` for `<id>@deleted@<t>`. `req`
holds what a handler has resolved and not yet carried out, and `mu` who holds
`s.mu` between the two halves of DeleteTable. There is one action per
operation; a data request is `localRequireTable` (look-up under `s.mu`)
followed by `MutateRow`, `DropRowRange`, `UpdateTable`, `ModifyColumnFamilies`
or `CreateAuthorizedView`. DeleteTable has two halves because it reads the
protection flag, releases `tbl.mu` and takes it again. A transaction that fails
is an action of its own (`DeleteTableFails`, `UndeleteTableFailsLate`,
`PurgeStopsEarly`), and `Restart` may come between any two steps and runs
`loadTables`. Left out here: the change log and IAM rows that DeleteTable also
deletes, schema bundles (same moves as authorized views), and everything about
a row except which families it has cells in.

`TableService` is what clients may rely on: one live table at most, tombstones
by deletion time, requests that take effect on the incarnation they were
accepted for, whole tables deleted and brought back. `ImplementsService` is the
refinement (`liveBar`, `tombsBar` read the tables through pointer and storage
id).

- `lifecycle_race`: two requests racing with deletion, undeletion, purge,
  failures and restarts: memory is what `loadTables` would rebuild
  (`MemoryMatchesStore`), cells stay in known families (`RowsInFamilies`), and
  the refinement holds.
- `lifecycle_serial`: the refinement for every operation, DeleteInstance and
  authorized views included, when requests do not overlap; and expired
  tombstones are purged in the end.
- `lifecycle_fault` is violated: `BIGTABLE_COMPATIBILITY.md:146` says that
  UndeleteTable "restores the table, its authorized views and schema bundles"
  (`UndeleteRestores`). When its transaction fails after `Rename` has set
  `storageId` and `rows` of the tombstone object (`table_admin.go:478`), the
  rollback restores the deletion time and the protection only; the next
  UndeleteTable, which succeeds, looks for the rows where the live table would
  have them and brings back an empty table.

Bounds: three clock ticks allow two deletions of the name, an undelete inside
the window and a purge outside it; two handlers are enough for a request that
is overtaken by a deletion and a re-creation. `HeapView` hides objects nothing
points to. `MaxLatency =< Window` says that no request is in flight for longer
than the undelete window (seven days in the code); without it a purge could
overtake a request. Fairness (`FairSpec`): a handler that resolved a table
answers (handlers are plain sequential code), and the maintenance pass succeeds
again and again (strong fairness, because `s.mu` is taken in between and a
failed pass is retried at the next interval).

What the code does that these properties do not forbid, or leave out:

- DeleteTable reads the protection flag before it takes `tbl.mu` for the
  deletion (`table_admin.go:394`): an UpdateTable in between enables protection,
  is acknowledged, and the table is deleted all the same. `TableService` lets
  the deletion win.
- CreateAuthorizedView and CreateSchemaBundle look their table up before they
  take `s.mu` (`localcloud_authorized_views.go:91`): the view may be stored
  after the table was deleted and shows up on a table re-created under the name.
  Therefore views are in `lifecycle_serial` and not in the proofs.
- The late failure of UndeleteTable is in `lifecycle_fault` only: until the next
  restart the tombstone object points at the live storage.
- DeleteInstance removes the tables without taking their `tbl.mu`, so a write
  that resolved its table before stores rows after it. Therefore it is in
  `lifecycle_serial` and not in the proofs.

### One materialized view over its source: `MaterializedView`

The rows of the source are a version number (how many commits changed them), and
the stored rows of the view (`mvRows`) are the version they were computed from.
`mvs`, `dirty`, `refreshMu`, `protected` and `record` are the server's map
entry, the fields of each `*materializedView` object and its row of
`materialized_views_t`; `pc`, `at`, `ver` are the position, the object and the
version of each handler. A write is two actions, because
`tbl.mu` is released between the commit (`CommitWrite`) and the marking
(`afterCommit`). A refresh is four: test the flag (`readable`), clear it under
`refreshMu` (`readableLocked`), run the query (`recomputeScan`), replace the rows
in one transaction (`recomputeStore`); `readableFails` is the failed query or
transaction, which sets the flag again. Creation is two actions: the query is
prepared before `s.mu` is taken. `LoadMaterializedViews` is a crash and the
start that follows it, possible between any two steps. `owed` is the version a
view has to show: a dropped family changes the source and marks no view
(`dropFamilyData`), so it raises `committed` and not `owed`.

Left out: what the query computes, the limits on the number of views, other
views of the same source, and a view whose id is that of its own source.
ExecuteQuery expands a view into its query and never reads the stored rows, so
it is not a reader here.

- `view`: two readers or creators and a writer, every operation, every failure,
  restarts. No flag is lost (`UnflaggedViewIsCurrent`), rows never go back
  (`RowsNeverGoBack`), protection in memory is the stored one
  (`ProtectionStored`), every request is answered (`RequestsAnswered`), and
  reading makes the view current once writing stops (`ReadingMakesCurrent`).
- `view_reads` (`MCViewReads`, which notes the writes acknowledged when a read
  begins) is violated: `CMV_SUPPORT.md:95` says that reads "observe every
  committed source write", and so does the comment at
  `materialized_views.go:33`. In a trace of ten states without any failure one
  request has cleared the flag and is still recomputing, and another finds it
  clear (`materialized_views.go:57`) and returns rows without a write
  acknowledged before it began.

Bounds: two commits give a commit before, during or after a refresh; two
readers are enough for one refresh to wait for another; two objects are a view
and the successor that is being prepared. Fairness: a handler that began goes on
(plain sequential code), and one that waits for `refreshMu` gets it in the end
(strong fairness: Go's `sync.Mutex` hands over to a goroutine that has waited
for a millisecond). No client is assumed to send anything.

What the code does beyond these properties. A refresh that outlives its deleted
view overwrites the rows of a view re-created under the name
(`materialized_views.go:168`); therefore the run `view` lets a name be taken
again only when no request works on the earlier view (`Successive`), and the
theorems are about a view that is not deleted. A dropped family stays in the
view until the next commit. A restart removes a user's table that has the id of
a stored view (`materialized_views.go:257`).

### The row and its change records: `RowMutation`

One row is a function from `<<family, column, timestamp>>` to values, `micros`
the granularity of the table, `rules` the collection rules of its families;
`mirror` is the row as a consumer of the change records rebuilds it. Each of the
four write requests is one action (all of it runs under `tbl.mu`): validation,
the mutations in order, server timestamps, aggregation, garbage collection by
nested rules, and the records of all that. A rule refers to the rules nested in
it; `Depth` says how deep a rule is nested, which is what makes the recursion of
`gcDeletes` end (in the code a rule is a tree of at most 500 bytes).

`row` checks that the rebuilt row is the stored one (`MirrorMatchesStore`), that
a rule, however nested, removes the oldest cells only and takes nothing back
(`CollectsOldestOnly`), and that the increments of one request add up on top of
what a read would return (`IncrementsAddUp`). Two families (plain and sum), one
column, a millisecond of two units, two-bit integers, three clock ticks: enough
for versions that are kept and collected, an overflow, and both granularities.
Two things a consumer cannot rebuild exactly are excepted (`inexact`): the
record of a collected cell of a MICROS table deletes its whole millisecond, and
a batch that writes a row twice records both changes before both collections.

### Retried writes: `WriteRequests`

MutateRow and MutateRows: an attempt resolves its table, waits for `tbl.mu`,
looks its tokens up (`idempotency_t`), stages what is new, and commits rows and
tokens in one transaction, which may fail; attempts run concurrently, the clock
moves between their steps and the server may crash between any two. The run
`clients` has these writers, or the administrators of `NamedResources` below.

- `HonestAnswers`: an entry answered OK has been applied, by this attempt or an
  earlier one. The exception is an entry that repeats another one of its own
  batch: it keeps its OK when the transaction or the other entry fails
  (`data_write.go:212`), which no property of the run forbids.
- `AppliedApart`: two applications of one token are at least a window apart. A
  retry at the very instant a token expires is applied again.
- `AppliedIsAnswered`: the step that applies anything answers OK for everything
  it staged.

Mutations with, without a token and invalid ones, two attempts, batches of one
and two entries with repetitions, and a clock that passes the window twice.
MutateRow tests the window before it waits for `tbl.mu`; tokens are kept by
table name, so they outlive the table's deletion.

### Change streams: `ChangeStream`

`log` is `change_stream_t`, `pos`, `batch`, `listed`, `full` the state of one
ReadChangeStream call, `chan` the messages on their way, `tokens` and `got` what
the consumer has. Commits append records in their transaction; UpdateTable
enables and disables; the retention purge and the purge after disabling are
actions; the reader takes a watermark, lists a batch, sends, heartbeats, closes;
the client disconnects, the server crashes, and the client resumes from any
subset of the tokens it has.

- `ExactlyOnce`: whatever was cut off where, the consumer holds every stored
  change of its partition up to its position, once, in order.
- `HeartbeatCoversCommitted`: when a heartbeat may be sent everything committed
  before the watermark was read has been sent. The comment in the code (that the
  watermark never passes an undelivered record) is true of committed records
  only, as `BIGTABLE_COMPATIBILITY.md` says.
- `RecordsLeaveOldestFirst`: the stored records are the newest ones, without a
  hole, whichever retention a maintenance pass read before it purges, and
  whenever the purge after disabling runs; so a consumer that was away too long
  misses records at its own position and none further on.
- `RecordsDelivered` (liveness): a connected consumer gets what is stored. Weak
  fairness of the server's steps and of the client's receiving; the poll loop of
  the code never waits for anything but its timer.

A batch of one record, two keys, two records and ticks make a full and a short
batch, a purge between listing and sending, and a resume at each position. The
run has one retention, so the one a purge uses is old when the stream was
disabled or enabled meanwhile; the theorems have every retention. What
the model has and no property forbids: the purge of a disabled stream runs after
`tbl.mu` is released (`table_admin.go:344`), so one that comes after the stream
was enabled again removes records of the enabled stream; a crash before it
leaves the old records readable once the stream is enabled again; a maintenance
pass goes by the retention it read before; records purged before they are read
are skipped silently; and CloseStream may miss a commit in flight.

### Administration and backups: `InstanceAdmin`, `Backups`

`InstanceAdmin` has the maps of instances, clusters and app profiles beside
their database copies; every save may fail and `Restart` loads the copies.
`Backups` composes it with tables and backups. CreateBackup is two steps (the
schema is encoded before the rows are copied), which `src.mu` keeps together;
the purge lists all backups without a lock and removes them one by one, with
anything in between.

- `ReferencesHold`: no cluster or profile without its instance, no profile that
  routes to a missing cluster, memory equal to the database. An instance without
  clusters, which a CreateInstance leaves when saving a cluster fails
  (`localcloud_instance_admin.go:85`), is allowed.
- `LiveBackupHasCluster`: an unexpired backup is in an existing cluster (strict
  mode). The exception (`revived`): UpdateBackup at the very instant of expiry
  after its cluster was deleted.
- `SnapshotsWhole`: a backup, and a table restored from it, has the families its
  rows were written under.
- `QuotaHolds`: no table has more backups than allowed, but for copies, which
  the code does not count.
- `BackupsImmutable`: as long as a backup exists its rows, schema, type, source
  and start stay what they were ("Immutable schema + row snapshot",
  `BIGTABLE_COMPATIBILITY.md`), whatever is created, copied, restored or purged
  meanwhile, and no sequence of UpdateBackup calls takes its expiry out of the
  retention period counted from its start.

One instance with two clusters and a profile, two backup names, one table with
two families, a quota of one, two units of time: a cluster deleted under a
backup, a backup replaced during a pass, a quota reached. Observed and outside
the properties: a backup whose expiry was put off, or that was re-created, after
a maintenance pass listed it is purged by that pass
(`localcloud_backups.go:674`); two PartialUpdateInstance calls turn PRODUCTION into DEVELOPMENT
by way of UNSPECIFIED, and PartialUpdateCluster accepts negative node counts.

### Views, bundles, policies and etags: `NamedResources`

Each handler is one action under `s.mu`, except UpdateLogicalView, which
releases it while the query is checked, and SetIamPolicy, which looks its
resource up before. An etag is a hash of the content and is represented by the
content.

- `NoLostUpdate` (run `clients`): clients that send back the etag they read lose
  no update of an authorized view, a schema bundle or a policy.
- `resources_policy` is violated: DeleteAuthorizedView says that "a re-created
  view starts empty" (`localcloud_authorized_views.go:232`,
  `RecreatedViewStartsEmpty`), but setIamPolicy looks the view up before it takes
  `s.mu` (`sql_iam.go:131`): a policy stored after the view was deleted is there
  when the name is taken again.
- `resources_logical` is violated: UpdateLogicalView compares the etag before it
  releases `s.mu` and does not compare again
  (`localcloud_logical_views.go:127`), so of two clients with the same etag both
  succeed and one update is lost. The implementation plan under
  `docs/superpowers/plans` says "Stale etags fail without mutation."

Two clients, two names (an authorized view, which a schema bundle behaves like,
and a logical view) and two updates are enough for every overlap of two updates,
or of an update and a deletion with re-creation.

### The algorithms: `MCReads`, `MCQueryEngine`, `MCAlgorithms`

The code of these parts keeps no state between requests (or, for operations and
streams, very little), so what they compute is defined by operators and checked
against a reference definition, over every input of a small set. The run is one
state machine: `kind` is the algorithm, `input` its input, and the steps take an
input, extend it piece by piece where it is a sequence (of pages, of stream
steps, of restarts), and drop it. The invariants, each with the code it is
about in the comment above it:

| Invariant | Module | Its parts |
|---|---|---|
| `ReadsSound` | `KeyRanges`, `Keys`, `ReadPath` | `RangeMeansBounds`, `PrefixCovers`, `PlanReads`, `ChunksRebuild`, `SamplesSound` |
| `FiltersSound` | `RowFilter` | `FilterCounts`, `CellsPaged`, `OneLabelPerCell`, `BranchesInOrder` |
| `AccessSound` | `ViewPolicy`, `Sessions` | `WritesStayInView`, `SessionContract` |
| `TokensResume` | `Operations`, `Listing`, `QueryStream` | `PagesCoverOnce`, `BackupsPaged`, `OperationsKept`, `ResumeDeliversOnce` |
| `ValuesSound` | `SqlValues` | `ValuesOrdered`, `GroupKeysApart`, `MapLookup`, `WireRoundTrip` |
| `OperatorsSound` | `SqlLogic` | `ArithmeticExact`, `ThreeValued`, `LikeMatches` |
| `KeysSound` | `KeyCodec` | `KeyRoundTrip`, `KeysOrderedLikeValues`, `OneEncodingPerInt` |
| `PushdownKeepsMatches` | `Pushdown` | |
| `QueriesSound` | `SqlExec`, `SqlSource`, `Sketch` | `QueryReturnsWindow`, `GroupsPartition`, `AggregatesAgree`, `HistoryUnpacks`, `MergeIsUnion` |
| `NoDeadlock` | `LockOrder` | |

Bounds: bytes of three bits (0 to 7, with a top byte that cannot be
incremented), integers and hashes of six bits (every pair of integers is added
and multiplied), a second of three microseconds, chunks of two bytes, responses
of three, filters nested three deep. Each keeps the boundary the code has to get
right: a value longer than a chunk, a prefix of top bytes, a sum that
overflows, a timestamp before the epoch. `Cases` has the frame of the run.

Behaviour met here that the invariants are stated around: an `end_key_closed`
of "" counts as unset when ranges are validated and reads nothing; the offset
tokens of ListBackups skip items when the list changes between pages (so
`BackupsPaged` is about one list, where `PagesCoverOnce` has names that come and
go); operation names may be given twice if the
clock goes back across a restart (so `OperationsKept` has a clock that does
not); resume tokens count rows, so a client that resumes after a write before its
position misses or repeats rows (`ResumeDeliversOnce` asks for every row once
only of a result that stays the same, and for rows at their positions of one
that changes), and a direct query resumed after a change of schema gets no
metadata; integers and floats compare with one another, but as values of
different columns (their group keys differ), and without the rounding of
integers above 53 bits; in a materialized view
an overflowing SUM drops the row from that aggregate only; and ranges derived
from a WHERE clause hide evaluation errors of rows that are not scanned.

A limit of `KeysSound`: `KeyRoundTrip` is checked for delimiters that do not
overlap themselves. The code accepts any delimiter of 1 to 50 bytes
(`keycodec.go:86`), and with one that ends as it begins a composite key does not
come back: `"a#"`, `"b"` under the delimiter `##` is stored as `a###b`, which
splits into `"a"`, `"#b"`. The check that no field contains the delimiter
(`keycodec.go:116`) looks at the fields one by one and lets it pass.

### Locks: `LockOrder`

A handler is the path of lock stacks it goes through: `s.mu`, `tbl.mu` for
reading or writing, a view's `refreshMu`, and the one database connection, which
a statement holds while it runs and `withTx` until it commits. A reader also
waits for a writer that waits before it, as Go's `RWMutex` makes it, and a
handler may return early from any point. `NoDeadlock`: as long as a request is
being served, some request can go on. `algorithms` checks it for two handlers
and one table and a theorem proves it for any number. The paths are those of the
data, table, backup and materialized view requests, UpdateLogicalView,
DeleteInstance and the maintenance pass; the remaining requests take `s.mu`, at
most a `tbl.mu` for reading, and the connection, in the same order. The lock of a view's own storage table is left out: it is only
read-locked.

## The proofs

All theorems hold for every value of the constants: any number of handlers,
names, keys, deletions and commits, any window, batch size, retention or quota.
The assumptions are the ASSUMEs of the modules and what is said here: sizes,
limits and quotas are naturals, windows, batches, bytes and milliseconds are not
empty, and the requests of `RowMutation` are any set of lists of well-formed
mutations and rules, its collection rules any that `validateGCRule` accepts.

| Module | Theorem | Says |
|---|---|---|
| `TableLifecycleProofs` | `LifecycleInvariant`, `LifecycleSafety`, `LifecycleFamilies` | under `Benign`: `[]IInv`, `[]MemoryMatchesStore`, `[]RowsInFamilies` |
| | `LifecycleRefinement` | under `Benign` the server implements `TableService` |
| `ResourceProofs` | `ViewFreshness`, `ViewMonotone` | no stale flag is lost, rows never go back (`Benign`: the view is not deleted) |
| | `ViewProtection` | deletion protection in memory is the stored one |
| | `EtagsPreventLostUpdates` | `NoLostUpdate` of `clients`: views, bundles and policies |
| | `OperationsStayNamed` | `NamesKept`: operations stay under the names clients know, through any completions, deletions and restarts |
| | `ListingsCoverOnce` | `ListedOnce`: a listing by name, of any lists that come and go between its pages, repeats nothing and misses nothing that stayed |
| | `OrderedPagesDivide` | `PagesDivide`: offset tokens cut any fixed list into consecutive pages and come to an end |
| `RowMutationProofs` | `RowTypes`, `MirrorHolds` | types and change records of `row` |
| `CollectionProofs` | `CollectsOldest`, `IncrementsSum` | collection and increments of `row` |
| `RequestProofs` | `AppliedOnce`, `AnswersHonest`, `AppliedAnswered` | the properties of retried writes of `clients` |
| | `ResumedStreamsDeliverOnce` | `ResumedOnce`: query streams of any rows and batch sizes, broken anywhere and resumed any number of times over the same result, deliver each row once |
| `ChangeStreamProofs` | `StreamExactlyOnce`, `HeartbeatsCover`, `OldestLeaveFirst` | the three safety properties of `stream` |
| `BackupsProofs` | `AdminReferences`, `BackupSafety`, `BackupsWhole`, `QuotaKept`, `BackupsStay` | the properties of `backups` |
| `AlgorithmsProofs` | `DeadlockFree` | `[]NoDeadlock` of `LockOrder` |
| | `RangesMeanBounds`, `PrefixesMeanPrefixed` | what row ranges and prefixes select, for keys of any length over bytes of any width |
| | `ViewsContainWrites` | `StaysInView`: no sequence of mutations that a view lets through touches what it does not show |
| | `SessionsKeepContract` | `ContractHolds`: the contract of a session stream of any length |

The types a module's proofs need are a conjunct of its inductive invariant, so
they are proved rather than checked, but for `RowMutation`, where `TypeOK` says
which cells a row may hold. `RangeMeans`, `PrefixMeans`, `StaysInView`,
`ContractHolds`, `ListedOnce`, `PagesDivide`, `NamesKept` and `ResumedOnce` are
what the invariants `RangeMeansBounds`, `PrefixCovers`, `WritesStayInView`,
`SessionContract`, `PagesCoverOnce`, `BackupsPaged`, `OperationsKept` and
`ResumeDeliversOnce` of the run `algorithms` say, in whole or in part, of one
input.

The inductive invariants, and why the properties are not inductive alone:

- *Tables.* `Benign` leaves out CreateAuthorizedView, DeleteInstance and the
  late failure of UndeleteTable, for the reasons given above (`lifecycle_serial`
  and `lifecycle_fault` have them). `IInv` adds to the two properties that
  storage ids above the clock, and the live id of a deleted table, are blank
  (`Blanks`), and that the pointer a handler holds is the live table or a
  tombstone made after the handler resolved it, which no purge can have touched
  (`Handles`): a request resolved before a deletion writes to the tombstone.
- *Materialized view.* The flag is cleared before the rows are computed, so
  `Tracked` says that the view is flagged, about to be flagged by a writer,
  being recomputed from current rows, or current; `Claims` says which object
  each refresh works on and holds the lock of.
- *Retried writes.* `Ledger`: a token expires a window after its application;
  `Checked`: what an attempt found out of its tokens holds until it commits,
  because tokens change under `tbl.mu` only; `Backed`: an OK has a token or an
  application behind it.
- *Change stream.* Ids follow commit times (`LogInv`); the messages under way
  are in order and beyond the consumer's tokens (`ChanInv`); up to every token
  it holds all that is stored (`HeldInv`); up to the reader's position all has
  been sent (`SentInv`); and a listing has no gap even if a purge comes between
  (`BatchInv`).
- *Administration and backups.* `AdminInv` is inductive for administration, and
  stays so in the composition because an instance or a cluster with a live
  backup is not deleted (`HeldClustersStay`); `Placed` and `Whole` add what the
  two properties lack: the CreateBackup under way has a cluster that exists, and
  has encoded the schema its table still has. The quota is counted when
  CreateBackup begins and used when it commits: `QuotaInv` says that the count
  still leaves room at any point in between, because `s.mu` keeps every other
  creation out and a maintenance pass only removes; and the descriptors have the
  types that counting them by table and kind needs. `Retained`, that the expiry
  of every backup, and of the one CreateBackup is working on, fits a retention
  period from its start, is what `BackupsImmutable` needs of the state before a
  step: an update checks the new expiry against the start, CreateBackup checks
  it one step before it stores, and the other steps leave both alone.
- *Row.* `IInv`: the row is one a table may hold (`GoodRow`: finite, cells of
  the table's families at timestamps of its granularity with values of the
  family's kind) and `MirrorMatchesStore`. `Tracks(r, s, cs)`, that the changes
  `cs` lead any consumer that agrees with `r` on a family to one that agrees
  with `s` there, is followed mutation by mutation (`TracksAll`), rule by rule
  (`ModifyTracks`) and through the collection (`GcTracks`, where the
  millisecond of a deletion covers one cell only if timestamps are whole
  milliseconds). Garbage collection needs induction over the nesting of rules:
  `Orderly` says that a rule takes the oldest, takes more of more cells, and
  takes more later; none of the three follows for a union or an intersection
  from itself alone. For increments, the newest cell written now is never
  collected (`NewestKept`), because `validateGCRule` refuses zero versions and
  ages below a millisecond, so that every rule of a request reads what the one
  before it wrote.
- *Named resources.* `ContentCounted` is the half of the property about views and
  bundles; `PolicyCounted` strengthens the other half: the count of accepted
  updates of a policy is what a client would read, also when there is none.
  `Validated`: only logical views, which existed, wait for the validation of a
  query.
- *Locks.* Levels: `refreshMu` 1, `s.mu` 2, `tbl.mu` 3, the connection 4. The
  invariant: every stack on the remaining path of every handler rises in level,
  grows by one lock at a time, and the path ends with nothing held. The holder
  of a lock of the highest level held can go on.
- *Keys, views, sessions.* Two keys are compared at the first place where they
  part (`Parts`); the successor of a prefix parts from it at its last byte that
  can be raised. What a view does not show is `Unseen` by every mutation it lets
  through, and by induction by all of them. `StreamAnswered` is the loop
  invariant of a session stream: as many answers as requests unless it has
  ended, the first request granted what it asked for, and rows written where
  that allowed it.
- *Operations and pages.* `Numbered`: names given out are not above the counter,
  nor the counter above the clock, which is where a restart sets it; so the next
  name is new. The clock is at least one unit on with every operation (a
  nanosecond in the code) and does not go back. A client that pages by name has
  got, in order, nothing beyond the token and every item that was on all lists
  so far up to it (`Seen`); one that pages by offset, the list up to the offset
  (`UpTo`).
- *Query streams.* `Chain`: each response holds the rows from the token of the
  one before it up to its own. `Streaming` is the loop invariant of one stream:
  what it has sent is a chain from the resume token, and its batch holds the
  rows from there to the one it is at. A chain cut anywhere is a chain, and two
  that meet are one, so what a client has got over all its streams is a chain
  from the first row (`Resuming`). The rows are taken to be the same each time.

A recursive definition is reasoned about through the function it defines: that
such a function exists is proved by induction over a set of numbers
(`NatSetInduction`, from the well-foundedness of the naturals), and what it
computes by a second induction of that kind. `Recursion` and `Along` state the
two once for a family of sets `X[i]`, the values possible after `i` steps.

Only model-checked: liveness (`ExpiredTombstonesPurged`, `RequestsAnswered`,
`ReadingMakesCurrent`, `RecordsDelivered`), which needs fairness and ENABLED; the
refinement with every operation, which depends on requests that do not overlap;
what a client has of a query whose rows change (`ResumedByPosition`); and of
the algorithms the read plans, chunks and samples, the filters, the filter and
order of backups, and the query engine, whose recursive operators sort, split
and nest their data in ways that would each need an induction principle of its
own.

## Not modelled

- The SQL front end (`internal/gsql`: lexer, parser, binder, query analysis),
  the function library (casts, strings, dates, numbers, formatting) and
  parameter binding: stateless translations of unbounded text, of which a model
  would repeat the code.
- `analyzeMV`, which decides which queries may define a view, and the
  aggregates AVG, BIT_* and the statistical ones (floating-point and bit
  arithmetic).
- SQL text, table schemas and the two dialects: a transaction commits or does
  nothing, a single statement is atomic.
- Listening, TLS, flags, the process entry point and Close: I/O.
- The row key schema, tiered storage configuration and consistency tokens of a
  table, display names, labels and autoscaling limits: data nothing else
  depends on.
- The compatibility ledger (`compatibility.go`): a constant table of prose.
