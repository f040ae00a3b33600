-------------------------- MODULE MaterializedView --------------------------
(***************************************************************************)
(* One continuous materialized view over one source table                  *)
(* (materialized_views.go): creation, the stale flag that source commits   *)
(* set (afterCommit), recomputation before a read (readable, recompute),   *)
(* update, deletion, and reloading at start-up (LoadMaterializedViews).    *)
(*                                                                         *)
(* The rows of the source are abstracted to a version: the number of       *)
(* commits that changed them.  The view's stored rows (mvRows) are the     *)
(* version they were computed from; cleared rows are those of version 0,   *)
(* the empty source.  A *materializedView is a member of Objects; the      *)
(* stored rows belong to the view's name, so two objects of one name share *)
(* them.  "namesake" is a table whose id is the view's id.                 *)
(***************************************************************************)
EXTENDS Naturals

CONSTANTS
    Handlers,       \* goroutines serving requests
    Readers,        \* those that create and read the view; the others write
    Objects,        \* *materializedView values
    MaxCommits,     \* bound on the commits to the source
    Ops,            \* operations clients may send
    Faults,         \* storage calls that may fail
    None

ASSUME ViewAssumption ==
    /\ Readers \subseteq Handlers
    /\ MaxCommits \in Nat
    /\ Objects # {}
    /\ None \notin Objects /\ None \notin Handlers /\ None \notin BOOLEAN

VARIABLES
    tables,         \* ids in s.tables, in step with tables_t
    committed,      \* version of the source's rows in rows_t
    owed,           \* newest version a write made, which marks the views
    mvs,            \* s.mvs[name]
    dirty,          \* mv.dirty
    refreshMu,      \* holder of mv.refreshMu
    protected,      \* mv.deletionProtection
    record,         \* the view's row of materialized_views_t: its protection
    mvRows,         \* version the view's stored rows were computed from
    pc,             \* where each handler is
    at,             \* the view object it works on
    ver             \* version it committed (writer) or scanned (refresher)

server == <<tables, committed, owed, mvs, dirty, refreshMu, protected, record, mvRows>>
handler == <<pc, at, ver>>
vars == <<server, handler>>

Refreshing == {"check", "lock", "scan", "store", "read"}
Steps == {"idle", "mark", "register"} \cup Refreshing

Init ==
    /\ tables = {"source"}
    /\ committed = 0
    /\ owed = 0
    /\ mvs = None
    /\ dirty = [o \in Objects |-> FALSE]
    /\ refreshMu = [o \in Objects |-> None]
    /\ protected = [o \in Objects |-> FALSE]
    /\ record = None
    /\ mvRows = 0
    /\ pc = [h \in Handlers |-> "idle"]
    /\ at = [h \in Handlers |-> None]
    /\ ver = [h \in Handlers |-> 0]

\* An object newMaterializedView may return: nothing refers to it.
Fresh == {o \in Objects : o # mvs /\ \A h \in Handlers : at[h] # o}
AnyOf(S) == CHOOSE o \in S : TRUE

\* The handler answers its client.
Answer(h) ==
    /\ pc' = [pc EXCEPT ![h] = "idle"]
    /\ at' = [at EXCEPT ![h] = None]
    /\ ver' = [ver EXCEPT ![h] = 0]

GoTo(h, step) ==
    /\ pc' = [pc EXCEPT ![h] = step]
    /\ UNCHANGED at

-----------------------------------------------------------------------------
(* The source table.                                                        *)

\* MutateRow, MutateRows, CheckAndMutateRow, ReadModifyWriteRow and
\* DropRowRange commit under tbl.mu ...
CommitWrite(h) ==
    /\ pc[h] = "idle"
    /\ "source" \in tables
    /\ committed < MaxCommits
    /\ committed' = committed + 1
    /\ owed' = committed + 1
    /\ GoTo(h, "mark")
    /\ ver' = [ver EXCEPT ![h] = committed + 1]
    /\ UNCHANGED <<tables, mvs, dirty, refreshMu, protected, record, mvRows>>

AfterCommitMarksNothing(h) ==
    /\ pc[h] = "mark"
    /\ Answer(h)
    /\ UNCHANGED server

\* ... then release it and mark the views of the source under s.mu.
afterCommit(h) ==
    /\ pc[h] = "mark"
    /\ dirty' = [o \in Objects |-> dirty[o] \/ o = mvs]
    /\ Answer(h)
    /\ UNCHANGED <<tables, committed, owed, mvs, refreshMu, protected, record, mvRows>>

\* Dropping a family removes its cells and marks no view.
ModifyColumnFamilies ==
    /\ "dropFamily" \in Ops
    /\ "source" \in tables
    /\ committed < MaxCommits
    /\ committed' = committed + 1
    /\ UNCHANGED <<tables, owed, mvs, dirty, refreshMu, protected, record, mvRows, handler>>

\* CreateTable, or UndeleteTable, which also brings rows.
CreateTable(t) ==
    /\ "createTable" \in Ops
    /\ t \notin tables
    /\ tables' = tables \cup {t}
    /\ IF t = "source"
       THEN committed < MaxCommits /\ committed' = committed + 1 /\ owed' = committed + 1
       ELSE UNCHANGED <<committed, owed>>
    /\ UNCHANGED <<mvs, dirty, refreshMu, protected, record, mvRows, handler>>

\* checkTableDeletableLocked: not while a view reads the table.
DeleteTable(t) ==
    /\ "deleteTable" \in Ops
    /\ t \in tables
    /\ t = "source" => mvs = None
    /\ tables' = tables \ {t}
    /\ UNCHANGED <<committed, owed, mvs, dirty, refreshMu, protected, record, mvRows, handler>>

-----------------------------------------------------------------------------
(* Administration of the view.                                              *)

\* CreateMaterializedView prepares the query against the source before it
\* takes s.mu ...
newMaterializedView(h, o, b) ==
    /\ pc[h] = "idle"
    /\ "source" \in tables
    /\ dirty' = [dirty EXCEPT ![o] = TRUE]
    /\ protected' = [protected EXCEPT ![o] = b]
    /\ pc' = [pc EXCEPT ![h] = "register"]
    /\ at' = [at EXCEPT ![h] = o]
    /\ UNCHANGED <<tables, committed, owed, mvs, refreshMu, record, mvRows, ver>>

\* ... then saves and registers the view, and populates it through readable.
CreateMaterializedView(h) ==
    /\ pc[h] = "register"
    /\ mvs = None
    /\ record' = protected[at[h]]
    /\ mvs' = at[h]
    /\ pc' = [pc EXCEPT ![h] = "check"]
    /\ UNCHANGED <<tables, committed, owed, dirty, refreshMu, protected, mvRows, at, ver>>

\* AlreadyExists, or the definition could not be saved.
CreateMaterializedViewFails(h) ==
    /\ pc[h] = "register"
    /\ mvs # None \/ "save" \in Faults
    /\ Answer(h)
    /\ UNCHANGED server

UpdateIsNotSaved(b) ==
    /\ "updateView" \in Ops
    /\ mvs # None
    /\ protected' = [protected EXCEPT ![mvs] = b]
    /\ UNCHANGED <<tables, committed, owed, mvs, dirty, refreshMu, record, mvRows, handler>>

UpdateMaterializedView(b) ==
    /\ "updateView" \in Ops
    /\ mvs # None
    /\ record' = b
    /\ protected' = [protected EXCEPT ![mvs] = b]
    /\ UNCHANGED <<tables, committed, owed, mvs, dirty, refreshMu, mvRows, handler>>

\* One transaction under s.mu; neither refreshMu nor a refresh in progress
\* is waited for.
DeleteMaterializedView ==
    /\ "deleteView" \in Ops
    /\ mvs # None
    /\ ~ protected[mvs]
    /\ mvRows' = 0
    /\ record' = None
    /\ mvs' = None
    /\ UNCHANGED <<tables, committed, owed, dirty, refreshMu, protected, handler>>

-----------------------------------------------------------------------------
(* Reading the view.                                                        *)

\* ReadRows, SampleRowKeys and session reads resolve the view under s.mu.
materializedViewTarget(h) ==
    /\ pc[h] = "idle"
    /\ mvs # None
    /\ pc' = [pc EXCEPT ![h] = "check"]
    /\ at' = [at EXCEPT ![h] = mvs]
    /\ UNCHANGED <<server, ver>>

\* readable: nothing to do, or wait for refreshMu.
readable(h) ==
    /\ pc[h] = "check"
    /\ GoTo(h, IF dirty[at[h]] THEN "lock" ELSE "read")
    /\ UNCHANGED <<server, ver>>

RefreshWithoutLock(h) ==
    /\ pc[h] = "lock"
    /\ dirty' = [dirty EXCEPT ![at[h]] = FALSE]
    /\ GoTo(h, "scan")
    /\ UNCHANGED <<tables, committed, owed, mvs, refreshMu, protected, record, mvRows, ver>>

\* With refreshMu held, the flag is cleared before recomputing; when another
\* refresh cleared it meanwhile, the lock is released again at once.
readableLocked(h) ==
    /\ pc[h] = "lock"
    /\ refreshMu[at[h]] = None
    /\ IF dirty[at[h]]
       THEN /\ dirty' = [dirty EXCEPT ![at[h]] = FALSE]
            /\ refreshMu' = [refreshMu EXCEPT ![at[h]] = h]
            /\ GoTo(h, "scan")
       ELSE /\ GoTo(h, "read")
            /\ UNCHANGED <<dirty, refreshMu>>
    /\ UNCHANGED <<tables, committed, owed, mvs, protected, record, mvRows, ver>>

\* recompute runs the query over the source ...
recomputeScan(h) ==
    /\ pc[h] = "scan"
    /\ "source" \in tables
    /\ ver' = [ver EXCEPT ![h] = committed]
    /\ GoTo(h, "store")
    /\ UNCHANGED server

StoreKeepsLock(h) ==
    /\ pc[h] = "store"
    /\ mvRows' = ver[h]
    /\ GoTo(h, "read")
    /\ UNCHANGED <<tables, committed, owed, mvs, dirty, refreshMu, protected, record, ver>>

\* ... and replaces the view's rows in one transaction.
recomputeStore(h) ==
    /\ pc[h] = "store"
    /\ mvRows' = ver[h]
    /\ refreshMu' = [refreshMu EXCEPT ![at[h]] = None]
    /\ GoTo(h, "read")
    /\ UNCHANGED <<tables, committed, owed, mvs, dirty, protected, record, ver>>

RefreshFailsStaysClean(h) ==
    /\ \/ pc[h] = "scan" /\ ("source" \notin tables \/ "refresh" \in Faults)
       \/ pc[h] = "store" /\ "refresh" \in Faults
    /\ refreshMu' = [refreshMu EXCEPT ![at[h]] = None]
    /\ Answer(h)
    /\ UNCHANGED <<tables, committed, owed, mvs, dirty, protected, record, mvRows>>

\* The query or the transaction failed: the flag is set again.
readableFails(h) ==
    /\ \/ pc[h] = "scan" /\ ("source" \notin tables \/ "refresh" \in Faults)
       \/ pc[h] = "store" /\ "refresh" \in Faults
    /\ dirty' = [dirty EXCEPT ![at[h]] = TRUE]
    /\ refreshMu' = [refreshMu EXCEPT ![at[h]] = None]
    /\ Answer(h)
    /\ UNCHANGED <<tables, committed, owed, mvs, protected, record, mvRows>>

\* The view's rows are read, or the creation is answered.
ReadView(h) ==
    /\ pc[h] = "read"
    /\ Answer(h)
    /\ UNCHANGED server

-----------------------------------------------------------------------------
\* The server stops at any time and starts again: a stored view whose query
\* still prepares is registered, stale; a table named after a stored view is
\* taken for a legacy shadow table and removed, unless the removal fails.
LoadMaterializedViews ==
    /\ "crash" \in Faults
    /\ \/ record # None /\ tables' = tables \ {"namesake"}
       \/ (record = None \/ "purge" \in Faults) /\ UNCHANGED tables
    /\ IF record # None /\ "source" \in tables
       THEN /\ mvs' = AnyOf(Objects)
            /\ dirty' = [o \in Objects |-> o = mvs']
            /\ protected' = [o \in Objects |-> o = mvs' /\ record]
       ELSE /\ mvs' = None
            /\ dirty' = [o \in Objects |-> FALSE]
            /\ protected' = [o \in Objects |-> FALSE]
    /\ refreshMu' = [o \in Objects |-> None]
    /\ pc' = [h \in Handlers |-> "idle"]
    /\ at' = [h \in Handlers |-> None]
    /\ ver' = [h \in Handlers |-> 0]
    /\ UNCHANGED <<committed, owed, record, mvRows>>

-----------------------------------------------------------------------------
Step(h) ==
    \/ h \notin Readers /\ CommitWrite(h)
    \/ afterCommit(h)
    \/ /\ h \in Readers
       /\ \/ Fresh # {} /\ \E b \in BOOLEAN : newMaterializedView(h, AnyOf(Fresh), b)
          \/ CreateMaterializedView(h)
          \/ CreateMaterializedViewFails(h)
          \/ materializedViewTarget(h)
          \/ readable(h)
          \/ readableLocked(h)
          \/ recomputeScan(h)
          \/ recomputeStore(h)
          \/ readableFails(h)
          \/ ReadView(h)

Next ==
    \/ \E h \in Handlers : Step(h)
    \/ ModifyColumnFamilies
    \/ \E t \in {"source", "namesake"} : CreateTable(t) \/ DeleteTable(t)
    \/ \E b \in BOOLEAN : UpdateMaterializedView(b)
    \/ DeleteMaterializedView
    \/ LoadMaterializedViews

Spec == Init /\ [][Next]_vars

\* The step of a request that waits for nothing.
Proceed(h) ==
    \/ afterCommit(h)
    \/ CreateMaterializedView(h) \/ CreateMaterializedViewFails(h)
    \/ readable(h)
    \/ recomputeScan(h) \/ recomputeStore(h) \/ readableFails(h)
    \/ ReadView(h)

\* A request once begun runs on, and a waiter gets the mutex in the end:
\* sync.Mutex hands over to a goroutine that waited for a millisecond.
Fairness ==
    /\ \A h \in Handlers : WF_vars(Proceed(h))
    /\ \A h \in Readers : SF_vars(readableLocked(h))

-----------------------------------------------------------------------------
\* Types of the server's fields, the stored rows and the handlers' locals;
\* a registered view's protection is a flag read from its stored record.
TypeOK ==
    /\ tables \subseteq {"source", "namesake"}
    /\ committed \in 0 .. MaxCommits
    /\ owed \in 0 .. committed
    /\ mvs \in Objects \cup {None}
    /\ dirty \in [Objects -> BOOLEAN]
    /\ refreshMu \in [Objects -> Handlers \cup {None}]
    /\ protected \in [Objects -> BOOLEAN]
    /\ record \in BOOLEAN \cup {None}
    /\ mvRows \in 0 .. MaxCommits
    /\ pc \in [Handlers -> Steps]
    /\ at \in [Handlers -> Objects \cup {None}]
    /\ ver \in [Handlers -> 0 .. MaxCommits]

\* The stale flag is never lost (afterCommit, readable): a registered view
\* that is not flagged, not being refreshed and not about to be flagged by a
\* writer holds every write to the source, whatever writes, refreshes, failures
\* and restarts came before; only a dropped family may still show.
UnflaggedViewIsCurrent ==
    mvs # None /\ ~ dirty[mvs] /\ refreshMu[mvs] = None
      /\ (\A h \in Handlers : pc[h] # "mark")
        => mvRows >= owed

\* The view's rows never go back to an older version of the source while the
\* view exists: two refreshes cannot overtake each other (refreshMu).
RowsNeverGoBack ==
    [][record' # None => mvRows' >= mvRows]_vars

\* Protection set by CreateMaterializedView or UpdateMaterializedView is what
\* the store holds, so a restart neither drops nor invents it.
ProtectionStored ==
    mvs # None => record = protected[mvs]

\* Every read and creation is answered: no handler waits on refreshMu forever.
RequestsAnswered ==
    \A h \in Handlers : pc[h] # "idle" ~> pc[h] = "idle"

Undisturbed ==
    [][mvs' = mvs /\ ~ LoadMaterializedViews /\ \A h \in Handlers : ~ readableFails(h)]_vars

\* Once writing has stopped and refreshes no longer fail, reading makes a view
\* that stays registered current and keeps it so.
ReadingMakesCurrent ==
    []<>(\E h \in Handlers : pc[h] = "read") /\ <>Undisturbed
        => <>[](mvs # None => mvRows >= owed)
=============================================================================
