--------------------------- MODULE TableLifecycle ---------------------------
(***************************************************************************)
(* The life of one table name in the server: CreateTable, DeleteTable,     *)
(* UndeleteTable, the tombstone purge, DeleteInstance, the requests that   *)
(* resolve a *table and use it later (MutateRow, DropRowRange, UpdateTable,*)
(* ModifyColumnFamilies, CreateAuthorizedView), failed transactions and    *)
(* restarts (bttest/table_admin.go, sql_tables.go, inmem.go).              *)
(*                                                                         *)
(* Storage id 0 is the table id itself (the live rows_t/tables_t key); t>0 *)
(* is "<table id>@deleted@<t>".  A pointer names a Go *table object.  One  *)
(* row is enough here, so rows_t[id] is the set of families with data.     *)
(* s.mu is explicit (mu); tbl.mu protects single actions and is not.       *)
(***************************************************************************)
EXTENDS Integers

CONSTANTS
    Ptrs,        \* addresses of *table objects
    Handlers,    \* concurrent requests
    Fams,        \* column family ids
    Views,       \* authorized view ids
    ProtViews,   \* the ones created with deletion protection
    Window,      \* undeleteWindow, in clock ticks
    MaxLatency,  \* no request stays in flight longer than this
    MaxTime,     \* bound on the clock
    Ops,         \* request kinds the clients send
    None

VARIABLES
    clock,
    mu,             \* holder of s.mu between two steps, or None
    tables,         \* s.tables[name]
    deletedTables,  \* s.deletedTables, by storage id
    obj,            \* heap of *table objects
    tables_t, rows_t, authorized_views_t,   \* database, by storage id
    req             \* per handler: resolved and not yet carried out

vars == <<clock, mu, tables, deletedTables, obj, tables_t, rows_t,
          authorized_views_t, req>>

Times == 0 .. MaxTime
StorageIds == Times

ASSUME LifecycleAssumption ==
    /\ MaxTime \in Nat /\ Window \in Nat /\ MaxLatency \in 0 .. Window
    /\ Times \subseteq Ptrs
    /\ None \notin Ptrs /\ None \notin Handlers
    /\ ProtViews \subseteq Views

\* tables_t.metadata and the fields of the table struct it encodes.
Meta == [fams : SUBSET Fams, prot : BOOLEAN, created : Times, del : Times]
Object == [fams : SUBSET Fams, prot : BOOLEAN, created : Times, del : Times,
           sid : StorageIds]

\* The metadata record of tables_t is never equal to None.
ASSUME NoneAssumption == None \notin Meta

encodeMetadata(t) ==
    [fams |-> t.fams, prot |-> t.prot, created |-> t.created, del |-> t.del]

decodeMetadata(m, id) ==
    [fams |-> m.fams, prot |-> m.prot, created |-> m.created, del |-> m.del,
     sid |-> id]

Idle == [op |-> "idle", ptr |-> None, at |-> 0]
DataOps == {"write", "drop", "update", "families", "view"}
Requests == {Idle} \union
            [op : DataOps \union {"delete"}, ptr : Ptrs, at : Times]

Blank == [fams |-> {}, prot |-> FALSE, created |-> 0, del |-> 0, sid |-> 0]

\* Objects something still points to.
Reachable(p) ==
    \/ p = tables
    \/ \E id \in StorageIds : deletedTables[id] = p
    \/ \E h \in Handlers : req[h].ptr = p

Init ==
    /\ clock = 0
    /\ mu = None
    /\ tables = None
    /\ deletedTables = [id \in StorageIds |-> None]
    /\ obj = [p \in Ptrs |-> Blank]
    /\ tables_t = [id \in StorageIds |-> None]
    /\ rows_t = [id \in StorageIds |-> {}]
    /\ authorized_views_t = [id \in StorageIds |-> {}]
    /\ req = [h \in Handlers |-> Idle]

\* A request is answered within MaxLatency of having resolved its table.
TimeMayPass ==
    /\ clock < MaxTime
    /\ \A h \in Handlers : req[h].op \in DataOps => clock < req[h].at + MaxLatency

Tick ==
    /\ TimeMayPass
    /\ clock' = clock + 1
    /\ UNCHANGED <<mu, tables, deletedTables, obj, tables_t, rows_t,
                   authorized_views_t, req>>

\* Save (sql_tables.go): an upsert keyed by the object's storage id.
Save(t) == tables_t' = [tables_t EXCEPT ![t.sid] = encodeMetadata(t)]

\* UPDATE rows_t SET table_id; moveTableChildren does the same for views.
Moved(f, from, to) ==
    IF from = to THEN f
    ELSE [f EXCEPT ![to] = @ \union f[from], ![from] = {}]

\* Rename: rows and record move to a new storage id, then Save under it.
Rename(t, new) ==
    /\ rows_t' = Moved(rows_t, t.sid, new)
    /\ tables_t' = [tables_t EXCEPT ![t.sid] = None,
                                    ![new] = encodeMetadata(t)]

\* Mutant: the views stay behind under the table name.
childrenStay(from, to) == authorized_views_t' = authorized_views_t

moveTableChildren(from, to) ==
    authorized_views_t' = Moved(authorized_views_t, from, to)

newTable(F, b) ==
    [fams |-> F, prot |-> b, created |-> clock, del |-> 0, sid |-> 0]

\* Neither the rows nor the views of an earlier table are looked at.
CreateTable(F, b) ==
    /\ mu = None
    /\ tables = None
    /\ \E p \in Ptrs : ~ Reachable(p)
    /\ LET p == CHOOSE q \in Ptrs : ~ Reachable(q)
           t == newTable(F, b)
       IN  /\ Save(t)
           /\ obj' = [obj EXCEPT ![p] = t]
           /\ tables' = p
    /\ UNCHANGED <<clock, mu, deletedTables, rows_t, authorized_views_t, req>>

\* s.mu is held only to look the table up; the pointer outlives the lock.
localRequireTable(h, op) ==
    /\ op \in Ops \intersect DataOps
    /\ req[h] = Idle
    /\ mu = None
    /\ tables # None
    /\ req' = [req EXCEPT ![h] = [op |-> op, ptr |-> tables, at |-> clock]]
    /\ UNCHANGED <<clock, mu, tables, deletedTables, obj, tables_t, rows_t,
                   authorized_views_t>>

Answer(h) == req' = [req EXCEPT ![h] = Idle]

\* Unknown family, failed validation or failed transaction.
RequestFails(h) ==
    /\ req[h].op \in DataOps
    /\ Answer(h)
    /\ UNCHANGED <<clock, mu, tables, deletedTables, obj, tables_t, rows_t,
                   authorized_views_t>>

\* SetCell or DeleteFromFamily on a family of the table, under tbl.mu.
MutateRow(h) ==
    /\ req[h].op = "write"
    /\ LET t == obj[req[h].ptr]
       IN  \E f \in t.fams :
             rows_t' \in {[rows_t EXCEPT ![t.sid] = @ \union {f}],
                          [rows_t EXCEPT ![t.sid] = @ \ {f}]}
    /\ Answer(h)
    /\ UNCHANGED <<clock, mu, tables, deletedTables, obj, tables_t,
                   authorized_views_t>>

DropRowRange(h) ==
    /\ req[h].op = "drop"
    /\ rows_t' = [rows_t EXCEPT ![obj[req[h].ptr].sid] = {}]
    /\ Answer(h)
    /\ UNCHANGED <<clock, mu, tables, deletedTables, obj, tables_t,
                   authorized_views_t>>

\* The candidate is saved first and copied into the object afterwards.
UpdateTable(h) ==
    /\ req[h].op = "update"
    /\ \E b \in BOOLEAN :
         LET next == [obj[req[h].ptr] EXCEPT !.prot = b]
         IN  /\ Save(next)
             /\ obj' = [obj EXCEPT ![req[h].ptr] = next]
    /\ Answer(h)
    /\ UNCHANGED <<clock, mu, tables, deletedTables, rows_t,
                   authorized_views_t>>

\* Mutant: dropFamilyData is not called.
ModifyLeavesFamilyData(h) ==
    /\ req[h].op = "families"
    /\ LET t == obj[req[h].ptr]
       IN  \E D \in SUBSET t.fams : \E C \in SUBSET (Fams \ (t.fams \ D)) :
             LET candidate == [t EXCEPT !.fams = (t.fams \ D) \union C]
             IN  /\ D \union C # {}
                 /\ Save(candidate)
                 /\ obj' = [obj EXCEPT ![req[h].ptr] = candidate]
    /\ Answer(h)
    /\ UNCHANGED <<clock, mu, tables, deletedTables, rows_t, authorized_views_t>>

\* Families D dropped and C created by one request, with D's data.
ModifyColumnFamilies(h) ==
    /\ req[h].op = "families"
    /\ LET t == obj[req[h].ptr]
       IN  \E D \in SUBSET t.fams : \E C \in SUBSET (Fams \ (t.fams \ D)) :
             LET candidate == [t EXCEPT !.fams = (t.fams \ D) \union C]
             IN  /\ D \union C # {}
                 /\ Save(candidate)
                 /\ rows_t' = [rows_t EXCEPT ![t.sid] = @ \ D]
                 /\ obj' = [obj EXCEPT ![req[h].ptr] = candidate]
    /\ Answer(h)
    /\ UNCHANGED <<clock, mu, tables, deletedTables, authorized_views_t>>

\* Stored under the table NAME; the table is not looked up again.
CreateAuthorizedView(h) ==
    /\ req[h].op = "view"
    /\ mu = None
    /\ \E v \in Views \ authorized_views_t[0] :
         authorized_views_t' = [authorized_views_t EXCEPT ![0] = @ \union {v}]
    /\ Answer(h)
    /\ UNCHANGED <<clock, mu, tables, deletedTables, obj, tables_t, rows_t>>

DeleteAuthorizedView(v) ==
    /\ mu = None
    /\ v \in authorized_views_t[0] \ ProtViews
    /\ authorized_views_t' = [authorized_views_t EXCEPT ![0] = @ \ {v}]
    /\ UNCHANGED <<clock, mu, tables, deletedTables, obj, tables_t, rows_t,
                   req>>

\* The materialized views that read the table are in MaterializedView.
checkTableDeletableLocked(p) ==
    /\ ~ obj[p].prot
    /\ authorized_views_t[0] \intersect ProtViews = {}

\* First half of DeleteTable: s.mu is taken and kept, tbl.mu is released
\* again after the protection flag has been read.
DeleteTableCheck(h) ==
    /\ "delete" \in Ops
    /\ req[h] = Idle
    /\ mu = None
    /\ tables # None
    /\ checkTableDeletableLocked(tables)
    /\ mu' = h
    /\ req' = [req EXCEPT ![h] = [op |-> "delete", ptr |-> tables, at |-> clock]]
    /\ UNCHANGED <<clock, tables, deletedTables, obj, tables_t, rows_t,
                   authorized_views_t>>

\* Second half, under both locks; deletion times are distinct.
DeleteTableCommit(h) ==
    /\ req[h].op = "delete"
    /\ TimeMayPass
    /\ LET p  == req[h].ptr
           dt == clock + 1
           t  == [obj[p] EXCEPT !.del = dt]
       IN  /\ Rename(t, dt)
           /\ moveTableChildren(0, dt)
           /\ obj' = [obj EXCEPT ![p] = [t EXCEPT !.sid = dt]]
           /\ deletedTables' = [deletedTables EXCEPT ![dt] = p]
           /\ clock' = dt
    /\ tables' = None
    /\ mu' = None
    /\ Answer(h)

\* Mutant: the object keeps the deletion time of the failed transaction.
DeleteTableFailsKeepsTime(h) ==
    /\ req[h].op = "delete"
    /\ clock < MaxTime
    /\ obj' = [obj EXCEPT ![req[h].ptr].del = clock + 1]
    /\ mu' = None
    /\ Answer(h)
    /\ UNCHANGED <<clock, tables, deletedTables, tables_t, rows_t,
                   authorized_views_t>>

\* The transaction fails: deleteTime and storageId are put back.
DeleteTableFails(h) ==
    /\ req[h].op = "delete"
    /\ obj' = [obj EXCEPT ![req[h].ptr].del = 0, ![req[h].ptr].sid = 0]
    /\ mu' = None
    /\ Answer(h)
    /\ UNCHANGED <<clock, tables, deletedTables, tables_t, rows_t,
                   authorized_views_t>>

Tombstones == {id \in StorageIds : deletedTables[id] # None}

\* Mutant: any tombstone inside the window will do.
IsAnyTombstone(id) ==
    /\ id \in Tombstones
    /\ clock - obj[deletedTables[id]].del =< Window

\* The deletedTables entry UndeleteTable picks, by the objects' deleteTime.
IsLatest(id) ==
    /\ id \in Tombstones
    /\ \A i \in Tombstones :
         obj[deletedTables[i]].del =< obj[deletedTables[id]].del
    /\ clock - obj[deletedTables[id]].del =< Window

UndeleteTable ==
    /\ mu = None
    /\ tables = None
    /\ \E id \in StorageIds :
         /\ IsLatest(id)
         /\ LET p == deletedTables[id]
                from == obj[p].sid
                t == [obj[p] EXCEPT !.del = 0, !.prot = TRUE]
            IN  /\ moveTableChildren(from, 0)
                /\ Rename(t, 0)
                /\ obj' = [obj EXCEPT ![p] = [t EXCEPT !.sid = 0]]
                /\ deletedTables' = [deletedTables EXCEPT ![from] = None]
                /\ tables' = p
    /\ UNCHANGED <<clock, mu, req>>

\* Rename has already switched storageId when its Save or the COMMIT fails;
\* only deleteTime and deletionProtection are put back, so the tombstone now
\* points at the storage of the live table.
UndeleteTableFailsLate ==
    /\ mu = None
    /\ tables = None
    /\ \E id \in StorageIds :
         /\ IsLatest(id)
         /\ obj' = [obj EXCEPT ![deletedTables[id]].sid = 0]
    /\ UNCHANGED <<clock, mu, tables, deletedTables, tables_t, rows_t,
                   authorized_views_t, req>>

Expired == {id \in Tombstones : clock - obj[deletedTables[id]].del > Window}

\* Mutant: the map entry is deleted first, the storage last.
PurgeEntryFirst(Done, NoViews, Gone) ==
    LET ids == {obj[deletedTables[id]].sid : id \in Done}
    IN  /\ mu = None
        /\ rows_t' = [id \in StorageIds |-> IF id \in ids THEN {} ELSE rows_t[id]]
        /\ tables_t' = [id \in StorageIds |-> IF id \in ids THEN None ELSE tables_t[id]]
        /\ authorized_views_t' = [id \in StorageIds |->
             IF id \in NoViews THEN {} ELSE authorized_views_t[id]]
        /\ deletedTables' = [id \in StorageIds |->
             IF id \in Gone THEN None ELSE deletedTables[id]]
        /\ UNCHANGED <<clock, mu, tables, obj, req>>

\* Storage of the tombstones in Gone, then their views, then the map entry:
\* storage is found through the object, views and entry through the map key.
PurgeTombstones(Done, NoViews, Gone) ==
    LET ids == {obj[deletedTables[id]].sid : id \in Gone}
    IN  /\ mu = None
        /\ rows_t' = [id \in StorageIds |-> IF id \in ids THEN {} ELSE rows_t[id]]
        /\ tables_t' = [id \in StorageIds |-> IF id \in ids THEN None ELSE tables_t[id]]
        /\ authorized_views_t' = [id \in StorageIds |->
             IF id \in NoViews THEN {} ELSE authorized_views_t[id]]
        /\ deletedTables' = [id \in StorageIds |->
             IF id \in Done THEN None ELSE deletedTables[id]]
        /\ UNCHANGED <<clock, mu, tables, obj, req>>

purgeExpiredTombstones ==
    /\ Expired # {}
    /\ PurgeTombstones(Expired, Expired, Expired)

\* The pass stops at its first error, perhaps with the storage of tombstone
\* e gone and its views or its map entry left for the next pass.
PurgeStopsEarly ==
    \E Done \in SUBSET Expired : \E e \in Expired \ Done :
        \/ Done # {} /\ PurgeTombstones(Done, Done, Done)
        \/ PurgeTombstones(Done, Done, Done \union {e})
        \/ PurgeTombstones(Done, Done \union {e}, Done \union {e})

\* No tbl.mu is taken: only the protection check reads it.
DeleteInstance(h) ==
    /\ "deleteInstance" \in Ops
    /\ req[h] = Idle
    /\ mu = None
    /\ tables # None => checkTableDeletableLocked(tables)
    /\ LET ids == {obj[p].sid : p \in ({tables} \union
                     {deletedTables[id] : id \in StorageIds}) \ {None}}
       IN  /\ rows_t' = [id \in StorageIds |-> IF id \in ids THEN {} ELSE rows_t[id]]
           /\ tables_t' = [id \in StorageIds |-> IF id \in ids THEN None ELSE tables_t[id]]
    /\ authorized_views_t' = [id \in StorageIds |-> {}]
    /\ tables' = None
    /\ deletedTables' = [id \in StorageIds |-> None]
    /\ UNCHANGED <<clock, mu, obj, req>>

\* The process dies between two steps and loadTables rebuilds the maps from
\* tables_t; the object loaded from record id gets address id.
Restart ==
    LET Recs == {id \in StorageIds : tables_t[id] # None}
        Live == {id \in Recs : tables_t[id].del = 0}
    IN  /\ obj' = [p \in Ptrs |-> IF p \in Recs THEN decodeMetadata(tables_t[p], p)
                                  ELSE Blank]
        /\ tables' = IF Live = {} THEN None ELSE CHOOSE id \in Live : TRUE
        /\ deletedTables' = [id \in StorageIds |->
             IF id \in Recs \ Live THEN id ELSE None]
        /\ mu' = None
        /\ req' = [h \in Handlers |-> Idle]
        /\ UNCHANGED <<clock, tables_t, rows_t, authorized_views_t>>

Serve(h) ==
    \/ \E op \in DataOps : localRequireTable(h, op)
    \/ RequestFails(h)
    \/ MutateRow(h)
    \/ DropRowRange(h)
    \/ UpdateTable(h)
    \/ ModifyColumnFamilies(h)
    \/ CreateAuthorizedView(h)
    \/ DeleteTableCheck(h)
    \/ DeleteTableCommit(h)
    \/ DeleteTableFails(h)
    \/ DeleteInstance(h)

Next ==
    \/ Tick
    \/ \E F \in SUBSET Fams, b \in BOOLEAN : CreateTable(F, b)
    \/ \E h \in Handlers : Serve(h)
    \/ \E v \in Views : DeleteAuthorizedView(v)
    \/ UndeleteTable
    \/ purgeExpiredTombstones
    \/ PurgeStopsEarly
    \/ Restart

Spec == Init /\ [][Next]_vars

\* The same with storage errors late in UndeleteTable.
FaultySpec == Init /\ [][Next \/ UndeleteTableFailsLate]_vars

\* Handlers run to their answer, and Go's mutex does not starve the
\* maintenance goroutine, whose pass eventually meets no storage error.
FairSpec ==
    /\ Spec
    /\ \A h \in Handlers :
         WF_vars(RequestFails(h) \/ DeleteTableCommit(h) \/ DeleteTableFails(h))
    /\ SF_vars(purgeExpiredTombstones)

-----------------------------------------------------------------------------
\* Types of the server's maps, the table objects, the database tables and the
\* requests in flight.
TypeOK ==
    /\ clock \in Times
    /\ mu \in Handlers \union {None}
    /\ tables \in Ptrs \union {None}
    /\ deletedTables \in [StorageIds -> Ptrs \union {None}]
    /\ obj \in [Ptrs -> Object]
    /\ tables_t \in [StorageIds -> Meta \union {None}]
    /\ rows_t \in [StorageIds -> SUBSET Fams]
    /\ authorized_views_t \in [StorageIds -> SUBSET Views]
    /\ req \in [Handlers -> Requests]

\* The in-memory maps are what loadTables would rebuild from tables_t: a live
\* table agrees with record 0, a tombstone with the record of its own storage
\* id, and no record is without an object.  Only a tombstone past the undelete
\* window may outlive its record (a purge pass that stopped early).  A restart
\* at any point therefore changes nothing a client can see.
MemoryMatchesStore ==
    /\ IF tables = None
       THEN tables_t[0] = None
       ELSE /\ obj[tables].sid = 0
            /\ tables_t[0] = encodeMetadata(obj[tables])
    /\ \A id \in StorageIds \ {0} :
         IF deletedTables[id] = None
         THEN tables_t[id] = None
         ELSE LET t == obj[deletedTables[id]]
              IN  /\ t.sid = id
                  /\ t.del = id
                  /\ \/ tables_t[id] = encodeMetadata(t)
                     \/ tables_t[id] = None /\ clock - id > Window

\* Stored cells only ever belong to families the stored schema knows, so a
\* dropped and re-created family starts empty whatever writers, deletions and
\* restarts came in between (ModifyColumnFamilies, dropFamilyData).
RowsInFamilies ==
    \A id \in StorageIds :
        rows_t[id] # {} => tables_t[id] # None /\ rows_t[id] \subseteq tables_t[id].fams

\* What makes the two invariants above inductive: ids above the clock and the
\* live id of a deleted table are blank, and the pointer a handler holds is
\* the live table or a tombstone that was made after the handler resolved it
\* and that no purge can have touched.
Blanks ==
    /\ deletedTables[0] = None
    /\ tables = None => rows_t[0] = {} /\ authorized_views_t[0] = {}
    /\ tables # None => obj[tables].del = 0 /\ obj[tables].created =< clock
    /\ \A id \in StorageIds :
         /\ id > clock => /\ deletedTables[id] = None
                          /\ rows_t[id] = {}
                          /\ authorized_views_t[id] = {}
         /\ deletedTables[id] # None => obj[deletedTables[id]].created < id

Handles(h) ==
    LET p == req[h].ptr
    IN  /\ req[h].op = "delete" => /\ mu = h
                                   /\ tables # None
                                   /\ p = tables
        /\ req[h].op \in DataOps =>
             /\ req[h].op \in Ops
             /\ req[h].at =< clock
             /\ clock =< req[h].at + MaxLatency
             /\ obj[p].created =< req[h].at
             /\ \/ p = tables
                \/ /\ obj[p].sid > req[h].at
                   /\ deletedTables[obj[p].sid] = p

IInv ==
    /\ TypeOK
    /\ MemoryMatchesStore
    /\ RowsInFamilies
    /\ Blanks
    /\ \A h \in Handlers : Handles(h)
    /\ mu # None => req[mu].op = "delete"

\* The table behind an object, read through its storage id.
TableOf(p) ==
    [fams |-> obj[p].fams, rows |-> rows_t[obj[p].sid],
     views |-> authorized_views_t[obj[p].sid],
     prot |-> obj[p].prot, created |-> obj[p].created]

liveBar == IF tables = None THEN None ELSE TableOf(tables)

\* A tombstone whose record is gone has been purged, whatever memory says.
tombsBar ==
    [t \in Times |-> IF deletedTables[t] # None /\ tables_t[t] # None
                     THEN TableOf(deletedTables[t]) ELSE None]

pendingBar ==
    [h \in Handlers |-> IF req[h].op \in DataOps
                        THEN [op |-> req[h].op, at |-> req[h].at]
                        ELSE [op |-> "idle", at |-> 0]]

Service == INSTANCE TableService
             WITH live <- liveBar, tombs <- tombsBar, pending <- pendingBar

ASSUME NoTableAssumption == None \notin Service!Table

\* DeleteTable, UndeleteTable, the purge, failed transactions and restarts
\* never lose, duplicate or mix the rows, views and metadata of two tables of
\* the same name: the server implements TableService.
ImplementsService == Service!Spec

\* purgeExpiredTombstones: every tombstone past the window is purged in the
\* end, even when passes fail halfway or the server restarts.
ExpiredTombstonesPurged ==
    \A id \in StorageIds :
        (id \in Expired) ~> (deletedTables[id] = None /\ tables_t[id] = None)

\* "UndeleteTable within 7 days restores the table, its authorized views and
\* schema bundles": the table comes back with the rows and views its tombstone
\* was kept with.  It fails under FaultySpec: after an UndeleteTable that failed
\* late the next one looks for the rows where the live table would have them,
\* and answers with an empty table.
UndeleteRestores ==
    [][UndeleteTable => \A id \in StorageIds : IsLatest(id) =>
         /\ rows_t'[0] = rows_t[id]
         /\ authorized_views_t'[0] = authorized_views_t[id]]_vars
=============================================================================
