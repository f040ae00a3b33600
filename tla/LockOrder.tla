----------------------------- MODULE LockOrder ------------------------------
(* Which locks the handlers hold while they wait for another one: the server *)
(* lock s.mu, one tbl.mu per table (write and read side), one refreshMu per  *)
(* materialized view, and the single connection to the database, which a     *)
(* statement holds while it runs and withTx holds until it commits.          *)
(*                                                                           *)
(* A handler is the path of lock stacks it passes through; its first entry   *)
(* is what it holds now, its last one is empty.  All of the code releases    *)
(* in reverse order, so a step pushes one lock or pops one.  The lock of a   *)
(* view's own storage table is left out: it is only ever read-locked.        *)
EXTENDS Naturals, Sequences

CONSTANTS Handlers, Tables

VARIABLE at

Server == <<"server", "">>
Conn == <<"conn", "">>
Writing(x) == <<"write", x>>
Reading(x) == <<"read", x>>
Refresh(x) == <<"refresh", x>>

\* Two holders of these locks exclude each other; only readers share.
excludes(k, l) ==
  /\ k[2] = l[2]
  /\ \/ k[1] = l[1] /\ k[1] # "read"
     \/ {k[1], l[1]} = {"read", "write"}

-----------------------------------------------------------------------------
\* Paths: holding nothing throughout; holding l around a body.
passing == << <<>> >>
holding(l, body) == passing \o [i \in DOMAIN body |-> <<l>> \o body[i]] \o passing

query == holding(Conn, passing)
withTx == holding(Conn, passing)
complete == query

localRequireInstance == holding(Server, passing)
localRequireTable == holding(Server, passing)
resolveAppProfile == holding(Server, passing)
authorizedViewTarget == localRequireTable \o query
materializedViewTarget == holding(Server, passing)
tableView(x) == holding(Reading(x), passing)
afterCommit == holding(Server, passing)

\* The catalog the query engine resolves names and scans tables with.
LookupTable(x) == holding(Server, passing) \o holding(Reading(x), passing)
LookupView == query \o holding(Server, passing)
Scan(x) == holding(Server, passing) \o holding(Reading(x), query)
validateViewQuery(x) == LookupTable(x) \o LookupView

recompute(x) == Scan(x) \o withTx
readable(x) == holding(Refresh(x), recompute(x))

-----------------------------------------------------------------------------
\* The handlers of the data API on table x.
MutateRow(x) ==
  localRequireTable \o resolveAppProfile
    \o holding(Writing(x), query \o query \o withTx) \o afterCommit

CheckAndMutateRow(x) ==
  authorizedViewTarget \o resolveAppProfile
    \o holding(Writing(x), query \o withTx) \o afterCommit

ReadRows(x) == localRequireTable \o resolveAppProfile \o holding(Reading(x), query)

\* ReadRows of a materialized view with source x.
ReadViewRows(x) == materializedViewTarget \o resolveAppProfile \o readable(x) \o query

ExecuteQuery(x) ==
  localRequireInstance \o resolveAppProfile \o LookupTable(x) \o LookupView \o Scan(x)

ReadChangeStream(x) ==
  localRequireTable \o resolveAppProfile \o holding(Reading(x), passing)
    \o holding(Reading(x), passing) \o query \o holding(Server, passing) \o query

\* The handlers of the admin API.
CreateTable(x) == localRequireInstance \o holding(Server, query \o tableView(x))

GetTable(x) == holding(Server, tableView(x))

UpdateTableUnderLock(x) ==
  localRequireTable \o holding(Writing(x), query \o query \o holding(Server, passing)) \o complete

UpdateTable(x) ==
  localRequireTable \o holding(Writing(x), query) \o query
    \o holding(Server, tableView(x)) \o complete

checkTableDeletableLocked(x) == holding(Reading(x), passing) \o query

DeleteTable(x) ==
  holding(Server, checkTableDeletableLocked(x) \o holding(Writing(x), withTx))

UndeleteTable(x) ==
  holding(Server, holding(Writing(x), withTx) \o tableView(x) \o complete)

ModifyColumnFamilies(x) == localRequireTable \o holding(Writing(x), withTx)

DropRowRange(x) == localRequireTable \o holding(Writing(x), withTx) \o afterCommit

CreateBackup(x) ==
  holding(Server, query \o query \o holding(Reading(x), withTx \o complete))

CopyBackup == holding(Server, query \o query \o withTx \o complete)

DeleteInstance(x) ==
  holding(Server, checkTableDeletableLocked(x) \o query \o query \o withTx)

RestoreTable(x) ==
  localRequireInstance
    \o holding(Server, query \o withTx \o complete \o tableView(x) \o complete)

CreateMaterializedView(x) ==
  localRequireInstance \o LookupTable(x) \o holding(Server, query) \o readable(x) \o complete

UpdateMaterializedView == holding(Server, query \o complete)
DeleteMaterializedView == holding(Server, withTx)

UpdateLogicalView(x) ==
  holding(Server, query) \o validateViewQuery(x) \o holding(Server, query \o complete)

runMaintenance(x) ==
  holding(Server, passing) \o holding(Reading(x), passing) \o query
    \o query \o withTx \o holding(Server, withTx \o query \o query)

Requests ==
  {CopyBackup, UpdateMaterializedView, DeleteMaterializedView} \cup
  UNION {{MutateRow(x), CheckAndMutateRow(x), ReadRows(x), ReadViewRows(x),
          ExecuteQuery(x), ReadChangeStream(x), DeleteInstance(x), CreateTable(x), GetTable(x),
          UpdateTable(x), DeleteTable(x), UndeleteTable(x),
          ModifyColumnFamilies(x), DropRowRange(x), CreateBackup(x), RestoreTable(x),
          CreateMaterializedView(x), UpdateLogicalView(x), runMaintenance(x)} : x \in Tables}

-----------------------------------------------------------------------------
AllIdle == [h \in Handlers |-> passing]
Init == at = AllIdle

busy(h) == Len(at[h]) > 1

acquires(h) == busy(h) /\ Len(at[h][2]) > Len(at[h][1])
wanted(h) == at[h][2][Len(at[h][2])]
free(l) == \A g \in Handlers : \A i \in DOMAIN at[g][1] : ~excludes(at[g][1][i], l)

advance(h) == at' = [at EXCEPT ![h] = Tail(@)]

Start(h) == ~busy(h) /\ \E p \in Requests : at' = [at EXCEPT ![h] = p]

Acquire(h) == acquires(h) /\ free(wanted(h)) /\ advance(h)

\* An unlock, or the way from one call to the next.
Release(h) == busy(h) /\ ~acquires(h) /\ advance(h)

\* An early return: whatever is held is released in reverse order.
unwound(stack) == [i \in 1..(Len(stack) + 1) |-> SubSeq(stack, 1, Len(stack) + 1 - i)]

Return(h) == busy(h) /\ at' = [at EXCEPT ![h] = unwound(@[1])]

Next == \E h \in Handlers : Start(h) \/ Acquire(h) \/ Release(h) \/ Return(h)
Spec == Init /\ [][Next]_at

-----------------------------------------------------------------------------
\* A handler that goes on whatever the others do next.  A writer that waits
\* for tbl.mu keeps new readers out (sync.RWMutex), so a reader counts only
\* when no handler is about to take the write side.
proceeds(h) ==
  /\ busy(h)
  /\ acquires(h) =>
       /\ free(wanted(h))
       /\ wanted(h)[1] = "read" =>
            \A g \in Handlers : acquires(g) => wanted(g) # Writing(wanted(h)[2])

\* However the requests interleave, as long as one is being served one of them
\* goes on: the handlers take s.mu, tbl.mu and the only connection in an order
\* that never closes a circle, also while a view is refreshed (withTx warns
\* that a query inside a transaction "would wait for the transaction forever").
NoDeadlock == (\E h \in Handlers : busy(h)) => \E h \in Handlers : proceeds(h)
=============================================================================
