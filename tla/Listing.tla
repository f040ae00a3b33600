------------------------------ MODULE Listing -------------------------------
(* What ListBackups and ListOperations return (localcloud_backups.go,        *)
(* operations.go).                                                           *)
EXTENDS Keys, Operations

-----------------------------------------------------------------------------
(* Backups: [name, cluster, start, expire, table]; listed by name, kept by   *)
(* the filter and sorted by the field asked for, newest first if none is.    *)
(* The table is a text, a sequence of bytes.                                 *)

AnyCluster == 0

\* The parent is a cluster, or "-" for all clusters of the instance.
under(b, parent) == parent \in {AnyCluster, b.cluster}

containsText(text, part) ==
  \E i \in 0..(Len(text) - Len(part)) : SubSeq(text, i + 1, i + Len(part)) = part

\* A filter term is [field, op, value]; all must hold.
termHolds(b, t) ==
  LET got == b[t.field]
      text == t.field = "table"
      below == IF text THEN less(got, t.value) ELSE got < t.value
  IN CASE t.op = ":" -> IF text THEN containsText(got, t.value) ELSE got = t.value
       [] t.op = "=" -> got = t.value
       [] t.op = "!=" -> got # t.value
       [] t.op = "<" -> below
       [] t.op = "<=" -> below \/ got = t.value
       [] t.op = ">" -> ~below /\ got # t.value
       [] t.op = ">=" -> ~below

backupMatches(b, filter) == \A i \in DOMAIN filter : termHolds(b, filter[i])

orderBackups(backups, order) ==
  LET field == IF order = <<>> THEN "start" ELSE order[1]
      desc == IF order = <<>> THEN TRUE ELSE order[2] = "desc"
  IN stableSort(backups, LAMBDA a, b : IF desc THEN b[field] < a[field] ELSE a[field] < b[field])

listedBackups(all, parent, now, filter, order) ==
  orderBackups(SelectSeq(all, LAMBDA b : under(b, parent) /\ now <= b.expire /\ backupMatches(b, filter)), order)

\* all: the stored backups in the order of their names.
ListBackups(all, parent, now, filter, order, size, token) ==
  paginateOrdered(listedBackups(all, parent, now, filter, order), IF size < 0 THEN 0 ELSE size, token)

-----------------------------------------------------------------------------
ListOperations(o, wantDone, size, token) ==
  paginate(IF wantDone = "false" THEN {} ELSE DOMAIN o.stored, size, token)
=============================================================================
