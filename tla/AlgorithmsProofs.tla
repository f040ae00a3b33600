-------------------------- MODULE AlgorithmsProofs --------------------------
(* Theorems about the lock order, about keys and their ranges, about writes  *)
(* through a view and about session streams, which the run algorithms checks *)
(* on small instances: for any number of handlers and tables, keys of any    *)
(* length over bytes of any width, any view and any sequence of mutations or *)
(* requests.                                                                 *)
EXTENDS LockOrder, ViewPolicy, SequenceTheorems, FiniteSetTheorems, WellFoundedInduction, TLAPS

-----------------------------------------------------------------------------
(* No interleaving of any number of handlers deadlocks.  The locks have an   *)
(* order, a view's refreshMu before s.mu before tbl.mu before the            *)
(* connection; every handler takes them upwards, and so the holder of a lock *)
(* of the highest level held never waits.                                    *)

Locks == {Server, Conn} \cup {Writing(x) : x \in Tables}
           \cup {Reading(x) : x \in Tables} \cup {Refresh(x) : x \in Tables}

level(l) == CASE l[1] = "refresh" -> 1 [] l[1] = "server" -> 2
              [] l[1] = "conn" -> 4 [] OTHER -> 3

\* The locks of a stack are taken upwards, all above level n.
Rising(stack, n) ==
  \A i \in 1..Len(stack) :
    level(stack[i]) > n /\ \A j \in 1..(i - 1) : level(stack[j]) < level(stack[i])

\* A stack that grows grows by one lock.
Linked(a, b) ==
  Len(b) > Len(a) => Len(b) = Len(a) + 1 /\ \A j \in 1..Len(a) : b[j] = a[j]

\* What is left of a handler: it ends with nothing held.
Walk(p, n) ==
  /\ p \in Seq(Seq(Locks))
  /\ Len(p) >= 1
  /\ p[Len(p)] = <<>>
  /\ \A i \in 1..Len(p) : Rising(p[i], n)
  /\ \A i \in 1..(Len(p) - 1) : Linked(p[i], p[i + 1])

Path(p, n) == Walk(p, n) /\ p[1] = <<>>

IInv == DOMAIN at = Handlers /\ at = [h \in Handlers |-> at[h]] /\ \A h \in Handlers : Walk(at[h], 0)

-----------------------------------------------------------------------------
\* The levels of the four kinds of lock.
LEMMA LevelValues ==
  /\ level(Server) = 2 /\ level(Conn) = 4
  /\ \A x : level(Writing(x)) = 3 /\ level(Reading(x)) = 3 /\ level(Refresh(x)) = 1
BY DEF level, Server, Conn, Writing, Reading, Refresh

\* A lock has a level from 1 to 4.
LEMMA LevelRange == \A l \in Locks : level(l) \in 1..4
BY LevelValues DEF Locks

\* Holding nothing is a path.
LEMMA PassingPath == ASSUME NEW n \in Nat PROVE Path(passing, n)
<1>1. passing \in Seq(Seq(Locks)) /\ Len(passing) = 1 /\ passing[1] = <<>>
  BY DEF passing
<1>2. QED
  BY <1>1 DEF Path, Walk, Rising, Linked

\* Two calls one after the other.
LEMMA ConcatPath ==
  ASSUME NEW n \in Nat, NEW p, NEW q, Path(p, n), Path(q, n)
  PROVE  Path(p \o q, n)
<1> DEFINE r == p \o q
<1>1. p \in Seq(Seq(Locks)) /\ q \in Seq(Seq(Locks)) /\ Len(p) \in Nat /\ Len(q) \in Nat
      /\ Len(p) >= 1 /\ Len(q) >= 1
  <2>1. p \in Seq(Seq(Locks)) /\ q \in Seq(Seq(Locks)) /\ Len(p) >= 1 /\ Len(q) >= 1
    BY ZenonT(30) DEF Path, Walk
  <2> QED
    BY <2>1
<1>2. r \in Seq(Seq(Locks)) /\ Len(r) = Len(p) + Len(q)
      /\ \A i \in 1..Len(r) : r[i] = IF i <= Len(p) THEN p[i] ELSE q[i - Len(p)]
  BY <1>1, ConcatProperties
<1> HIDE DEF r
<1>n. Len(p) \in Nat /\ Len(q) \in Nat /\ Len(p) >= 1 /\ Len(q) >= 1 /\ Len(r) = Len(p) + Len(q)
  BY <1>1, <1>2
<1>p. /\ p[1] = <<>> /\ p[Len(p)] = <<>>
      /\ \A i \in 1..Len(p) : Rising(p[i], n)
      /\ \A i \in 1..(Len(p) - 1) : Linked(p[i], p[i + 1])
  BY DEF Path, Walk
<1>q. /\ q[1] = <<>> /\ q[Len(q)] = <<>>
      /\ \A i \in 1..Len(q) : Rising(q[i], n)
      /\ \A i \in 1..(Len(q) - 1) : Linked(q[i], q[i + 1])
  BY DEF Path, Walk
<1>l. \A i \in 1..Len(p) : r[i] = p[i]
  <2> TAKE i \in 1..Len(p)
  <2>1. i \in 1..Len(r) /\ i <= Len(p)
    BY <1>n
  <2> QED
    BY <1>2, <2>1, ZenonT(30)
<1>r. \A i \in 1..Len(q) : r[Len(p) + i] = q[i]
  <2> SUFFICES ASSUME NEW i \in 1..Len(q) PROVE r[Len(p) + i] = q[i]
    OBVIOUS
  <2>1. Len(p) + i \in 1..Len(r) /\ ~(Len(p) + i <= Len(p)) /\ (Len(p) + i) - Len(p) = i
    BY <1>n
  <2>2. QED
    BY <1>2, <2>1, ZenonT(30)
<1>3. r[1] = <<>> /\ r[Len(r)] = <<>>
  <2>1. 1 \in 1..Len(p) /\ Len(q) \in 1..Len(q)
    BY <1>1
  <2>2. r[1] = p[1] /\ r[Len(p) + Len(q)] = q[Len(q)]
    BY <2>1, <1>l, <1>r
  <2>3. QED
    BY <2>2, <1>2, <1>p, <1>q
<1>4. ASSUME NEW i \in 1..Len(r) PROVE Rising(r[i], n)
  <2>1. CASE i \in 1..Len(p)
    BY <1>l, <1>p, <2>1
  <2>2. CASE i \notin 1..Len(p)
    <3>1. i - Len(p) \in 1..Len(q) /\ i = Len(p) + (i - Len(p))
      BY <1>1, <1>2, <2>2
    <3>2. PICK k \in 1..Len(q) : i = Len(p) + k
      BY <3>1, ZenonT(30)
    <3>3. r[i] = q[k]
      BY <1>r, <3>2
    <3>4. QED
      BY <3>3, <1>q
  <2>3. QED
    BY <2>1, <2>2
<1>5. ASSUME NEW i \in 1..(Len(r) - 1) PROVE Linked(r[i], r[i + 1])
  <2>1. CASE i < Len(p)
    <3>1. i \in 1..(Len(p) - 1) /\ i \in 1..Len(p) /\ i + 1 \in 1..Len(p)
      BY <1>n, <2>1
    <3>2. QED
      BY <3>1, <1>l, <1>p
  <2>2. CASE i = Len(p)
    <3>1. 1 \in 1..Len(q) /\ i \in 1..Len(p)
      BY <1>n, <2>2
    <3>2. r[Len(p) + 1] = q[1] /\ r[i] = p[i]
      BY <3>1, <1>l, <1>r
    <3>4. r[i + 1] = <<>> /\ r[i] = <<>>
      BY <3>2, <2>2, <1>p, <1>q
    <3>3. QED
      BY <3>4 DEF Linked
  <2>3. CASE i > Len(p)
    <3>1. i - Len(p) \in 1..(Len(q) - 1) /\ i = Len(p) + (i - Len(p))
      BY <1>n, <2>3
    <3>2. PICK k \in 1..(Len(q) - 1) : i = Len(p) + k
      BY <3>1
    <3>3. k \in 1..Len(q) /\ k + 1 \in 1..Len(q) /\ i + 1 = Len(p) + (k + 1)
      BY <1>n, <3>2
    <3>4. r[i] = q[k] /\ r[i + 1] = q[k + 1]
      BY <1>r, <3>2, <3>3
    <3>5. QED
      BY <3>4, <1>q
  <2>4. QED
    BY <1>n, <2>1, <2>2, <2>3
<1>6. Path(r, n)
  BY <1>1, <1>2, <1>3, <1>4, <1>5 DEF Path, Walk
<1>7. QED
  BY <1>6 DEF r

\* A body that only takes locks above l, with l held around it.
LEMMA HoldingPath ==
  ASSUME NEW n \in Nat, NEW l \in Locks, NEW body, level(l) > n, Path(body, level(l))
  PROVE  Path(holding(l, body), n)
<1> DEFINE inner == [i \in DOMAIN body |-> <<l>> \o body[i]]
<1> DEFINE r == holding(l, body)
<1> DEFINE m == Len(body)
<1>1. /\ body \in Seq(Seq(Locks)) /\ m \in Nat /\ m >= 1 /\ DOMAIN body = 1..m
      /\ body[1] = <<>> /\ body[m] = <<>>
      /\ \A i \in 1..m : body[i] \in Seq(Locks) /\ Len(body[i]) \in Nat
  BY DEF Path, Walk
<1>b. /\ \A i \in 1..m : Rising(body[i], level(l))
      /\ \A i \in 1..(m - 1) : Linked(body[i], body[i + 1])
  BY DEF Path, Walk
<1>l. level(l) \in Nat
  BY LevelRange
<1>2. ASSUME NEW i \in 1..m
      PROVE  /\ <<l>> \o body[i] \in Seq(Locks)
             /\ Len(<<l>> \o body[i]) = Len(body[i]) + 1
             /\ (<<l>> \o body[i])[1] = l
             /\ \A j \in 1..Len(body[i]) : (<<l>> \o body[i])[j + 1] = body[i][j]
  BY <1>1
<1>3. inner \in Seq(Seq(Locks)) /\ Len(inner) = m /\ \A i \in 1..m : inner[i] = <<l>> \o body[i]
  BY <1>1, <1>2
<1>4. /\ r \in Seq(Seq(Locks)) /\ Len(r) = m + 2
      /\ r[1] = <<>> /\ r[m + 2] = <<>>
      /\ \A i \in 1..m : r[i + 1] = <<l>> \o body[i]
  BY <1>1, <1>3 DEF holding, passing
<1> HIDE DEF r, inner, m
<1>h. \A i \in 1..m : Len(r[i + 1]) = Len(body[i]) + 1
  BY <1>2, <1>4, ZenonT(30)
<1>n. m \in Nat /\ m >= 1 /\ level(l) \in Nat
  BY <1>1, <1>l DEF m
<1>5. ASSUME NEW i \in 1..m PROVE Rising(r[i + 1], n)
  <2> DEFINE st == <<l>> \o body[i]
  <2>1. /\ Len(st) = Len(body[i]) + 1 /\ st[1] = l
        /\ \A j \in 1..Len(body[i]) : st[j + 1] = body[i][j]
        /\ Len(body[i]) \in Nat
    BY <1>1, <1>2 DEF m
  <2>2. \A j \in 1..Len(body[i]) : body[i][j] \in Locks
    BY <1>1 DEF m
  <2>3. \A j \in 1..Len(body[i]) : level(body[i][j]) \in Nat
    BY <2>2, LevelRange
  <2>4. Rising(body[i], level(l))
    BY <1>b DEF m
  <2> HIDE DEF st
  <2>5. ASSUME NEW j \in 1..Len(st)
        PROVE  level(st[j]) > n /\ \A k \in 1..(j - 1) : level(st[k]) < level(st[j])
    <3>1. CASE j = 1
      BY <2>1, <3>1
    <3>2. CASE j # 1
      <4>1. j - 1 \in 1..Len(body[i]) /\ (j - 1) + 1 = j
        BY <2>1, <3>2
      <4>2. st[j] = body[i][j - 1] /\ level(st[j]) \in Nat /\ level(st[j]) > level(l)
            /\ \A k \in 1..((j - 1) - 1) : level(body[i][k]) < level(st[j])
        BY <4>1, <2>1, <2>3, <2>4, ZenonT(30) DEF Rising
      <4>3. ASSUME NEW k \in 1..(j - 1) PROVE level(st[k]) < level(st[j])
        <5>1. CASE k = 1
          BY <5>1, <2>1, <4>2, <1>n
        <5>2. CASE k # 1
          <6>1. k - 1 \in 1..Len(body[i]) /\ k - 1 \in 1..((j - 1) - 1) /\ (k - 1) + 1 = k
            BY <4>1, <5>2, <2>1
          <6>2. st[k] = body[i][k - 1]
            BY <6>1, <2>1
          <6>3. QED
            BY <6>1, <6>2, <4>2, ZenonT(30)
        <5>3. QED
          BY <5>1, <5>2
      <4>4. QED
        BY <4>2, <4>3, <1>n
    <3>3. QED
      BY <3>1, <3>2
  <2>6. Rising(st, n)
    BY <2>5 DEF Rising
  <2>7. QED
    BY <2>6, <1>4, ZenonT(30) DEF st
<1>6. ASSUME NEW i \in 1..(m - 1) PROVE Linked(r[i + 1], r[i + 2])
  <2>1. i \in 1..m /\ i + 1 \in 1..m /\ (i + 1) + 1 = i + 2
    BY <1>n
  <2>2. r[i + 1] = <<l>> \o body[i] /\ r[i + 2] = <<l>> \o body[i + 1]
    BY <2>1, <1>4, ZenonT(30)
  <2> DEFINE a == <<l>> \o body[i]
  <2> DEFINE b == <<l>> \o body[i + 1]
  <2>3. /\ Len(a) = Len(body[i]) + 1 /\ a[1] = l /\ Len(body[i]) \in Nat
        /\ \A j \in 1..Len(body[i]) : a[j + 1] = body[i][j]
    BY <2>1, <1>1, <1>2 DEF m
  <2>4. /\ Len(b) = Len(body[i + 1]) + 1 /\ b[1] = l /\ Len(body[i + 1]) \in Nat
        /\ \A j \in 1..Len(body[i + 1]) : b[j + 1] = body[i + 1][j]
    BY <2>1, <1>1, <1>2 DEF m
  <2>5. Linked(body[i], body[i + 1])
    BY <1>b DEF m
  <2> HIDE DEF a, b
  <2>6. ASSUME Len(b) > Len(a), NEW j \in 1..Len(a) PROVE b[j] = a[j]
    <3>1. CASE j = 1
      BY <3>1, <2>3, <2>4
    <3>2. CASE j # 1
      <4>1. PICK k \in 1..Len(body[i]) : j = k + 1
        <5>1. j - 1 \in 1..Len(body[i]) /\ j = (j - 1) + 1
          BY <3>2, <2>3
        <5>2. QED
          BY <5>1
      <4>2. Len(body[i + 1]) > Len(body[i])
        BY <2>6, <2>3, <2>4
      <4>3. k \in 1..Len(body[i + 1]) /\ body[i + 1][k] = body[i][k]
        BY <4>2, <2>3, <2>4, <2>5 DEF Linked
      <4>4. QED
        BY <4>1, <4>3, <2>3, <2>4
    <3>3. QED
      BY <3>1, <3>2
  <2>7. Linked(a, b)
    BY <2>3, <2>4, <2>5, <2>6 DEF Linked
  <2>8. QED
    BY <2>2, <2>7 DEF a, b
<1>7. Rising(<<>>, n)
  BY DEF Rising
<1>8. ASSUME NEW i \in 1..(m + 2) PROVE Rising(r[i], n)
  <2>1. CASE i = 1 \/ i = m + 2
    BY <2>1, <1>4, <1>7
  <2>2. CASE ~(i = 1 \/ i = m + 2)
    <3>1. i - 1 \in 1..m /\ i = (i - 1) + 1
      BY <2>2, <1>n
    <3>2. QED
      BY <3>1, <1>5
  <2>3. QED
    BY <2>1, <2>2
<1>9. Linked(r[1], r[2]) /\ Linked(r[m + 1], r[m + 2])
  <2>1. 1 \in 1..m /\ m \in 1..m /\ 1 + 1 = 2
    BY <1>n
  <2>2. Len(r[1 + 1]) = Len(body[1]) + 1 /\ Len(r[m + 1]) = Len(body[m]) + 1
    BY <2>1, <1>h
  <2>3. Len(body[1]) = 0 /\ Len(body[m]) = 0
    BY <1>1
  <2>4. Len(r[2]) = 1 /\ Len(r[m + 1]) = 1 /\ Len(r[1]) = 0 /\ Len(r[m + 2]) = 0
    BY <2>1, <2>2, <2>3, <1>4
  <2>5. Linked(r[1], r[2])
    BY <2>4 DEF Linked
  <2>6. Linked(r[m + 1], r[m + 2])
    BY <2>4 DEF Linked
  <2>7. QED
    BY <2>5, <2>6
<1>10. ASSUME NEW i \in 1..((m + 2) - 1) PROVE Linked(r[i], r[i + 1])
  <2>1. CASE i = 1 \/ i = m + 1
    <3>1. (m + 1) + 1 = m + 2 /\ 1 + 1 = 2
      BY <1>n
    <3>2. QED
      BY <2>1, <3>1, <1>9
  <2>2. CASE ~(i = 1 \/ i = m + 1)
    <3>1. PICK k \in 1..(m - 1) : i = k + 1
      <4>1. i - 1 \in 1..(m - 1) /\ i = (i - 1) + 1
        BY <2>2, <1>n
      <4>2. QED
        BY <4>1
    <3>2. i + 1 = k + 2
      BY <3>1, <1>n
    <3>3. QED
      BY <3>1, <3>2, <1>6
  <2>3. QED
    BY <2>1, <2>2
<1>11. Path(r, n)
  BY <1>4, <1>8, <1>10, <1>n DEF Path, Walk
<1>12. QED
  BY <1>11 DEF r

\* The handlers that touch no table take s.mu and then the connection.
LEMMA ServerPaths ==
  Path(CopyBackup, 0) /\ Path(UpdateMaterializedView, 0) /\ Path(DeleteMaterializedView, 0)
<1>1. Server \in Locks /\ Conn \in Locks /\ level(Server) = 2 /\ level(Conn) = 4
  BY LevelValues DEF Locks
<1>2. Path(query, 2) /\ Path(withTx, 2) /\ Path(complete, 2)
  BY <1>1, PassingPath, HoldingPath DEF query, withTx, complete
<1>3. Path(query \o query \o withTx \o complete, 2) /\ Path(query \o complete, 2)
  BY <1>2, ConcatPath
<1>4. QED
  BY <1>1, <1>2, <1>3, HoldingPath DEF CopyBackup, UpdateMaterializedView, DeleteMaterializedView

\* Every handler is a path that takes its locks upwards.
LEMMA RequestPaths == ASSUME NEW p \in Requests PROVE Path(p, 0)
<1>s. CASE p \in {CopyBackup, UpdateMaterializedView, DeleteMaterializedView}
  BY <1>s, ServerPaths
<1> SUFFICES ASSUME p \notin {CopyBackup, UpdateMaterializedView, DeleteMaterializedView}
             PROVE  Path(p, 0)
  BY <1>s
<1>1. PICK x \in Tables :
        p \in {MutateRow(x), CheckAndMutateRow(x), ReadRows(x), ReadViewRows(x),
               ExecuteQuery(x), ReadChangeStream(x), DeleteInstance(x), CreateTable(x),
               GetTable(x), UpdateTable(x), DeleteTable(x), UndeleteTable(x),
               ModifyColumnFamilies(x), DropRowRange(x), CreateBackup(x), RestoreTable(x),
               CreateMaterializedView(x), UpdateLogicalView(x), runMaintenance(x)}
  BY DEF Requests
<1> DEFINE W == Writing(x)
<1> DEFINE R == Reading(x)
<1>2. /\ Server \in Locks /\ Conn \in Locks /\ W \in Locks /\ R \in Locks /\ Refresh(x) \in Locks
      /\ level(Server) = 2 /\ level(Conn) = 4 /\ level(W) = 3 /\ level(R) = 3
      /\ level(Refresh(x)) = 1
  BY LevelValues DEF Locks
<1> HIDE DEF W, R
<1>3. \A n \in 0..3 : Path(query, n) /\ Path(withTx, n) /\ Path(complete, n)
  BY <1>2, PassingPath, HoldingPath DEF query, withTx, complete
<1>4. \A n \in 0..2 : Path(holding(R, passing), n)
  BY <1>2, PassingPath, HoldingPath
<1>5. \A n \in 0..1 : Path(holding(Server, passing), n)
  BY <1>2, PassingPath, HoldingPath
<1>6. \A n \in 0..2 : Path(holding(R, query), n)
  BY <1>2, <1>3, HoldingPath
<1>7. \A n \in 0..2 : Path(holding(W, withTx), n)
  BY <1>2, <1>3, HoldingPath
<1>8. \A n \in 0..1 : Path(holding(Server, query), n)
  BY <1>2, <1>3, HoldingPath
<1>9. \A n \in 0..1 : Path(LookupTable(x), n) /\ Path(LookupView, n) /\ Path(Scan(x), n)
  BY <1>3, <1>4, <1>5, <1>6, ConcatPath DEF LookupTable, LookupView, Scan, R
<1>10. Path(readable(x), 0)
  <2>1. Path(recompute(x), 1)
    BY <1>3, <1>9, ConcatPath DEF recompute
  <2>2. QED
    BY <2>1, <1>2, HoldingPath DEF readable
<1>11. Path(localRequireTable, 0) /\ Path(resolveAppProfile, 0) /\ Path(localRequireInstance, 0)
       /\ Path(materializedViewTarget, 0) /\ Path(afterCommit, 0)
  BY <1>5 DEF localRequireTable, resolveAppProfile, localRequireInstance,
              materializedViewTarget, afterCommit
<1>12. Path(query, 0) /\ Path(withTx, 0) /\ Path(complete, 0)
       /\ Path(holding(Server, passing), 0) /\ Path(holding(R, passing), 0)
       /\ Path(LookupTable(x), 0) /\ Path(LookupView, 0) /\ Path(Scan(x), 0)
  BY <1>3, <1>4, <1>5, <1>9
<1>13. Path(query, 2) /\ Path(withTx, 2) /\ Path(complete, 2) /\ Path(tableView(x), 2)
  BY <1>3, <1>4 DEF tableView, R
<1>14. CASE p = MutateRow(x)
  <2>1. Path(query \o query \o withTx, 3)
    BY <1>3, ConcatPath
  <2>2. Path(holding(W, query \o query \o withTx), 0)
    BY <2>1, <1>2, HoldingPath
  <2>3. QED
    BY <1>14, <2>2, <1>11, ConcatPath DEF MutateRow, W
<1>15. CASE p = CheckAndMutateRow(x)
  <2>1. Path(query \o withTx, 3)
    BY <1>3, ConcatPath
  <2>2. Path(holding(W, query \o withTx), 0)
    BY <2>1, <1>2, HoldingPath
  <2>3. Path(authorizedViewTarget, 0)
    BY <1>11, <1>12, ConcatPath DEF authorizedViewTarget
  <2>4. QED
    BY <1>15, <2>2, <2>3, <1>11, ConcatPath DEF CheckAndMutateRow, W
<1>16. CASE p = ReadRows(x) \/ p = ReadViewRows(x)
  <2>1. Path(ReadRows(x), 0)
    BY <1>6, <1>11, ConcatPath DEF ReadRows, R
  <2>2. Path(ReadViewRows(x), 0)
    BY <1>10, <1>11, <1>12, ConcatPath DEF ReadViewRows
  <2>3. QED
    BY <1>16, <2>1, <2>2
<1>17. CASE p = ExecuteQuery(x)
  BY <1>17, <1>11, <1>12, ConcatPath DEF ExecuteQuery
<1>18. CASE p = ReadChangeStream(x)
  BY <1>18, <1>11, <1>12, ConcatPath DEF ReadChangeStream, R
<1>19. CASE p = CreateTable(x) \/ p = GetTable(x)
  <2>1. Path(holding(Server, query \o tableView(x)), 0) /\ Path(holding(Server, tableView(x)), 0)
    BY <1>13, <1>2, HoldingPath, ConcatPath
  <2>2. QED
    BY <1>19, <2>1, <1>11, ConcatPath, ZenonT(30) DEF CreateTable, GetTable
<1>20. CASE p = UpdateTable(x)
  <2>1. Path(holding(W, query), 0) /\ Path(holding(Server, tableView(x)), 0)
    BY <1>3, <1>13, <1>2, HoldingPath
  <2>2. QED
    BY <1>20, <2>1, <1>11, <1>12, ConcatPath DEF UpdateTable, W
<1>d. CASE p = DeleteInstance(x)
  <2>1. Path(checkTableDeletableLocked(x), 2)
    BY <1>4, <1>13, ConcatPath DEF checkTableDeletableLocked, R
  <2>2. Path(checkTableDeletableLocked(x) \o query \o query \o withTx, 2)
    BY <2>1, <1>13, ConcatPath
  <2>3. QED
    BY <1>d, <2>2, <1>2, HoldingPath DEF DeleteInstance
<1>21. CASE p = DeleteTable(x)
  <2>1. Path(checkTableDeletableLocked(x), 2)
    BY <1>4, <1>13, ConcatPath DEF checkTableDeletableLocked, R
  <2>2. Path(checkTableDeletableLocked(x) \o holding(W, withTx), 2)
    BY <2>1, <1>7, ConcatPath
  <2>3. QED
    BY <1>21, <2>2, <1>2, HoldingPath DEF DeleteTable, W
<1>22. CASE p = UndeleteTable(x)
  <2>1. Path(holding(W, withTx) \o tableView(x) \o complete, 2)
    BY <1>7, <1>13, ConcatPath
  <2>2. QED
    BY <1>22, <2>1, <1>2, HoldingPath DEF UndeleteTable, W
<1>23. CASE p = ModifyColumnFamilies(x) \/ p = DropRowRange(x)
  <2>1. Path(holding(W, withTx), 0)
    BY <1>7
  <2>2. Path(ModifyColumnFamilies(x), 0)
    BY <2>1, <1>11, ConcatPath DEF ModifyColumnFamilies, W
  <2>3. Path(DropRowRange(x), 0)
    BY <2>1, <1>11, ConcatPath DEF DropRowRange, W
  <2>4. QED
    BY <1>23, <2>2, <2>3
<1>24. CASE p = CreateBackup(x)
  <2>1. Path(withTx \o complete, 3)
    BY <1>3, ConcatPath
  <2>2. Path(holding(R, withTx \o complete), 2)
    BY <2>1, <1>2, HoldingPath
  <2>3. Path(query \o query \o holding(R, withTx \o complete), 2)
    BY <2>2, <1>13, ConcatPath
  <2>4. QED
    BY <1>24, <2>3, <1>2, HoldingPath DEF CreateBackup, R
<1>25. CASE p = RestoreTable(x)
  <2>1. Path(query \o withTx \o complete \o tableView(x) \o complete, 2)
    BY <1>13, ConcatPath
  <2>2. Path(holding(Server, query \o withTx \o complete \o tableView(x) \o complete), 0)
    BY <2>1, <1>2, HoldingPath
  <2>3. QED
    BY <1>25, <2>2, <1>11, ConcatPath DEF RestoreTable
<1>26. CASE p = CreateMaterializedView(x)
  BY <1>26, <1>8, <1>10, <1>11, <1>12, ConcatPath DEF CreateMaterializedView
<1>27. CASE p = UpdateLogicalView(x)
  <2>1. Path(query \o complete, 2)
    BY <1>13, ConcatPath
  <2>2. Path(holding(Server, query \o complete), 0)
    BY <2>1, <1>2, HoldingPath
  <2>3. Path(validateViewQuery(x), 0)
    BY <1>12, ConcatPath DEF validateViewQuery
  <2>4. QED
    BY <1>27, <2>2, <2>3, <1>8, ConcatPath DEF UpdateLogicalView
<1>28. CASE p = runMaintenance(x)
  <2>1. Path(withTx \o query \o query, 2)
    BY <1>13, ConcatPath
  <2>2. Path(holding(Server, withTx \o query \o query), 0)
    BY <2>1, <1>2, HoldingPath
  <2>3. QED
    BY <1>28, <2>2, <1>12, ConcatPath DEF runMaintenance, R
<1>29. QED
  BY <1>1, <1>14, <1>15, <1>16, <1>17, <1>18, <1>19, <1>20, <1>21, <1>22, <1>23, <1>24,
     <1>25, <1>26, <1>27, <1>28, <1>d
-----------------------------------------------------------------------------
\* A step leaves the rest of the path.
LEMMA TailWalk ==
  ASSUME NEW p, Walk(p, 0), Len(p) > 1
  PROVE  Walk(Tail(p), 0)
<1>1. p \in Seq(Seq(Locks)) /\ Len(p) \in Nat /\ p # <<>>
  BY DEF Walk
<1>2. /\ Tail(p) \in Seq(Seq(Locks)) /\ Len(Tail(p)) = Len(p) - 1
      /\ \A i \in 1..(Len(p) - 1) : Tail(p)[i] = p[i + 1]
  BY <1>1
<1>3. /\ p[Len(p)] = <<>>
      /\ \A i \in 1..Len(p) : Rising(p[i], 0)
      /\ \A i \in 1..(Len(p) - 1) : Linked(p[i], p[i + 1])
  BY ZenonT(30) DEF Walk
<1> DEFINE t == Tail(p)
<1>4. /\ t \in Seq(Seq(Locks)) /\ Len(t) = Len(p) - 1
      /\ \A i \in 1..(Len(p) - 1) : t[i] = p[i + 1]
  BY <1>2
<1> HIDE DEF t
<1>5. t[Len(t)] = <<>>
  <2>1. Len(p) - 1 \in 1..(Len(p) - 1) /\ (Len(p) - 1) + 1 = Len(p)
    BY <1>1
  <2>2. QED
    BY <2>1, <1>3, <1>4, ZenonT(30)
<1>6. ASSUME NEW i \in 1..Len(t) PROVE Rising(t[i], 0)
  <2>1. i \in 1..(Len(p) - 1) /\ i + 1 \in 1..Len(p)
    BY <1>1, <1>4
  <2>2. QED
    BY <2>1, <1>3, <1>4
<1>7. ASSUME NEW i \in 1..(Len(t) - 1) PROVE Linked(t[i], t[i + 1])
  <2>1. i \in 1..(Len(p) - 1) /\ i + 1 \in 1..(Len(p) - 1)
    BY <1>1, <1>4
  <2>2. t[i] = p[i + 1] /\ t[i + 1] = p[(i + 1) + 1] /\ Linked(p[i + 1], p[(i + 1) + 1])
    BY <2>1, <1>3, <1>4, ZenonT(30)
  <2>3. QED
    BY <2>2
<1>8. Len(t) >= 1
  BY <1>1, <1>4
<1>9. Walk(t, 0)
  BY <1>4, <1>5, <1>6, <1>7, <1>8 DEF Walk
<1>10. QED
  BY <1>9 DEF t

\* An early return only gives locks back.
LEMMA UnwoundWalk ==
  ASSUME NEW stack \in Seq(Locks), Rising(stack, 0)
  PROVE  Walk(unwound(stack), 0)
<1> DEFINE m == Len(stack)
<1> DEFINE u == unwound(stack)
<1>1. m \in Nat
  OBVIOUS
<1>2. ASSUME NEW i \in 1..(m + 1)
      PROVE  /\ SubSeq(stack, 1, m + 1 - i) \in Seq(Locks)
             /\ Len(SubSeq(stack, 1, m + 1 - i)) = m + 1 - i
             /\ \A j \in 1..(m + 1 - i) : SubSeq(stack, 1, m + 1 - i)[j] = stack[j]
  <2>1. m + 1 - i \in 0..m
    BY <1>1
  <2>2. QED
    BY <2>1, <1>1
<1>3. /\ u \in Seq(Seq(Locks)) /\ Len(u) = m + 1
      /\ \A i \in 1..(m + 1) : u[i] = SubSeq(stack, 1, m + 1 - i)
  <2>1. u = [i \in 1..(m + 1) |-> SubSeq(stack, 1, m + 1 - i)]
    BY DEF unwound
  <2>2. QED
    BY <2>1, <1>1, <1>2
<1>4. \A i \in 1..(m + 1) : /\ Len(u[i]) = m + 1 - i
                            /\ \A j \in 1..(m + 1 - i) : u[i][j] = stack[j]
  BY <1>2, <1>3, ZenonT(30)
<1> HIDE DEF u
<1>5. u[m + 1] = <<>>
  <2>1. m + 1 \in 1..(m + 1) /\ m + 1 - (m + 1) = 0
    BY <1>1
  <2>2. u[m + 1] \in Seq(Locks) /\ Len(u[m + 1]) = 0
    BY <2>1, <1>3, <1>4
  <2>3. QED
    BY <2>2, EmptySeq
<1>6. ASSUME NEW i \in 1..(m + 1) PROVE Rising(u[i], 0)
  <2>1. /\ Len(u[i]) = m + 1 - i /\ m + 1 - i \in 0..m
        /\ \A j \in 1..(m + 1 - i) : u[i][j] = stack[j]
    BY <1>1, <1>4
  <2>2. ASSUME NEW j \in 1..Len(u[i])
        PROVE  level(u[i][j]) > 0 /\ \A k \in 1..(j - 1) : level(u[i][k]) < level(u[i][j])
    <3>1. j \in 1..m /\ u[i][j] = stack[j]
      BY <1>1, <2>1
    <3>2. \A k \in 1..(j - 1) : u[i][k] = stack[k]
      BY <1>1, <2>1
    <3>3. QED
      BY <3>1, <3>2 DEF Rising
  <2>3. QED
    BY <2>2 DEF Rising
<1>7. ASSUME NEW i \in 1..m PROVE Linked(u[i], u[i + 1])
  <2>1. i \in 1..(m + 1) /\ i + 1 \in 1..(m + 1)
    BY <1>1
  <2>2. Len(u[i]) = m + 1 - i /\ Len(u[i + 1]) = m + 1 - (i + 1)
    BY <2>1, <1>4, ZenonT(30)
  <2>3. QED
    BY <2>2, <1>1 DEF Linked
<1>8. (m + 1) - 1 = m /\ m + 1 >= 1
  BY <1>1
<1>9. Walk(u, 0)
  BY <1>3, <1>5, <1>6, <1>7, <1>8 DEF Walk
<1>10. QED
  BY <1>9 DEF u

\* The handlers walk along their paths.
LEMMA WalksInvariant == Spec => []IInv
<1>1. Init => IInv
  <2>1. Walk(passing, 0)
    BY PassingPath DEF Path
  <2>2. QED
    BY <2>1 DEF Init, AllIdle, IInv
<1>2. ASSUME IInv, [Next]_at PROVE IInv'
  <2>1. CASE UNCHANGED at
    BY <1>2, <2>1 DEF IInv
  <2>2. ASSUME NEW h \in Handlers, NEW w, Walk(w, 0), at' = [at EXCEPT ![h] = w]
        PROVE  IInv'
    BY <1>2, <2>2 DEF IInv
  <2>3. ASSUME NEW h \in Handlers, Start(h) PROVE IInv'
    BY <2>2, <2>3, RequestPaths, ZenonT(30) DEF Start, Path
  <2>4. ASSUME NEW h \in Handlers, busy(h), advance(h) PROVE IInv'
    <3>1. Walk(Tail(at[h]), 0)
      BY <1>2, <2>4, TailWalk DEF IInv, busy
    <3>2. at' = [at EXCEPT ![h] = Tail(at[h])]
      BY <1>2, <2>4 DEF IInv, advance
    <3>3. QED
      BY <2>2, <3>1, <3>2, ZenonT(30)
  <2>5. ASSUME NEW h \in Handlers, Return(h) PROVE IInv'
    <3>1. Walk(at[h], 0)
      BY <1>2 DEF IInv
    <3>2. at[h][1] \in Seq(Locks) /\ Rising(at[h][1], 0)
      BY <3>1 DEF Walk
    <3>3. Walk(unwound(at[h][1]), 0)
      BY <3>2, UnwoundWalk
    <3>4. at' = [at EXCEPT ![h] = unwound(at[h][1])]
      BY <1>2, <2>5 DEF IInv, Return
    <3>5. QED
      BY <2>2, <3>3, <3>4, ZenonT(30)
  <2>6. QED
    BY <1>2, <2>1, <2>3, <2>4, <2>5 DEF Next, Acquire, Release, acquires
<1>3. QED
  BY <1>1, <1>2, PTL DEF Spec
-----------------------------------------------------------------------------
Held(n) == \E g \in Handlers : \E i \in DOMAIN at[g][1] : level(at[g][1][i]) = n

\* What a handler waits for is above all it holds.
LEMMA WaitsUpwards ==
  ASSUME IInv, NEW h \in Handlers, acquires(h)
  PROVE  /\ wanted(h) \in Locks
         /\ \A i \in DOMAIN at[h][1] : level(at[h][1][i]) < level(wanted(h))
<1> DEFINE a == at[h][1]
<1> DEFINE b == at[h][2]
<1>1. Walk(at[h], 0) /\ Len(at[h]) > 1
  BY DEF IInv, acquires, busy
<1>2. at[h] \in Seq(Seq(Locks)) /\ Len(at[h]) \in Nat /\ 1 \in 1..(Len(at[h]) - 1) /\ 2 \in 1..Len(at[h])
      /\ 1 \in 1..Len(at[h]) /\ 1 + 1 = 2
  BY <1>1 DEF Walk
<1>3. a \in Seq(Locks) /\ b \in Seq(Locks) /\ Len(a) \in Nat /\ Len(b) \in Nat
      /\ DOMAIN a = 1..Len(a)
  BY <1>2
<1>4. Linked(a, b) /\ Rising(b, 0)
  BY <1>1, <1>2 DEF Walk
<1>5. Len(b) > Len(a)
  BY DEF acquires
<1>6. Len(b) = Len(a) + 1 /\ \A j \in 1..Len(a) : b[j] = a[j]
  BY <1>4, <1>5 DEF Linked
<1>7. wanted(h) = b[Len(b)]
  BY DEF wanted
<1> HIDE DEF a, b
<1>8. Len(b) \in 1..Len(b) /\ Len(b) - 1 = Len(a)
  BY <1>3, <1>6
<1>9. b[Len(b)] \in Locks
  BY <1>3, <1>8
<1>10. \A j \in 1..Len(a) : level(b[j]) < level(b[Len(b)])
  BY <1>4, <1>8 DEF Rising
<1>11. \A j \in DOMAIN a : level(a[j]) < level(wanted(h))
  BY <1>3, <1>6, <1>7, <1>10
<1>12. QED
  BY <1>7, <1>9, <1>11 DEF a

\* Locks that exclude each other have the same level.
LEMMA SameLevel ==
  ASSUME NEW k, NEW l, excludes(k, l) PROVE level(k) = level(l)
<1>1. CASE k[1] = l[1]
  BY <1>1 DEF level
<1>2. CASE {k[1], l[1]} = {"read", "write"}
  <2>1. k[1] \in {"read", "write"} /\ l[1] \in {"read", "write"}
    BY <1>2
  <2>2. QED
    BY <2>1 DEF level
<1>3. QED
  BY <1>1, <1>2 DEF excludes

\* A handler that cannot get its lock waits for one of that lock's level.
LEMMA BlockedByHolder ==
  ASSUME NEW l, ~free(l) PROVE Held(level(l))
<1>0. PICK g \in Handlers : \E i \in DOMAIN at[g][1] : excludes(at[g][1][i], l)
  BY DEF free
<1>1. PICK i \in DOMAIN at[g][1] : excludes(at[g][1][i], l)
  BY <1>0
<1>2. level(at[g][1][i]) = level(l)
  BY <1>1, SameLevel
<1>3. QED
  BY <1>2 DEF Held

\* When nobody proceeds, every busy handler waits for a lock of a level held.
LEMMA StuckWaits ==
  ASSUME IInv, ~ \E g \in Handlers : proceeds(g), NEW h \in Handlers, busy(h)
  PROVE  acquires(h) /\ Held(level(wanted(h)))
<1>1. acquires(h)
  BY DEF proceeds
<1>2. CASE ~free(wanted(h))
  BY <1>1, <1>2, BlockedByHolder
<1>3. CASE free(wanted(h))
  <2>1. wanted(h)[1] = "read"
        /\ \E g \in Handlers : acquires(g) /\ wanted(g) = Writing(wanted(h)[2])
    BY <1>1, <1>3 DEF proceeds
  <2>2. PICK g \in Handlers : acquires(g) /\ wanted(g) = Writing(wanted(h)[2])
    BY <2>1
  <2>3. wanted(g)[1] = "write" /\ busy(g)
    BY <2>2 DEF Writing, acquires
  <2>4. ~free(wanted(g))
    <3>1. ~proceeds(g) /\ wanted(g)[1] # "read"
      BY <2>3
    <3>2. QED
      BY <2>2, <2>3, <3>1 DEF proceeds
  <2>5. Held(level(wanted(g)))
    BY <2>4, BlockedByHolder
  <2>6. level(wanted(g)) = 3 /\ level(wanted(h)) = 3
    BY <2>1, <2>3 DEF level
  <2>7. QED
    BY <1>1, <2>5, <2>6
<1>4. QED
  BY <1>2, <1>3

\* Then a level held leads to a higher one, and there is no highest.
LEMMA HeldAbove ==
  ASSUME IInv, ~ \E g \in Handlers : proceeds(g), NEW n \in 1..4, Held(n)
  PROVE  \E m \in 1..4 : m > n /\ Held(m)
<1>0. PICK g \in Handlers : \E i \in DOMAIN at[g][1] : level(at[g][1][i]) = n
  BY DEF Held
<1>1. PICK i \in DOMAIN at[g][1] : level(at[g][1][i]) = n
  BY <1>0
<1>2. busy(g)
  <2>1. Walk(at[g], 0)
    BY DEF IInv
  <2>2. Len(at[g]) \in Nat /\ Len(at[g]) >= 1 /\ at[g][Len(at[g])] = <<>>
    BY <2>1 DEF Walk
  <2>3. CASE Len(at[g]) = 1
    <3>1. at[g][1] = <<>>
      BY <2>2, <2>3
    <3>2. QED
      BY <3>1, <1>1
  <2>4. QED
    BY <2>2, <2>3 DEF busy
<1>3. acquires(g) /\ Held(level(wanted(g)))
  BY <1>2, StuckWaits
<1>4. level(wanted(g)) \in 1..4 /\ n < level(wanted(g))
  BY <1>1, <1>3, WaitsUpwards, LevelRange
<1>5. QED
  BY <1>3, <1>4

\* Whatever the number of requests and tables, the server does not deadlock:
\* while a request is being served, one of them goes on.
THEOREM DeadlockFree == Spec => []NoDeadlock
<1>1. ASSUME IInv PROVE NoDeadlock
  <2> SUFFICES ASSUME NEW h \in Handlers, busy(h), ~ \E g \in Handlers : proceeds(g)
               PROVE  FALSE
    BY DEF NoDeadlock
  <2>1. acquires(h) /\ Held(level(wanted(h)))
    BY <1>1, StuckWaits
  <2>2. level(wanted(h)) \in 1..4
    BY <1>1, <2>1, WaitsUpwards, LevelRange
  <2>3. \A n \in 1..4 : Held(n) => \E m \in 1..4 : m > n /\ Held(m)
    BY <1>1, HeldAbove
  <2>4. ~Held(4)
    BY <2>3
  <2>5. ~Held(3)
    BY <2>3, <2>4
  <2>6. ~Held(2)
    BY <2>3, <2>4, <2>5
  <2>7. ~Held(1)
    BY <2>3, <2>4, <2>5, <2>6
  <2>8. QED
    BY <2>1, <2>2, <2>4, <2>5, <2>6, <2>7
<1>2. QED
  BY <1>1, WalksInvariant, PTL

-----------------------------------------------------------------------------
(* Keys and ranges.  Two different keys part at a first place, which decides *)
(* their order; everything else follows from the order being total.          *)

Key == Seq(Byte)

\* A set of numbers that is not empty has a least one.
LEMMA LeastOf ==
  ASSUME NEW T, T \subseteq Nat, T # {}
  PROVE  \E x \in T : \A y \in T : x <= y
  <1> DEFINE R == {ss \in Nat \X Nat : ss[1] < ss[2]}
  <1>1. IsWellFoundedOn(R, Nat)
    BY NatLessThanWellFounded DEF OpToRel
  <1>2. PICK x \in T : \A y \in T : ~ (<<y, x>> \in R)
    <2> HIDE DEF R
    <2> QED BY <1>1, WFMin, Zenon
  <1>3. \A y \in T : ~(y < x)
    BY <1>2, ZenonT(30)
  <1>4. x \in Nat /\ \A y \in T : y \in Nat
    OBVIOUS
  <1> QED BY <1>3, <1>4


\* A set of numbers up to n that is not empty has a greatest one.
LEMMA GreatestOf ==
  ASSUME NEW n \in Nat, NEW T, T \subseteq 1..n, T # {}
  PROVE  \E x \in T : \A y \in T : y <= x
  <1> DEFINE U == {m \in Nat : \E x \in T : x = n - m}
  <1>1. U # {}
    <2>1. PICK x \in T : TRUE
      BY ZenonT(30)
    <2>2. x \in 1..n /\ n - x \in Nat /\ x = n - (n - x)
      OBVIOUS
    <2>3. n - x \in U
      BY <2>2
    <2> QED BY <2>3, ZenonT(30)
  <1>2. U \subseteq Nat
    OBVIOUS
  <1>3. PICK m \in U : \A y \in U : m <= y
    <2> HIDE DEF U
    <2> QED BY <1>1, <1>2, LeastOf, ZenonT(30)
  <1>4. m \in Nat /\ n - m \in T
    OBVIOUS
  <1>5. ASSUME NEW y \in T PROVE y <= n - m
    <2>1. y \in 1..n /\ n - y \in Nat /\ y = n - (n - y)
      OBVIOUS
    <2>2. n - y \in U
      BY <2>1
    <2>3. m <= n - y
      BY <1>3, <2>2
    <2> QED BY <1>4, <2>1, <2>3
  <1> QED BY <1>4, <1>5

\* Where two keys differ: the first place that one of them has not, or where
\* their bytes are not the same.
Parts(a, b, d) ==
  /\ d \in Nat \ {0} /\ d <= Len(a) + 1 /\ d <= Len(b) + 1
  /\ \A j \in 1..(d - 1) : a[j] = b[j]
  /\ d <= Len(a) /\ d <= Len(b) => a[d] # b[d]
  /\ d <= Len(a) \/ d <= Len(b)

\* Two keys are the same or part somewhere.
LEMMA KeysPart ==
  ASSUME NEW a \in Key, NEW b \in Key, a # b
  PROVE  \E d : Parts(a, b, d)
  <1>0. Len(a) \in Nat /\ Len(b) \in Nat
    BY DEF Key
  <1> DEFINE T == {i \in Nat \ {0} : i > Len(a) \/ i > Len(b) \/ a[i] # b[i]}
  <1>1. T # {}
    <2>1. Len(a) + 1 \in T
      BY <1>0
    <2> QED BY <2>1
  <1>2. PICK d \in T : \A y \in T : d <= y
    <2>1. T \subseteq Nat
      OBVIOUS
    <2> HIDE DEF T
    <2> QED BY <1>1, <2>1, LeastOf, ZenonT(30)
  <1>3. \A j \in 1..(d - 1) : j <= Len(a) /\ j <= Len(b) /\ a[j] = b[j]
    <2> TAKE j \in 1..(d - 1)
    <2>1. j \in Nat \ {0} /\ ~(d <= j)
      BY <1>2
    <2>2. j \notin T
      BY <1>2, <2>1
    <2> QED BY <1>0, <2>1, <2>2
  <1>4. d <= Len(a) + 1 /\ d <= Len(b) + 1
    <2>1. Len(a) + 1 \in T /\ Len(b) + 1 \in T
      BY <1>0
    <2> QED BY <1>2, <2>1
  <1>5. ASSUME d > Len(a), d > Len(b) PROVE FALSE
    <2>1. Len(a) = Len(b) /\ \A j \in 1..Len(a) : a[j] = b[j]
      BY <1>0, <1>3, <1>4, <1>5
    <2>2. a = b
      BY <2>1 DEF Key
    <2> QED BY <2>2
  <1> QED BY <1>0, <1>2, <1>3, <1>4, <1>5 DEF Parts

\* Where two keys part decides their order.
LEMMA PartsLess ==
  ASSUME NEW a \in Key, NEW b \in Key, NEW d, Parts(a, b, d)
  PROVE  less(a, b) <=> (d <= Len(b) /\ (d > Len(a) \/ a[d] < b[d]))
  <1>0. Len(a) \in Nat /\ Len(b) \in Nat /\ d \in Nat \ {0}
    BY DEF Key, Parts
  <1>1. ASSUME d <= Len(b), d > Len(a) \/ a[d] < b[d] PROVE less(a, b)
    <2>1. d \in 1..Len(b) /\ \A j \in 1..(d - 1) : j <= Len(a) /\ a[j] = b[j]
      BY <1>0, <1>1 DEF Parts
    <2> QED BY <1>1, <2>1 DEF less
  <1>2. ASSUME less(a, b) PROVE d <= Len(b) /\ (d > Len(a) \/ a[d] < b[d])
    <2>1. PICK i \in 1..Len(b) : /\ \A j \in 1..(i - 1) : j <= Len(a) /\ a[j] = b[j]
                                 /\ i > Len(a) \/ a[i] < b[i]
      BY <1>2 DEF less
    <2>2. \A x \in DOMAIN a : a[x] \in Int /\ ~(a[x] < a[x])
      BY ByteAssumption DEF Key, Byte
    <2>3. CASE i < d
      <3>1. i <= Len(a) /\ a[i] = b[i] /\ i \in DOMAIN a
        BY <1>0, <2>3 DEF Parts, Key
      <3> QED BY <2>1, <2>2, <3>1
    <2>4. CASE i > d
      <3>1. d <= Len(a) /\ a[d] = b[d] /\ d <= Len(b)
        BY <1>0, <2>1, <2>4
      <3> QED BY <3>1 DEF Parts
    <2>5. CASE i = d
      BY <1>0, <2>1, <2>5
    <2> QED BY <1>0, <2>3, <2>4, <2>5
  <1> QED BY <1>1, <1>2

\* Parting is symmetric.
LEMMA PartsBack ==
  ASSUME NEW a, NEW b, NEW d, Parts(a, b, d)
  PROVE  Parts(b, a, d)
  BY DEF Parts

\* The bytes of a key are numbers.
LEMMA Bytes ==
  ASSUME NEW a \in Key, NEW i \in 1..Len(a)
  PROVE  a[i] \in Nat /\ a[i] <= TopByte
  BY ByteAssumption DEF Key, Byte

\* Of two different keys one comes before the other.
LEMMA LessTotal ==
  ASSUME NEW a \in Key, NEW b \in Key
  PROVE  (less(a, b) <=> ~less(b, a)) \/ a = b
  <1> SUFFICES ASSUME a # b PROVE less(a, b) <=> ~less(b, a)
    OBVIOUS
  <1>1. PICK d : Parts(a, b, d)
    BY KeysPart
  <1>2. /\ less(a, b) <=> (d <= Len(b) /\ (d > Len(a) \/ a[d] < b[d]))
        /\ less(b, a) <=> (d <= Len(a) /\ (d > Len(b) \/ b[d] < a[d]))
    BY <1>1, PartsLess, PartsBack
  <1>3. d \in Nat \ {0} /\ Len(a) \in Nat /\ Len(b) \in Nat
    BY <1>1 DEF Parts, Key
  <1>4. CASE d <= Len(a) /\ d <= Len(b)
    <2>1. a[d] \in Nat /\ b[d] \in Nat
      BY <1>3, <1>4, Bytes
    <2>2. a[d] # b[d]
      BY <1>1, <1>4 DEF Parts
    <2> QED BY <1>2, <1>3, <1>4, <2>1, <2>2
  <1>5. CASE ~(d <= Len(a) /\ d <= Len(b))
    <2>1. d <= Len(a) \/ d <= Len(b)
      BY <1>1 DEF Parts
    <2> QED BY <1>2, <1>3, <1>5, <2>1
  <1> QED BY <1>4, <1>5

\* No key comes before itself.
LEMMA LessIrreflexive ==
  ASSUME NEW a \in Key
  PROVE  ~less(a, a)
  <1>1. \A i \in 1..Len(a) : ~(i > Len(a)) /\ ~(a[i] < a[i])
    BY Bytes DEF Key
  <1> QED BY <1>1 DEF less

\* The order is transitive.
LEMMA LessTransitive ==
  ASSUME NEW a \in Key, NEW b \in Key, NEW c \in Key, less(a, b), less(b, c)
  PROVE  less(a, c)
  <1>0. Len(a) \in Nat /\ Len(b) \in Nat /\ Len(c) \in Nat
    BY DEF Key
  <1>1. PICK i \in 1..Len(b) : /\ \A j \in 1..(i - 1) : j <= Len(a) /\ a[j] = b[j]
                               /\ i > Len(a) \/ a[i] < b[i]
    BY DEF less
  <1>2. PICK k \in 1..Len(c) : /\ \A j \in 1..(k - 1) : j <= Len(b) /\ b[j] = c[j]
                               /\ k > Len(b) \/ b[k] < c[k]
    BY DEF less
  <1>3. CASE i < k
    <2>1. i \in 1..Len(c) /\ b[i] = c[i] /\ \A j \in 1..(i - 1) : j <= Len(a) /\ a[j] = c[j]
      BY <1>0, <1>1, <1>2, <1>3
    <2>2. i > Len(a) \/ a[i] < c[i]
      BY <1>1, <2>1
    <2> QED BY <2>1, <2>2, Zenon DEF less
  <1>4. CASE k < i
    <2>1. k <= Len(b) /\ k <= Len(a) /\ a[k] = b[k] /\ \A j \in 1..(k - 1) : j <= Len(a) /\ a[j] = c[j]
      BY <1>0, <1>1, <1>2, <1>4
    <2>2. a[k] < c[k]
      BY <1>0, <1>2, <2>1
    <2> QED BY <2>1, <2>2 DEF less
  <1>5. CASE k = i
    <2>1. \A j \in 1..(k - 1) : j <= Len(a) /\ a[j] = c[j]
      BY <1>0, <1>1, <1>2, <1>5
    <2>2. k > Len(a) \/ a[k] < c[k]
      <3>1. k <= Len(b) /\ b[k] < c[k]
        BY <1>0, <1>1, <1>2, <1>5
      <3>2. CASE k <= Len(a)
        <4>1. a[k] \in Nat /\ b[k] \in Nat /\ c[k] \in Nat
          BY <1>0, <3>1, <3>2, Bytes
        <4> QED BY <1>0, <1>1, <1>5, <3>1, <3>2, <4>1
      <3> QED BY <1>0, <3>2
    <2> QED BY <2>1, <2>2, ZenonT(30) DEF less
  <1> QED BY <1>0, <1>3, <1>4, <1>5

\* Nothing lies between a key and its successor, so that the range up to the
\* successor is the range that includes the key.
LEMMA SuccessorNext ==
  ASSUME NEW a \in Key, NEW k \in Key
  PROVE  keySuccessor(k) \in Key /\ (less(a, keySuccessor(k)) <=> ~less(k, a))
  <1> DEFINE n == keySuccessor(k)
  <1>0. /\ n \in Key /\ Len(n) = Len(k) + 1 /\ n[Len(k) + 1] = 0
        /\ \A i \in 1..Len(k) : n[i] = k[i]
    BY ByteAssumption DEF keySuccessor, Key, Byte
  <1> HIDE DEF n
  <1>1. Len(a) \in Nat /\ Len(k) \in Nat
    BY DEF Key
  <1>2. ASSUME less(a, n) PROVE ~less(k, a)
    <2>1. PICK i \in 1..Len(n) : /\ \A j \in 1..(i - 1) : j <= Len(a) /\ a[j] = n[j]
                                 /\ i > Len(a) \/ a[i] < n[i]
      BY <1>2 DEF less
    <2>2. CASE i <= Len(a)
      <3>1. a[i] < n[i] /\ a[i] \in Nat
        BY <1>1, <2>1, <2>2, Bytes
      <3>2. i <= Len(k)
        BY <1>0, <1>1, <2>1, <3>1
      <3>3. less(a, k)
        BY <1>0, <1>1, <2>1, <3>1, <3>2 DEF less
      <3>4. a # k
        BY <3>3, LessIrreflexive
      <3> QED BY <3>3, <3>4, LessTotal
    <2>3. CASE i > Len(a) /\ Len(a) < Len(k)
      <3>1. i = Len(a) + 1
        BY <1>0, <1>1, <2>1, <2>3
      <3>2. less(a, k)
        BY <1>0, <1>1, <2>1, <2>3, <3>1 DEF less
      <3>3. a # k
        BY <3>2, LessIrreflexive
      <3> QED BY <3>2, <3>3, LessTotal
    <2>4. CASE i > Len(a) /\ ~(Len(a) < Len(k))
      <3>1. Len(a) = Len(k) /\ \A j \in 1..Len(a) : a[j] = k[j]
        BY <1>0, <1>1, <2>1, <2>4
      <3>2. a = k
        BY <3>1 DEF Key
      <3> QED BY <3>2, LessIrreflexive
    <2> QED BY <1>0, <1>1, <2>2, <2>3, <2>4
  <1>3. ASSUME ~less(k, a) PROVE less(a, n)
    <2>1. less(k, n)
      <3>1. \A j \in 1..((Len(k) + 1) - 1) : j <= Len(k) /\ k[j] = n[j]
        BY <1>0, <1>1
      <3>2. Len(k) + 1 \in 1..Len(n) /\ Len(k) + 1 > Len(k)
        BY <1>0, <1>1
      <3> QED BY <3>1, <3>2 DEF less
    <2>2. a = k \/ less(a, k)
      BY <1>3, LessTotal
    <2> QED BY <1>0, <2>1, <2>2, LessTransitive
  <1> QED BY <1>0, <1>2, <1>3 DEF n

\* The range of a row range has keys for its bounds.
LEMMA RangeBounds ==
  ASSUME NEW rr \in RowRange
  PROVE  /\ rr.s \in Key /\ rr.e \in Key
         /\ rowRangeToKeyRange(rr).start \in Key /\ rowRangeToKeyRange(rr).end \in Key
  <1>1. rr.s \in Key /\ rr.e \in Key
    BY DEF RowRange, Key
  <1> QED BY <1>1, SuccessorNext DEF rowRangeToKeyRange

\* No key comes before the empty one.
LEMMA EmptyFirst ==
  ASSUME NEW a \in Key
  PROVE  ~less(a, <<>>) /\ <<>> \in Key
  BY DEF less, Key

\* The half-open range a row range is turned into holds exactly the keys within
\* its bounds; an empty range, and one that validateRowRanges refuses, holds
\* none.
THEOREM RangesMeanBounds ==
  \A rr \in RowRange, k \in Key : RangeMeans(rr, k)
  <1> TAKE rr \in RowRange, k \in Key
  <1> DEFINE rng == rowRangeToKeyRange(rr)
             s == rr.s
             e == rr.e
  <1>0. /\ s \in Key /\ e \in Key /\ rng.start \in Key /\ rng.end \in Key
        /\ rr.sk \in {"none", "closed", "open"} /\ rr.ek \in {"none", "closed", "open"}
        /\ (rr.sk = "none" => s = <<>>) /\ (rr.ek = "none" => e = <<>>)
    BY RangeBounds DEF RowRange
  <1>1. ~less(k, rng.start) <=> IF rr.sk = "open" THEN less(s, k) ELSE ~less(k, s)
    BY <1>0, SuccessorNext DEF rowRangeToKeyRange
  <1>2. rng.end = <<>> \/ less(k, rng.end)
        <=> IF rr.ek = "closed" THEN ~less(e, k) ELSE e = <<>> \/ less(k, e)
    <2>1. CASE rr.ek = "closed"
      <3>1. rng.end = keySuccessor(e) /\ rng.end # <<>>
        BY <1>0, <2>1 DEF rowRangeToKeyRange, keySuccessor, Key
      <3> QED BY <1>0, <2>1, <3>1, SuccessorNext
    <2>2. CASE rr.ek # "closed"
      BY <2>2 DEF rowRangeToKeyRange
    <2> QED BY <2>1, <2>2
  <1>3. contains(rng, k) <=> inBounds(rr, k)
    BY <1>0, <1>1, <1>2, EmptyFirst DEF contains, inBounds
  <1>4. ASSUME empty(rng), contains(rng, k) PROVE FALSE
    <2>1. /\ rng.end # <<>> /\ ~less(rng.start, rng.end)
          /\ ~less(k, rng.start) /\ less(k, rng.end)
      BY <1>4 DEF empty, contains
    <2>2. rng.start = k \/ less(rng.start, k)
      BY <1>0, <2>1, LessTotal
    <2> QED BY <1>0, <2>1, <2>2, LessTransitive
  <1>5. ASSUME ~validateRowRanges({rr}), contains(rng, k) PROVE FALSE
    <2>1. s # <<>> /\ e # <<>> /\ less(e, s)
      BY <1>5 DEF validateRowRanges
    <2>2. /\ IF rr.sk = "open" THEN less(s, k) ELSE ~less(k, s)
          /\ IF rr.ek = "closed" THEN ~less(e, k) ELSE less(k, e)
      BY <1>1, <1>2, <1>5, <2>1 DEF contains
    <2>3. s = k \/ less(s, k)
      BY <1>0, <2>2, LessTotal
    <2>4. less(e, k)
      BY <1>0, <2>1, <2>3, LessTransitive
    <2>5. ~less(k, e)
      BY <1>0, <2>4, LessTotal, LessIrreflexive
    <2> QED BY <2>2, <2>4, <2>5
  <1> QED BY <1>3, <1>4, <1>5 DEF RangeMeans

\* What the successor of a prefix is: none if no byte can be incremented, or
\* the prefix up to the last byte that can, with that byte incremented.
LEMMA PrefixSuccessorIs ==
  ASSUME NEW p \in Key
  PROVE  \/ /\ prefixSuccessor(p) = <<>>
            /\ \A i \in 1..Len(p) : ~(p[i] < TopByte)
         \/ \E m \in 1..Len(p) :
              /\ p[m] < TopByte /\ \A i \in 1..Len(p) : p[i] < TopByte => i <= m
              /\ prefixSuccessor(p) = Append(SubSeq(p, 1, m - 1), p[m] + 1)
  <1> DEFINE below == {i \in DOMAIN p : p[i] < TopByte}
             last == CHOOSE i \in below : \A j \in below : j <= i
  <1>0. DOMAIN p = 1..Len(p) /\ Len(p) \in Nat
    BY DEF Key
  <1>1. CASE below = {}
    BY <1>0, <1>1 DEF prefixSuccessor
  <1>2. CASE below # {}
    <2>1. below \subseteq 1..Len(p)
      BY <1>0
    <2>2. \E x \in below : \A y \in below : y <= x
      <3> HIDE DEF below
      <3> QED BY <1>0, <1>2, <2>1, GreatestOf, Zenon
    <2>3. last \in below /\ \A y \in below : y <= last
      <3> HIDE DEF below
      <3> QED BY <2>2
    <2>4. prefixSuccessor(p) = Append(SubSeq(p, 1, last - 1), p[last] + 1)
      BY <1>2, Zenon DEF prefixSuccessor
    <2>5. last \in 1..Len(p) /\ p[last] < TopByte /\ \A i \in 1..Len(p) : p[i] < TopByte => i <= last
      BY <1>0, <2>3
    <2> HIDE DEF last
    <2> QED BY <2>4, <2>5
  <1> QED BY <1>1, <1>2

\* The range DropRowRange and a LIKE or STARTS_WITH scan take for a prefix holds
\* exactly the keys with that prefix, whatever bytes it ends in.
THEOREM PrefixesMeanPrefixed ==
  \A p, k \in Key : PrefixMeans(p, k)
  <1> TAKE p, k \in Key
  <1> DEFINE n == prefixSuccessor(p)
  <1>0. Len(p) \in Nat /\ Len(k) \in Nat
    BY DEF Key
  <1>1. contains(prefixRange(p), k) <=> ~less(k, p) /\ (n = <<>> \/ less(k, n))
    BY DEF contains, prefixRange
  <1>2. ASSUME HasPrefix(k, p) PROVE ~less(k, p) /\ (n = <<>> \/ less(k, n))
    <2>1. ~less(k, p)
      <3>1. \A i \in 1..Len(p) : ~(i > Len(k)) /\ ~(k[i] < p[i])
        <4> TAKE i \in 1..Len(p)
        <4>1. i <= Len(k) /\ k[i] = p[i] /\ k[i] \in Nat
          BY <1>0, <1>2, Bytes DEF HasPrefix
        <4> QED BY <1>0, <4>1
      <3> QED BY <3>1 DEF less
    <2>2. ASSUME NEW m \in 1..Len(p), n = Append(SubSeq(p, 1, m - 1), p[m] + 1)
          PROVE  less(k, n)
      <3>1. p[m] \in Nat
        BY Bytes
      <3>2. Len(n) = m /\ n[m] = p[m] + 1 /\ \A j \in 1..(m - 1) : n[j] = p[j]
        BY <1>0, <2>2, <3>1 DEF Key
      <3>3. k[m] < n[m] /\ \A j \in 1..(m - 1) : j <= Len(k) /\ k[j] = n[j]
        BY <1>0, <1>2, <2>2, <3>1, <3>2 DEF HasPrefix
      <3> HIDE DEF n
      <3> QED BY <1>0, <3>2, <3>3 DEF less
    <2> QED BY <2>1, <2>2, PrefixSuccessorIs
  <1>3. ASSUME ~less(k, p), n = <<>> \/ less(k, n), ~HasPrefix(k, p) PROVE FALSE
    <2>1. k # p
      BY <1>3 DEF HasPrefix
    <2>2. PICK d : Parts(k, p, d)
      BY <2>1, KeysPart
    <2>3. d \in Nat \ {0} /\ ~(d <= Len(p) /\ (d > Len(k) \/ k[d] < p[d]))
      BY <1>3, <2>2, PartsLess DEF Parts
    <2>4. d <= Len(p)
      BY <1>0, <1>3, <2>2 DEF Parts, HasPrefix
    <2>5. d <= Len(k) /\ ~(k[d] < p[d]) /\ k[d] # p[d]
      BY <1>0, <2>2, <2>3, <2>4 DEF Parts
    <2>6. k[d] \in Nat /\ p[d] \in Nat /\ k[d] <= TopByte
      BY <2>3, <2>4, <2>5, Bytes
    <2>7. p[d] < k[d] /\ p[d] < TopByte
      BY <2>5, <2>6, ByteAssumption
    <2>8. PICK m \in 1..Len(p) : d <= m /\ n = Append(SubSeq(p, 1, m - 1), p[m] + 1)
      BY <2>3, <2>4, <2>7, PrefixSuccessorIs
    <2>9. p[m] \in Nat
      BY Bytes
    <2>10. Len(n) = m /\ n[m] = p[m] + 1 /\ (\A j \in 1..(m - 1) : n[j] = p[j]) /\ n # <<>>
      BY <1>0, <2>8, <2>9 DEF Key
    <2>11. less(k, n)
      BY <1>3, <2>10
    <2> HIDE DEF n
    <2>12. PICK i \in 1..Len(n) : /\ \A j \in 1..(i - 1) : j <= Len(k) /\ k[j] = n[j]
                                  /\ i > Len(k) \/ k[i] < n[i]
      BY <2>11 DEF less
    <2>13. (d < m => k[d] # n[d]) /\ ~(k[d] < n[d])
      <3>1. d < m => n[d] = p[d]
        BY <2>3, <2>10
      <3>2. d = m => n[d] = p[d] + 1
        BY <2>10
      <3>3. d \in Nat /\ d <= m /\ m \in Nat
        BY <1>0, <2>3, <2>8
      <3> QED BY <2>6, <2>7, <3>1, <3>2, <3>3
    <2>14. i <= d
      BY <1>0, <2>3, <2>8, <2>10, <2>12, <2>13
    <2>15. i # d
      BY <1>0, <2>3, <2>5, <2>12, <2>13
    <2>16. i \in 1..Len(k) /\ k[i] = n[i]
      BY <1>0, <2>2, <2>3, <2>5, <2>8, <2>10, <2>12, <2>14, <2>15 DEF Parts
    <2>17. k[i] \in Nat
      BY <2>16, Bytes
    <2> QED BY <1>0, <2>12, <2>16, <2>17
  <1> QED BY <1>1, <1>2, <1>3 DEF PrefixMeans

-----------------------------------------------------------------------------
(* Writes through an authorized view, over families F. *)

ColumnMutations(F) ==
  [op : {"set", "deleteColumn"}, fam : F, col : Key]
    \cup [op : {"deleteFamily"}, fam : F] \cup [op : {"deleteRow"}]

\* The columns of a row that the view does not show.
Unseen(view, row) == {c \in row : ~cellAllowed(view, c[1], c[2])}

\* A set that holds 0 and, with a number, the next one holds all numbers.
LEMMA NatSetInduction ==
  ASSUME NEW S, 0 \in S, \A n \in Nat : n \in S => n + 1 \in S
  PROVE  Nat \subseteq S
  <1> DEFINE T == Nat \ S
  <1> SUFFICES ASSUME T # {} PROVE FALSE
    OBVIOUS
  <1>1. PICK x \in T : \A y \in T : x <= y
    <2>1. T \subseteq Nat
      OBVIOUS
    <2> HIDE DEF T
    <2> QED BY <2>1, LeastOf, Zenon
  <1>2. x \in Nat /\ x # 0 /\ x - 1 \in Nat /\ ~(x <= x - 1)
    OBVIOUS
  <1>3. x - 1 \notin T
    BY <1>1, <1>2
  <1> QED BY <1>2, <1>3

AfterFits(f, row, muts, n) ==
  f = [i \in 0..n |-> IF i = 0 THEN row ELSE touched(f[i - 1], muts[i])]

\* The recursive function of rowAfter exists.
LEMMA AfterExists ==
  ASSUME NEW row, NEW muts, NEW k \in Nat
  PROVE  \E f : AfterFits(f, row, muts, k)
  <1> DEFINE S == {n \in Nat : \E f : AfterFits(f, row, muts, n)}
  <1>1. 0 \in S
    <2>1. AfterFits([i \in 0..0 |-> row], row, muts, 0)
      BY DEF AfterFits
    <2> QED BY <2>1
  <1>2. ASSUME NEW n \in Nat, n \in S PROVE n + 1 \in S
    <2>1. PICK f : AfterFits(f, row, muts, n)
      BY <1>2
    <2>2. PICK x : x = touched(f[n], muts[n + 1])
      OBVIOUS
    <2>3. PICK g : g = [i \in 0..(n + 1) |-> IF i = n + 1 THEN x ELSE f[i]]
      BY Zenon
    <2>4. \A i \in 0..n : f[i] = IF i = 0 THEN row ELSE touched(f[i - 1], muts[i])
      BY <2>1 DEF AfterFits
    <2>5. \A i \in 0..(n + 1) : g[i] = IF i = 0 THEN row ELSE touched(g[i - 1], muts[i])
      <3> TAKE i \in 0..(n + 1)
      <3>1. CASE i = n + 1
        <4>1. g[i] = x /\ i # 0 /\ g[i - 1] = f[n] /\ i - 1 = n
          BY <2>3, <3>1
        <4> QED BY <2>2, <3>1, <4>1
      <3>2. CASE i # n + 1
        <4>1. i \in 0..n /\ g[i] = f[i] /\ (i # 0 => g[i - 1] = f[i - 1])
          BY <2>3, <3>2
        <4> QED BY <2>4, <4>1
      <3> QED BY <3>1, <3>2
    <2>6. g = [i \in 0..(n + 1) |-> IF i = 0 THEN row ELSE touched(g[i - 1], muts[i])]
      BY <2>3, <2>5
    <2> QED BY <2>6 DEF AfterFits
  <1>3. Nat \subseteq S
    <2> HIDE DEF S
    <2> QED BY <1>1, <1>2, NatSetInduction
  <1> QED BY <1>3

\* rowAfter is the last of the states the mutations lead through.
LEMMA AfterIs ==
  ASSUME NEW row, NEW muts, Len(muts) \in Nat
  PROVE  \E f : AfterFits(f, row, muts, Len(muts)) /\ rowAfter(row, muts) = f[Len(muts)]
  <1> DEFINE g == CHOOSE f : AfterFits(f, row, muts, Len(muts))
  <1>1. AfterFits(g, row, muts, Len(muts))
    BY AfterExists
  <1>2. rowAfter(row, muts) = g[Len(muts)]
    BY Zenon DEF rowAfter, AfterFits
  <1> HIDE DEF g
  <1> QED BY <1>1, <1>2

\* One mutation that the view allows changes no column it does not show.
LEMMA TouchedUnseen ==
  ASSUME NEW F, NEW view, NEW row \in SUBSET (F \X Key), NEW m \in ColumnMutations(F),
         mutationAllowed(view, m)
  PROVE  touched(row, m) \in SUBSET (F \X Key) /\ Unseen(view, touched(row, m)) = Unseen(view, row)
  <1>1. CASE m \in [op : {"set", "deleteColumn"}, fam : F, col : Key]
    <2>1. cellAllowed(view, m.fam, m.col) /\ <<m.fam, m.col>> \in F \X Key /\ m.op \in {"set", "deleteColumn"}
      BY <1>1 DEF mutationAllowed
    <2>2. touched(row, m) \in {row \cup {<<m.fam, m.col>>}, row \ {<<m.fam, m.col>>}}
      BY <2>1 DEF touched
    <2>3. <<m.fam, m.col>>[1] = m.fam /\ <<m.fam, m.col>>[2] = m.col
      OBVIOUS
    <2> QED BY <2>1, <2>2, <2>3 DEF Unseen
  <1>2. CASE m \in [op : {"deleteFamily"}, fam : F]
    <2>1. familyFullyAllowed(view, m.fam)
      BY <1>2 DEF mutationAllowed
    <2>2. touched(row, m) = {c \in row : c[1] # m.fam}
      BY <1>2 DEF touched
    <2>3. ASSUME NEW c \in row, c[1] = m.fam PROVE cellAllowed(view, c[1], c[2])
      <3>1. c[2] \in Key /\ HasPrefix(c[2], <<>>)
        BY DEF HasPrefix, Key
      <3> QED BY <2>1, <2>3, <3>1 DEF familyFullyAllowed, cellAllowed
    <2> QED BY <2>2, <2>3 DEF Unseen
  <1>3. CASE m \in [op : {"deleteRow"}]
    BY <1>3 DEF mutationAllowed
  <1> QED BY <1>1, <1>2, <1>3 DEF ColumnMutations

\* No sequence of mutations that checkMutations lets through a view changes,
\* removes or adds a column that the view does not show, whatever the view.
THEOREM ViewsContainWrites ==
  ASSUME NEW F, NEW view, NEW key \in Key, NEW row \in SUBSET (F \X Key),
         NEW muts \in Seq(ColumnMutations(F))
  PROVE  StaysInView(view, key, row, muts)
  <1> SUFFICES ASSUME checkMutations(view, key, muts)
               PROVE  rowAfter(row, muts) \ restrict(view, key, rowAfter(row, muts))
                        = row \ restrict(view, key, row)
    BY DEF StaysInView
  <1>1. rowAllowed(view, key) /\ \A i \in 1..Len(muts) : mutationAllowed(view, muts[i])
    BY DEF checkMutations
  <1>2. Len(muts) \in Nat /\ \A i \in 1..Len(muts) : muts[i] \in ColumnMutations(F)
    OBVIOUS
  <1>3. PICK f : AfterFits(f, row, muts, Len(muts)) /\ rowAfter(row, muts) = f[Len(muts)]
    BY <1>2, AfterIs
  <1>4. f[0] = row /\ \A i \in 1..Len(muts) : f[i] = touched(f[i - 1], muts[i])
    BY <1>2, <1>3 DEF AfterFits
  <1> DEFINE Same(i) == f[i] \in SUBSET (F \X Key) /\ Unseen(view, f[i]) = Unseen(view, row)
             S == {i \in Nat : i <= Len(muts) => Same(i)}
  <1>5. 0 \in S
    BY <1>4
  <1>6. ASSUME NEW n \in Nat, n \in S PROVE n + 1 \in S
    <2> SUFFICES ASSUME n + 1 <= Len(muts) PROVE Same(n + 1)
      OBVIOUS
    <2>1. Same(n) /\ n + 1 \in 1..Len(muts) /\ (n + 1) - 1 = n
      BY <1>2, <1>6
    <2>2. f[n + 1] = touched(f[n], muts[n + 1])
      BY <1>4, <2>1
    <2>3. PICK m : m = muts[n + 1]
      OBVIOUS
    <2>4. m \in ColumnMutations(F) /\ mutationAllowed(view, m)
      BY <1>1, <1>2, <2>1, <2>3, ZenonT(30)
    <2>5. touched(f[n], m) \in SUBSET (F \X Key) /\ Unseen(view, touched(f[n], m)) = Unseen(view, f[n])
      BY <2>1, <2>4, TouchedUnseen
    <2> QED BY <2>1, <2>2, <2>3, <2>5
  <1>7. Nat \subseteq S
    <2> HIDE DEF S
    <2> QED BY <1>5, <1>6, NatSetInduction, ZenonT(30)
  <1>8. Unseen(view, rowAfter(row, muts)) = Unseen(view, row)
    BY <1>2, <1>3, <1>7
  <1>9. ASSUME NEW r PROVE r \ restrict(view, key, r) = Unseen(view, r)
    BY <1>1 DEF restrict, Unseen
  <1> QED BY <1>8, <1>9

-----------------------------------------------------------------------------
(* Session streams.  By induction over the requests: the answers so far are  *)
(* those of an unbroken run of requests, and what was granted is what the    *)
(* first of them asked for.                                                  *)

Stream == INSTANCE Sessions

AnyKind == {"open", "read", "write", "other", "unknown", "close"}

AnyPerm == {"none", "read", "write", "readWrite"}
Request == [kind : AnyKind, perm : AnyPerm, id : Nat]

Requested(reqs) ==
  /\ reqs \in Seq(Request)
  /\ \A i \in 1..Len(reqs) : reqs[i].id = i

StreamFits(f, type, reqs, nows, n) ==
  f = [i \in 0..n |-> IF i = 0 THEN Stream!NewStream
                      ELSE Stream!sessionRequest(type, f[i - 1], reqs[i], nows[i])]

Answer == [id : Nat, answer : {"opened", "ok", "denied", "unimplemented"}]
Granting == [open : BOOLEAN, canRead : BOOLEAN, canWrite : BOOLEAN]
Ending == {"no", "closed", "error"}
StreamState == [sess : Granting, sent : Seq(Answer), ended : Ending, wrote : SUBSET Nat]

Granted(type, reqs) == type # "mv" /\ reqs[1].perm # "read"
Writable(now) == now \notin {"gone", "refused", "dataBoost"}

\* After i requests.
StreamAnswered(s, type, reqs, nows, i) ==
  /\ s \in StreamState
  /\ Len(s.sent) <= i /\ ((s.ended = "no") <=> (Len(s.sent) = i))
  /\ Len(s.sent) = 0 => s.sess = Stream!NoSession /\ s.wrote = {}
  /\ Len(s.sent) > 0 => /\ reqs[1].kind = "open" /\ s.sent[1].answer = "opened"
                        /\ s.sess = Stream!sessionPermissions(type, reqs[1].perm)
  /\ \A j \in 2..Len(s.sent) : s.sent[j].id = j /\ reqs[j].kind \in {"read", "write", "other"}
  /\ s.wrote = {j \in 2..Len(s.sent) : reqs[j].kind = "write" /\ Granted(type, reqs) /\ Writable(nows[j])}

\* The recursive function of handleSessionStream exists.
LEMMA StreamExists ==
  ASSUME NEW type, NEW reqs, NEW nows, NEW k \in Nat
  PROVE  \E f : StreamFits(f, type, reqs, nows, k)
  <1> DEFINE S == {n \in Nat : \E f : StreamFits(f, type, reqs, nows, n)}
  <1>1. 0 \in S
    <2>1. StreamFits([i \in 0..0 |-> Stream!NewStream], type, reqs, nows, 0)
      BY DEF StreamFits
    <2> QED BY <2>1
  <1>2. ASSUME NEW n \in Nat, n \in S PROVE n + 1 \in S
    <2>1. PICK f : StreamFits(f, type, reqs, nows, n)
      BY <1>2
    <2>2. PICK x : x = Stream!sessionRequest(type, f[n], reqs[n + 1], nows[n + 1])
      OBVIOUS
    <2>3. PICK g : g = [i \in 0..(n + 1) |-> IF i = n + 1 THEN x ELSE f[i]]
      BY Zenon
    <2>4. \A i \in 0..n : f[i] = IF i = 0 THEN Stream!NewStream
                                 ELSE Stream!sessionRequest(type, f[i - 1], reqs[i], nows[i])
      BY <2>1 DEF StreamFits
    <2>5. \A i \in 0..(n + 1) : g[i] = IF i = 0 THEN Stream!NewStream
                                       ELSE Stream!sessionRequest(type, g[i - 1], reqs[i], nows[i])
      <3> TAKE i \in 0..(n + 1)
      <3>1. CASE i = n + 1
        <4>1. g[i] = x /\ i # 0 /\ g[i - 1] = f[n]
          BY <2>3, <3>1
        <4> QED BY <2>2, <3>1, <4>1
      <3>2. CASE i # n + 1
        <4>1. i \in 0..n /\ g[i] = f[i] /\ (i # 0 => g[i - 1] = f[i - 1])
          BY <2>3, <3>2
        <4> QED BY <2>4, <4>1, ZenonT(30)
      <3> QED BY <3>1, <3>2
    <2>6. g = [i \in 0..(n + 1) |-> IF i = 0 THEN Stream!NewStream
                                    ELSE Stream!sessionRequest(type, g[i - 1], reqs[i], nows[i])]
      BY <2>3, <2>5
    <2> QED BY <2>6 DEF StreamFits
  <1>3. Nat \subseteq S
    <2> HIDE DEF S
    <2> QED BY <1>1, <1>2, NatSetInduction
  <1> QED BY <1>3

\* handleSessionStream ends in the last of the states of its loop.
LEMMA StreamIs ==
  ASSUME NEW type, NEW reqs, NEW nows, Len(reqs) \in Nat
  PROVE  \E f : /\ StreamFits(f, type, reqs, nows, Len(reqs))
                /\ Stream!handleSessionStream(type, reqs, nows) = f[Len(reqs)]
  <1> DEFINE g == CHOOSE f : StreamFits(f, type, reqs, nows, Len(reqs))
  <1>1. StreamFits(g, type, reqs, nows, Len(reqs))
    BY StreamExists
  <1>2. Stream!handleSessionStream(type, reqs, nows) = g[Len(reqs)]
    BY Zenon DEF Stream!handleSessionStream, StreamFits
  <1> HIDE DEF g
  <1> QED BY <1>1, <1>2

\* The three things a request does to a stream: end it, open it, or be answered.
Ends(s, t) == t.sess = s.sess /\ t.sent = s.sent /\ t.wrote = s.wrote /\ t.ended \in {"closed", "error"}

Opens(s, t, type, q) ==
  /\ q.kind = "open" /\ ~s.sess.open
  /\ t.sess = Stream!sessionPermissions(type, q.perm)
  /\ t.sent = Append(s.sent, [id |-> 0, answer |-> "opened"])
  /\ t.wrote = s.wrote /\ t.ended = s.ended

Answers(s, t, q, now) ==
  /\ q.kind \in {"read", "write", "other"} /\ s.sess.open
  /\ \E x \in Answer : x.id = q.id /\ t.sent = Append(s.sent, x)
  /\ t.wrote = IF q.kind = "write" /\ s.sess.canWrite /\ Writable(now) THEN s.wrote \cup {q.id} ELSE s.wrote
  /\ t.sess = s.sess /\ t.ended = s.ended

\* What a request does to a stream that has not ended.
LEMMA RequestIs ==
  ASSUME NEW type, NEW s \in StreamState, NEW now, NEW q \in Request,
         s.ended = "no", NEW t, t = Stream!sessionRequest(type, s, q, now)
  PROVE  t \in StreamState /\ (Ends(s, t) \/ Opens(s, t, type, q) \/ Answers(s, t, q, now))
  <1>0. q.kind \in AnyKind /\ q.id \in Nat
    BY DEF Request
  <1>1. ASSUME NEW e \in {"closed", "error"}, t = [s EXCEPT !.ended = e]
        PROVE  t \in StreamState /\ Ends(s, t)
    <2>1. e \in Ending
      BY DEF Ending
    <2>2. t = [sess |-> s.sess, sent |-> s.sent, ended |-> e, wrote |-> s.wrote]
      BY <1>1 DEF StreamState
    <2> QED BY <2>1, <2>2 DEF StreamState, Ends
  <1>2. CASE q.kind = "close"
    <2>1. t = [s EXCEPT !.ended = "closed"]
      BY <1>2 DEF Stream!sessionRequest
    <2> QED BY <1>1, <2>1
  <1>3. CASE q.kind = "open"
    <2>1. PICK o : o = Stream!openSession(type, q.perm, now)
      OBVIOUS
    <2>2. o = Stream!sessionPermissions(type, q.perm) \/ o = Stream!NoSession
      BY <2>1 DEF Stream!openSession
    <2>3. t = IF s.sess.open \/ ~o.open THEN [s EXCEPT !.ended = "error"]
              ELSE [s EXCEPT !.sess = o, !.sent = Append(s.sent, [id |-> 0, answer |-> "opened"])]
      BY <1>3, <2>1 DEF Stream!sessionRequest
    <2>4. CASE s.sess.open \/ ~o.open
      BY <1>1, <2>3, <2>4
    <2>5. CASE ~(s.sess.open \/ ~o.open)
      <3>1. o = Stream!sessionPermissions(type, q.perm)
        BY <2>2, <2>5 DEF Stream!NoSession
      <3>2. t = [s EXCEPT !.sess = o, !.sent = Append(s.sent, [id |-> 0, answer |-> "opened"])]
        BY <2>3, <2>5
      <3>6. PICK x : x = [id |-> 0, answer |-> "opened"]
        BY Zenon
      <3>7. x \in Answer
        BY <3>6 DEF Answer
      <3>8. o \in Granting
        BY <3>1, Zenon DEF Granting, Stream!sessionPermissions
      <3>0. t = [sess |-> o, sent |-> Append(s.sent, x), ended |-> s.ended, wrote |-> s.wrote]
        <4>1. PICK u, y : u = [s EXCEPT !.sess = o] /\ y = Append(s.sent, x)
          BY Zenon
        <4>2. u = [sess |-> o, sent |-> s.sent, ended |-> s.ended, wrote |-> s.wrote]
          BY <4>1 DEF StreamState
        <4>3. u \in StreamState
          BY <3>8, <4>2 DEF StreamState
        <4>4. t = [u EXCEPT !.sent = y]
          BY <3>2, <3>6, <4>1, Zenon
        <4>5. t = [sess |-> o, sent |-> y, ended |-> s.ended, wrote |-> s.wrote]
          BY <4>2, <4>3, <4>4, ZenonT(30) DEF StreamState
        <4> QED BY <4>1, <4>5, Zenon
      <3>3. Opens(s, t, type, q)
        BY <1>3, <2>5, <3>1, <3>0, <3>6 DEF Opens
      <3>4. t \in StreamState
        BY <3>7, <3>8, <3>0 DEF StreamState
      <3> QED BY <3>3, <3>4
    <2> QED BY <2>4, <2>5
  <1>4. CASE q.kind \in {"read", "write", "other", "unknown"}
    <2>1. PICK a : a = Stream!sessionVirtualRPC(s.sess, q, now)
      OBVIOUS
    <2>2. a \in {"ok", "denied", "unimplemented"}
      BY <2>1 DEF Stream!sessionVirtualRPC
    <2>3. q.kind = "write" => ((a = "ok") <=> (s.sess.canWrite /\ Writable(now)))
      BY <2>1 DEF Stream!sessionVirtualRPC, Stream!writeTarget, Stream!readTarget, Stream!mayWrite, Writable
    <2>4. t = IF ~s.sess.open \/ q.kind = "unknown" THEN [s EXCEPT !.ended = "error"]
              ELSE [s EXCEPT !.sent = Append(s.sent, [id |-> q.id, answer |-> a]),
                             !.wrote = IF q.kind = "write" /\ a = "ok" THEN s.wrote \cup {q.id} ELSE s.wrote]
      BY <1>4, <2>1 DEF Stream!sessionRequest
    <2>5. CASE ~s.sess.open \/ q.kind = "unknown"
      BY <1>1, <2>4, <2>5
    <2>6. CASE ~(~s.sess.open \/ q.kind = "unknown")
      <3>1. PICK w : w = IF q.kind = "write" /\ a = "ok" THEN s.wrote \cup {q.id} ELSE s.wrote
        BY Zenon
      <3>2. t = [s EXCEPT !.sent = Append(s.sent, [id |-> q.id, answer |-> a]), !.wrote = w]
        BY <2>4, <2>6, <3>1
      <3>3. PICK x : x = [id |-> q.id, answer |-> a]
        BY Zenon
      <3>8. x \in Answer /\ x.id = q.id
        BY <1>0, <2>2, <3>3 DEF Answer
      <3>10. w \in SUBSET Nat
        BY <1>0, <3>1 DEF StreamState
      <3>9. t = [sess |-> s.sess, sent |-> Append(s.sent, x), ended |-> s.ended, wrote |-> w]
        <4>0. PICK y : y = Append(s.sent, x)
          BY Zenon
        <4>1. PICK u : u = [s EXCEPT !.sent = y]
          BY Zenon
        <4>2. u = [sess |-> s.sess, sent |-> y, ended |-> s.ended, wrote |-> s.wrote]
          BY <4>1 DEF StreamState
        <4>3. y \in Seq(Answer)
          BY <3>8, <4>0 DEF StreamState
        <4>6. u \in StreamState
          BY <4>2, <4>3 DEF StreamState
        <4>4. t = [u EXCEPT !.wrote = w]
          BY <3>2, <3>3, <4>0, <4>1, Zenon
        <4>5. t = [sess |-> s.sess, sent |-> y, ended |-> s.ended, wrote |-> w]
          BY <4>2, <4>4, <4>6 DEF StreamState
        <4> QED BY <4>0, <4>5, Zenon
      <3>4. t \in StreamState
        BY <3>8, <3>9, <3>10 DEF StreamState
      <3>5. w = IF q.kind = "write" /\ s.sess.canWrite /\ Writable(now) THEN s.wrote \cup {q.id} ELSE s.wrote
        BY <2>3, <3>1
      <3>6. t.sent = Append(s.sent, x) /\ t.wrote = w /\ t.sess = s.sess /\ t.ended = s.ended
        BY <3>9
      <3>7. Answers(s, t, q, now)
        BY <1>4, <2>6, <3>5, <3>6, <3>8, ZenonT(30) DEF Answers
      <3> QED BY <3>4, <3>7
    <2> QED BY <2>5, <2>6
  <1> QED BY <1>0, <1>2, <1>3, <1>4 DEF AnyKind

\* One request more.
LEMMA RequestKeeps ==
  ASSUME NEW type, NEW reqs, Requested(reqs), NEW nows, NEW n \in Nat, n + 1 <= Len(reqs),
         NEW s, StreamAnswered(s, type, reqs, nows, n),
         NEW t, t = Stream!sessionRequest(type, s, reqs[n + 1], nows[n + 1])
  PROVE  StreamAnswered(t, type, reqs, nows, n + 1)
  <1>0. s \in StreamState /\ s.sent \in Seq(Answer) /\ Len(s.sent) \in Nat
    <2>1. s \in StreamState
      BY Zenon DEF StreamAnswered
    <2>2. s.sent \in Seq(Answer)
      BY <2>1 DEF StreamState
    <2> QED BY <2>1, <2>2
  <1>a. /\ Len(s.sent) <= n /\ ((s.ended = "no") <=> (Len(s.sent) = n))
        /\ Len(s.sent) = 0 => s.sess = Stream!NoSession /\ s.wrote = {}
        /\ Len(s.sent) > 0 => /\ reqs[1].kind = "open" /\ s.sent[1].answer = "opened"
                              /\ s.sess = Stream!sessionPermissions(type, reqs[1].perm)
    BY Zenon DEF StreamAnswered
  <1>b. \A j \in 2..Len(s.sent) : s.sent[j].id = j /\ reqs[j].kind \in {"read", "write", "other"}
    BY Zenon DEF StreamAnswered
  <1>c. s.wrote = {j \in 2..Len(s.sent) : reqs[j].kind = "write" /\ Granted(type, reqs) /\ Writable(nows[j])}
    BY Zenon DEF StreamAnswered
  <1>1. CASE s.ended # "no"
    <2>1. t = s
      BY <1>1, Zenon DEF Stream!sessionRequest
    <2>2. Len(s.sent) <= n + 1 /\ Len(s.sent) # n + 1
      BY <1>0, <1>a
    <2> QED BY <1>0, <1>1, <1>a, <1>b, <1>c, <2>1, <2>2, ZenonT(30) DEF StreamAnswered
  <1>2. CASE s.ended = "no"
    <2>0. PICK q, now : q = reqs[n + 1] /\ now = nows[n + 1]
      BY Zenon
    <2>1. q \in Request /\ q.id = n + 1 /\ Len(s.sent) = n
      <3>1. q \in Request /\ q.id = n + 1
        <4>1. n + 1 \in 1..Len(reqs) /\ reqs \in Seq(Request)
          BY DEF Requested
        <4> QED BY <2>0, <4>1 DEF Requested
      <3> QED BY <1>2, <1>a, <3>1, Zenon
    <2>2. t \in StreamState /\ (Ends(s, t) \/ Opens(s, t, type, q) \/ Answers(s, t, q, now))
      BY <1>0, <1>2, <2>0, <2>1, RequestIs, ZenonT(30)
    <2>3. CASE Ends(s, t)
      <3>1. t.sess = s.sess /\ t.sent = s.sent /\ t.wrote = s.wrote /\ t.ended # "no"
        BY <2>3, ZenonT(30) DEF Ends
      <3>2. Len(s.sent) <= n + 1 /\ Len(s.sent) # n + 1
        BY <2>1
      <3> QED BY <1>a, <1>b, <1>c, <2>2, <3>1, <3>2, ZenonT(30) DEF StreamAnswered
    <2>4. CASE Opens(s, t, type, q)
      <3>1. n = 0
        <4>1. Stream!sessionPermissions(type, reqs[1].perm).open
          BY ZenonT(30) DEF Stream!sessionPermissions
        <4>2. n # 0 => Len(s.sent) > 0
          BY <2>1
        <4> QED BY <1>a, <2>4, <4>1, <4>2, Zenon DEF Opens
      <3>2. PICK x \in Answer : x = [id |-> 0, answer |-> "opened"] /\ x.answer = "opened"
        <4>1. PICK y : y = [id |-> 0, answer |-> "opened"]
          BY Zenon
        <4>2. y \in Answer /\ y.answer = "opened"
          BY <4>1 DEF Answer
        <4> QED BY <4>1, <4>2, Zenon
      <3>3. t.sent = Append(s.sent, x) /\ t.wrote = {} /\ t.ended = "no"
        BY <1>2, <1>a, <2>1, <2>4, <3>1, <3>2, ZenonT(30) DEF Opens
      <3>4. Len(t.sent) = 1 /\ t.sent[1] = x
        <4>1. Len(t.sent) = n + 1 /\ t.sent[n + 1] = x
          BY <1>0, <2>1, <3>3
        <4>2. n + 1 = 1
          BY <3>1
        <4> QED BY <4>1, <4>2, Zenon
      <3>5. t.sent[1].answer = "opened"
        BY <3>2, <3>4, Zenon
      <3>6. /\ Len(t.sent) <= n + 1 /\ Len(t.sent) = n + 1 /\ Len(t.sent) # 0 /\ 2..Len(t.sent) = {}
            /\ reqs[n + 1] = reqs[1]
        <4>1. n + 1 = 1 /\ 2..1 = {} /\ 1 <= 1 /\ 1 # 0
          BY <3>1
        <4> QED BY <3>4, <4>1, Zenon
      <3>7. reqs[1].kind = "open" /\ t.sess = Stream!sessionPermissions(type, reqs[1].perm)
        BY <2>0, <2>4, <3>6, Zenon DEF Opens
      <3>8. t.wrote = {j \in 2..Len(t.sent) : reqs[j].kind = "write" /\ Granted(type, reqs) /\ Writable(nows[j])}
        BY <3>3, <3>6, ZenonT(30)
      <3>9. \A j \in 2..Len(t.sent) : t.sent[j].id = j /\ reqs[j].kind \in {"read", "write", "other"}
        BY <3>6, ZenonT(30)
      <3> QED BY <2>2, <3>3, <3>5, <3>6, <3>7, <3>8, <3>9, ZenonT(30) DEF StreamAnswered
    <2>5. CASE Answers(s, t, q, now)
      <3>1. n > 0
        <4>1. ~Stream!NoSession.open
          BY ZenonT(30) DEF Stream!NoSession
        <4>2. n # 0
          BY <1>a, <2>1, <2>5, <4>1, Zenon DEF Answers
        <4> QED BY <4>2
      <3>2. /\ Len(t.sent) = n + 1 /\ t.sent[n + 1].id = n + 1
            /\ \A j \in 1..n : t.sent[j] = s.sent[j]
        <4>1. PICK x \in Answer : x.id = n + 1 /\ t.sent = Append(s.sent, x)
          BY <2>1, <2>5, Zenon DEF Answers
        <4>2. /\ Len(t.sent) = n + 1 /\ t.sent[n + 1] = x
              /\ \A j \in 1..n : t.sent[j] = s.sent[j]
          BY <1>0, <2>1, <4>1
        <4> QED BY <4>1, <4>2, Zenon
      <3>a. /\ reqs[1].kind = "open" /\ s.sent[1].answer = "opened"
            /\ s.sess = Stream!sessionPermissions(type, reqs[1].perm)
        BY <1>a, <2>1, <3>1, Zenon
      <3>3. s.sess.canWrite <=> Granted(type, reqs)
        <4>1. Stream!sessionPermissions(type, reqs[1].perm).canWrite <=> Granted(type, reqs)
          BY Zenon DEF Stream!sessionPermissions, Granted
        <4> QED BY <3>a, <4>1, Zenon
      <3>4. \A j \in 2..(n + 1) : t.sent[j].id = j /\ reqs[j].kind \in {"read", "write", "other"}
        <4> SUFFICES ASSUME NEW j \in 2..(n + 1)
                     PROVE  t.sent[j].id = j /\ reqs[j].kind \in {"read", "write", "other"}
          BY Zenon
        <4>1. CASE j = n + 1
          BY <2>0, <2>5, <3>2, <4>1, ZenonT(30) DEF Answers
        <4>2. CASE j # n + 1
          <5>1. j \in 2..n /\ j \in 1..n
            BY <4>2
          <5> QED BY <1>b, <2>1, <3>2, <5>1, ZenonT(30)
        <4> QED BY <4>1, <4>2
      <3>5. t.wrote = {j \in 2..(n + 1) : reqs[j].kind = "write" /\ Granted(type, reqs) /\ Writable(nows[j])}
        <4>1. s.wrote = {j \in 2..n : reqs[j].kind = "write" /\ Granted(type, reqs) /\ Writable(nows[j])}
          BY <1>c, <2>1, ZenonT(30)
        <4>2. t.wrote = IF q.kind = "write" /\ Granted(type, reqs) /\ Writable(now)
                        THEN s.wrote \cup {n + 1} ELSE s.wrote
          BY <2>1, <2>5, <3>3, ZenonT(30) DEF Answers
        <4> QED BY <2>0, <3>1, <4>1, <4>2
      <3>6. t.sent[1].answer = "opened" /\ t.sess = s.sess /\ t.ended = "no"
        <4>1. 1 \in 1..n
          BY <3>1
        <4> QED BY <1>2, <2>5, <3>2, <3>a, <4>1, Zenon DEF Answers
      <3>7. Len(t.sent) <= n + 1 /\ Len(t.sent) # 0
        BY <3>2
      <3> QED BY <2>2, <3>2, <3>4, <3>5, <3>6, <3>7, <3>a, ZenonT(30) DEF StreamAnswered
    <2> QED BY <2>2, <2>3, <2>4, <2>5, Zenon
  <1> QED BY <1>1, <1>2, Zenon

\* A session stream of any length keeps its contract, whatever becomes of its
\* target meanwhile: answers in order and with their ids up to the request that
\* ends it, and rows written exactly where the session may write and the target
\* could be written as of that request.
THEOREM SessionsKeepContract ==
  ASSUME NEW type, NEW reqs, Requested(reqs), NEW nows
  PROVE  Stream!ContractHolds(type, reqs, nows)
  <1>1. Len(reqs) \in Nat
    BY DEF Requested
  <1>2. PICK f : /\ StreamFits(f, type, reqs, nows, Len(reqs))
                 /\ Stream!handleSessionStream(type, reqs, nows) = f[Len(reqs)]
    BY <1>1, StreamIs, ZenonT(30)
  <1>3. /\ f[0] = Stream!NewStream
        /\ \A i \in 1..Len(reqs) : f[i] = Stream!sessionRequest(type, f[i - 1], reqs[i], nows[i])
    BY <1>1, <1>2 DEF StreamFits
  <1> DEFINE S == {i \in Nat : i <= Len(reqs) => StreamAnswered(f[i], type, reqs, nows, i)}
  <1>4. 0 \in S
    <2>1. StreamAnswered(Stream!NewStream, type, reqs, nows, 0)
      <3>1. PICK s : s = Stream!NewStream
        OBVIOUS
      <3>2. s.sess = Stream!NoSession /\ s.sent = <<>> /\ s.ended = "no" /\ s.wrote = {}
        BY <3>1 DEF Stream!NewStream
      <3>3. s \in StreamState
        <4>1. Stream!NoSession \in Granting
          BY Zenon DEF Granting, Stream!NoSession
        <4>2. <<>> \in Seq(Answer) /\ "no" \in Ending /\ {} \in SUBSET Nat
          BY DEF Ending
        <4> QED BY <3>1, <4>1, <4>2, Zenon DEF StreamState, Stream!NewStream
      <3>4. Len(s.sent) = 0 /\ 2..Len(s.sent) = {}
        BY <3>2
      <3>5. s.wrote = {j \in 2..Len(s.sent) : reqs[j].kind = "write" /\ Granted(type, reqs) /\ Writable(nows[j])}
        BY <3>2, <3>4
      <3> QED BY <3>1, <3>2, <3>3, <3>4, <3>5 DEF StreamAnswered
    <2> QED BY <1>3, <2>1
  <1>5. ASSUME NEW n \in Nat, n \in S PROVE n + 1 \in S
    <2> SUFFICES ASSUME n + 1 <= Len(reqs) PROVE StreamAnswered(f[n + 1], type, reqs, nows, n + 1)
      OBVIOUS
    <2>1. StreamAnswered(f[n], type, reqs, nows, n)
      BY <1>1, <1>5
    <2>2. f[n + 1] = Stream!sessionRequest(type, f[n], reqs[n + 1], nows[n + 1])
      BY <1>1, <1>3
    <2> QED BY <2>1, <2>2, RequestKeeps
  <1>6. Nat \subseteq S
    <2> HIDE DEF S
    <2> QED BY <1>4, <1>5, NatSetInduction
  <1>7. StreamAnswered(f[Len(reqs)], type, reqs, nows, Len(reqs))
    BY <1>1, <1>6
  <1>8. PICK s : s = f[Len(reqs)]
    BY Zenon
  <1>9. /\ Len(s.sent) > 0 => reqs[1].kind = "open" /\ s.sent[1].answer = "opened"
        /\ \A j \in 2..Len(s.sent) : s.sent[j].id = j /\ reqs[j].kind \in {"read", "write", "other"}
        /\ s.wrote = {j \in 2..Len(s.sent) :
                         reqs[j].kind = "write" /\ Granted(type, reqs) /\ Writable(nows[j])}
        /\ (s.ended = "no") <=> (Len(s.sent) = Len(reqs))
    BY <1>7, <1>8, ZenonT(30) DEF StreamAnswered
  <1>10. Stream!handleSessionStream(type, reqs, nows) = s
    BY <1>2, <1>8, Zenon
  <1> QED BY <1>9, <1>10, ZenonT(30) DEF Stream!ContractHolds, Granted, Writable
=============================================================================
