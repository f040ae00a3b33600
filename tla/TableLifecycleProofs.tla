------------------------ MODULE TableLifecycleProofs ------------------------
(***************************************************************************)
(* Theorems about TableLifecycle for every number of handlers, families,   *)
(* clock bound and window.  They are about Spec, without the storage       *)
(* errors of FaultySpec, and leave out the two kinds of requests that      *)
(* break them (Benign): views created for a table resolved earlier, and    *)
(* DeleteInstance under running requests.                                  *)
(***************************************************************************)
EXTENDS TableLifecycle, TLAPS

Benign ==
    /\ "view" \notin Ops
    /\ "deleteInstance" \notin Ops

USE LifecycleAssumption DEF Times, StorageIds

(* Storage id 0 is the one a live table has: tombstones are later times. *)
LEMMA ZeroStorageId == 0 \in StorageIds
OBVIOUS

(* The parts of the object newTable makes. *)
LEMMA NewTableParts ==
    ASSUME IInv, NEW p \in Ptrs, NEW F, NEW b,
           obj' = [obj EXCEPT ![p] = [fams |-> F, prot |-> b, created |-> clock,
                                      del |-> 0, sid |-> 0]]
    PROVE  obj'[p].fams = F /\ obj'[p].prot = b /\ obj'[p].created = clock /\ obj'[p].sid = 0
BY DEF IInv, TypeOK

(* The initial state satisfies the inductive invariant. *)
LEMMA InitIInv == Init => IInv
<1> SUFFICES ASSUME Init PROVE IInv
  OBVIOUS
<1>1. TypeOK
  BY DEF Init, TypeOK, Blank, Object, Requests
<1>2. MemoryMatchesStore /\ RowsInFamilies
  BY DEF Init, MemoryMatchesStore, RowsInFamilies
<1>3. Blanks
  BY DEF Init, Blanks
<1>4. \A h \in Handlers : Handles(h)
  BY DEF Init, Handles, Idle, DataOps
<1> QED
  BY <1>1, <1>2, <1>3, <1>4 DEF IInv, Init

(* Deleting a table and doing nothing are not data requests. *)
LEMMA NotData == "delete" \notin DataOps /\ Idle.op \notin DataOps
BY DEF Idle, DataOps

(* The tombstones the service sees are a function of the deletion times. *)
LEMMA TombsFunction ==
    tombsBar = [id \in Times |-> tombsBar[id]] /\ tombsBar' = [id \in Times |-> tombsBar'[id]]
BY DEF tombsBar

(* The table the service sees when only the rows change. *)
LEMMA TableRows ==
    ASSUME NEW p, NEW R
    PROVE  /\ TableOf(p).fams = obj[p].fams /\ TableOf(p).rows = rows_t[obj[p].sid]
           /\ [TableOf(p) EXCEPT !.rows = R] =
                [fams |-> obj[p].fams, rows |-> R, views |-> authorized_views_t[obj[p].sid],
                 prot |-> obj[p].prot, created |-> obj[p].created]
BY DEF TableOf

(* encodeMetadata forgets only the storage id, and yields a record. *)
LEMMA EncodeType ==
    ASSUME NEW t \in Object
    PROVE  encodeMetadata(t) \in Meta /\ encodeMetadata(t) # None
BY NoneAssumption DEF Object, Meta, encodeMetadata

(* What a handler with a pending data request may rely on: the object it   *)
(* points to still owns the record of its storage id.                      *)
LEMMA PendingObject ==
    ASSUME IInv, NEW h \in Handlers, req[h].op \in DataOps
    PROVE  LET p == req[h].ptr IN
           /\ p \in Ptrs /\ obj[p] \in Object /\ req[h].at \in Times
           /\ obj[p].sid \in StorageIds /\ obj[p].sid =< clock
           /\ tables_t[obj[p].sid] = encodeMetadata(obj[p])
           /\ obj[p].sid = 0 <=> p = tables
           /\ obj[p].sid # 0 => deletedTables[obj[p].sid] = p /\ obj[p].sid > req[h].at
<1> DEFINE p == req[h].ptr
<1>1. p \in Ptrs /\ req[h].at \in Times
  BY DEF IInv, TypeOK, Requests, Idle, DataOps
<1>2. obj[p] \in Object /\ obj[p].sid \in StorageIds /\ clock \in Nat
  <2>1. obj \in [Ptrs -> Object] /\ clock \in Times
    BY DEF IInv, TypeOK
  <2>2. obj[p] \in Object
    BY <1>1, <2>1
  <2>3. \A o \in Object : o.sid \in StorageIds
    BY DEF Object
  <2>4. clock \in Nat
    BY <2>1
  <2> QED
    BY <2>2, <2>3, <2>4, Zenon
<1>3. CASE p = tables
  <2>1. tables # None
    BY <1>1, <1>3
  <2>2. obj[p].sid = 0 /\ tables_t[0] = encodeMetadata(obj[p])
    BY <1>3, <2>1 DEF IInv, MemoryMatchesStore
  <2> QED
    BY <1>1, <1>2, <1>3, <2>1, <2>2
<1>4. CASE p # tables
  <2>1. obj[p].sid > req[h].at /\ deletedTables[obj[p].sid] = p
        /\ clock =< req[h].at + MaxLatency
    BY <1>4 DEF IInv, Handles
  <2>2. obj[p].sid # 0 /\ p # None
    BY <1>1, <1>2, <2>1
  <2>3. obj[p].sid =< clock
    BY <1>2, <2>1, <2>2 DEF IInv, Blanks
  <2>4. ~ (clock - obj[p].sid > Window)
    BY <1>1, <1>2, <2>1
  <2>5. tables_t[obj[p].sid] = encodeMetadata(obj[p])
    BY <1>2, <2>1, <2>2, <2>4 DEF IInv, MemoryMatchesStore
  <2> QED
    BY <1>1, <1>2, <1>4, <2>1, <2>2, <2>3, <2>5
<1> QED
  BY <1>3, <1>4

(* Steps that only move the clock or the requests. *)
LEMMA TickIInv == IInv /\ Tick => IInv'
<1> SUFFICES ASSUME IInv, Tick PROVE IInv'
  OBVIOUS
<1> USE DEF Tick, TimeMayPass
<1>1. clock \in Nat /\ clock' = clock + 1 /\ clock' \in Times
  BY DEF IInv, TypeOK
<1>2. TypeOK'
  BY <1>1 DEF IInv, TypeOK
<1>3. MemoryMatchesStore'
  BY <1>1 DEF IInv, MemoryMatchesStore
<1>4. RowsInFamilies'
  BY DEF IInv, RowsInFamilies
<1>5. Blanks'
  <2>1. tables # None => obj[tables].created \in Nat
    BY DEF IInv, TypeOK, Object
  <2> QED
    BY <1>1, <2>1 DEF IInv, Blanks
<1>6. \A h \in Handlers : Handles(h)'
  <2> TAKE h \in Handlers
  <2>1. req[h].op \in DataOps => req[h].at \in Nat
    BY PendingObject
  <2> QED
    BY <1>1, <2>1 DEF IInv, Handles
<1> QED
  BY <1>2, <1>3, <1>4, <1>5, <1>6 DEF IInv

(* Resolving a table records a claim on the live object. *)
LEMMA ResolveIInv ==
    ASSUME IInv, NEW h \in Handlers, NEW op \in DataOps, localRequireTable(h, op)
    PROVE  IInv'
<1> USE DEF localRequireTable
<1>1. tables \in Ptrs /\ clock \in Times
  BY DEF IInv, TypeOK
<1>2. TypeOK'
  BY <1>1 DEF IInv, TypeOK, Requests, DataOps
<1>3. MemoryMatchesStore' /\ RowsInFamilies' /\ Blanks'
  BY DEF IInv, MemoryMatchesStore, RowsInFamilies, Blanks
<1>4. \A g \in Handlers : Handles(g)'
  <2> TAKE g \in Handlers
  <2>1. CASE g = h
    <3>1. req'[h] = [op |-> op, ptr |-> tables, at |-> clock]
      BY DEF IInv, TypeOK
    <3>2. obj[tables].created =< clock
      BY DEF IInv, Blanks
    <3> QED
      BY <1>1, <2>1, <3>1, <3>2 DEF Handles, DataOps
  <2>2. CASE g # h
    <3>1. req'[g] = req[g]
      BY <2>2 DEF IInv, TypeOK
    <3> QED
      BY <3>1 DEF IInv, Handles
  <2> QED
    BY <2>1, <2>2
<1> QED
  BY <1>2, <1>3, <1>4 DEF IInv

(* Answering a data request leaves the other handlers' claims alone. *)
LEMMA AnswerType ==
    ASSUME IInv, NEW h \in Handlers, Answer(h)
    PROVE  /\ req' \in [Handlers -> Requests]
           /\ req'[h] = Idle
           /\ \A g \in Handlers : g # h => req'[g] = req[g]
BY DEF IInv, TypeOK, Answer, Requests

(* An idle handler claims nothing. *)
LEMMA IdleHandle ==
    ASSUME NEW g \in Handlers, req'[g] = Idle
    PROVE  Handles(g)'
BY DEF Handles, Idle, DataOps

(* A handler keeps its claim while its request, its object's identity and  *)
(* the entry it was resolved from stay as they are.                        *)
LEMMA HandleKept ==
    ASSUME NEW g \in Handlers, Handles(g), req'[g] = req[g], clock' = clock,
           req[g].op = "delete" => mu' = mu /\ tables' = tables,
           NEW p, p = req[g].ptr,
           req[g].op \in DataOps =>
             /\ obj'[p].created = obj[p].created
             /\ obj'[p].sid = obj[p].sid
             /\ \/ p = tables /\ tables' = tables
                \/ p # tables /\ deletedTables'[obj[p].sid] = deletedTables[obj[p].sid]
    PROVE  Handles(g)'
BY Zenon DEF Handles

(* What MemoryMatchesStore says of one tombstone. *)
LEMMA TombstoneRecord ==
    ASSUME IInv, NEW id \in StorageIds \ {0}
    PROVE  IF deletedTables[id] = None
           THEN tables_t[id] = None
           ELSE LET t == obj[deletedTables[id]]
                IN  /\ t.sid = id
                    /\ t.del = id
                    /\ \/ tables_t[id] = encodeMetadata(t)
                       \/ tables_t[id] = None /\ clock - id > Window
BY DEF IInv, MemoryMatchesStore

(* A request that fails leaves everything but its own handler alone. *)
LEMMA FailIInv ==
    ASSUME IInv, NEW h \in Handlers, RequestFails(h)
    PROVE  IInv'
<1> USE DEF RequestFails
<1>1. TypeOK'
  BY AnswerType DEF IInv, TypeOK
<1>2. MemoryMatchesStore' /\ RowsInFamilies' /\ Blanks'
  BY DEF IInv, MemoryMatchesStore, RowsInFamilies, Blanks
<1>3. \A g \in Handlers : Handles(g)'
  BY AnswerType DEF IInv, Handles, Idle, DataOps
<1>4. mu' # None => req'[mu'].op = "delete"
  BY AnswerType DEF IInv, DataOps, TypeOK
<1> QED
  BY <1>1, <1>2, <1>3, <1>4 DEF IInv

(* A request carried out through the object it resolved: object and record *)
(* change together, and the rows stay inside the families.                 *)
LEMMA CarryIInv ==
    ASSUME IInv, NEW h \in Handlers, req[h].op \in DataOps, Answer(h),
           NEW t \in Object, NEW R \in SUBSET t.fams,
           t.sid = obj[req[h].ptr].sid,
           t.del = obj[req[h].ptr].del,
           t.created = obj[req[h].ptr].created,
           obj' = [obj EXCEPT ![req[h].ptr] = t],
           tables_t' = [tables_t EXCEPT ![t.sid] = encodeMetadata(t)],
           rows_t' = [rows_t EXCEPT ![t.sid] = R],
           UNCHANGED <<clock, mu, tables, deletedTables, authorized_views_t>>
    PROVE  IInv'
<1> DEFINE p == req[h].ptr
<1> DEFINE s == t.sid
<1>1. /\ p \in Ptrs /\ s \in StorageIds /\ s =< clock
      /\ obj[p].sid = s
      /\ (s = 0 <=> p = tables)
      /\ (s # 0 => deletedTables[s] = p)
      /\ tables_t[s] = encodeMetadata(obj[p])
  BY PendingObject, Zenon
<1>2. /\ encodeMetadata(t) \in Meta /\ encodeMetadata(t) # None
      /\ encodeMetadata(t).fams = t.fams
  BY EncodeType DEF encodeMetadata
<1>3. R \in SUBSET Fams
  BY ZenonT(30) DEF Object
<1>4. /\ obj'[p] = t
      /\ \A q \in Ptrs : q # p => obj'[q] = obj[q]
  BY <1>1, ZenonT(30) DEF IInv, TypeOK
<1>5. /\ tables_t'[s] = encodeMetadata(t) /\ rows_t'[s] = R
      /\ \A id \in StorageIds : id # s => tables_t'[id] = tables_t[id] /\ rows_t'[id] = rows_t[id]
  BY <1>1, ZenonT(30) DEF IInv, TypeOK
<1>6. TypeOK'
  BY <1>1, <1>2, <1>3, AnswerType, ZenonT(30) DEF IInv, TypeOK
<1>7. tables # None => tables \in Ptrs
  BY DEF IInv, TypeOK
<1>8. \A id \in StorageIds : deletedTables[id] # None => deletedTables[id] \in Ptrs
  BY ZenonT(30) DEF IInv, TypeOK
<1>9. \A id \in StorageIds \ {0} : deletedTables[id] = p => id = s
  BY <1>1, ZenonT(30) DEF IInv, MemoryMatchesStore
<1> HIDE DEF p, s
<1>10. MemoryMatchesStore'
  <2>1. CASE s = 0
    <3>1. tables = p /\ tables # None
      BY <1>1, <2>1
    <3>2. \A id \in StorageIds \ {0} : deletedTables[id] # p
      BY <1>9, <2>1, ZenonT(30)
    <3> QED
      BY <1>1, <1>4, <1>5, <1>8, <2>1, <3>1, <3>2 DEF IInv, MemoryMatchesStore, s
  <2>2. CASE s # 0
    <3>1. tables # p /\ 0 # s
      BY <1>1, <2>2
    <3>2. IF tables' = None THEN tables_t'[0] = None
          ELSE obj'[tables'].sid = 0 /\ tables_t'[0] = encodeMetadata(obj'[tables'])
      BY <1>1, <1>4, <1>5, <1>7, <3>1 DEF IInv, MemoryMatchesStore
    <3>3. ASSUME NEW id \in StorageIds \ {0}, deletedTables[id] # None, id # s
          PROVE  obj'[deletedTables[id]] = obj[deletedTables[id]]
      BY <1>4, <1>8, <1>9, <3>3
    <3>4. obj[p].del = s
      BY <1>1, <2>2 DEF IInv, MemoryMatchesStore
    <3>5. ASSUME NEW id \in StorageIds \ {0}
          PROVE  IF deletedTables'[id] = None
                 THEN tables_t'[id] = None
                 ELSE LET u == obj'[deletedTables'[id]]
                      IN  /\ u.sid = id
                          /\ u.del = id
                          /\ \/ tables_t'[id] = encodeMetadata(u)
                             \/ tables_t'[id] = None /\ clock' - id > Window
      <4>1. CASE id = s
        <5>1. deletedTables'[s] = p /\ obj'[p] = t /\ tables_t'[s] = encodeMetadata(t)
          BY <1>1, <1>4, <1>5, <2>2
        <5>2. t.sid = s /\ t.del = s
          BY <3>4 DEF s, p
        <5>3. p # None
          BY <1>1, ZenonT(30)
        <5> QED
          BY <4>1, <5>1, <5>2, <5>3, Zenon
      <4>2. CASE id # s
        <5>1. tables_t'[id] = tables_t[id] /\ deletedTables'[id] = deletedTables[id]
              /\ clock' = clock
          BY <1>5, <4>2
        <5>2. deletedTables[id] # None =>
                obj'[deletedTables[id]] = obj[deletedTables[id]]
          BY <3>3, <4>2, ZenonT(30)
        <5> QED
          BY <5>1, <5>2, TombstoneRecord
      <4> QED
        BY <4>1, <4>2
    <3> QED
      BY <3>2, <3>5 DEF MemoryMatchesStore
  <2> QED
    BY <2>1, <2>2, ZenonT(30)
<1>11. RowsInFamilies'
  BY <1>2, <1>5, ZenonT(30) DEF IInv, RowsInFamilies
<1>12. \A q \in Ptrs : obj'[q].del = obj[q].del /\ obj'[q].created = obj[q].created
                      /\ obj'[q].sid = obj[q].sid
  BY <1>1, <1>4 DEF p, s
<1>13. Blanks'
  <2>1. tables = None => s # 0
    BY <1>1
  <2>2. Blanks /\ 0 \in StorageIds
    BY DEF IInv
  <2>3. ASSUME NEW id \in StorageIds
        PROVE  /\ id > clock' => rows_t'[id] = {}
               /\ deletedTables'[id] # None => obj'[deletedTables'[id]].created < id
    <3>1. id > clock => id # s
      BY <1>1 DEF IInv, TypeOK
    <3>2. id # s => rows_t'[id] = rows_t[id]
      BY <1>5
    <3> QED
      BY <1>8, <1>12, <2>2, <3>1, <3>2 DEF Blanks
  <2>4. tables = None => rows_t'[0] = {}
    BY <1>5, <2>1, <2>2, Zenon DEF Blanks
  <2> QED
    BY <1>7, <1>12, <2>2, <2>3, <2>4, ZenonT(40) DEF Blanks
<1>14. \A g \in Handlers : Handles(g)'
  <2> TAKE g \in Handlers
  <2>1. CASE g = h
    BY <2>1, AnswerType, IdleHandle, Zenon
  <2>2. CASE g # h
    <3>1. req'[g] = req[g] /\ Handles(g)
      BY <2>2, AnswerType, Zenon DEF IInv
    <3>2. req[g].op \in DataOps => req[g].ptr \in Ptrs
      BY PendingObject, Zenon
    <3> QED
      BY <1>12, <3>1, <3>2, HandleKept, Zenon
  <2> QED
    BY <2>1, <2>2
<1>15. mu' # None => req'[mu'].op = "delete"
  <2>1. req[h].op # "delete"
    BY DEF DataOps
  <2>2. mu # None => mu \in Handlers
    BY ZenonT(30) DEF IInv, TypeOK
  <2> QED
    BY <2>1, <2>2, AnswerType, Zenon DEF IInv
<1> QED
  BY <1>6, <1>10, <1>11, <1>13, <1>14, <1>15 DEF IInv

(* The stored rows of a resolved object lie within its families. *)
LEMMA PendingRows ==
    ASSUME IInv, NEW h \in Handlers, req[h].op \in DataOps
    PROVE  /\ rows_t[obj[req[h].ptr].sid] \subseteq obj[req[h].ptr].fams
           /\ obj[req[h].ptr].fams \subseteq Fams
<1>1. tables_t[obj[req[h].ptr].sid] = encodeMetadata(obj[req[h].ptr])
  BY PendingObject
<1>2. obj[req[h].ptr] \in Object /\ obj[req[h].ptr].sid \in StorageIds
  BY PendingObject
<1>3. encodeMetadata(obj[req[h].ptr]).fams = obj[req[h].ptr].fams
  BY DEF encodeMetadata
<1> QED
  BY <1>1, <1>2, <1>3, ZenonT(30) DEF IInv, RowsInFamilies, Object

(* A row write through a resolved object preserves the invariant. *)
LEMMA MutateRowIInv ==
    ASSUME IInv, NEW h \in Handlers, MutateRow(h)
    PROVE  IInv'
<1> DEFINE t == obj[req[h].ptr]
<1>1. req[h].op \in DataOps /\ Answer(h)
  BY Zenon DEF MutateRow, DataOps
<1>2. t \in Object /\ t.sid \in StorageIds /\ req[h].ptr \in Ptrs
      /\ tables_t[t.sid] = encodeMetadata(t)
  BY <1>1, PendingObject
<1>3. rows_t[t.sid] \subseteq t.fams
  BY <1>1, PendingRows
<1>4. PICK R \in SUBSET t.fams : rows_t' = [rows_t EXCEPT ![t.sid] = R]
  <2>1. PICK f \in t.fams : rows_t' \in {[rows_t EXCEPT ![t.sid] = @ \union {f}],
                                         [rows_t EXCEPT ![t.sid] = @ \ {f}]}
    BY Zenon DEF MutateRow
  <2>2. CASE rows_t' = [rows_t EXCEPT ![t.sid] = @ \union {f}]
    <3>1. rows_t[t.sid] \union {f} \in SUBSET t.fams
      BY <1>3
    <3> QED
      BY <2>2, <3>1, Zenon
  <2>3. CASE rows_t' = [rows_t EXCEPT ![t.sid] = @ \ {f}]
    <3>1. rows_t[t.sid] \ {f} \in SUBSET t.fams
      BY <1>3
    <3> QED
      BY <2>3, <3>1, Zenon
  <2> QED
    BY <2>1, <2>2, <2>3, Zenon
<1>5. /\ obj' = [obj EXCEPT ![req[h].ptr] = t]
      /\ tables_t' = [tables_t EXCEPT ![t.sid] = encodeMetadata(t)]
  BY <1>2, Zenon DEF MutateRow, IInv, TypeOK
<1>6. UNCHANGED <<clock, mu, tables, deletedTables, authorized_views_t>>
  BY Zenon DEF MutateRow
<1> QED
  BY <1>1, <1>2, <1>4, <1>5, <1>6, CarryIInv, Zenon

(* DropRowRange preserves the invariant. *)
LEMMA DropRowRangeIInv ==
    ASSUME IInv, NEW h \in Handlers, DropRowRange(h)
    PROVE  IInv'
<1> DEFINE t == obj[req[h].ptr]
<1>1. req[h].op \in DataOps /\ Answer(h)
  BY DEF DropRowRange, DataOps
<1>2. t \in Object /\ t.sid \in StorageIds /\ req[h].ptr \in Ptrs
      /\ tables_t[t.sid] = encodeMetadata(t)
  BY <1>1, PendingObject
<1>3. /\ obj' = [obj EXCEPT ![req[h].ptr] = t]
      /\ tables_t' = [tables_t EXCEPT ![t.sid] = encodeMetadata(t)]
      /\ rows_t' = [rows_t EXCEPT ![t.sid] = {}]
  BY <1>2 DEF DropRowRange, IInv, TypeOK
<1>4. UNCHANGED <<clock, mu, tables, deletedTables, authorized_views_t>>
  BY DEF DropRowRange
<1>5. {} \in SUBSET t.fams
  OBVIOUS
<1> QED
  BY <1>1, <1>2, <1>3, <1>4, <1>5, CarryIInv, Zenon

(* UpdateTable saves the record of the object it changes. *)
LEMMA UpdateTableIInv ==
    ASSUME IInv, NEW h \in Handlers, UpdateTable(h)
    PROVE  IInv'
<1> DEFINE old == obj[req[h].ptr]
<1>1. req[h].op \in DataOps /\ Answer(h)
  BY DEF UpdateTable, DataOps
<1>2. old \in Object /\ old.sid \in StorageIds /\ req[h].ptr \in Ptrs
  BY <1>1, PendingObject
<1>3. rows_t[old.sid] \subseteq old.fams
  BY <1>1, PendingRows
<1>4. PICK b \in BOOLEAN :
        LET t == [old EXCEPT !.prot = b]
        IN  Save(t) /\ obj' = [obj EXCEPT ![req[h].ptr] = t]
  BY Zenon DEF UpdateTable
<1> DEFINE t == [old EXCEPT !.prot = b]
<1>5. t \in Object /\ t.sid = old.sid /\ t.del = old.del /\ t.created = old.created
      /\ t.fams = old.fams
  BY <1>2 DEF Object
<1>6. /\ obj' = [obj EXCEPT ![req[h].ptr] = t]
      /\ tables_t' = [tables_t EXCEPT ![t.sid] = encodeMetadata(t)]
  BY <1>4 DEF Save
<1>7. /\ rows_t' = [rows_t EXCEPT ![t.sid] = rows_t[old.sid]]
      /\ rows_t[old.sid] \in SUBSET t.fams
  BY <1>2, <1>3, <1>5 DEF UpdateTable, IInv, TypeOK
<1>8. UNCHANGED <<clock, mu, tables, deletedTables, authorized_views_t>>
  BY DEF UpdateTable
<1> HIDE DEF t
<1> QED
  BY <1>1, <1>5, <1>6, <1>7, <1>8, CarryIInv, Zenon

(* Dropping a family drops its cells, so rows stay inside the families. *)
LEMMA ModifyColumnFamiliesIInv ==
    ASSUME IInv, NEW h \in Handlers, ModifyColumnFamilies(h)
    PROVE  IInv'
<1> DEFINE old == obj[req[h].ptr]
<1>1. req[h].op \in DataOps /\ Answer(h)
  BY DEF ModifyColumnFamilies, DataOps
<1>2. old \in Object /\ old.sid \in StorageIds /\ req[h].ptr \in Ptrs
  BY <1>1, PendingObject
<1>3. rows_t[old.sid] \subseteq old.fams /\ old.fams \subseteq Fams
  BY <1>1, PendingRows
<1>4. PICK D \in SUBSET old.fams, C \in SUBSET Fams :
        LET t == [old EXCEPT !.fams = (old.fams \ D) \union C]
        IN  /\ Save(t)
            /\ rows_t' = [rows_t EXCEPT ![old.sid] = @ \ D]
            /\ obj' = [obj EXCEPT ![req[h].ptr] = t]
  BY Zenon DEF ModifyColumnFamilies
<1> DEFINE t == [old EXCEPT !.fams = (old.fams \ D) \union C]
<1>5. t \in Object /\ t.sid = old.sid /\ t.del = old.del /\ t.created = old.created
      /\ t.fams = (old.fams \ D) \union C
  BY <1>2, <1>3 DEF Object
<1>6. /\ obj' = [obj EXCEPT ![req[h].ptr] = t]
      /\ tables_t' = [tables_t EXCEPT ![t.sid] = encodeMetadata(t)]
  BY <1>4 DEF Save
<1>7. /\ rows_t' = [rows_t EXCEPT ![t.sid] = rows_t[old.sid] \ D]
      /\ rows_t[old.sid] \ D \in SUBSET t.fams
  BY <1>2, <1>3, <1>4, <1>5, Zenon
<1>8. UNCHANGED <<clock, mu, tables, deletedTables, authorized_views_t>>
  BY DEF ModifyColumnFamilies
<1> HIDE DEF t
<1> QED
  BY <1>1, <1>5, <1>6, <1>7, <1>8, CarryIInv, Zenon

(* CreateTable uses an object nothing points to and the blank live id. *)
LEMMA CreateTableIInv ==
    ASSUME IInv, NEW F \in SUBSET Fams, NEW b \in BOOLEAN, CreateTable(F, b)
    PROVE  IInv'
<1> DEFINE p == CHOOSE q \in Ptrs : ~ Reachable(q)
<1> DEFINE t == [fams |-> F, prot |-> b, created |-> clock, del |-> 0, sid |-> 0]
<1>1. p \in Ptrs /\ ~ Reachable(p)
  BY DEF CreateTable
<1>2. /\ tables = None /\ mu = None /\ tables' = p
      /\ obj' = [obj EXCEPT ![p] = t]
      /\ tables_t' = [tables_t EXCEPT ![0] = encodeMetadata(t)]
      /\ UNCHANGED <<clock, mu, deletedTables, rows_t, authorized_views_t, req>>
  BY DEF CreateTable, Save, newTable
<1>3. t \in Object /\ t.sid = 0 /\ t.del = 0 /\ t.created = clock /\ clock \in Nat
  BY DEF Object, IInv, TypeOK
<1>4. encodeMetadata(t) \in Meta /\ encodeMetadata(t) # None
  BY <1>3, EncodeType
<1>5. /\ \A id \in StorageIds : deletedTables[id] # p
      /\ \A h \in Handlers : req[h].ptr # p
  BY <1>1 DEF Reachable
<1> HIDE DEF p, t
<1>6. obj'[p] = t /\ \A q \in Ptrs : q # p => obj'[q] = obj[q]
  BY <1>1, <1>2 DEF IInv, TypeOK
<1>7. tables_t'[0] = encodeMetadata(t) /\ 0 \in StorageIds
      /\ \A id \in StorageIds : id # 0 => tables_t'[id] = tables_t[id]
  BY <1>2 DEF IInv, TypeOK
<1>8. TypeOK'
  BY <1>1, <1>2, <1>3, <1>4 DEF IInv, TypeOK
<1>9. \A id \in StorageIds : deletedTables[id] # None =>
         deletedTables[id] \in Ptrs /\ obj'[deletedTables[id]] = obj[deletedTables[id]]
  BY <1>5, <1>6 DEF IInv, TypeOK
<1>10. MemoryMatchesStore'
  <2>1. tables' # None /\ obj'[tables'].sid = 0
        /\ tables_t'[0] = encodeMetadata(obj'[tables'])
    BY <1>1, <1>2, <1>3, <1>6, <1>7
  <2>2. ASSUME NEW id \in StorageIds \ {0}
        PROVE  IF deletedTables'[id] = None THEN tables_t'[id] = None
               ELSE LET v == obj'[deletedTables'[id]]
                    IN  /\ v.sid = id /\ v.del = id
                        /\ \/ tables_t'[id] = encodeMetadata(v)
                           \/ tables_t'[id] = None /\ clock' - id > Window
    <3>1. id # 0 /\ tables_t'[id] = tables_t[id]
      BY <1>7
    <3> QED
      BY <1>2, <1>9, <3>1, TombstoneRecord
  <2> QED
    BY <2>1, <2>2, Zenon DEF MemoryMatchesStore
<1>11. RowsInFamilies'
  BY <1>2, <1>7 DEF IInv, RowsInFamilies, Blanks
<1>12. Blanks'
  BY <1>1, <1>2, <1>3, <1>6, <1>9 DEF IInv, Blanks
<1>13. \A h \in Handlers : Handles(h)'
  <2> TAKE h \in Handlers
  <2>1. req[h].op \in DataOps => /\ obj'[req[h].ptr] = obj[req[h].ptr]
                                 /\ req[h].ptr # tables
    BY <1>2, <1>5, <1>6, PendingObject
  <2> QED
    BY <1>2, <2>1 DEF IInv, Handles
<1> QED
  BY <1>2, <1>8, <1>10, <1>11, <1>12, <1>13 DEF IInv

(* DeleteTable's checks only take the lock and note the live table. *)
LEMMA DeleteTableCheckIInv ==
    ASSUME IInv, NEW h \in Handlers, DeleteTableCheck(h)
    PROVE  IInv'
<1> USE DEF DeleteTableCheck
<1>1. tables \in Ptrs /\ clock \in Times
  BY DEF IInv, TypeOK
<1>2. /\ req' = [req EXCEPT ![h] = [op |-> "delete", ptr |-> tables, at |-> clock]]
      /\ req'[h] = [op |-> "delete", ptr |-> tables, at |-> clock]
      /\ \A g \in Handlers : g # h => req'[g] = req[g]
  BY DEF IInv, TypeOK
<1>3. TypeOK'
  BY <1>1, <1>2 DEF IInv, TypeOK, Requests
<1>4. MemoryMatchesStore' /\ RowsInFamilies' /\ Blanks'
  BY DEF IInv, MemoryMatchesStore, RowsInFamilies, Blanks
<1>5. \A g \in Handlers : Handles(g)'
  <2> TAKE g \in Handlers
  <2>1. CASE g = h
    BY <1>2, <2>1 DEF Handles, DataOps
  <2>2. CASE g # h
    <3>1. Handles(g) /\ req'[g] = req[g] /\ req[g].op # "delete"
      BY <1>2, <2>2 DEF IInv, Handles
    <3> QED
      BY <3>1, HandleKept, Zenon
  <2> QED
    BY <2>1, <2>2
<1> QED
  BY <1>2, <1>3, <1>4, <1>5 DEF IInv

(* A failed DeleteTable puts back the values the live object had. *)
LEMMA DeleteTableFailsUnchanged ==
    ASSUME IInv, NEW h \in Handlers, DeleteTableFails(h)
    PROVE  obj' = obj
<1>1. tables # None /\ req[h].ptr = tables
  BY ZenonT(30) DEF DeleteTableFails, IInv, Handles
<1>2. obj[tables].sid = 0 /\ obj[tables].del = 0
  BY <1>1 DEF IInv, MemoryMatchesStore, Blanks
<1>3. tables \in Ptrs /\ obj \in [Ptrs -> Object]
  BY <1>1 DEF IInv, TypeOK
<1>4. obj[tables] \in Object
  BY <1>3
<1>5. [[obj[tables] EXCEPT !.del = 0] EXCEPT !.sid = 0] = obj[tables]
  BY <1>2, <1>4, Zenon DEF Object
<1> QED
  BY <1>1, <1>3, <1>5, Zenon DEF DeleteTableFails

(* A failed deletion transaction gives the lock back and keeps the rest. *)
LEMMA DeleteTableFailsIInv ==
    ASSUME IInv, NEW h \in Handlers, DeleteTableFails(h)
    PROVE  IInv'
<1>1. obj' = obj
  BY DeleteTableFailsUnchanged
<1>2. mu = h /\ mu' = None /\ Answer(h)
      /\ UNCHANGED <<clock, tables, deletedTables, tables_t, rows_t, authorized_views_t>>
  BY DEF DeleteTableFails, IInv, Handles
<1>3. TypeOK'
  BY <1>1, <1>2, AnswerType, ZenonT(30) DEF IInv, TypeOK
<1>4. MemoryMatchesStore' /\ RowsInFamilies' /\ Blanks'
  BY <1>1, <1>2, ZenonT(30) DEF IInv, MemoryMatchesStore, RowsInFamilies, Blanks
<1>5. ASSUME NEW g \in Handlers, g # h PROVE req[g].op # "delete"
  BY <1>2, <1>5 DEF IInv, Handles
<1>6. \A g \in Handlers : Handles(g)'
  <2> TAKE g \in Handlers
  <2>1. CASE g = h
    BY <1>2, <2>1, AnswerType, IdleHandle, Zenon
  <2>2. CASE g # h
    <3>1. Handles(g) /\ req'[g] = req[g] /\ req[g].op # "delete"
      BY <1>2, <1>5, <2>2, AnswerType, Zenon DEF IInv
    <3> QED
      BY <1>1, <1>2, <3>1, HandleKept, Zenon
  <2> QED
    BY <2>1, <2>2
<1> QED
  BY <1>2, <1>3, <1>4, <1>6 DEF IInv

(* What DeleteTable's transaction does to memory and store. *)
LEMMA DeleteTableEffect ==
    ASSUME IInv, NEW h \in Handlers, DeleteTableCommit(h)
    PROVE  LET p == tables
               dt == clock + 1
               u == [obj[p] EXCEPT !.del = dt, !.sid = dt]
           IN  /\ p \in Ptrs /\ p # None /\ mu = h /\ clock \in Nat
               /\ dt \in StorageIds /\ dt # 0 /\ 0 \in StorageIds
               /\ obj[p] \in Object /\ obj[p].sid = 0
               /\ u \in Object /\ u.sid = dt /\ u.del = dt
               /\ u.created = obj[p].created /\ u.fams = obj[p].fams
               /\ u.prot = obj[p].prot
               /\ obj' = [obj EXCEPT ![p] = u]
               /\ tables' = None /\ mu' = None /\ clock' = dt /\ Answer(h)
               /\ deletedTables' = [deletedTables EXCEPT ![dt] = p]
               /\ tables_t' = [tables_t EXCEPT ![0] = None, ![dt] = encodeMetadata(u)]
               /\ rows_t' = [rows_t EXCEPT ![dt] = rows_t[0], ![0] = {}]
               /\ authorized_views_t' =
                    [authorized_views_t EXCEPT ![dt] = authorized_views_t[0], ![0] = {}]
<1> DEFINE p == tables
<1> DEFINE dt == clock + 1
<1> DEFINE t == [obj[p] EXCEPT !.del = dt]
<1> DEFINE u == [obj[p] EXCEPT !.del = dt, !.sid = dt]
<1>1. p # None /\ req[h].ptr = p /\ mu = h
  BY DEF DeleteTableCommit, IInv, Handles
<1>2. p \in Ptrs /\ clock \in Nat /\ dt \in StorageIds /\ dt # 0 /\ 0 \in StorageIds
  BY <1>1 DEF DeleteTableCommit, TimeMayPass, IInv, TypeOK
<1>3. obj[p] \in Object
  BY <1>2 DEF IInv, TypeOK
<1>4. obj[p].sid = 0
  BY <1>1 DEF IInv, MemoryMatchesStore
<1>5. /\ u \in Object /\ u.sid = dt /\ u.del = dt /\ u.created = obj[p].created
      /\ u.fams = obj[p].fams /\ u.prot = obj[p].prot
      /\ t.sid = 0 /\ [t EXCEPT !.sid = dt] = u
      /\ encodeMetadata(t) = encodeMetadata(u)
  BY <1>2, <1>3, <1>4, Zenon DEF Object, encodeMetadata
<1>6. rows_t[dt] = {} /\ authorized_views_t[dt] = {}
  BY <1>2 DEF IInv, Blanks
<1>7. /\ Rename(t, dt) /\ moveTableChildren(0, dt)
      /\ obj' = [obj EXCEPT ![p] = [t EXCEPT !.sid = dt]]
      /\ deletedTables' = [deletedTables EXCEPT ![dt] = p]
      /\ tables' = None /\ mu' = None /\ clock' = dt /\ Answer(h)
  BY <1>1 DEF DeleteTableCommit
<1> HIDE DEF t, u, dt, p
<1>8. rows_t' = [rows_t EXCEPT ![dt] = rows_t[0], ![0] = {}]
  BY <1>2, <1>5, <1>6, <1>7 DEF Rename, Moved
<1>9. authorized_views_t' =
        [authorized_views_t EXCEPT ![dt] = authorized_views_t[0], ![0] = {}]
  BY <1>2, <1>6, <1>7 DEF moveTableChildren, Moved
<1>10. tables_t' = [tables_t EXCEPT ![0] = None, ![dt] = encodeMetadata(u)]
  BY <1>5, <1>7 DEF Rename
<1> QED
  BY <1>1, <1>2, <1>3, <1>4, <1>5, <1>7, <1>8, <1>9, <1>10, Zenon DEF u, dt, p

(* A committed deletion turns the live table into the newest tombstone. *)
LEMMA DeleteTableCommitIInv ==
    ASSUME IInv, NEW h \in Handlers, DeleteTableCommit(h)
    PROVE  IInv'
<1> DEFINE p == tables
<1> DEFINE dt == clock + 1
<1> DEFINE u == [obj[p] EXCEPT !.del = dt, !.sid = dt]
<1>1. /\ p \in Ptrs /\ p # None /\ mu = h /\ clock \in Nat
      /\ dt \in StorageIds /\ dt # 0 /\ 0 \in StorageIds
      /\ obj[p].sid = 0
      /\ u \in Object /\ u.sid = dt /\ u.del = dt
      /\ u.created = obj[p].created /\ u.fams = obj[p].fams
      /\ obj' = [obj EXCEPT ![p] = u]
      /\ tables' = None /\ mu' = None /\ clock' = dt /\ Answer(h)
      /\ deletedTables' = [deletedTables EXCEPT ![dt] = p]
      /\ tables_t' = [tables_t EXCEPT ![0] = None, ![dt] = encodeMetadata(u)]
      /\ rows_t' = [rows_t EXCEPT ![dt] = rows_t[0], ![0] = {}]
      /\ authorized_views_t' =
           [authorized_views_t EXCEPT ![dt] = authorized_views_t[0], ![0] = {}]
  BY DeleteTableEffect
<1>2. /\ tables_t[0] = encodeMetadata(obj[p]) /\ obj[p].created =< clock
      /\ obj[p].created \in Nat
  BY <1>1 DEF IInv, MemoryMatchesStore, Blanks, TypeOK, Object
<1>d. /\ dt = clock + 1 /\ clock' = clock + 1 /\ clock' = dt
      /\ clock \in Nat /\ dt \in 0 .. MaxTime /\ dt # 0 /\ 0 \in StorageIds
  BY <1>1
<1>e. /\ p \in Ptrs /\ p # None /\ tables' = None
      /\ u.sid = dt /\ u.del = dt /\ u.created = obj[p].created
  BY <1>1
<1> HIDE DEF p, u, dt
<1>3. encodeMetadata(u) \in Meta /\ encodeMetadata(u) # None
      /\ encodeMetadata(u).fams = tables_t[0].fams
  <2>1. encodeMetadata(u) \in Meta /\ encodeMetadata(u) # None
    BY <1>1, EncodeType
  <2>2. encodeMetadata(u).fams = u.fams /\ encodeMetadata(obj[p]).fams = obj[p].fams
    BY DEF encodeMetadata
  <2> QED
    BY <1>1, <1>2, <2>1, <2>2
<1>4. obj'[p] = u /\ \A q \in Ptrs : q # p => obj'[q] = obj[q]
  BY <1>1 DEF IInv, TypeOK
<1>5. \A id \in StorageIds : deletedTables[id] # None =>
         deletedTables[id] \in Ptrs /\ deletedTables[id] # p
         /\ obj'[deletedTables[id]] = obj[deletedTables[id]]
  <2>1. \A id \in StorageIds : deletedTables[id] # None => id # 0 /\ deletedTables[id] \in Ptrs
    BY DEF IInv, Blanks, TypeOK
  <2>2. \A id \in StorageIds : deletedTables[id] # None => obj[deletedTables[id]].sid = id
    BY <2>1 DEF IInv, MemoryMatchesStore
  <2> QED
    BY <1>1, <1>4, <2>1, <2>2
<1>6. /\ deletedTables'[dt] = p
      /\ tables_t'[0] = None /\ tables_t'[dt] = encodeMetadata(u)
      /\ rows_t'[0] = {} /\ rows_t'[dt] = rows_t[0]
      /\ authorized_views_t'[0] = {}
      /\ \A id \in StorageIds : id # dt => deletedTables'[id] = deletedTables[id]
      /\ \A id \in StorageIds \ {0, dt} :
           /\ tables_t'[id] = tables_t[id]
           /\ rows_t'[id] = rows_t[id]
           /\ authorized_views_t'[id] = authorized_views_t[id]
  BY <1>1 DEF IInv, TypeOK
<1>7. TypeOK'
  BY <1>1, <1>3, AnswerType, Zenon DEF IInv, TypeOK
<1>8. MemoryMatchesStore'
  <2>1. ASSUME NEW id \in StorageIds \ {0}
        PROVE  IF deletedTables'[id] = None THEN tables_t'[id] = None
               ELSE LET t == obj'[deletedTables'[id]]
                    IN  /\ t.sid = id /\ t.del = id
                        /\ \/ tables_t'[id] = encodeMetadata(t)
                           \/ tables_t'[id] = None /\ clock' - id > Window
    <3>1. CASE id = dt
      BY <1>1, <1>4, <1>6, <3>1
    <3>2. CASE id # dt
      <4>1. deletedTables'[id] = deletedTables[id] /\ tables_t'[id] = tables_t[id]
        BY <1>6, <3>2
      <4>2. deletedTables[id] # None => obj'[deletedTables[id]] = obj[deletedTables[id]]
        BY <1>5
      <4>3. clock - id > Window => clock' - id > Window
        BY <1>1, <1>d
      <4> QED
        BY <4>1, <4>2, <4>3, TombstoneRecord
    <3> QED
      BY <3>1, <3>2
  <2> QED
    BY <1>1, <1>6, <2>1, Zenon DEF MemoryMatchesStore
<1>9. RowsInFamilies'
  <2> SUFFICES ASSUME NEW id \in StorageIds, rows_t'[id] # {}
               PROVE  tables_t'[id] # None /\ rows_t'[id] \subseteq tables_t'[id].fams
    BY DEF RowsInFamilies
  <2>1. CASE id = dt
    <3>1. rows_t[0] \subseteq tables_t[0].fams
      BY <1>1 DEF IInv, RowsInFamilies
    <3> QED
      BY <1>3, <1>6, <2>1, <3>1
  <2>2. CASE id # dt
    BY <1>6, <2>2 DEF IInv, RowsInFamilies
  <2> QED
    BY <2>1, <2>2
<1>10. Blanks'
  <2>1. ASSUME NEW id \in StorageIds
        PROVE  /\ id > clock' => /\ deletedTables'[id] = None
                                 /\ rows_t'[id] = {}
                                 /\ authorized_views_t'[id] = {}
               /\ deletedTables'[id] # None => obj'[deletedTables'[id]].created < id
    <3>1. CASE id = dt
      <4>1. deletedTables'[id] = p /\ obj'[p] = u /\ obj[p].created < dt
        BY <1>2, <1>4, <1>6, <1>d, <3>1
      <4>2. ~ (id > clock')
        BY <1>d, <3>1
      <4> QED
        BY <1>e, <3>1, <4>1, <4>2
    <3>2. CASE id # dt
      <4>1. deletedTables'[id] = deletedTables[id]
        BY <1>6, <3>2
      <4>2. deletedTables[id] # None => obj'[deletedTables[id]] = obj[deletedTables[id]]
        BY <1>5
      <4>3. id > clock' => /\ id > clock /\ id # 0
                           /\ rows_t'[id] = rows_t[id]
                           /\ authorized_views_t'[id] = authorized_views_t[id]
        BY <1>d, <1>6, <3>2
      <4> QED
        BY <4>1, <4>2, <4>3 DEF IInv, Blanks
    <3> QED
      BY <3>1, <3>2
  <2> QED
    BY <1>1, <1>6, <2>1, Zenon DEF IInv, Blanks
<1>11. \A g \in Handlers : Handles(g)'
  <2> TAKE g \in Handlers
  <2>1. CASE g = h
    BY <1>1, <2>1, AnswerType DEF Handles, Idle, DataOps
  <2>2. CASE g # h
    <3>1. req'[g] = req[g] /\ req[g].op # "delete"
      BY <1>1, <2>2, AnswerType DEF IInv, Handles
    <3>2. CASE req[g].op \in DataOps
      <4> DEFINE q == req[g].ptr
      <4>1. /\ q \in Ptrs /\ req[g].at \in Nat /\ req[g].at =< clock
            /\ clock < req[g].at + MaxLatency
            /\ obj[q].created =< req[g].at /\ req[g].op \in Ops
            /\ obj[q].sid \in StorageIds
        <5>1. q \in Ptrs /\ req[g].at \in Times /\ obj[q].sid \in StorageIds
          BY <3>2, PendingObject, Zenon
        <5>2. /\ req[g].at =< clock /\ obj[q].created =< req[g].at
              /\ req[g].op \in Ops
          BY <3>2 DEF IInv, Handles
        <5>3. clock < req[g].at + MaxLatency
          BY <3>2 DEF DeleteTableCommit, TimeMayPass
        <5> QED
          BY <5>1, <5>2, <5>3
      <4>s. /\ req[g].at =< clock' /\ clock' =< req[g].at + MaxLatency
            /\ req[g].at < dt
        BY <1>d, <4>1
      <4>2. CASE q = p
        <5>1. /\ obj'[q].sid = dt /\ obj'[q].created =< req[g].at
              /\ deletedTables'[obj'[q].sid] = q
          BY <1>e, <1>4, <1>6, <4>1, <4>2, Zenon
        <5>2. dt > req[g].at
          BY <1>d, <4>1
        <5> QED
          BY <3>1, <4>1, <4>s, <5>1, <5>2, Zenon DEF Handles
      <4>3. CASE q # p
        <5>1. obj[q].sid > req[g].at /\ deletedTables[obj[q].sid] = q /\ obj[q].sid # dt
          <6>1. obj[q].sid > req[g].at /\ deletedTables[obj[q].sid] = q
            BY <3>2, <4>3 DEF IInv, Handles, p
          <6>2. q # None
            BY <4>1
          <6> QED
            <7>1. ~ (obj[q].sid > clock)
              BY <4>1, <6>1, <6>2, Zenon DEF IInv, Blanks
            <7> QED
              BY <1>d, <4>1, <6>1, <7>1
        <5>2. obj'[q] = obj[q] /\ deletedTables'[obj[q].sid] = q
          BY <1>4, <1>6, <4>1, <4>3, <5>1, Zenon
        <5> QED
          BY <3>1, <4>1, <4>s, <5>1, <5>2, Zenon DEF Handles
      <4> QED
        BY <4>2, <4>3, ZenonT(30)
    <3> QED
      BY <3>1, <3>2, ZenonT(30) DEF Handles
  <2> QED
    BY <2>1, <2>2
<1> QED
  BY <1>1, <1>7, <1>8, <1>9, <1>10, <1>11 DEF IInv

(* A tombstone object owns the storage id it is filed under. *)
LEMMA TombstoneObject ==
    ASSUME IInv, NEW id \in StorageIds, deletedTables[id] # None
    PROVE  /\ id # 0 /\ id =< clock /\ clock \in Nat
           /\ deletedTables[id] \in Ptrs
           /\ obj[deletedTables[id]] \in Object
           /\ obj[deletedTables[id]].sid = id
           /\ obj[deletedTables[id]].del = id
           /\ obj[deletedTables[id]].created < id
           /\ tables_t[id] # None => tables_t[id] = encodeMetadata(obj[deletedTables[id]])
           /\ clock - id =< Window => tables_t[id] # None
           /\ tables # deletedTables[id]
<1>1. id # 0 /\ id =< clock /\ obj[deletedTables[id]].created < id /\ clock \in Nat
  BY DEF IInv, Blanks, TypeOK
<1>2. deletedTables[id] \in Ptrs /\ obj[deletedTables[id]] \in Object
  BY DEF IInv, TypeOK
<1>3. /\ obj[deletedTables[id]].sid = id
      /\ obj[deletedTables[id]].del = id
      /\ \/ tables_t[id] = encodeMetadata(obj[deletedTables[id]])
         \/ tables_t[id] = None /\ clock - id > Window
  BY <1>1 DEF IInv, MemoryMatchesStore
<1>4. encodeMetadata(obj[deletedTables[id]]) # None
  BY <1>2, EncodeType
<1>5. tables # deletedTables[id]
  BY <1>1, <1>3 DEF IInv, MemoryMatchesStore
<1> QED
  BY <1>1, <1>2, <1>3, <1>4, <1>5

(* The object an undelete puts back: live again, and protected. *)
LEMMA UndeletedObject ==
    ASSUME NEW o \in Object, NEW b \in BOOLEAN
    PROVE  [o EXCEPT !.del = 0, !.prot = b, !.sid = 0] \in Object
<1>1. \A x \in Object : [x EXCEPT !.prot = b] \in Object
  BY DEF Object
<1>2. \A x \in Object : [x EXCEPT !.del = 0] \in Object
  BY DEF Object
<1>3. \A x \in Object : [x EXCEPT !.sid = 0] \in Object
  BY DEF Object
<1> QED
  BY <1>1, <1>2, <1>3, Zenon

(* What UndeleteTable's transaction does, for the tombstone id it picks. *)
LEMMA UndeleteTableEffect ==
    ASSUME IInv, UndeleteTable
    PROVE  \E id \in StorageIds :
             LET p == deletedTables[id]
                 u == [obj[p] EXCEPT !.del = 0, !.prot = TRUE, !.sid = 0]
             IN  /\ IsLatest(id) /\ p # None /\ clock - id =< Window
                 /\ mu = None /\ tables = None /\ tables' = p
                 /\ u \in Object /\ u.sid = 0 /\ u.del = 0
                 /\ u.created = obj[p].created /\ u.fams = obj[p].fams /\ u.prot = TRUE
                 /\ obj' = [obj EXCEPT ![p] = u]
                 /\ deletedTables' = [deletedTables EXCEPT ![id] = None]
                 /\ tables_t' = [tables_t EXCEPT ![id] = None, ![0] = encodeMetadata(u)]
                 /\ rows_t' = [rows_t EXCEPT ![0] = rows_t[id], ![id] = {}]
                 /\ authorized_views_t' =
                      [authorized_views_t EXCEPT ![0] = authorized_views_t[id], ![id] = {}]
                 /\ UNCHANGED <<clock, mu, req>>
<1>1. PICK id \in StorageIds :
        /\ IsLatest(id)
        /\ LET p == deletedTables[id]
               from == obj[p].sid
               t == [obj[p] EXCEPT !.del = 0, !.prot = TRUE]
           IN  /\ moveTableChildren(from, 0)
               /\ Rename(t, 0)
               /\ obj' = [obj EXCEPT ![p] = [t EXCEPT !.sid = 0]]
               /\ deletedTables' = [deletedTables EXCEPT ![from] = None]
               /\ tables' = p
  BY Zenon DEF UndeleteTable
<1> DEFINE p == deletedTables[id]
<1> DEFINE t == [obj[p] EXCEPT !.del = 0, !.prot = TRUE]
<1> DEFINE u == [obj[p] EXCEPT !.del = 0, !.prot = TRUE, !.sid = 0]
<1>2. p # None
  BY <1>1 DEF IsLatest, Tombstones
<1>3. id # 0 /\ obj[p] \in Object /\ obj[p].sid = id /\ obj[p].del = id
  BY <1>2, TombstoneObject
<1>4. clock - id =< Window
  BY <1>1, <1>3 DEF IsLatest
<1>5. /\ u \in Object /\ u.sid = 0 /\ u.del = 0
      /\ u.created = obj[p].created /\ u.fams = obj[p].fams /\ u.prot = TRUE
      /\ t.sid = id /\ [t EXCEPT !.sid = 0] = u
      /\ encodeMetadata(t) = encodeMetadata(u)
  <2>1. u \in Object
    <3>1. \A b \in BOOLEAN : [obj[p] EXCEPT !.del = 0, !.prot = b, !.sid = 0] \in Object
      BY <1>3, UndeletedObject, Zenon
    <3> QED
      BY <3>1, TRUE \in BOOLEAN, ZenonT(40)
  <2>2. u.sid = 0 /\ u.del = 0 /\ u.created = obj[p].created /\ u.fams = obj[p].fams
    BY <1>3 DEF Object
  <2>3. u.prot = TRUE /\ t.prot = TRUE
    BY <1>3 DEF Object
  <2>4. t.sid = id /\ t.del = 0 /\ t.created = obj[p].created /\ t.fams = obj[p].fams
    BY <1>3 DEF Object
  <2>5. [t EXCEPT !.sid = 0] = u
    BY <1>3 DEF Object
  <2>6. encodeMetadata(t) = encodeMetadata(u)
    BY <2>2, <2>3, <2>4 DEF encodeMetadata
  <2> QED
    BY <2>1, <2>2, <2>3, <2>4, <2>5, <2>6
<1>6. rows_t[0] = {} /\ authorized_views_t[0] = {} /\ mu = None /\ tables = None
      /\ UNCHANGED <<clock, mu, req>>
  BY DEF UndeleteTable, IInv, Blanks
<1>7. /\ moveTableChildren(id, 0) /\ Rename(t, 0)
      /\ obj' = [obj EXCEPT ![p] = u]
      /\ deletedTables' = [deletedTables EXCEPT ![id] = None]
      /\ tables' = p
  BY <1>1, <1>3, <1>5
<1> HIDE DEF p, t, u
<1>8. rows_t' = [rows_t EXCEPT ![0] = rows_t[id], ![id] = {}]
  BY <1>3, <1>5, <1>6, <1>7 DEF Rename, Moved
<1>9. authorized_views_t' =
        [authorized_views_t EXCEPT ![0] = authorized_views_t[id], ![id] = {}]
  BY <1>3, <1>6, <1>7 DEF moveTableChildren, Moved
<1>10. tables_t' = [tables_t EXCEPT ![id] = None, ![0] = encodeMetadata(u)]
  BY <1>5, <1>7 DEF Rename
<1> QED
  BY <1>1, <1>2, <1>4, <1>5, <1>6, <1>7, <1>8, <1>9, <1>10, Zenon DEF p, u

(* A successful undelete turns a tombstone back into the live table. *)
LEMMA UndeleteTableIInv == IInv /\ UndeleteTable => IInv'
<1> SUFFICES ASSUME IInv, UndeleteTable PROVE IInv'
  OBVIOUS
<1>1. PICK id \in StorageIds :
        LET p == deletedTables[id]
            u == [obj[p] EXCEPT !.del = 0, !.prot = TRUE, !.sid = 0]
        IN  /\ IsLatest(id) /\ p # None /\ clock - id =< Window
            /\ mu = None /\ tables = None /\ tables' = p
            /\ u \in Object /\ u.sid = 0 /\ u.del = 0
            /\ u.created = obj[p].created /\ u.fams = obj[p].fams
            /\ obj' = [obj EXCEPT ![p] = u]
            /\ deletedTables' = [deletedTables EXCEPT ![id] = None]
            /\ tables_t' = [tables_t EXCEPT ![id] = None, ![0] = encodeMetadata(u)]
            /\ rows_t' = [rows_t EXCEPT ![0] = rows_t[id], ![id] = {}]
            /\ authorized_views_t' =
                 [authorized_views_t EXCEPT ![0] = authorized_views_t[id], ![id] = {}]
            /\ UNCHANGED <<clock, mu, req>>
  BY UndeleteTableEffect, Zenon
<1> DEFINE p == deletedTables[id]
<1> DEFINE u == [obj[p] EXCEPT !.del = 0, !.prot = TRUE, !.sid = 0]
<1>2. /\ p # None /\ clock - id =< Window
      /\ mu = None /\ tables = None /\ tables' = p
      /\ u \in Object /\ u.sid = 0 /\ u.del = 0
      /\ u.created = obj[p].created /\ u.fams = obj[p].fams
      /\ UNCHANGED <<clock, mu, req>>
  BY <1>1
<1>3. /\ obj' = [obj EXCEPT ![p] = u]
      /\ deletedTables' = [deletedTables EXCEPT ![id] = None]
      /\ tables_t' = [tables_t EXCEPT ![id] = None, ![0] = encodeMetadata(u)]
      /\ rows_t' = [rows_t EXCEPT ![0] = rows_t[id], ![id] = {}]
      /\ authorized_views_t' =
           [authorized_views_t EXCEPT ![0] = authorized_views_t[id], ![id] = {}]
  BY <1>1
<1>4. /\ id # 0 /\ id =< clock /\ clock \in Nat /\ p \in Ptrs /\ 0 \in StorageIds
      /\ obj[p].sid = id /\ obj[p].created < id
      /\ tables_t[id] = encodeMetadata(obj[p])
  BY <1>2, TombstoneObject
<1>p. p = deletedTables[id]
  OBVIOUS
<1> HIDE DEF p, u
<1>5. encodeMetadata(u) \in Meta /\ encodeMetadata(u) # None
      /\ encodeMetadata(u).fams = tables_t[id].fams
  <2>1. encodeMetadata(u) \in Meta /\ encodeMetadata(u) # None
    BY <1>2, EncodeType
  <2>2. encodeMetadata(u).fams = u.fams /\ encodeMetadata(obj[p]).fams = obj[p].fams
    BY DEF encodeMetadata
  <2> QED
    BY <1>2, <1>4, <2>1, <2>2
<1>6. obj'[p] = u /\ \A q \in Ptrs : q # p => obj'[q] = obj[q]
  BY <1>3, <1>4 DEF IInv, TypeOK
<1>7. ASSUME NEW j \in StorageIds, j # id, deletedTables[j] # None
      PROVE  /\ deletedTables[j] # p /\ j # 0
             /\ obj'[deletedTables[j]] = obj[deletedTables[j]]
  <2>1. obj[deletedTables[j]].sid = j /\ j # 0 /\ deletedTables[j] \in Ptrs
    BY <1>7, TombstoneObject
  <2> QED
    BY <1>4, <1>6, <1>7, <2>1
<1>8. /\ deletedTables'[id] = None
      /\ tables_t'[id] = None /\ tables_t'[0] = encodeMetadata(u)
      /\ rows_t'[id] = {} /\ rows_t'[0] = rows_t[id]
      /\ authorized_views_t'[id] = {}
      /\ \A j \in StorageIds : j # id => deletedTables'[j] = deletedTables[j]
      /\ \A j \in StorageIds \ {0, id} :
           /\ tables_t'[j] = tables_t[j]
           /\ rows_t'[j] = rows_t[j]
           /\ authorized_views_t'[j] = authorized_views_t[j]
  BY <1>3, <1>4 DEF IInv, TypeOK
<1>9. TypeOK'
  BY <1>2, <1>3, <1>4, <1>5, Zenon DEF IInv, TypeOK
<1>10. MemoryMatchesStore'
  <2>1. ASSUME NEW j \in StorageIds \ {0}
        PROVE  IF deletedTables'[j] = None THEN tables_t'[j] = None
               ELSE LET t == obj'[deletedTables'[j]]
                    IN  /\ t.sid = j /\ t.del = j
                        /\ \/ tables_t'[j] = encodeMetadata(t)
                           \/ tables_t'[j] = None /\ clock' - j > Window
    <3>1. CASE j = id
      BY <1>8, <3>1, ZenonT(30)
    <3>2. CASE j # id
      BY <1>2, <1>7, <1>8, <3>2 DEF IInv, MemoryMatchesStore
    <3> QED
      BY <3>1, <3>2
  <2>2. tables' # None /\ obj'[tables'].sid = 0 /\ tables_t'[0] = encodeMetadata(obj'[tables'])
    BY <1>2, <1>6, <1>8
  <2> QED
    BY <2>1, <2>2 DEF MemoryMatchesStore
<1>11. RowsInFamilies'
  <2> SUFFICES ASSUME NEW j \in StorageIds, rows_t'[j] # {}
               PROVE  tables_t'[j] # None /\ rows_t'[j] \subseteq tables_t'[j].fams
    BY ZenonT(30) DEF RowsInFamilies
  <2>1. CASE j = 0
    <3>1. rows_t[id] \subseteq tables_t[id].fams
      BY DEF IInv, RowsInFamilies
    <3> QED
      BY <1>5, <1>8, <2>1, <3>1
  <2>2. CASE j # 0
    BY <1>8, <2>2 DEF IInv, RowsInFamilies
  <2> QED
    BY <2>1, <2>2
<1>12. Blanks'
  <2>1. ASSUME NEW j \in StorageIds
        PROVE  /\ j > clock' => /\ deletedTables'[j] = None
                                /\ rows_t'[j] = {}
                                /\ authorized_views_t'[j] = {}
               /\ deletedTables'[j] # None => obj'[deletedTables'[j]].created < j
    <3>1. CASE j = id
      BY <1>2, <1>4, <1>8, <3>1
    <3>2. CASE j # id
      <4>1. j > clock' => j > clock /\ j \notin {0, id}
        BY <1>2, <1>4
      <4>2. deletedTables'[j] = deletedTables[j]
        BY <1>8, <3>2, ZenonT(30)
      <4> QED
        BY <1>7, <1>8, <3>2, <4>1, <4>2, ZenonT(40) DEF IInv, Blanks
    <3> QED
      BY <3>1, <3>2, ZenonT(30)
  <2>2. obj'[tables'].del = 0 /\ obj'[tables'].created =< clock' /\ tables' # None
    <3>1. obj[p].created \in Nat
      BY <1>4 DEF IInv, TypeOK, Object
    <3>2. obj[p].created =< clock
      BY <1>4, <3>1
    <3> QED
      BY <1>2, <1>6, <3>2, Zenon
  <2>3. deletedTables'[0] = None
    BY <1>4, <1>8, ZenonT(30) DEF IInv, Blanks
  <2> QED
    BY <2>1, <2>2, <2>3, ZenonT(30) DEF Blanks
<1>13. \A g \in Handlers : Handles(g)'
  <2> TAKE g \in Handlers
  <2>1. req'[g] = req[g] /\ req[g].op # "delete"
    BY <1>2 DEF IInv, Handles
  <2>2. CASE req[g].op \in DataOps
    <3> DEFINE q == req[g].ptr
    <3>1. /\ q \in Ptrs /\ obj[q].sid \in StorageIds /\ obj[q].created =< req[g].at
          /\ deletedTables[obj[q].sid] = q /\ obj[q].sid > req[g].at
          /\ req[g].at =< clock /\ clock =< req[g].at + MaxLatency /\ req[g].op \in Ops
      BY <1>2, <2>2, PendingObject, Zenon DEF IInv, Handles
    <3>2. CASE q = p
      BY <1>2, <1>6, <2>1, <3>1, <3>2, ZenonT(30) DEF Handles
    <3>3. CASE q # p
      <4>1. obj'[q] = obj[q] /\ obj[q].sid # id
        BY <1>6, <1>p, <3>1, <3>3
      <4> QED
        BY <1>2, <1>8, <2>1, <3>1, <3>3, <4>1 DEF Handles
    <3> QED
      BY <3>2, <3>3
  <2> QED
    BY <2>1, <2>2 DEF Handles
<1> QED
  BY <1>2, <1>9, <1>10, <1>11, <1>12, <1>13 DEF IInv

(* A purge pass, complete or cut short, touches expired tombstones only. *)
LEMMA PurgeEffect ==
    ASSUME IInv, NEW Done, NEW NoViews, NEW Gone, Gone \in SUBSET Expired,
           PurgeTombstones(Done, NoViews, Gone)
    PROVE  /\ rows_t' = [id \in StorageIds |-> IF id \in Gone THEN {} ELSE rows_t[id]]
           /\ tables_t' = [id \in StorageIds |-> IF id \in Gone THEN None ELSE tables_t[id]]
           /\ authorized_views_t' = [id \in StorageIds |->
                IF id \in NoViews THEN {} ELSE authorized_views_t[id]]
           /\ deletedTables' = [id \in StorageIds |->
                IF id \in Done THEN None ELSE deletedTables[id]]
           /\ mu = None /\ UNCHANGED <<clock, mu, tables, obj, req>>
<1>1. \A id \in Gone : id \in StorageIds /\ deletedTables[id] # None
  BY DEF Expired, Tombstones
<1>2. \A id \in Gone : obj[deletedTables[id]].sid = id
  BY <1>1, TombstoneObject
<1>3. {obj[deletedTables[id]].sid : id \in Gone} = Gone
  BY <1>2
<1> QED
  BY <1>3 DEF PurgeTombstones

(* Purging expired tombstones preserves the invariant: no pending request *)
(* holds one, since requests are shorter than the window. *)
LEMMA PurgeIInv ==
    ASSUME IInv, NEW Done \in SUBSET Expired, NEW NoViews \in SUBSET Expired,
           NEW Gone \in SUBSET Expired, Done \subseteq Gone,
           PurgeTombstones(Done, NoViews, Gone)
    PROVE  IInv'
<1>1. /\ rows_t' = [id \in StorageIds |-> IF id \in Gone THEN {} ELSE rows_t[id]]
      /\ tables_t' = [id \in StorageIds |-> IF id \in Gone THEN None ELSE tables_t[id]]
      /\ authorized_views_t' = [id \in StorageIds |->
           IF id \in NoViews THEN {} ELSE authorized_views_t[id]]
      /\ deletedTables' = [id \in StorageIds |->
           IF id \in Done THEN None ELSE deletedTables[id]]
      /\ mu = None /\ UNCHANGED <<clock, mu, tables, obj, req>>
  BY PurgeEffect
<1>2. \A id \in Expired : id \in StorageIds /\ id # 0 /\ id =< clock /\ clock - id > Window
  BY TombstoneObject DEF Expired, Tombstones
<1>3. TypeOK'
  BY <1>1, ZenonT(30) DEF IInv, TypeOK
<1>4. MemoryMatchesStore'
  <2>1. IF tables' = None THEN tables_t'[0] = None
        ELSE obj'[tables'].sid = 0 /\ tables_t'[0] = encodeMetadata(obj'[tables'])
    <3>1. 0 \in StorageIds /\ 0 \notin Gone
      BY <1>2, ZeroStorageId, ZenonT(30)
    <3>2. tables_t'[0] = tables_t[0]
      BY <1>1, <3>1
    <3> QED
      BY <1>1, <3>2, Zenon DEF IInv, MemoryMatchesStore
  <2>2. ASSUME NEW j \in StorageIds \ {0}
        PROVE  IF deletedTables'[j] = None THEN tables_t'[j] = None
               ELSE LET t == obj'[deletedTables'[j]]
                    IN  /\ t.sid = j /\ t.del = j
                        /\ \/ tables_t'[j] = encodeMetadata(t)
                           \/ tables_t'[j] = None /\ clock' - j > Window
    <3>1. CASE j \in Done
      BY <1>1, <3>1
    <3>2. CASE j \notin Done
      <4>1. deletedTables'[j] = deletedTables[j]
            /\ tables_t'[j] = IF j \in Gone THEN None ELSE tables_t[j]
        BY <1>1, <3>2
      <4>2. j \in Gone => clock' - j > Window
        BY <1>1, <1>2
      <4> QED
        BY <1>1, <4>1, <4>2 DEF IInv, MemoryMatchesStore
    <3> QED
      BY <3>1, <3>2
  <2> QED
    BY <2>1, <2>2 DEF MemoryMatchesStore
<1>5. RowsInFamilies'
  BY <1>1 DEF IInv, RowsInFamilies
<1>6. Blanks'
  <2>1. 0 \notin Gone /\ 0 \notin Done /\ 0 \in StorageIds
    BY <1>2
  <2> QED
    BY <1>1, <2>1 DEF IInv, Blanks
<1>7. \A g \in Handlers : Handles(g)'
  <2> TAKE g \in Handlers
  <2>1. CASE req[g].op \in DataOps
    <3> DEFINE s == obj[req[g].ptr].sid
    <3>1. /\ s \in StorageIds /\ req[g].at \in Nat /\ clock \in Nat
          /\ (req[g].ptr # tables => s > req[g].at /\ deletedTables[s] = req[g].ptr)
      <4>1. clock \in Nat
        BY DEF IInv, TypeOK
      <4>2. req[g].at \in Times /\ s \in StorageIds
            /\ (req[g].ptr # tables => s > req[g].at /\ deletedTables[s] = req[g].ptr)
        BY <2>1, PendingObject, Zenon
      <4> QED
        BY <4>1, <4>2
    <3>2. clock =< req[g].at + MaxLatency
      BY <2>1, ZenonT(30) DEF IInv, Handles
    <3>3. req[g].ptr # tables => s \notin Done
      BY <1>2, <3>1, <3>2
    <3>4. req[g].ptr # tables => deletedTables'[s] = req[g].ptr
      BY <1>1, <3>1, <3>3, ZenonT(30)
    <3> QED
      BY <1>1, <2>1, <3>1, <3>4, Zenon DEF IInv, Handles, DataOps
  <2>2. CASE req[g].op \notin DataOps
    BY <1>1, <2>2 DEF IInv, Handles
  <2> QED
    BY <2>1, <2>2
<1> QED
  BY <1>1, <1>3, <1>4, <1>5, <1>6, <1>7 DEF IInv

(* Both a complete purge pass and one cut short by an error preserve it. *)
LEMMA PurgeActionsIInv ==
    IInv /\ (purgeExpiredTombstones \/ PurgeStopsEarly) => IInv'
<1> SUFFICES ASSUME IInv, purgeExpiredTombstones \/ PurgeStopsEarly PROVE IInv'
  OBVIOUS
<1>1. CASE purgeExpiredTombstones
  BY <1>1, PurgeIInv DEF purgeExpiredTombstones
<1>2. CASE PurgeStopsEarly
  <2>1. PICK Done \in SUBSET Expired, e \in Expired :
          \/ PurgeTombstones(Done, Done, Done)
          \/ PurgeTombstones(Done, Done, Done \union {e})
          \/ PurgeTombstones(Done, Done \union {e}, Done \union {e})
    BY <1>2, Zenon DEF PurgeStopsEarly
  <2>2. Done \union {e} \in SUBSET Expired
    OBVIOUS
  <2> QED
    BY <2>1, <2>2, PurgeIInv
<1> QED
  BY <1>1, <1>2

(* Deleting an authorized view touches the views only. *)
LEMMA DeleteAuthorizedViewIInv ==
    ASSUME IInv, NEW v \in Views, DeleteAuthorizedView(v)
    PROVE  IInv'
<1> USE DEF DeleteAuthorizedView
<1>a. TypeOK'
  BY DEF IInv, TypeOK
<1>1. TypeOK' /\ MemoryMatchesStore' /\ RowsInFamilies'
  BY <1>a, Zenon DEF IInv, MemoryMatchesStore, RowsInFamilies
<1>2. Blanks'
  BY ZenonT(30) DEF IInv, Blanks, TypeOK
<1>3. \A g \in Handlers : Handles(g)'
  BY ZenonT(30) DEF IInv, Handles
<1> QED
  BY <1>1, <1>2, <1>3 DEF IInv

(* loadTables finds at most one live record, the one with storage id 0. *)
LEMMA RestartEffect ==
    ASSUME IInv, Restart
    PROVE  /\ tables' = (IF tables = None THEN None ELSE 0)
           /\ \A id \in StorageIds :
                /\ deletedTables'[id] = IF id # 0 /\ tables_t[id] # None THEN id ELSE None
                /\ tables_t[id] # None => obj'[id] = decodeMetadata(tables_t[id], id)
           /\ tables # None => tables_t[0] = encodeMetadata(obj[tables]) /\ tables_t[0] # None
           /\ \A id \in StorageIds \ {0} : tables_t[id] # None =>
                /\ deletedTables[id] # None
                /\ tables_t[id] = encodeMetadata(obj[deletedTables[id]])
<1> DEFINE Recs == {id \in StorageIds : tables_t[id] # None}
<1> DEFINE Live == {id \in Recs : tables_t[id].del = 0}
<1>1. tables # None => /\ tables_t[0] = encodeMetadata(obj[tables]) /\ tables_t[0] # None
                       /\ tables_t[0].del = 0
  <2>1. SUFFICES ASSUME tables # None
        PROVE  /\ tables_t[0] = encodeMetadata(obj[tables]) /\ tables_t[0] # None
               /\ tables_t[0].del = 0
    BY ZenonT(30)
  <2>2. tables_t[0] = encodeMetadata(obj[tables]) /\ obj[tables].del = 0
    BY <2>1 DEF IInv, MemoryMatchesStore, Blanks
  <2>3. obj[tables] \in Object
    BY <2>1 DEF IInv, TypeOK
  <2>4. encodeMetadata(obj[tables]).del = obj[tables].del
    BY DEF encodeMetadata
  <2> QED
    BY <2>2, <2>3, <2>4, EncodeType
<1>2. tables = None => tables_t[0] = None
  BY DEF IInv, MemoryMatchesStore
<1>3. \A id \in StorageIds \ {0} : tables_t[id] # None =>
        /\ deletedTables[id] # None
        /\ tables_t[id] = encodeMetadata(obj[deletedTables[id]])
        /\ tables_t[id].del = id
  <2> SUFFICES ASSUME NEW id \in StorageIds \ {0}, tables_t[id] # None
               PROVE  /\ deletedTables[id] # None
                      /\ tables_t[id] = encodeMetadata(obj[deletedTables[id]])
                      /\ tables_t[id].del = id
    OBVIOUS
  <2>1. deletedTables[id] # None
    BY DEF IInv, MemoryMatchesStore
  <2>2. tables_t[id] = encodeMetadata(obj[deletedTables[id]])
        /\ obj[deletedTables[id]].del = id
    BY <2>1, TombstoneObject
  <2> QED
    BY <2>1, <2>2 DEF encodeMetadata
<1>4. Live = IF tables = None THEN {} ELSE {0}
  BY <1>1, <1>2, <1>3
<1>5. /\ obj' = [p \in Ptrs |-> IF p \in Recs THEN decodeMetadata(tables_t[p], p) ELSE Blank]
      /\ tables' = IF Live = {} THEN None ELSE CHOOSE id \in Live : TRUE
      /\ deletedTables' = [id \in StorageIds |-> IF id \in Recs \ Live THEN id ELSE None]
  BY DEF Restart
<1> HIDE DEF Live
<1>6. tables' = (IF tables = None THEN None ELSE 0)
  BY <1>4, <1>5
<1>7. ASSUME NEW id \in StorageIds
      PROVE  /\ deletedTables'[id] = IF id # 0 /\ tables_t[id] # None THEN id ELSE None
             /\ tables_t[id] # None => obj'[id] = decodeMetadata(tables_t[id], id)
  <2>1. id \in Ptrs
    OBVIOUS
  <2> QED
    BY <1>2, <1>4, <1>5, <2>1
<1> QED
  BY <1>1, <1>3, <1>6, <1>7

(* Decoding an encoded object gives the object back under its storage id. *)
LEMMA DecodeEncode ==
    ASSUME NEW t \in Object, NEW id \in StorageIds, t.sid = id
    PROVE  decodeMetadata(encodeMetadata(t), id) = t
BY DEF Object, encodeMetadata, decodeMetadata

(* The objects loadTables builds are the objects memory held before. *)
LEMMA RestartObjects ==
    ASSUME IInv, Restart
    PROVE  /\ tables # None => obj'[0] = obj[tables]
           /\ \A id \in StorageIds \ {0} : tables_t[id] # None =>
                obj'[id] = obj[deletedTables[id]]
<1>1. ASSUME tables # None PROVE obj'[0] = obj[tables]
  <2>1. obj[tables] \in Object /\ obj[tables].sid = 0
    BY <1>1 DEF IInv, TypeOK, MemoryMatchesStore
  <2>2. obj'[0] = decodeMetadata(encodeMetadata(obj[tables]), 0)
    BY <1>1, RestartEffect
  <2> QED
    BY <2>1, <2>2, DecodeEncode
<1>2. ASSUME NEW id \in StorageIds \ {0}, tables_t[id] # None
      PROVE  obj'[id] = obj[deletedTables[id]]
  <2>1. obj'[id] = decodeMetadata(encodeMetadata(obj[deletedTables[id]]), id)
        /\ deletedTables[id] # None
    BY <1>2, RestartEffect
  <2>2. obj[deletedTables[id]] \in Object /\ obj[deletedTables[id]].sid = id
    BY <2>1, TombstoneObject
  <2> QED
    BY <2>1, <2>2, DecodeEncode
<1> QED
  BY <1>1, <1>2

(* Reloading every record rebuilds a memory that matches the store. *)
LEMMA RestartIInv == IInv /\ Restart => IInv'
<1> SUFFICES ASSUME IInv, Restart PROVE IInv'
  OBVIOUS
<1>1. /\ tables' = (IF tables = None THEN None ELSE 0)
      /\ \A id \in StorageIds :
           deletedTables'[id] = IF id # 0 /\ tables_t[id] # None THEN id ELSE None
  BY RestartEffect
<1>2. /\ tables # None => obj'[0] = obj[tables]
      /\ \A id \in StorageIds \ {0} : tables_t[id] # None =>
           obj'[id] = obj[deletedTables[id]] /\ deletedTables[id] # None
           /\ tables_t[id] = encodeMetadata(obj[deletedTables[id]])
  BY RestartEffect, RestartObjects, ZenonT(30)
<1>3. /\ mu' = None /\ req' = [h \in Handlers |-> Idle]
      /\ UNCHANGED <<clock, tables_t, rows_t, authorized_views_t>>
  BY DEF Restart
<1>4. 0 \in StorageIds /\ 0 # None /\ \A id \in StorageIds : id \in Ptrs /\ id # None
  OBVIOUS
<1>5. TypeOK'
  <2>1. obj' \in [Ptrs -> Object]
    <3>1. obj' = [p \in Ptrs |-> IF p \in {id \in StorageIds : tables_t[id] # None}
                                 THEN decodeMetadata(tables_t[p], p) ELSE Blank]
      BY ZenonT(30) DEF Restart
    <3>2. Blank \in Object
      BY DEF Blank, Object
    <3>3. ASSUME NEW id \in StorageIds, tables_t[id] # None
          PROVE  decodeMetadata(tables_t[id], id) \in Object
      <4>1. tables_t[id] \in Meta
        BY <3>3, ZenonT(30) DEF IInv, TypeOK
      <4> QED
        BY <4>1 DEF Meta, Object, decodeMetadata
    <3> QED
      BY <3>1, <3>2, <3>3, ZenonT(30)
  <2>2. deletedTables' \in [StorageIds -> Ptrs \union {None}]
    BY <1>4 DEF Restart
  <2>3. req' \in [Handlers -> Requests]
    BY <1>3 DEF Requests
  <2>4. tables' \in Ptrs \union {None}
    BY <1>1, <1>4
  <2> QED
    BY <1>3, <2>1, <2>2, <2>3, <2>4 DEF IInv, TypeOK
<1>6. MemoryMatchesStore'
  <2>1. IF tables' = None THEN tables_t'[0] = None
        ELSE obj'[tables'].sid = 0 /\ tables_t'[0] = encodeMetadata(obj'[tables'])
    BY <1>1, <1>2, <1>3, <1>4, ZenonT(30) DEF IInv, MemoryMatchesStore
  <2>2. ASSUME NEW j \in StorageIds \ {0}
        PROVE  IF deletedTables'[j] = None THEN tables_t'[j] = None
               ELSE LET t == obj'[deletedTables'[j]]
                    IN  /\ t.sid = j /\ t.del = j
                        /\ tables_t'[j] = encodeMetadata(t)
    <3>1. CASE tables_t[j] = None
      BY <1>1, <1>3, <3>1
    <3>2. CASE tables_t[j] # None
      <4>1. obj[deletedTables[j]].sid = j /\ obj[deletedTables[j]].del = j
        BY <1>2, <3>2, TombstoneObject
      <4> QED
        BY <1>1, <1>2, <1>3, <1>4, <3>2, <4>1
    <3> QED
      BY <3>1, <3>2, ZenonT(30)
  <2> QED
    BY <2>1, <2>2 DEF MemoryMatchesStore
<1>7. RowsInFamilies'
  BY <1>3 DEF IInv, RowsInFamilies
<1>8. Blanks'
  <2>1. tables' = None => tables = None
    BY <1>1, <1>4, ZenonT(30)
  <2>2. tables' # None => obj'[tables'].del = 0 /\ obj'[tables'].created =< clock'
    BY <1>1, <1>2, <1>3 DEF IInv, Blanks
  <2>3. ASSUME NEW id \in StorageIds
        PROVE  /\ id > clock' => deletedTables'[id] = None
               /\ deletedTables'[id] # None => obj'[deletedTables'[id]].created < id
    <3>1. CASE id # 0 /\ tables_t[id] # None
      <4>1. obj[deletedTables[id]].created < id /\ id =< clock /\ clock \in Nat
        BY <1>2, <3>1, TombstoneObject
      <4> QED
        BY <1>1, <1>2, <1>3, <3>1, <4>1
    <3>2. CASE ~ (id # 0 /\ tables_t[id] # None)
      BY <1>1, <3>2
    <3> QED
      BY <3>1, <3>2
  <2> QED
    BY <1>1, <1>3, <1>4, <2>1, <2>2, <2>3 DEF IInv, Blanks
<1>9. \A g \in Handlers : Handles(g)'
  BY <1>3 DEF Handles, Idle, DataOps
<1> QED
  BY <1>3, <1>5, <1>6, <1>7, <1>8, <1>9 DEF IInv

(* Every step of the benign system preserves the inductive invariant. *)
LEMMA NextIInv == ASSUME Benign PROVE IInv /\ [Next]_vars => IInv'
<1> SUFFICES ASSUME IInv, [Next]_vars PROVE IInv'
  OBVIOUS
<1>1. CASE Tick
  BY <1>1, TickIInv
<1>2. CASE \E F \in SUBSET Fams, b \in BOOLEAN : CreateTable(F, b)
  BY <1>2, CreateTableIInv
<1>3. ASSUME NEW h \in Handlers, Serve(h) PROVE IInv'
  <2>1. CASE \E op \in DataOps : localRequireTable(h, op)
    BY <2>1, ResolveIInv
  <2>2. CASE RequestFails(h)
    BY <2>2, FailIInv
  <2>3. CASE MutateRow(h)
    BY <2>3, MutateRowIInv, ZenonT(30)
  <2>4. CASE DropRowRange(h)
    BY <2>4, DropRowRangeIInv
  <2>5. CASE UpdateTable(h)
    BY <2>5, UpdateTableIInv
  <2>6. CASE ModifyColumnFamilies(h)
    BY <2>6, ModifyColumnFamiliesIInv
  <2>7. CASE DeleteTableCheck(h)
    BY <2>7, DeleteTableCheckIInv
  <2>8. CASE DeleteTableCommit(h)
    BY <2>8, DeleteTableCommitIInv
  <2>9. CASE DeleteTableFails(h)
    BY <2>9, DeleteTableFailsIInv
  <2>10. ~ CreateAuthorizedView(h) /\ ~ DeleteInstance(h)
    BY DEF Benign, CreateAuthorizedView, DeleteInstance, IInv, Handles, DataOps
  <2> QED
    BY <1>3, <2>1, <2>2, <2>3, <2>4, <2>5, <2>6, <2>7, <2>8, <2>9, <2>10 DEF Serve
<1>4. CASE \E v \in Views : DeleteAuthorizedView(v)
  BY <1>4, DeleteAuthorizedViewIInv
<1>5. CASE UndeleteTable
  BY <1>5, UndeleteTableIInv
<1>6. CASE purgeExpiredTombstones \/ PurgeStopsEarly
  BY <1>6, PurgeActionsIInv, ZenonT(30)
<1>7. CASE Restart
  BY <1>7, RestartIInv
<1>8. CASE UNCHANGED vars
  <2>1. TypeOK' /\ MemoryMatchesStore' /\ RowsInFamilies' /\ Blanks'
    BY <1>8, Zenon DEF IInv, vars, TypeOK, MemoryMatchesStore, RowsInFamilies, Blanks
  <2>2. \A g \in Handlers : Handles(g)'
    BY <1>8 DEF IInv, vars, Handles
  <2> QED
    BY <1>8, <2>1, <2>2, ZenonT(30) DEF IInv, vars
<1> QED
  BY <1>1, <1>2, <1>3, <1>4, <1>5, <1>6, <1>7, <1>8
     DEF Next, Benign

(* The inductive invariant holds in every reachable state, for any number  *)
(* of handlers, families and deletions: the state that the handlers of     *)
(* table_admin.go keep between two steps, with the pointers a waiting      *)
(* handler holds.                                                          *)
THEOREM LifecycleInvariant ==
    ASSUME Benign
    PROVE  Spec => []IInv
<1>1. Init => IInv
  BY InitIInv
<1>2. IInv /\ [Next]_vars => IInv'
  BY NextIInv
<1> QED
  BY <1>1, <1>2, PTL DEF Spec

(* The maps in memory always are what loadTables would rebuild from the    *)
(* store.                                                                  *)
THEOREM LifecycleSafety ==
    ASSUME Benign
    PROVE  Spec => [](TypeOK /\ MemoryMatchesStore)
<1>1. IInv => TypeOK /\ MemoryMatchesStore
  BY DEF IInv
<1> QED
  BY <1>1, LifecycleInvariant, PTL

(* No stored cell belongs to a family its schema does not know, so a       *)
(* dropped and re-created family starts empty (dropFamilyData).            *)
THEOREM LifecycleFamilies ==
    ASSUME Benign
    PROVE  Spec => []RowsInFamilies
<1>1. IInv => RowsInFamilies
  BY DEF IInv
<1> QED
  BY <1>1, LifecycleInvariant, PTL

-----------------------------------------------------------------------------
(***************************************************************************)
(* TableLifecycle implements TableService, for every value of the          *)
(* constants: every step of the server is a step of the service, or leaves *)
(* what clients can see unchanged.                                         *)
(***************************************************************************)

(* The table read off an object is one of the service's tables. *)
LEMMA TableOfType ==
    ASSUME IInv, NEW p \in Ptrs
    PROVE  TableOf(p) \in Service!Table /\ TableOf(p) # None
<1>1. obj[p] \in Object
  BY ZenonT(30) DEF IInv, TypeOK
<1>2. /\ obj[p].fams \in SUBSET Fams /\ obj[p].prot \in BOOLEAN
      /\ obj[p].created \in Times /\ obj[p].sid \in StorageIds
  BY <1>1 DEF Object
<1>3. /\ rows_t[obj[p].sid] \in SUBSET Fams
      /\ authorized_views_t[obj[p].sid] \in SUBSET Views
  BY <1>2, ZenonT(30) DEF IInv, TypeOK
<1>4. TableOf(p) \in Service!Table
  BY <1>2, <1>3 DEF TableOf, Service!Table, Service!Times
<1> QED
  BY <1>4, NoTableAssumption

(* The empty server is the service's initial state. *)
LEMMA InitRefines == Init => Service!Init
BY DEF Init, Service!Init, liveBar, tombsBar, pendingBar, Service!Idle, Service!Times, Idle, DataOps

(* The requests in flight, as the service sees them. *)
LEMMA PendingAnswer ==
    ASSUME IInv, NEW h \in Handlers, req[h].op \in DataOps, Answer(h)
    PROVE  /\ pendingBar[h].op = req[h].op /\ pendingBar[h].at = req[h].at
           /\ pendingBar[h] # Service!Idle
           /\ pendingBar' = [pendingBar EXCEPT ![h] = Service!Idle]
<1>1. pendingBar[h] = [op |-> req[h].op, at |-> req[h].at] /\ req[h].op # "idle"
  BY DEF pendingBar, DataOps
<1>2. req'[h] = Idle /\ \A g \in Handlers : g # h => req'[g] = req[g]
  BY AnswerType
<1>3. pendingBar' = [pendingBar EXCEPT ![h] = Service!Idle]
  <2>1. "idle" \notin DataOps
    BY DEF DataOps
  <2>2. Idle.op = "idle"
    BY DEF Idle
  <2> QED
    BY <1>2, <2>1, <2>2, ZenonT(30) DEF pendingBar, Service!Idle
<1>4. pendingBar[h].op # Service!Idle.op
  BY <1>1 DEF Service!Idle
<1>5. pendingBar[h].op = req[h].op /\ pendingBar[h].at = req[h].at
  BY <1>1
<1> QED
  BY <1>3, <1>4, <1>5, ZenonT(30)

(* A request carried out through its object changes the table it was       *)
(* accepted for, live or deleted, and no other.                            *)
LEMMA CarryRefines ==
    ASSUME IInv, IInv', NEW h \in Handlers, req[h].op \in DataOps, Answer(h),
           NEW p, p = req[h].ptr,
           NEW t \in Object, t.sid = obj[p].sid, t.created = obj[p].created,
           obj' = [obj EXCEPT ![p] = t],
           tables_t' = [tables_t EXCEPT ![t.sid] = encodeMetadata(t)],
           NEW R \in SUBSET Fams, rows_t' = [rows_t EXCEPT ![t.sid] = R],
           UNCHANGED <<clock, mu, tables, deletedTables, authorized_views_t>>,
           Service!Effect(req[h].op, TableOf(p),
             [fams |-> t.fams, rows |-> R, views |-> authorized_views_t[t.sid],
              prot |-> t.prot, created |-> t.created])
    PROVE  Service!CarryOut(h)
<1> DEFINE s == t.sid
<1> DEFINE U == [fams |-> t.fams, rows |-> R, views |-> authorized_views_t[s],
                 prot |-> t.prot, created |-> t.created]
<1>1. /\ p \in Ptrs /\ s \in StorageIds /\ obj[p].sid = s
      /\ (s = 0 <=> p = tables)
      /\ (s # 0 => deletedTables[s] = p /\ s > req[h].at)
      /\ tables_t[s] = encodeMetadata(obj[p]) /\ obj[p] \in Object
      /\ p # None
  BY PendingObject, ZenonT(30)
<1>2. /\ obj'[p] = t
      /\ \A q \in Ptrs : q # p => obj'[q] = obj[q]
      /\ tables_t'[s] = encodeMetadata(t) /\ rows_t'[s] = R
      /\ \A id \in StorageIds : id # s => tables_t'[id] = tables_t[id] /\ rows_t'[id] = rows_t[id]
  BY <1>1, ZenonT(30) DEF IInv, TypeOK
<1>3. encodeMetadata(t) # None /\ encodeMetadata(obj[p]) # None
  BY <1>1, EncodeType, ZenonT(30)
<1>4. U \in Service!Table /\ U # None /\ TableOf(p) # None
  <2>1. TableOf(p) # None
    BY <1>1, TableOfType, ZenonT(30)
  <2>2. t.fams \in SUBSET Fams /\ t.prot \in BOOLEAN /\ t.created \in Times
    BY ZenonT(30) DEF Object
  <2>3. authorized_views_t[s] \in SUBSET Views
    BY <1>1, ZenonT(30) DEF IInv, TypeOK
  <2>4. U \in Service!Table
    BY <2>2, <2>3, ZenonT(30) DEF Service!Table, Service!Times
  <2> QED
    BY <2>1, <2>4, NoTableAssumption, ZenonT(30)
<1>5. /\ pendingBar[h].op = req[h].op /\ pendingBar[h].at = req[h].at
      /\ pendingBar[h] # Service!Idle
      /\ pendingBar' = [pendingBar EXCEPT ![h] = Service!Idle]
  BY PendingAnswer, ZenonT(30)
<1>6. TableOf(p).created =< pendingBar[h].at
  <2>1. obj[p].created =< req[h].at
    BY ZenonT(30) DEF IInv, Handles
  <2>2. TableOf(p).created = obj[p].created
    BY ZenonT(30) DEF TableOf
  <2>3. pendingBar[h].at = req[h].at
    BY <1>5, ZenonT(30)
  <2> QED
    BY <2>1, <2>2, <2>3, ZenonT(30)
<1>7. Service!Effect(pendingBar[h].op, TableOf(p), U)
  <2>1. pendingBar[h].op = req[h].op
    BY <1>5, ZenonT(30)
  <2> QED
    BY <2>1, Zenon
<1>8. TableOf(p)' = U
  BY <1>2, ZenonT(40) DEF TableOf
<1>9. ASSUME NEW id \in StorageIds, deletedTables[id] # None, id # s
      PROVE  /\ TableOf(deletedTables[id])' = TableOf(deletedTables[id])
             /\ tables_t'[id] = tables_t[id]
  <2>1. obj[deletedTables[id]].sid = id /\ deletedTables[id] \in Ptrs
    BY <1>9, TombstoneObject, ZenonT(30)
  <2>2. obj'[deletedTables[id]] = obj[deletedTables[id]] /\ rows_t'[id] = rows_t[id]
    BY <1>1, <1>2, <1>9, <2>1, ZenonT(30)
  <2> QED
    BY <1>2, <1>9, <2>1, <2>2, ZenonT(30) DEF TableOf
<1> HIDE DEF s, U
<1>10. CASE p = tables
  <2>1. s = 0 /\ liveBar = TableOf(p) /\ liveBar' = U
    <3>1. s = 0 /\ tables # None /\ tables' = p
      BY <1>1, <1>10, ZenonT(30)
    <3> QED
      BY <1>8, <1>10, <3>1, ZenonT(30) DEF liveBar
  <2>2. deletedTables[0] = None
    BY ZenonT(30) DEF IInv, Blanks
  <2>3. tombsBar' = tombsBar
    BY <1>9, <2>1, <2>2, ZenonT(30) DEF tombsBar
  <2> QED
    BY <1>4, <1>5, <1>6, <1>7, <2>1, <2>3, ZenonT(30) DEF Service!CarryOut
<1>11. CASE p # tables
  <2>1. s # 0 /\ deletedTables[s] = p /\ s > pendingBar[h].at /\ s \in Times
    <3>1. pendingBar[h].at = req[h].at
      BY <1>5, ZenonT(30)
    <3> QED
      BY <1>1, <1>11, <3>1, ZenonT(30) DEF StorageIds
  <2>2. liveBar' = liveBar
    <3>1. ASSUME tables # None PROVE TableOf(tables)' = TableOf(tables)
      <4>1. tables \in Ptrs /\ obj[tables].sid = 0
        BY <3>1, ZenonT(30) DEF IInv, TypeOK, MemoryMatchesStore
      <4>2. obj'[tables] = obj[tables] /\ rows_t'[0] = rows_t[0]
        <5>1. tables # p /\ 0 # s
          BY <1>11, <2>1, Zenon
        <5> QED
          BY <1>2, <4>1, <5>1, ZeroStorageId, Zenon
      <4> QED
        BY <4>1, <4>2, ZenonT(30) DEF TableOf
    <3> QED
      BY <3>1, ZenonT(30) DEF liveBar
  <2>3. tombsBar[s] = TableOf(p)
    BY <1>1, <1>3, <2>1, ZenonT(30) DEF tombsBar
  <2>4. tombsBar' = [tombsBar EXCEPT ![s] = U]
    <3>1. ASSUME NEW id \in Times
          PROVE  tombsBar'[id] = IF id = s THEN U ELSE tombsBar[id]
      <4>1. CASE id = s
        <5>1. deletedTables'[s] = p /\ tables_t'[s] # None
          BY <1>2, <1>3, <2>1, ZenonT(30)
        <5> QED
          BY <1>1, <1>8, <2>1, <4>1, <5>1, ZenonT(30) DEF tombsBar
      <4>2. CASE id # s
        BY <1>2, <1>9, <4>2, ZenonT(30) DEF tombsBar
      <4> QED
        BY <4>1, <4>2, ZenonT(30)
    <3> QED
      BY <3>1, <2>1, ZenonT(30) DEF tombsBar
  <2>5. tombsBar[s] # None /\ tombsBar[s].created =< pendingBar[h].at
        /\ Service!Effect(pendingBar[h].op, tombsBar[s], U)
    BY <1>4, <1>6, <1>7, <2>3, ZenonT(30)
  <2>6. /\ U \in Service!Table /\ s \in Service!Times /\ s > pendingBar[h].at
        /\ clock' = clock
    BY <1>4, <2>1, ZenonT(30) DEF Service!Times
  <2> HIDE DEF Service!Effect
  <2> QED
    BY <1>5, <2>2, <2>4, <2>5, <2>6, Zenon DEF Service!CarryOut
<1> QED
  BY <1>10, <1>11, ZenonT(30)

(* MutateRow carries out the service's write. *)
LEMMA MutateRowRefines ==
    ASSUME IInv, IInv', NEW h \in Handlers, MutateRow(h)
    PROVE  Service!CarryOut(h)
<1>p. PICK p : p = req[h].ptr
  BY ZenonT(30)
<1> DEFINE t == obj[p]
<1>1. req[h].op = "write" /\ req[h].op \in DataOps /\ Answer(h)
  BY ZenonT(30) DEF MutateRow, DataOps
<1>2. t \in Object /\ t.sid \in StorageIds /\ p \in Ptrs
      /\ tables_t[t.sid] = encodeMetadata(t)
  BY <1>p, <1>1, PendingObject, ZenonT(30)
<1>3. rows_t[t.sid] \subseteq t.fams /\ t.fams \subseteq Fams
  BY <1>p, <1>1, PendingRows, ZenonT(30)
<1>4. PICK f \in t.fams : rows_t' \in {[rows_t EXCEPT ![t.sid] = @ \union {f}],
                                       [rows_t EXCEPT ![t.sid] = @ \ {f}]}
  BY <1>p, ZenonT(30) DEF MutateRow
<1>5. PICK R \in SUBSET Fams : /\ rows_t' = [rows_t EXCEPT ![t.sid] = R]
                               /\ R \in {rows_t[t.sid] \union {f}, rows_t[t.sid] \ {f}}
  <2>1. rows_t[t.sid] \union {f} \in SUBSET Fams /\ rows_t[t.sid] \ {f} \in SUBSET Fams
    BY <1>3, ZenonT(30)
  <2> QED
    BY <1>4, <2>1
<1>6. /\ obj' = [obj EXCEPT ![p] = t]
      /\ tables_t' = [tables_t EXCEPT ![t.sid] = encodeMetadata(t)]
  BY <1>2, ZenonT(30) DEF MutateRow, IInv, TypeOK
<1>7. UNCHANGED <<clock, mu, tables, deletedTables, authorized_views_t>>
  BY ZenonT(30) DEF MutateRow
<1> DEFINE U == [fams |-> t.fams, rows |-> R, views |-> authorized_views_t[t.sid],
                 prot |-> t.prot, created |-> t.created]
<1>8. Service!Effect(req[h].op, TableOf(p), U)
  <2>1. /\ U \in {[TableOf(p) EXCEPT !.rows = @ \union {f}],
                  [TableOf(p) EXCEPT !.rows = @ \ {f}]}
        /\ f \in TableOf(p).fams
    <3>1. f \in TableOf(p).fams /\ TableOf(p).rows = rows_t[t.sid]
      BY TableRows, ZenonT(30)
    <3>2. [TableOf(p) EXCEPT !.rows = R] = U
      BY TableRows, ZenonT(30)
    <3>3. R = TableOf(p).rows \union {f} \/ R = TableOf(p).rows \ {f}
      BY <1>5, <3>1, ZenonT(30)
    <3> HIDE DEF U
    <3> QED
      BY <3>1, <3>2, <3>3, ZenonT(30)
  <2> QED
    BY <1>1, <2>1, ZenonT(30) DEF Service!Effect
<1> HIDE DEF t
<1> QED
  BY <1>p, <1>1, <1>2, <1>5, <1>6, <1>7, <1>8, CarryRefines, ZenonT(30) DEF t

(* DropRowRange carries out the service's drop. *)
LEMMA DropRowRangeRefines ==
    ASSUME IInv, IInv', NEW h \in Handlers, DropRowRange(h)
    PROVE  Service!CarryOut(h)
<1>p. PICK p : p = req[h].ptr
  OBVIOUS
<1> DEFINE t == obj[p]
<1>1. req[h].op = "drop" /\ req[h].op \in DataOps /\ Answer(h)
  BY ZenonT(30) DEF DropRowRange, DataOps
<1>2. t \in Object /\ t.sid \in StorageIds /\ p \in Ptrs
      /\ tables_t[t.sid] = encodeMetadata(t)
  BY <1>p, <1>1, PendingObject, ZenonT(30)
<1>3. /\ obj' = [obj EXCEPT ![p] = t]
      /\ tables_t' = [tables_t EXCEPT ![t.sid] = encodeMetadata(t)]
      /\ rows_t' = [rows_t EXCEPT ![t.sid] = {}]
      /\ {} \in SUBSET Fams
  BY <1>p, <1>2 DEF DropRowRange, IInv, TypeOK
<1>4. UNCHANGED <<clock, mu, tables, deletedTables, authorized_views_t>>
  BY DEF DropRowRange
<1>5. Service!Effect(req[h].op, TableOf(p),
        [fams |-> t.fams, rows |-> {}, views |-> authorized_views_t[t.sid],
         prot |-> t.prot, created |-> t.created])
  BY <1>1, TableRows, ZenonT(30) DEF Service!Effect
<1> QED
  BY <1>p, <1>1, <1>2, <1>3, <1>4, <1>5, CarryRefines, ZenonT(30)

(* UpdateTable carries out the service's protection update. *)
LEMMA UpdateTableRefines ==
    ASSUME IInv, IInv', NEW h \in Handlers, UpdateTable(h)
    PROVE  Service!CarryOut(h)
<1>p. PICK p : p = req[h].ptr
  OBVIOUS
<1>1. req[h].op = "update" /\ req[h].op \in DataOps /\ Answer(h)
  BY ZenonT(30) DEF UpdateTable, DataOps
<1>2. obj[p] \in Object /\ obj[p].sid \in StorageIds /\ p \in Ptrs
  BY <1>p, <1>1, PendingObject
<1>3. PICK b \in BOOLEAN :
        LET t == [obj[p] EXCEPT !.prot = b]
        IN  Save(t) /\ obj' = [obj EXCEPT ![p] = t]
  BY <1>p, ZenonT(30) DEF UpdateTable
<1> DEFINE t == [obj[p] EXCEPT !.prot = b]
<1>4. t \in Object /\ t.sid = obj[p].sid /\ t.created = obj[p].created
      /\ t.fams = obj[p].fams /\ t.prot = b
  BY <1>2 DEF Object
<1>5. /\ obj' = [obj EXCEPT ![p] = t]
      /\ tables_t' = [tables_t EXCEPT ![t.sid] = encodeMetadata(t)]
  BY <1>3 DEF Save
<1> HIDE DEF t
<1>6. PICK R \in SUBSET Fams : /\ R = rows_t[t.sid]
                               /\ rows_t' = [rows_t EXCEPT ![t.sid] = R]
  BY <1>2, <1>4 DEF UpdateTable, IInv, TypeOK
<1>7. UNCHANGED <<clock, mu, tables, deletedTables, authorized_views_t>>
  BY DEF UpdateTable
<1>8. Service!Effect(req[h].op, TableOf(p),
        [fams |-> t.fams, rows |-> R, views |-> authorized_views_t[t.sid],
         prot |-> t.prot, created |-> t.created])
  <2>1. [fams |-> t.fams, rows |-> R, views |-> authorized_views_t[t.sid],
         prot |-> t.prot, created |-> t.created] = [TableOf(p) EXCEPT !.prot = b]
    BY <1>4, <1>6 DEF TableOf
  <2> QED
    BY <1>1, <2>1 DEF Service!Effect
<1> QED
  BY <1>p, <1>1, <1>4, <1>5, <1>6, <1>7, <1>8, CarryRefines, ZenonT(30)

(* ModifyColumnFamilies carries out the service's family change. *)
LEMMA ModifyColumnFamiliesRefines ==
    ASSUME IInv, IInv', NEW h \in Handlers, ModifyColumnFamilies(h)
    PROVE  Service!CarryOut(h)
<1>p. PICK p : p = req[h].ptr
  OBVIOUS
<1>1. req[h].op = "families" /\ req[h].op \in DataOps /\ Answer(h)
  BY ZenonT(30) DEF ModifyColumnFamilies, DataOps
<1>2. obj[p] \in Object /\ obj[p].sid \in StorageIds /\ p \in Ptrs
  BY <1>p, <1>1, PendingObject
<1>3. rows_t[obj[p].sid] \subseteq obj[p].fams /\ obj[p].fams \subseteq Fams
  BY <1>p, <1>1, PendingRows, ZenonT(30)
<1>4. PICK D \in SUBSET obj[p].fams, C \in SUBSET Fams :
        LET t == [obj[p] EXCEPT !.fams = (obj[p].fams \ D) \union C]
        IN  /\ Save(t)
            /\ rows_t' = [rows_t EXCEPT ![obj[p].sid] = @ \ D]
            /\ obj' = [obj EXCEPT ![p] = t]
  BY <1>p, ZenonT(30) DEF ModifyColumnFamilies
<1> DEFINE t == [obj[p] EXCEPT !.fams = (obj[p].fams \ D) \union C]
<1>5. t \in Object /\ t.sid = obj[p].sid /\ t.created = obj[p].created
      /\ t.fams = (obj[p].fams \ D) \union C /\ t.prot = obj[p].prot
  BY <1>2, <1>3 DEF Object
<1>6. /\ obj' = [obj EXCEPT ![p] = t]
      /\ tables_t' = [tables_t EXCEPT ![t.sid] = encodeMetadata(t)]
  BY <1>4 DEF Save
<1> HIDE DEF t
<1>7. PICK R \in SUBSET Fams : /\ R = rows_t[t.sid] \ D
                               /\ rows_t' = [rows_t EXCEPT ![t.sid] = R]
  BY <1>3, <1>4, <1>5, ZenonT(40)
<1>8. UNCHANGED <<clock, mu, tables, deletedTables, authorized_views_t>>
  BY DEF ModifyColumnFamilies
<1>9. Service!Effect(req[h].op, TableOf(p),
        [fams |-> t.fams, rows |-> R, views |-> authorized_views_t[t.sid],
         prot |-> t.prot, created |-> t.created])
  <2>1. [fams |-> t.fams, rows |-> R, views |-> authorized_views_t[t.sid],
         prot |-> t.prot, created |-> t.created]
        = [TableOf(p) EXCEPT !.fams = (@ \ D) \union C, !.rows = @ \ D]
    <3>1. (TableOf(p).fams \ D) \union C = t.fams /\ TableOf(p).rows \ D = R
      BY <1>5, <1>7 DEF TableOf
    <3>2. [TableOf(p) EXCEPT !.fams = t.fams, !.rows = R]
          = [fams |-> t.fams, rows |-> R, views |-> authorized_views_t[t.sid],
             prot |-> t.prot, created |-> t.created]
      <4>1. \A a, b, c, d, e, x :
              [[fams |-> a, rows |-> b, views |-> c, prot |-> d, created |-> e]
                 EXCEPT !.fams = x]
              = [fams |-> x, rows |-> b, views |-> c, prot |-> d, created |-> e]
        OBVIOUS
      <4>2. \A a, b, c, d, e, x :
              [[fams |-> a, rows |-> b, views |-> c, prot |-> d, created |-> e]
                 EXCEPT !.rows = x]
              = [fams |-> a, rows |-> x, views |-> c, prot |-> d, created |-> e]
        OBVIOUS
      <4>3. TableOf(p) = [fams |-> obj[p].fams, rows |-> rows_t[t.sid],
                          views |-> authorized_views_t[t.sid],
                          prot |-> t.prot, created |-> t.created]
        BY <1>5 DEF TableOf
      <4>4. [TableOf(p) EXCEPT !.fams = t.fams]
            = [fams |-> t.fams, rows |-> rows_t[t.sid], views |-> authorized_views_t[t.sid],
               prot |-> t.prot, created |-> t.created]
        BY <4>1, <4>3
      <4>5. [[TableOf(p) EXCEPT !.fams = t.fams] EXCEPT !.rows = R]
            = [fams |-> t.fams, rows |-> R, views |-> authorized_views_t[t.sid],
               prot |-> t.prot, created |-> t.created]
        <5>1. \A v : v = [fams |-> t.fams, rows |-> rows_t[t.sid],
                           views |-> authorized_views_t[t.sid],
                           prot |-> t.prot, created |-> t.created]
                      => [v EXCEPT !.rows = R]
                         = [fams |-> t.fams, rows |-> R, views |-> authorized_views_t[t.sid],
                            prot |-> t.prot, created |-> t.created]
          BY <4>2
        <5> QED
          BY <4>4, <5>1, Zenon
      <4> QED
        BY <4>5
    <3> QED
      BY <3>1, <3>2, ZenonT(30)
  <2>2. D \in SUBSET Fams
    BY <1>3, ZenonT(30)
  <2> QED
    BY <1>1, <2>1, <2>2, ZenonT(30) DEF Service!Effect
<1> QED
  BY <1>p, <1>1, <1>5, <1>6, <1>7, <1>8, <1>9, CarryRefines, ZenonT(30)

(* The clocks agree. *)
LEMMA TickRefines == IInv /\ Tick => Service!Tick
BY DEF Tick, TimeMayPass, Service!Tick, liveBar, tombsBar, pendingBar, TableOf

(* CreateTable makes the live table of the service. *)
LEMMA CreateTableRefines ==
    ASSUME IInv, NEW F \in SUBSET Fams, NEW b \in BOOLEAN, CreateTable(F, b)
    PROVE  Service!Create(F, b)
<1>p. PICK p \in Ptrs :
        /\ ~ Reachable(p) /\ tables = None /\ tables' = p
        /\ obj' = [obj EXCEPT ![p] = [fams |-> F, prot |-> b, created |-> clock,
                                      del |-> 0, sid |-> 0]]
        /\ tables_t' = [tables_t EXCEPT ![0] =
             encodeMetadata([fams |-> F, prot |-> b, created |-> clock,
                             del |-> 0, sid |-> 0])]
        /\ UNCHANGED <<clock, mu, deletedTables, rows_t, authorized_views_t, req>>
  BY ZenonT(30) DEF CreateTable, Save, newTable
<1>1. \A id \in StorageIds : deletedTables[id] # p
  BY <1>p DEF Reachable
<1>2. obj'[p] = [fams |-> F, prot |-> b, created |-> clock, del |-> 0, sid |-> 0]
      /\ \A q \in Ptrs : q # p => obj'[q] = obj[q]
  <2>1. obj \in [Ptrs -> Object]
    BY ZenonT(30) DEF IInv, TypeOK
  <2> QED
    BY <1>p, <2>1, ZenonT(30)
<1>3. rows_t[0] = {} /\ authorized_views_t[0] = {} /\ deletedTables[0] = None
  BY <1>p, ZenonT(30) DEF IInv, Blanks
<1>4. TableOf(p)' = [fams |-> F, rows |-> {}, views |-> {}, prot |-> b, created |-> clock]
  <2>1. /\ obj'[p].fams = F /\ obj'[p].prot = b /\ obj'[p].created = clock
        /\ obj'[p].sid = 0
    BY <1>p, NewTableParts, ZenonT(30)
  <2>2. rows_t'[0] = {} /\ authorized_views_t'[0] = {}
    BY <1>p, <1>3, ZenonT(30)
  <2>3. TableOf(p)' = [fams |-> obj'[p].fams, rows |-> rows_t'[0],
                       views |-> authorized_views_t'[0],
                       prot |-> obj'[p].prot, created |-> obj'[p].created]
    BY <2>1, ZenonT(30) DEF TableOf
  <2> QED
    BY <2>1, <2>2, <2>3, ZenonT(30)
<1>5. p # None
  BY <1>p, ZenonT(30)
<1>6. liveBar = None /\ liveBar' = [fams |-> F, rows |-> {}, views |-> {},
                                    prot |-> b, created |-> clock]
  BY <1>p, <1>4, <1>5, ZenonT(30) DEF liveBar
<1>7. tombsBar' = tombsBar
  <2>1. ASSUME NEW id \in Times, deletedTables[id] # None
        PROVE  TableOf(deletedTables[id])' = TableOf(deletedTables[id])
               /\ tables_t'[id] = tables_t[id]
    <3>1. deletedTables[id] \in Ptrs /\ id # 0
      BY <2>1, TombstoneObject, ZenonT(30)
    <3>2. obj'[deletedTables[id]] = obj[deletedTables[id]]
      BY <1>1, <1>2, <3>1, ZenonT(30)
    <3>3. tables_t'[id] = tables_t[id]
      BY <1>p, <3>1, ZenonT(30) DEF IInv, TypeOK
    <3> QED
      BY <1>p, <3>2, <3>3, ZenonT(30) DEF TableOf
  <2> QED
    BY <1>p, <2>1 DEF tombsBar
<1>8. pendingBar' = pendingBar /\ clock' = clock
  BY <1>p DEF pendingBar
<1> QED
  BY <1>6, <1>7, <1>8 DEF Service!Create

(* Resolving a table is the service accepting the request. *)
LEMMA ResolveRefines ==
    ASSUME IInv, NEW h \in Handlers, NEW op \in DataOps, localRequireTable(h, op)
    PROVE  Service!Accept(h, op)
<1>1. /\ req[h] = Idle /\ tables # None
      /\ req' = [req EXCEPT ![h] = [op |-> op, ptr |-> tables, at |-> clock]]
      /\ UNCHANGED <<clock, mu, tables, deletedTables, obj, tables_t, rows_t,
                     authorized_views_t>>
  BY ZenonT(30) DEF localRequireTable
<1>2. liveBar' = liveBar /\ tombsBar' = tombsBar
  BY <1>1 DEF liveBar, tombsBar, TableOf
<1>3. liveBar # None
  <2>1. tables \in Ptrs
    BY <1>1, ZenonT(30) DEF IInv, TypeOK
  <2> QED
    BY <1>1, <2>1, TableOfType DEF liveBar
<1>4. pendingBar[h] = Service!Idle
  BY <1>1 DEF pendingBar, Service!Idle, Idle, DataOps
<1>5. pendingBar' = [pendingBar EXCEPT ![h] = [op |-> op, at |-> clock]]
  <2>1. req'[h].op = op /\ req'[h].at = clock
        /\ \A g \in Handlers : g # h => req'[g] = req[g]
    BY <1>1 DEF IInv, TypeOK
  <2> QED
    BY <2>1, ZenonT(30) DEF pendingBar
<1> QED
  BY <1>1, <1>2, <1>3, <1>4, <1>5 DEF Service!Accept

(* A failed request is rejected. *)
LEMMA FailRefines ==
    ASSUME IInv, NEW h \in Handlers, RequestFails(h)
    PROVE  Service!Reject(h)
<1>1. pendingBar' = [pendingBar EXCEPT ![h] = Service!Idle]
  BY PendingAnswer, ZenonT(30) DEF RequestFails
<1>2. liveBar' = liveBar /\ tombsBar' = tombsBar /\ clock' = clock
  BY ZenonT(30) DEF RequestFails, liveBar, tombsBar, TableOf
<1> QED
  BY <1>1, <1>2 DEF Service!Reject

(* Between its two steps DeleteTable is invisible, and so is its failure. *)
LEMMA DeleteTableStutters ==
    ASSUME IInv, NEW h \in Handlers, DeleteTableCheck(h) \/ DeleteTableFails(h)
    PROVE  UNCHANGED Service!vars
<1>1. obj' = obj /\ UNCHANGED <<clock, tables, deletedTables, tables_t, rows_t, authorized_views_t>>
  BY DeleteTableFailsUnchanged, ZenonT(30) DEF DeleteTableCheck, DeleteTableFails
<1>2. liveBar' = liveBar /\ tombsBar' = tombsBar /\ clock' = clock
  BY <1>1, ZenonT(30) DEF liveBar, tombsBar, TableOf
<1>3. req[h].op \notin DataOps /\ req'[h].op \notin DataOps
      /\ \A g \in Handlers : g # h => req'[g] = req[g]
  <2>1. CASE DeleteTableCheck(h)
    BY <2>1 DEF DeleteTableCheck, Idle, DataOps, IInv, TypeOK
  <2>2. CASE DeleteTableFails(h)
    BY <2>2, AnswerType, NotData, ZenonT(30) DEF DeleteTableFails
  <2> QED
    BY <2>1, <2>2, ZenonT(30)
<1>4. pendingBar' = pendingBar
  BY <1>3 DEF pendingBar
<1> QED
  BY <1>2, <1>4 DEF Service!vars

(* The deletion transaction is the service's deletion. *)
LEMMA DeleteTableRefines ==
    ASSUME IInv, NEW h \in Handlers, DeleteTableCommit(h)
    PROVE  Service!Delete
<1>p. PICK p, dt, u :
        /\ p = tables /\ dt = clock + 1
        /\ p \in Ptrs /\ p # None /\ clock \in Nat
        /\ dt \in StorageIds /\ dt # 0 /\ obj[p].sid = 0
        /\ u \in Object /\ u.sid = dt /\ u.created = obj[p].created
        /\ u.fams = obj[p].fams /\ u.prot = obj[p].prot
        /\ obj' = [obj EXCEPT ![p] = u]
        /\ tables' = None /\ clock' = dt /\ Answer(h)
        /\ deletedTables' = [deletedTables EXCEPT ![dt] = p]
        /\ tables_t' = [tables_t EXCEPT ![0] = None, ![dt] = encodeMetadata(u)]
        /\ rows_t' = [rows_t EXCEPT ![dt] = rows_t[0], ![0] = {}]
        /\ authorized_views_t' =
             [authorized_views_t EXCEPT ![dt] = authorized_views_t[0], ![0] = {}]
  <2> DEFINE dt == clock + 1
  <2> DEFINE u == [obj[tables] EXCEPT !.del = dt, !.sid = dt]
  <2>1. /\ tables \in Ptrs /\ tables # None /\ clock \in Nat
        /\ dt \in StorageIds /\ dt # 0 /\ obj[tables].sid = 0
        /\ u \in Object /\ u.sid = dt /\ u.created = obj[tables].created
        /\ u.fams = obj[tables].fams /\ u.prot = obj[tables].prot
        /\ obj' = [obj EXCEPT ![tables] = u]
        /\ tables' = None /\ clock' = dt /\ Answer(h)
        /\ deletedTables' = [deletedTables EXCEPT ![dt] = tables]
        /\ tables_t' = [tables_t EXCEPT ![0] = None, ![dt] = encodeMetadata(u)]
        /\ rows_t' = [rows_t EXCEPT ![dt] = rows_t[0], ![0] = {}]
        /\ authorized_views_t' =
             [authorized_views_t EXCEPT ![dt] = authorized_views_t[0], ![0] = {}]
    BY DeleteTableEffect, Zenon
  <2>2. dt = clock + 1
    OBVIOUS
  <2> HIDE DEF dt, u
  <2> QED
    BY <2>1, <2>2, Zenon
<1>1. obj'[p] = u /\ \A q \in Ptrs : q # p => obj'[q] = obj[q]
  BY <1>p, ZenonT(30) DEF IInv, TypeOK
<1>2. /\ deletedTables'[dt] = p /\ tables_t'[dt] = encodeMetadata(u)
      /\ rows_t'[dt] = rows_t[0] /\ authorized_views_t'[dt] = authorized_views_t[0]
      /\ \A id \in StorageIds : id # dt => deletedTables'[id] = deletedTables[id]
      /\ \A id \in StorageIds \ {0, dt} :
           /\ tables_t'[id] = tables_t[id]
           /\ rows_t'[id] = rows_t[id]
           /\ authorized_views_t'[id] = authorized_views_t[id]
  BY <1>p, ZenonT(30) DEF IInv, TypeOK
<1>3. TableOf(p)' = TableOf(p)
  BY <1>p, <1>1, <1>2 DEF TableOf
<1>4. liveBar = TableOf(p) /\ liveBar # None /\ liveBar' = None
  BY <1>p, TableOfType DEF liveBar
<1>5. tombsBar' = [tombsBar EXCEPT ![dt] = liveBar]
  <2>1. ASSUME NEW id \in Times
        PROVE  tombsBar'[id] = IF id = dt THEN liveBar ELSE tombsBar[id]
    <3>1. CASE id = dt
      <4>1. encodeMetadata(u) # None
        BY <1>p, EncodeType
      <4> QED
        BY <1>p, <1>2, <1>3, <1>4, <3>1, <4>1 DEF tombsBar
    <3>2. CASE id # dt
      <4>1. CASE deletedTables[id] = None
        BY <1>2, <3>2, <4>1, ZenonT(30) DEF tombsBar
      <4>2. CASE deletedTables[id] # None
        <5> DEFINE q == deletedTables[id]
        <5>1. id # 0 /\ q \in Ptrs /\ obj[q].sid = id /\ q # p
          BY <1>p, <4>2, TombstoneObject, ZenonT(30)
        <5>2. obj'[q] = obj[q] /\ rows_t'[id] = rows_t[id] /\ tables_t'[id] = tables_t[id]
              /\ authorized_views_t'[id] = authorized_views_t[id] /\ deletedTables'[id] = q
          BY <1>1, <1>2, <3>2, <5>1, ZenonT(30)
        <5>3. TableOf(q)' = TableOf(q)
          BY <5>1, <5>2, ZenonT(30) DEF TableOf
        <5> QED
          BY <3>2, <4>2, <5>2, <5>3, ZenonT(30) DEF tombsBar
      <4> QED
        BY <4>1, <4>2, ZenonT(30)
    <3> QED
      BY <3>1, <3>2
  <2>2. dt \in Times
    BY <1>p, ZenonT(30) DEF StorageIds
  <2> QED
    BY <2>1, <2>2, TombsFunction
<1>6. pendingBar' = pendingBar
  <2>1. req[h].op \notin DataOps /\ req'[h].op \notin DataOps
        /\ \A g \in Handlers : g # h => req'[g] = req[g]
    BY <1>p, AnswerType, NotData, ZenonT(30) DEF DeleteTableCommit
  <2> QED
    BY <2>1, ZenonT(30) DEF pendingBar
<1>7. clock < MaxTime
  BY <1>p
<1> QED
  BY <1>p, <1>4, <1>5, <1>6, <1>7 DEF Service!Delete

(* UndeleteTable restores the latest tombstone as the service does. *)
LEMMA UndeleteTableRefines == IInv /\ UndeleteTable => Service!Undelete
<1> SUFFICES ASSUME IInv, UndeleteTable PROVE Service!Undelete
  BY ZenonT(30)
<1>p. PICK id, p, u :
        /\ id \in StorageIds /\ p = deletedTables[id]
        /\ IsLatest(id) /\ p # None /\ clock - id =< Window
        /\ tables = None /\ tables' = p
        /\ u \in Object /\ u.sid = 0 /\ u.created = obj[p].created
        /\ u.fams = obj[p].fams /\ u.prot = TRUE
        /\ obj' = [obj EXCEPT ![p] = u]
        /\ deletedTables' = [deletedTables EXCEPT ![id] = None]
        /\ tables_t' = [tables_t EXCEPT ![id] = None, ![0] = encodeMetadata(u)]
        /\ rows_t' = [rows_t EXCEPT ![0] = rows_t[id], ![id] = {}]
        /\ authorized_views_t' =
             [authorized_views_t EXCEPT ![0] = authorized_views_t[id], ![id] = {}]
        /\ UNCHANGED <<clock, mu, req>>
  BY UndeleteTableEffect, ZenonT(30)
<1>1. /\ id # 0 /\ p \in Ptrs /\ obj[p].sid = id /\ obj[p].del = id
      /\ tables_t[id] # None
  BY <1>p, TombstoneObject, ZenonT(30)
<1>2. obj'[p] = u /\ \A q \in Ptrs : q # p => obj'[q] = obj[q]
  BY <1>p, <1>1, ZenonT(30) DEF IInv, TypeOK
<1>3. /\ deletedTables'[id] = None
      /\ rows_t'[0] = rows_t[id] /\ authorized_views_t'[0] = authorized_views_t[id]
      /\ \A j \in StorageIds : j # id => deletedTables'[j] = deletedTables[j]
      /\ \A j \in StorageIds \ {0, id} :
           /\ tables_t'[j] = tables_t[j]
           /\ rows_t'[j] = rows_t[j]
           /\ authorized_views_t'[j] = authorized_views_t[j]
  <2>1. /\ deletedTables'[id] = None
        /\ \A j \in StorageIds : j # id => deletedTables'[j] = deletedTables[j]
    BY <1>p DEF IInv, TypeOK
  <2>a. /\ 0 \in StorageIds /\ id # 0
        /\ rows_t \in [StorageIds -> SUBSET Fams]
        /\ authorized_views_t \in [StorageIds -> SUBSET Views]
    BY <1>1 DEF IInv, TypeOK
  <2>b. /\ rows_t' = [rows_t EXCEPT ![0] = rows_t[id], ![id] = {}]
        /\ authorized_views_t' =
             [authorized_views_t EXCEPT ![0] = authorized_views_t[id], ![id] = {}]
    BY <1>p
  <2>2. /\ rows_t'[0] = rows_t[id]
        /\ \A j \in StorageIds \ {0, id} : rows_t'[j] = rows_t[j]
    BY <2>a, <2>b
  <2>3. /\ authorized_views_t'[0] = authorized_views_t[id]
        /\ \A j \in StorageIds \ {0, id} :
             authorized_views_t'[j] = authorized_views_t[j]
    BY <2>a, <2>b, ZenonT(30)
  <2>4. \A j \in StorageIds \ {0, id} : tables_t'[j] = tables_t[j]
    BY <1>p, <1>1, ZenonT(30) DEF IInv, TypeOK
  <2> QED
    BY <2>1, <2>2, <2>3, <2>4, ZenonT(30)
<1>4. tombsBar[id] = TableOf(p) /\ tombsBar[id] # None
  BY <1>p, <1>1, TableOfType DEF tombsBar
<1>5. liveBar = None /\ liveBar' = [tombsBar[id] EXCEPT !.prot = TRUE]
  <2>1. TableOf(p)' = [fams |-> obj[p].fams, rows |-> rows_t[id],
                       views |-> authorized_views_t[id], prot |-> TRUE,
                       created |-> obj[p].created]
    <3>1. TableOf(p)' = [fams |-> u.fams, rows |-> rows_t'[0],
                         views |-> authorized_views_t'[0], prot |-> u.prot,
                         created |-> u.created]
      BY <1>p, <1>2, ZenonT(30) DEF TableOf
    <3> QED
      BY <1>p, <1>3, <3>1, ZenonT(30)
  <2>2. TableOf(p) = [fams |-> obj[p].fams, rows |-> rows_t[id],
                      views |-> authorized_views_t[id], prot |-> obj[p].prot,
                      created |-> obj[p].created]
    BY <1>1 DEF TableOf
  <2>3. \A b : [TableOf(p) EXCEPT !.prot = b]
               = [fams |-> obj[p].fams, rows |-> rows_t[id],
                  views |-> authorized_views_t[id], prot |-> b,
                  created |-> obj[p].created]
    BY <2>2
  <2>4. liveBar = None /\ liveBar' = TableOf(p)'
    BY <1>p DEF liveBar
  <2>5. [TableOf(p) EXCEPT !.prot = TRUE] = TableOf(p)'
    BY <2>1, <2>3, Zenon
  <2> QED
    BY <1>4, <2>4, <2>5
<1>6. tombsBar' = [tombsBar EXCEPT ![id] = None]
  <2>1. ASSUME NEW j \in Times
        PROVE  tombsBar'[j] = IF j = id THEN None ELSE tombsBar[j]
    <3>1. CASE j = id
      BY <1>3, <3>1 DEF tombsBar
    <3>2. CASE j # id /\ deletedTables[j] = None
      BY <1>3, <3>2 DEF tombsBar
    <3>3. CASE j # id /\ deletedTables[j] # None
      <4> DEFINE q == deletedTables[j]
      <4>1. j # 0 /\ q \in Ptrs /\ obj[q].sid = j /\ q # p
        BY <1>1, <3>3, TombstoneObject
      <4>2. obj'[q] = obj[q] /\ rows_t'[j] = rows_t[j] /\ tables_t'[j] = tables_t[j]
            /\ authorized_views_t'[j] = authorized_views_t[j] /\ deletedTables'[j] = q
        BY <1>2, <1>3, <3>3, <4>1, ZenonT(30)
      <4>3. TableOf(q)' = TableOf(q)
        BY <4>1, <4>2 DEF TableOf
      <4> QED
        BY <3>3, <4>2, <4>3 DEF tombsBar
    <3> QED
      BY <3>1, <3>2, <3>3
  <2> QED
    BY <2>1, ZenonT(30) DEF tombsBar
<1>7. \A j \in Times : tombsBar[j] # None => j =< id
  <2> SUFFICES ASSUME NEW j \in Times, tombsBar[j] # None PROVE j =< id
    OBVIOUS
  <2>1. deletedTables[j] # None
    BY ZenonT(30) DEF tombsBar
  <2>2. obj[deletedTables[j]].del = j
    BY <2>1, TombstoneObject
  <2>3. obj[deletedTables[j]].del =< obj[deletedTables[id]].del
    BY <1>p, <2>1 DEF IsLatest, Tombstones
  <2> QED
    BY <1>p, <1>1, <2>2, <2>3
<1>8. pendingBar' = pendingBar /\ clock' = clock
  BY <1>p DEF pendingBar
<1> QED
  BY <1>p, <1>4, <1>5, <1>6, <1>7, <1>8, Zenon DEF Service!Undelete, Service!Times

(* A purge pass, complete or stopped early, forgets expired tombstones. *)
LEMMA PurgeRefines ==
    ASSUME IInv, NEW Done, NEW NoViews, NEW Gone \in SUBSET Expired,
           Done \subseteq Gone, NoViews \subseteq Gone,
           PurgeTombstones(Done, NoViews, Gone)
    PROVE  Service!Purge
<1>1. /\ rows_t' = [id \in StorageIds |-> IF id \in Gone THEN {} ELSE rows_t[id]]
      /\ tables_t' = [id \in StorageIds |-> IF id \in Gone THEN None ELSE tables_t[id]]
      /\ authorized_views_t' = [id \in StorageIds |->
           IF id \in NoViews THEN {} ELSE authorized_views_t[id]]
      /\ deletedTables' = [id \in StorageIds |->
           IF id \in Done THEN None ELSE deletedTables[id]]
      /\ UNCHANGED <<clock, mu, tables, obj, req>>
  BY PurgeEffect
<1>2. \A id \in Gone : id \in Times /\ id # 0 /\ clock - id > Window
  BY TombstoneObject DEF Expired, Tombstones
<1>3. liveBar' = liveBar
  <2>1. CASE tables = None
    BY <1>1, <2>1, ZenonT(30) DEF liveBar
  <2>2. CASE tables # None
    <3>1. obj[tables].sid = 0 /\ 0 \in StorageIds
      BY <2>2 DEF IInv, MemoryMatchesStore
    <3>2. rows_t'[0] = rows_t[0] /\ authorized_views_t'[0] = authorized_views_t[0]
      BY <1>1, <1>2, <3>1, ZenonT(30)
    <3>3. TableOf(tables)' = TableOf(tables)
      BY <1>1, <3>1, <3>2, ZenonT(30) DEF TableOf
    <3> QED
      BY <1>1, <2>2, <3>3, ZenonT(30) DEF liveBar
  <2> QED
    BY <2>1, <2>2, ZenonT(30)
<1>4. ASSUME NEW id \in Times
      PROVE  tombsBar'[id] = IF id \in Gone THEN None ELSE tombsBar[id]
  <2>1. CASE id \in Gone
    BY <1>1, <2>1 DEF tombsBar
  <2>2. CASE id \notin Gone
    <3>1. /\ deletedTables'[id] = deletedTables[id] /\ rows_t'[id] = rows_t[id]
          /\ tables_t'[id] = tables_t[id]
          /\ authorized_views_t'[id] = authorized_views_t[id]
      BY <1>1, <2>2
    <3>2. CASE deletedTables[id] = None
      BY <3>1, <3>2, <2>2, ZenonT(30) DEF tombsBar
    <3>3. CASE deletedTables[id] # None
      <4> DEFINE q == deletedTables[id]
      <4>1. obj[q].sid = id /\ obj' = obj /\ deletedTables'[id] = q
        BY <1>1, <3>1, <3>3, TombstoneObject, ZenonT(30)
      <4>2. TableOf(q)' = TableOf(q)
        BY <3>1, <4>1, ZenonT(30) DEF TableOf
      <4> QED
        BY <2>2, <3>1, <3>3, <4>1, <4>2, ZenonT(30) DEF tombsBar
    <3> QED
      BY <3>2, <3>3
  <2> QED
    BY <2>1, <2>2
<1>5. tombsBar' = [id \in Times |-> IF id \in Gone THEN None ELSE tombsBar[id]]
  <2>1. tombsBar' = [id \in Times |-> tombsBar'[id]]
    BY DEF tombsBar
  <2> QED
    BY <1>4, <2>1
<1>6. Gone \in SUBSET {t \in Times : clock - t > Window}
  BY <1>2, ZenonT(30)
<1>7. pendingBar' = pendingBar /\ clock' = clock
  BY <1>1 DEF pendingBar
<1> QED
  BY <1>3, <1>5, <1>6, <1>7 DEF Service!Purge, Service!Times

(* Purging is the service's purge, or invisible. *)
LEMMA PurgeActionsRefine ==
    IInv /\ (purgeExpiredTombstones \/ PurgeStopsEarly) => Service!Purge
<1> SUFFICES ASSUME IInv, purgeExpiredTombstones \/ PurgeStopsEarly
             PROVE  Service!Purge
  OBVIOUS
<1>1. CASE purgeExpiredTombstones
  BY <1>1, PurgeRefines DEF purgeExpiredTombstones
<1>2. CASE PurgeStopsEarly
  <2>1. PICK Done \in SUBSET Expired, e \in Expired :
          \/ PurgeTombstones(Done, Done, Done)
          \/ PurgeTombstones(Done, Done, Done \union {e})
          \/ PurgeTombstones(Done, Done \union {e}, Done \union {e})
    BY <1>2, ZenonT(30) DEF PurgeStopsEarly
  <2>2. Done \union {e} \in SUBSET Expired /\ Done \subseteq Done \union {e}
    OBVIOUS
  <2> QED
    BY <2>1, <2>2, PurgeRefines
<1> QED
  BY <1>1, <1>2

(* Deleting a view is the service dropping it. *)
LEMMA DeleteAuthorizedViewRefines ==
    ASSUME IInv, NEW v \in Views, DeleteAuthorizedView(v)
    PROVE  Service!DropView(v)
<1>1. /\ authorized_views_t' = [authorized_views_t EXCEPT ![0] = @ \ {v}]
      /\ UNCHANGED <<clock, tables, deletedTables, obj, tables_t, rows_t, req>>
      /\ tables # None /\ 0 \in StorageIds
  BY DEF DeleteAuthorizedView, IInv, Blanks
<1>2. tables \in Ptrs /\ obj[tables].sid = 0
      /\ authorized_views_t'[0] = authorized_views_t[0] \ {v}
      /\ \A id \in StorageIds \ {0} : authorized_views_t'[id] = authorized_views_t[id]
  BY <1>1 DEF IInv, TypeOK, MemoryMatchesStore
<1>3. liveBar # None /\ liveBar' = [liveBar EXCEPT !.views = @ \ {v}]
  <2>1. liveBar = TableOf(tables) /\ liveBar # None
    BY <1>1, <1>2, TableOfType, ZenonT(30) DEF liveBar
  <2>2. liveBar' = [fams |-> obj[tables].fams, rows |-> rows_t[0],
                    views |-> authorized_views_t[0] \ {v},
                    prot |-> obj[tables].prot, created |-> obj[tables].created]
    BY <1>1, <1>2, ZenonT(30) DEF liveBar, TableOf
  <2>3. TableOf(tables) = [fams |-> obj[tables].fams, rows |-> rows_t[0],
                    views |-> authorized_views_t[0],
                    prot |-> obj[tables].prot, created |-> obj[tables].created]
    BY <1>2 DEF TableOf
  <2> QED
    BY <2>1, <2>2, <2>3
<1>4. ASSUME NEW id \in Times PROVE tombsBar'[id] = tombsBar[id]
  <2>1. CASE deletedTables[id] = None
    BY <1>1, <2>1 DEF tombsBar
  <2>2. CASE deletedTables[id] # None
    <3> DEFINE q == deletedTables[id]
    <3>1. id # 0 /\ obj[q].sid = id
      BY <2>2, TombstoneObject, ZenonT(30)
    <3>2. TableOf(q)' = TableOf(q)
      BY <1>1, <1>2, <3>1, ZenonT(30) DEF TableOf
    <3> QED
      BY <1>1, <2>2, <3>2 DEF tombsBar
  <2> QED
    BY <2>1, <2>2
<1>5. tombsBar' = tombsBar
  <2>1. tombsBar' = [id \in Times |-> tombsBar'[id]]
        /\ tombsBar = [id \in Times |-> tombsBar[id]]
    BY DEF tombsBar
  <2> QED
    BY <1>4, <2>1
<1>6. pendingBar' = pendingBar
  BY <1>1 DEF pendingBar
<1> QED
  BY <1>1, <1>3, <1>5, <1>6, ZenonT(30) DEF Service!DropView

(* loadTables rebuilds every table, so only the requests in flight are lost. *)
LEMMA RestartRefines == IInv /\ Restart => Service!Restart
<1> SUFFICES ASSUME IInv, Restart PROVE Service!Restart
  OBVIOUS
<1>1. UNCHANGED <<clock, tables_t, rows_t, authorized_views_t>>
      /\ req' = [h \in Handlers |-> Idle]
  BY DEF Restart
<1>2. pendingBar' = [h \in Handlers |-> Service!Idle]
  BY <1>1 DEF pendingBar, Idle, DataOps, Service!Idle
<1>3. liveBar' = liveBar
  <2>1. CASE tables = None
    BY <2>1, RestartEffect, ZenonT(30) DEF liveBar
  <2>2. CASE tables # None
    <3>1. tables' = 0 /\ 0 # None
      BY <2>2, RestartEffect
    <3>2. obj'[0] = obj[tables]
      BY <2>2, RestartObjects, ZenonT(30)
    <3>3. (IF tables' = None THEN None ELSE
             [fams |-> obj'[tables'].fams, rows |-> rows_t'[obj'[tables'].sid],
              views |-> authorized_views_t'[obj'[tables'].sid],
              prot |-> obj'[tables'].prot, created |-> obj'[tables'].created])
          = TableOf(tables)
      BY <1>1, <3>1, <3>2 DEF TableOf
    <3> QED
      BY <2>2, <3>3, ZenonT(30) DEF liveBar, TableOf
  <2> QED
    BY <2>1, <2>2
<1>4. ASSUME NEW id \in Times PROVE tombsBar'[id] = tombsBar[id]
  <2>1. deletedTables'[id] = IF id # 0 /\ tables_t[id] # None THEN id ELSE None
    BY RestartEffect, ZenonT(30)
  <2>2. CASE id = 0
    BY <2>1, <2>2 DEF tombsBar, IInv, Blanks
  <2>3. CASE id # 0 /\ tables_t[id] = None
    BY <1>1, <2>3 DEF tombsBar
  <2>4. CASE id # 0 /\ tables_t[id] # None
    <3>1. deletedTables[id] # None /\ obj'[id] = obj[deletedTables[id]]
          /\ deletedTables'[id] = id /\ id # None
      BY <2>1, <2>4, RestartEffect, RestartObjects, ZenonT(30)
    <3>2. tombsBar[id] = TableOf(deletedTables[id])
      BY <2>4, <3>1 DEF tombsBar
    <3>3. tombsBar'[id] = TableOf(id)'
      BY <1>1, <2>4, <3>1, ZenonT(30) DEF tombsBar
    <3>4. TableOf(id)' = TableOf(deletedTables[id])
      BY <1>1, <3>1, ZenonT(30) DEF TableOf
    <3> QED
      BY <3>2, <3>3, <3>4, ZenonT(30)
  <2> QED
    BY <2>2, <2>3, <2>4
<1>5. tombsBar' = tombsBar
  <2>1. tombsBar' = [id \in Times |-> tombsBar'[id]]
        /\ tombsBar = [id \in Times |-> tombsBar[id]]
    BY DEF tombsBar
  <2> QED
    BY <1>4, <2>1
<1> QED
  BY <1>1, <1>2, <1>3, <1>5 DEF Service!Restart

(* Every step of the server is a step of the service or changes nothing *)
(* that a client can see.                                               *)
LEMMA NextRefines ==
    ASSUME Benign, IInv, [Next]_vars
    PROVE  [Service!Next]_Service!vars
<1>0. IInv'
  BY NextIInv
<1>1. CASE Tick
  BY <1>1, TickRefines DEF Service!Next
<1>2. ASSUME NEW F \in SUBSET Fams, NEW b \in BOOLEAN, CreateTable(F, b)
      PROVE  Service!Next
  BY <1>2, CreateTableRefines DEF Service!Next
<1>3. ASSUME NEW h \in Handlers, Serve(h) PROVE [Service!Next]_Service!vars
  <2>1. ASSUME NEW op \in DataOps, localRequireTable(h, op) PROVE Service!Next
    <3>1. Service!Accept(h, op)
      BY <2>1, ResolveRefines
    <3> QED
      BY <3>1 DEF Service!Next, DataOps
  <2>2. CASE RequestFails(h)
    BY <2>2, FailRefines DEF Service!Next
  <2>3. CASE MutateRow(h) \/ DropRowRange(h) \/ UpdateTable(h) \/ ModifyColumnFamilies(h)
    <3>1. Service!CarryOut(h)
      BY <1>0, <2>3, MutateRowRefines, DropRowRangeRefines, UpdateTableRefines,
         ModifyColumnFamiliesRefines
    <3> QED
      BY <3>1 DEF Service!Next
  <2>4. CASE DeleteTableCheck(h) \/ DeleteTableFails(h)
    BY <2>4, DeleteTableStutters
  <2>5. CASE DeleteTableCommit(h)
    BY <2>5, DeleteTableRefines DEF Service!Next
  <2>6. ~ CreateAuthorizedView(h) /\ ~ DeleteInstance(h)
    BY DEF Benign, CreateAuthorizedView, DeleteInstance, IInv, Handles, DataOps
  <2> QED
    BY <1>3, <2>1, <2>2, <2>3, <2>4, <2>5, <2>6 DEF Serve
<1>4. ASSUME NEW v \in Views, DeleteAuthorizedView(v) PROVE Service!Next
  BY <1>4, DeleteAuthorizedViewRefines DEF Service!Next
<1>5. CASE UndeleteTable
  BY <1>5, UndeleteTableRefines DEF Service!Next
<1>6. CASE purgeExpiredTombstones \/ PurgeStopsEarly
  BY <1>6, PurgeActionsRefine DEF Service!Next
<1>7. CASE Restart
  BY <1>7, RestartRefines, ZenonT(30) DEF Service!Next
<1>8. CASE UNCHANGED vars
  BY <1>8, ZenonT(30) DEF vars, Service!vars, liveBar, tombsBar, pendingBar, TableOf
<1> QED
  BY <1>1, <1>2, <1>3, <1>4, <1>5, <1>6, <1>7, <1>8
     DEF Next, Benign

(* The server implements TableService for any number of handlers, families, *)
(* views and deletions: soft delete, undelete, the purge, failed            *)
(* transactions and restarts neither lose nor mix the rows, views and       *)
(* metadata of two tables of the same name, and a late request only reaches *)
(* the incarnation it was accepted for.                                     *)
THEOREM LifecycleRefinement ==
    ASSUME Benign
    PROVE  Spec => ImplementsService
<1>1. Init => IInv /\ Service!Init
  BY InitIInv, InitRefines
<1>2. IInv /\ [Next]_vars => IInv'
  BY NextIInv
<1>3. IInv /\ [Next]_vars => [Service!Next]_Service!vars
  BY NextRefines
<1> QED
  BY <1>1, <1>2, <1>3, PTL DEF Spec, ImplementsService, Service!Spec
=============================================================================
