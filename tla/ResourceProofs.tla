----------------------------- MODULE ResourceProofs ----------------------------
(***************************************************************************)
(* Theorems about resources.  MaterializedView: for every number of        *)
(* handlers, view objects and commits, every request and every fault, but  *)
(* for the one thing that breaks them, deleting and re-creating the view   *)
(* under a refresh.  NamedResources, the views and bundles that are only   *)
(* stored: for every set of resources and clients.  Operations: the names  *)
(* of long-running operations and listings page after page, for any        *)
(* sequence of events or pages.                                            *)
(***************************************************************************)
EXTENDS MaterializedView, NamedResources, Operations, SequenceTheorems, FiniteSetTheorems, WellFoundedInduction, TLAPS

Benign == "deleteView" \notin Ops

Marking == \E h \in Handlers : pc[h] = "mark"

\* What a handler's position says of the view it works on.
Claims(h) ==
    /\ pc[h] \in Refreshing => mvs # None /\ at[h] = mvs
    /\ pc[h] = "register" =>
         /\ at[h] \in Objects /\ at[h] # mvs /\ dirty[at[h]]
         /\ \A g \in Handlers : pc[g] = "register" /\ at[g] = at[h] => g = h
    /\ pc[h] \in {"scan", "store"} <=> \E o \in Objects : refreshMu[o] = h
    /\ \A o \in Objects : refreshMu[o] = h => at[h] = o
    /\ pc[h] = "store" => mvRows =< ver[h] /\ ver[h] =< committed

\* The registered view is flagged, about to be flagged, being recomputed from
\* the current rows, or current; without a source it cannot be recomputed.
Tracked ==
    mvs # None =>
      /\ \/ dirty[mvs]
         \/ Marking
         \/ refreshMu[mvs] = None /\ mvRows >= owed
         \/ /\ refreshMu[mvs] # None
            /\ \/ pc[refreshMu[mvs]] = "scan"
               \/ ver[refreshMu[mvs]] >= owed
      /\ \/ "source" \in tables
         \/ dirty[mvs]
         \/ refreshMu[mvs] # None /\ pc[refreshMu[mvs]] = "scan"

IInv ==
    /\ TypeOK
    /\ mvRows =< committed
    /\ Tracked
    /\ \A h \in Handlers : Claims(h)

USE ViewAssumption

(* newMaterializedView returns one of the objects it may return. *)
LEMMA AnyFresh == Fresh # {} => AnyOf(Fresh) \in Fresh
  BY Zenon DEF AnyOf

(* There is an object to load the stored view into. *)
LEMMA AnyObject == AnyOf(Objects) \in Objects
  BY Zenon DEF AnyOf

(* The initial state satisfies the invariant. *)
LEMMA InitIInv == Init => IInv
<1> SUFFICES ASSUME Init PROVE IInv
  OBVIOUS
<1> USE DEF Init
<1>1. TypeOK
  BY DEF TypeOK, Steps
<1>2. Tracked
  BY DEF Tracked
<1>3. \A h \in Handlers : Claims(h)
  BY DEF Claims, Refreshing
<1> QED
  BY <1>1, <1>2, <1>3 DEF IInv
(* A commit to the source announces its mark. *)
LEMMA CommitWriteIInv ==
    ASSUME IInv, NEW h \in Handlers, CommitWrite(h)
    PROVE  IInv'
<1> USE DEF CommitWrite, server, handler, Answer, GoTo
<1>1. TypeOK'
  BY DEF IInv, TypeOK, Steps, Refreshing
<1>2. (mvRows =< committed)'
  BY DEF IInv, TypeOK, Claims
<1>3. Tracked'
  BY DEF IInv, TypeOK, Tracked, Marking, Claims, Refreshing
<1>4. ASSUME NEW g \in Handlers PROVE Claims(g)'
  BY DEF IInv, TypeOK, Claims, Refreshing
<1> QED
  BY <1>1, <1>2, <1>3, <1>4 DEF IInv

(* Marking flags the registered view. *)
LEMMA AfterCommitIInv ==
    ASSUME IInv, NEW h \in Handlers, afterCommit(h)
    PROVE  IInv'
<1> USE DEF afterCommit, server, handler, Answer, GoTo
<1>1. TypeOK'
  BY DEF IInv, TypeOK, Steps, Refreshing
<1>2. (mvRows =< committed)'
  BY DEF IInv, TypeOK, Claims
<1>3. Tracked'
  <2>1. mvs # None => mvs \in Objects
    BY DEF IInv, TypeOK
  <2>2. mvs' # None => dirty'[mvs']
    BY <2>1, ZenonT(30)
  <2> QED
    BY <2>2, Zenon DEF Tracked
<1>4. ASSUME NEW g \in Handlers PROVE Claims(g)'
  BY DEF IInv, TypeOK, Claims, Refreshing
<1> QED
  BY <1>1, <1>2, <1>3, <1>4 DEF IInv

(* Preparing a view touches only an object nobody else knows. *)
LEMMA NewViewIInv ==
    ASSUME IInv, NEW h \in Handlers, NEW o \in Fresh, NEW b \in BOOLEAN, newMaterializedView(h, o, b)
    PROVE  IInv'
<1> USE DEF newMaterializedView, Fresh, server, handler, Answer, GoTo
<1>1. TypeOK'
  BY DEF IInv, TypeOK, Steps, Refreshing
<1>2. (mvRows =< committed)'
  BY DEF IInv, TypeOK, Claims
<1>3. Tracked'
  BY DEF IInv, TypeOK, Tracked, Marking, Claims, Refreshing
<1>4. ASSUME NEW g \in Handlers PROVE Claims(g)'
  BY DEF IInv, TypeOK, Claims, Refreshing
<1> QED
  BY <1>1, <1>2, <1>3, <1>4 DEF IInv

(* A view is registered flagged, with no refresh in progress. *)
LEMMA CreateViewIInv ==
    ASSUME IInv, NEW h \in Handlers, CreateMaterializedView(h)
    PROVE  IInv'
<1> USE DEF CreateMaterializedView, server, handler, Answer, GoTo
<1>1. TypeOK'
  <2>1. at[h] \in Objects
    BY DEF IInv, Claims
  <2> QED
    BY <2>1 DEF IInv, TypeOK, Steps, Refreshing
<1>2. (mvRows =< committed)'
  BY DEF IInv, TypeOK, Claims
<1>3. Tracked'
  BY DEF IInv, TypeOK, Tracked, Marking, Claims, Refreshing
<1>4. ASSUME NEW g \in Handlers PROVE Claims(g)'
  BY DEF IInv, TypeOK, Claims, Refreshing
<1> QED
  BY <1>1, <1>2, <1>3, <1>4 DEF IInv

(* A refused creation only answers. *)
LEMMA CreateFailsIInv ==
    ASSUME IInv, NEW h \in Handlers, CreateMaterializedViewFails(h)
    PROVE  IInv'
<1> USE DEF CreateMaterializedViewFails, server, handler, Answer, GoTo
<1>1. TypeOK'
  BY DEF IInv, TypeOK, Steps, Refreshing
<1>2. (mvRows =< committed)'
  BY DEF IInv, TypeOK, Claims
<1>3. Tracked'
  BY DEF IInv, TypeOK, Tracked, Marking, Claims, Refreshing
<1>4. ASSUME NEW g \in Handlers PROVE Claims(g)'
  BY DEF IInv, TypeOK, Claims, Refreshing
<1> QED
  BY <1>1, <1>2, <1>3, <1>4 DEF IInv

(* A read begins on the registered view. *)
LEMMA TargetIInv ==
    ASSUME IInv, NEW h \in Handlers, materializedViewTarget(h)
    PROVE  IInv'
<1> USE DEF materializedViewTarget, server, handler, Answer, GoTo
<1>1. TypeOK'
  BY DEF IInv, TypeOK, Steps, Refreshing
<1>2. (mvRows =< committed)'
  BY DEF IInv, TypeOK, Claims
<1>3. Tracked'
  BY DEF IInv, TypeOK, Tracked, Marking, Claims, Refreshing
<1>4. ASSUME NEW g \in Handlers PROVE Claims(g)'
  BY DEF IInv, TypeOK, Claims, Refreshing
<1> QED
  BY <1>1, <1>2, <1>3, <1>4 DEF IInv

(* Looking at the flag changes nothing. *)
LEMMA ReadableIInv ==
    ASSUME IInv, NEW h \in Handlers, readable(h)
    PROVE  IInv'
<1> USE DEF readable, server, handler, Answer, GoTo
<1>1. TypeOK'
  BY DEF IInv, TypeOK, Steps, Refreshing
<1>2. (mvRows =< committed)'
  BY DEF IInv, TypeOK, Claims
<1>3. Tracked'
  BY DEF IInv, TypeOK, Tracked, Marking, Claims, Refreshing
<1>4. ASSUME NEW g \in Handlers PROVE Claims(g)'
  BY DEF IInv, TypeOK, Claims, Refreshing
<1> QED
  BY <1>1, <1>2, <1>3, <1>4 DEF IInv

(* The flag is cleared only by the holder of refreshMu, who scans next. *)
LEMMA LockedIInv ==
    ASSUME IInv, NEW h \in Handlers, readableLocked(h)
    PROVE  IInv'
<1> USE DEF readableLocked, server, handler, Answer, GoTo
<1>1. TypeOK'
  <2>1. at[h] \in Objects
    BY DEF IInv, TypeOK, Claims, Refreshing
  <2>2. dirty' \in [Objects -> BOOLEAN]
    <3>1. dirty' = dirty \/ dirty' = [dirty EXCEPT ![at[h]] = FALSE]
      BY Zenon
    <3>2. dirty \in [Objects -> BOOLEAN]
      BY DEF IInv, TypeOK
    <3> QED
      BY <3>1, <3>2, ZenonT(30)
  <2>3. refreshMu' \in [Objects -> Handlers \cup {None}]
    BY <2>1 DEF IInv, TypeOK
  <2> QED
    BY <2>2, <2>3 DEF IInv, TypeOK, Steps, Refreshing
<1>2. (mvRows =< committed)'
  BY DEF IInv, TypeOK, Claims
<1>3. Tracked'
  BY DEF IInv, TypeOK, Tracked, Marking, Claims, Refreshing
<1>4. ASSUME NEW g \in Handlers PROVE Claims(g)'
  BY DEF IInv, TypeOK, Claims, Refreshing
<1> QED
  BY <1>1, <1>2, <1>3, <1>4 DEF IInv

(* The scan sees the current rows. *)
LEMMA ScanIInv ==
    ASSUME IInv, NEW h \in Handlers, recomputeScan(h)
    PROVE  IInv'
<1> USE DEF recomputeScan, server, handler, Answer, GoTo
<1>1. TypeOK'
  BY DEF IInv, TypeOK, Steps, Refreshing
<1>2. (mvRows =< committed)'
  BY DEF IInv, TypeOK, Claims
<1>3. Tracked'
  BY DEF IInv, TypeOK, Tracked, Marking, Claims, Refreshing
<1>4. ASSUME NEW g \in Handlers PROVE Claims(g)'
  BY DEF IInv, TypeOK, Claims, Refreshing
<1> QED
  BY <1>1, <1>2, <1>3, <1>4 DEF IInv

(* Storing the scanned rows makes the view current unless it is flagged. *)
LEMMA StoreIInv ==
    ASSUME IInv, NEW h \in Handlers, recomputeStore(h)
    PROVE  IInv'
<1> USE DEF recomputeStore, server, handler, Answer, GoTo
<1>1. TypeOK'
  BY ZenonT(30) DEF IInv, TypeOK, Steps, Refreshing
<1>2. (mvRows =< committed)'
  BY DEF IInv, TypeOK, Claims
<1>3. Tracked'
  BY DEF IInv, TypeOK, Tracked, Marking, Claims, Refreshing
<1>4. ASSUME NEW g \in Handlers PROVE Claims(g)'
  BY DEF IInv, TypeOK, Claims, Refreshing
<1> QED
  BY <1>1, <1>2, <1>3, <1>4 DEF IInv

(* A failed refresh flags the view again. *)
LEMMA FailsIInv ==
    ASSUME IInv, NEW h \in Handlers, readableFails(h)
    PROVE  IInv'
<1> USE DEF readableFails, server, handler, Answer, GoTo
<1>1. TypeOK'
  <2>1. at[h] \in Objects
    BY DEF IInv, TypeOK, Claims, Refreshing
  <2>2. dirty' \in [Objects -> BOOLEAN]
    BY <2>1 DEF IInv, TypeOK
  <2>3. refreshMu' \in [Objects -> Handlers \cup {None}]
    BY <2>1 DEF IInv, TypeOK
  <2> QED
    BY <2>2, <2>3 DEF IInv, TypeOK, Steps, Refreshing
<1>2. (mvRows =< committed)'
  BY DEF IInv, TypeOK, Claims
<1>3. Tracked'
  BY DEF IInv, TypeOK, Tracked, Marking, Claims, Refreshing
<1>4. ASSUME NEW g \in Handlers PROVE Claims(g)'
  BY DEF IInv, TypeOK, Claims, Refreshing
<1> QED
  BY <1>1, <1>2, <1>3, <1>4 DEF IInv

(* Reading changes nothing. *)
LEMMA ReadIInv ==
    ASSUME IInv, NEW h \in Handlers, ReadView(h)
    PROVE  IInv'
<1> USE DEF ReadView, server, handler, Answer, GoTo
<1>1. TypeOK'
  BY DEF IInv, TypeOK, Steps, Refreshing
<1>2. (mvRows =< committed)'
  BY DEF IInv, TypeOK, Claims
<1>3. Tracked'
  BY DEF IInv, TypeOK, Tracked, Marking, Claims, Refreshing
<1>4. ASSUME NEW g \in Handlers PROVE Claims(g)'
  BY DEF IInv, TypeOK, Claims, Refreshing
<1> QED
  BY <1>1, <1>2, <1>3, <1>4 DEF IInv
(* Tables come and go; the source only while no view is registered. *)
LEMMA TablesIInv ==
    ASSUME IInv, NEW t \in {"source", "namesake"}, CreateTable(t) \/ DeleteTable(t)
    PROVE  IInv'
<1>1. tables' \subseteq {"source", "namesake"} /\ committed' \in 0 .. MaxCommits
      /\ committed' >= committed /\ owed' \in 0 .. committed'
  <2>1. tables' \subseteq {"source", "namesake"}
    <3>1. tables' = tables \cup {t} \/ tables' = tables \ {t}
      BY DEF CreateTable, DeleteTable
    <3> QED
      BY <3>1, Zenon DEF IInv, TypeOK
  <2>2. \/ committed' = committed /\ owed' = owed
        \/ committed < MaxCommits /\ committed' = committed + 1 /\ owed' = committed + 1
    BY DEF CreateTable, DeleteTable
  <2>3. committed \in 0 .. MaxCommits /\ owed \in 0 .. committed
    BY DEF IInv, TypeOK
  <2> QED
    BY <2>1, <2>2, <2>3
<1>2. UNCHANGED <<mvs, dirty, refreshMu, protected, record, mvRows, pc, at, ver>>
  BY DEF CreateTable, DeleteTable, handler
<1>3. TypeOK' /\ (mvRows =< committed)'
  BY <1>1, <1>2 DEF IInv, TypeOK
<1>4. Tracked'
  BY DEF IInv, TypeOK, Tracked, Marking, CreateTable, DeleteTable, handler
<1>5. ASSUME NEW g \in Handlers PROVE Claims(g)'
  BY <1>1, <1>2 DEF IInv, TypeOK, Claims
<1> QED
  BY <1>3, <1>4, <1>5 DEF IInv

(* A dropped family makes a new version of the source that no view owes. *)
LEMMA DropFamilyIInv ==
    ASSUME IInv, ModifyColumnFamilies
    PROVE  IInv'
<1> USE DEF ModifyColumnFamilies, handler
<1>1. TypeOK'
  BY DEF IInv, TypeOK
<1>2. (mvRows =< committed)'
  BY DEF IInv, TypeOK
<1>3. Tracked'
  BY DEF IInv, TypeOK, Tracked, Marking
<1>4. ASSUME NEW g \in Handlers PROVE Claims(g)'
  BY DEF IInv, TypeOK, Claims, Refreshing
<1> QED
  BY <1>1, <1>2, <1>3, <1>4 DEF IInv

(* Changing the protection concerns nothing the invariant speaks of. *)
LEMMA UpdateIInv ==
    ASSUME IInv, NEW b \in BOOLEAN, UpdateMaterializedView(b)
    PROVE  IInv'
<1> USE DEF UpdateMaterializedView, handler
<1>1. TypeOK'
  BY DEF IInv, TypeOK
<1>2. Tracked' /\ (mvRows =< committed)'
  BY DEF IInv, Tracked, Marking
<1>3. ASSUME NEW g \in Handlers PROVE Claims(g)'
  BY DEF IInv, Claims
<1> QED
  BY <1>1, <1>2, <1>3 DEF IInv

(* A restart registers the stored view flagged and forgets every request. *)
LEMMA RestartIInv ==
    ASSUME IInv, LoadMaterializedViews
    PROVE  IInv'
<1> USE DEF LoadMaterializedViews
<1>1. TypeOK'
  <2>1. /\ mvs' \in Objects \cup {None} /\ dirty' \in [Objects -> BOOLEAN]
        /\ protected' \in [Objects -> BOOLEAN]
    <3>1. CASE record # None /\ "source" \in tables
      <4>1. mvs' \in Objects /\ record \in BOOLEAN
        BY <3>1, AnyObject, ZenonT(30) DEF IInv, TypeOK
      <4> QED BY <3>1, <4>1, ZenonT(30)
    <3>2. CASE ~ (record # None /\ "source" \in tables)
      BY <3>2, ZenonT(30)
    <3> QED BY <3>1, <3>2, ZenonT(30)
  <2>2. tables' \subseteq {"source", "namesake"}
    BY ZenonT(30) DEF IInv, TypeOK
  <2> QED
    BY <2>1, <2>2 DEF IInv, TypeOK, Steps
<1>2. mvs' # None => dirty'[mvs']
  BY AnyObject, ZenonT(30)
<1>3. Tracked' /\ (mvRows =< committed)'
  BY <1>2 DEF IInv, Tracked
<1>4. ASSUME NEW g \in Handlers PROVE Claims(g)'
  BY DEF Claims, Refreshing
<1> QED
  BY <1>1, <1>3, <1>4 DEF IInv

(* Every step preserves the invariant. *)
LEMMA NextIInv ==
    ASSUME Benign
    PROVE  IInv /\ [Next]_vars => IInv'
<1> SUFFICES ASSUME IInv, [Next]_vars PROVE IInv'
  OBVIOUS
<1>1. CASE UNCHANGED vars
  <2>1. TypeOK' /\ (mvRows =< committed)' /\ Tracked'
    BY <1>1, ZenonT(30) DEF IInv, TypeOK, Tracked, Marking, vars, server, handler
  <2>2. ASSUME NEW g \in Handlers PROVE Claims(g)'
    BY <1>1 DEF IInv, Claims, vars, server, handler
  <2> QED
    BY <2>1, <2>2 DEF IInv
<1>2. ASSUME NEW h \in Handlers, Step(h) PROVE IInv'
  BY <1>2, AnyFresh, CommitWriteIInv, AfterCommitIInv, NewViewIInv, CreateViewIInv,
     CreateFailsIInv, TargetIInv, ReadableIInv, LockedIInv, ScanIInv, StoreIInv,
     FailsIInv, ReadIInv, Zenon DEF Step
<1>3. ASSUME DeleteMaterializedView PROVE FALSE
  BY <1>3 DEF Benign, DeleteMaterializedView
<1> QED
  BY <1>1, <1>2, <1>3, TablesIInv, DropFamilyIInv, UpdateIInv, RestartIInv, Zenon DEF Next

(* The stale flag is never lost: unless the view is deleted, a view that   *)
(* is not flagged and not being refreshed holds every write to the source, *)
(* whatever fails and whenever the server restarts.                        *)
THEOREM ViewFreshness ==
    ASSUME Benign
    PROVE  Spec => [](TypeOK /\ UnflaggedViewIsCurrent)
<1>1. IInv => TypeOK /\ UnflaggedViewIsCurrent
  BY DEF IInv, Tracked, Marking, UnflaggedViewIsCurrent
<1> QED
  BY <1>1, InitIInv, NextIInv, PTL DEF Spec

(* Two refreshes of a view never overtake each other: its rows only move   *)
(* forward.                                                                *)
THEOREM ViewMonotone ==
    ASSUME Benign
    PROVE  Spec => RowsNeverGoBack
<1>1. ASSUME IInv, [Next]_vars PROVE [record' # None => mvRows' >= mvRows]_vars
  <2>1. CASE \E h \in Handlers : recomputeStore(h)
    BY <1>1, <2>1 DEF recomputeStore, IInv, TypeOK, Claims
  <2>2. CASE ~ \E h \in Handlers : recomputeStore(h)
    <3>1. mvRows' = mvRows
      <4>1. CASE UNCHANGED vars
        BY <4>1, ZenonT(30) DEF vars, server
      <4>2. ASSUME NEW h \in Handlers, Step(h) PROVE mvRows' = mvRows
        BY <2>2, <4>2, ZenonT(30) DEF Step, server, CommitWrite, afterCommit, newMaterializedView,
           CreateMaterializedView, CreateMaterializedViewFails, materializedViewTarget,
           readable, readableLocked, recomputeScan, readableFails, ReadView
      <4>3. CASE ModifyColumnFamilies
        BY <4>3 DEF ModifyColumnFamilies
      <4>7. ASSUME DeleteMaterializedView PROVE FALSE
        BY <4>7 DEF Benign, DeleteMaterializedView
      <4>4. ASSUME NEW t, CreateTable(t) \/ DeleteTable(t) PROVE mvRows' = mvRows
        BY <4>4 DEF CreateTable, DeleteTable
      <4>5. ASSUME NEW b, UpdateMaterializedView(b) PROVE mvRows' = mvRows
        BY <4>5 DEF UpdateMaterializedView
      <4>6. CASE LoadMaterializedViews
        BY <4>6 DEF LoadMaterializedViews
      <4> QED
        BY <1>1, <4>1, <4>2, <4>3, <4>4, <4>5, <4>6, <4>7, Zenon DEF Next
    <3> QED
      BY <1>1, <3>1 DEF IInv, TypeOK
  <2> QED
    BY <2>1, <2>2, ZenonT(30)
<1> QED
  BY <1>1, InitIInv, NextIInv, PTL DEF Spec, RowsNeverGoBack

(* Protection outlives a restart: what CreateMaterializedView and          *)
(* UpdateMaterializedView set is what the store holds, deletions of the    *)
(* view included.                                                          *)
THEOREM ViewProtection == Spec => []ProtectionStored
<1> DEFINE PInv == /\ mvs \in Objects \cup {None}
                   /\ protected \in [Objects -> BOOLEAN]
                   /\ \A h \in Handlers : pc[h] = "register" => at[h] \in Objects
                   /\ pc \in [Handlers -> Steps]
                   /\ at \in [Handlers -> Objects \cup {None}]
                   /\ record \in BOOLEAN \cup {None}
                   /\ ProtectionStored
<1>1. Init => PInv
  BY DEF Init, ProtectionStored, Steps
<1>2. ASSUME PInv, [Next]_vars PROVE PInv'
  <2>1. CASE UNCHANGED vars
    BY <1>2, <2>1 DEF vars, server, handler, ProtectionStored
  <2>2. ASSUME NEW h \in Handlers, NEW o \in Fresh, NEW b \in BOOLEAN, newMaterializedView(h, o, b)
        PROVE  PInv'
    BY <1>2, <2>2 DEF newMaterializedView, Fresh, ProtectionStored, Steps
  <2>3. ASSUME NEW h \in Handlers, CreateMaterializedView(h) PROVE PInv'
    BY <1>2, <2>3 DEF CreateMaterializedView, ProtectionStored, Steps, Refreshing
  <2>4. ASSUME NEW h \in Handlers,
               CommitWrite(h) \/ afterCommit(h) \/ CreateMaterializedViewFails(h) \/ ReadView(h)
        PROVE  PInv'
    BY <1>2, <2>4 DEF CommitWrite, afterCommit, CreateMaterializedViewFails, ReadView, Answer,
       GoTo, server, ProtectionStored, Steps
  <2>5. ASSUME NEW h \in Handlers,
               materializedViewTarget(h) \/ readable(h) \/ readableLocked(h)
        PROVE  PInv'
    BY <1>2, <2>5 DEF materializedViewTarget, readable, readableLocked, GoTo,
       server, ProtectionStored, Steps, Refreshing
  <2>6. ASSUME NEW h \in Handlers,
               recomputeScan(h) \/ recomputeStore(h) \/ readableFails(h)
        PROVE  PInv'
    BY <1>2, <2>6 DEF recomputeScan, recomputeStore, readableFails, Answer, GoTo,
       server, ProtectionStored, Steps, Refreshing
  <2>7. ASSUME NEW b \in BOOLEAN, UpdateMaterializedView(b) PROVE PInv'
    BY <1>2, <2>7 DEF UpdateMaterializedView, handler, ProtectionStored
  <2>8. ASSUME ModifyColumnFamilies \/ DeleteMaterializedView
                 \/ \E t \in {"source", "namesake"} : CreateTable(t) \/ DeleteTable(t)
        PROVE  PInv'
    BY <1>2, <2>8, ZenonT(30) DEF ModifyColumnFamilies, DeleteMaterializedView, CreateTable, DeleteTable,
       handler, ProtectionStored
  <2>9. CASE LoadMaterializedViews
    <3>0. /\ pc' \in [Handlers -> Steps] /\ at' \in [Handlers -> Objects \cup {None}]
          /\ \A h \in Handlers : pc'[h] # "register"
      <4>1. pc' = [h \in Handlers |-> "idle"] /\ at' = [h \in Handlers |-> None]
        BY <2>9, ZenonT(30) DEF LoadMaterializedViews
      <4> QED BY <4>1 DEF Steps
    <3>1. CASE record # None /\ "source" \in tables
      <4>1. mvs' \in Objects /\ record \in BOOLEAN /\ record' = record
        BY <1>2, <2>9, <3>1, AnyObject, ZenonT(30) DEF LoadMaterializedViews
      <4>2. protected' \in [Objects -> BOOLEAN] /\ protected'[mvs'] = record
        BY <2>9, <3>1, <4>1, ZenonT(30) DEF LoadMaterializedViews
      <4> QED BY <3>0, <4>1, <4>2, ZenonT(30) DEF ProtectionStored
    <3>2. CASE ~ (record # None /\ "source" \in tables)
      <4>1. mvs' = None /\ record' = record /\ protected' = [o \in Objects |-> FALSE]
        BY <2>9, <3>2, ZenonT(30) DEF LoadMaterializedViews
      <4> QED BY <1>2, <3>0, <4>1, ZenonT(30) DEF ProtectionStored
    <3> QED BY <3>1, <3>2
  <2> HIDE DEF PInv
  <2> QED
    BY <1>2, <2>1, <2>2, <2>3, <2>4, <2>5, <2>6, <2>7, <2>8, <2>9, AnyFresh, Zenon DEF Next, Step
<1> QED
  BY <1>1, <1>2, PTL DEF Spec

-----------------------------------------------------------------------------
(* Etags of views, bundles and policies prevent lost updates.                *)

\* What waits for the validation of its query is a logical view that existed.
Validated ==
  \A c \in Clients : doing[c] \in {"validate", "validateProtection"} =>
    KindOf[on[c]] = "logical" /\ got[c].there

\* Every accepted update of a view or a bundle counts one, and so does every
\* accepted update of a policy; a policy that is not there counts none.
ContentCounted ==
  \A n \in Names : KindOf[n] # "logical" /\ meta[n].there => meta[n].data = made[n]
PolicyCounted == \A n \in Names : sets[n] = currentPolicy(n)

\* The invariants that are inductive together.
Inv == TypesResources /\ Validated /\ ContentCounted /\ PolicyCounted

\* The empty content has the type of contents.
LEMMA AbsentType == Absent \in Contents /\ ~Absent.there /\ Absent.data = 0
BY MaxDataAssumption DEF Absent, Contents

\* The first state has no resources and no policies.
LEMMA InitInv == InitResources => Inv
BY AbsentType, MaxDataAssumption
DEF InitResources, Inv, TypesResources, Validated, ContentCounted, PolicyCounted, currentPolicy, NoPolicy, NoName

\* Creating and deleting a resource, and changing its protection.
LEMMA ResourcesKeep ==
  ASSUME Inv, NEW n \in Names, NEW b \in BOOLEAN,
         Create(n, b) \/ Delete(n, b) \/ Protect(n, b)
  PROVE  Inv'
<1>0. Validated'
  BY DEF Create, Delete, Protect, clientVars, Inv, Validated
<1>1. CASE Create(n, b)
  <2>1. TypesResources'
    BY <1>1, MaxDataAssumption DEF Create, Inv, TypesResources, Contents, clientVars
  <2>2. ContentCounted'
    BY <1>1 DEF Create, Inv, TypesResources, ContentCounted, Contents
  <2>3. PolicyCounted'
    BY <1>1 DEF Create, Inv, TypesResources, PolicyCounted, currentPolicy, NoPolicy, Contents
  <2> QED BY <1>0, <2>1, <2>2, <2>3, ZenonT(30) DEF Inv
<1>2. CASE Delete(n, b)
  <2>1. TypesResources'
    <3>1. meta' \in [Names -> Contents] /\ made' \in [Names -> Nat]
      BY <1>2, AbsentType DEF Delete, Inv, TypesResources
    <3>2. policy' \in [Names -> NoPolicy..MaxData] /\ sets' \in [Names -> Nat]
      BY <1>2, MaxDataAssumption DEF Delete, Inv, TypesResources, NoPolicy
    <3> QED BY <1>2, <3>1, <3>2 DEF Delete, Inv, TypesResources, clientVars
  <2>2. ContentCounted'
    BY <1>2, AbsentType DEF Delete, Inv, TypesResources, ContentCounted
  <2>3. PolicyCounted'
    BY <1>2, AbsentType DEF Delete, Inv, TypesResources, PolicyCounted, currentPolicy, NoPolicy
  <2> QED BY <1>0, <2>1, <2>2, <2>3 DEF Inv
<1>3. CASE Protect(n, b)
  <2>1. TypesResources'
    BY <1>3 DEF Protect, Inv, TypesResources, Contents, clientVars
  <2>2. ContentCounted'
    BY <1>3 DEF Protect, Inv, TypesResources, ContentCounted, Contents
  <2>3. PolicyCounted'
    BY <1>3 DEF Protect, Inv, TypesResources, PolicyCounted, currentPolicy, NoPolicy, Contents
  <2> QED BY <1>0, <2>1, <2>2, <2>3 DEF Inv
<1> QED BY <1>1, <1>2, <1>3

\* A step that changes neither resources nor policies, and leaves its client
\* with a content of a resource or with nothing.
LEMMA ClientKeeps ==
  ASSUME Inv, NEW c \in Clients, NEW n \in Names \cup {NoName}, NEW m \in Contents,
         NEW step \in {"idle", "read", "validate", "validateProtection", "policy", "set"},
         step # "idle" => n \in Names,
         step \in {"validate", "validateProtection"} => KindOf[n] = "logical" /\ m.there,
         Hold(c, n, m, step), UNCHANGED <<meta, policy, made, sets>>
  PROVE  Inv'
<1>1. TypesResources'
  BY DEF Hold, Inv, TypesResources
<1>2. Validated'
  BY DEF Hold, Inv, TypesResources, Validated
<1> QED BY <1>1, <1>2 DEF Inv, ContentCounted, PolicyCounted, currentPolicy, NoPolicy

\* Reading a resource or a policy, and looking a resource up.
LEMMA ReadsKeep ==
  ASSUME Inv, NEW c \in Clients, NEW n \in Names,
         Get(c, n) \/ GetIamPolicy(c, n) \/ requireIAMResource(c) \/ Refuse(c)
  PROVE  Inv'
<1>1. CASE Get(c, n)
  <2>1. meta[n] \in Contents
    BY DEF Inv, TypesResources
  <2> QED BY <1>1, <2>1, ClientKeeps DEF Get
<1>2. CASE GetIamPolicy(c, n)
  <2>1. [Absent EXCEPT !.data = currentPolicy(n)] \in Contents
    BY AbsentType, MaxDataAssumption DEF Inv, TypesResources, currentPolicy, NoPolicy, Contents
  <2> QED BY <1>2, <2>1, ClientKeeps DEF GetIamPolicy
<1>3. CASE requireIAMResource(c)
  <2>1. on[c] \in Names /\ got[c] \in Contents
    BY <1>3, ZenonT(30) DEF requireIAMResource, Inv, TypesResources
  <2>2. CASE meta[on[c]].there
    BY <1>3, <2>1, <2>2, ClientKeeps, ZenonT(30) DEF requireIAMResource
  <2>3. CASE ~meta[on[c]].there
    BY <1>3, <2>3, AbsentType, ClientKeeps, ZenonT(30) DEF requireIAMResource, Done
  <2> QED BY <2>2, <2>3
<1>4. CASE Refuse(c)
  BY <1>4, AbsentType, ClientKeeps DEF Refuse, Done
<1> QED BY <1>1, <1>2, <1>3, <1>4, ZenonT(30)

\* An accepted update adds one to the content its etag stands for.
LEMMA UpdateKeeps ==
  ASSUME Inv, NEW c \in Clients, Update(c)
  PROVE  Inv'
<1> DEFINE n == on[c]
<1>1. /\ n \in Names /\ meta[n] \in Contents /\ meta[n].there
      /\ got[c].data = meta[n].data /\ got[c].data < MaxData
      /\ got[c].data \in 0..MaxData
  BY DEF Update, Accepted, checkEtag, Inv, TypesResources, Contents
<1>2. /\ meta' = [meta EXCEPT ![n].data = meta[n].data + 1]
      /\ made' = [made EXCEPT ![n] = made[n] + 1]
      /\ UNCHANGED <<policy, sets>>
  BY <1>1 DEF Update
<1>3. TypesResources'
  <2>1. meta' \in [Names -> Contents] /\ made' \in [Names -> Nat]
    BY <1>1, <1>2, MaxDataAssumption DEF Inv, TypesResources, Contents
  <2> QED BY <2>1, <1>2, AbsentType DEF Update, Done, Hold, Inv, TypesResources
<1>4. ContentCounted'
  BY <1>1, <1>2 DEF Inv, TypesResources, ContentCounted, Contents
<1>5. PolicyCounted'
  BY <1>1, <1>2 DEF Inv, TypesResources, PolicyCounted, currentPolicy, NoPolicy, Contents
<1>6. Validated'
  BY DEF Update, Done, Hold, Inv, TypesResources, Validated
<1> QED BY <1>3, <1>4, <1>5, <1>6 DEF Inv

\* The two steps of an update of a logical view, with and without an etag.
LEMMA LogicalKeeps ==
  ASSUME Inv, NEW c \in Clients, NEW n \in Names, NEW p \in BOOLEAN,
         UpdateLogicalView(c) \/ ProtectLogicalView(c, n, p) \/ StoreLogicalView(c)
  PROVE  Inv'
<1>1. CASE UpdateLogicalView(c)
  <2>1. /\ on[c] \in Names /\ [meta[on[c]] EXCEPT !.data = @ + 1] \in Contents
        /\ [meta[on[c]] EXCEPT !.data = @ + 1].there
    BY <1>1, MaxDataAssumption
    DEF UpdateLogicalView, Accepted, checkEtag, Inv, TypesResources, Contents
  <2> QED BY <1>1, <2>1, ClientKeeps, ZenonT(30) DEF UpdateLogicalView
<1>2. CASE ProtectLogicalView(c, n, p)
  <2>1. [meta[n] EXCEPT !.prot = p] \in Contents /\ [meta[n] EXCEPT !.prot = p].there
    BY <1>2 DEF ProtectLogicalView, Inv, TypesResources, Contents
  <2> QED BY <1>2, <2>1, ClientKeeps, ZenonT(30) DEF ProtectLogicalView
<1>3. CASE StoreLogicalView(c)
  <2> USE <1>3
  <2>1. /\ on[c] \in Names /\ got[c] \in Contents
        /\ KindOf[on[c]] = "logical" /\ got[c].there
    BY ZenonT(30) DEF StoreLogicalView, Inv, TypesResources, Validated
  <2>2. TypesResources'
    BY <2>1, AbsentType DEF StoreLogicalView, Done, Hold, Inv, TypesResources
  <2>3. Validated'
    BY DEF StoreLogicalView, Done, Hold, Inv, TypesResources, Validated
  <2>4. ContentCounted'
    BY <2>1 DEF StoreLogicalView, Inv, TypesResources, ContentCounted
  <2>5. PolicyCounted'
    BY <2>1 DEF StoreLogicalView, Inv, TypesResources, PolicyCounted, currentPolicy, NoPolicy
  <2> QED BY <2>2, <2>3, <2>4, <2>5 DEF Inv
<1> QED BY <1>1, <1>2, <1>3

\* An accepted policy adds one to the policy its etag stands for.
LEMMA SetIamPolicyKeeps ==
  ASSUME Inv, NEW c \in Clients, SetIamPolicy(c)
  PROVE  Inv'
<1>1. on[c] \in Names /\ got[c].data \in 0..MaxData
  BY DEF SetIamPolicy, Inv, TypesResources, Contents
<1>2. TypesResources'
  <2>1. policy' \in [Names -> NoPolicy..MaxData] /\ sets' \in [Names -> Nat]
    BY <1>1, MaxDataAssumption DEF SetIamPolicy, Inv, TypesResources, NoPolicy
  <2> QED BY <2>1, AbsentType DEF SetIamPolicy, Done, Hold, Inv, TypesResources
<1>3. Validated'
  BY DEF SetIamPolicy, Done, Hold, Inv, TypesResources, Validated
<1>4. ContentCounted'
  BY DEF SetIamPolicy, Inv, ContentCounted
<1>5. PolicyCounted'
  BY <1>1 DEF SetIamPolicy, Inv, TypesResources, PolicyCounted, currentPolicy, NoPolicy
<1> QED BY <1>2, <1>3, <1>4, <1>5 DEF Inv

\* Every step preserves the invariant.
LEMMA Inductive == Inv /\ [NextResources]_resourceVars => Inv'
<1> SUFFICES ASSUME Inv, [NextResources]_resourceVars PROVE Inv'
  OBVIOUS
<1>1. ASSUME NEW n \in Names, NEW b \in BOOLEAN,
             Create(n, b) \/ Delete(n, b) \/ Protect(n, b)
      PROVE  Inv'
  BY <1>1, ResourcesKeep
<1>2. ASSUME NEW c \in Clients, NEW n \in Names, Get(c, n) \/ GetIamPolicy(c, n)
      PROVE  Inv'
  BY <1>2, ReadsKeep
<1>3. ASSUME NEW c \in Clients,
             \/ Refuse(c) \/ Update(c) \/ UpdateLogicalView(c) \/ StoreLogicalView(c)
             \/ requireIAMResource(c) \/ SetIamPolicy(c)
      PROVE  Inv'
  <2>1. on[c] \in Names
    BY <1>3 DEF Refuse, Update, Accepted, UpdateLogicalView, StoreLogicalView,
                requireIAMResource, SetIamPolicy, Inv, TypesResources
  <2>2. CASE Refuse(c) \/ requireIAMResource(c)
    BY <2>1, <2>2, ReadsKeep
  <2>3. CASE UpdateLogicalView(c) \/ StoreLogicalView(c)
    BY <2>1, <2>3, LogicalKeeps, ZenonT(30)
  <2> QED BY <1>3, <2>2, <2>3, UpdateKeeps, SetIamPolicyKeeps
<1>4. ASSUME NEW c \in Clients, NEW n \in Names, NEW p \in BOOLEAN,
             ProtectLogicalView(c, n, p)
      PROVE  Inv'
  BY <1>4, LogicalKeeps
<1>5. CASE UNCHANGED resourceVars
  BY <1>5 DEF resourceVars, Inv, TypesResources, Validated, ContentCounted, PolicyCounted, currentPolicy, NoPolicy
<1> QED BY <1>1, <1>2, <1>3, <1>4, <1>5 DEF NextResources

\* Clients that send back the etag they read never lose an update of a view, a
\* bundle or a policy (UpdateAuthorizedView, UpdateSchemaBundle, SetIamPolicy),
\* whatever the resources, the clients and the number of updates.
THEOREM EtagsPreventLostUpdates == SpecResources => []NoLostUpdate
<1>1. Inv => NoLostUpdate
  BY DEF Inv, ContentCounted, PolicyCounted, NoLostUpdate, currentPolicy
<1> QED BY InitInv, Inductive, <1>1, PTL DEF SpecResources

-----------------------------------------------------------------------------
(* Induction over numbers, and recursion up to a number with what holds      *)
(* after each step.                                                          *)

\* A set of numbers that is not empty has a least one.
LEMMA LeastOf ==
  ASSUME NEW T, T \subseteq Nat, T # {}
  PROVE  \E x \in T : \A y \in T : x <= y
  <1> DEFINE R == {ss \in Nat \X Nat : ss[1] < ss[2]}
  <1>1. IsWellFoundedOn(R, Nat)
    BY NatLessThanWellFounded DEF OpToRel
  <1>2. PICK x \in T : \A y \in T : ~ (<<y, x>> \in R)
    <2> HIDE DEF R
    <2> QED BY <1>1, WFMin, Zenon
  <1>3. \A y \in T : ~(y < x)
    BY <1>2, ZenonT(30)
  <1>4. x \in Nat /\ \A y \in T : y \in Nat
    OBVIOUS
  <1> QED BY <1>3, <1>4

\* A set that holds 0 and, with a number, the next one holds all numbers.
LEMMA NatSetInduction ==
  ASSUME NEW S, 0 \in S, \A n \in Nat : n \in S => n + 1 \in S
  PROVE  Nat \subseteq S
  <1> DEFINE T == Nat \ S
  <1> SUFFICES ASSUME T # {} PROVE FALSE
    OBVIOUS
  <1>1. PICK x \in T : \A y \in T : x <= y
    <2>1. T \subseteq Nat
      OBVIOUS
    <2> HIDE DEF T
    <2> QED BY <2>1, LeastOf, Zenon
  <1>2. x \in Nat /\ x # 0 /\ x - 1 \in Nat /\ ~(x <= x - 1)
    OBVIOUS
  <1>3. x - 1 \notin T
    BY <1>1, <1>2, ZenonT(30)
  <1> QED BY <1>2, <1>3

Unrolled(f, x0, step, n) == f = [i \in 0..n |-> IF i = 0 THEN x0 ELSE step[i][f[i - 1]]]

\* A recursive function whose steps lead from one of the sets X[i] to the next
\* exists, and its values lie in them.
LEMMA Recursion ==
  ASSUME NEW k \in Nat, NEW X, NEW x0, x0 \in X[0], NEW step,
         \A i \in 1..k : \A x \in X[i - 1] : step[i][x] \in X[i]
  PROVE  \E f : Unrolled(f, x0, step, k) /\ \A i \in 0..k : f[i] \in X[i]
  <1> DEFINE Good(f, n) == Unrolled(f, x0, step, n) /\ \A i \in 0..n : f[i] \in X[i]
  <1> DEFINE S == {n \in Nat : n <= k => \E f : Good(f, n)}
  <1>1. 0 \in S
    <2>1. PICK f : f = [i \in 0..0 |-> x0]
      BY Zenon
    <2>2. f = [i \in 0..0 |-> IF i = 0 THEN x0 ELSE step[i][f[i - 1]]] /\ \A i \in 0..0 : f[i] \in X[i]
      BY <2>1
    <2> QED BY <2>2 DEF Unrolled
  <1>2. ASSUME NEW n \in Nat, n \in S PROVE n + 1 \in S
    <2> SUFFICES ASSUME n + 1 <= k PROVE \E f : Good(f, n + 1)
      OBVIOUS
    <2>0. n <= k /\ n + 1 \in 1..k /\ (n + 1) - 1 = n
      OBVIOUS
    <2>1. PICK f : Good(f, n)
      BY <1>2, <2>0
    <2>2. PICK x : x = step[n + 1][f[n]]
      OBVIOUS
    <2>3. PICK g : g = [i \in 0..(n + 1) |-> IF i = n + 1 THEN x ELSE f[i]]
      BY Zenon
    <2>4. \A i \in 0..n : f[i] = IF i = 0 THEN x0 ELSE step[i][f[i - 1]]
      BY <2>1 DEF Unrolled
    <2>5. \A i \in 0..(n + 1) : g[i] = IF i = 0 THEN x0 ELSE step[i][g[i - 1]]
      <3> TAKE i \in 0..(n + 1)
      <3>1. CASE i = n + 1
        <4>1. g[i] = x /\ i # 0 /\ g[i - 1] = f[n]
          BY <2>3, <3>1
        <4> QED BY <2>2, <3>1, <4>1
      <3>2. CASE i # n + 1
        <4>1. i \in 0..n /\ g[i] = f[i] /\ (i # 0 => g[i - 1] = f[i - 1])
          BY <2>3, <3>2
        <4> QED BY <2>4, <4>1
      <3> QED BY <3>1, <3>2
    <2>6. g = [i \in 0..(n + 1) |-> IF i = 0 THEN x0 ELSE step[i][g[i - 1]]]
      BY <2>3, <2>5
    <2>7. x \in X[n + 1]
      <3>1. f[n] \in X[n]
        BY <2>1
      <3> QED BY <2>0, <2>2, <3>1
    <2>8. \A i \in 0..(n + 1) : g[i] \in X[i]
      BY <2>1, <2>3, <2>7
    <2> QED BY <2>6, <2>8 DEF Unrolled
  <1>3. Nat \subseteq S
    <2> HIDE DEF S
    <2> QED BY <1>1, <1>2, NatSetInduction
  <1>4. k \in S
    <2> HIDE DEF S
    <2> QED BY <1>3
  <1> QED BY <1>4


\* What holds at first and is kept from each step to the next holds all along.
LEMMA Along ==
  ASSUME NEW k \in Nat, NEW X, NEW g, g[0] \in X[0],
         \A i \in 1..k : g[i - 1] \in X[i - 1] => g[i] \in X[i]
  PROVE  \A i \in 0..k : g[i] \in X[i]
  <1> DEFINE S == {n \in Nat : n <= k => g[n] \in X[n]}
  <1>1. 0 \in S
    OBVIOUS
  <1>2. ASSUME NEW n \in Nat, n \in S PROVE n + 1 \in S
    <2> SUFFICES ASSUME n + 1 <= k PROVE g[n + 1] \in X[n + 1]
      OBVIOUS
    <2>1. n <= k /\ n + 1 \in 1..k /\ (n + 1) - 1 = n
      OBVIOUS
    <2> QED BY <1>2, <2>1
  <1>3. Nat \subseteq S
    <2> HIDE DEF S
    <2> QED BY <1>1, <1>2, NatSetInduction
  <1> QED BY <1>3

-----------------------------------------------------------------------------
(* Operations, with responses in R. *)

Told(R) == [name : Nat, response : R]
OpState(R) ==
  [seq : Nat, now : Nat, stored : UNION {[D -> R] : D \in SUBSET Nat},
   told : Seq(Told(R)), deleted : SUBSET Nat]

\* The names given out are below the counter, and the counter is not ahead of
\* the clock, which is where a restart sets it.
Numbered(o) ==
  /\ o.seq <= o.now
  /\ \A i \in 1..Len(o.told) : o.told[i].name <= o.seq
  /\ \A i, j \in 1..Len(o.told) : i # j => o.told[i].name # o.told[j].name

Stored(o) ==
  /\ o.deleted \subseteq 1..Len(o.told)
  /\ \A i \in 1..Len(o.told) \ o.deleted : /\ o.told[i].name \in DOMAIN o.stored
                                            /\ o.stored[o.told[i].name] = o.told[i].response
  /\ \A n \in DOMAIN o.stored : \E i \in 1..Len(o.told) \ o.deleted : o.told[i].name = n

OpInv(R) == {o \in OpState(R) : Numbered(o) /\ Stored(o)}

\* An operation that completes takes a name nobody has been given.
LEMMA CompleteKeeps ==
  ASSUME NEW R, NEW o \in OpInv(R), NEW r \in R
  PROVE  complete(o, r) \in OpInv(R)
  <1> DEFINE m == o.seq + 1
  <1> DEFINE k == Len(o.told)
  <1>1. PICK p : p = complete(o, r)
    BY Zenon
  <1>2. PICK c : c = [name |-> m, response |-> r]
    BY Zenon
  <1>3. PICK D \in SUBSET Nat : o.stored \in [D -> R]
    BY DEF OpInv, OpState
  <1>4. o.seq \in Nat /\ o.now \in Nat /\ o.told \in Seq(Told(R)) /\ o.deleted \in SUBSET Nat
        /\ m \in Nat /\ k \in Nat
    BY DEF OpInv, OpState
  <1>5. c \in Told(R) /\ c.name = m /\ c.response = r
    BY <1>2, <1>4 DEF Told
  <1>6. /\ p.seq = m /\ p.now = o.now + 1 /\ p.stored = put(o.stored, m, r)
        /\ p.told = Append(o.told, c) /\ p.deleted = o.deleted
        /\ p = [seq |-> p.seq, now |-> p.now, stored |-> p.stored, told |-> p.told,
                deleted |-> p.deleted]
    BY <1>1, <1>2, ZenonT(30) DEF complete, OpInv, OpState
  <1>7. /\ p.told \in Seq(Told(R)) /\ Len(p.told) = k + 1
        /\ \A i \in 1..k : p.told[i] = o.told[i]
        /\ p.told[k + 1] = c
    BY <1>4, <1>5, <1>6, AppendProperties
  <1>8. /\ p.stored \in [D \cup {m} -> R] /\ D \cup {m} \in SUBSET Nat
        /\ DOMAIN o.stored = D /\ DOMAIN p.stored = D \cup {m} /\ p.stored[m] = r
        /\ \A n \in D : n # m => p.stored[n] = o.stored[n]
    BY <1>3, <1>4, <1>6 DEF put
  <1>9. p \in OpState(R)
    <2>1. p.stored \in UNION {[E -> R] : E \in SUBSET Nat}
      BY <1>8, Zenon
    <2>2. p.seq \in Nat /\ p.now \in Nat /\ p.deleted \in SUBSET Nat
      BY <1>4, <1>6
    <2> QED BY <1>6, <1>7, <2>1, <2>2, Zenon DEF OpState
  <1>10. \A i \in 1..k : o.told[i].name \in Nat /\ o.told[i].name <= o.seq
    <2> TAKE i \in 1..k
    <2>1. o.told[i] \in Told(R)
      BY <1>4
    <2>2. o.told[i].name \in Nat
      BY <2>1 DEF Told
    <2>3. o.told[i].name <= o.seq
      BY Zenon DEF OpInv, Numbered
    <2> QED BY <2>2, <2>3
  <1>11. Numbered(p)
    <2>1. p.seq <= p.now
      BY <1>4, <1>6 DEF OpInv, Numbered
    <2>2. \A i \in 1..(k + 1) : p.told[i].name <= p.seq
      <3> SUFFICES ASSUME NEW i \in 1..(k + 1) PROVE p.told[i].name <= p.seq
        BY Zenon
      <3>1. CASE i = k + 1
        <4>1. p.told[i].name = m /\ p.seq = m
          BY <1>5, <1>6, <1>7, <3>1, Zenon
        <4>2. m <= m
          BY <1>4
        <4> QED BY <4>1, <4>2, Zenon
      <3>2. CASE i # k + 1
        <4>1. i \in 1..k
          BY <1>4, <3>2
        <4>2. p.told[i].name = o.told[i].name /\ p.seq = m
          BY <1>6, <1>7, <4>1, Zenon
        <4>3. PICK a \in Nat : a = o.told[i].name /\ a <= o.seq
          BY <1>10, <4>1, Zenon
        <4>4. a <= m
          BY <1>4, <4>3
        <4> QED BY <4>2, <4>3, <4>4, Zenon
      <3> QED BY <3>1, <3>2, Zenon
    <2>3. ASSUME NEW i \in 1..(k + 1), NEW j \in 1..(k + 1), i # j
          PROVE  p.told[i].name # p.told[j].name
      <3>0. \A l \in 1..k : p.told[l].name # m
        <4> TAKE l \in 1..k
        <4>1. p.told[l].name = o.told[l].name
          BY <1>7
        <4>2. PICK a \in Nat : a = o.told[l].name /\ a <= o.seq
          BY <1>10, Zenon
        <4>3. a # m
          BY <1>4, <4>2
        <4> QED BY <4>1, <4>2, <4>3
      <3>1. CASE i = k + 1 \/ j = k + 1
        <4>1. (i = k + 1 /\ j \in 1..k) \/ (j = k + 1 /\ i \in 1..k)
          BY <1>4, <2>3, <3>1
        <4> QED BY <1>5, <1>7, <3>0, <4>1
      <3>2. CASE i # k + 1 /\ j # k + 1
        <4>1. i \in 1..k /\ j \in 1..k
          BY <1>4, <3>2
        <4> QED BY <1>7, <2>3, <4>1, ZenonT(30) DEF OpInv, Numbered
      <3> QED BY <3>1, <3>2
    <2> QED BY <1>7, <2>1, <2>2, <2>3, ZenonT(30) DEF Numbered
  <1>12. Stored(p)
    <2>1. p.deleted \subseteq 1..(k + 1) /\ k + 1 \notin p.deleted /\ k + 1 \in 1..(k + 1)
      BY <1>4, <1>6 DEF OpInv, Stored
    <2>2. ASSUME NEW i \in 1..(k + 1) \ p.deleted
          PROVE  p.told[i].name \in DOMAIN p.stored /\ p.stored[p.told[i].name] = p.told[i].response
      <3>1. CASE i = k + 1
        BY <1>5, <1>7, <1>8, <3>1
      <3>2. CASE i # k + 1
        <4>1. i \in 1..k \ o.deleted
          BY <1>4, <1>6, <2>2, <3>2
        <4>2. o.told[i].name \in D /\ o.stored[o.told[i].name] = o.told[i].response
          BY <1>8, <4>1, ZenonT(30) DEF OpInv, Stored
        <4>3. o.told[i].name # m
          BY <1>4, <1>10, <4>1
        <4> QED BY <1>7, <1>8, <4>1, <4>2, <4>3, ZenonT(30)
      <3> QED BY <3>1, <3>2, ZenonT(30)
    <2>3. ASSUME NEW n \in DOMAIN p.stored
          PROVE  \E i \in 1..(k + 1) \ p.deleted : p.told[i].name = n
      <3>1. CASE n = m
        BY <1>5, <1>7, <2>1, <3>1
      <3>2. CASE n # m
        <4>1. n \in DOMAIN o.stored
          BY <1>8, <2>3, <3>2, ZenonT(30)
        <4>2. PICK i \in 1..k \ o.deleted : o.told[i].name = n
          BY <4>1 DEF OpInv, Stored
        <4>3. i \in 1..(k + 1) \ p.deleted
          BY <1>4, <1>6, <4>2
        <4> QED BY <1>7, <4>2, <4>3, ZenonT(30)
      <3> QED BY <3>1, <3>2
    <2> QED BY <1>7, <2>1, <2>2, <2>3, ZenonT(30) DEF Stored
  <1> QED BY <1>1, <1>9, <1>11, <1>12 DEF OpInv

\* An operation that is deleted leaves the others where they are.
LEMMA DeleteKeeps ==
  ASSUME NEW R, NEW o \in OpInv(R), NEW name
  PROVE  DeleteOperation(o, name) \in OpInv(R)
  <1>1. CASE name \notin DOMAIN o.stored
    BY <1>1 DEF DeleteOperation
  <1>2. CASE name \in DOMAIN o.stored
    <2> DEFINE G == {i \in 1..Len(o.told) : o.told[i].name = name}
    <2>1. PICK p : p = DeleteOperation(o, name)
      BY Zenon
    <2>2. PICK D \in SUBSET Nat : o.stored \in [D -> R]
      BY DEF OpInv, OpState
    <2>3. /\ p.seq = o.seq /\ p.now = o.now /\ p.told = o.told /\ p.stored = drop(o.stored, name)
          /\ p.deleted = o.deleted \cup G
          /\ p = [seq |-> p.seq, now |-> p.now, stored |-> p.stored, told |-> p.told,
                  deleted |-> p.deleted]
      BY <1>2, <2>1, ZenonT(30) DEF DeleteOperation, OpInv, OpState
    <2>4. /\ p.stored \in [D \ {name} -> R] /\ D \ {name} \in SUBSET Nat
          /\ DOMAIN o.stored = D /\ DOMAIN p.stored = D \ {name}
          /\ \A n \in D \ {name} : p.stored[n] = o.stored[n]
      BY <2>2, <2>3 DEF drop
    <2>5. o.seq \in Nat /\ o.now \in Nat /\ o.told \in Seq(Told(R)) /\ o.deleted \in SUBSET Nat
          /\ Len(o.told) \in Nat
      BY DEF OpInv, OpState
    <2>6. p \in OpState(R)
      <3>1. p.stored \in UNION {[E -> R] : E \in SUBSET Nat}
        BY <2>4, Zenon
      <3>2. p.deleted \in SUBSET Nat
        BY <2>3, <2>5
      <3> QED BY <2>3, <2>5, <3>1, <3>2, Zenon DEF OpState
    <2>7. Numbered(p)
      BY <2>3 DEF OpInv, Numbered
    <2>8. Stored(p)
      <3>1. p.deleted \subseteq 1..Len(p.told)
        BY <2>3 DEF OpInv, Stored
      <3>2. ASSUME NEW i \in 1..Len(p.told) \ p.deleted
            PROVE  p.told[i].name \in DOMAIN p.stored /\ p.stored[p.told[i].name] = p.told[i].response
        <4>1. i \in 1..Len(o.told) \ o.deleted /\ o.told[i].name # name
          BY <2>3, <3>2
        <4>2. o.told[i].name \in D /\ o.stored[o.told[i].name] = o.told[i].response
          BY <2>4, <4>1, Zenon DEF OpInv, Stored
        <4> QED BY <2>3, <2>4, <4>1, <4>2, Zenon
      <3>3. ASSUME NEW n \in DOMAIN p.stored
            PROVE  \E i \in 1..Len(p.told) \ p.deleted : p.told[i].name = n
        <4>1. n \in DOMAIN o.stored /\ n # name
          BY <2>4, <3>3
        <4>2. PICK i \in 1..Len(o.told) \ o.deleted : o.told[i].name = n
          BY <4>1, Zenon DEF OpInv, Stored
        <4> QED BY <2>3, <4>1, <4>2
      <3> QED BY <3>1, <3>2, <3>3, Zenon DEF Stored
    <2> QED BY <2>1, <2>6, <2>7, <2>8 DEF OpInv
  <1> QED BY <1>1, <1>2

\* A restart sets the counter to the clock, which no name is beyond.
LEMMA RestartKeeps ==
  ASSUME NEW R, NEW o \in OpInv(R)
  PROVE  reseeded([o EXCEPT !.now = @ + 1]) \in OpInv(R)
  <1>1. PICK p : p = reseeded([o EXCEPT !.now = @ + 1])
    BY Zenon
  <1>2. /\ o.seq \in Nat /\ o.now \in Nat /\ o.told \in Seq(Told(R)) /\ o.deleted \in SUBSET Nat
        /\ o.stored \in UNION {[E -> R] : E \in SUBSET Nat} /\ Len(o.told) \in Nat
    BY DEF OpInv, OpState
  <1>3. /\ p.seq = o.now + 1 /\ p.now = o.now + 1 /\ p.told = o.told /\ p.stored = o.stored
        /\ p.deleted = o.deleted
        /\ p = [seq |-> p.seq, now |-> p.now, stored |-> p.stored, told |-> p.told,
                deleted |-> p.deleted]
    BY <1>1, ZenonT(30) DEF reseeded, OpInv, OpState
  <1>4. p \in OpState(R)
    <2>1. o.now + 1 \in Nat
      BY <1>2
    <2> QED BY <1>2, <1>3, <2>1, Zenon DEF OpState
  <1>5. Numbered(p)
    <2>1. ASSUME NEW i \in 1..Len(p.told) PROVE p.told[i].name <= p.seq
      <3>1. o.told[i] \in Told(R)
        BY <1>2, <1>3
      <3>2. PICK a \in Nat : a = o.told[i].name
        BY <3>1 DEF Told
      <3>3. a <= o.seq /\ o.seq <= o.now
        BY <1>3, <3>2, Zenon DEF OpInv, Numbered
      <3>4. a <= o.now + 1
        BY <1>2, <3>3
      <3> QED BY <1>3, <3>2, <3>4, Zenon
    <2>2. p.seq <= p.now
      BY <1>2, <1>3
    <2>3. \A i, j \in 1..Len(p.told) : i # j => p.told[i].name # p.told[j].name
      BY <1>3, Zenon DEF OpInv, Numbered
    <2> QED BY <2>1, <2>2, <2>3, Zenon DEF Numbered
  <1>6. Stored(p)
    BY <1>3, Zenon DEF OpInv, Stored
  <1> QED BY <1>1, <1>4, <1>5, <1>6 DEF OpInv

\* Every event keeps the operations under their names.
LEMMA EventKeeps ==
  ASSUME NEW R, NEW o \in OpInv(R), NEW e \in {"complete", "delete", "restart"} \X R
  PROVE  operationEvent(o, e) \in OpInv(R)
  <1>1. e[1] \in {"complete", "delete", "restart"} /\ e[2] \in R
    OBVIOUS
  <1>2. CASE e[1] = "complete"
    <2>1. operationEvent(o, e) = complete(o, e[2])
      BY <1>2 DEF operationEvent
    <2> QED BY <1>1, <2>1, CompleteKeeps
  <1>3. CASE e[1] = "delete"
    <2>1. operationEvent(o, e) = IF e[2] \in 1..Len(o.told) THEN DeleteOperation(o, o.told[e[2]].name) ELSE o
      BY <1>3 DEF operationEvent
    <2> QED BY <2>1, DeleteKeeps
  <1>4. CASE e[1] = "restart"
    <2>1. operationEvent(o, e) = reseeded([o EXCEPT !.now = @ + 1])
      BY <1>4 DEF operationEvent
    <2> QED BY <2>1, RestartKeeps
  <1> QED BY <1>1, <1>2, <1>3, <1>4

\* Whatever operations complete or are deleted, and however often the server
\* restarts: an operation that a client knows and has not deleted is found under
\* its name with its response, no name is ever given twice, and nothing else is
\* stored.  A restart forgets the counter; that the clock has passed every name
\* given before is what keeps the names apart.
THEOREM OperationsStayNamed ==
  ASSUME NEW R, NEW began \in Nat, NEW events \in Seq({"complete", "delete", "restart"} \X R)
  PROVE  NamesKept(began, events)
  <1>n. Len(events) \in Nat /\ \A i \in 1..Len(events) : events[i] \in {"complete", "delete", "restart"} \X R
    OBVIOUS
  <1> DEFINE step == [i \in 1..Len(events) |-> [o \in OpInv(R) |-> operationEvent(o, events[i])]]
  <1> DEFINE X == [i \in 0..Len(events) |-> OpInv(R)]
  <1>0. NewOperations(began) \in OpInv(R)
    <2>1. PICK o : o = NewOperations(began)
      BY Zenon
    <2>2. o.seq = began /\ o.now = began /\ o.stored = <<>> /\ o.told = <<>> /\ o.deleted = {}
          /\ Len(o.told) = 0
      BY <2>1 DEF NewOperations
    <2>3. o \in OpState(R)
      <3>1. <<>> \in [{} -> R] /\ {} \in SUBSET Nat /\ <<>> \in Seq(Told(R))
        OBVIOUS
      <3>2. <<>> \in UNION {[E -> R] : E \in SUBSET Nat}
        BY <3>1, Zenon
      <3> QED BY <2>1, <3>1, <3>2, Zenon DEF OpState, NewOperations
    <2>4. Numbered(o)
      BY <2>2 DEF Numbered
    <2>5. Stored(o)
      <3>1. DOMAIN o.stored = {}
        BY <2>2
      <3> QED BY <2>2, <3>1 DEF Stored
    <2> QED BY <2>1, <2>3, <2>4, <2>5 DEF OpInv
  <1>1. PICK f : /\ Unrolled(f, NewOperations(began), step, Len(events))
                 /\ \A i \in 0..Len(events) : f[i] \in X[i]
    <2>2. NewOperations(began) \in X[0]
      BY <1>n, <1>0
    <2>3. \A i \in 1..Len(events) : \A o \in X[i - 1] : step[i][o] \in X[i]
      <3> TAKE i \in 1..Len(events)
      <3>1. X[i - 1] = OpInv(R) /\ X[i] = OpInv(R)
        BY <1>n
      <3>2. \A o \in OpInv(R) : step[i][o] = operationEvent(o, events[i])
        OBVIOUS
      <3> QED BY <1>n, <3>1, <3>2, EventKeeps
    <2> HIDE DEF step, X
    <2> QED BY <1>n, <2>2, <2>3, Recursion, ZenonT(30)
  <1>2. \A i \in 0..Len(events) : f[i] \in OpInv(R)
    BY <1>1
  <1>3. f = [i \in 0..Len(events) |-> IF i = 0 THEN NewOperations(began) ELSE operationEvent(f[i - 1], events[i])]
    <2>1. \A i \in 0..Len(events) :
            (IF i = 0 THEN NewOperations(began) ELSE step[i][f[i - 1]])
              = IF i = 0 THEN NewOperations(began) ELSE operationEvent(f[i - 1], events[i])
      BY <1>n, <1>2
    <2> HIDE DEF step
    <2> QED BY <1>1, <2>1, ZenonT(30) DEF Unrolled
  <1>4. operationsAfter(began, events) \in OpInv(R)
    <2>1. PICK g : /\ g = [i \in 0..Len(events) |-> IF i = 0 THEN NewOperations(began)
                                                    ELSE operationEvent(g[i - 1], events[i])]
                   /\ operationsAfter(began, events) = g[Len(events)]
      BY <1>3, Zenon DEF operationsAfter
    <2>2. \A i \in 0..Len(events) : g[i] \in X[i]
      <3>1. g[0] = NewOperations(began)
        BY <1>n, <2>1
      <3>2. ASSUME NEW i \in 1..Len(events), g[i - 1] \in X[i - 1] PROVE g[i] \in X[i]
        <4>0. i \in 0..Len(events) /\ i # 0
          BY <1>n
        <4>1. g[i] = operationEvent(g[i - 1], events[i])
          BY <2>1, <4>0, ZenonT(30)
        <4>2. X[i - 1] = OpInv(R) /\ X[i] = OpInv(R)
          BY <1>n
        <4> QED BY <1>n, <3>2, <4>1, <4>2, EventKeeps
      <3>3. g[0] \in X[0]
        BY <1>n, <1>0, <3>1
      <3> HIDE DEF X
      <3> QED BY <1>n, <3>2, <3>3, Along, ZenonT(30)
    <2> QED BY <1>n, <2>1, <2>2
  <1> QED BY <1>4, Zenon DEF NamesKept, OpInv, Numbered, Stored

-----------------------------------------------------------------------------
(* Pages of listings, of a fixed list or of items that come and go. *)

Rises(s) == \A i, j \in DOMAIN s : i < j => s[i] < s[j]

\* A finite set of numbers can be listed in order.
LEMMA OrderExists ==
  ASSUME NEW A \in SUBSET Nat, IsFiniteSet(A)
  PROVE  \E s \in [1..Cardinality(A) -> A] : Rises(s)
  <1> DEFINE S == {n \in Nat : \A B \in SUBSET Nat :
                     IsFiniteSet(B) /\ Cardinality(B) = n => \E s \in [1..n -> B] : Rises(s)}
  <1>1. 0 \in S
    <2>1. ASSUME NEW B \in SUBSET Nat PROVE \E s \in [1..0 -> B] : Rises(s)
      <3>1. PICK s : s = [i \in 1..0 |-> i]
        BY Zenon
      <3>2. s \in [1..0 -> B] /\ DOMAIN s = {}
        BY <3>1
      <3> QED BY <3>2, ZenonT(30) DEF Rises
    <2> QED BY <2>1
  <1>2. ASSUME NEW n \in Nat, n \in S PROVE n + 1 \in S
    <2>1. ASSUME NEW B \in SUBSET Nat, IsFiniteSet(B), Cardinality(B) = n + 1
          PROVE  \E s \in [1..(n + 1) -> B] : Rises(s)
      <3>1. B # {}
        BY <2>1, FS_EmptySet
      <3>2. PICK x \in B : \A y \in B : x <= y
        BY <3>1, LeastOf, ZenonT(30)
      <3>3. IsFiniteSet(B \ {x}) /\ Cardinality(B \ {x}) = n /\ B \ {x} \in SUBSET Nat
        <4>1. IsFiniteSet(B \ {x}) /\ Cardinality(B \ {x}) = Cardinality(B) - 1
          BY <2>1, FS_RemoveElement, ZenonT(30)
        <4>2. (n + 1) - 1 = n
          OBVIOUS
        <4>3. B \ {x} \in SUBSET Nat
          OBVIOUS
        <4> QED BY <2>1, <4>1, <4>2, <4>3
      <3>4. PICK t \in [1..n -> B \ {x}] : Rises(t)
        BY <1>2, <3>3
      <3>5. PICK s : s = [i \in 1..(n + 1) |-> IF i = 1 THEN x ELSE t[i - 1]]
        BY Zenon
      <3>6. \A i \in 1..(n + 1) : i # 1 => i - 1 \in 1..n
        OBVIOUS
      <3>7. s \in [1..(n + 1) -> B]
        BY <3>4, <3>5, <3>6
      <3>8. ASSUME NEW i \in 1..(n + 1), NEW j \in 1..(n + 1), i < j PROVE s[i] < s[j]
        <4>1. j # 1 /\ j - 1 \in 1..n
          BY <3>8
        <4>2. t[j - 1] \in B \ {x} /\ s[j] = t[j - 1]
          BY <3>4, <3>5, <4>1
        <4>3. CASE i = 1
          <5>1. s[i] = x /\ x <= s[j] /\ x # s[j] /\ x \in Nat /\ s[j] \in Nat
            BY <3>2, <3>5, <4>2, <4>3, ZenonT(30)
          <5> QED BY <5>1
        <4>4. CASE i # 1
          <5>1. i - 1 \in 1..n /\ i - 1 < j - 1 /\ s[i] = t[i - 1]
            BY <3>5, <3>8, <4>4
          <5> QED BY <3>4, <4>1, <4>2, <5>1 DEF Rises
        <4> QED BY <4>3, <4>4
      <3>9. DOMAIN s = 1..(n + 1)
        BY <3>5
      <3> QED BY <3>7, <3>8, <3>9 DEF Rises
    <2> QED BY <2>1
  <1>3. Nat \subseteq S
    <2> HIDE DEF S
    <2> QED BY <1>1, <1>2, NatSetInduction
  <1>4. Cardinality(A) \in Nat
    BY FS_CardinalityType
  <1> QED BY <1>3, <1>4

\* The items in order: all of them, and nothing else.
LEMMA OrderIs ==
  ASSUME NEW A \in SUBSET Nat, IsFiniteSet(A)
  PROVE  /\ inOrder(A) \in Seq(A) /\ Rises(inOrder(A)) /\ Len(inOrder(A)) \in Nat
         /\ DOMAIN inOrder(A) = 1..Len(inOrder(A))
         /\ \A x \in A : \E i \in 1..Len(inOrder(A)) : inOrder(A)[i] = x
  <1> DEFINE n == Cardinality(A)
  <1>1. n \in Nat
    BY FS_CardinalityType
  <1>2. PICK s : s = inOrder(A) /\ s \in [1..n -> A] /\ Rises(s)
    <2>1. inOrder(A) = CHOOSE s \in [1..n -> A] : Rises(s)
      BY Zenon DEF inOrder, Rises
    <2> QED BY <2>1, OrderExists
  <1>3. s \in Seq(A) /\ Len(s) = n /\ DOMAIN s = 1..n
    BY <1>1, <1>2
  <1>4. IsInjective(s)
    <2>1. ASSUME NEW i \in DOMAIN s, NEW j \in DOMAIN s, s[i] = s[j] PROVE i = j
      <3>1. i \in Nat /\ j \in Nat /\ s[i] \in Nat /\ s[j] \in Nat
        <4>1. i \in 1..n /\ j \in 1..n
          BY <1>3
        <4>2. i \in Nat /\ j \in Nat
          BY <1>1, <4>1
        <4>3. s[i] \in A /\ s[j] \in A
          BY <1>2, <4>1
        <4> QED BY <4>2, <4>3, ZenonT(30)
      <3>2. (i < j => s[i] < s[j]) /\ (j < i => s[j] < s[i])
        BY <1>2 DEF Rises
      <3> QED BY <2>1, <3>1, <3>2
    <2> QED BY <2>1 DEF IsInjective
  <1>5. s \in Injection(1..n, A)
    BY <1>2, <1>4 DEF Injection
  <1>6. IsFiniteSet(1..n) /\ Cardinality(1..n) = n
    BY <1>1, FS_Interval
  <1>7. s \in Surjection(1..n, A)
    BY <1>5, <1>6, FS_Injection
  <1>8. \A x \in A : \E i \in 1..n : s[i] = x
    BY <1>7, ZenonT(30) DEF Surjection
  <1> HIDE DEF n
  <1> QED BY <1>1, <1>2, <1>3, <1>8

Walk(S) == [got : Seq(S), token : Nat, more : BOOLEAN]

\* What a client has got after i pages of items that do not change.
UpTo(S, items, size, i) ==
  {w \in Walk(S) :
     /\ w.got = SubSeq(items, 1, IF w.more THEN w.token ELSE Len(items))
     /\ w.more => w.token <= Len(items)
     /\ w.more /\ i > 0 => size > 0 /\ i <= w.token /\ w.token < Len(items)}

\* One more page, by what the page is: all the rest, or size items.
LEMMA OrderedPage ==
  ASSUME NEW S, NEW items \in Seq(S), NEW size \in Nat, NEW t \in Nat, t <= Len(items),
         NEW p, p = paginateOrdered(items, size, t)
  PROVE  \/ p.page = SubSeq(items, t + 1, Len(items)) /\ p.token = 0
         \/ /\ size > 0 /\ t + size < Len(items)
            /\ p.page = SubSeq(items, t + 1, t + size) /\ p.token = t + size
  <1> DEFINE n == Len(items)
             rest == SubSeq(items, t + 1, n)
  <1>1. n \in Nat /\ \A i \in 1..n : items[i] \in S
    OBVIOUS
  <1>2. \A i \in (t + 1)..n : items[i] \in S
    BY <1>1
  <1>3. /\ rest \in Seq(S)
        /\ Len(rest) = IF t + 1 <= n THEN n - (t + 1) + 1 ELSE 0
    BY <1>1, <1>2, SubSeqProperties
  <1>4. Len(rest) = n - t
    BY <1>1, <1>3
  <1>5. p = IF size = 0 \/ size >= Len(rest) THEN [page |-> rest, token |-> 0]
            ELSE [page |-> SubSeq(rest, 1, size), token |-> t + size]
    <2>1. (IF t > n THEN n ELSE t) = t
      BY <1>1
    <2> HIDE DEF n
    <2>2. n = Len(items)
      BY DEF n
    <2> QED BY <2>1, <2>2, Zenon DEF paginateOrdered
  <1>6. CASE size = 0 \/ size >= Len(rest)
    BY <1>5, <1>6
  <1>7. CASE ~(size = 0 \/ size >= Len(rest))
    <2>1. size > 0 /\ t + size < n /\ t + 1 \in 1..n /\ n \in 1..n /\ 1 \in 1..(n - (t + 1) + 1)
          /\ size \in 1..(n - (t + 1) + 1)
      BY <1>1, <1>4, <1>7
    <2>2. SubSeq(rest, 1, size) = SubSeq(items, (t + 1) + 1 - 1, (t + 1) + size - 1)
      BY <2>1, SubSeqOfSubSeq
    <2>3. (t + 1) + 1 - 1 = t + 1 /\ (t + 1) + size - 1 = t + size
      OBVIOUS
    <2>4. p.page = SubSeq(rest, 1, size) /\ p.token = t + size
      BY <1>5, <1>7
    <2> HIDE DEF rest
    <2> QED BY <2>1, <2>2, <2>3, <2>4, ZenonT(30)
  <1> QED BY <1>6, <1>7

\* A client that has got the list up to the token has, with one more page, got
\* it up to the next, or all of it.
LEMMA OrderedPageKeeps ==
  ASSUME NEW S, NEW items \in Seq(S), NEW size \in Nat, NEW i \in Nat \ {0},
         NEW w \in UpTo(S, items, size, i - 1)
  PROVE  turned(w, paginateOrdered(items, size, w.token)) \in UpTo(S, items, size, i)
  <1> DEFINE n == Len(items)
  <1>0. n \in Nat /\ \A k \in 1..n : items[k] \in S
    OBVIOUS
  <1>1. /\ w \in Walk(S) /\ w.token \in Nat /\ w.got \in Seq(S) /\ w.more \in BOOLEAN
        /\ w.got = SubSeq(items, 1, IF w.more THEN w.token ELSE n)
        /\ w.more => w.token <= n
        /\ w.more /\ i - 1 > 0 => i - 1 <= w.token
    BY DEF UpTo, Walk
  <1>2. CASE ~w.more
    <2>1. turned(w, paginateOrdered(items, size, w.token)) = w
      BY <1>2, Zenon DEF turned
    <2> QED BY <1>1, <1>2, <2>1 DEF UpTo
  <1>3. CASE w.more
    <2>1. PICK p : p = paginateOrdered(items, size, w.token)
      BY Zenon
    <2>2. PICK v : v = turned(w, p)
      BY Zenon
    <2>3. v = [got |-> w.got \o p.page, token |-> p.token, more |-> p.token # 0]
      BY <1>3, <2>2, Zenon DEF turned
    <2>a. PICK t \in 0..n : t = w.token
      BY <1>0, <1>1, <1>3
    <2>4. w.got = SubSeq(items, 1, t) /\ t \in Nat /\ t <= n
      BY <1>0, <1>1, <1>3, <2>a, ZenonT(30)
    <2>5. \/ p.page = SubSeq(items, t + 1, n) /\ p.token = 0
          \/ /\ size > 0 /\ t + size < n
             /\ p.page = SubSeq(items, t + 1, t + size) /\ p.token = t + size
      <3>1. p = paginateOrdered(items, size, t)
        BY <2>1, <2>a, Zenon
      <3>2. t <= Len(items)
        BY <2>4
      <3> QED BY <2>4, <3>1, <3>2, OrderedPage
    <2>6. ASSUME NEW m \in t..n
          PROVE  SubSeq(items, 1, t) \o SubSeq(items, t + 1, m) = SubSeq(items, 1, m)
                 /\ SubSeq(items, 1, m) \in Seq(S)
      <3>1. 1 \in 1..(n + 1) /\ t \in (1 - 1)..n /\ m \in Int
        BY <1>0, <2>4
      <3>2. \A k \in 1..m : items[k] \in S
        BY <1>0, <2>4
      <3>3. SubSeq(items, 1, m) \in Seq(S)
        BY <3>1, <3>2, SubSeqProperties
      <3>4. SubSeq(items, 1, t) \o SubSeq(items, t + 1, m) = SubSeq(items, 1, m)
        BY <3>1, ConcatAdjacentSubSeq, ZenonT(30)
      <3> QED BY <3>3, <3>4
    <2>7. CASE p.page = SubSeq(items, t + 1, n) /\ p.token = 0
      <3>1. n \in t..n
        BY <1>0, <2>4
      <3>2. v.token = 0 /\ v.more = FALSE /\ v.got = SubSeq(items, 1, n) /\ v.got \in Seq(S)
        BY <2>3, <2>4, <2>6, <2>7, <3>1, ZenonT(30)
      <3>3. v \in Walk(S)
        <4>1. 0 \in Nat
          OBVIOUS
        <4> QED BY <2>3, <3>2, <4>1, ZenonT(30) DEF Walk
      <3> QED BY <2>1, <2>2, <3>2, <3>3 DEF UpTo
    <2>8. CASE /\ size > 0 /\ t + size < n
               /\ p.page = SubSeq(items, t + 1, t + size) /\ p.token = t + size
      <3>1. t + size \in t..n /\ t + size \in Nat /\ t + size # 0
        BY <1>0, <2>4, <2>8
      <3>2. v.token = t + size /\ v.more = TRUE /\ v.got = SubSeq(items, 1, t + size)
            /\ v.got \in Seq(S)
        BY <2>3, <2>4, <2>6, <2>8, <3>1, ZenonT(30)
      <3>3. v \in Walk(S)
        BY <2>3, <3>1, <3>2 DEF Walk
      <3>4. i <= v.token /\ v.token < n
        <4>1. i - 1 > 0 => i - 1 <= t
          BY <1>1, <1>3, <2>a
        <4> QED BY <1>0, <2>4, <2>8, <3>2, <4>1
      <3> QED BY <1>0, <2>1, <2>2, <2>8, <3>2, <3>3, <3>4 DEF UpTo
    <2> QED BY <2>5, <2>7, <2>8
  <1> QED BY <1>1, <1>2, <1>3

\* Listing a list that does not change page by page returns it cut into
\* consecutive pages, and the listing ends (paginateOrdered, ListBackups).
THEOREM OrderedPagesDivide ==
  ASSUME NEW S, NEW items \in Seq(S), NEW size \in Nat, NEW pages \in Nat
  PROVE  PagesDivide(items, size, pages)
  <1> DEFINE Turn(w) == turned(w, paginateOrdered(items, size, w.token))
             X == [i \in 0..pages |-> UpTo(S, items, size, i)]
             step == [i \in 1..pages |-> [w \in Walk(S) |-> Turn(w)]]
  <1>0. FirstPage \in UpTo(S, items, size, 0)
    <2>1. PICK w : w = FirstPage
      BY Zenon
    <2>2. w \in Walk(S) /\ w.got = <<>> /\ w.token = 0 /\ w.more = TRUE
      BY <2>1 DEF FirstPage, Walk
    <2>3. SubSeq(items, 1, 0) = <<>>
      BY SubSeqEmpty
    <2>4. w.got = SubSeq(items, 1, IF w.more THEN w.token ELSE Len(items))
      BY <2>2, <2>3, Zenon
    <2>5. w.token <= Len(items) /\ ~(0 > 0)
      BY <2>2
    <2> QED BY <2>1, <2>2, <2>4, <2>5, Zenon DEF UpTo
  <1>1. \A i \in 1..pages : \A w \in X[i - 1] : w \in Walk(S) /\ Turn(w) \in X[i]
    <2> TAKE i \in 1..pages
    <2>1. X[i - 1] = UpTo(S, items, size, i - 1) /\ X[i] = UpTo(S, items, size, i) /\ i \in Nat \ {0}
      OBVIOUS
    <2>2. \A w \in UpTo(S, items, size, i - 1) : w \in Walk(S)
      BY DEF UpTo
    <2>3. \A w \in UpTo(S, items, size, i - 1) : Turn(w) \in UpTo(S, items, size, i)
      BY <2>1, OrderedPageKeeps, Zenon
    <2> HIDE DEF X, Turn
    <2> QED BY <2>1, <2>2, <2>3, Zenon
  <1>2. X[0] = UpTo(S, items, size, 0) /\ X[pages] = UpTo(S, items, size, pages)
    OBVIOUS
  <1>3. PICK f : Unrolled(f, FirstPage, step, pages) /\ \A i \in 0..pages : f[i] \in X[i]
    <2>1. \A i \in 1..pages : \A w \in X[i - 1] : step[i][w] \in X[i]
      BY <1>1, ZenonT(30)
    <2> HIDE DEF step, X
    <2> QED BY <1>0, <1>2, <2>1, Recursion, ZenonT(30)
  <1>4. f = [i \in 0..pages |-> IF i = 0 THEN FirstPage ELSE Turn(f[i - 1])]
    <2>1. \A i \in 1..pages : f[i - 1] \in X[i - 1]
      BY <1>3
    <2>2. \A i \in 1..pages : step[i][f[i - 1]] = Turn(f[i - 1])
      <3> HIDE DEF X, Turn
      <3> QED BY <1>1, <2>1
    <2>3. \A i \in 0..pages : (IF i = 0 THEN FirstPage ELSE step[i][f[i - 1]])
                               = IF i = 0 THEN FirstPage ELSE Turn(f[i - 1])
      <3> HIDE DEF step, Turn
      <3> QED BY <2>2
    <2> HIDE DEF step, Turn
    <2> QED BY <1>3, <2>3, ZenonT(30) DEF Unrolled
  <1>5. PICK g : /\ g = [i \in 0..pages |-> IF i = 0 THEN FirstPage ELSE Turn(g[i - 1])]
                 /\ walkOrdered(items, size, pages) = g[pages]
    BY <1>4, Zenon DEF walkOrdered
  <1>6. g[pages] \in X[pages]
    <2>1. g[0] \in X[0]
      BY <1>0, <1>2, <1>5
    <2>2. ASSUME NEW i \in 1..pages, g[i - 1] \in X[i - 1] PROVE g[i] \in X[i]
      <3>1. g[i] = Turn(g[i - 1])
        BY <1>5
      <3> HIDE DEF X, Turn
      <3> QED BY <1>1, <2>2, <3>1, ZenonT(30)
    <2> HIDE DEF X
    <2>3. \A i \in 0..pages : g[i] \in X[i]
      BY <2>1, <2>2, Along, ZenonT(30)
    <2> QED BY <2>3
  <1>7. walkOrdered(items, size, pages) \in UpTo(S, items, size, pages)
    BY <1>2, <1>5, <1>6
  <1> QED BY <1>7, Zenon DEF PagesDivide, UpTo

\* What a client has got after a page of each of the first i lists: in order,
\* nothing beyond the token, and every item that was on all of them up to it.
Seen(lists, i) ==
  {w \in Walk(Nat) :
     /\ Rises(w.got)
     /\ w.more => \A a \in 1..Len(w.got) : w.got[a] <= w.token
     /\ \A x \in Nat \ {0} : (\A k \in 1..i : x \in lists[k]) /\ (w.more => x <= w.token)
                               => \E a \in 1..Len(w.got) : w.got[a] = x}

\* A page holds, in order, the items after the token up to the next one.
PageOf(A, t, p) ==
  /\ p.page \in Seq(Nat) /\ p.token \in Nat /\ (p.token # 0 => t < p.token) /\ Rises(p.page)
  /\ \A a \in 1..Len(p.page) : t < p.page[a] /\ (p.token # 0 => p.page[a] <= p.token)
  /\ \A x \in A : t < x /\ (p.token # 0 => x <= p.token)
                    => \E a \in 1..Len(p.page) : p.page[a] = x

\* paginate returns such a page.
LEMMA NamedPage ==
  ASSUME NEW A \in SUBSET (Nat \ {0}), IsFiniteSet(A), NEW size \in Nat, NEW t \in Nat,
         NEW p, p = paginate(A, size, t)
  PROVE  PageOf(A, t, p)
  <1> DEFINE B == startAfter(A, t)
  <1>1. B \in SUBSET Nat /\ (\A x \in B : x > t) /\ (\A x \in A : t < x => x \in B) /\ B \subseteq A
    <2>1. B = {x \in A : t = 0 \/ x > t}
      BY Zenon DEF startAfter
    <2>2. \A x \in A : x \in Nat /\ x # 0
      OBVIOUS
    <2> HIDE DEF B
    <2>3. B \subseteq A /\ \A x \in A : x \in B <=> t = 0 \/ x > t
      BY <2>1, Zenon
    <2>4. \A x \in A : x \in B <=> x > t
      BY <2>2, <2>3
    <2>5. B \in SUBSET Nat
      BY <2>2, <2>3, Zenon
    <2> QED BY <2>2, <2>3, <2>4, <2>5
  <1>2. IsFiniteSet(B)
    BY <1>1, FS_Subset
  <1>3. PICK r : r = inOrder(B)
    BY Zenon
  <1>4. /\ r \in Seq(B) /\ Rises(r) /\ Len(r) \in Nat /\ DOMAIN r = 1..Len(r)
        /\ \A x \in B : \E a \in 1..Len(r) : r[a] = x
    <2> HIDE DEF B
    <2> QED BY <1>1, <1>2, <1>3, OrderIs, ZenonT(30)
  <1>5. r \in Seq(Nat) /\ \A a \in 1..Len(r) : r[a] \in B /\ r[a] \in Nat /\ t < r[a]
    <2> HIDE DEF B
    <2>1. \A a \in 1..Len(r) : r[a] \in B
      BY <1>4
    <2>2. \A a \in 1..Len(r) : r[a] \in Nat /\ t < r[a]
      BY <1>1, <2>1, ZenonT(30)
    <2>3. r \in Seq(Nat)
      BY <1>4, <2>2
    <2> QED BY <2>1, <2>2, <2>3, ZenonT(30)
  <1>6. p = IF size = 0 \/ size >= Len(r) THEN [page |-> r, token |-> 0]
            ELSE [page |-> SubSeq(r, 1, size), token |-> r[size]]
    BY <1>3, Zenon DEF paginate
  <1> HIDE DEF B
  <1>7. CASE size = 0 \/ size >= Len(r)
    <2>1. p.page = r /\ p.token = 0
      BY <1>6, <1>7
    <2>2. 0 \in Nat
      BY ZenonT(30)
    <2> QED BY <1>1, <1>4, <1>5, <2>1, <2>2, Zenon DEF PageOf
  <1>8. CASE ~(size = 0 \/ size >= Len(r))
    <2>1. size \in 1..Len(r) /\ size > 0 /\ \A a \in 1..size : a \in 1..Len(r)
      BY <1>4, <1>8
    <2>2. PICK q : q = p.page
      BY Zenon
    <2>3. q = SubSeq(r, 1, size) /\ p.token = r[size]
      BY <1>6, <1>8, <2>2
    <2>4. /\ q \in Seq(Nat) /\ Len(q) = size
          /\ \A a \in 1..size : q[a] = r[a]
      <3>1. \A a \in 1..size : r[a] \in Nat
        BY <1>5, <2>1
      <3>2. /\ q \in Seq(Nat) /\ Len(q) = (IF 1 <= size THEN size - 1 + 1 ELSE 0)
            /\ \A a \in 1..(size - 1 + 1) : q[a] = r[1 + a - 1]
        BY <2>3, <3>1, SubSeqProperties
      <3>3. size - 1 + 1 = size /\ \A a \in 1..size : 1 + a - 1 = a
        OBVIOUS
      <3> QED BY <2>1, <3>2, <3>3
    <2>5. DOMAIN q = 1..size
      BY <2>4
    <2>6. Rises(q)
      BY <1>4, <2>1, <2>4, <2>5, ZenonT(30) DEF Rises
    <2>7. p.token \in Nat /\ t < p.token
      BY <1>5, <2>1, <2>3
    <2>8. ASSUME NEW a \in 1..size PROVE t < q[a] /\ q[a] <= p.token
      <3>1. r[a] \in Nat /\ r[size] \in Nat /\ t < r[a]
        BY <1>5, <2>1
      <3>2. a = size \/ r[a] < r[size]
        BY <1>4, <2>1 DEF Rises
      <3>3. q[a] = r[a]
        BY <2>4
      <3> QED BY <2>3, <3>1, <3>2, <3>3
    <2>9. ASSUME NEW x \in A, t < x, x <= p.token PROVE \E a \in 1..size : q[a] = x
      <3>1. PICK a \in 1..Len(r) : r[a] = x
        BY <1>1, <1>4, <2>9
      <3>2. r[a] \in Nat /\ r[size] \in Nat /\ r[a] <= r[size]
        BY <1>5, <2>1, <2>3, <2>9, <3>1, ZenonT(30)
      <3>3. ~(size < a)
        <4>1. size < a => r[size] < r[a]
          BY <1>4, <2>1, ZenonT(30) DEF Rises
        <4>2. ~(r[size] < r[a])
          BY <3>2
        <4> QED BY <4>1, <4>2, Zenon
      <3>4. a \in 1..size
        BY <1>4, <2>1, <3>3
      <3> QED BY <2>4, <3>1, <3>4
    <2>a. p.token # 0
      BY <2>7
    <2> QED BY <2>2, <2>4, <2>6, <2>7, <2>8, <2>9, <2>a, ZenonT(30) DEF PageOf
  <1> QED BY <1>7, <1>8

\* One list rising after another.
LEMMA RisesOn ==
  ASSUME NEW s \in Seq(Nat), NEW q \in Seq(Nat), NEW t \in Nat, Rises(s), Rises(q),
         \A a \in 1..Len(s) : s[a] <= t, \A a \in 1..Len(q) : t < q[a]
  PROVE  Rises(s \o q)
  <1> DEFINE u == s \o q
             n == Len(s)
  <1>1. /\ u \in Seq(Nat) /\ n \in Nat /\ Len(q) \in Nat /\ Len(u) = n + Len(q)
        /\ DOMAIN u = 1..(n + Len(q)) /\ DOMAIN s = 1..n /\ DOMAIN q = 1..Len(q)
        /\ \A a \in 1..(n + Len(q)) : u[a] = IF a <= n THEN s[a] ELSE q[a - n]
    BY ConcatProperties
  <1>2. ASSUME NEW a \in 1..(n + Len(q)), NEW b \in 1..(n + Len(q)), a < b PROVE u[a] < u[b]
    <2> HIDE DEF n, u
    <2>1. CASE b <= n
      <3>1. a \in 1..n /\ b \in 1..n /\ a <= n
        BY <1>1, <1>2, <2>1
      <3>2. u[a] = s[a] /\ u[b] = s[b]
        BY <1>1, <3>1, <2>1, ZenonT(30)
      <3> QED BY <1>1, <1>2, <3>1, <3>2, ZenonT(30) DEF Rises
    <2>2. CASE ~(b <= n) /\ a <= n
      <3>1. a \in 1..n /\ b - n \in 1..Len(q)
        BY <1>1, <1>2, <2>2
      <3>2. u[a] = s[a] /\ u[b] = q[b - n]
        BY <1>1, <2>2
      <3>3. s[a] <= t /\ t < q[b - n] /\ s[a] \in Nat /\ q[b - n] \in Nat
        <4>1. s[a] <= t /\ s[a] \in Nat
          BY <3>1 DEF n
        <4>2. \A c \in 1..Len(q) : t < q[c] /\ q[c] \in Nat
          OBVIOUS
        <4> QED BY <3>1, <4>1, <4>2, ZenonT(30)
      <3> QED BY <3>2, <3>3
    <2>3. CASE ~(a <= n)
      <3>1. a - n \in 1..Len(q) /\ b - n \in 1..Len(q) /\ a - n < b - n /\ ~(b <= n)
        BY <1>1, <1>2, <2>3
      <3>2. u[a] = q[a - n] /\ u[b] = q[b - n]
        BY <1>1, <2>3, <3>1, ZenonT(30)
      <3> QED BY <1>1, <3>1, <3>2, ZenonT(30) DEF Rises
    <2> QED BY <2>1, <2>2, <2>3
  <1> HIDE DEF n, u
  <1>3. Rises(u)
    BY <1>1, <1>2, ZenonT(30) DEF Rises
  <1> QED BY <1>3 DEF u

\* With one more page a client has got what was on every list up to the token.
LEMMA NamedPageKeeps ==
  ASSUME NEW lists, NEW i \in Nat \ {0}, lists[i] \in SUBSET (Nat \ {0}), IsFiniteSet(lists[i]),
         NEW size \in Nat, NEW w \in Seen(lists, i - 1)
  PROVE  turned(w, paginate(lists[i], size, w.token)) \in Seen(lists, i)
  <1>1. /\ w \in Walk(Nat) /\ w.token \in Nat /\ w.got \in Seq(Nat) /\ w.more \in BOOLEAN
        /\ Rises(w.got)
        /\ w.more => \A a \in 1..Len(w.got) : w.got[a] <= w.token
        /\ \A x \in Nat \ {0} : (\A k \in 1..(i - 1) : x \in lists[k]) /\ (w.more => x <= w.token)
                                  => \E a \in 1..Len(w.got) : w.got[a] = x
    BY DEF Seen, Walk
  <1>2. \A x : (\A k \in 1..i : x \in lists[k]) => x \in lists[i] /\ \A k \in 1..(i - 1) : x \in lists[k]
    OBVIOUS
  <1>3. CASE ~w.more
    <2>1. turned(w, paginate(lists[i], size, w.token)) = w
      BY <1>3, Zenon DEF turned
    <2>2. \A x \in Nat \ {0} : (\A k \in 1..i : x \in lists[k]) /\ (w.more => x <= w.token)
                                  => \E a \in 1..Len(w.got) : w.got[a] = x
      BY <1>1, <1>2, ZenonT(30)
    <2> QED BY <1>1, <2>1, <2>2, Zenon DEF Seen
  <1>4. CASE w.more
    <2>1. PICK p : p = paginate(lists[i], size, w.token)
      BY Zenon
    <2>2. PICK v : v = turned(w, p)
      BY Zenon
    <2>3. v = [got |-> w.got \o p.page, token |-> p.token, more |-> p.token # 0]
      BY <1>4, <2>2, ZenonT(30) DEF turned
    <2>4. PICK s \in Seq(Nat), t \in Nat : s = w.got /\ t = w.token
      BY <1>1
    <2>5. /\ Rises(s) /\ (\A a \in 1..Len(s) : s[a] <= t)
          /\ \A x \in Nat \ {0} : (\A k \in 1..(i - 1) : x \in lists[k]) /\ x <= t
                                    => \E a \in 1..Len(s) : s[a] = x
      BY <1>1, <1>4, <2>4, Zenon
    <2>6. /\ p.page \in Seq(Nat) /\ p.token \in Nat /\ (p.token # 0 => t < p.token) /\ Rises(p.page)
          /\ \A a \in 1..Len(p.page) : t < p.page[a] /\ (p.token # 0 => p.page[a] <= p.token)
          /\ \A x \in lists[i] : t < x /\ (p.token # 0 => x <= p.token)
                                   => \E a \in 1..Len(p.page) : p.page[a] = x
      <3>1. PICK A \in SUBSET (Nat \ {0}) : A = lists[i] /\ IsFiniteSet(A)
        OBVIOUS
      <3>2. p = paginate(A, size, t)
        BY <2>1, <2>4, <3>1, Zenon
      <3>3. PageOf(A, t, p)
        BY <3>1, <3>2, NamedPage, ZenonT(30)
      <3> QED BY <3>1, <3>3, Zenon DEF PageOf
    <2>7. PICK q \in Seq(Nat), e \in Nat : q = p.page /\ e = p.token
      BY <2>6
    <2>8. PICK u : u = s \o q
      BY Zenon
    <2>9. v.got = u /\ v.token = e /\ v.more = (e # 0)
      BY <2>3, <2>4, <2>7, <2>8, ZenonT(30)
    <2>a. /\ u \in Seq(Nat) /\ Len(u) = Len(s) + Len(q) /\ Len(s) \in Nat /\ Len(q) \in Nat
          /\ \A a \in 1..(Len(s) + Len(q)) : u[a] = IF a <= Len(s) THEN s[a] ELSE q[a - Len(s)]
      BY <2>8, ConcatProperties
    <2>b. Rises(q) /\ (\A a \in 1..Len(q) : t < q[a] /\ (e # 0 => q[a] <= e))
          /\ \A x \in lists[i] : t < x /\ (e # 0 => x <= e) => \E a \in 1..Len(q) : q[a] = x
      BY <2>6, <2>7, Zenon
    <2>c. Rises(u)
      BY <2>5, <2>8, <2>b, RisesOn, ZenonT(30)
    <2>d. PICK m \in Nat, n \in Nat : m = Len(s) /\ n = Len(q)
      BY <2>a
    <2>e. Len(u) = m + n /\ \A a \in 1..(m + n) : u[a] = IF a <= m THEN s[a] ELSE q[a - m]
      BY <2>a, <2>d, Zenon
    <2>f. ASSUME e # 0, NEW a \in 1..Len(u) PROVE u[a] <= e
      <3>1. CASE a <= m
        <4>1. a \in 1..m /\ u[a] = s[a]
          BY <2>e, <3>1
        <4>2. s[a] <= t /\ s[a] \in Nat
          BY <2>5, <2>d, <4>1
        <4>3. t < e
          BY <2>6, <2>7, <2>f
        <4> QED BY <4>1, <4>2, <4>3
      <3>2. CASE ~(a <= m)
        <4>1. a - m \in 1..n /\ u[a] = q[a - m]
          BY <2>e, <3>2
        <4> QED BY <2>b, <2>d, <2>f, <4>1, ZenonT(30)
      <3> QED BY <3>1, <3>2, ZenonT(30)
    <2>g. ASSUME NEW x \in Nat \ {0}, \A k \in 1..i : x \in lists[k], e # 0 => x <= e
          PROVE  \E a \in 1..Len(u) : u[a] = x
      <3>1. CASE x <= t
        <4>1. PICK a \in 1..m : s[a] = x
          BY <1>2, <2>5, <2>d, <2>g, <3>1, ZenonT(30)
        <4>2. a \in 1..(m + n) /\ a <= m
          OBVIOUS
        <4> QED BY <2>e, <4>1, <4>2
      <3>2. CASE t < x
        <4>1. PICK a \in 1..n : q[a] = x
          BY <1>2, <2>b, <2>d, <2>g, <3>2
        <4>2. a + m \in 1..(m + n) /\ ~(a + m <= m) /\ (a + m) - m = a
          OBVIOUS
        <4> QED BY <2>e, <4>1, <4>2, ZenonT(30)
      <3>3. x <= t \/ t < x
        OBVIOUS
      <3> QED BY <3>1, <3>2, <3>3, Zenon
    <2>h. v \in Walk(Nat)
      BY <2>3, <2>8, <2>4, <2>7, <2>a, ZenonT(30) DEF Walk
    <2>i. /\ Rises(v.got)
          /\ v.more => \A a \in 1..Len(v.got) : v.got[a] <= v.token
          /\ \A x \in Nat \ {0} : (\A k \in 1..i : x \in lists[k]) /\ (v.more => x <= v.token)
                                    => \E a \in 1..Len(v.got) : v.got[a] = x
      BY <2>9, <2>c, <2>f, <2>g, Zenon
    <2> QED BY <2>1, <2>2, <2>h, <2>i, Zenon DEF Seen
  <1> QED BY <1>1, <1>3, <1>4, ZenonT(30)

\* Listing page after page while items come and go returns them in order, none
\* twice, and every item that was there all along up to the token, or, when the
\* listing has ended, every one (paginate, ListOperations and the other lists).
THEOREM ListingsCoverOnce ==
  ASSUME NEW lists \in Seq({A \in SUBSET (Nat \ {0}) : IsFiniteSet(A)}), NEW size \in Nat
  PROVE  ListedOnce(lists, size)
  <1> DEFINE Turn(w, i) == turned(w, paginate(lists[i], size, w.token))
  <1>0. PICK n \in Nat : n = Len(lists) /\ \A i \in 1..n : lists[i] \in SUBSET (Nat \ {0})
                                                            /\ IsFiniteSet(lists[i])
    OBVIOUS
  <1> DEFINE X == [i \in 0..n |-> Seen(lists, i)]
             step == [i \in 1..n |-> [w \in Walk(Nat) |-> Turn(w, i)]]
  <1>1. FirstPage \in Seen(lists, 0)
    <2>1. PICK w : w = FirstPage
      BY Zenon
    <2>2. w \in Walk(Nat) /\ w.got = <<>> /\ w.token = 0 /\ w.more = TRUE /\ Len(w.got) = 0
      BY <2>1 DEF FirstPage, Walk
    <2>3. Rises(w.got)
      BY <2>2 DEF Rises
    <2>4. \A x \in Nat \ {0} : ~(x <= w.token)
      BY <2>2
    <2>5. \A a \in 1..Len(w.got) : w.got[a] <= w.token
      BY <2>2
    <2> QED BY <2>1, <2>2, <2>3, <2>4, <2>5, Zenon DEF Seen
  <1>2. \A i \in 1..n : \A w \in X[i - 1] : w \in Walk(Nat) /\ Turn(w, i) \in X[i]
    <2> TAKE i \in 1..n
    <2>1. X[i - 1] = Seen(lists, i - 1) /\ X[i] = Seen(lists, i) /\ i \in Nat \ {0}
      OBVIOUS
    <2>2. \A w \in Seen(lists, i - 1) : w \in Walk(Nat)
      BY Zenon DEF Seen
    <2>3. \A w \in Seen(lists, i - 1) : Turn(w, i) \in Seen(lists, i)
      BY <1>0, <2>1, NamedPageKeeps, Zenon
    <2> HIDE DEF X, Turn
    <2> QED BY <2>1, <2>2, <2>3, Zenon
  <1>3. X[0] = Seen(lists, 0) /\ X[n] = Seen(lists, n)
    OBVIOUS
  <1>4. PICK f : Unrolled(f, FirstPage, step, n) /\ \A i \in 0..n : f[i] \in X[i]
    <2>1. \A i \in 1..n : \A w \in X[i - 1] : step[i][w] \in X[i]
      <3> HIDE DEF X, Turn
      <3> QED BY <1>2
    <2> HIDE DEF step, X
    <2> QED BY <1>1, <1>3, <2>1, Recursion, ZenonT(30)
  <1>5. f = [i \in 0..n |-> IF i = 0 THEN FirstPage ELSE Turn(f[i - 1], i)]
    <2>1. \A i \in 1..n : f[i - 1] \in X[i - 1]
      <3> HIDE DEF X
      <3> QED BY <1>4
    <2>2. \A i \in 1..n : step[i][f[i - 1]] = Turn(f[i - 1], i)
      <3> HIDE DEF X, Turn
      <3> QED BY <1>2, <2>1, ZenonT(30)
    <2> HIDE DEF step, Turn
    <2>3. \A i \in 0..n : (IF i = 0 THEN FirstPage ELSE step[i][f[i - 1]])
                           = IF i = 0 THEN FirstPage ELSE Turn(f[i - 1], i)
      BY <2>2
    <2> QED BY <1>4, <2>3, ZenonT(30) DEF Unrolled
  <1>6. PICK g : /\ g = [i \in 0..n |-> IF i = 0 THEN FirstPage ELSE Turn(g[i - 1], i)]
                 /\ walk(lists, size) = g[n]
    BY <1>0, <1>5, Zenon DEF walk
  <1>7. g[n] \in X[n]
    <2>1. g[0] \in X[0]
      BY <1>1, <1>3, <1>6
    <2> HIDE DEF X, Turn
    <2>2. ASSUME NEW i \in 1..n, g[i - 1] \in X[i - 1] PROVE g[i] \in X[i]
      <3>1. g[i] = Turn(g[i - 1], i)
        BY <1>6
      <3> QED BY <1>2, <2>2, <3>1, ZenonT(30)
    <2>3. \A i \in 0..n : g[i] \in X[i]
      BY <2>1, <2>2, Along, ZenonT(30)
    <2> QED BY <2>3
  <1>8. PICK w : w = walk(lists, size) /\ w \in Seen(lists, n)
    BY <1>3, <1>6, <1>7
  <1>9. /\ Rises(w.got) /\ w.got \in Seq(Nat)
        /\ \A x \in Nat \ {0} : (\A k \in 1..n : x \in lists[k]) /\ (w.more => x <= w.token)
                                  => \E a \in 1..Len(w.got) : w.got[a] = x
    BY <1>8, ZenonT(30) DEF Seen, Walk
  <1>a. \A i, j \in 1..Len(w.got) : i < j => w.got[i] < w.got[j]
    BY <1>9 DEF Rises
  <1>b. n > 0 => \A x \in lists[1] : x \in Nat \ {0}
    BY <1>0
  <1> QED BY <1>0, <1>8, <1>9, <1>a, <1>b, Zenon DEF ListedOnce
=============================================================================
