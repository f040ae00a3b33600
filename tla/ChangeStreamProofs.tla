------------------------ MODULE ChangeStreamProofs -------------------------
(***************************************************************************)
(* Theorems about ChangeStream for every batch size, retention, number of  *)
(* records and messages in flight.  The argument: what the consumer holds, *)
(* what is on its way to it and what the reader has listed cover the log   *)
(* up to the reader's position without a gap, and the three follow each    *)
(* other in the order of the record ids.                                   *)
(***************************************************************************)
EXTENDS ChangeStream, FiniteSetTheorems, SequenceTheorems, WellFoundedInduction, TLAPS

-----------------------------------------------------------------------------
(* Sets of ids. *)

(* A set of naturals has a least element. *)
LEMMA MinOfNaturals ==
    ASSUME NEW S, S \subseteq Nat, S # {}
    PROVE  Min(S) \in S /\ \A y \in S : Min(S) =< y
<1> DEFINE R == {ss \in Nat \X Nat : ss[1] < ss[2]}
<1>1. IsWellFoundedOn(R, Nat)
  BY NatLessThanWellFounded DEF OpToRel
<1>2. PICK x \in S : \A y \in S : ~ (<<y, x>> \in R)
  <2> HIDE DEF R
  <2> QED
    BY <1>1, WFMin, Zenon
<1>3. ASSUME NEW y \in S PROVE x =< y
  <2>1. x \in Nat /\ y \in Nat
    OBVIOUS
  <2>2. y < x => <<y, x>> \in R
    BY <2>1
  <2> QED
    BY <1>2, <2>1, <2>2
<1> QED
  BY <1>3, ZenonT(30) DEF Min

(* A bounded set of naturals has a greatest element. *)
LEMMA MaxOfBounded ==
    ASSUME NEW n \in Nat, NEW S, S \subseteq 0 .. n, S # {}
    PROVE  Max(S) \in S /\ \A y \in S : Max(S) >= y
<1> DEFINE T == {x \in 0 .. n : n - x \in S}
<1>1. PICK s : s \in S
  OBVIOUS
<1>2. T \subseteq Nat /\ n - s \in T
  BY <1>1
<1>3. PICK t \in T : \A y \in T : t =< y
  <2> HIDE DEF T
  <2> QED
    BY <1>2, MinOfNaturals, ZenonT(30)
<1>4. n - t \in S
  BY <1>3
<1>5. ASSUME NEW y \in S PROVE n - t >= y
  <2>1. n - y \in T /\ y \in 0 .. n /\ t \in 0 .. n
    BY <1>5
  <2>2. t =< n - y
    BY <1>3, <2>1, ZenonT(30)
  <2> HIDE DEF T
  <2> QED
    BY <2>1, <2>2
<1> QED
  BY <1>4, <1>5, ZenonT(30) DEF Max

Below(L, p, x) == {i \in L : p < i /\ i < x}
FirstAfter(L, p, n) == {id \in L : id > p /\ Cardinality(Below(L, p, id)) < n}

(* The first n records after a position have no gap, and fewer than n are  *)
(* all there are (listAfter).                                              *)
LEMMA FirstAfterNoGap ==
    ASSUME NEW m \in Nat, NEW L, L \subseteq 1 .. m, NEW p \in Nat, NEW n \in Nat \ {0}
    PROVE  /\ \A id \in FirstAfter(L, p, n), j \in L : p < j /\ j < id => j \in FirstAfter(L, p, n)
           /\ Cardinality(FirstAfter(L, p, n)) # n => \A j \in L : p < j => j \in FirstAfter(L, p, n)
<1> DEFINE ids == FirstAfter(L, p, n)
<1>1. IsFiniteSet(L) /\ L \subseteq Nat /\ L \subseteq 0 .. m
  <2>1. IsFiniteSet(1 .. m) /\ L \in SUBSET (1 .. m)
    BY FS_Interval
  <2>2. IsFiniteSet(L)
    BY <2>1, FS_Subset, ZenonT(30)
  <2> QED
    BY <2>2
<1>2. \A x : IsFiniteSet(Below(L, p, x)) /\ Cardinality(Below(L, p, x)) \in Nat
  <2>1. \A x : Below(L, p, x) \in SUBSET L
    BY DEF Below
  <2> QED
    BY <1>1, <2>1, FS_Subset, FS_CardinalityType
<1>3. ASSUME NEW id \in ids, NEW j \in L, p < j, j < id PROVE j \in ids
  <2>1. Below(L, p, j) \in SUBSET Below(L, p, id)
    <3>1. id \in Nat /\ j \in Nat
      BY <1>1 DEF FirstAfter
    <3>2. ASSUME NEW i \in Below(L, p, j) PROVE i \in Below(L, p, id)
      BY <1>1, <1>3, <3>1 DEF Below
    <3> QED
      BY <3>2
  <2>2. Cardinality(Below(L, p, j)) =< Cardinality(Below(L, p, id))
    BY <1>2, <2>1, FS_Subset
  <2>3. Cardinality(Below(L, p, id)) < n
    BY DEF FirstAfter
  <2> QED
    BY <1>2, <1>3, <2>2, <2>3 DEF FirstAfter
<1>4. ASSUME NEW z \in L, p < z, z \notin ids PROVE Cardinality(ids) = n
  <2> DEFINE out == {j \in L : p < j /\ j \notin ids}
  <2>1. out \subseteq Nat /\ z \in out
    BY <1>1, <1>4, Zenon
  <2>2. PICK x \in out : \A y \in out : x =< y
    <3> HIDE DEF out
    <3> QED
      BY <2>1, MinOfNaturals, ZenonT(30)
  <2>3. ids = Below(L, p, x)
    <3>1. ASSUME NEW y \in ids PROVE y \in Below(L, p, x)
      <4>1. y \in L /\ p < y /\ y # x
        BY <2>2 DEF FirstAfter
      <4>2. ~ (x < y)
        BY <1>3, <2>2
      <4> QED
        BY <2>2, <4>1, <4>2 DEF Below
    <3>2. ASSUME NEW y \in Below(L, p, x) PROVE y \in ids
      <4>1. y \in L /\ p < y /\ y < x /\ y \in Nat /\ x \in Nat
        BY <2>1, <2>2 DEF Below
      <4> QED
        BY <2>2, <4>1
    <3> QED
      BY <3>1, <3>2
  <2>4. Cardinality(Below(L, p, x)) >= n
    BY <1>2, <2>2 DEF FirstAfter
  <2>5. ids # {} /\ ids \subseteq 0 .. m /\ IsFiniteSet(ids)
    <3>1. ids \subseteq 0 .. m
      BY <1>1, ZenonT(30) DEF FirstAfter
    <3>2. Cardinality(ids) # 0 /\ IsFiniteSet(ids)
      BY <1>2, <2>3, <2>4
    <3> QED
      BY <3>1, <3>2, FS_EmptySet
  <2>6. PICK y \in ids : \A i \in ids : y >= i
    <3> HIDE DEF ids
    <3> QED
      BY <2>5, MaxOfBounded, ZenonT(30)
  <2>7. ids = Below(L, p, y) \cup {y}
    <3>1. \A i \in ids : i = y \/ i \in Below(L, p, y)
      BY <2>5, <2>6 DEF Below, FirstAfter
    <3>2. \A i \in Below(L, p, y) : i \in ids
      BY <1>3 DEF Below
    <3> QED
      BY <3>1, <3>2
  <2>8. Cardinality(ids) = Cardinality(Below(L, p, y)) + 1
    <3>1. y \notin Below(L, p, y)
      BY <2>5, <2>6 DEF Below
    <3> QED
      BY <1>2, <2>7, <3>1, FS_AddElement, ZenonT(30)
  <2>9. Cardinality(Below(L, p, y)) < n
    BY DEF FirstAfter
  <2> QED
    BY <1>2, <2>3, <2>4, <2>8, <2>9
<1> QED
  BY <1>3, <1>4

-----------------------------------------------------------------------------
(* The invariant. *)

USE StreamAssumption

Active == pc \in {"poll", "list", "send"}
Messages == {"change", "heartbeat"} \X (0 .. MaxId)

\* Ids follow commit times, the log has no hole, and no position is beyond the
\* ids assigned.
LogInv ==
    /\ RecordsLeaveOldestFirst
    /\ \A i, j \in DOMAIN log : i < j => log[i].at =< log[j].at
    /\ \A i \in DOMAIN log : log[i].at =< clock /\ (pend # -1 => log[i].at =< pend)
    /\ pend =< clock
    /\ pos =< lastId /\ \A t \in tokens : t =< lastId

\* Messages follow each other and what the consumer has in the order of ids.
ChanInv ==
    /\ chan \in Seq(Messages)
    /\ pc \in {"off", "opened"} => chan = << >>
    /\ \A i \in DOMAIN chan : chan[i][2] =< lastId /\ (Active => chan[i][2] =< pos)
    /\ \A i, j \in DOMAIN chan : i < j =>
         chan[i][2] =< chan[j][2] /\ (chan[j][1] = "change" => chan[i][2] < chan[j][2])
    /\ \A i \in DOMAIN chan, t \in tokens :
         t =< chan[i][2] /\ (chan[i][1] = "change" => t < chan[i][2])

\* Up to every token it has, the consumer holds all that is stored.
HeldInv ==
    /\ inOrder = TRUE
    /\ got \subseteq tokens
    /\ \A id \in DOMAIN log, t \in tokens :
         log[id].key \in origin.rng /\ origin.after < id /\ id =< t => id \in got

\* Up to the reader's position, and to that of each message on its way, all
\* that is stored has been sent.
SentInv ==
    /\ Active =>
         /\ rng = origin.rng
         /\ \A t \in tokens : t =< pos
         /\ \A id \in DOMAIN log :
              log[id].key \in rng /\ origin.after < id /\ id =< pos => id \in Sent
    /\ \A id \in DOMAIN log, i \in DOMAIN chan :
         log[id].key \in origin.rng /\ origin.after < id /\ id =< chan[i][2] => id \in Sent

\* A listing has no gap, and a short one reaches the watermark.
BatchInv ==
    /\ pc \in {"list", "send"} => listed =< lastId
    /\ pc = "send" =>
         /\ \A id \in DOMAIN batch :
              /\ id \in 1 .. lastId /\ pos < id
              /\ id \in DOMAIN log => batch[id] = log[id]
         /\ \A j \in DOMAIN log, id \in DOMAIN batch : pos < j /\ j =< id => j \in DOMAIN batch
         /\ ~ full => \A j \in DOMAIN log : pos < j /\ j =< listed => j \in DOMAIN batch

IInv == TypeOK /\ LogInv /\ ChanInv /\ HeldInv /\ SentInv /\ BatchInv

(* The initial state satisfies the invariant. *)
LEMMA InitIInv == Init => IInv
<1> SUFFICES ASSUME Init PROVE IInv
  OBVIOUS
<1> USE DEF Init, Idle
<1>1. DOMAIN log = {} /\ DOMAIN chan = {} /\ chan \in Seq(Messages) /\ Len(chan) = 0
  OBVIOUS
<1>2. pc = "off" /\ pend = -1 /\ -1 \in -1 .. MaxTime
  OBVIOUS
<1>3. TypeOK
  <2>1. full \in BOOLEAN /\ over \in BOOLEAN
    BY Zenon
  <2>2. clock \in 0 .. MaxTime /\ lastId \in 0 .. MaxId /\ end \in 0 .. MaxTime
        /\ pos \in 0 .. MaxId /\ listed \in 0 .. MaxId /\ Len(chan) =< MaxSent
        /\ purging \in 0 .. MaxPurging
    BY <1>1
  <2>3. DOMAIN log \subseteq 1 .. lastId /\ rng \subseteq Keys /\ tokens \subseteq 0 .. MaxId
    BY <1>1
  <2> QED
    BY <1>1, <1>2, <2>1, <2>2, <2>3, Zenon DEF TypeOK
<1>4. LogInv
  BY <1>1 DEF LogInv, RecordsLeaveOldestFirst
<1>5. ChanInv /\ HeldInv
  BY <1>1 DEF ChanInv, HeldInv
<1>6. SentInv /\ BatchInv
  BY <1>1, <1>2 DEF SentInv, BatchInv, Active
<1> QED
  BY <1>3, <1>4, <1>5, <1>6 DEF IInv

(* The clock, an admin and a write that has not committed change nothing   *)
(* a reader sees.                                                          *)
LEMMA QuietIInv ==
    ASSUME IInv,
           \/ BeginCommit \/ Abort \/ readRetention \/ Tick
           \/ \E r \in Retentions \cup {0} : UpdateTable(r)
    PROVE  IInv'
<1>1. UNCHANGED <<log, lastId, server, chan, consumer>>
  BY DEF BeginCommit, Abort, readRetention, UpdateTable, Tick, store
<1>2. \/ clock' = clock /\ pend' = clock /\ UNCHANGED <<retention, purging, cut>>
      \/ clock' = clock /\ pend' = -1 /\ UNCHANGED <<retention, purging, cut>>
      \/ clock' = clock /\ pend' = pend /\ cut' = retention /\ UNCHANGED <<retention, purging>>
      \/ clock < MaxTime /\ clock' = clock + 1 /\ UNCHANGED <<pend, retention, purging, cut>>
      \/ /\ clock' = clock /\ pend' = pend /\ cut' = cut /\ retention' \in Retentions \cup {0}
         /\ purging' = purging \/ (purging < MaxPurging /\ purging' = purging + 1)
  BY DEF BeginCommit, Abort, readRetention, UpdateTable, Tick, store
<1>3. TypeOK'
  <2>1. clock' \in 0 .. MaxTime /\ pend' \in -1 .. MaxTime /\ purging' \in 0 .. MaxPurging
    <3>1. clock \in 0 .. MaxTime /\ pend \in -1 .. MaxTime /\ purging \in 0 .. MaxPurging
      BY DEF IInv, TypeOK
    <3>2. clock' = clock \/ (clock < MaxTime /\ clock' = clock + 1)
      BY <1>2, Zenon
    <3>3. pend' = pend \/ pend' = clock \/ pend' = -1
      BY <1>2, Zenon
    <3>4. purging' = purging \/ (purging < MaxPurging /\ purging' = purging + 1)
      BY <1>2, Zenon
    <3> QED
      BY <3>1, <3>2, <3>3, <3>4
  <2>2. retention' \in Retentions \cup {0} /\ cut' \in Retentions \cup {0}
    BY <1>2, ZenonT(30) DEF IInv, TypeOK
  <2> QED
    BY <1>1, <2>1, <2>2, ZenonT(30) DEF IInv, TypeOK, server, consumer
<1>4. LogInv'
  BY <1>1, <1>2 DEF IInv, TypeOK, LogInv, RecordsLeaveOldestFirst, server, consumer
<1>5. ChanInv' /\ HeldInv'
  BY <1>1 DEF IInv, ChanInv, HeldInv, Active, server, consumer
<1>6. SentInv' /\ BatchInv'
  BY <1>1, ZenonT(30) DEF IInv, SentInv, BatchInv, Active, Sent, server, consumer
<1> QED
  BY <1>3, <1>4, <1>5, <1>6 DEF IInv

(* A commit appends after all ids in use and all times committed.          *)
LEMMA CommitIInv ==
    ASSUME IInv, NEW key \in Keys, NEW n \in 1 .. 2, Commit(key, n)
    PROVE  IInv'
<1> DEFINE new == IF enabled THEN (lastId + 1) .. (lastId + n) ELSE {}
<1>1. /\ UNCHANGED <<clock, retention, purging, cut, server, chan, consumer>>
      /\ pend # -1 /\ pend' = -1 /\ lastId + n =< MaxId
      /\ log' = [id \in DOMAIN log \cup new |->
                   IF id \in new THEN [key |-> key, at |-> pend] ELSE log[id]]
      /\ lastId' = IF enabled THEN lastId + n ELSE lastId
  BY DEF Commit
<1>2. lastId \in Nat /\ lastId' \in 0 .. MaxId /\ lastId =< lastId' /\ DOMAIN log \subseteq 1 .. lastId
      /\ \A id \in new : id \in Int /\ lastId < id /\ id =< lastId'
  BY <1>1 DEF IInv, TypeOK
<1>3. /\ DOMAIN log' = DOMAIN log \cup new
      /\ \A id \in new : log'[id] = [key |-> key, at |-> pend]
      /\ \A id \in DOMAIN log : id \notin new /\ log'[id] = log[id]
  <2>1. \A id \in DOMAIN log : id \notin new
    BY <1>2
  <2> HIDE DEF new
  <2> QED
    BY <1>1, <2>1
<1> HIDE DEF new
<1>4. TypeOK'
  <2>1. DOMAIN log' \subseteq 1 .. lastId'
    BY <1>2, <1>3
  <2>2. \A id \in DOMAIN log' : log'[id] \in [key : Keys, at : 0 .. MaxTime]
    BY <1>1, <1>3 DEF IInv, TypeOK
  <2> QED
    BY <1>1, <1>2, <2>1, <2>2 DEF IInv, TypeOK, server, consumer
<1>5. LogInv'
  <2>1. pend \in Int /\ clock \in Int /\ \A id \in DOMAIN log : log[id].at \in Int
    BY DEF IInv, TypeOK
  <2>2. \A i \in DOMAIN log' : log'[i].at =< pend /\ pend =< clock
    BY <1>1, <1>3, <2>1 DEF IInv, LogInv
  <2>3. \A i, j \in DOMAIN log' : i < j => log'[i].at =< log'[j].at
    <3>1. \A i \in DOMAIN log, j \in new : ~ (j < i)
      BY <1>2
    <3> QED
      BY <1>1, <1>3, <2>1, <2>2, <3>1 DEF IInv, LogInv
  <2>4. \A i \in DOMAIN log' : log'[i].at \in Int
    BY <1>3, <2>1
  <2>5. pos' =< lastId' /\ \A t \in tokens' : t =< lastId'
    BY <1>1, <1>2 DEF IInv, TypeOK, LogInv, server, consumer
  <2>6. \A i \in DOMAIN log' : log'[i].at =< clock
    BY <2>1, <2>2, <2>4
  <2>7. pend' =< clock'
    BY <1>1, <2>1 DEF IInv, LogInv, TypeOK
  <2>8. RecordsLeaveOldestFirst'
    <3>1. ASSUME NEW i \in DOMAIN log', NEW j \in i .. lastId' PROVE j \in DOMAIN log'
      <4>1. j \in Int /\ i \in Int /\ (lastId < j => j \in new)
        BY <1>1, <1>2, <1>3 DEF new
      <4>2. j =< lastId => i \in DOMAIN log /\ j \in i .. lastId
        BY <1>2, <1>3, <4>1
      <4>3. j =< lastId => j \in DOMAIN log
        BY <4>2 DEF IInv, LogInv, RecordsLeaveOldestFirst
      <4> QED
        BY <1>2, <1>3, <4>1, <4>3
    <3> QED
      BY <3>1, Zenon DEF RecordsLeaveOldestFirst
  <2> QED
    BY <1>1, <2>3, <2>5, <2>6, <2>7, <2>8, ZenonT(30) DEF LogInv
<1>6. ChanInv' /\ \A i \in DOMAIN chan : chan[i][2] \in Int /\ chan[i][2] =< lastId
  <2>1. \A i \in DOMAIN chan : chan[i][2] \in Int /\ chan[i][2] =< lastId
    BY DEF IInv, ChanInv, Messages
  <2>2. \A i \in DOMAIN chan : chan[i][2] =< lastId'
    BY <1>2, <2>1
  <2> QED
    BY <1>1, <2>1, <2>2, ZenonT(30) DEF IInv, ChanInv, Active, server, consumer
<1>7. /\ \A id \in new, i \in DOMAIN chan : ~ (id =< chan[i][2])
      /\ \A id \in new, t \in tokens : ~ (id =< t)
      /\ \A id \in new : ~ (id =< pos)
      /\ pc \in {"list", "send"} => \A id \in new : ~ (id =< listed)
      /\ pc = "send" => \A id \in new, i \in DOMAIN batch : ~ (id =< i) /\ id # i
  <2>1. (\A t \in tokens : t \in Int /\ t =< lastId) /\ pos \in Int /\ pos =< lastId /\ listed \in Int
    BY DEF IInv, LogInv, TypeOK
  <2>2. /\ pc \in {"list", "send"} => listed =< lastId
        /\ pc = "send" => \A i \in DOMAIN batch : i \in 1 .. lastId
    BY ZenonT(30) DEF IInv, BatchInv
  <2> QED
    BY <1>2, <1>6, <2>1, <2>2
<1>8. HeldInv'
  BY <1>1, <1>3, <1>7 DEF IInv, HeldInv, consumer
<1>9. SentInv'
  BY <1>1, <1>3, <1>7, ZenonT(30) DEF IInv, SentInv, Active, Sent, server, consumer
<1>10. BatchInv'
  <2>1. pc \in {"list", "send"} => listed' =< lastId'
    BY <1>1, <1>2 DEF IInv, BatchInv, TypeOK, server
  <2>2. pc = "send" => \A id \in DOMAIN batch : id \in 1 .. lastId' /\ pos < id
    BY <1>2 DEF IInv, BatchInv
  <2>3. pc = "send" => \A id \in DOMAIN batch : id \in DOMAIN log' => batch[id] = log'[id]
    BY <1>3, <1>7 DEF IInv, BatchInv
  <2> QED
    BY <1>1, <1>3, <1>7, <2>1, <2>2, <2>3, ZenonT(30) DEF IInv, BatchInv, server
<1> QED
  BY <1>4, <1>5, <1>6, <1>8, <1>9, <1>10 DEF IInv

(* A purge leaves a part of the log.                                       *)
LEMMA PurgeIInv ==
    ASSUME IInv, purgeTable \/ purgeBefore
    PROVE  IInv'
<1>1. UNCHANGED <<clock, lastId, retention, pend, server, chan, consumer>>
  BY DEF purgeTable, purgeBefore
<1>2. /\ purging' = purging \/ (purging > 0 /\ purging' = purging - 1)
      /\ cut' \in {cut, 0}
  BY DEF purgeTable, purgeBefore
<1>3. DOMAIN log' \subseteq DOMAIN log /\ \A id \in DOMAIN log' : log'[id] = log[id]
  <2>1. CASE purgeTable
    BY <2>1 DEF purgeTable
  <2>2. CASE purgeBefore
    BY <2>2 DEF purgeBefore, Keep
  <2> QED
    BY <2>1, <2>2
<1>4. TypeOK'
  <2>1. \A id \in DOMAIN log' : log'[id] \in [key : Keys, at : 0 .. MaxTime]
    BY <1>3 DEF IInv, TypeOK
  <2>2. purging' \in 0 .. MaxPurging /\ cut' \in Retentions \cup {0}
    BY <1>2 DEF IInv, TypeOK
  <2> QED
    BY <1>1, <1>3, <2>1, <2>2, ZenonT(30) DEF IInv, TypeOK, server, consumer
<1>5. LogInv'
  <2>1. RecordsLeaveOldestFirst'
    <3>1. CASE DOMAIN log' = {} \/ log' = log
      BY <1>1, <3>1 DEF IInv, LogInv, RecordsLeaveOldestFirst
    <3>2. CASE purgeBefore
      <4>1. DOMAIN log' = {id \in DOMAIN log : log[id].at >= clock - cut}
        BY <3>2 DEF purgeBefore, Keep
      <4>2. clock - cut \in Int /\ \A id \in DOMAIN log : id \in Int /\ log[id].at \in Int
        BY DEF IInv, TypeOK
      <4>3. ASSUME NEW i \in DOMAIN log', NEW j \in i .. lastId PROVE j \in DOMAIN log'
        <5>1. i \in DOMAIN log /\ log[i].at >= clock - cut
          BY <4>1
        <5>2. j \in DOMAIN log /\ j \in Int /\ i =< j
          BY <4>2, <5>1 DEF IInv, LogInv, RecordsLeaveOldestFirst
        <5>3. i = j \/ log[i].at =< log[j].at
          BY <4>2, <5>1, <5>2 DEF IInv, LogInv
        <5>4. log[j].at >= clock - cut
          BY <4>2, <5>1, <5>2, <5>3
        <5> QED
          BY <4>1, <5>2, <5>4
      <4> QED
        BY <1>1, <4>3, ZenonT(30) DEF RecordsLeaveOldestFirst
    <3> QED
      BY <3>1, <3>2 DEF purgeTable
  <2> QED
    BY <1>1, <1>3, <2>1 DEF IInv, LogInv, server, consumer
<1>6. ChanInv' /\ HeldInv'
  BY <1>1, <1>3 DEF IInv, ChanInv, HeldInv, Active, server, consumer
<1>7. SentInv' /\ BatchInv'
  BY <1>1, <1>3, ZenonT(30) DEF IInv, SentInv, BatchInv, Active, Sent, server, consumer
<1> QED
  BY <1>4, <1>5, <1>6, <1>7 DEF IInv

(* A call that opens, is refused or ends leaves the consumer what it has.  *)
LEMMA IdleIInv ==
    ASSUME IInv,
           \/ \E range \in Ranges, et \in EndTimes : OpenStream(range, et)
           \/ RefuseStart \/ ReceiveClose \/ Disconnect \/ Crash
           \/ CloseAtRecord \/ CloseAtEnd
    PROVE  IInv'
<1> DEFINE Ends == RefuseStart \/ ReceiveClose \/ Disconnect \/ Crash \/ CloseAtRecord \/ CloseAtEnd
<1> USE DEF OpenStream, RefuseStart, ReceiveClose, Disconnect, Crash, CutOff, CloseAtRecord, CloseAtEnd
<1>1. UNCHANGED <<clock, log, lastId, retention, consumer>>
  BY DEF store
<1>2. /\ pend' \in {pend, -1}
      /\ UNCHANGED <<purging, cut>> \/ (purging' = 0 /\ cut' = 0)
  BY DEF store
<1>3. /\ chan' = chan \/ chan' = << >>
      /\ pc' = "closed" \/ (pc' \in {"off", "opened"} /\ chan' = << >>)
      /\ rng' \subseteq Keys /\ end' \in 0 .. MaxTime /\ pos' \in {pos, 0}
      /\ listed' \in {listed, 0}
  <2>1. CASE \E range \in Ranges, et \in EndTimes : OpenStream(range, et)
    <3>1. pc = "off" /\ pc' = "opened" /\ chan' = chan /\ pos' = pos /\ listed' = listed
          /\ rng' \in Ranges /\ end' \in EndTimes
      BY <2>1
    <3>2. chan = << >>
      BY <3>1 DEF IInv, ChanInv
    <3> QED
      BY <3>1, <3>2
  <2>2. CASE Ends
    <3>1. \/ Returned("closed") /\ chan' = chan
          \/ Returned("off") /\ chan' = << >>
      BY <2>2 DEF IInv, ChanInv
    <3> QED
      BY <3>1 DEF Returned, Idle
  <2> QED
    BY <2>1, <2>2
<1>4. over' \in BOOLEAN /\ full' \in BOOLEAN
  <2>1. CASE \E range \in Ranges, et \in EndTimes : OpenStream(range, et)
    BY <2>1, Zenon DEF IInv, TypeOK
  <2>2. CASE Ends
    <3>1. over' = FALSE /\ full' = FALSE
      BY <2>2, Zenon DEF Returned, Idle
    <3> QED
      BY <3>1, Zenon
  <2> QED
    BY <2>1, <2>2
<1>5. TypeOK'
  <2> HIDE DEF OpenStream, RefuseStart, ReceiveClose, Disconnect, Crash, CutOff, CloseAtRecord, CloseAtEnd
  <2>1. pend' \in -1 .. MaxTime /\ pos' \in 0 .. MaxId /\ listed' \in 0 .. MaxId
    <3>1. pend \in -1 .. MaxTime /\ pos \in 0 .. MaxId /\ listed \in 0 .. MaxId
      BY DEF IInv, TypeOK
    <3> QED
      BY <1>2, <1>3, <3>1
  <2>2. purging' \in 0 .. MaxPurging /\ cut' \in Retentions \cup {0}
    <3>1. purging \in 0 .. MaxPurging /\ cut \in Retentions \cup {0}
      BY DEF IInv, TypeOK
    <3> QED
      BY <1>2, <3>1
  <2>3. Len(chan') =< MaxSent
    <3>1. Len(chan) =< MaxSent
      BY DEF IInv, TypeOK
    <3>2. Len(<< >>) =< MaxSent
      OBVIOUS
    <3> QED
      BY <1>3, <3>1, <3>2, Zenon
  <2> QED
    BY <1>1, <1>3, <1>4, <2>1, <2>2, <2>3, ZenonT(30) DEF IInv, TypeOK, consumer
<1> HIDE DEF OpenStream, RefuseStart, ReceiveClose, Disconnect, Crash, CutOff, CloseAtRecord, CloseAtEnd
<1>6. LogInv'
  BY <1>1, <1>2, <1>3 DEF IInv, TypeOK, LogInv, RecordsLeaveOldestFirst, consumer
<1>7. ChanInv' /\ HeldInv'
  <2>1. ~ Active'
    BY <1>3 DEF Active
  <2>2. HeldInv'
    BY <1>1, ZenonT(30) DEF IInv, HeldInv, consumer
  <2>3. CASE chan' = chan
    <3>1. pc' \in {"off", "opened"} => chan' = << >>
      BY <1>3
    <3>2. UNCHANGED <<lastId, tokens, chan>>
      BY <1>1, <2>3 DEF consumer
    <3> QED
      BY <2>1, <2>2, <3>1, <3>2, SMTT(30) DEF IInv, ChanInv
  <2>4. CASE chan' = << >>
    <3>1. chan' \in Seq(Messages) /\ DOMAIN chan' = {}
      BY <2>4
    <3> QED
      BY <2>2, <2>4, <3>1, Zenon DEF ChanInv
  <2> QED
    BY <1>3, <2>2, <2>3, <2>4
<1>8. SentInv' /\ BatchInv'
  <2>1. ~ Active' /\ BatchInv'
    BY <1>3 DEF Active, BatchInv
  <2>2. CASE chan' = chan
    BY <1>1, <2>1, <2>2, ZenonT(30) DEF IInv, SentInv, Sent, consumer
  <2>3. CASE chan' = << >>
    BY <2>1, <2>3 DEF SentInv
  <2> QED
    BY <1>3, <2>1, <2>2, <2>3
<1> QED
  BY <1>5, <1>6, <1>7, <1>8 DEF IInv

(* A resumed call goes on from a token, up to which the consumer holds all. *)
LEMMA ResumeIInv ==
    ASSUME IInv, NEW toks \in SUBSET tokens, StartAtTokens(toks)
    PROVE  IInv'
<1> DEFINE p == Min(toks)
<1>1. p \in tokens /\ p \in 0 .. MaxId
  <2>1. toks # {} /\ toks \subseteq tokens
    BY DEF StartAtTokens
  <2>2. tokens \subseteq 0 .. MaxId
    BY DEF IInv, TypeOK
  <2>3. toks \subseteq Nat
    BY <2>1, <2>2
  <2> QED
    BY <2>1, <2>2, <2>3, MinOfNaturals, ZenonT(30)
<1> HIDE DEF p
<1>2. /\ UNCHANGED <<clock, store, rng, end, over, batch, full, listed, chan, inOrder, origin>>
      /\ pc = "opened" /\ pc' = "poll" /\ pos' = p /\ rng = origin.rng
      /\ tokens' = {t \in tokens : t =< p} /\ got' = {id \in got : id =< p}
  BY DEF StartAtTokens, Opened, resumeAfter, p
<1>3. chan = << >> /\ DOMAIN chan = {}
  BY <1>2 DEF IInv, ChanInv
<1>4. TypeOK'
  BY <1>1, <1>2, ZenonT(30) DEF IInv, TypeOK, store
<1>5. LogInv'
  BY <1>1, <1>2 DEF IInv, LogInv, RecordsLeaveOldestFirst, store
<1>6. ChanInv'
  BY <1>2, <1>3 DEF IInv, ChanInv, Active
<1>7. HeldInv'
  <2>1. (\A id \in DOMAIN log : id \in Int) /\ (\A t \in tokens : t \in Int)
    BY DEF IInv, TypeOK
  <2>2. inOrder' = TRUE /\ got' \subseteq tokens'
    BY <1>2 DEF IInv, HeldInv
  <2>3. ASSUME NEW id \in DOMAIN log, NEW t \in tokens, t =< p,
               log[id].key \in origin.rng, origin.after < id, id =< t
        PROVE  id \in got /\ id =< p
    <3>1. id \in got
      BY <2>3 DEF IInv, HeldInv
    <3>2. id \in Int /\ t \in Int /\ p \in Int
      BY <1>1, <2>1
    <3>3. id =< p
      BY <2>3, <3>2
    <3> QED
      BY <3>1, <3>3
  <2> QED
    BY <1>2, <2>2, <2>3 DEF HeldInv, store
<1>8. SentInv'
  BY <1>1, <1>2, <1>3 DEF IInv, TypeOK, HeldInv, SentInv, Active, Sent, store
<1>9. BatchInv'
  BY <1>2 DEF BatchInv
<1> QED
  BY <1>4, <1>5, <1>6, <1>7, <1>8, <1>9 DEF IInv

(* A new subscription starts within the ids assigned, with nothing held.   *)
LEMMA SubscribeIInv ==
    ASSUME IInv, StartNow \/ \E at \in 0 .. MaxTime : StartAtTime(at)
    PROVE  IInv'
<1>1. PICK S : S \subseteq DOMAIN log /\ NewSubscription(Largest(S))
  BY ZenonT(30) DEF StartNow, StartAtTime, lastIDBefore
<1> DEFINE p == Largest(S)
<1>2. p \in 0 .. lastId /\ lastId \in 0 .. MaxId
  <2>1. S \subseteq 0 .. lastId /\ lastId \in 0 .. MaxId /\ lastId \in Nat
    BY <1>1 DEF IInv, TypeOK
  <2>2. CASE S = {}
    BY <2>1, <2>2 DEF Largest
  <2>3. CASE S # {}
    BY <2>1, <2>3, MaxOfBounded, ZenonT(30) DEF Largest
  <2> QED
    BY <2>1, <2>2, <2>3
<1> HIDE DEF p
<1>3. /\ UNCHANGED <<clock, store, rng, end, over, batch, full, listed, chan, tokens, got, inOrder>>
      /\ pc = "opened" /\ pc' = "poll" /\ pos' = p /\ tokens = {}
      /\ origin' = [after |-> p, rng |-> rng]
  BY <1>1 DEF NewSubscription, Opened, p
<1>4. chan = << >> /\ DOMAIN chan = {} /\ got = {}
  BY <1>3 DEF IInv, ChanInv, HeldInv
<1>5. TypeOK'
  BY <1>2, <1>3 DEF IInv, TypeOK, store
<1>6. LogInv'
  BY <1>2, <1>3 DEF IInv, LogInv, RecordsLeaveOldestFirst, store
<1>7. ChanInv' /\ HeldInv'
  BY <1>3, <1>4 DEF IInv, ChanInv, HeldInv, Active
<1>8. SentInv'
  <2>1. \A id \in DOMAIN log : id \in Int
    BY DEF IInv, TypeOK
  <2> QED
    BY <1>2, <1>3, <1>4, <2>1 DEF SentInv, store
<1>9. BatchInv'
  BY <1>3 DEF BatchInv
<1> QED
  BY <1>5, <1>6, <1>7, <1>8, <1>9 DEF IInv

(* Reading the watermark fixes how far the listing must reach.             *)
LEMMA WatermarkIInv ==
    ASSUME IInv, ReadWatermark
    PROVE  IInv'
<1>1. /\ UNCHANGED <<clock, store, rng, end, pos, batch, full, chan, consumer>>
      /\ pc = "poll" /\ pc' = "list" /\ listed' = lastId
  BY DEF ReadWatermark
<1>2. over' \in BOOLEAN
  BY DEF ReadWatermark, Past
<1>3. TypeOK'
  BY <1>1, <1>2 DEF IInv, TypeOK, store, consumer
<1>4. LogInv' /\ HeldInv'
  BY <1>1, ZenonT(30) DEF IInv, LogInv, RecordsLeaveOldestFirst, HeldInv, store, consumer
<1>5. ChanInv' /\ SentInv'
  BY <1>1, ZenonT(30) DEF IInv, ChanInv, SentInv, Active, Sent, store, consumer
<1>6. BatchInv'
  BY <1>1 DEF IInv, TypeOK, BatchInv, store
<1> QED
  BY <1>3, <1>4, <1>5, <1>6 DEF IInv

(* A listing has no gap.                                                   *)
LEMMA ListIInv ==
    ASSUME IInv, listAfter
    PROVE  IInv'
<1> DEFINE ids == FirstAfter(DOMAIN log, pos, BatchSize)
<1>1. /\ UNCHANGED <<clock, store, rng, end, pos, over, listed, chan, consumer>>
      /\ pc = "list" /\ pc' = "send"
      /\ batch' = [id \in ids |-> log[id]] /\ full' = (Cardinality(ids) = BatchSize)
  BY DEF listAfter, Keep, FirstAfter, Below
<1>2. /\ \A id \in ids, j \in DOMAIN log : pos < j /\ j < id => j \in ids
      /\ ~ full' => \A j \in DOMAIN log : pos < j => j \in ids
  <2>1. lastId \in Nat /\ DOMAIN log \subseteq 1 .. lastId /\ pos \in Nat /\ BatchSize \in Nat \ {0}
    BY DEF IInv, TypeOK
  <2> QED
    BY <1>1, <2>1, FirstAfterNoGap, ZenonT(30)
<1>3. ids \subseteq DOMAIN log /\ \A id \in ids : pos < id /\ id \in 1 .. lastId
  BY DEF FirstAfter, IInv, TypeOK
<1> HIDE DEF ids
<1>4. full' \in BOOLEAN
  BY <1>1
<1>5. TypeOK'
  BY <1>1, <1>4 DEF IInv, TypeOK, store, consumer
<1>6. LogInv' /\ HeldInv'
  BY <1>1, ZenonT(30) DEF IInv, LogInv, RecordsLeaveOldestFirst, HeldInv, store, consumer
<1>7. ChanInv' /\ SentInv'
  BY <1>1, ZenonT(30) DEF IInv, ChanInv, SentInv, Active, Sent, store, consumer
<1>8. BatchInv'
  <2>1. DOMAIN batch' = ids /\ \A id \in ids : batch'[id] = log[id]
    BY <1>1
  <2>2. \A id \in ids, j \in DOMAIN log : pos < j /\ j =< id => j \in ids
    <3>1. (\A id \in ids : id \in Int) /\ \A j \in DOMAIN log : j \in Int
      BY <1>3, SMTT(30) DEF IInv, TypeOK
    <3> QED
      BY <1>2, <3>1
  <2>3. listed' =< lastId'
    BY <1>1, ZenonT(30) DEF IInv, BatchInv, store
  <2> QED
    BY <1>1, <1>2, <1>3, <2>1, <2>2, <2>3 DEF BatchInv, store
<1> QED
  BY <1>5, <1>6, <1>7, <1>8 DEF IInv

(* Where the elements of an appended sequence are. *)
LEMMA AppendIndex ==
    ASSUME NEW S, NEW s \in Seq(S), NEW e \in S
    PROVE  /\ Append(s, e)[Len(s) + 1] = e
           /\ \A i \in 1 .. Len(s) : Append(s, e)[i] = s[i]
  OBVIOUS

(* A message sent at the reader's position comes after all the others.     *)
LEMMA AppendMessage ==
    ASSUME IInv, Active, Active', NEW kind \in {"change", "heartbeat"}, NEW id \in 0 .. MaxId,
           pos =< id, kind = "change" => pos < id, pos' = id, id =< lastId,
           chan' = Append(chan, <<kind, id>>), UNCHANGED <<lastId, consumer>>
    PROVE  /\ ChanInv'
           /\ \A i \in DOMAIN chan' : chan'[i][2] = id \/ (i \in DOMAIN chan /\ chan'[i] = chan[i])
           /\ Sent \subseteq Sent'
           /\ kind = "change" /\ id \in Ids => id \in Sent'
<1> DEFINE m == <<kind, id>>
<1> DEFINE n == Len(chan) + 1
<1>1. chan \in Seq(Messages) /\ m \in Messages /\ m[1] = kind /\ m[2] = id
  BY DEF IInv, ChanInv, Messages
<1>2. /\ chan' \in Seq(Messages) /\ n \in DOMAIN chan' /\ chan'[n] = m
      /\ \A i \in DOMAIN chan' : i \in Int /\ (i = n \/ (i < n /\ i \in DOMAIN chan /\ chan'[i] = chan[i]))
      /\ \A i \in DOMAIN chan : i \in DOMAIN chan' /\ chan'[i] = chan[i]
  <2>1. chan' = Append(chan, m)
    BY DEF m
  <2> HIDE DEF m
  <2>2. chan' \in Seq(Messages) /\ Len(chan') = n /\ Len(chan) \in Nat
    BY <1>1, <2>1, AppendProperties, SMTT(30)
  <2>3. DOMAIN chan' = 1 .. n /\ DOMAIN chan = 1 .. Len(chan)
    BY <1>1, <2>2
  <2>4. chan'[n] = m /\ \A i \in 1 .. Len(chan) : chan'[i] = chan[i]
    <3>1. /\ Append(chan, m)[Len(chan) + 1] = m
          /\ \A i \in 1 .. Len(chan) : Append(chan, m)[i] = chan[i]
      BY <1>1, AppendIndex
    <3> QED
      BY <2>1, <3>1, ZenonT(30)
  <2> QED
    BY <2>2, <2>3, <2>4
<1>3. /\ \A i \in DOMAIN chan : chan[i][2] \in Int /\ chan[i][2] =< pos
      /\ \A t \in tokens : t \in Int /\ t =< pos
      /\ pos \in Int /\ id \in Int
  <2>1. \A i \in DOMAIN chan : chan[i][2] \in Int
    BY <1>1 DEF Messages
  <2> QED
    BY <2>1 DEF IInv, TypeOK, ChanInv, SentInv
<1> HIDE DEF m, n
<1>4. \A i \in DOMAIN chan' : chan'[i][2] =< id /\ chan'[i][2] =< lastId
  <2>1. \A i \in DOMAIN chan : chan[i][2] =< lastId
    BY DEF IInv, ChanInv
  <2> QED
    BY <1>1, <1>2, <1>3, <2>1
<1>5. ASSUME NEW i \in DOMAIN chan', NEW j \in DOMAIN chan', i < j
      PROVE  chan'[i][2] =< chan'[j][2] /\ (chan'[j][1] = "change" => chan'[i][2] < chan'[j][2])
  <2>1. i \in DOMAIN chan /\ chan'[i] = chan[i]
    BY <1>2, <1>5
  <2>2. CASE j = n
    BY <1>1, <1>2, <1>3, <2>1, <2>2
  <2>3. CASE j \in DOMAIN chan /\ chan'[j] = chan[j]
    BY <1>5, <2>1, <2>3 DEF IInv, ChanInv
  <2> QED
    BY <1>2, <2>2, <2>3
<1>6. ASSUME NEW i \in DOMAIN chan', NEW t \in tokens
      PROVE  t =< chan'[i][2] /\ (chan'[i][1] = "change" => t < chan'[i][2])
  <2>2. CASE i = n
    BY <1>1, <1>2, <1>3, <2>2
  <2>3. CASE i \in DOMAIN chan /\ chan'[i] = chan[i]
    BY <2>3 DEF IInv, ChanInv
  <2> QED
    BY <1>2, <2>2, <2>3
<1>7. ChanInv'
  <2>1. ~ (pc' \in {"off", "opened"})
    BY DEF Active
  <2> QED
    BY <1>2, <1>4, <1>5, <1>6, <2>1, ZenonT(30) DEF ChanInv, consumer
<1>8. Sent \subseteq Sent'
  BY <1>2, ZenonT(30) DEF Sent, consumer
<1>9. kind = "change" /\ id \in Ids => id \in Sent'
  BY <1>2 DEF Sent, m
<1> QED
  BY <1>1, <1>2, <1>7, <1>8, <1>9, ZenonT(30)

(* At the end of a batch the reader may send a heartbeat and polls again.   *)
LEMMA EndBatchIInv ==
    ASSUME IInv, EndBatch
    PROVE  IInv'
<1>1. /\ UNCHANGED <<clock, store, rng, end, pos, batch, consumer>>
      /\ pc = "send" /\ pc' = "poll" /\ over' = FALSE /\ full' = FALSE /\ listed' = 0
      /\ \/ chan' = chan
         \/ Len(chan) < MaxSent /\ chan' = Append(chan, <<"heartbeat", pos>>)
  BY DEF EndBatch
<1>2. /\ ChanInv' /\ Sent \subseteq Sent' /\ Len(chan') =< MaxSent
      /\ \A i \in DOMAIN chan' : chan'[i][2] = pos \/ (i \in DOMAIN chan /\ chan'[i] = chan[i])
  <2>1. CASE chan' = chan
    BY <1>1, <2>1 DEF IInv, TypeOK, ChanInv, Active, Sent, store, consumer
  <2>2. CASE Len(chan) < MaxSent /\ chan' = Append(chan, <<"heartbeat", pos>>)
    <3>1. /\ pos \in 0 .. MaxId /\ pos' = pos /\ Active /\ Active' /\ pos =< pos
          /\ pos =< lastId /\ lastId' = lastId
      BY <1>1 DEF IInv, TypeOK, LogInv, Active, store
    <3>2. chan \in Seq(Messages) /\ <<"heartbeat", pos>> \in Messages
      BY <3>1 DEF IInv, ChanInv, Messages
    <3>3. Len(chan') = Len(chan) + 1 /\ Len(chan) \in Nat
      BY <2>2, <3>2
    <3> QED
      BY <1>1, <2>2, <3>1, <3>3, AppendMessage
  <2> QED
    BY <1>1, <2>1, <2>2
<1>3. TypeOK'
  <2>1. over' \in BOOLEAN /\ full' \in BOOLEAN
    BY <1>1, Zenon
  <2>2. listed' \in 0 .. MaxId
    BY <1>1
  <2> QED
    BY <1>1, <1>2, <2>1, <2>2, ZenonT(30) DEF IInv, TypeOK, store, consumer
<1>4. LogInv' /\ HeldInv'
  BY <1>1, ZenonT(30) DEF IInv, LogInv, RecordsLeaveOldestFirst, HeldInv, store, consumer
<1>5. SentInv'
  BY <1>1, <1>2, ZenonT(30) DEF IInv, SentInv, Active, store, consumer
<1>6. BatchInv'
  BY <1>1 DEF BatchInv
<1> QED
  BY <1>2, <1>3, <1>4, <1>5, <1>6 DEF IInv

(* The record handled next is the first of the batch.                      *)
LEMMA SendIInv ==
    ASSUME IInv, SendChange
    PROVE  IInv'
<1> DEFINE id == Min(DOMAIN batch)
<1>1. /\ UNCHANGED <<clock, store, pc, rng, end, over, full, listed, consumer>>
      /\ pc = "send" /\ DOMAIN batch # {} /\ pos' = id
      /\ batch' = [i \in DOMAIN batch \ {id} |-> batch[i]]
      /\ \/ batch[id].key \notin rng /\ chan' = chan
         \/ /\ batch[id].key \in rng /\ Len(chan) < MaxSent
            /\ chan' = Append(chan, <<"change", id>>)
  BY DEF SendChange
<1>2. /\ id \in DOMAIN batch /\ \A i \in DOMAIN batch : id =< i
      /\ id \in 1 .. lastId /\ id \in 1 .. MaxId /\ pos < id
  <2>1. DOMAIN batch \subseteq Nat
    BY <1>1 DEF IInv, BatchInv
  <2>2. id \in DOMAIN batch /\ \A i \in DOMAIN batch : id =< i
    BY <1>1, <2>1, MinOfNaturals, ZenonT(30)
  <2> HIDE DEF id
  <2> QED
    BY <1>1, <2>2 DEF IInv, BatchInv, TypeOK
<1> HIDE DEF id
<1>3. LogInv' /\ HeldInv'
  <2>1. pos' =< lastId
    BY <1>1, <1>2 DEF IInv, LogInv
  <2> QED
    BY <1>1, <2>1, ZenonT(30) DEF IInv, LogInv, RecordsLeaveOldestFirst, HeldInv, store, consumer
<1>4. pos \in Int /\ pos =< id /\ id \in 0 .. MaxId /\ id \in Ids /\ id =< lastId /\ lastId' = lastId
  BY <1>1, <1>2 DEF IInv, TypeOK, Ids, store
<1>5. /\ ChanInv' /\ Sent \subseteq Sent' /\ Len(chan') =< MaxSent
      /\ batch[id].key \in rng => id \in Sent'
      /\ \A i \in DOMAIN chan' : chan'[i][2] = id \/ (i \in DOMAIN chan /\ chan'[i] = chan[i])
  <2>1. CASE batch[id].key \notin rng /\ chan' = chan
    <3>1. \A i \in DOMAIN chan : chan[i][2] \in Int
      BY DEF IInv, ChanInv, Messages
    <3>2. \A i \in DOMAIN chan : chan[i][2] =< id
      BY <1>1, <1>4, <3>1 DEF IInv, ChanInv, Active
    <3> QED
      BY <1>1, <1>4, <2>1, <3>2, ZenonT(30) DEF IInv, TypeOK, ChanInv, Active, Sent, consumer
  <2>2. CASE /\ batch[id].key \in rng /\ Len(chan) < MaxSent
             /\ chan' = Append(chan, <<"change", id>>)
    <3>1. chan \in Seq(Messages) /\ <<"change", id>> \in Messages
      BY <1>4 DEF IInv, ChanInv, Messages
    <3>2. Len(chan') = Len(chan) + 1 /\ Len(chan) \in Nat
      BY <2>2, <3>1
    <3>3. Active /\ Active'
      BY <1>1, ZenonT(30) DEF Active
    <3>4. UNCHANGED <<lastId, consumer>>
      BY <1>1, <1>4, Zenon DEF consumer
    <3>5. /\ ChanInv' /\ Sent \subseteq Sent' /\ ("change" = "change" /\ id \in Ids => id \in Sent')
          /\ \A i \in DOMAIN chan' : chan'[i][2] = id \/ (i \in DOMAIN chan /\ chan'[i] = chan[i])
      BY <1>1, <1>2, <1>4, <2>2, <3>3, <3>4, AppendMessage, ZenonT(30)
    <3>6. Len(chan') =< MaxSent
      BY <2>2, <3>2
    <3> QED
      BY <1>4, <3>5, <3>6
  <2> QED
    BY <1>1, <2>1, <2>2, ZenonT(30)
<1>6. TypeOK'
  BY <1>1, <1>4, <1>5, ZenonT(30) DEF IInv, TypeOK, store, consumer
<1>7. \A j \in DOMAIN log : j \in Int /\ (pos < j /\ j =< id => j = id)
  <2>1. \A j \in DOMAIN log : pos < j /\ j =< id => j \in DOMAIN batch
    BY <1>1, <1>2 DEF IInv, BatchInv
  <2> QED
    BY <1>2, <2>1 DEF IInv, TypeOK
<1>8. SentInv'
  <2>1. rng = origin.rng /\ \A t \in tokens : t \in Int /\ t =< pos
    BY <1>1 DEF IInv, TypeOK, SentInv, Active
  <2>2. \A t \in tokens : t =< id
    BY <1>4, <2>1
  <2>3. ASSUME NEW j \in DOMAIN log, log[j].key \in rng, origin.after < j, j =< id
        PROVE  j \in Sent'
    <3>1. CASE j =< pos
      BY <1>1, <1>5, <2>3, <3>1, ZenonT(30) DEF IInv, SentInv, Active
    <3>2. CASE j = id
      BY <1>1, <1>2, <1>5, <2>3, <3>2, ZenonT(30) DEF IInv, BatchInv
    <3> QED
      BY <1>4, <1>7, <2>3, <3>1, <3>2
  <2>4. ASSUME NEW j \in DOMAIN log, NEW i \in DOMAIN chan',
               log[j].key \in origin.rng, origin.after < j, j =< chan'[i][2]
        PROVE  j \in Sent'
    BY <1>5, <2>1, <2>3, <2>4, ZenonT(30) DEF IInv, SentInv
  <2> QED
    BY <1>1, <2>1, <2>2, <2>3, <2>4, ZenonT(30) DEF SentInv, store, consumer
<1>9. BatchInv'
  <2>1. DOMAIN batch' = DOMAIN batch \ {id} /\ \A i \in DOMAIN batch' : batch'[i] = batch[i]
    BY <1>1
  <2>2. \A i \in DOMAIN batch \ {id} : i \in 1 .. lastId /\ id < i /\ (i \in DOMAIN log => batch[i] = log[i])
    BY <1>1, <1>2 DEF IInv, BatchInv
  <2>3. \A j \in DOMAIN log : id < j => pos < j /\ j # id
    BY <1>2, <1>4, <1>7
  <2> QED
    BY <1>1, <2>1, <2>2, <2>3 DEF IInv, BatchInv, store
<1> QED
  BY <1>3, <1>5, <1>6, <1>8, <1>9, ZenonT(30) DEF IInv

(* The message received next is the one after all the consumer holds.      *)
LEMMA ReceiveIInv ==
    ASSUME IInv, Receive
    PROVE  IInv'
<1> DEFINE kind == Head(chan)[1]
           id == Head(chan)[2]
<1>1. /\ UNCHANGED <<clock, store, server, origin>>
      /\ chan # << >> /\ chan' = Tail(chan)
      /\ got' = IF kind = "change" THEN got \cup {id} ELSE got
      /\ inOrder' = (inOrder /\ (kind = "change" => \A held \in got : held < id))
      /\ tokens' = tokens \cup {id}
  BY DEF Receive
<1>2. chan \in Seq(Messages) /\ ~ (pc \in {"off", "opened"})
  BY <1>1 DEF IInv, ChanInv
<1>3. /\ 1 \in DOMAIN chan /\ chan[1] = <<kind, id>> /\ kind \in {"change", "heartbeat"}
      /\ id \in 0 .. MaxId /\ chan[1][1] = kind /\ chan[1][2] = id
  <2>1. Head(chan) = chan[1] /\ Head(chan) \in Messages /\ 1 \in DOMAIN chan
    BY <1>1, <1>2
  <2> QED
    BY <2>1 DEF Messages
<1> HIDE DEF kind, id
<1>4. /\ chan' \in Seq(Messages) /\ Len(chan') = Len(chan) - 1 /\ Len(chan) \in Nat
      /\ \A i \in DOMAIN chan' : i + 1 \in DOMAIN chan /\ chan'[i] = chan[i + 1] /\ 1 < i + 1 /\ i \in Int
  <2>1. /\ chan' \in Seq(Messages) /\ Len(chan') = Len(chan) - 1
        /\ \A i \in 1 .. Len(chan') : chan'[i] = chan[i + 1]
    BY <1>1, <1>2, HeadTailProperties
  <2>2. DOMAIN chan = 1 .. Len(chan) /\ Len(chan) \in Nat /\ DOMAIN chan' = 1 .. Len(chan')
    BY <1>2, <2>1
  <2> QED
    BY <2>1, <2>2
<1>5. /\ \A t \in tokens : t \in Int /\ t =< id /\ (kind = "change" => t < id)
      /\ id =< lastId /\ (Active => id =< pos) /\ pos \in Int
      /\ \A i \in DOMAIN chan : i > 1 =>
           id =< chan[i][2] /\ (chan[i][1] = "change" => id < chan[i][2])
  BY <1>3 DEF IInv, TypeOK, ChanInv
<1>6. \A i \in DOMAIN chan : chan[i][2] \in Int /\ i \in Int
  BY <1>2 DEF Messages
<1>7. TypeOK'
  BY <1>1, <1>3, <1>4, SMTT(30) DEF IInv, TypeOK, store, server
<1>8. LogInv'
  BY <1>1, <1>5, ZenonT(30) DEF IInv, LogInv, RecordsLeaveOldestFirst, store, server
<1>9. ChanInv'
  <2>1. \A i \in DOMAIN chan' : chan'[i][2] =< lastId /\ (Active => chan'[i][2] =< pos)
    BY <1>4 DEF IInv, ChanInv
  <2>2. ASSUME NEW i \in DOMAIN chan', NEW j \in DOMAIN chan', i < j
        PROVE  chan'[i][2] =< chan'[j][2] /\ (chan'[j][1] = "change" => chan'[i][2] < chan'[j][2])
    <3>1. i + 1 < j + 1
      BY <1>4, <2>2
    <3> QED
      BY <1>4, <3>1 DEF IInv, ChanInv
  <2>3. ASSUME NEW i \in DOMAIN chan', NEW t \in tokens'
        PROVE  t =< chan'[i][2] /\ (chan'[i][1] = "change" => t < chan'[i][2])
    <3>1. CASE t \in tokens
      BY <1>4, <3>1, ZenonT(30) DEF IInv, ChanInv
    <3>2. CASE t = id
      BY <1>4, <1>5, <3>2
    <3> QED
      BY <1>1, <3>1, <3>2, ZenonT(30)
  <2>4. UNCHANGED <<pc, pos, lastId>> /\ Active' = Active
    BY <1>1 DEF Active, server, store
  <2> QED
    BY <1>2, <1>4, <2>1, <2>2, <2>3, <2>4, ZenonT(30) DEF ChanInv
<1>10. HeldInv'
  <2>1. inOrder' = TRUE
    BY <1>1, <1>5, ZenonT(30) DEF IInv, HeldInv
  <2>2. got' \subseteq tokens' /\ got \subseteq got' /\ (kind = "change" => id \in got')
    BY <1>1 DEF IInv, HeldInv
  <2>3. ASSUME NEW j \in DOMAIN log, log[j].key \in origin.rng, origin.after < j, j =< id
        PROVE  j \in got'
    <3>1. j \in Int
      BY DEF IInv, TypeOK
    <3>2. j \in Sent
      BY <1>3, <2>3 DEF IInv, SentInv
    <3>3. CASE j \in got
      BY <2>2, <3>3
    <3>4. ASSUME NEW i \in DOMAIN chan, chan[i] = <<"change", j>>
          PROVE  j \in got'
      <4>1. chan[i][1] = "change" /\ chan[i][2] = j
        BY <3>4
      <4>2. ~ (i > 1)
        BY <1>3, <1>5, <2>3, <3>1, <4>1, SMTT(30)
      <4>3. i = 1
        BY <1>2, <1>6, <4>2
      <4> QED
        BY <1>3, <2>2, <4>1, <4>3
    <3> QED
      BY <3>2, <3>3, <3>4 DEF Sent
  <2>4. ASSUME NEW j \in DOMAIN log, NEW t \in tokens',
               log[j].key \in origin.rng, origin.after < j, j =< t
        PROVE  j \in got'
    BY <1>1, <2>2, <2>3, <2>4, ZenonT(30) DEF IInv, HeldInv
  <2> QED
    BY <1>1, <2>1, <2>2, <2>4, ZenonT(30) DEF HeldInv, store
<1>11. SentInv'
  <2>1. Sent \subseteq Sent'
    <3>1. ASSUME NEW j \in Ids, NEW i \in DOMAIN chan, chan[i] = <<"change", j>>
          PROVE  j \in Sent'
      <4>1. CASE i = 1
        <5>1. kind = "change" /\ id = j
          BY <1>3, <3>1, <4>1
        <5> QED
          BY <1>1, <5>1 DEF Sent
      <4>2. CASE i # 1
        <5>1. i - 1 \in DOMAIN chan' /\ chan'[i - 1] = chan[i]
          BY <1>1, <1>2, <1>4, <4>2, HeadTailProperties
        <5> QED
          BY <3>1, <5>1 DEF Sent
      <4> QED
        BY <4>1, <4>2, ZenonT(30)
    <3>2. got \subseteq Sent'
      BY <1>1, ZenonT(30) DEF Sent
    <3> QED
      BY <3>1, <3>2 DEF Sent
  <2>2. UNCHANGED <<log, pc, pos, rng, origin>> /\ Active' = Active
    BY <1>1 DEF Active, server, store
  <2>3. Active => \A t \in tokens' : t =< pos
    BY <1>1, <1>5, ZenonT(30) DEF IInv, SentInv
  <2>4. ASSUME NEW j \in DOMAIN log, NEW i \in DOMAIN chan',
               log[j].key \in origin.rng, origin.after < j, j =< chan'[i][2]
        PROVE  j \in Sent'
    BY <1>4, <2>1, <2>4, ZenonT(30) DEF IInv, SentInv
  <2> QED
    BY <2>1, <2>2, <2>3, <2>4, ZenonT(30) DEF IInv, SentInv
<1>12. BatchInv'
  BY <1>1 DEF IInv, BatchInv, store, server
<1> QED
  BY <1>7, <1>8, <1>9, <1>10, <1>11, <1>12, ZenonT(30) DEF IInv

-----------------------------------------------------------------------------
(* The theorems. *)

(* Every step preserves the invariant. *)
LEMMA NextIInv == ASSUME IInv, [Next]_vars PROVE IInv'
<1>1. CASE Next
  <2>1. CASE \/ BeginCommit \/ Abort \/ readRetention \/ Tick
             \/ \E r \in Retentions \cup {0} : UpdateTable(r)
    BY <2>1, QuietIInv
  <2>2. CASE \E key \in Keys, n \in 1 .. 2 : Commit(key, n)
    BY <2>2, CommitIInv
  <2>3. CASE purgeTable \/ purgeBefore
    BY <2>3, PurgeIInv
  <2>4. CASE \/ \E range \in Ranges, et \in EndTimes : OpenStream(range, et)
             \/ RefuseStart \/ ReceiveClose \/ Disconnect \/ Crash
             \/ CloseAtRecord \/ CloseAtEnd
    BY <2>4, IdleIInv
  <2>5. CASE \E toks \in SUBSET tokens : StartAtTokens(toks)
    BY <2>5, ResumeIInv
  <2>6. CASE StartNow \/ \E at \in 0 .. MaxTime : StartAtTime(at)
    BY <2>6, SubscribeIInv
  <2>7. CASE ReadWatermark \/ listAfter \/ SendChange \/ EndBatch
    BY <2>7, WatermarkIInv, ListIInv, SendIInv, EndBatchIInv
  <2>8. CASE Receive
    BY <2>8, ReceiveIInv
  <2> QED
    BY <1>1, <2>1, <2>2, <2>3, <2>4, <2>5, <2>6, <2>7, <2>8, ZenonT(30) DEF Next, Admin, Writer, Open, Serve
<1>2. CASE UNCHANGED vars
  <2> USE <1>2 DEF vars, store, server, consumer
  <2>1. TypeOK' /\ LogInv'
    BY ZenonT(40) DEF IInv, TypeOK, LogInv, RecordsLeaveOldestFirst
  <2>2. ChanInv' /\ HeldInv'
    BY ZenonT(40) DEF IInv, ChanInv, HeldInv, Active
  <2>3. SentInv' /\ BatchInv'
    BY ZenonT(40) DEF IInv, SentInv, BatchInv, Active, Sent
  <2> QED
    BY <2>1, <2>2, <2>3, ZenonT(30) DEF IInv
<1> QED
  BY <1>1, <1>2

(* The invariant holds in every reachable state. *)
LEMMA StreamInvariant == Spec => []IInv
  BY InitIInv, NextIInv, PTL DEF Spec

(* What the consumer holds, and where a start time puts a reader.          *)
LEMMA IInvExactlyOnce == IInv => ExactlyOnce
<1> SUFFICES ASSUME IInv PROVE ExactlyOnce
  OBVIOUS
<1>1. lastId \in Nat /\ DOMAIN log \subseteq 1 .. lastId /\ DOMAIN log \subseteq 0 .. lastId
  BY DEF IInv, TypeOK
<1>2. ASSUME NEW id \in DOMAIN log, log[id].key \in origin.rng, origin.after < id, id =< Position
      PROVE  id \in got
  <2>1. CASE tokens = {}
    BY <1>1, <1>2, <2>1 DEF Position, IInv, TypeOK
  <2>2. CASE tokens # {}
    <3>1. Max(tokens) \in tokens
      BY <2>2, MaxOfBounded, ZenonT(30) DEF IInv, TypeOK
    <3> QED
      BY <1>2, <2>2, <3>1 DEF Position, IInv, HeldInv
  <2> QED
    BY <2>1, <2>2, ZenonT(30)
<1>3. ASSUME NEW id \in DOMAIN log
      PROVE  lastIDBefore(log[id].at) < id
  <2> DEFINE S == {i \in DOMAIN log : log[i].at < log[id].at}
  <2>1. lastIDBefore(log[id].at) = Largest(S)
    BY DEF lastIDBefore
  <2>2. S \subseteq 0 .. lastId /\ \A i \in S : i \in DOMAIN log /\ log[i].at < log[id].at
    BY <1>1
  <2> HIDE DEF S
  <2>3. CASE S = {}
    BY <1>1, <2>1, <2>3 DEF Largest
  <2>4. CASE S # {}
    <3>1. Max(S) \in S
      BY <1>1, <2>2, <2>4, MaxOfBounded, ZenonT(30)
    <3>2. ~ (id < Max(S)) /\ id # Max(S) /\ Max(S) \in Int /\ id \in Int
      <4>1. /\ Max(S) \in DOMAIN log /\ log[Max(S)].at < log[id].at
            /\ log[Max(S)].at \in Int /\ log[id].at \in Int
        <5>1. \A i \in DOMAIN log : log[i].at \in Int
          BY DEF IInv, TypeOK
        <5> QED
          BY <2>2, <3>1, <5>1, ZenonT(30)
      <4>2. id < Max(S) => log[id].at =< log[Max(S)].at
        BY <4>1 DEF IInv, LogInv
      <4> QED
        <5>1. ~ (id < Max(S)) /\ id # Max(S)
          BY <4>1, <4>2
        <5> QED
          BY <1>1, <4>1, <5>1
    <3> QED
      BY <2>1, <2>4, <3>2 DEF Largest
  <2> QED
    BY <2>3, <2>4
<1> QED
  BY <1>2, <1>3 DEF ExactlyOnce, IInv, HeldInv

(* For every batch size, retention and schedule of commits, purges and     *)
(* disconnections, a consumer of ReadChangeStream that resumes from its    *)
(* tokens holds each change of its partition once, in commit order, and    *)
(* has passed over none that is still stored.                              *)
THEOREM StreamExactlyOnce == Spec => [](TypeOK /\ ExactlyOnce)
<1>1. IInv => TypeOK /\ ExactlyOnce
  BY IInvExactlyOnce DEF IInv
<1> QED
  BY <1>1, StreamInvariant, PTL

(* When ReadChangeStream may send a heartbeat, all that was committed to   *)
(* the partition before it read the watermark has been sent.               *)
THEOREM HeartbeatsCover == Spec => []HeartbeatCoversCommitted
<1>1. IInv => HeartbeatCoversCommitted
  <2> SUFFICES ASSUME IInv, pc = "send", DOMAIN batch = {}, ~ full, NEW id \in DOMAIN log,
                      id =< listed, id > origin.after, log[id].key \in rng
               PROVE  id \in Sent
    BY DEF HeartbeatCoversCommitted
  <2>1. id \in Int /\ pos \in Int
    BY DEF IInv, TypeOK
  <2>2. ~ (pos < id)
    BY DEF IInv, BatchInv
  <2> QED
    BY <2>1, <2>2 DEF IInv, SentInv, Active
<1> QED
  BY <1>1, StreamInvariant, PTL

(* For every batch size, retention and schedule of commits, purges and     *)
(* changes of the retention, the records that remain in change_stream_t    *)
(* are the newest ones, without a hole: a purge that comes late, or that   *)
(* goes by a retention since replaced, removes no record after one that it *)
(* keeps.                                                                  *)
THEOREM OldestLeaveFirst == Spec => []RecordsLeaveOldestFirst
<1>1. IInv => RecordsLeaveOldestFirst
  BY DEF IInv, LogInv
<1> QED
  BY <1>1, StreamInvariant, PTL
=============================================================================
