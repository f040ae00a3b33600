---------------------------- MODULE RowMutation ----------------------------
(***************************************************************************)
(* The write path of one row: validation, application and garbage          *)
(* collection of mutations (mutation_engine.go, inmem.go), the four write  *)
(* requests (data_write.go), and the change records each commit leaves for *)
(* the change stream.                                                      *)
(*                                                                         *)
(* A row is a function from cell addresses <<family, column, timestamp>>   *)
(* to values: cells of one column have distinct timestamps and are kept in *)
(* descending order, so the position of a cell is the number of newer      *)
(* ones.  A value is <<"int", n>> (8 bytes), <<"text", 0>> (any other      *)
(* length) or <<"hll", S>> (a sketch, by what it has counted).  Time is    *)
(* counted in units of which Milli make a millisecond.                     *)
(***************************************************************************)
EXTENDS Integers, Sequences, FiniteSets, FiniteSetsExt, Functions

CONSTANTS
    FamOrder,       \* the table's families, in creation order
    Kinds,          \* aggregate kind of each family, "none" for plain ones
    Cols,           \* column qualifiers
    Milli,          \* clock units in a millisecond
    Width,          \* bits of an integer value
    MaxTime,        \* bound on the clock
    Rules,          \* GC rules a family may have
    Nested,         \* GC rules that occur in others
    Depth,          \* how deep a rule is nested
    MaxDepth,       \* bound on it: a rule has at most 500 bytes
    MutationLists,  \* mutation lists clients send
    Batches,        \* pairs of them that form a batch or a conditional write
    RuleLists       \* rule lists of ReadModifyWriteRow

VARIABLES
    micros,         \* the table's granularity is MICROS
    rules,          \* GC rule of each family
    clock,          \* server time
    row,            \* the stored row
    mirror,         \* the row a consumer of the change stream has built
    inexact         \* families with a collection the records only approximate

vars == <<micros, rules, clock, row, mirror, inexact>>

Fams == {FamOrder[i] : i \in DOMAIN FamOrder}
NoRow == << >>
NoRule == [kind |-> "nothing"]
With(r, at, value) == [a \in DOMAIN r \cup {at} |-> IF a = at THEN value ELSE r[a]]
Without(r, addresses) == [a \in DOMAIN r \ addresses |-> r[a]]
Listing(S) == CHOOSE s \in Bijection(1 .. Cardinality(S), S) : TRUE
Stamps(r, fam, col) == {a[3] : a \in {b \in DOMAIN r : b[1] = fam /\ b[2] = col}}

-----------------------------------------------------------------------------
(* Timestamps and validation.                                               *)

newTimestampOfClock == clock

newTimestamp == clock - (clock % Milli)

valid(ts) == ts >= 0 /\ (micros \/ ts % Milli = 0)

\* -1 asks for the server's time; a client library's own time is truncated.
resolve(ts, auto, now) ==
    CASE ts = -1 -> now
      [] auto /\ ~micros /\ ts >= 0 -> ts - (ts % Milli)
      [] OTHER -> ts

\* The values a cell of a family holds.
ValueOf(kind) == IF kind = "hll" THEN {"hll"} ELSE IF kind = "none" THEN {"int", "text"} ELSE {"int"}

validateMutation(m) ==
    CASE m.op = "set" -> /\ m.fam \in Fams
                         /\ Kinds[m.fam] = "none"
                         /\ valid(resolve(m.ts, m.auto, 0))
      [] m.op = "delCol" -> /\ m.fam \in Fams
                            /\ valid(m.from)
                            /\ m.to # 0 => valid(m.to) /\ m.from < m.to
      [] m.op = "delFam" -> m.fam \in Fams
      [] m.op = "delRow" -> TRUE
      [] m.op = "add" -> /\ m.fam \in Fams
                         /\ Kinds[m.fam] # "none"
                         /\ m.ts # -1
                         /\ valid(resolve(m.ts, m.auto, 0))
                         /\ m.val[1] \in ValueOf(Kinds[m.fam])

validateMutations(ms) ==
    ms # << >> /\ \A i \in DOMAIN ms : validateMutation(ms[i])

-----------------------------------------------------------------------------
(* Applying mutations.                                                      *)

\* Addition of 64-bit integers wraps around.
Wrap(n) == ((n + 2^(Width - 1)) % 2^Width) - 2^(Width - 1)

\* A cell of an aggregate family absorbs the input of AddToCell, or the
\* partial aggregate of MergeToCell.
combine(kind, old, in) ==
    CASE kind = "sum" -> <<"int", Wrap(old[2] + in[2])>>
      [] kind = "min" -> <<"int", IF in[2] < old[2] THEN in[2] ELSE old[2]>>
      [] kind = "max" -> <<"int", IF in[2] > old[2] THEN in[2] ELSE old[2]>>
      [] kind = "hll" -> <<"hll", old[2] \cup in[2]>>

applyAggregate(r, m) ==
    LET at == <<m.fam, m.col, resolve(m.ts, m.auto, 0)>>
    IN With(r, at, IF at \in DOMAIN r THEN combine(Kinds[m.fam], r[at], m.val) ELSE m.val)

deleteFromColumn(r, m) ==
    Without(r, {a \in DOMAIN r : /\ a[1] = m.fam /\ a[2] = m.col
                                 /\ a[3] >= m.from
                                 /\ m.to = 0 \/ a[3] < m.to})

deleteFromFamily(r, fam) == Without(r, {a \in DOMAIN r : a[1] = fam})

sortedFamilies(r) ==
    LET sorted[i \in 0 .. Len(FamOrder)] ==
          CASE i = 0 -> << >>
            [] i # 0 /\ (\E a \in DOMAIN r : a[1] = FamOrder[i]) -> Append(sorted[i - 1], FamOrder[i])
            [] OTHER -> sorted[i - 1]
    IN sorted[Len(FamOrder)]

changesUnresolved(r, m, now) == <<m>>

\* The changes recorded for a mutation: timestamps are resolved, a row
\* deletion becomes one deletion per family.
changesOf(r, m, now) ==
    CASE m.op = "set" ->
           <<[m EXCEPT !.ts = resolve(m.ts, m.auto, now), !.auto = FALSE]>>
      [] m.op = "delRow" ->
           LET fs == sortedFamilies(r)
           IN [i \in DOMAIN fs |-> [op |-> "delFam", fam |-> fs[i]]]
      [] OTHER -> <<m>>

applyMutation(r, m, now) ==
    CASE m.op = "set" -> With(r, <<m.fam, m.col, resolve(m.ts, m.auto, now)>>, m.val)
      [] m.op = "delCol" -> deleteFromColumn(r, m)
      [] m.op = "delFam" -> deleteFromFamily(r, m.fam)
      [] m.op = "delRow" -> NoRow
      [] m.op = "add" -> applyAggregate(r, m)

\* The row and the recorded changes, after one more mutation.
applyOne(done, m, now) ==
    [row |-> applyMutation(done.row, m, now),
     changes |-> done.changes \o changesOf(done.row, m, now)]

applyMutations(r, ms, now) ==
    LET done[i \in 0 .. Len(ms)] ==
          IF i = 0 THEN [row |-> r, changes |-> << >>] ELSE applyOne(done[i - 1], ms[i], now)
    IN done[Len(ms)]

-----------------------------------------------------------------------------
(* Garbage collection.                                                      *)

AllRules == Rules \cup Nested

\* The rules ModifyColumnFamilies and CreateTable accept.
validateGCRule(rule) ==
    \/ rule.kind = "nothing"
    \/ rule.kind = "versions" /\ rule.n \in Nat /\ rule.n >= 1
    \/ rule.kind = "age" /\ rule.n \in Nat /\ rule.n >= Milli
    \/ /\ rule.kind \in {"union", "intersection"}
       /\ \A sub \in rule.subs : sub \in AllRules /\ Depth[sub] < Depth[rule]

surplusAscending(stamps, n) == {t \in stamps : Cardinality({u \in stamps : u < t}) >= n}

\* The timestamps beyond the n newest.
surplus(stamps, n) == {t \in stamps : Cardinality({u \in stamps : u > t}) >= n}

\* The timestamps of a column that a rule deletes, from what its children
\* delete.
ruleDeletes(deletes, stamps, r, now) ==
    CASE r.kind = "versions" -> surplus(stamps, r.n)
      [] r.kind = "age" -> {t \in stamps : t < now - r.n}
      [] r.kind = "union" -> UNION {deletes[sub] : sub \in r.subs}
      [] r.kind = "intersection" ->
           {t \in stamps : r.subs # {} /\ \A sub \in r.subs : t \in deletes[sub]}
      [] r.kind = "nothing" -> {}

gcDeletes(stamps, rule, now) ==
    LET deletes[r \in AllRules] == ruleDeletes(deletes, stamps, r, now)
    IN deletes[rule]

Collectable(r, now) ==
    {a \in DOMAIN r : a[3] \in gcDeletes(Stamps(r, a[1], a[2]), rules[a[1]], now)}

gc(r, now) == Without(r, Collectable(r, now))

\* One deletion of a millisecond per collected cell.
gcChanges(r, now) ==
    LET cells == Listing(Collectable(r, now))
    IN [i \in DOMAIN cells |->
          [op |-> "delCol", fam |-> cells[i][1], col |-> cells[i][2],
           from |-> cells[i][3], to |-> cells[i][3] + Milli]]

-----------------------------------------------------------------------------
(* Staging and committing.                                                  *)

Unstaged(r) == [row |-> r, user |-> << >>, gc |-> << >>]

\* stage: cells of families the table no longer has are dropped, then the
\* candidate is collected; the changes follow those staged before for the row.
stage(prev, applied) ==
    LET candidate == Without(applied.row, {a \in DOMAIN applied.row : a[1] \notin Fams})
    IN [row |-> gc(candidate, clock),
        user |-> prev.user \o applied.changes,
        gc |-> prev.gc \o gcChanges(candidate, clock)]

\* What a consumer that applies a record's changes in order arrives at.
Replay(r, changes) == applyMutations(r, changes, 0).row

\* writeCommits: the row, then a USER and a GARBAGE_COLLECTION record, in one
\* transaction.
persist(commit, twice) ==
    /\ row' = commit.row
    /\ mirror' = Replay(Replay(mirror, commit.user), commit.gc)
    /\ inexact' = inexact \cup
         IF micros \/ twice THEN {commit.gc[i].fam : i \in DOMAIN commit.gc} ELSE {}

MutateRow(ms) ==
    /\ validateMutations(ms)
    /\ persist(stage(Unstaged(row), applyMutations(row, ms, newTimestamp)), FALSE)
    /\ UNCHANGED <<micros, rules, clock>>

\* A batch of two entries for the row; an invalid entry is answered with its
\* error and staged changes of the other one stand.
MutateRows(ms1, ms2) ==
    LET Entry(commit, ms) ==
          IF validateMutations(ms)
          THEN stage(commit, applyMutations(commit.row, ms, newTimestamp))
          ELSE commit
    IN /\ validateMutations(ms1) \/ validateMutations(ms2)
       /\ persist(Entry(Entry(Unstaged(row), ms1), ms2),
                  validateMutations(ms1) /\ validateMutations(ms2))
       /\ UNCHANGED <<micros, rules, clock>>

\* The predicate passes the cells of the families pred; {} stands for none,
\* which looks at the row as stored.  Only the selected branch is validated,
\* and a commit without changes is not written.
CheckAndMutateRow(pred, ifTrue, ifFalse) ==
    LET matched == IF pred = {} THEN DOMAIN row # {}
                   ELSE \E a \in DOMAIN gc(row, clock) : a[1] \in pred
        ms == IF matched THEN ifTrue ELSE ifFalse
        commit == stage(Unstaged(row), applyMutations(row, ms, newTimestamp))
    IN /\ validateMutations(ms)
       /\ commit.user # << >>
       /\ persist(commit, FALSE)
       /\ UNCHANGED <<micros, rules, clock>>

\* The cell one rule of ReadModifyWriteRow writes: computed from the newest
\* visible cell of the column, and not older than it.
modified(state, rule) ==
    LET stamps == Stamps(state.visible, rule.fam, rule.col)
        prev == IF stamps = {} THEN <<"int", 0>>
                ELSE state.visible[<<rule.fam, rule.col, Max(stamps)>>]
    IN [op |-> "set", fam |-> rule.fam, col |-> rule.col, auto |-> FALSE,
        ts |-> Max(stamps \cup {newTimestamp}),
        val |-> CASE rule.op = "append" -> <<"text", 0>>
                  [] rule.op # "append" /\ prev[1] = "int" -> <<"int", Wrap(prev[2] + rule.n)>>
                  [] OTHER -> <<"error", 0>>]

modifyForgets(state, rule) ==
    LET m == modified(state, rule)
    IN [row |-> applyMutation(state.row, m, 0), visible |-> state.visible,
        ok |-> state.ok /\ m.val[1] # "error", changes |-> Append(state.changes, m)]

\* The cell goes to the row and to what later rules see.
modify(state, rule) ==
    LET m == modified(state, rule)
    IN [row |-> applyMutation(state.row, m, 0),
        visible |-> applyMutation(state.visible, m, 0),
        ok |-> state.ok /\ m.val[1] # "error",
        changes |-> Append(state.changes, m)]

modifyAll(rs) ==
    LET done[i \in 0 .. Len(rs)] ==
          IF i = 0 THEN [row |-> row, visible |-> gc(row, clock), ok |-> TRUE, changes |-> << >>]
          ELSE modify(done[i - 1], rs[i])
    IN done[Len(rs)]

validateRules(rs) ==
    rs # << >> /\ \A i \in DOMAIN rs : rs[i].fam \in Fams /\ Kinds[rs[i].fam] = "none"

\* An increment of a value that is not 8 bytes long fails the whole request.
ReadModifyWriteRow(rs) ==
    /\ validateRules(rs)
    /\ modifyAll(rs).ok
    /\ persist(stage(Unstaged(row), modifyAll(rs)), FALSE)
    /\ UNCHANGED <<micros, rules, clock>>

\* ModifyColumnFamilies gives a family another rule; cells it makes
\* collectable stay until the row is written again.
UpdateFamily(fam, rule) ==
    /\ rules' = [rules EXCEPT ![fam] = rule]
    /\ UNCHANGED <<micros, clock, row, mirror, inexact>>

Tick ==
    /\ clock < MaxTime
    /\ clock' = clock + 1
    /\ UNCHANGED <<micros, rules, row, mirror, inexact>>

-----------------------------------------------------------------------------
(* What clients send.                                                       *)

PlainValues == ({"int"} \X Int) \cup {<<"text", 0>>}
Inputs == PlainValues \cup ({"hll"} \X SUBSET Nat)

Mutations ==
    [op : {"set"}, fam : STRING, col : Cols, ts : Int, auto : BOOLEAN, val : PlainValues]
      \cup [op : {"add"}, fam : STRING, col : Cols, ts : Int, auto : BOOLEAN, val : Inputs]
      \cup [op : {"delCol"}, fam : STRING, col : Cols, from : Int, to : Int]
      \cup [op : {"delFam"}, fam : STRING]
      \cup [op : {"delRow"}]

ModifyRules == [op : {"append", "increment"}, fam : STRING, col : Cols, n : Int]

ASSUME RowAssumption ==
    /\ FamOrder \in Seq(STRING)
    /\ Kinds \in [Fams -> {"none", "sum", "min", "max", "hll"}]
    /\ Milli \in Nat \ {0} /\ Width \in Nat \ {0} /\ MaxTime \in Nat
    /\ MutationLists \subseteq Seq(Mutations)
    /\ Batches \subseteq Seq(Mutations) \X Seq(Mutations)
    /\ RuleLists \subseteq Seq(ModifyRules)

ASSUME RuleAssumption ==
    /\ NoRule \in Rules
    /\ MaxDepth \in Nat /\ Depth \in [AllRules -> 0 .. MaxDepth]
    /\ \A rule \in AllRules : validateGCRule(rule)

-----------------------------------------------------------------------------
Init ==
    /\ micros \in BOOLEAN
    /\ rules = [fam \in Fams |-> NoRule]
    /\ clock = 0
    /\ row = NoRow
    /\ mirror = NoRow
    /\ inexact = {}

Next ==
    \/ \E ms \in MutationLists : MutateRow(ms)
    \/ \E b \in Batches : MutateRows(b[1], b[2])
    \/ \E b \in Batches, pred \in SUBSET Fams : CheckAndMutateRow(pred, b[1], b[2])
    \/ \E rs \in RuleLists : ReadModifyWriteRow(rs)
    \/ \E fam \in Fams, rule \in Rules : UpdateFamily(fam, rule)
    \/ Tick

Spec == Init /\ [][Next]_vars

-----------------------------------------------------------------------------
\* Every stored cell lies in a family of the table, has a timestamp of the
\* table's granularity and a value its family's kind allows.
TypeOK ==
    /\ micros \in BOOLEAN /\ inexact \subseteq Fams
    /\ rules \in [Fams -> Rules]
    /\ clock \in 0 .. MaxTime
    /\ \A a \in DOMAIN row :
         /\ a[1] \in Fams /\ a[2] \in Cols /\ valid(a[3])
         /\ row[a][1] \in ValueOf(Kinds[a[1]])

\* A consumer that applies the change records in order has the stored row:
\* every set, deletion, aggregation and collection is recorded, with the
\* timestamps the server chose.  On tables of MICROS granularity the recorded
\* collection of a cell covers its neighbours, and in a batch that writes the
\* row twice the collections are recorded after both writes: the claim is
\* made for families where neither has happened.
MirrorMatchesStore ==
    \A fam \in Fams :
        fam \notin inexact =>
            /\ \A a \in DOMAIN row : a[1] = fam => a \in DOMAIN mirror /\ mirror[a] = row[a]
            /\ \A a \in DOMAIN mirror : a[1] = fam => a \in DOMAIN row

\* gcDeletes: "Every child of a union or intersection judges the same input
\* column".  Whatever the nesting, a rule removes the oldest cells only, what
\* it keeps it keeps for good at that time, and nothing comes back later.
CollectsOldestOnly ==
    \A fam \in Fams, col \in Cols, rule \in Rules :
        LET stamps == Stamps(row, fam, col)
            gone == gcDeletes(stamps, rule, clock)
        IN /\ \A t \in gone, u \in stamps \ gone : t < u
           /\ gcDeletes(stamps \ gone, rule, clock) = {}
           /\ gone \subseteq gcDeletes(stamps, rule, clock + 1)

Newest(r, fam, col) == Max(Stamps(r, fam, col))

Total(rs) ==
    LET sum[i \in 0 .. Len(rs)] == IF i = 0 THEN 0 ELSE sum[i - 1] + rs[i].n
    IN sum[Len(rs)]

OneColumnIncrements(rs) ==
    \A i \in DOMAIN rs : /\ rs[i].op = "increment"
                         /\ rs[i].fam = rs[1].fam /\ rs[i].col = rs[1].col

\* "a later rule observes the result of an earlier rule on the same cell":
\* increments of one column by one request add up on top of the value a read
\* would return, and the result is the newest cell of the column.
IncrementsAddUp ==
    \A rs \in RuleLists :
        validateRules(rs) /\ OneColumnIncrements(rs) /\ modifyAll(rs).ok =>
            LET fam == rs[1].fam
                col == rs[1].col
                before == gc(row, clock)
                after == stage(Unstaged(row), modifyAll(rs)).row
                old == IF Stamps(before, fam, col) = {} THEN 0
                       ELSE before[<<fam, col, Newest(before, fam, col)>>][2]
            IN after[<<fam, col, Newest(after, fam, col)>>] = <<"int", Wrap(old + Total(rs))>>
=============================================================================
