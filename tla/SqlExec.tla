------------------------------ MODULE SqlExec -------------------------------
(* Running a query plan (exec.go, aggregates.go): WHERE, grouping, aggregate *)
(* functions, DISTINCT, ORDER BY, OFFSET and LIMIT, and the rules of         *)
(* materialized views.  A source row is what its expressions evaluate to: a  *)
(* record with the WHERE answer, the output values and the order keys, or    *)
(* the group keys and aggregate arguments; Failed stands for an evaluation   *)
(* error.  An order spec is [desc, nullsLast].                               *)
EXTENDS SqlLogic

Failed == <<Refused>>

cmpOrderKey(s, x, y) ==
  LET c == compareValues(x, y)
  IN CASE isNull(x) # isNull(y) -> IF s.nullsLast THEN -c ELSE c
       [] OTHER -> IF s.desc THEN -c ELSE c

compareOrder(specs, a, b) ==
  LET apart == {i \in DOMAIN specs : cmpOrderKey(specs[i], a[i], b[i]) # 0}
      first == CHOOSE i \in apart : \A j \in apart : i <= j
  IN IF apart = {} THEN 0 ELSE cmpOrderKey(specs[first], a[first], b[first])

-----------------------------------------------------------------------------
(* The sink.  plan.mv is <<>> or <<[keyIdx, tsIdx, valueIdx]>>; tsIdx is 0   *)
(* for none.                                                                 *)

isView(plan) == plan.mv # <<>>

TimestampStep == 1000

\* The rows a view leaves out: NULL keys, bad timestamps, nothing but NULLs.
accept(m, vals) ==
  /\ \A i \in DOMAIN m.keyIdx : ~isNull(vals[m.keyIdx[i]])
  /\ m.tsIdx # 0 => /\ ~isNull(vals[m.tsIdx])
                    /\ vals[m.tsIdx][2] >= 0
                    /\ vals[m.tsIdx][2] % TimestampStep = 0
  /\ m.valueIdx # {} => \E i \in m.valueIdx : ~isNull(vals[i])

\* By key, then newest first.
mvLess(m, a, b) ==
  LET c == compareEach([i \in DOMAIN m.keyIdx |-> a[m.keyIdx[i]]], [i \in DOMAIN m.keyIdx |-> b[m.keyIdx[i]]])
  IN CASE c # 0 -> c < 0
       [] m.tsIdx # 0 -> compareValues(a[m.tsIdx], b[m.tsIdx]) > 0
       [] OTHER -> FALSE

sorting(plan) == plan.order # <<>> \/ isView(plan)

NewSink == [seen |-> {}, rows |-> <<>>, skipped |-> 0, out |-> <<>>, more |-> TRUE, failed |-> FALSE]

\* Mutant: a skipped row counts against the limit.
pushCountsSkipped(plan, s, vals) ==
  IF s.skipped < plan.offset THEN [s EXCEPT !.skipped = @ + 1]
  ELSE IF plan.limit >= 0 /\ Len(s.out) + s.skipped >= plan.limit THEN [s EXCEPT !.more = FALSE]
  ELSE [s EXCEPT !.out = Append(@, vals), !.more = plan.limit < 0 \/ Len(s.out) + 1 < plan.limit]

push(plan, s, vals) ==
  IF s.skipped < plan.offset THEN [s EXCEPT !.skipped = @ + 1]
  ELSE IF plan.limit >= 0 /\ Len(s.out) >= plan.limit THEN [s EXCEPT !.more = FALSE]
  ELSE [s EXCEPT !.out = Append(@, vals), !.more = plan.limit < 0 \/ Len(s.out) + 1 < plan.limit]

add(plan, s, vals, keys) ==
  LET k == rowKeyOf(vals)
      t == IF plan.distinct THEN [s EXCEPT !.seen = @ \union {k}] ELSE s
  IN CASE isView(plan) /\ ~accept(plan.mv[1], vals) -> s
       [] plan.distinct /\ k \in s.seen -> s
       [] sorting(plan) -> [t EXCEPT !.rows = Append(@, [vals |-> vals, keys |-> keys])]
       [] OTHER -> push(plan, t, vals)

\* Once a row is refused or the limit reached nothing more is pushed.
pushAll(plan, s, rows) ==
  FoldLeft(LAMBDA t, r : IF t.more THEN push(plan, t, r.vals) ELSE t, s, rows)

finish(plan, s) ==
  IF ~sorting(plan) \/ s.failed THEN s
  ELSE pushAll(plan, s, stableSort(s.rows, LAMBDA a, b :
         IF isView(plan) THEN mvLess(plan.mv[1], a.vals, b.vals)
         ELSE compareOrder(plan.order, a.keys, b.keys) < 0))

\* An evaluation error ends the query; in a view it drops the row.
fail(plan, s) == IF isView(plan) THEN s ELSE [s EXCEPT !.failed = TRUE]

-----------------------------------------------------------------------------
(* Plans without aggregation: a row is [where, vals, keys].                  *)

runRow(plan, s, r) ==
  CASE ~s.more \/ s.failed -> s
    [] r.where = "E" -> fail(plan, s)
    [] r.where # "T" -> s
    [] r.vals = Failed -> fail(plan, s)
    [] OTHER -> add(plan, s, r.vals, r.keys)

validLimits(plan) == plan.limit >= -1 /\ plan.offset >= 0

runPlain(plan, rows) ==
  CASE ~validLimits(plan) -> [NewSink EXCEPT !.failed = TRUE]
    [] plan.limit = 0 -> NewSink
    [] OTHER -> finish(plan, FoldLeft(LAMBDA s, r : runRow(plan, s, r), NewSink, rows))

-----------------------------------------------------------------------------
(* Aggregate functions: the state after one more argument list, and the      *)
(* result.  Only SUM can fail.                                               *)

Comma == <<1>>

NewState(fn) ==
  CASE fn \in {"count", "countstar", "countif"} -> 0
    [] fn \in {"min", "max"} -> [v |-> Null, nan |-> FALSE]
    [] fn = "array" -> <<>>
    [] fn = "string" -> [parts |-> <<>>, delim |-> Comma]
    [] OTHER -> Null

stateFailed(fn, st) == fn = "sum" /\ isRefused(st)

sumAdd(st, x) ==
  IF isNull(st) THEN x
  ELSE LET c == addInt64(st[2], x[2]) IN IF c = Overflow THEN Refused ELSE <<"int", c>>

better(fn, x, v) ==
  isNull(v) \/ (IF fn = "max" THEN compareValues(x, v) > 0 ELSE compareValues(x, v) < 0)

minMaxAdd(fn, st, x) ==
  IF isNaNValue(x) THEN [st EXCEPT !.nan = TRUE]
  ELSE IF better(fn, x, st.v) THEN [st EXCEPT !.v = x] ELSE st

logicalAdd(fn, st, x) ==
  LET or == st[2] = 1 \/ x[2] = 1
      and == st[2] = 1 /\ x[2] = 1
  IN IF isNull(st) THEN x ELSE <<"bool", IF (IF fn = "and" THEN and ELSE or) THEN 1 ELSE 0>>

\* The delimiter is the one of the first value.
stringAdd(st, args) ==
  IF st.parts = <<>> /\ Len(args) > 1
  THEN IF isNull(args[2]) THEN st ELSE [parts |-> <<args[1][2]>>, delim |-> args[2][2]]
  ELSE [st EXCEPT !.parts = Append(@, args[1][2])]

stateAdd(fn, st, args) ==
  CASE fn = "countstar" -> st + 1
    [] fn = "countif" -> IF args[1] = <<"bool", 1>> THEN st + 1 ELSE st
    [] fn = "array" -> Append(st, args[1])
    [] isNull(args[1]) -> st
    [] fn = "count" -> st + 1
    [] fn = "sum" -> sumAdd(st, args[1])
    [] fn \in {"min", "max"} -> minMaxAdd(fn, st, args[1])
    [] fn = "any" -> IF isNull(st) THEN args[1] ELSE st
    [] fn \in {"and", "or"} -> logicalAdd(fn, st, args[1])
    [] fn = "string" -> stringAdd(st, args)

stateResult(fn, st) ==
  CASE fn \in {"count", "countstar", "countif"} -> <<"int", st>>
    [] fn \in {"min", "max"} -> IF st.nan THEN NaN ELSE st.v
    [] fn = "array" -> IF st = <<>> THEN Null ELSE <<"array", st>>
    [] fn = "string" ->
         IF st.parts = <<>> THEN Null
         ELSE <<"bytes", FlattenSeq([i \in DOMAIN st.parts |->
                 IF i = 1 THEN st.parts[i] ELSE st.delim \o st.parts[i]])>>
    [] OTHER -> st

-----------------------------------------------------------------------------
(* A runner adds DISTINCT, IGNORE NULLS, ORDER BY and LIMIT.  A spec is      *)
(* [fn, distinct, ignoreNulls, order, limit].                                *)

NewRunner(spec) == [st |-> NewState(spec.fn), seen |-> {}, rows |-> <<>>]
buffering(spec) == spec.order # <<>> \/ spec.limit >= 0

skipped(spec, r, args) ==
  \/ (spec.ignoreNulls \/ spec.distinct) /\ args # <<>> /\ isNull(args[1])
  \/ spec.distinct /\ valueKey(args[1]) \in r.seen

runnerAdd(spec, r, args, keys) ==
  LET t == IF spec.distinct THEN [r EXCEPT !.seen = @ \union {valueKey(args[1])}] ELSE r
      st == stateAdd(spec.fn, r.st, args)
  IN CASE skipped(spec, r, args) -> r
       [] buffering(spec) -> [t EXCEPT !.rows = Append(@, [args |-> args, keys |-> keys])]
       [] OTHER -> [t EXCEPT !.st = st]

limited(spec, rows) ==
  IF spec.limit >= 0 /\ Len(rows) > spec.limit THEN SubSeq(rows, 1, spec.limit) ELSE rows

runnerResult(spec, r) ==
  LET inOrder == stableSort(r.rows, LAMBDA a, b : compareOrder(spec.order, a.keys, b.keys) < 0)
      step(st, row) == IF stateFailed(spec.fn, st) THEN st ELSE stateAdd(spec.fn, st, row.args)
  IN stateResult(spec.fn, FoldLeft(step, r.st, limited(spec, inOrder)))

-----------------------------------------------------------------------------
(* Plans with aggregation: a row is [where, group, args, keys], the last two *)
(* one entry for each aggregate; Failed in group for an error.  HAVING       *)
(* compares the first aggregate with a value; order keys are output columns. *)

NewGroup(plan, keys) == [keys |-> keys, runners |-> [i \in DOMAIN plan.aggs |-> NewRunner(plan.aggs[i])]]

\* A runner that fails ends the query; in a view it leaves the row out.
groupAdd(plan, g, r) ==
  LET next == [i \in DOMAIN plan.aggs |-> runnerAdd(plan.aggs[i], g.runners[i], r.args[i], r.keys[i])]
  IN [g EXCEPT !.runners = [i \in DOMAIN next |->
        IF stateFailed(plan.aggs[i].fn, next[i].st) /\ isView(plan) THEN g.runners[i] ELSE next[i]]]

\* The group with these keys, 0 if there is none yet.
groupOf(groups, keys) == SelectInSeq(groups, LAMBDA g : rowKeyOf(g.keys) = rowKeyOf(keys))

putGroup(plan, groups, at, g) ==
  [groups |-> IF at = 0 THEN Append(groups, g) ELSE [groups EXCEPT ![at] = g],
   failed |-> \E i \in DOMAIN plan.aggs : stateFailed(plan.aggs[i].fn, g.runners[i].st)]

addRow(plan, groups, at, r) ==
  putGroup(plan, groups, at, groupAdd(plan, IF at = 0 THEN NewGroup(plan, r.group) ELSE groups[at], r))

groupRow(plan, s, r) ==
  CASE s.failed -> s
    [] r.where = "E" -> fail(plan, s)
    [] r.where # "T" -> s
    [] r.group = Failed -> fail(plan, s)
    [] OTHER -> addRow(plan, s.groups, groupOf(s.groups, r.group), r)

having(plan, aggs) == IF isNull(plan.having) THEN "T" ELSE compared("ge", aggs[1], plan.having)

\* The output row of a group, from its keys and the results of its aggregates.
emit(plan, s, keys, aggs) ==
  LET vals == keys \o aggs
  IN CASE ~s.more \/ s.failed -> s
       [] \E i \in DOMAIN aggs : isRefused(aggs[i]) -> fail(plan, s)
       [] having(plan, aggs) # "T" -> s
       [] OTHER -> add(plan, s, vals, [i \in DOMAIN plan.order |-> vals[plan.order[i].col]])

emitGroup(plan, s, g) ==
  emit(plan, s, g.keys, [i \in DOMAIN plan.aggs |-> runnerResult(plan.aggs[i], g.runners[i])])

\* Without GROUP BY there is a group even if there is no row.
emitGroups(plan, scanned) ==
  LET groups == IF scanned.groups = <<>> /\ plan.groupKeys = 0 THEN <<NewGroup(plan, <<>>)>> ELSE scanned.groups
  IN IF scanned.failed THEN [NewSink EXCEPT !.failed = TRUE]
     ELSE finish(plan, FoldLeft(LAMBDA s, g : emitGroup(plan, s, g), NewSink, groups))

runGrouped(plan, rows) ==
  CASE ~validLimits(plan) -> [NewSink EXCEPT !.failed = TRUE]
    [] plan.limit = 0 -> NewSink
    [] OTHER -> emitGroups(plan, FoldLeft(LAMBDA s, r : groupRow(plan, s, r), [groups |-> <<>>, failed |-> FALSE], rows))
=============================================================================
