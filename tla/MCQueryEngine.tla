--------------------------- MODULE MCQueryEngine ----------------------------
(* The algorithms of the query engine against reference definitions.        *)
EXTENDS KeyCodec, Pushdown, SqlExec, SqlSource, Sketch, Cases

QueryKinds == {"values", "groupkeys", "map", "wire", "arithmetic", "in", "like", "key", "keyorder", "ints",
               "where", "where3", "plain", "grouped", "aggregate", "family", "sketch"}

int(n) == <<"int", n>>
bytes(b) == <<"bytes", b>>
-----------------------------------------------------------------------------
(* Values *)

IntValues == {Null, int(-1), int(0), int(2)}
FloatValues == {Null, NaN, <<"float", "-0", 0>>, <<"float", "n", 0>>, <<"float", "n", 1>>}
BytesValues == {Null} \cup {bytes(b) : b \in {<<>>, <<0>>, <<4>>, <<4, 0>>, <<0, 4>>, <<7>>}}
Arrays == {Null} \cup {<<"array", s>> : s \in SeqsUpTo({Null, int(0), int(1)}, 2)}
Maps == {newMap(p) : p \in SeqsUpTo({int(0), int(1)} \X {Null, int(0)}, 2)}

TakeValues ==
  Take("values") /\ \E S \in {IntValues, FloatValues, IntValues \cup FloatValues, BytesValues, Arrays, Maps} :
    \E a, b, c \in S : input' = [a |-> a, b |-> b, c |-> c]

\* The order of values that GROUP BY, DISTINCT, ORDER BY, MIN and MAX rely on is
\* a total preorder of the values of a column, the key that groups values is equal
\* exactly for values of a column that compare equal (NaN with NaN, -0 with 0),
\* and of any values, integers beside floats too, = never holds where the order
\* tells them apart (values.go).
ValuesOrdered ==
  taken("values") =>
    LET a == input.a b == input.b c == input.c
        oneColumn(S) == Cardinality({v[1] : v \in S \ {Null}}) <= 1
    IN /\ compareValues(a, b) = -compareValues(b, a)
       /\ oneColumn({a, b, c}) /\ compareValues(a, b) <= 0 /\ compareValues(b, c) <= 0
          => compareValues(a, c) <= 0
       /\ oneColumn({a, b}) => (valueKey(a) = valueKey(b) <=> compareValues(a, b) = 0)
       /\ sqlEquals(a, b) = "T" => compareValues(a, b) = 0
       /\ sqlEquals(a, b) = "F" /\ compareValues(a, b) = 0 => NaN \in {a, b}

TakeGroupKeys ==
  Take("groupkeys") /\ \E x, y \in [1..2 -> BytesValues] : input' = [x |-> x, y |-> y]

\* The one buffer that the values of a row are written into for GROUP BY and
\* DISTINCT tells any two rows apart that differ in some value (exec.go).
GroupKeysApart ==
  taken("groupkeys") => (rowKeyOf(input.x) = rowKeyOf(input.y) => input.x = input.y)

TakeMap ==
  Take("map") /\ \E pairs \in SeqsUpTo({int(0), int(1), int(2)} \X {int(7), int(8), Null}, 3) :
    \E k \in {int(n) : n \in -1..3} : input' = [pairs |-> pairs, k |-> k]

\* A map built from pairs in any order, keys repeated, has its keys strictly in
\* order, and looking a key up by binary search finds the value of the last pair
\* with that key, NULL if there is none (values.go newMap, lookup).
MapLookup ==
  taken("map") =>
    LET m == newMap(input.pairs)
        at == {i \in DOMAIN input.pairs : input.pairs[i][1] = input.k}
        last == CHOOSE i \in at : \A j \in at : j <= i
    IN /\ \A i \in 1..(Len(m[2]) - 1) : compareValues(m[2][i], m[2][i + 1]) < 0
       /\ lookup(m, input.k) = IF at = {} THEN Null ELSE input.pairs[last][2]

WireTypes == {<<"bool">>, <<"bytes">>, <<"int">>, <<"timestamp">>, <<"array", <<"timestamp">>>>,
              <<"struct", <<<<"int">>, <<"timestamp">>>>>>, <<"map", <<"int">>, <<"timestamp">>>>}
TimeValues == {Null} \cup {int(n) : n \in -4..4}
WireValues(t) ==
  CASE t[1] \in {"int", "timestamp"} -> TimeValues
    [] t[1] = "bool" -> {Null, <<"bool", 0>>, <<"bool", 1>>}
    [] t[1] = "bytes" -> {Null, bytes(<<>>), bytes(<<0>>), bytes(<<1, 7>>)}
    [] t[1] = "array" -> {Null} \cup {<<"array", s>> : s \in SeqsUpTo(TimeValues, 2)}
    [] t[1] = "struct" -> {<<"array", s>> : s \in [1..2 -> TimeValues]}
    [] t[1] = "map" -> {newMap(<<<<int(0), v>>, <<int(1), w>>>>) : v, w \in TimeValues}

TakeWire ==
  Take("wire") /\ \E t \in WireTypes : \E v \in WireValues(t) : \E u \in WireTypes :
    input' = [t |-> t, v |-> v, u |-> u]

RECURSIVE nanosOf(_)
nanosOf(w) ==
  CASE w[1] = "timestamp" -> {w[3]}
    [] w[1] = "array" -> UNION {nanosOf(w[2][i]) : i \in DOMAIN w[2]}
    [] OTHER -> {}

\* What a materialized view stores of a value and reads back: nothing of a NULL.
throughCell(t, v) ==
  LET c == encodeCell(t, v) IN IF isRefused(c) THEN Null ELSE decodeCell(t, c[2])

\* A value sent to the client and taken back as a parameter of the same type is
\* the same value, timestamps before the epoch included, whose nanoseconds on
\* the wire are never negative (values.go toProtoValue, fromProtoValue); so is a
\* value stored in a cell of a materialized view, where an empty value is not
\* a NULL (cellcodec.go).
WireRoundTrip ==
  taken("wire") =>
    LET w == toProtoValue(input.v, input.t)
    IN /\ fromProtoValue(w, input.t) = input.v
       /\ nanosOf(w) \subseteq 0..(SecondMicros * 1000 - 1)
       /\ input.t[1] \in {"bool", "bytes", "int"} => throughCell(input.t[1], input.v) = input.v
-----------------------------------------------------------------------------
(* Operators *)

TakeArithmetic == Take("arithmetic") /\ \E a, b \in Ints : input' = [a |-> a, b |-> b]

exactOrOverflow(r, x) == r = IF x \in Ints THEN x ELSE Overflow

\* Integer addition, subtraction and multiplication give the exact result or
\* report an overflow, for every pair of integers (ops.go).
ArithmeticExact ==
  taken("arithmetic") =>
    /\ exactOrOverflow(addInt64(input.a, input.b), input.a + input.b)
    /\ exactOrOverflow(subInt64(input.a, input.b), input.a - input.b)
    /\ exactOrOverflow(mulInt64(input.a, input.b), input.a * input.b)

TakeIn ==
  Take("in") /\ \E S \in {IntValues, FloatValues, BytesValues, Arrays} :
    \E x \in S : \E vals \in SeqsUpTo(S, 2) : input' = [x |-> x, vals |-> vals]

folded(op(_, _), base, f) == FoldLeft(op, base, f)

\* x IN (...) is the OR of its equalities and its negation the AND of their
\* negations, in three-valued logic; BETWEEN is the AND of two comparisons
\* (ops.go bindIn, inResult, between).
ThreeValued ==
  taken("in") =>
    LET x == input.x
        vals == input.vals
        equalities == [i \in DOMAIN vals |-> compared("eq", x, vals[i])]
    IN /\ vals # <<>> => inResult(x, vals) = folded(evalOr, "F", equalities)
       /\ vals # <<>> => negated(inResult(x, vals)) = folded(evalAnd, "T", [i \in DOMAIN vals |-> negated(equalities[i])])
       /\ inUnnest(x, <<"array", vals>>) = folded(evalOr, "F", equalities)
       /\ Len(vals) = 2 =>
            between(x, vals[1], vals[2]) = evalAnd(compared("ge", x, vals[1]), compared("le", x, vals[2]))

TakeLike ==
  Take("like") /\ \E pat \in SeqsUpTo({1, Percent, Underscore, Backslash}, 4) :
    \E str \in SeqsUpTo({1, Percent, 5}, 3) : input' = [pat |-> pat, str |-> str]

\* The matcher of LIKE, which goes back to the last % only, accepts exactly the
\* strings that can be cut into one part for each element of the pattern, and a
\* string it accepts starts with the literal prefix used to bound the scan
\* (ops.go match, likePrefix).
LikeMatches ==
  taken("like") =>
    LET toks == compileLike(input.pat)
        p == likePrefix(input.pat)
    IN toks # BadPattern =>
         /\ match(toks, input.str) <=> likeMeans(toks, input.str)
         /\ match(toks, input.str) => IsPrefix(p.prefix, input.str)
         /\ p.exact => (match(toks, input.str) <=> input.str = p.prefix)
-----------------------------------------------------------------------------
(* Keys *)

SmallBytes == SeqsUpTo({0, 1, 7}, 2)
SomeInts == {-32, -9, -8, -3, -2, -1, 0, 1, 2, 7, 8, 31}
Field(k, esc) == [kind |-> k, esc |-> esc]
FieldTypes == {Field("bytes", -1), Field("bytes", 0), Field("int", -1), Field("ordered", -1)}
FieldValues(t) == IF t.kind = "bytes" THEN {Null} \cup {bytes(b) : b \in SmallBytes} ELSE {int(n) : n \in SomeInts}

TakeKey ==
  Take("key") /\ \E t, u \in FieldTypes : \E v \in FieldValues(t), w \in FieldValues(u) :
    \E e \in {<<"ordered", <<>>>>, <<"delimited", <<1>>>>, <<"delimited", <<1, 7>>>>, <<"singleton", <<>>>>} :
      LET n == IF e[1] = "singleton" THEN 1 ELSE 2
      IN input' = [schema |-> [enc |-> e[1], delim |-> e[2], fields |-> SubSeq(<<t, u>>, 1, n)],
                   vals |-> SubSeq(<<v, w>>, 1, n)]

\* A row key built from its fields gives the same fields back, NULLs, empty
\* values, zero bytes and values next to the delimiter included, or building it
\* is refused (keycodec.go); the delimiter has no border.
KeyRoundTrip ==
  taken("key") =>
    LET k == encodeKey(input.schema, input.vals)
    IN isRefused(k) \/ decodeKey(input.schema, k[2]) = <<"ok", input.vals>>

ViewValues(t) == IF t = "bytes" THEN {bytes(b) : b \in SmallBytes} ELSE {int(n) : n \in SomeInts}

TakeKeyOrder ==
  Take("keyorder") /\
    \/ \E t, u \in {"bytes", "int"} : \E v, x \in ViewValues(t), w, y \in ViewValues(u) :
         (t = "bytes" \/ u = "bytes") /\ input' = [types |-> <<t, u>>, a |-> <<v, w>>, b |-> <<x, y>>]
    \/ \E v, x \in Ints : input' = [types |-> <<"int">>, a |-> <<int(v)>>, b |-> <<int(x)>>]

\* The rows of a materialized view, which are sorted by their values, are in the
\* order of the row keys encoded from these values, so that a read of the view in
\* key order finds them in order (mv.go less, encodeKey).
KeysOrderedLikeValues ==
  taken("keyorder") =>
    LET key(v) == encodeKey(keySchemaForView(input.types), v)[2]
    IN less(key(input.a), key(input.b)) <=> compareEach(input.a, input.b) < 0

TakeInts ==
  Take("ints") /\ (\/ \E b \in SeqsUpTo(0..TopByte, 3) : input' = [b |-> b, v |-> 0]
                   \/ \E v \in Ints : \E b \in SeqsUpTo({0, 3, 7}, 2) :
                        input' = [b |-> appendOrderedInt64(v) \o b, v |-> v])

\* The only byte string that decodes to an integer is its encoding, and an
\* integer is found again whatever bytes follow it (keycodec.go).
OneEncodingPerInt ==
  taken("ints") =>
    LET d == decodeOrderedInt64(input.b)
    IN /\ d.n = Len(input.b) /\ d.n > 0 => appendOrderedInt64(d.v) = input.b
       /\ IsPrefix(appendOrderedInt64(input.v), input.b) =>
            d = [v |-> input.v, n |-> Len(appendOrderedInt64(input.v))]
-----------------------------------------------------------------------------
(* Key ranges of a WHERE clause *)

RowKeys == {<<0>>, <<1>>, <<1, 0>>, <<1, 7>>, <<2>>, <<7>>, <<7, 7>>}
Consts == {Null, bytes(<<>>), bytes(<<1>>), bytes(<<1, 7>>), bytes(<<7>>)}
Lists == SeqsUpTo({Null, bytes(<<1>>), bytes(<<7>>), bytes(<<1, 0>>)}, 2)
Leaves ==
  {[op |-> op, flipped |-> f, c |-> c] : op \in {"eq", "lt", "le", "gt", "ge"}, f \in BOOLEAN, c \in Consts}
  \cup {[op |-> op, list |-> l] : op \in {"in", "unnest"}, l \in Lists \ {<<>>}}
  \cup {[op |-> "between", c |-> c, hi |-> h] : c, h \in {Null, bytes(<<1>>), bytes(<<1, 7>>)}}
  \cup {[op |-> "starts", c |-> c] : c \in Consts}
  \cup {[op |-> "like", c |-> bytes(p)] : p \in {<<1, Percent>>, <<1, Underscore>>, <<7>>, <<Percent>>, <<Backslash, 2>>}}
  \cup {[op |-> "other", on |-> S] : S \in {{}, {<<1>>, <<7>>}}}
FewLeaves ==
  {[op |-> op, flipped |-> FALSE, c |-> bytes(<<1, 0>>)] : op \in {"eq", "lt", "gt"}}
  \cup {[op |-> "starts", c |-> bytes(<<b>>)] : b \in {1, 7}}
  \cup {[op |-> "in", list |-> <<bytes(<<7>>), Null, bytes(<<1>>)>>], [op |-> "other", on |-> {<<2>>, <<7>>}]}
Not(e) == [op |-> "not", l |-> e]

TakeWhere ==
  Take("where") /\ \E o \in {"and", "or"} : \E l, r \in Leaves : input' = [op |-> o, l |-> l, r |-> r]

TakeWhere3 ==
  Take("where3") /\ \E o, p \in {"and", "or"} : \E a, b, c, d \in FewLeaves : \E n \in BOOLEAN :
    LET left == [op |-> p, l |-> a, r |-> b]
        right == [op |-> p, l |-> c, r |-> d]
    IN input' = [op |-> o, l |-> IF n THEN Not(left) ELSE left, r |-> right]

\* The key ranges derived from a WHERE clause leave out no row for which it is
\* TRUE, and scanning them one after the other finds the remaining rows in key
\* order, none of them twice (pushdown.go: "a superset of the matching rows").
PushdownKeepsMatches ==
  (kind \in {"where", "where3"} /\ stage = "taken") =>
    LET holds(k) == evalWhere(input, k) = "T"
    IN SelectSeq(scanRanges(keyRanges(input), RowKeys), holds) = SelectSeq(sorted(RowKeys, FALSE), holds)
-----------------------------------------------------------------------------
(* Running a plan *)

PlainRow(w, v, k) == [where |-> w, vals |-> v, keys |-> <<k>>]
PlainRows ==
  {PlainRow("T", <<int(0)>>, int(0)), PlainRow("T", <<int(0)>>, int(1)), PlainRow("T", <<int(1)>>, Null),
   PlainRow("T", <<Null>>, int(0)), PlainRow("N", <<int(2)>>, int(0)), PlainRow("E", <<int(2)>>, int(0)),
   PlainRow("T", Failed, int(0))}
Orders == {<<>>, <<[desc |-> FALSE, nullsLast |-> FALSE]>>, <<[desc |-> FALSE, nullsLast |-> TRUE]>>,
           <<[desc |-> TRUE, nullsLast |-> FALSE]>>}
View(n) == <<[keyIdx |-> <<1>>, tsIdx |-> 0, valueIdx |-> {2} \cap 1..n]>>

TakePlain ==
  Take("plain") /\ \E rows \in SeqsUpTo(PlainRows, 3) : \E l \in -1..2, o \in 0..1, d \in BOOLEAN :
    \/ \E order \in Orders :
         input' = [rows |-> rows, plan |-> [limit |-> l, offset |-> o, distinct |-> d, order |-> order, mv |-> <<>>]]
    \/ l = -1 /\ o = 0 /\ ~d /\
         input' = [rows |-> rows, plan |-> [limit |-> l, offset |-> o, distinct |-> d, order |-> <<>>, mv |-> View(1)]]

\* What the plan asks for, whatever the order of evaluation: the rows that
\* pass, the first of equal ones if DISTINCT, in order, and a window of them.
wanted(plan, rows) ==
  LET passes(i) == rows[i].where = "T" /\ rows[i].vals # Failed /\
                   (isView(plan) => accept(plan.mv[1], rows[i].vals))
      first(i) == \A j \in 1..(i - 1) : passes(j) => rows[j].vals # rows[i].vals
      chosen == SelectSeq([i \in DOMAIN rows |-> i], LAMBDA i : passes(i) /\ (plan.distinct => first(i)))
      before(i, j) == IF isView(plan) THEN mvLess(plan.mv[1], rows[i].vals, rows[j].vals)
                      ELSE compareOrder(plan.order, rows[i].keys, rows[j].keys) < 0
      inOrder == stableSort(chosen, before)
      end == IF plan.limit < 0 \/ plan.offset + plan.limit > Len(chosen) THEN Len(chosen) ELSE plan.offset + plan.limit
  IN SubSeq(inOrder, plan.offset + 1, end)

broken(r) == r.where = "E" \/ (r.where = "T" /\ r.vals = Failed)

returnsWindow(p, rows, r, want) ==
  LET reached == IF ~sorting(p) /\ p.limit >= 0 /\ Len(want) = p.limit
                 THEN IF want = <<>> THEN 0 ELSE Last(want)
                 ELSE IF p.limit = 0 THEN 0 ELSE Len(rows)
      met == {i \in 1..reached : broken(rows[i])}
  IN /\ r.failed <=> ~isView(p) /\ met # {}
     /\ ~r.failed => r.out = [i \in DOMAIN want |-> rows[want[i]].vals]
     /\ ~r.failed /\ sorting(p) /\ ~isView(p) =>
          \A i \in 1..(Len(want) - 1) :
            LET a == rows[want[i]].keys[1] b == rows[want[i + 1]].keys[1]
            IN isNull(a) # isNull(b) => isNull(b) = p.order[1].nullsLast

\* A query returns the window of the ordered, distinct, passing rows that it
\* asks for; it fails exactly if a row that cannot be evaluated is met before the
\* limit is reached, and a view leaves such rows out instead (exec.go run, sink).
QueryReturnsWindow ==
  taken("plain") =>
    returnsWindow(input.plan, input.rows, runPlain(input.plan, input.rows), wanted(input.plan, input.rows))

Agg(fn, d, n, order, l) == [fn |-> fn, distinct |-> d, ignoreNulls |-> n, order |-> order, limit |-> l]
GroupedRow(w, g, x) == [where |-> w, group |-> g, args |-> <<<<x>>, <<x>>>>, keys |-> <<<<>>, <<>>>>]
GroupedRows ==
  {GroupedRow("T", <<a, b>>, x) : a \in {int(0), Null}, b \in {int(0), int(1)}, x \in {int(1), int(31)}}
  \cup {GroupedRow("N", <<int(5), int(5)>>, int(1)), GroupedRow("E", <<int(5), int(5)>>, int(1)),
        GroupedRow("T", Failed, int(1))}
GroupedView == <<[keyIdx |-> <<1, 2>>, tsIdx |-> 0, valueIdx |-> {3, 4}]>>

TakeGrouped ==
  Take("grouped") /\ \E rows \in SeqsUpTo(GroupedRows, 3) : \E mv \in {<<>>, GroupedView}, n \in {0, 2} :
    \E h \in {Null, int(2)} : (mv # <<>> => isNull(h) /\ n = 2) /\
      input' = [rows |-> IF n = 2 THEN rows ELSE [i \in DOMAIN rows |-> [rows[i] EXCEPT !.group = IF @ = Failed THEN @ ELSE <<>>]],
                plan |-> [limit |-> -1, offset |-> 0, distinct |-> FALSE, order |-> <<>>, mv |-> mv,
                          groupKeys |-> n, having |-> h,
                          aggs |-> <<Agg("count", FALSE, FALSE, <<>>, -1), Agg("array", FALSE, FALSE, <<>>, -1)>>]]

partitions(p, rows, r) ==
  LET passing == SelectSeq(rows, LAMBDA x : x.where = "T" /\ x.group # Failed)
      member(g) == SelectSeq(passing, LAMBDA x : x.group = g)
      groups == {passing[i].group : i \in DOMAIN passing} \cup (IF p.groupKeys = 0 THEN {<<>>} ELSE {})
      arrayOf(g) == IF member(g) = <<>> THEN Null ELSE <<"array", [i \in DOMAIN member(g) |-> member(g)[i].args[1][1]]>>
      row(g) == g \o <<int(Len(member(g))), arrayOf(g)>>
      shown == {g \in groups : /\ isView(p) => \A i \in DOMAIN g : ~isNull(g[i])
                               /\ ~isNull(p.having) => Len(member(g)) >= p.having[2]}
      firstOf(g) == CHOOSE i \in DOMAIN passing : passing[i].group = g /\ \A j \in 1..(i - 1) : passing[j].group # g
  IN /\ r.failed <=> ~isView(p) /\ \E i \in DOMAIN rows : rows[i].where = "E" \/ (rows[i].where = "T" /\ rows[i].group = Failed)
     /\ ~r.failed =>
          /\ ToSet(r.out) = {row(g) : g \in shown}
          /\ Len(r.out) = Cardinality(shown)
          /\ \A i, j \in DOMAIN r.out : i < j /\ p.groupKeys > 0 =>
               LET g == SubSeq(r.out[i], 1, 2) h == SubSeq(r.out[j], 1, 2)
               IN IF isView(p) THEN compareEach(g, h) < 0 ELSE firstOf(g) < firstOf(h)

\* Grouping puts every passing row into exactly one group, with the rows whose
\* keys equal its own and in the order of the scan; groups come in the order of
\* their first rows (of their keys in a view), and an aggregate without GROUP BY
\* gives one row even over no rows (exec.go run).
GroupsPartition ==
  taken("grouped") => partitions(input.plan, input.rows, runGrouped(input.plan, input.rows))

AggArgs(fn) ==
  CASE fn \in {"min", "max"} -> {<<v>> : v \in FloatValues}
    [] fn \in {"and", "or", "countif"} -> {<<v>> : v \in {Null, <<"bool", 0>>, <<"bool", 1>>}}
    [] fn = "string" -> {<<v, d>> : v \in {Null, bytes(<<5>>), bytes(<<6>>)}, d \in {Null, bytes(<<7>>)}}
    [] OTHER -> {<<v>> : v \in {Null, int(1), int(20)}}
OrderedFns == {"array", "string"}
DistinctFns == {"count", "sum", "min", "max", "array", "string"}

TakeAggregate ==
  Take("aggregate") /\ \E fn \in {"count", "countif", "sum", "min", "max", "any", "and", "or", "array", "string"} :
    \E args \in SeqsUpTo(AggArgs(fn), 3), d, n \in BOOLEAN : \E order \in Orders, l \in {-1, 0, 2} :
      /\ d => fn \in DistinctFns
      /\ (n \/ order # <<>> \/ l # -1) => fn \in OrderedFns
      /\ input' = [spec |-> Agg(fn, d, n, order, l), args |-> args]

\* What an aggregate is of: its arguments without NULLs or repetitions, in
\* order, and no more than its limit.
aggregated(spec, args) ==
  LET kept(i) == ~((spec.ignoreNulls \/ spec.distinct) /\ isNull(args[i][1]))
      first(i) == \A j \in 1..(i - 1) : kept(j) => compareValues(args[j][1], args[i][1]) # 0
      chosen == SelectSeq([i \in DOMAIN args |-> i], LAMBDA i : kept(i) /\ (spec.distinct => first(i)))
      inOrder == stableSort(chosen, LAMBDA i, j : compareOrder(spec.order, <<args[i][1]>>, <<args[j][1]>>) < 0)
      n == IF spec.limit >= 0 /\ spec.limit < Len(inOrder) THEN spec.limit ELSE Len(inOrder)
  IN [i \in 1..n |-> args[inOrder[i]]]

aggregateMeans(fn, xs, v) ==
  LET some == SelectSeq([i \in DOMAIN xs |-> xs[i][1]], LAMBDA x : ~isNull(x))
      sum == FoldLeft(LAMBDA a, x : a + x[2], 0, some)
      trues == SelectSeq(some, LAMBDA x : x[2] = 1)
      numbers == SelectSeq(some, LAMBDA x : x # NaN)
  IN CASE fn = "count" -> v = int(Len(some))
       [] fn = "countif" -> v = int(Len(trues))
       [] fn = "array" -> v = IF xs = <<>> THEN Null ELSE <<"array", [i \in DOMAIN xs |-> xs[i][1]]>>
       [] fn = "string" -> (isNull(v) <=> \A i \in DOMAIN xs : \/ isNull(xs[i][1])
                                                           \/ \A j \in 1..i : isNull(xs[j][2]) \/ isNull(xs[j][1]))
       [] some = <<>> -> v = Null
       [] fn = "sum" -> v = IF sum \in Ints THEN int(sum) ELSE Refused
       [] fn = "any" -> v = some[1]
       [] fn = "and" -> v = <<"bool", IF Len(trues) = Len(some) THEN 1 ELSE 0>>
       [] fn = "or" -> v = <<"bool", IF trues # <<>> THEN 1 ELSE 0>>
       [] Len(numbers) < Len(some) -> v = NaN
       [] OTHER -> /\ v \in ToSet(some)
                   /\ \A i \in DOMAIN some :
                        IF fn = "max" THEN compareValues(some[i], v) <= 0 ELSE compareValues(v, some[i]) <= 0

\* An aggregate with DISTINCT, IGNORE NULLS, ORDER BY and LIMIT is the aggregate
\* of the arguments these leave, in their order; a SUM that overflows is reported
\* and NaN wins in MIN and MAX (aggregates.go).
AggregatesAgree ==
  taken("aggregate") =>
    LET spec == input.spec
        r == FoldLeft(LAMBDA t, a : IF stateFailed(spec.fn, t.st) THEN t ELSE runnerAdd(spec, t, a, <<a[1]>>),
                      NewRunner(spec), input.args)
        v == IF stateFailed(spec.fn, r.st) THEN Refused ELSE runnerResult(spec, r)
    IN aggregateMeans(spec.fn, aggregated(spec, input.args), v)
-----------------------------------------------------------------------------
(* Tables with history, and sketches *)

CellsAt(times, base) == LET s == SetToSortSeq(times, >) IN [i \in DOMAIN s |-> [ts |-> s[i], val |-> base + s[i]]]
Temporal(h, asOf, after, afterEq, b, n) ==
  [history |-> h, asOf |-> asOf, after |-> after, afterEq |-> afterEq, before |-> b, latestN |-> n]

TakeFamily ==
  Take("family") /\ \E s, t \in SUBSET {1, 2, 3} : \E h \in BOOLEAN, asOf \in {Unset, int(2)}, b \in {Unset, int(3)} :
    \E after, afterEq \in {Unset, int(1), Null}, n \in {Unset, int(0), int(1), int(2)} :
      LET spec == Temporal(h, asOf, after, afterEq, b, n)
      IN /\ validTemporal(spec)
         /\ input' = [spec |-> spec, family |-> (1 :> CellsAt(s, 10)) @@ (2 :> CellsAt(t, 20))]

newestFirst(times, n) == {t \in times : Cardinality({u \in times : u > t}) < n}

\* A query sees a row exactly if one of its families has a value; without
\* history a column shows its newest cell among those that pass, with history the
\* newest latest_n of them; as_of shows what the family was at that instant; and
\* UNPACK turns a history into rows, newest first, in which every cell is found
\* exactly once (source.go).
HistoryUnpacks ==
  taken("family") =>
    LET t == input.spec
        f == input.family
        v == buildFamilyValue(t, f)
        limit == IF ~t.history THEN 1 ELSE IF isSet(t.latestN) THEN t.latestN[2] ELSE 10
        times(q) == newestFirst({f[q][i].ts : i \in {j \in DOMAIN f[q] : pass(t, f[q][j].ts)}}, limit)
        rows == unpack(<<int(9), v>>)
        cellsOf(r) == IF isNull(r[2]) THEN {} ELSE {<<r[2][2][i][2], r[3][2], r[2][3][i][2]>> : i \in DOMAIN r[2][2]}
        cells == UNION {{<<q, ts, 10 * q + ts>> : ts \in times(q)} : q \in 1..2}
        then == [q \in 1..2 |-> SelectSeq(f[q], LAMBDA c : c.ts <= t.asOf[2])]
    IN /\ isSet(t.asOf) => v = buildFamilyValue([t EXCEPT !.asOf = Unset], then)
       /\ visible(t, f) <=> ~isNull(v)
       /\ ~t.history /\ ~isNull(v) => {<<v[2][i][2], v[3][i][2]>> : i \in DOMAIN v[2]} = {<<c[1], c[3]>> : c \in cells}
       /\ t.history =>
            /\ \A i \in 1..(Len(rows) - 1) : rows[i][3][2] > rows[i + 1][3][2]
            /\ \A i \in DOMAIN rows : cellsOf(rows[i]) # {} /\ rows[i][1] = int(9)
            /\ UNION {cellsOf(rows[i]) : i \in DOMAIN rows} = cells
            /\ FoldLeft(LAMBDA n, r : n + Cardinality(cellsOf(r)), 0, rows) = Cardinality(cells)

Hashes == {0, 1, 4, 5, 17, 32, 36, 63}
SmallSets(S, n) == {T \in SUBSET S : Cardinality(T) <= n}

TakeSketch ==
  Take("sketch") /\ \E p, q \in 3..4 : \E A, B \in SmallSets(Hashes, 3) :
    input' = [p |-> p, q |-> q, A |-> A, B |-> B]

added(p, S) == FoldSet(LAMBDA x, h : addHash(h, x), newHLLPrecision(p), S)

\* Merging the sketches of two sets gives the sketch of their union at the lower
\* precision, sparse or dense as a sketch built from the union would be, and a
\* sketch survives being stored (hll.go).
MergeIsUnion ==
  taken("sketch") =>
    LET a == added(input.p, input.A)
        b == added(input.q, input.B)
        low == IF input.p < input.q THEN input.p ELSE input.q
    IN /\ a = sketchOf(input.p, input.A)
       /\ Merge(a, b) = sketchOf(low, input.A \cup input.B)
       /\ DecodeHLL(Encode(b)) = b
-----------------------------------------------------------------------------
NextQuery ==
  \/ TakeValues \/ TakeGroupKeys \/ TakeMap \/ TakeWire
  \/ TakeArithmetic \/ TakeIn \/ TakeLike
  \/ TakeKey \/ TakeKeyOrder \/ TakeInts
  \/ TakeWhere \/ TakeWhere3
  \/ TakePlain \/ TakeGrouped \/ TakeAggregate
  \/ TakeFamily \/ TakeSketch

-----------------------------------------------------------------------------
(* What each part promises, for every input of its kinds.                    *)

\* Order, equality, group keys and map look-ups of values agree, and a value
\* comes back from the wire and from a cell as it was (values.go).
ValuesSound == ValuesOrdered /\ GroupKeysApart /\ MapLookup /\ WireRoundTrip

\* Checked arithmetic, IN, BETWEEN and LIKE are what they mean, overflows and
\* NULLs included (ops.go).
OperatorsSound == ArithmeticExact /\ ThreeValued /\ LikeMatches

\* Row keys and their fields convert into one another without loss, and keys
\* sort as the values they are made of (keycodec.go, mv.go).
KeysSound == KeyRoundTrip /\ KeysOrderedLikeValues /\ OneEncodingPerInt

\* A query returns the window it asks for, over rows with their histories, of
\* groups that divide the rows and aggregates and sketches that depend on the
\* rows of a group only (exec.go, aggregates.go, source.go, hll.go).
QueriesSound ==
  /\ QueryReturnsWindow /\ GroupsPartition /\ AggregatesAgree
  /\ HistoryUnpacks /\ MergeIsUnion
=============================================================================
