------------------------------ MODULE Pushdown ------------------------------
(* Key ranges of a WHERE clause (pushdown.go).  A condition is a tree; its   *)
(* leaves compare the key with constants, or are conditions on something     *)
(* else, given by the keys of the rows they hold on.  A range may have no    *)
(* end.                                                                      *)
EXTENDS SqlLogic

NoEnd == <<-1>>
rangeOf(start, end) == [start |-> start, end |-> end]
prefixed(p) == rangeOf(p, IF prefixSuccessor(p) = <<>> THEN NoEnd ELSE prefixSuccessor(p))
single(k) == rangeOf(k, keySuccessor(k))

emptyRange(r) == r.end # NoEnd /\ ~less(r.start, r.end)

\* cmpEnd(a, b) < 0
endsBefore(a, b) == a # NoEnd /\ (b = NoEnd \/ less(a, b))

mergeRange(out, r) ==
  IF out # <<>> /\ (Last(out).end = NoEnd \/ ~less(Last(out).end, r.start))
  THEN IF endsBefore(Last(out).end, r.end) THEN [out EXCEPT ![Len(out)].end = r.end] ELSE out
  ELSE Append(out, r)

normalizeRanges(rs) ==
  FoldLeft(mergeRange, <<>>,
           stableSort(SelectSeq(rs, LAMBDA r : ~emptyRange(r)),
                      LAMBDA a, b : less(a.start, b.start)))

intersect(x, y) ==
  rangeOf(IF less(x.start, y.start) THEN y.start ELSE x.start,
          IF endsBefore(y.end, x.end) THEN y.end ELSE x.end)

intersectRanges(a, b) ==
  normalizeRanges(FlattenSeq([i \in DOMAIN a |-> [j \in DOMAIN b |-> intersect(a[i], b[j])]]))

Unconstrained == <<"any">>
constrained(rs) == <<"ranges", rs>>
isConstrained(x) == x[1] = "ranges"

\* The keys of a list that are not NULL.
singles(list) ==
  LET keys == SelectSeq(list, LAMBDA v : ~isNull(v)) IN [i \in DOMAIN keys |-> single(keys[i][2])]

flip(op) == CASE op = "lt" -> "gt" [] op = "le" -> "ge" [] op = "gt" -> "lt" [] op = "ge" -> "le" [] OTHER -> op

comparisonRange(op, v) ==
  CASE op = "eq" -> single(v)
    [] op = "lt" -> rangeOf(<<>>, v)
    [] op = "le" -> rangeOf(<<>>, keySuccessor(v))
    [] op = "gt" -> rangeOf(keySuccessor(v), NoEnd)
    [] op = "ge" -> rangeOf(v, NoEnd)

RECURSIVE rangesFor(_)

rangesForAnd(l, r) ==
  CASE isConstrained(l) /\ isConstrained(r) -> constrained(intersectRanges(normalizeRanges(l[2]), normalizeRanges(r[2])))
    [] isConstrained(l) -> l
    [] OTHER -> r

\* Mutant: one side of an OR is enough.
rangesForOrEither(l, r) ==
  CASE isConstrained(l) /\ isConstrained(r) -> constrained(normalizeRanges(l[2] \o r[2]))
    [] isConstrained(l) -> l
    [] OTHER -> r

rangesForOr(l, r) ==
  IF isConstrained(l) /\ isConstrained(r) THEN constrained(normalizeRanges(l[2] \o r[2])) ELSE Unconstrained

rangesFor(e) ==
  CASE e.op = "and" -> rangesForAnd(rangesFor(e.l), rangesFor(e.r))
    [] e.op = "or" -> rangesForOr(rangesFor(e.l), rangesFor(e.r))
    [] e.op \in {"in", "unnest"} -> constrained(singles(e.list))
    [] e.op \in {"not", "other"} -> Unconstrained
    [] e.op = "between" -> constrained(IF isNull(e.c) \/ isNull(e.hi) THEN <<>>
                                       ELSE <<rangeOf(e.c[2], keySuccessor(e.hi[2]))>>)
    [] isNull(e.c) -> constrained(<<>>)
    [] e.op = "starts" -> constrained(<<prefixed(e.c[2])>>)
    [] e.op = "like" ->
         LET p == likePrefix(e.c[2])
         IN constrained(<<IF p.exact THEN single(p.prefix) ELSE prefixed(p.prefix)>>)
    [] OTHER -> constrained(<<comparisonRange(IF e.flipped THEN flip(e.op) ELSE e.op, e.c[2])>>)

keyRanges(e) ==
  LET rs == rangesFor(e)
  IN IF isConstrained(rs) THEN normalizeRanges(rs[2]) ELSE <<rangeOf(<<>>, NoEnd)>>

-----------------------------------------------------------------------------
(* What the condition is for the row with key k.                             *)

RECURSIVE evalWhere(_, _)
evalWhere(e, k) ==
  LET key == <<"bytes", k>>
  IN CASE e.op = "and" -> evalAnd(evalWhere(e.l, k), evalWhere(e.r, k))
       [] e.op = "or" -> evalOr(evalWhere(e.l, k), evalWhere(e.r, k))
       [] e.op = "not" -> negated(evalWhere(e.l, k))
       [] e.op = "other" -> IF k \in e.on THEN "T" ELSE "F"
       [] e.op = "in" -> inResult(key, e.list)
       [] e.op = "unnest" -> inUnnest(key, <<"array", e.list>>)
       [] e.op = "between" -> between(key, e.c, e.hi)
       [] isNull(e.c) -> "N"
       [] e.op = "starts" -> IF IsPrefix(e.c[2], k) THEN "T" ELSE "F"
       [] e.op = "like" -> like(k, e.c[2])
       [] OTHER -> IF e.flipped THEN compared(e.op, e.c, key) ELSE compared(e.op, key, e.c)

\* The rows of a table scanned range after range.
scanRanges(rs, keys) ==
  FlattenSeq([i \in DOMAIN rs |->
    sorted({k \in keys : ~less(k, rs[i].start) /\ (rs[i].end = NoEnd \/ less(k, rs[i].end))}, FALSE)])
=============================================================================
