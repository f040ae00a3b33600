------------------------------ MODULE RowFilter -----------------------------
(* Row filters (filter.go).  A row is the sequence of its cells in the order *)
(* of normalize: by family, by qualifier, newest first, cells that agree in  *)
(* all three in the order they came.  A regular expression is the set of     *)
(* names it matches (external), a sampled row the outcome of the draw.       *)
EXTENDS Keys

CONSTANT MaxFilterDepth      \* maxFilterDepth

\* A filter message that is absent, and one that is there and sets nothing.
NoFilter == [kind |-> "nil"]
EmptyFilter == [kind |-> "empty"]
NoLabel == "none"

sameColumn(a, b) == a.fam = b.fam /\ a.col = b.col

before(a, b) ==
  \/ a.fam < b.fam
  \/ a.fam = b.fam /\ a.col < b.col
  \/ sameColumn(a, b) /\ a.ts > b.ts

\* The rows of a filter keep no empty column or family.
normalize(seq) == stableSort(seq, before)
mergeCells(dst, src) == normalize(dst \o src)

-----------------------------------------------------------------------------
(* Validation *)

subFilters(f) ==
  IF f.kind \in {"chain", "interleave"} THEN f.subs
  ELSE IF f.kind = "condition" THEN <<f.if, f.then, f.else>>
  ELSE <<>>

RECURSIVE containsLabelTransformer(_)
containsLabelTransformer(f) ==
  \/ f.kind = "label"
  \/ f.kind \in {"chain", "interleave"} /\ \E i \in DOMAIN f.subs : containsLabelTransformer(f.subs[i])
  \/ f.kind = "condition" /\ (containsLabelTransformer(f.then) \/ containsLabelTransformer(f.else))

labelled(f) == {i \in DOMAIN f.subs : containsLabelTransformer(f.subs[i])}

\* A chain labels a cell at most once.
oneLabel(f) == \A i, j \in labelled(f) : i = j

\* The arguments of a leaf.
validArguments(f) ==
  /\ f.kind = "times" => f.lo >= 0 /\ f.hi >= 0
  /\ f.kind \in {"rowOffset", "rowLimit", "columnLimit"} => f.n >= 0
  /\ f.kind = "bitmask" => f.len > 0

RECURSIVE validateFilterAt(_, _, _)
validateFilterAt(f, depth, inCondition) ==
  \/ f = NoFilter
  \/ /\ depth <= MaxFilterDepth
     /\ f.kind \in {"chain", "interleave"} => Len(f.subs) >= 2
     /\ f.kind = "chain" => oneLabel(f)
     /\ f.kind = "sink" => ~inCondition
     /\ validArguments(f)
     /\ \A i \in DOMAIN subFilters(f) :
          validateFilterAt(subFilters(f)[i], depth + 1, inCondition \/ f.kind = "condition")

validateFilter(f) == validateFilterAt(f, 0, FALSE)

-----------------------------------------------------------------------------
(* Evaluation *)

\* A value or qualifier within the bounds of a range filter.
within(x, f) ==
  /\ f.start = "open" => x > f.lo
  /\ f.start = "closed" => x >= f.lo
  /\ f.end = "closed" => x <= f.hi
  /\ f.end = "open" => x < f.hi

\* The bits of a value of one byte; the empty value is 0.
bits(v) == {b \in 0..(ByteBits - 1) : (v \div 2^b) % 2 = 1}

includeCell(f, c) ==
  CASE f.kind \in {"strip", "label"} -> TRUE
    [] f.kind = "family"   -> c.fam \in f.names
    [] f.kind = "column"   -> c.col \in f.names
    [] f.kind = "value"    -> c.val \in f.names
    [] f.kind = "columns"  -> c.fam = f.fam /\ within(c.col, f)
    [] f.kind = "values"   -> within(c.val, f)
    [] f.kind = "bitmask"  -> f.len = (IF c.val = 0 THEN 0 ELSE 1) /\ f.mask \subseteq bits(c.val)
    [] f.kind = "times"    -> c.ts >= f.lo /\ (f.hi = 0 \/ c.ts < f.hi)

modifyCell(f, c) ==
  CASE f.kind = "strip" -> [c EXCEPT !.val = 0]
    [] f.kind = "label" -> [c EXCEPT !.label = f.name, !.labels = @ + 1]
    [] OTHER -> c

\* The cells of a column past the first n.
rankInColumn(row, i) == Cardinality({j \in 1..i : sameColumn(row[j], row[i])})

columnLimit(row, n) ==
  LET keep == {i \in DOMAIN row : rankInColumn(row, i) <= n}
  IN FoldLeft(LAMBDA out, i : IF i \in keep THEN Append(out, row[i]) ELSE out,
              <<>>, [i \in DOMAIN row |-> i])

rowLimit(row, n) == SubSeq(row, 1, IF n < Len(row) THEN n ELSE Len(row))

rowOffset(row, n) == SubSeq(row, n + 1, Len(row))

\* A filter takes a row and gives the cells it passes on and those it sank.
RECURSIVE evalFilter(_, _)

\* Mutant: what an earlier filter of the chain sank is lost.
evalChainLastSink(subs, row) ==
  FoldLeft(LAMBDA s, sub : evalFilter(sub, s.out), [out |-> row, sink |-> <<>>], subs)

evalChain(subs, row) ==
  FoldLeft(LAMBDA s, sub : LET r == evalFilter(sub, s.out)
                           IN [out |-> r.out, sink |-> mergeCells(s.sink, r.sink)],
           [out |-> row, sink |-> <<>>], subs)

evalInterleave(subs, row) ==
  FoldLeft(LAMBDA s, sub : LET r == evalFilter(sub, row)
                           IN [out |-> mergeCells(s.out, r.out), sink |-> mergeCells(s.sink, r.sink)],
           [out |-> <<>>, sink |-> <<>>], subs)

\* The sink of a predicate is thrown away; a missing branch passes nothing.
evalCondition(f, row) ==
  LET next == IF evalFilter(f.if, row).out # <<>> THEN f.then ELSE f.else
  IN IF next = NoFilter THEN [out |-> <<>>, sink |-> <<>>] ELSE evalFilter(next, row)

evalFilter(f, row) ==
  LET passing(out) == [out |-> out, sink |-> <<>>]
  IN CASE f.kind \in {"nil", "empty", "pass"} -> passing(row)
       [] f.kind = "block" -> passing(<<>>)
       [] f.kind = "sink" -> [out |-> <<>>, sink |-> row]
       [] f.kind = "chain" -> evalChain(f.subs, row)
       [] f.kind = "interleave" -> evalInterleave(f.subs, row)
       [] f.kind = "condition" -> evalCondition(f, row)
       [] f.kind \in {"rowKey", "sample"} -> passing(IF f.match THEN row ELSE <<>>)
       [] f.kind = "columnLimit" -> passing(columnLimit(row, f.n))
       [] f.kind = "rowLimit" -> passing(rowLimit(row, f.n))
       [] f.kind = "rowOffset" -> passing(rowOffset(row, f.n))
       [] OTHER -> passing(normalize(FoldLeft(LAMBDA out, c :
                     IF includeCell(f, c) THEN Append(out, modifyCell(f, c)) ELSE out, <<>>, row)))

filterRow(f, row) ==
  LET r == evalFilter(f, row) IN mergeCells(r.out, r.sink)

-----------------------------------------------------------------------------
(* The reference: how often a filter without limits and conditions passes    *)
(* and sinks a cell, without a row and without an order.                     *)

RECURSIVE passes(_, _), sinks(_, _)
passes(f, c) ==
  CASE f.kind \in {"nil", "empty", "pass"} -> 1
    [] f.kind \in {"block", "sink"} -> 0
    [] f.kind = "chain" -> FoldLeft(LAMBDA n, sub : n * passes(sub, c), 1, f.subs)
    [] f.kind = "interleave" -> FoldLeft(LAMBDA n, sub : n + passes(sub, c), 0, f.subs)
    [] OTHER -> IF includeCell(f, c) THEN 1 ELSE 0

sinks(f, c) ==
  CASE f.kind = "sink" -> 1
    [] f.kind = "chain" ->
         FoldLeft(LAMBDA s, sub : <<s[1] * passes(sub, c), s[2] + s[1] * sinks(sub, c)>>,
                  <<1, 0>>, f.subs)[2]
    [] f.kind = "interleave" -> FoldLeft(LAMBDA n, sub : n + sinks(sub, c), 0, f.subs)
    [] OTHER -> 0
=============================================================================
