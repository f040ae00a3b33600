-------------------------------- MODULE Keys --------------------------------
(* Stable sorting, and sets of keys in order.                                *)
EXTENDS KeyRanges, FiniteSets, SequencesExt

\* sort.SliceStable
stableSort(seq, before(_, _)) ==
  LET put(out, x) == SelectSeq(out, LAMBDA y : ~before(x, y)) \o <<x>> \o
                     SelectSeq(out, LAMBDA y : before(x, y))
  IN FoldLeft(put, <<>>, seq)

\* The keys of a set in order.
sorted(keys, reversed) ==
  stableSort(FoldSet(LAMBDA k, seq : Append(seq, k), <<>>, keys),
             LAMBDA a, b : IF reversed THEN less(b, a) ELSE less(a, b))

isSorted(seq, before(_, _)) == \A i \in 1..(Len(seq) - 1) : ~before(seq[i + 1], seq[i])
=============================================================================
