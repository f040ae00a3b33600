------------------------------ MODULE SqlSource -----------------------------
(* Rows of a table as a query sees them (source.go): the temporal arguments, *)
(* the value of a column family, and UNPACK.  A family is a function from    *)
(* column numbers to cells [ts, val], newest first; an argument of the table *)
(* is Unset, Null or an integer.                                             *)
EXTENDS SqlValues

Unset == <<"unset">>
isSet(a) == a # Unset

\* What newTableSource and temporalSpec.eval refuse.
validTemporal(t) ==
  /\ ~t.history => \A a \in {t.after, t.afterEq, t.before, t.latestN} : ~isSet(a)
  /\ ~(isSet(t.after) /\ isSet(t.afterEq))
  /\ \A a \in {t.asOf, t.after, t.afterEq, t.before} : a # Null
  /\ isSet(t.latestN) => t.latestN # Null /\ t.latestN[2] >= 1

pass(t, ts) ==
  /\ isSet(t.asOf) => ts <= t.asOf[2]
  /\ isSet(t.after) => ts > t.after[2]
  /\ isSet(t.afterEq) => ts >= t.afterEq[2]
  /\ isSet(t.before) => ts < t.before[2]

visible(t, family) == \E q \in DOMAIN family : \E i \in DOMAIN family[q] : pass(t, family[q][i].ts)

\* The passing cells, at most latest_n of them.
historyOf(t, cells) ==
  LET passing == SelectSeq(cells, LAMBDA c : pass(t, c.ts))
  IN IF isSet(t.latestN) /\ Len(passing) > t.latestN[2] THEN SubSeq(passing, 1, t.latestN[2]) ELSE passing

cellOf(t, history) ==
  IF t.history
  THEN <<"array", [i \in DOMAIN history |-> <<"array", <<<<"int", history[i].ts>>, <<"int", history[i].val>>>>>>]>>
  ELSE <<"int", history[1].val>>

\* NULL for a family without a passing cell.
buildFamilyValue(t, family) ==
  LET shown == {q \in DOMAIN family : historyOf(t, family[q]) # <<>>}
      names == SetToSortSeq(shown, <)
  IN IF shown = {} THEN Null
     ELSE <<"map", [i \in DOMAIN names |-> <<"int", names[i]>>],
                   [i \in DOMAIN names |-> cellOf(t, historyOf(t, family[names[i]]))]>>

-----------------------------------------------------------------------------
(* UNPACK: a row for each timestamp in the history columns of a row, newest  *)
(* first.  A column is a history map, or kept as it is.                      *)

isHistory(v) == v[1] = "map"
timesIn(v) == {v[3][i][2][j][2][1][2] : <<i, j>> \in {p \in (DOMAIN v[3]) \X (1..10) : p[2] <= Len(v[3][p[1]][2])}}
timesOf(vals) == UNION {timesIn(vals[i]) : i \in {j \in DOMAIN vals : isHistory(vals[j])}}

\* The entry of a history for one instant.
entryAt(history, ts) ==
  LET at == SelectSeq(history[2], LAMBDA e : e[2][1][2] = ts) IN IF at = <<>> THEN Unset ELSE at[1][2][2]

unpackColumn(v, ts) ==
  LET at == IF isHistory(v) THEN {i \in DOMAIN v[2] : isSet(entryAt(v[3][i], ts))} ELSE {}
      names == SetToSortSeq(at, <)
  IN CASE ~isHistory(v) -> v
       [] at = {} -> Null
       [] OTHER -> <<"map", [i \in DOMAIN names |-> v[2][names[i]]],
                            [i \in DOMAIN names |-> entryAt(v[3][names[i]], ts)]>>

unpack(vals) ==
  LET times == SetToSortSeq(timesOf(vals), >)
  IN [n \in DOMAIN times |->
        Append([i \in DOMAIN vals |-> unpackColumn(vals[i], times[n])], <<"int", times[n]>>)]
=============================================================================
