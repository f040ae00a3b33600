------------------------------ MODULE MCReads -------------------------------
(* The read path, row filters, access targets, sessions, listings and query  *)
(* streams against reference definitions.                                    *)
EXTENDS ReadPath, RowFilter, ViewPolicy, Sessions, Listing, QueryStream, Cases

ReadKinds == {"range", "read", "chunks", "samples", "filter", "label", "target", "session",
              "pages", "backups", "operations", "resume"}

-----------------------------------------------------------------------------
(* Ranges and read plans *)

ShortKeys == SeqsUpTo({0, 1, TopByte}, 2)
RowRanges(S) == [sk : {"closed", "open"}, s : S, ek : {"closed", "open"}, e : S]
                  \cup [sk : {"none"}, s : {<<>>}, ek : {"closed", "open"}, e : S]
                  \cup [sk : {"closed", "open"}, s : S, ek : {"none"}, e : {<<>>}]
                  \cup [sk : {"none"}, s : {<<>>}, ek : {"none"}, e : {<<>>}]

TakeRange == Take("range") /\ \E rr \in RowRanges(ShortKeys), k \in ShortKeys : input' = [rr |-> rr, k |-> k]

\* The half-open range a row range is turned into holds exactly the keys within
\* its bounds, whichever of them are open, closed or missing, and a range that is
\* refused as reversed holds no key (data_read.go, validation.go).
RangeMeansBounds == taken("range") => RangeMeans(input.rr, input.k)

\* The range of a row key prefix, which DropRowRange deletes, holds exactly the
\* keys with that prefix, also when the prefix ends in bytes that cannot be
\* incremented (table_admin.go prefixRange).
PrefixCovers == taken("range") => \A p \in {input.rr.s, input.rr.e} : PrefixMeans(p, input.k)

ReadKeys == {<<0>>, <<0, 0>>, <<1>>, <<TopByte>>}
SomeRanges == {[sk |-> "closed", s |-> <<0>>, ek |-> "open", e |-> <<1>>],
               [sk |-> "open", s |-> <<0>>, ek |-> "closed", e |-> <<1>>],
               [sk |-> "none", s |-> <<>>, ek |-> "closed", e |-> <<0>>],
               [sk |-> "open", s |-> <<0, 0>>, ek |-> "none", e |-> <<>>]}

TakeRead ==
  Take("read") /\ \E keys \in SUBSET {<<0>>, <<1>>, <<1, 1>>}, ranges \in SUBSET SomeRanges,
                     rows \in SUBSET ReadKeys, reversed \in BOOLEAN, limit \in 0..2 :
    \E hidden \in SUBSET (rows \cap {<<0>>, <<1>>}) :
      input' = [keys |-> keys, ranges |-> ranges, rows |-> rows, reversed |-> reversed,
                limit |-> limit, shown |-> rows \ hidden]

\* A read returns every row it asked for and may see once, by key or, reversed,
\* by falling key, however its keys and ranges overlap; and with a limit the first
\* so many of them, rows that the filter or the view hide not counted
\* (data_read.go load, ReadRows).
PlanReads ==
  taken("read") =>
    LET out == ReadRows(input.keys, input.ranges, input.reversed, input.limit, input.rows, input.shown)
        all == input.keys = {} /\ input.ranges = {}
        wanted == {k \in input.shown : all \/ k \in input.keys \/ \E rr \in input.ranges : inBounds(rr, k)}
        first(a, b) == IF input.reversed THEN less(b, a) ELSE less(a, b)
    IN /\ \A i, j \in DOMAIN out : i < j => first(out[i], out[j])
       /\ ToSet(out) \subseteq wanted
       /\ \A k \in wanted \ ToSet(out) : input.limit > 0 /\ Len(out) = input.limit /\ first(Last(out), k)

-----------------------------------------------------------------------------
(* What is sent *)

Values == {<<>>, <<5>>, <<5, 6>>, <<5, 6, 7>>}
CellSeqs == {<< <<1, 1, 5, v>> >> : v \in Values}
              \cup {<<a \o <<v>>, b \o <<w>> >> :
                      a \in {<<1, 1, 5>>}, b \in {<<1, 1, 4>>, <<1, 2, 5>>, <<2, 1, 5>>}, v \in Values, w \in Values}
              \cup {<< <<1, 1, 5, v>>, <<1, 2, 5, w>>, <<2, 2, 5, v>> >> : v \in Values, w \in Values}

TakeChunks ==
  Take("chunks") /\
    \/ \E c \in CellSeqs : input' = <<[key |-> <<1>>, cells |-> c]>>
    \/ \E c, d \in CellSeqs : input' = <<[key |-> <<1>>, cells |-> c], [key |-> <<2>>, cells |-> d]>>

\* Of the chunks of a ReadRows stream, which leave out what is as in the chunk
\* before and cut long values into pieces, a client puts the rows together again;
\* every response ends with a whole row and says something (data_read.go).
ChunksRebuild ==
  taken("chunks") =>
    LET sent == responses(input)
    IN /\ readResponses(sent).rows = input
       /\ \A i \in DOMAIN sent : sent[i] # <<>> /\ Last(sent[i]).commit

Splits == {<<>>, << <<0, 0>> >>, << <<0>>, <<1>> >>, << <<0>>, <<0, 0>>, <<TopByte>> >>}
Sizes == UNION {[rows -> {1, 3}] : rows \in SUBSET ReadKeys}

TakeSamples ==
  Take("samples") /\ \E rr \in RowRanges({<<0>>, <<1>>}),
                        splits \in Splits, size \in Sizes :
    \E hidden \in SUBSET (DOMAIN size \cap {<<1>>}) :
      input' = [rr |-> rr, splits |-> splits, size |-> size, shown |-> DOMAIN size \ hidden]

bytesOf(size, rows) == FoldSet(LAMBDA k, n : n + size[k], 0, rows)

soundSamples(out, rng, rows) ==
  LET upto(k) == {x \in rows : ~less(k, x)}
  IN /\ \A i \in 1..(Len(out) - 1) :
          /\ contains(rng, out[i][1])
          /\ less(out[i][1], out[i + 1][1]) \/ (out[i + 1][1] = <<>> /\ i + 1 = Len(out))
          /\ out[i][2] \in {bytesOf(input.size, upto(out[i][1]) \ {out[i][1]}),
                            bytesOf(input.size, upto(out[i][1]))}
     /\ Last(out) = <<IF input.rr.ek = "none" THEN <<>> ELSE input.rr.e, bytesOf(input.size, rows)>>

\* Samples are within the range asked for, strictly by key, and end with its end;
\* the offset of a sample is the size of the rows before its key, with or without
\* the row of that key, and the last one the size of them all (data_read.go
\* SampleRowKeys: "Sample keys are strictly increasing").
SamplesSound ==
  taken("samples") =>
    LET rng == rowRangeToKeyRange(input.rr)
    IN soundSamples(SampleRowKeys(input.rr, input.splits, input.size, input.shown), rng,
                    {k \in input.shown : contains(rng, k)})

-----------------------------------------------------------------------------
(* Filters *)

cellAt(fam, col, ts, val) == [fam |-> fam, col |-> col, ts |-> ts, val |-> val, label |-> NoLabel, labels |-> 0]
FilterCells == <<cellAt(1, 1, 2, 1), cellAt(1, 1, 1, 0), cellAt(1, 2, 2, 3), cellAt(2, 1, 2, 1)>>
FilterRows == {SelectSeq(FilterCells, LAMBDA c : c \in S) : S \in SUBSET ToSet(FilterCells)}

FilterLeaves == {[kind |-> "pass"], [kind |-> "block"], [kind |-> "sink"],
           [kind |-> "family", names |-> {1}], [kind |-> "column", names |-> {2}],
           [kind |-> "values", start |-> "closed", lo |-> 1, end |-> "open", hi |-> 3],
           [kind |-> "columns", fam |-> 1, start |-> "open", lo |-> 1, end |-> "none", hi |-> 0],
           [kind |-> "bitmask", len |-> 1, mask |-> {0}],
           [kind |-> "times", lo |-> 2, hi |-> 0]}
Pairs(A, B) == {[kind |-> k, subs |-> <<a, b>>] : k \in {"chain", "interleave"}, a \in A, b \in B}
Filters == FilterLeaves \cup Pairs(FilterLeaves, FilterLeaves) \cup
             Pairs(Pairs(FilterLeaves, {l \in FilterLeaves : l.kind \in {"pass", "sink", "times"}}),
                   {l \in FilterLeaves : l.kind \in {"pass", "sink", "family"}})

TakeFilter ==
  Take("filter") /\ \E f \in Filters, row \in {r \in FilterRows : Len(r) >= 3}, n \in 0..2 :
    input' = [f |-> f, row |-> row, n |-> n]

\* A cell comes out of a filter as often as its branches pass and sink it: chains
\* multiply, interleaves add, a sink takes its cells past the rest of its chain;
\* and the cells that come out are by family, qualifier and falling timestamp
\* (filter.go).
FilterCounts ==
  taken("filter") =>
    LET out == filterRow(input.f, input.row)
        count(c) == Cardinality({i \in DOMAIN out : out[i] = c})
    IN /\ \A c \in ToSet(FilterCells) :
            count(c) = IF c \in ToSet(input.row) THEN passes(input.f, c) + sinks(input.f, c) ELSE 0
       /\ isSorted(out, before)

\* What a row limit keeps of any filter's cells and what the row offset of the
\* same number keeps are these cells, in order; a column limit keeps that many of
\* every column, the newest (filter.go).
CellsPaged ==
  taken("filter") =>
    LET out == evalFilter(input.f, input.row).out
        kept(k) == evalFilter([kind |-> "chain", subs |-> <<input.f, [kind |-> k, n |-> input.n]>>], input.row).out
        column(s, c) == SelectSeq(s, LAMBDA x : sameColumn(x, c))
        upto(s) == SubSeq(s, 1, IF input.n < Len(s) THEN input.n ELSE Len(s))
    IN /\ kept("rowLimit") \o kept("rowOffset") = out
       /\ \A c \in ToSet(FilterCells) : column(kept("columnLimit"), c) = upto(column(out, c))

Labels == {[kind |-> "label", name |-> l] : l \in {"a", "b"}}
SomeLeaves == {[kind |-> "pass"], [kind |-> "family", names |-> {1}]}
Conditions == {[kind |-> "condition", if |-> i, then |-> t, else |-> e] :
                 i \in SomeLeaves \cup {[kind |-> "rowKey", match |-> FALSE]}, t \in Labels, e \in Labels \cup {NoFilter, EmptyFilter}}
Labelling == Labels \cup {[kind |-> "strip"]} \cup Pairs(Labels \cup SomeLeaves, Labels \cup SomeLeaves) \cup Conditions

TakeLabel ==
  Take("label") /\ \E a, b \in Labelling, k \in {"chain", "interleave"}, row \in {SubSeq(FilterCells, 1, 2), SubSeq(FilterCells, 3, 4)} :
    input' = [f |-> [kind |-> k, subs |-> <<a, b>>], row |-> row]

\* A filter that passes validation gives no cell two labels, however its chains,
\* interleaves and conditions are nested (filter.go validateFilterAt).
OneLabelPerCell ==
  taken("label") /\ validateFilter(input.f) =>
    \A i \in DOMAIN filterRow(input.f, input.row) : filterRow(input.f, input.row)[i].labels <= 1

\* Of the copies of a cell that the branches of an interleave pass, those of an
\* earlier branch come first (filter.go mergeCells, normalize).
BranchesInOrder ==
  taken("label") /\ input.f.kind = "interleave" =>
    LET copies(g, c) == SelectSeq(evalFilter(g, input.row).out, LAMBDA x : ~before(x, c) /\ ~before(c, x))
    IN \A c \in ToSet(FilterCells) :
         copies(input.f, c) = copies(input.f.subs[1], c) \o copies(input.f.subs[2], c)

-----------------------------------------------------------------------------
(* Views and sessions *)

Families == [qualifiers : SUBSET {<<1>>}, prefixes : SUBSET {<<>>, <<1>>}]
Views == {[rowPrefixes |-> r, families |-> f] :
            r \in {{}, {<<>>}, {<<1>>}},
            f \in {<<>>} \cup {<<x>> : x \in Families}
                    \cup {<<x, [qualifiers |-> {}, prefixes |-> {<<>>}]>> : x \in Families}}
Columns == {<<1, <<1>> >>, <<1, <<1, 2>> >>, <<1, <<2>> >>, <<2, <<1>> >>}
Mutations == {[op |-> o, fam |-> c[1], col |-> c[2]] : o \in {"set", "deleteColumn"}, c \in Columns}
               \cup {[op |-> "deleteFamily", fam |-> f] : f \in 1..2} \cup {[op |-> "deleteRow"]}

TakeTarget ==
  Take("target") /\ \E view \in Views, key \in {<<1>>, <<2>>}, row \in {{}, Columns},
                       muts \in SeqsUpTo(Mutations, 2) :
    input' = [view |-> view, key |-> key, row |-> row, muts |-> muts]

\* A write through an authorized view that is let through leaves every cell the
\* view does not show as it was, and adds none that it does not show (targets.go
\* checkMutations, restrict).
WritesStayInView ==
  taken("target") => StaysInView(input.view, input.key, input.row, input.muts)

Profiles == {<<>>, [p |-> "any"], [p |-> "dataBoost"]}
Nows == {"gone"} \cup {resolveAppProfile(r, ps, "p") : r \in BOOLEAN, ps \in Profiles}
Requests == [kind : {"read", "write", "close", "other", "unknown"}, perm : {"none"}]
              \cup [kind : {"open"}, perm : {"none", "read", "write"}]

TakeSession ==
  Take("session") /\ \E type \in {"table", "mv"}, n \in 1..3 :
    \E reqs \in [1..n -> Requests], nows \in [1..n -> Nows] :
      input' = [type |-> type, nows |-> nows,
                reqs |-> [i \in 1..n |-> [kind |-> reqs[i].kind, perm |-> reqs[i].perm, id |-> i]]]

\* A session stream answers the request that opens it and then every request, in
\* order and with its id, until one ends it; and a row is written exactly when the
\* session was granted writes and, as of that request, its target can still be
\* written (session_streaming.go).
SessionContract == taken("session") => ContractHolds(input.type, input.reqs, input.nows)

-----------------------------------------------------------------------------
(* Listings and operations *)

TakePages ==
  Take("pages") /\ \E lists \in [1..3 -> SUBSET (1..4)], size \in 0..3 : input' = [lists |-> lists, size |-> size]

\* Long enough for a listing of the model to end.
MaxPages == 6

\* Listing by name (operations.go paginate); the last of the lists stays.
PagesCoverOnce ==
  taken("pages") =>
    LET lists == [i \in 1..MaxPages |-> input.lists[IF i > 3 THEN 3 ELSE i]]
    IN ListedOnce(lists, input.size) /\ ~walk(lists, input.size).more

Terms == {<<>>, <<[field |-> "start", op |-> ">=", value |-> 2]>>,
          <<[field |-> "table", op |-> ":", value |-> <<2>>], [field |-> "expire", op |-> "!=", value |-> 1]>>}
BackupOrders == {<<>>, <<"start", "asc">>, <<"expire", "desc">>}

TakeBackups ==
  Take("backups") /\ \E n \in 0..3 : \E bs \in [1..n -> [start : 1..2, expire : 1..2, table : {<<1>>, <<1, 2>>}]],
                     now \in 1..2, filter \in Terms, order \in BackupOrders, size \in -1..2, parent \in {AnyCluster, 1} :
    input' = [all |-> [i \in 1..n |-> [name |-> i, cluster |-> IF i < 3 THEN 1 ELSE 2, start |-> bs[i].start,
                                       expire |-> bs[i].expire, table |-> bs[i].table]],
              parent |-> parent, now |-> now, filter |-> filter, order |-> order, size |-> size]

\* Listing the backups of a cluster, or of all, page after page while none is
\* created or deleted returns every one that has not expired and matches the filter
\* exactly once, in the order asked for, by default the newest first, and by name
\* where that order does not decide (localcloud_backups.go).
BackupsPaged ==
  taken("backups") =>
    LET after[i \in 0..MaxPages] ==
          IF i = 0 THEN FirstPage
          ELSE turned(after[i - 1], ListBackups(input.all, input.parent, input.now, input.filter,
                                                input.order, input.size, after[i - 1].token))
        out == after[MaxPages].got
        key(b) == CASE input.order = <<>> -> -b.start
                    [] input.order = <<"start", "asc">> -> b.start
                    [] OTHER -> -b.expire
    IN /\ PagesDivide(listedBackups(input.all, input.parent, input.now, input.filter, input.order),
                      IF input.size < 0 THEN 0 ELSE input.size, MaxPages)
       /\ ~after[MaxPages].more
       /\ ToSet(out) = {b \in ToSet(input.all) :
                          under(b, input.parent) /\ input.now <= b.expire /\ backupMatches(b, input.filter)}
       /\ \A i, j \in DOMAIN out : i < j => \/ key(out[i]) < key(out[j])
                                            \/ key(out[i]) = key(out[j]) /\ out[i].name < out[j].name

Events == {<<"complete", "a">>, <<"complete", "b">>, <<"delete", 1>>, <<"delete", 2>>, <<"restart", 0>>}
TakeOperations == Take("operations") /\ \E es \in SeqsUpTo(Events, 5) : input' = es

\* Operations stay under the names their clients know, and listing finds them
\* all (operations.go).
OperationsKept ==
  taken("operations") =>
    LET o == operationsAfter(3, input)
    IN /\ NamesKept(3, input)
       /\ ToSet(ListOperations(o, "any", 0, 0).page)
            = {o.told[i].name : i \in DOMAIN o.told \ o.deleted}

-----------------------------------------------------------------------------
(* Query streams *)

NoCut == 9
TakeResume ==
  Take("resume") /\ \E sizes \in SeqsUpTo(1..2, 3), cuts \in SeqsUpTo(0..2, 2), md \in 1..2, prep, changed \in BOOLEAN :
    \E mds \in [1..(Len(cuts) + 1) -> 0..2] :
      input' = [rows |-> [i \in DOMAIN sizes |-> [id |-> i, size |-> sizes[i]]],
                cuts |-> Append(cuts, NoCut), changed |-> changed,
                token |-> PrepareQuery(1, 1, <<md>>), prep |-> prep, catalogs |-> [i \in DOMAIN mds |-> <<mds[i]>>]]

\* A client whose streams break and who resumes each with the last token it got
\* receives every row once and in order while the query keeps its columns and its
\* result, and none of a prepared query that has other columns than it was told;
\* when the first row is deleted after the first stream, it still has each row at
\* the position it had in one of the results; a stream that does not break ends it
\* (query_service.go).
ResumeDeliversOnce ==
  taken("resume") =>
    LET now(i) == IF input.changed /\ i > 1 /\ input.rows # <<>> THEN Tail(input.rows) ELSE input.rows
        results == [i \in DOMAIN input.cuts |-> now(i)]
    IN /\ ResumedOnce(input.prep, input.token, input.catalogs, input.rows, input.cuts)
       /\ ResumedByPosition(input.prep, input.token, input.catalogs, results, input.cuts)
       /\ ~resumed(input.prep, input.token, input.catalogs, results, input.cuts).open

-----------------------------------------------------------------------------
NextRead ==
  \/ TakeRange \/ TakeRead \/ TakeChunks \/ TakeSamples
  \/ TakeFilter \/ TakeLabel
  \/ TakeTarget \/ TakeSession
  \/ TakePages \/ TakeBackups \/ TakeOperations
  \/ TakeResume

-----------------------------------------------------------------------------
(* What each part promises, for every input of its kinds.                    *)

\* Ranges, prefixes and plans read the keys asked for, once and in order, and
\* the chunks and samples a client gets stand for them (data_read.go).
ReadsSound ==
  RangeMeansBounds /\ PrefixCovers /\ PlanReads /\ ChunksRebuild /\ SamplesSound

\* A nested filter passes each cell as often as its branches do, in order, with
\* one label at most, and limits and offsets divide what it passes (filter.go).
FiltersSound == FilterCounts /\ CellsPaged /\ OneLabelPerCell /\ BranchesInOrder

\* A view is not written outside of what it shows, and a session answers in
\* order and writes only with the right to, as of each request (targets.go,
\* session_streaming.go).
AccessSound == WritesStayInView /\ SessionContract

\* Who goes on from a token, page after page or stream after stream, gets each
\* item once and in order, of the query prepared, and operations stay under
\* their names across restarts (operations.go, localcloud_backups.go,
\* query_service.go).  The items listed by name may come and go meanwhile; the
\* tokens that count, those of backups and of query results, promise it for a
\* list that stays the same.
TokensResume ==
  /\ PagesCoverOnce /\ BackupsPaged /\ OperationsKept
  /\ ResumeDeliversOnce
=============================================================================
