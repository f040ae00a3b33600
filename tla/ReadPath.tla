------------------------------ MODULE ReadPath ------------------------------
(* What a read selects and how it is sent: read plans, limits, the chunks of *)
(* ReadRows and the samples of SampleRowKeys (data_read.go, storage.go).     *)
EXTENDS Keys

CONSTANTS ChunkBytes,     \* readChunkValueBytes
          ResponseBytes,  \* readResponseBytes
          SampleBytes     \* sampleEveryBytes

-----------------------------------------------------------------------------
(* Read plans and ReadRows.  rows is the set of stored keys.                 *)

scan(rows, rng, reversed) ==
  IF empty(rng) THEN <<>> ELSE sorted({k \in rows : contains(rng, k)}, reversed)

\* Mutant: ranges are appended in the order of the request.
loadUnsorted(keys, ranges, reversed, rows) ==
  FoldSet(LAMBDA rr, out : out \o scan(rows, rowRangeToKeyRange(rr), reversed),
          sorted(keys \cap rows, reversed), ranges)

\* newReadPlan and readPlan.load.  No key and no range is the whole table.
load(keys, ranges, reversed, rows) ==
  IF keys = {} /\ ranges = {}
  THEN scan(rows, [start |-> <<>>, end |-> <<>>], reversed)
  ELSE sorted((keys \cap rows) \cup
                UNION {ToSet(scan(rows, rowRangeToKeyRange(rr), FALSE)) : rr \in ranges},
              reversed)

\* The loop of ReadRows: a row that is collected, outside the view or filtered
\* away does not count towards the limit.
ReadRows(keys, ranges, reversed, limit, rows, shown) ==
  FoldLeft(LAMBDA out, k : IF (limit > 0 /\ Len(out) >= limit) \/ k \notin shown
                           THEN out ELSE Append(out, k),
           <<>>, load(keys, ranges, reversed, rows))

-----------------------------------------------------------------------------
(* Chunks.  A row is its key and its cells in order, a cell <<family,        *)
(* qualifier, timestamp, value>>, a value a sequence of bytes.  Fields that  *)
(* are left out of a chunk are the empty sequence or -1.                     *)

pieces(value) ==
  LET n == IF value = <<>> THEN 1 ELSE (Len(value) + ChunkBytes - 1) \div ChunkBytes
      upto(i) == IF i * ChunkBytes < Len(value) THEN i * ChunkBytes ELSE Len(value)
  IN [i \in 1..n |-> SubSeq(value, (i - 1) * ChunkBytes + 1, upto(i))]

\* The chunks of cell i of row r.
cellChunks(r, i) ==
  LET cell == r.cells[i]
      ps == pieces(cell[4])
      newFamily == i = 1 \/ r.cells[i - 1][1] # cell[1]
      newQualifier == newFamily \/ r.cells[i - 1][2] # cell[2]
      first(j) == j = 1
  IN [j \in DOMAIN ps |->
       [key   |-> IF first(j) /\ i = 1 THEN r.key ELSE <<>>,
        fam   |-> IF first(j) /\ newFamily THEN cell[1] ELSE -1,
        col   |-> IF first(j) /\ newQualifier THEN cell[2] ELSE -1,
        ts    |-> IF first(j) THEN cell[3] ELSE 0,
        value |-> ps[j],
        size  |-> IF j < Len(ps) THEN Len(cell[4]) ELSE 0,
        commit |-> i = Len(r.cells) /\ j = Len(ps)]]

\* writeRow and flush: w is the response being filled and those sent.
writeRow(w, r) ==
  LET chunks == FlattenSeq([i \in DOMAIN r.cells |-> cellChunks(r, i)])
      filled == w.resp \o chunks
      bytes == FoldLeft(LAMBDA n, c : n + Len(c.value), 0, filled)
  IN IF bytes >= ResponseBytes
     THEN [resp |-> <<>>, sent |-> Append(w.sent, filled)]
     ELSE [w EXCEPT !.resp = filled]

responses(rows) ==
  LET w == FoldLeft(writeRow, [resp |-> <<>>, sent |-> <<>>], rows)
  IN IF w.resp = <<>> THEN w.sent ELSE Append(w.sent, w.resp)

\* The client library that puts rows together again (external).
readChunk(s, c) ==
  LET at == [key |-> IF c.key # <<>> THEN c.key ELSE s.at.key,
             fam |-> IF c.fam # -1 THEN c.fam ELSE s.at.fam,
             col |-> IF c.col # -1 THEN c.col ELSE s.at.col,
             ts  |-> IF s.part = <<>> THEN c.ts ELSE s.at.ts]
      value == s.part \o c.value
      cells == IF c.size > 0 THEN s.cells
               ELSE Append(s.cells, <<at.fam, at.col, at.ts, value>>)
  IN [at    |-> at,
      part  |-> IF c.size > 0 THEN value ELSE <<>>,
      cells |-> IF c.commit THEN <<>> ELSE cells,
      rows  |-> IF c.commit THEN Append(s.rows, [key |-> at.key, cells |-> cells]) ELSE s.rows]

readResponses(sent) ==
  FoldLeft(readChunk,
           [at |-> [key |-> <<>>, fam |-> -1, col |-> -1, ts |-> 0],
            part |-> <<>>, cells |-> <<>>, rows |-> <<>>],
           FlattenSeq(sent))

-----------------------------------------------------------------------------
(* SampleRowKeys.  size[k] is the size of the row with key k, shown the rows *)
(* in the view; splits are the initial splits, in order.                     *)

\* The splits up to a row.
takeSplits(s, rng, due) ==
  FoldLeft(LAMBDA t, p : [t EXCEPT !.next = @ + 1,
                                   !.samples = IF contains(rng, p) /\ less(t.last, p)
                                               THEN Append(@, <<p, t.offset>>) ELSE @],
           s, due)

\* A row counts, and is a sample when enough bytes lie between.
countRow(t, k, bytes) ==
  LET due == t.since + bytes >= SampleBytes
  IN [t EXCEPT !.offset = @ + bytes, !.last = k,
               !.since = IF due THEN 0 ELSE @ + bytes,
               !.samples = IF due THEN Append(@, <<k, t.offset + bytes>>) ELSE @]

splitsLeft(s, splits) == SubSeq(splits, s.next, Len(splits))

sampleRow(s, rng, splits, k, bytes) ==
  countRow(takeSplits(s, rng, SelectSeq(splitsLeft(s, splits), LAMBDA p : ~less(k, p))), k, bytes)

sampleRest(s, rng, splits) == takeSplits(s, rng, splitsLeft(s, splits))

\* The end of the range takes the place of the samples with its key.
sampleEnd(t, key) ==
  Append(SubSeq(t.samples, 1, SelectLastInSeq(t.samples, LAMBDA smp : smp[1] # key)), <<key, t.offset>>)

\* Of samples with one key the first is sent.
sendSamples(samples) ==
  FoldLeft(LAMBDA out, smp : IF out # <<>> /\ Last(out)[1] = smp[1] THEN out
                             ELSE Append(out, smp), <<>>, samples)

SampleRowKeys(rr, splits, size, shown) ==
  LET rng == rowRangeToKeyRange(rr)
      start == [samples |-> <<>>, offset |-> 0, since |-> 0, last |-> <<>>, next |-> 1]
      rows == SelectSeq(scan(DOMAIN size, rng, FALSE), LAMBDA k : k \in shown)
      counted == FoldLeft(LAMBDA t, k : sampleRow(t, rng, splits, k, size[k]), start, rows)
  IN sendSamples(sampleEnd(sampleRest(counted, rng, splits), IF rng.end = <<>> THEN <<>> ELSE rr.e))
=============================================================================
