---------------------------- MODULE QueryStream -----------------------------
(* PrepareQuery and ExecuteQuery (query_service.go).  A query is a number;   *)
(* the catalog gives its metadata, 0 if the query is not valid in it; a row  *)
(* is [id, size].                                                            *)
EXTENDS Integers, Sequences

CONSTANT QueryBatchBytes

NoToken == [instance |-> 0, query |-> 0, md |-> 0]

PrepareQuery(instance, query, catalog) ==
  IF catalog[query] = 0 THEN NoToken ELSE [instance |-> instance, query |-> query, md |-> catalog[query]]

prepared(token, instance, catalog) ==
  IF token.instance # instance THEN "invalid"
  ELSE IF catalog[token.query] = 0 \/ catalog[token.query] # token.md THEN "expired"
  ELSE "ok"

flush(s) ==
  IF s.batch = <<>> THEN s
  ELSE [s EXCEPT !.batch = <<>>, !.bytes = 0,
                 !.sent = Append(@, [md |-> 0, rows |-> s.batch, token |-> s.delivered])]

\* Mutant: the resume token counts the rows of this stream.
deliveredHere(s) == s.delivered + 1

deliveredRows(s) == s.index

queryRow(skip, s, row) ==
  LET t == [s EXCEPT !.index = @ + 1]
      u == [t EXCEPT !.batch = Append(@, row.id), !.bytes = @ + row.size, !.delivered = deliveredRows(t)]
  IN IF t.index <= skip THEN t
     ELSE IF u.bytes >= QueryBatchBytes THEN flush(u) ELSE u

\* The responses of a stream; resume is 0 without a resume token.
streamed(sendMetadata, md, rows, resume) ==
  LET first == IF sendMetadata THEN <<[md |-> md, rows |-> <<>>, token |-> 0]>> ELSE <<>>
      after[i \in 0..Len(rows)] ==
        IF i = 0 THEN [index |-> 0, delivered |-> 0, batch |-> <<>>, bytes |-> 0, sent |-> first]
        ELSE queryRow(resume, after[i - 1], rows[i])
  IN flush(after[Len(rows)]).sent

\* A prepared query, or a query of its own: the status and the responses.
ExecutePrepared(token, instance, catalog, rows, resume) ==
  LET st == prepared(token, instance, catalog)
  IN [status |-> st, sent |-> IF st = "ok" THEN streamed(FALSE, token.md, rows, resume) ELSE <<>>]

ExecuteQuery(query, catalog, rows, resume) ==
  IF catalog[query] = 0 THEN [status |-> "invalid", sent |-> <<>>]
  ELSE [status |-> "ok", sent |-> streamed(resume = 0, catalog[query], rows, resume)]

-----------------------------------------------------------------------------
(* A client whose i-th stream breaks after cuts[i] responses and who resumes *)
(* with the last token it has, until a stream ends or is refused (open is    *)
(* FALSE).  Every stream runs the query again, with results[i] as its rows;  *)
(* one that fails while it runs has sent the batches that were full by then, *)
(* which is what one that breaks there has sent.  tried and told are the metadata the query had whenever the       *)
(* client tried, and whenever it was sent something.                         *)

rowsIn(responses) ==
  LET upTo[i \in 0..Len(responses)] ==
        IF i = 0 THEN <<>> ELSE upTo[i - 1] \o responses[i].rows
  IN upTo[Len(responses)]

tokenAfter(resume, responses) ==
  IF \A i \in 1..Len(responses) : responses[i].rows = <<>> THEN resume
  ELSE responses[Len(responses)].token

NewClient == [resume |-> 0, got |-> <<>>, open |-> TRUE, tried |-> {}, told |-> {}]

execute(prep, token, catalog, rows, resume) ==
  IF prep THEN ExecutePrepared(token, token.instance, catalog, rows, resume)
  ELSE ExecuteQuery(token.query, catalog, rows, resume)

received(c, sent, md, cut) ==
  LET broken == cut < Len(sent)
      kept == IF broken THEN SubSeq(sent, 1, cut) ELSE sent
  IN [resume |-> tokenAfter(c.resume, kept), got |-> c.got \o kept, open |-> broken,
      tried |-> c.tried \cup {md}, told |-> IF kept = <<>> THEN c.told ELSE c.told \cup {md}]

attempt(c, prep, token, catalog, rows, cut) ==
  IF ~c.open THEN c
  ELSE received(c, execute(prep, token, catalog, rows, c.resume).sent, catalog[token.query], cut)

resumed(prep, token, catalogs, results, cuts) ==
  LET after[i \in 0..Len(cuts)] ==
        IF i = 0 THEN NewClient ELSE attempt(after[i - 1], prep, token, catalogs[i], results[i], cuts[i])
  IN after[Len(cuts)]

\* A client whose streams break, and who resumes each with the last token it got,
\* has every row of a result that stays the same up to that token once and in
\* order, and every row once a stream
\* has ended while the query kept its columns; a query that was not prepared
\* starts with its metadata, and no row of a prepared query is sent once it has
\* other columns than its client was told (query_service.go).
ResumedOnce(prep, token, catalogs, rows, cuts) ==
  LET c == resumed(prep, token, catalogs, [i \in 1..Len(cuts) |-> rows], cuts)
      ids == [i \in 1..Len(rows) |-> rows[i].id]
      steady == c.tried \subseteq {token.md}
  IN /\ rowsIn(c.got) = SubSeq(ids, 1, c.resume)
     /\ ~c.open /\ steady => c.resume = Len(rows) /\ (prep \/ c.got # <<>>)
     /\ ~prep /\ steady /\ c.got # <<>> => c.got[1].md = token.md
     /\ prep => c.told \subseteq {token.md}

\* What is left of it when the rows change between two streams: a token is the
\* number of rows delivered, so the client has as many, each at the position it
\* had in the result of one of the streams, and may miss or repeat others.
ResumedByPosition(prep, token, catalogs, results, cuts) ==
  LET c == resumed(prep, token, catalogs, results, cuts)
      got == rowsIn(c.got)
  IN /\ Len(got) = c.resume
     /\ \A k \in DOMAIN got : \E i \in DOMAIN results :
          k <= Len(results[i]) /\ got[k] = results[i][k].id
=============================================================================
