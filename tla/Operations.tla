----------------------------- MODULE Operations -----------------------------
(* Pages of listings and long-running operations (operations.go,             *)
(* localcloud_backups.go).  A name is a positive number; a token is the name *)
(* or the offset it encodes, 0 for none.                                     *)
EXTENDS Integers, Sequences, FiniteSets

\* sort.SliceStable by name; names differ.
inOrder(items) ==
  CHOOSE s \in [1..Cardinality(items) -> items] : \A i, j \in DOMAIN s : i < j => s[i] < s[j]

startAfter(items, token) == {x \in items : token = 0 \/ x > token}

\* One page of the items by name; the token is the last name returned.
paginate(items, size, token) ==
  LET rest == inOrder(startAfter(items, token))
  IN IF size = 0 \/ size >= Len(rest) THEN [page |-> rest, token |-> 0]
     ELSE [page |-> SubSeq(rest, 1, size), token |-> rest[size]]

\* One page of a list in the order it has; the token is the offset of the next.
paginateOrdered(items, size, token) ==
  LET start == IF token > Len(items) THEN Len(items) ELSE token
      rest == SubSeq(items, start + 1, Len(items))
  IN IF size = 0 \/ size >= Len(rest) THEN [page |-> rest, token |-> 0]
     ELSE [page |-> SubSeq(rest, 1, size), token |-> start + size]

\* A client that goes on from page to page: what it has got and where it is.
FirstPage == [got |-> <<>>, token |-> 0, more |-> TRUE]

turned(w, p) ==
  IF ~w.more THEN w ELSE [got |-> w.got \o p.page, token |-> p.token, more |-> p.token # 0]

\* The i-th page is taken off the i-th of lists, which come and go meanwhile.
walk(lists, size) ==
  LET after[i \in 0..Len(lists)] ==
        IF i = 0 THEN FirstPage
        ELSE turned(after[i - 1], paginate(lists[i], size, after[i - 1].token))
  IN after[Len(lists)]

walkOrdered(items, size, pages) ==
  LET after[i \in 0..pages] ==
        IF i = 0 THEN FirstPage
        ELSE turned(after[i - 1], paginateOrdered(items, size, after[i - 1].token))
  IN after[pages]

\* Listing page after page while items come and go returns no item twice, in
\* the order of the names, and every item that was there all along, once the
\* listing has ended; until then, every such item up to the token (paginate:
\* "pages stay stable when earlier items are deleted").
ListedOnce(lists, size) ==
  LET w == walk(lists, size)
  IN /\ \A i, j \in 1..Len(w.got) : i < j => w.got[i] < w.got[j]
     /\ Len(lists) > 0 =>
          \A x \in lists[1] :
            (\A k \in 1..Len(lists) : x \in lists[k]) /\ (w.more => x <= w.token)
              => \E i \in 1..Len(w.got) : w.got[i] = x

\* Offset tokens cut a list that does not change into consecutive pages, and
\* the listing ends (paginateOrdered).
PagesDivide(items, size, pages) ==
  LET w == walkOrdered(items, size, pages)
  IN /\ w.got = SubSeq(items, 1, IF w.more THEN w.token ELSE Len(items))
     /\ w.more /\ pages > 0 => size > 0 /\ pages <= w.token /\ w.token < Len(items)

-----------------------------------------------------------------------------
(* Operations: seq numbers the names and starts at the clock; every          *)
(* operation is saved done.  told is what clients have been told, in order,  *)
(* deleted the places in it of the operations they have deleted.             *)

NewOperations(now) == [seq |-> now, now |-> now, stored |-> <<>>, told |-> <<>>, deleted |-> {}]

reseeded(o) == [o EXCEPT !.seq = o.now]

put(f, k, v) == [x \in DOMAIN f \cup {k} |-> IF x = k THEN v ELSE f[x]]
drop(f, k) == [x \in DOMAIN f \ {k} |-> f[x]]

\* The save overwrites an operation of the same name.
complete(o, response) ==
  [o EXCEPT !.seq = @ + 1, !.now = @ + 1, !.stored = put(@, o.seq + 1, response),
            !.told = Append(@, [name |-> o.seq + 1, response |-> response])]

DeleteOperation(o, name) ==
  IF name \in DOMAIN o.stored
  THEN [o EXCEPT !.stored = drop(@, name),
                 !.deleted = @ \cup {i \in 1..Len(o.told) : o.told[i].name = name}]
  ELSE o

\* An event is <<"complete", response>>, <<"delete", i>> for the i-th operation
\* told, or <<"restart", 0>>, which takes a while.
operationEvent(o, e) ==
  CASE e[1] = "complete" -> complete(o, e[2])
    [] e[1] = "delete" -> IF e[2] \in 1..Len(o.told) THEN DeleteOperation(o, o.told[e[2]].name) ELSE o
    [] e[1] = "restart" -> reseeded([o EXCEPT !.now = @ + 1])

operationsAfter(start, events) ==
  LET after[i \in 0..Len(events)] ==
        IF i = 0 THEN NewOperations(start) ELSE operationEvent(after[i - 1], events[i])
  IN after[Len(events)]

\* Every operation a client was given a name of, and has not deleted, is found
\* under that name with its response, also after restarts, and no name is given
\* twice; nothing else is stored.
NamesKept(start, events) ==
  LET o == operationsAfter(start, events)
      kept == 1..Len(o.told) \ o.deleted
  IN /\ \A i \in kept : /\ o.told[i].name \in DOMAIN o.stored
                        /\ o.stored[o.told[i].name] = o.told[i].response
     /\ \A i, j \in 1..Len(o.told) : i # j => o.told[i].name # o.told[j].name
     /\ \A n \in DOMAIN o.stored : \E i \in kept : o.told[i].name = n
=============================================================================
