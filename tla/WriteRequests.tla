--------------------------- MODULE WriteRequests ---------------------------
(***************************************************************************)
(* Retried writes to one table: MutateRow and MutateRows with idempotency  *)
(* tokens (data_write.go).  A request resolves its table, waits for the    *)
(* table's lock, looks its tokens up, stages, and commits rows and tokens  *)
(* in one transaction.  Attempts run concurrently, the clock advances      *)
(* between their steps, a transaction may fail and the server may crash.   *)
(*                                                                         *)
(* A member of Muts is one mutation of one row, with its token; all its    *)
(* attempts carry the time of the first one.  What a mutation does to its  *)
(* row is module RowMutation.                                              *)
(***************************************************************************)
EXTENDS Integers, Sequences

CONSTANTS
    Muts,           \* mutations clients send
    Plain,          \* those without a token
    Invalid,        \* those validateMutations refuses
    Attempts,       \* concurrent requests
    Batches,        \* the entry lists requests carry
    Window,         \* idempotencyWindow
    MaxTime,        \* bound on the clock
    None

ASSUME WindowAssumption == Window \in Nat \ {0}
ASSUME MutsAssumption == Plain \subseteq Muts /\ Batches \subseteq Seq(Muts)
ASSUME NoneAssumption == None \notin Attempts

VARIABLES
    clock,          \* server time
    start,          \* time of the first attempt of each mutation, -1 before it
    expire,         \* idempotency_t: expiry of each mutation's token, 0 if absent
    applied,        \* time each mutation was last applied, -1 before
    mu,             \* tbl.mu: the attempt holding it, or None
    pc,             \* where each attempt is
    single,         \* the attempt is a MutateRow
    entries,        \* its entries
    staged,         \* indices of the entries staged for its transaction
    status          \* the status of each entry

vars == <<clock, start, expire, applied, mu, pc, single, entries, staged, status>>

-----------------------------------------------------------------------------
\* validateIdempotency: the first attempt is longer ago than the window.
Late(m) == m \notin Plain /\ clock - start[m] > Window

idempotencySeen(m) == m \notin Plain /\ expire[m] > clock

\* A later entry of the batch with the token of an earlier one.
Repeats(b, i) == b[i] \notin Plain /\ \E j \in DOMAIN b : j < i /\ b[j] = b[i]

Answered(a, st) ==
    /\ pc' = [pc EXCEPT ![a] = "answered"]
    /\ status' = [status EXCEPT ![a] = st]

\* A client sends a request.  MutateRow refuses a late one here, before it
\* waits for the table.
Send(a, b, one) ==
    /\ pc[a] = "idle"
    /\ one => Len(b) = 1
    /\ entries' = [entries EXCEPT ![a] = b]
    /\ single' = [single EXCEPT ![a] = one]
    /\ start' = [m \in Muts |->
                   IF start[m] = -1 /\ \E i \in DOMAIN b : b[i] = m THEN clock ELSE start[m]]
    /\ staged' = [staged EXCEPT ![a] = {}]
    /\ IF one /\ start[b[1]] # -1 /\ Late(b[1])
       THEN Answered(a, <<"late">>)
       ELSE /\ pc' = [pc EXCEPT ![a] = "resolved"]
            /\ status' = [status EXCEPT ![a] = << >>]
    /\ UNCHANGED <<clock, expire, applied, mu>>

\* tbl.mu.Lock()
Acquire == mu = None

\* MutateRow under the lock: the token first, then the mutations.
LockRow(a) ==
    LET m == entries[a][1]
    IN /\ pc[a] = "resolved" /\ single[a] /\ Acquire
       /\ \/ /\ idempotencySeen(m) \/ m \in Invalid
             /\ Answered(a, <<IF idempotencySeen(m) THEN "ok" ELSE "invalid">>)
             /\ UNCHANGED <<mu, staged>>
          \/ /\ ~ idempotencySeen(m) /\ m \notin Invalid
             /\ mu' = a
             /\ pc' = [pc EXCEPT ![a] = "staged"]
             /\ staged' = [staged EXCEPT ![a] = {1}]
             /\ status' = [status EXCEPT ![a] = <<"ok">>]
       /\ UNCHANGED <<clock, start, expire, applied, single, entries>>

\* An entry of a batch that would be applied.
Fresh(b, i) ==
    /\ ~ Late(b[i]) /\ b[i] \notin Invalid
    /\ ~ Repeats(b, i) /\ ~ idempotencySeen(b[i])

EntryStatusRefusesRepeat(b, i, broken) ==
    CASE Late(b[i]) -> "late"
      [] b[i] \in Invalid \/ Repeats(b, i) -> "invalid"
      [] i \in broken -> "failed"
      [] OTHER -> "ok"

\* The statuses of a batch before its transaction; reading the row of an
\* entry in broken fails.
EntryStatus(b, i, broken) ==
    CASE Late(b[i]) -> "late"
      [] b[i] \in Invalid -> "invalid"
      [] i \in broken -> "failed"
      [] OTHER -> "ok"

\* MutateRows under the lock: every entry is checked on its own, one without
\* an entry to apply writes nothing.
LockRows(a) ==
    LET b == entries[a]
        fresh == {i \in DOMAIN b : Fresh(b, i)}
    IN /\ pc[a] = "resolved" /\ ~ single[a] /\ Acquire
       /\ \E broken \in SUBSET fresh :
            LET st == [i \in DOMAIN b |-> EntryStatus(b, i, broken)]
            IN /\ staged' = [staged EXCEPT ![a] = fresh \ broken]
               /\ \/ fresh = broken /\ Answered(a, st) /\ mu' = mu
                  \/ /\ fresh # broken
                     /\ mu' = a
                     /\ pc' = [pc EXCEPT ![a] = "staged"]
                     /\ status' = [status EXCEPT ![a] = st]
       /\ UNCHANGED <<clock, start, expire, applied, single, entries>>

StagedMuts(a) == {entries[a][i] : i \in staged[a]}

PersistWithoutTokens(a) ==
    /\ pc[a] = "staged"
    /\ applied' = [m \in Muts |-> IF m \in StagedMuts(a) THEN clock ELSE applied[m]]
    /\ mu' = None
    /\ pc' = [pc EXCEPT ![a] = "answered"]
    /\ UNCHANGED <<clock, start, expire, single, entries, staged, status>>

\* persistWith: rows and tokens are committed together, the lock is released.
Persist(a) ==
    /\ pc[a] = "staged"
    /\ applied' = [m \in Muts |-> IF m \in StagedMuts(a) THEN clock ELSE applied[m]]
    /\ expire' = [m \in Muts |->
                    IF m \in StagedMuts(a) \ Plain THEN clock + Window ELSE expire[m]]
    /\ mu' = None
    /\ pc' = [pc EXCEPT ![a] = "answered"]
    /\ UNCHANGED <<clock, start, single, entries, staged, status>>

PersistFailsQuietly(a) ==
    /\ pc[a] = "staged"
    /\ mu' = None
    /\ pc' = [pc EXCEPT ![a] = "answered"]
    /\ staged' = [staged EXCEPT ![a] = {}]
    /\ UNCHANGED <<clock, start, expire, applied, single, entries, status>>

\* "Nothing was written; every entry that would have been applied failed."
PersistFails(a) ==
    /\ pc[a] = "staged"
    /\ mu' = None
    /\ Answered(a, [i \in DOMAIN status[a] |->
                      IF i \in staged[a] THEN "failed" ELSE status[a][i]])
    /\ staged' = [staged EXCEPT ![a] = {}]
    /\ UNCHANGED <<clock, start, expire, applied, single, entries>>

\* The client takes the answer and may send again.
Receive(a) ==
    /\ pc[a] = "answered"
    /\ pc' = [pc EXCEPT ![a] = "idle"]
    /\ entries' = [entries EXCEPT ![a] = << >>]
    /\ staged' = [staged EXCEPT ![a] = {}]
    /\ status' = [status EXCEPT ![a] = << >>]
    /\ UNCHANGED <<clock, start, expire, applied, mu, single>>

\* A crash loses every request in progress; idempotency_t survives.
Crash ==
    /\ mu' = None
    /\ pc' = [a \in Attempts |-> "idle"]
    /\ entries' = [a \in Attempts |-> << >>]
    /\ staged' = [a \in Attempts |-> {}]
    /\ status' = [a \in Attempts |-> << >>]
    /\ UNCHANGED <<clock, start, expire, applied, single>>

Tick ==
    /\ clock < MaxTime
    /\ clock' = clock + 1
    /\ UNCHANGED <<start, expire, applied, mu, pc, single, entries, staged, status>>

-----------------------------------------------------------------------------
Init ==
    /\ clock = 0
    /\ start = [m \in Muts |-> -1]
    /\ expire = [m \in Muts |-> 0]
    /\ applied = [m \in Muts |-> -1]
    /\ mu = None
    /\ pc = [a \in Attempts |-> "idle"]
    /\ single = [a \in Attempts |-> FALSE]
    /\ entries = [a \in Attempts |-> << >>]
    /\ staged = [a \in Attempts |-> {}]
    /\ status = [a \in Attempts |-> << >>]

Next ==
    \/ \E a \in Attempts, b \in Batches, one \in BOOLEAN : Send(a, b, one)
    \/ \E a \in Attempts : LockRow(a)
    \/ \E a \in Attempts : LockRows(a)
    \/ \E a \in Attempts : Persist(a)
    \/ \E a \in Attempts : PersistFails(a)
    \/ \E a \in Attempts : Receive(a)
    \/ Crash
    \/ Tick

Spec == Init /\ [][Next]_vars

-----------------------------------------------------------------------------
\* The values the state can take; the lock is held by the one staged attempt.
TypeOK ==
    /\ clock \in Nat
    /\ start \in [Muts -> Int]
    /\ expire \in [Muts -> Nat]
    /\ applied \in [Muts -> Int]
    /\ mu \in Attempts \cup {None}
    /\ pc \in [Attempts -> {"idle", "resolved", "staged", "answered"}]
    /\ single \in [Attempts -> BOOLEAN]
    /\ entries \in [Attempts -> Seq(Muts)]
    /\ staged \in [Attempts -> SUBSET Nat]
    /\ \A a \in Attempts : staged[a] \subseteq DOMAIN entries[a]
    /\ \A a \in Attempts : pc[a] = "staged" => mu = a

\* "idempotencyWindow is how long Bigtable deduplicates retried aggregate
\* mutations that carry the same Idempotency token": however attempts of a
\* mutation overlap, wait, fail or are cut off by a crash, two applications of
\* it lie at least a window apart.
AppliedApart ==
    [][\A m \in Muts \ Plain :
         applied'[m] # applied[m] /\ applied[m] # -1 => clock - applied[m] >= Window]_vars

\* MutateRows answers each entry on its own: one answered OK has been applied,
\* by this request or by an earlier attempt.  The one exception the code makes
\* is an entry that repeats another of its own batch: it keeps its OK when the
\* transaction fails.
HonestAnswers ==
    \A a \in Attempts : pc[a] = "answered" =>
        \A i \in DOMAIN status[a] :
            status[a][i] = "ok" /\ ~ Repeats(entries[a], i) => applied[entries[a][i]] # -1

\* What is applied is acknowledged: a step that applies a mutation is taken by
\* an attempt that answers OK for every entry it staged and for every entry with
\* the token of that mutation, and that applies all it staged.
AppliedIsAnswered ==
    [][\A m \in Muts : applied'[m] # applied[m] =>
         \E a \in Attempts :
            /\ pc[a] = "staged" /\ pc'[a] = "answered"
            /\ \A i \in DOMAIN entries[a] :
                 /\ i \in staged[a] \/ (m \notin Plain /\ entries[a][i] = m) => status'[a][i] = "ok"
                 /\ i \in staged[a] => applied'[entries[a][i]] = clock]_vars
=============================================================================
