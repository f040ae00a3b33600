----------------------------- MODULE RequestProofs -----------------------------
(***************************************************************************)
(* Theorems about what clients get across requests: retried writes, for    *)
(* every set of mutations, batches and concurrent attempts and every       *)
(* window, and query streams that break and are resumed, for any rows,     *)
(* batch size and number of streams.                                       *)
(***************************************************************************)
EXTENDS WriteRequests, QueryStream, SequenceTheorems, WellFoundedInduction, TLAPS

-----------------------------------------------------------------------------
(* Retried writes.  The token of an applied mutation expires a window after  *)
(* its application, and tokens only change under the table's lock, so what   *)
(* an attempt found out about its tokens when it staged its entries still    *)
(* holds when it commits.                                                    *)

USE WindowAssumption, MutsAssumption, NoneAssumption

\* idempotency_t agrees with what has been applied.
Ledger ==
    \A m \in Muts :
        /\ applied[m] # -1 /\ m \notin Plain => expire[m] = applied[m] + Window
        /\ expire[m] # 0 => applied[m] # -1

\* What the position of an attempt says of its entries: a staged one has been
\* checked, and an OK is backed.
Resolved(a) == pc[a] = "resolved" /\ single[a] => Len(entries[a]) = 1

Checked(a) ==
    pc[a] = "staged" =>
        /\ DOMAIN status[a] = DOMAIN entries[a]
        /\ \A i \in staged[a] : entries[a][i] \notin Plain => expire[entries[a][i]] =< clock
        /\ \A i \in staged[a] : status[a][i] = "ok"
        /\ \A i \in staged[a], j \in DOMAIN entries[a] :
             entries[a][j] = entries[a][i] /\ entries[a][i] \notin Plain => status[a][j] = "ok"

Backed(a) ==
    pc[a] \in {"staged", "answered"} =>
        /\ DOMAIN status[a] = DOMAIN entries[a]
        /\ \A i \in DOMAIN entries[a] :
             status[a][i] = "ok" /\ ~ Repeats(entries[a], i) =>
                \/ pc[a] = "staged" /\ i \in staged[a]
                \/ applied[entries[a][i]] # -1

IInv ==
    /\ TypeOK
    /\ DOMAIN status = Attempts
    /\ Ledger
    /\ \A a \in Attempts : Resolved(a) /\ Checked(a) /\ Backed(a)

(* The initial state satisfies the invariant. *)
LEMMA InitIInv == Init => IInv
<1> SUFFICES ASSUME Init PROVE IInv
  OBVIOUS
<1>1. TypeOK
  BY DEF Init, TypeOK
<1> QED
  BY <1>1 DEF Init, IInv, Ledger, Resolved, Checked, Backed

(* An attempt that takes no lock and no step of another disturbs nobody.   *)
LEMMA OthersKept ==
    ASSUME IInv, NEW a \in Attempts, NEW b \in Attempts, b # a,
           pc'[b] = pc[b], single'[b] = single[b], entries'[b] = entries[b],
           staged'[b] = staged[b], status'[b] = status[b],
           expire' = expire, applied' = applied, clock' = clock
    PROVE  Resolved(b)' /\ Checked(b)' /\ Backed(b)'
  BY DEF IInv, Resolved, Checked, Backed, Repeats

(* Sending a request concerns the sender only. *)
LEMMA SendIInv ==
    ASSUME IInv, NEW a \in Attempts, NEW b \in Batches, NEW one \in BOOLEAN, Send(a, b, one)
    PROVE  IInv'
<1> USE DEF Send, Answered
<1>1. b \in Seq(Muts)
  OBVIOUS
<1>2. TypeOK'
  <2>1. start' \in [Muts -> Int]
    BY DEF IInv, TypeOK
  <2>2. entries' \in [Attempts -> Seq(Muts)] /\ staged' \in [Attempts -> SUBSET Nat]
        /\ single' \in [Attempts -> BOOLEAN]
    BY <1>1 DEF IInv, TypeOK
  <2>3. pc' \in [Attempts -> {"idle", "resolved", "staged", "answered"}]
    BY ZenonT(30) DEF IInv, TypeOK
  <2>4. \A c \in Attempts : staged'[c] \subseteq DOMAIN entries'[c]
    BY DEF IInv, TypeOK
  <2>5. \A c \in Attempts : pc'[c] = "staged" => mu' = c
    BY DEF IInv, TypeOK
  <2> QED
    BY <2>1, <2>2, <2>3, <2>4, <2>5, ZenonT(30) DEF IInv, TypeOK
<1>3. Ledger' /\ DOMAIN status' = Attempts
  BY DEF IInv, Ledger, TypeOK
<1>4. Resolved(a)'
  BY DEF IInv, Resolved, TypeOK
<1>5. Checked(a)'
  BY DEF IInv, Checked, TypeOK
<1>6. Backed(a)'
  BY <1>1 DEF IInv, Backed, TypeOK
<1>7. ASSUME NEW c \in Attempts, c # a PROVE Resolved(c)' /\ Checked(c)' /\ Backed(c)'
  BY <1>7, OthersKept, ZenonT(30) DEF IInv, TypeOK
<1> QED
  BY <1>2, <1>3, <1>4, <1>5, <1>6, <1>7 DEF IInv

(* MutateRow answers from the token or the validation, or stages its one   *)
(* entry with an expired or absent token.                                  *)
LEMMA LockRowIInv ==
    ASSUME IInv, NEW a \in Attempts, LockRow(a)
    PROVE  IInv'
<1> DEFINE m == entries[a][1]
<1>1. Len(entries[a]) = 1 /\ entries[a] \in Seq(Muts) /\ DOMAIN entries[a] = {1} /\ m \in Muts
  <2>1. Len(entries[a]) = 1 /\ entries[a] \in Seq(Muts)
    BY DEF IInv, TypeOK, Resolved, LockRow
  <2> QED
    BY <2>1
<1>2. UNCHANGED <<clock, start, expire, applied, single, entries>>
  BY DEF LockRow
<1>3. \/ /\ idempotencySeen(m) \/ m \in Invalid
         /\ pc' = [pc EXCEPT ![a] = "answered"]
         /\ status' = [status EXCEPT ![a] = <<IF idempotencySeen(m) THEN "ok" ELSE "invalid">>]
         /\ UNCHANGED <<mu, staged>>
      \/ /\ ~ idempotencySeen(m) /\ mu = None
         /\ mu' = a
         /\ pc' = [pc EXCEPT ![a] = "staged"]
         /\ staged' = [staged EXCEPT ![a] = {1}]
         /\ status' = [status EXCEPT ![a] = <<"ok">>]
  BY DEF LockRow, Answered, Acquire
<1> HIDE DEF m
<1>4. TypeOK'
  <2>1. mu' \in Attempts \cup {None} /\ pc' \in [Attempts -> {"idle", "resolved", "staged", "answered"}]
    BY <1>3, ZenonT(30) DEF IInv, TypeOK
  <2>2. staged' \in [Attempts -> SUBSET Nat] /\ \A c \in Attempts : staged'[c] \subseteq DOMAIN entries[c]
    <3>1. staged' = staged \/ staged' = [staged EXCEPT ![a] = {1}]
      BY <1>3
    <3>2. staged \in [Attempts -> SUBSET Nat] /\ \A c \in Attempts : staged[c] \subseteq DOMAIN entries[c]
      BY DEF IInv, TypeOK
    <3>3. {1} \in SUBSET Nat /\ {1} \subseteq DOMAIN entries[a]
      BY <1>1
    <3> QED
      BY <3>1, <3>2, <3>3
  <2>3. \A c \in Attempts : pc'[c] = "staged" => mu' = c
    BY <1>3 DEF IInv, TypeOK
  <2> QED
    BY <1>2, <2>1, <2>2, <2>3 DEF IInv, TypeOK
<1>5. Ledger' /\ DOMAIN status' = Attempts
  BY <1>2, <1>3 DEF IInv, Ledger
<1>6. Resolved(a)'
  BY <1>2, <1>3 DEF IInv, TypeOK, Resolved
<1>7. Checked(a)'
  <2> SUFFICES ASSUME pc'[a] = "staged" PROVE Checked(a)'
    BY DEF Checked
  <2>1. staged'[a] = {1} /\ status'[a] = <<"ok">> /\ ~ idempotencySeen(m)
    BY <1>3 DEF IInv, TypeOK
  <2>2. m \notin Plain => expire[m] =< clock
    BY <1>1, <2>1 DEF idempotencySeen, IInv, TypeOK
  <2> QED
    BY <1>1, <1>2, <2>1, <2>2 DEF Checked, m
<1>8. Backed(a)'
  <2>1. idempotencySeen(m) => applied[m] # -1
    BY <1>1 DEF IInv, TypeOK, Ledger, idempotencySeen
  <2> QED
    BY <1>1, <1>2, <1>3, <2>1 DEF IInv, TypeOK, Backed, m
<1>9. ASSUME NEW c \in Attempts, c # a PROVE Resolved(c)' /\ Checked(c)' /\ Backed(c)'
  BY <1>2, <1>3, <1>9, OthersKept DEF IInv, TypeOK
<1> QED
  BY <1>4, <1>5, <1>6, <1>7, <1>8, <1>9 DEF IInv

(* MutateRows stages the entries it found fresh and could read.            *)
LEMMA LockRowsIInv ==
    ASSUME IInv, NEW a \in Attempts, LockRows(a)
    PROVE  IInv'
<1> DEFINE b == entries[a]
           fresh == {i \in DOMAIN b : Fresh(b, i)}
<1>1. b \in Seq(Muts) /\ DOMAIN b \subseteq Nat
  BY DEF IInv, TypeOK
<1>2. UNCHANGED <<clock, start, expire, applied, single, entries>>
  BY DEF LockRows
<1>3. PICK broken \in SUBSET fresh :
        /\ staged' = [staged EXCEPT ![a] = fresh \ broken]
        /\ status' = [status EXCEPT ![a] = [i \in DOMAIN b |-> EntryStatus(b, i, broken)]]
        /\ \/ fresh = broken /\ pc' = [pc EXCEPT ![a] = "answered"] /\ mu' = mu
           \/ mu = None /\ mu' = a /\ pc' = [pc EXCEPT ![a] = "staged"]
  BY ZenonT(30) DEF LockRows, Answered, Acquire
<1> DEFINE st == [i \in DOMAIN b |-> EntryStatus(b, i, broken)]
<1>4. TypeOK'
  BY <1>1, <1>2, <1>3, ZenonT(30) DEF IInv, TypeOK
<1>5. Ledger' /\ DOMAIN status' = Attempts
  BY <1>2, <1>3 DEF IInv, Ledger
<1>6. /\ status'[a] = st /\ staged'[a] = fresh \ broken /\ entries'[a] = b
      /\ pc'[a] \in {"staged", "answered"} /\ (pc'[a] = "answered" => fresh = broken)
  BY <1>2, <1>3 DEF IInv, TypeOK
<1>7. Resolved(a)'
  BY <1>6 DEF Resolved
<1>8. ASSUME NEW i \in fresh \ broken PROVE st[i] = "ok"
  BY <1>8 DEF EntryStatus, Fresh
<1>9. ASSUME NEW i \in fresh, NEW j \in DOMAIN b, i \notin broken, b[j] = b[i], b[i] \notin Plain
      PROVE  st[j] = "ok"
  <2>1. ~ Late(b[j]) /\ b[j] \notin Invalid
    BY <1>9 DEF Fresh
  <2>2. j = i \/ j \notin fresh
    BY <1>1, <1>9 DEF Fresh, Repeats
  <2> QED
    BY <1>3, <1>9, <2>1, <2>2 DEF EntryStatus
<1>10. ASSUME NEW i \in fresh, b[i] \notin Plain PROVE expire[b[i]] =< clock
  BY <1>1, <1>10 DEF Fresh, idempotencySeen, IInv, TypeOK
<1>11. ASSUME NEW i \in DOMAIN b, st[i] = "ok", ~ Repeats(b, i), i \notin fresh \ broken
       PROVE  applied[b[i]] # -1
  <2>1. ~ Late(b[i]) /\ b[i] \notin Invalid /\ i \notin broken
    BY <1>11 DEF EntryStatus
  <2>2. idempotencySeen(b[i]) /\ b[i] \in Muts
    BY <1>1, <1>11, <2>1 DEF Fresh
  <2> QED
    BY <2>2 DEF idempotencySeen, IInv, Ledger, TypeOK
<1>12. DOMAIN st = DOMAIN b
  OBVIOUS
<1> HIDE DEF st, fresh, b
<1>13. Checked(a)'
  BY <1>2, <1>6, <1>8, <1>9, <1>10, <1>12 DEF Checked
<1>14. Backed(a)'
  BY <1>2, <1>6, <1>11, <1>12 DEF Backed
<1>15. ASSUME NEW c \in Attempts, c # a PROVE Resolved(c)' /\ Checked(c)' /\ Backed(c)'
  BY <1>2, <1>3, <1>15, OthersKept DEF IInv, TypeOK
<1> QED
  BY <1>4, <1>5, <1>7, <1>13, <1>14, <1>15 DEF IInv

(* The lock holder commits: no other attempt is staged, and what it        *)
(* applies has its token renewed.                                          *)
LEMMA PersistIInv ==
    ASSUME IInv, NEW a \in Attempts, Persist(a)
    PROVE  IInv'
<1> USE DEF Persist
<1>1. StagedMuts(a) \subseteq Muts
  BY DEF StagedMuts, IInv, TypeOK
<1>2. TypeOK'
  BY DEF IInv, TypeOK
<1>3. Ledger'
  BY DEF IInv, TypeOK, Ledger
<1>4. ASSUME NEW c \in Attempts PROVE Resolved(c)' /\ Checked(c)'
  BY <1>4 DEF IInv, TypeOK, Resolved, Checked
<1>5. ASSUME NEW c \in Attempts PROVE Backed(c)'
  <2>1. \A m \in Muts : applied[m] # -1 => applied'[m] # -1
    BY DEF IInv, TypeOK
  <2>2. \A i \in staged[a] : applied'[entries[a][i]] # -1
    <3>1. clock \in Nat /\ applied' = [m \in Muts |-> IF m \in StagedMuts(a) THEN clock ELSE applied[m]]
      BY DEF IInv, TypeOK
    <3>2. \A m \in StagedMuts(a) : applied'[m] = clock
      BY <1>1, <3>1, Zenon
    <3>3. \A i \in staged[a] : entries[a][i] \in StagedMuts(a)
      BY Zenon DEF StagedMuts
    <3>4. clock # -1
      BY <3>1
    <3> QED BY <3>2, <3>3, <3>4, Zenon
  <2>3. c # a => pc'[c] # "staged" /\ pc[c] # "staged"
    BY DEF IInv, TypeOK
  <2>4. entries[c] \in Seq(Muts)
    BY DEF IInv, TypeOK
  <2> QED
    BY <2>1, <2>2, <2>3, <2>4 DEF IInv, TypeOK, Backed
<1> QED
  BY <1>2, <1>3, <1>4, <1>5 DEF IInv

(* A failed transaction turns every staged OK into a failure.              *)
LEMMA PersistFailsIInv ==
    ASSUME IInv, NEW a \in Attempts, PersistFails(a)
    PROVE  IInv'
<1> USE DEF PersistFails, Answered
<1>1. TypeOK'
  BY DEF IInv, TypeOK
<1>2. Ledger' /\ DOMAIN status' = Attempts
  BY DEF IInv, Ledger
<1>3. Resolved(a)' /\ Checked(a)'
  BY DEF IInv, TypeOK, Resolved, Checked
<1>4. Backed(a)'
  BY DEF IInv, TypeOK, Backed
<1>5. ASSUME NEW c \in Attempts, c # a PROVE Resolved(c)' /\ Checked(c)' /\ Backed(c)'
  BY <1>5, OthersKept DEF IInv, TypeOK
<1> QED
  BY <1>1, <1>2, <1>3, <1>4, <1>5 DEF IInv

(* Taking an answer, a crash and the clock leave nothing to check.         *)
LEMMA QuietIInv ==
    ASSUME IInv, (\E a \in Attempts : Receive(a)) \/ Crash \/ Tick
    PROVE  IInv'
<1>1. ASSUME NEW a \in Attempts, Receive(a) PROVE IInv'
  <2> USE <1>1 DEF Receive
  <2>1. TypeOK' /\ Ledger' /\ DOMAIN status' = Attempts
    BY DEF IInv, TypeOK, Ledger
  <2>2. Resolved(a)' /\ Checked(a)' /\ Backed(a)'
    BY DEF IInv, TypeOK, Resolved, Checked, Backed
  <2>3. ASSUME NEW c \in Attempts, c # a PROVE Resolved(c)' /\ Checked(c)' /\ Backed(c)'
    BY <2>3, OthersKept DEF IInv, TypeOK
  <2> QED
    BY <2>1, <2>2, <2>3 DEF IInv
<1>2. CASE Crash
  <2> USE <1>2 DEF Crash
  <2>1. TypeOK' /\ Ledger' /\ DOMAIN status' = Attempts
    BY DEF IInv, TypeOK, Ledger
  <2> QED
    BY <2>1 DEF IInv, Resolved, Checked, Backed
<1>3. CASE Tick
  <2> USE <1>3 DEF Tick
  <2>1. TypeOK' /\ Ledger' /\ DOMAIN status' = Attempts
    BY DEF IInv, TypeOK, Ledger
  <2>2. ASSUME NEW c \in Attempts PROVE Resolved(c)' /\ Backed(c)'
    BY DEF IInv, Resolved, Backed, Repeats
  <2>3. ASSUME NEW c \in Attempts PROVE Checked(c)'
    BY DEF IInv, TypeOK, Checked
  <2> QED
    BY <2>1, <2>2, <2>3 DEF IInv
<1> QED
  BY <1>1, <1>2, <1>3

(* Every step preserves the invariant. *)
LEMMA NextIInv == IInv /\ [Next]_vars => IInv'
<1> SUFFICES ASSUME IInv, [Next]_vars PROVE IInv'
  OBVIOUS
<1>1. CASE UNCHANGED vars
  <2>1. TypeOK' /\ Ledger' /\ DOMAIN status' = Attempts
    BY <1>1 DEF vars, IInv, TypeOK, Ledger
  <2>2. ASSUME NEW c \in Attempts PROVE Resolved(c)' /\ Checked(c)' /\ Backed(c)'
    BY <1>1 DEF vars, IInv, Resolved, Checked, Backed, Repeats
  <2> QED
    BY <2>1, <2>2 DEF IInv
<1> QED
  BY <1>1, SendIInv, LockRowIInv, LockRowsIInv, PersistIInv, PersistFailsIInv, QuietIInv, Zenon
     DEF Next

(* However attempts of a mutation overlap, wait, fail or are cut off by a  *)
(* crash, two applications of it lie at least a window apart               *)
(* (idempotencySeen, recordIdempotency).                                   *)
THEOREM AppliedOnce == Spec => AppliedApart
<1>1. ASSUME IInv, [Next]_vars, NEW m \in Muts \ Plain, applied'[m] # applied[m], applied[m] # -1
      PROVE  clock - applied[m] >= Window
  <2>1. PICK a \in Attempts : Persist(a)
    BY <1>1, ZenonT(30) DEF Next, vars, Send, LockRow, LockRows, PersistFails, Receive, Crash, Tick
  <2>2. m \in StagedMuts(a) /\ pc[a] = "staged"
    BY <1>1, <2>1 DEF Persist, IInv, TypeOK
  <2>3. expire[m] =< clock
    BY <1>1, <2>2, ZenonT(30) DEF StagedMuts, IInv, Checked
  <2> QED
    BY <1>1, <2>3 DEF IInv, TypeOK, Ledger
<1>2. ASSUME IInv, [Next]_vars
      PROVE  [\A m \in Muts \ Plain :
                applied'[m] # applied[m] /\ applied[m] # -1 => clock - applied[m] >= Window]_vars
  BY <1>1, <1>2
<1> QED
  BY <1>2, InitIInv, NextIInv, PTL DEF Spec, AppliedApart

(* MutateRow and MutateRows tell the truth: an entry answered OK has been  *)
(* applied, by this request or an earlier attempt, unless it repeats       *)
(* another entry of its own batch.                                         *)
THEOREM AnswersHonest == Spec => [](TypeOK /\ HonestAnswers)
<1>1. IInv => TypeOK /\ HonestAnswers
  BY DEF IInv, Backed, HonestAnswers, TypeOK
<1> QED
  BY <1>1, InitIInv, NextIInv, PTL DEF Spec

(* What is applied is acknowledged, and all entries staged together are    *)
(* applied together (persistWith).                                         *)
THEOREM AppliedAnswered == Spec => AppliedIsAnswered
<1>1. ASSUME IInv, [Next]_vars, NEW m \in Muts, applied'[m] # applied[m]
      PROVE  \E a \in Attempts :
               /\ pc[a] = "staged" /\ pc'[a] = "answered"
               /\ \A i \in DOMAIN entries[a] :
                    /\ i \in staged[a] \/ (m \notin Plain /\ entries[a][i] = m) => status'[a][i] = "ok"
                    /\ i \in staged[a] => applied'[entries[a][i]] = clock
  <2>1. PICK a \in Attempts : Persist(a)
    BY <1>1, ZenonT(30) DEF Next, vars, Send, LockRow, LockRows, PersistFails, Receive, Crash, Tick
  <2>2. m \in StagedMuts(a) /\ pc[a] = "staged" /\ pc'[a] = "answered" /\ status' = status
    BY <1>1, <2>1 DEF Persist, IInv, TypeOK
  <2>3. ASSUME NEW i \in staged[a] PROVE applied'[entries[a][i]] = clock
    BY <1>1, <2>1, <2>3 DEF Persist, StagedMuts, IInv, TypeOK
  <2>4. ASSUME NEW i \in DOMAIN entries[a],
               i \in staged[a] \/ (m \notin Plain /\ entries[a][i] = m)
        PROVE  status[a][i] = "ok"
    BY <1>1, <2>2, <2>4, ZenonT(30) DEF StagedMuts, IInv, Checked
  <2> QED
    BY <2>2, <2>3, <2>4
<1>2. ASSUME IInv, [Next]_vars
      PROVE  [\A m \in Muts : applied'[m] # applied[m] =>
                \E a \in Attempts :
                  /\ pc[a] = "staged" /\ pc'[a] = "answered"
                  /\ \A i \in DOMAIN entries[a] :
                       /\ i \in staged[a] \/ (m \notin Plain /\ entries[a][i] = m) => status'[a][i] = "ok"
                       /\ i \in staged[a] => applied'[entries[a][i]] = clock]_vars
  BY <1>1, <1>2
<1> QED
  BY <1>2, InitIInv, NextIInv, PTL DEF Spec, AppliedIsAnswered

-----------------------------------------------------------------------------
(* Induction over numbers, and recursion up to a number with what holds      *)
(* after each step.                                                          *)

\* A set of numbers that is not empty has a least one.
LEMMA LeastOf ==
  ASSUME NEW T, T \subseteq Nat, T # {}
  PROVE  \E x \in T : \A y \in T : x <= y
  <1> DEFINE R == {ss \in Nat \X Nat : ss[1] < ss[2]}
  <1>1. IsWellFoundedOn(R, Nat)
    BY NatLessThanWellFounded DEF OpToRel
  <1>2. PICK x \in T : \A y \in T : ~ (<<y, x>> \in R)
    <2> HIDE DEF R
    <2> QED BY <1>1, WFMin, Zenon
  <1>3. \A y \in T : ~(y < x)
    BY <1>2, ZenonT(30)
  <1>4. x \in Nat /\ \A y \in T : y \in Nat
    OBVIOUS
  <1> QED BY <1>3, <1>4

\* A set that holds 0 and, with a number, the next one holds all numbers.
LEMMA NatSetInduction ==
  ASSUME NEW S, 0 \in S, \A n \in Nat : n \in S => n + 1 \in S
  PROVE  Nat \subseteq S
  <1> DEFINE T == Nat \ S
  <1> SUFFICES ASSUME T # {} PROVE FALSE
    OBVIOUS
  <1>1. PICK x \in T : \A y \in T : x <= y
    <2>1. T \subseteq Nat
      OBVIOUS
    <2> HIDE DEF T
    <2> QED BY <2>1, LeastOf, Zenon
  <1>2. x \in Nat /\ x # 0 /\ x - 1 \in Nat /\ ~(x <= x - 1)
    OBVIOUS
  <1>3. x - 1 \notin T
    BY <1>1, <1>2
  <1> QED BY <1>2, <1>3

Unrolled(f, x0, step, n) == f = [i \in 0..n |-> IF i = 0 THEN x0 ELSE step[i][f[i - 1]]]

\* A recursive function whose steps lead from one of the sets X[i] to the next
\* exists, and its values lie in them.
LEMMA Recursion ==
  ASSUME NEW k \in Nat, NEW X, NEW x0, x0 \in X[0], NEW step,
         \A i \in 1..k : \A x \in X[i - 1] : step[i][x] \in X[i]
  PROVE  \E f : Unrolled(f, x0, step, k) /\ \A i \in 0..k : f[i] \in X[i]
  <1> DEFINE Good(f, n) == Unrolled(f, x0, step, n) /\ \A i \in 0..n : f[i] \in X[i]
  <1> DEFINE S == {n \in Nat : n <= k => \E f : Good(f, n)}
  <1>1. 0 \in S
    <2>1. PICK f : f = [i \in 0..0 |-> x0]
      BY Zenon
    <2>2. f = [i \in 0..0 |-> IF i = 0 THEN x0 ELSE step[i][f[i - 1]]] /\ \A i \in 0..0 : f[i] \in X[i]
      BY <2>1
    <2> QED BY <2>2 DEF Unrolled
  <1>2. ASSUME NEW n \in Nat, n \in S PROVE n + 1 \in S
    <2> SUFFICES ASSUME n + 1 <= k PROVE \E f : Good(f, n + 1)
      OBVIOUS
    <2>0. n <= k /\ n + 1 \in 1..k /\ (n + 1) - 1 = n
      OBVIOUS
    <2>1. PICK f : Good(f, n)
      BY <1>2, <2>0
    <2>2. PICK x : x = step[n + 1][f[n]]
      OBVIOUS
    <2>3. PICK g : g = [i \in 0..(n + 1) |-> IF i = n + 1 THEN x ELSE f[i]]
      BY Zenon
    <2>4. \A i \in 0..n : f[i] = IF i = 0 THEN x0 ELSE step[i][f[i - 1]]
      BY <2>1 DEF Unrolled
    <2>5. \A i \in 0..(n + 1) : g[i] = IF i = 0 THEN x0 ELSE step[i][g[i - 1]]
      <3> TAKE i \in 0..(n + 1)
      <3>1. CASE i = n + 1
        <4>1. g[i] = x /\ i # 0 /\ g[i - 1] = f[n]
          BY <2>3, <3>1
        <4> QED BY <2>2, <3>1, <4>1
      <3>2. CASE i # n + 1
        <4>1. i \in 0..n /\ g[i] = f[i] /\ (i # 0 => g[i - 1] = f[i - 1])
          BY <2>3, <3>2
        <4> QED BY <2>4, <4>1
      <3> QED BY <3>1, <3>2
    <2>6. g = [i \in 0..(n + 1) |-> IF i = 0 THEN x0 ELSE step[i][g[i - 1]]]
      BY <2>3, <2>5
    <2>7. x \in X[n + 1]
      <3>1. f[n] \in X[n]
        BY <2>1
      <3> QED BY <2>0, <2>2, <3>1
    <2>8. \A i \in 0..(n + 1) : g[i] \in X[i]
      BY <2>1, <2>3, <2>7
    <2> QED BY <2>6, <2>8 DEF Unrolled
  <1>3. Nat \subseteq S
    <2> HIDE DEF S
    <2> QED BY <1>1, <1>2, NatSetInduction
  <1>4. k \in S
    <2> HIDE DEF S
    <2> QED BY <1>3
  <1> QED BY <1>4


\* What holds at first and is kept from each step to the next holds all along.
LEMMA Along ==
  ASSUME NEW k \in Nat, NEW X, NEW g, g[0] \in X[0],
         \A i \in 1..k : g[i - 1] \in X[i - 1] => g[i] \in X[i]
  PROVE  \A i \in 0..k : g[i] \in X[i]
  <1> DEFINE S == {n \in Nat : n <= k => g[n] \in X[n]}
  <1>1. 0 \in S
    OBVIOUS
  <1>2. ASSUME NEW n \in Nat, n \in S PROVE n + 1 \in S
    <2> SUFFICES ASSUME n + 1 <= k PROVE g[n + 1] \in X[n + 1]
      OBVIOUS
    <2>1. n <= k /\ n + 1 \in 1..k /\ (n + 1) - 1 = n
      OBVIOUS
    <2> QED BY <1>2, <2>1
  <1>3. Nat \subseteq S
    <2> HIDE DEF S
    <2> QED BY <1>1, <1>2, NatSetInduction, ZenonT(30)
  <1> QED BY <1>3

-----------------------------------------------------------------------------
(* Query streams, over rows with identities in ID. *)

Response(ID) == [md : Nat, rows : Seq(ID), token : Nat]
Responses(ID) == Seq(Response(ID))

\* How far a list of responses that starts after row from has come with its
\* first j; and that it goes on from row to row without a gap.
At(s, from, j) == IF j = 0 THEN from ELSE s[j].token
Chain(s, from, ids) ==
  \A j \in 1..Len(s) : /\ s[j].rows = SubSeq(ids, At(s, from, j - 1) + 1, At(s, from, j))
                       /\ At(s, from, j - 1) <= At(s, from, j) /\ At(s, from, j) <= Len(ids)

LEMMA ResponseParts ==
  ASSUME NEW ID, NEW s \in Responses(ID)
  PROVE  /\ Len(s) \in Nat
         /\ \A j \in 1..Len(s) : s[j].md \in Nat /\ s[j].rows \in Seq(ID) /\ s[j].token \in Nat
  <1>1. Len(s) \in Nat /\ \A j \in 1..Len(s) : s[j] \in Response(ID)
    BY DEF Responses
  <1>2. ASSUME NEW r \in Response(ID)
        PROVE  r.md \in Nat /\ r.rows \in Seq(ID) /\ r.token \in Nat
    BY DEF Response
  <1> QED BY <1>1, <1>2, Zenon

\* Places in a list of responses are rows of the query.
LEMMA AtBounds ==
  ASSUME NEW ID, NEW ids \in Seq(ID), NEW s \in Responses(ID), NEW from \in 0..Len(ids),
         Chain(s, from, ids)
  PROVE  \A j \in 0..Len(s) : At(s, from, j) \in 0..Len(ids)
  <1> TAKE j \in 0..Len(s)
  <1>0. Len(s) \in Nat /\ Len(ids) \in Nat
    BY DEF Responses
  <1>1. CASE j = 0
    BY <1>1 DEF At
  <1>2. CASE j # 0
    <2>1. j \in 1..Len(s)
      BY <1>0, <1>2
    <2>2. s[j].token \in Nat
      BY <2>1, ResponseParts
    <2>3. At(s, from, j) = s[j].token /\ At(s, from, j) <= Len(ids)
      BY <1>2, <2>1 DEF At, Chain
    <2> QED BY <1>0, <2>2, <2>3
  <1> QED BY <1>1, <1>2

\* The rows of a chain are those from its start to its end.
LEMMA ChainRows ==
  ASSUME NEW ID, NEW ids \in Seq(ID), NEW s \in Responses(ID), Chain(s, 0, ids)
  PROVE  rowsIn(s) = SubSeq(ids, 1, At(s, 0, Len(s)))
  <1>0. PICK n \in Nat : n = Len(s) /\ \A j \in 1..n : s[j].rows \in Seq(ID)
    BY ResponseParts
  <1> DEFINE X == [j \in 0..n |-> {SubSeq(ids, 1, At(s, 0, j))}]
             step == [j \in 1..n |-> [x \in Seq(ID) |-> x \o s[j].rows]]
  <1>1. \A j \in 0..n : At(s, 0, j) \in 0..Len(ids) /\ SubSeq(ids, 1, At(s, 0, j)) \in Seq(ID)
    <2> TAKE j \in 0..n
    <2>1. 0 \in 0..Len(ids) /\ Len(ids) \in Nat
      OBVIOUS
    <2>2. At(s, 0, j) \in 0..Len(ids)
      BY <1>0, <2>1, AtBounds
    <2>3. PICK m \in 0..Len(ids) : m = At(s, 0, j)
      BY <2>2
    <2>4. \A k \in 1..m : ids[k] \in ID
      BY <2>1
    <2>5. SubSeq(ids, 1, m) \in Seq(ID)
      BY <2>1, <2>4, SubSeqProperties
    <2> QED BY <2>3, <2>5
  <1>2. \A j \in 1..n : SubSeq(ids, 1, At(s, 0, j - 1)) \o s[j].rows = SubSeq(ids, 1, At(s, 0, j))
    <2> TAKE j \in 1..n
    <2>1. PICK a \in 0..Len(ids), b \in 0..Len(ids) : a = At(s, 0, j - 1) /\ b = At(s, 0, j)
      BY <1>0, <1>1
    <2>2. s[j].rows = SubSeq(ids, a + 1, b) /\ a <= b
      BY <1>0, <2>1, ZenonT(30) DEF Chain
    <2>3. 1 \in 1..(Len(ids) + 1) /\ a \in (1 - 1)..Len(ids) /\ b \in a..Len(ids)
      BY <2>2
    <2>4. SubSeq(ids, 1, a) \o SubSeq(ids, a + 1, b) = SubSeq(ids, 1, b)
      BY <2>3, ConcatAdjacentSubSeq
    <2> QED BY <2>1, <2>2, <2>4, ZenonT(30)
  <1>3. X[0] = {<<>>} /\ X[n] = {SubSeq(ids, 1, At(s, 0, n))}
    <2>1. SubSeq(ids, 1, 0) = <<>> /\ At(s, 0, 0) = 0
      BY SubSeqEmpty DEF At
    <2>2. 0 \in 0..n /\ n \in 0..n
      OBVIOUS
    <2> QED BY <2>1, <2>2, Zenon
  <1>4. \A j \in 1..n : \A x \in X[j - 1] : x \in Seq(ID) /\ x \o s[j].rows \in X[j]
    <2> TAKE j \in 1..n
    <2>1. X[j - 1] = {SubSeq(ids, 1, At(s, 0, j - 1))} /\ X[j] = {SubSeq(ids, 1, At(s, 0, j))}
          /\ j - 1 \in 0..n
      BY <1>0
    <2> HIDE DEF X
    <2> QED BY <1>1, <1>2, <2>1, Zenon
  <1>5. PICK f : Unrolled(f, <<>>, step, n) /\ \A j \in 0..n : f[j] \in X[j]
    <2>1. \A j \in 1..n : \A x \in X[j - 1] : step[j][x] \in X[j]
      <3> HIDE DEF X
      <3> QED BY <1>4, ZenonT(30)
    <2>2. <<>> \in X[0]
      BY <1>3, ZenonT(30)
    <2> HIDE DEF step, X
    <2> QED BY <2>1, <2>2, Recursion, ZenonT(30)
  <1>6. f = [j \in 0..n |-> IF j = 0 THEN <<>> ELSE f[j - 1] \o s[j].rows]
    <2>1. \A j \in 1..n : f[j - 1] \in Seq(ID)
      <3> HIDE DEF X, step
      <3> TAKE j \in 1..n
      <3>1. j - 1 \in 0..n
        OBVIOUS
      <3> QED BY <1>4, <1>5, <3>1, Zenon
    <2>2. \A j \in 1..n : step[j][f[j - 1]] = f[j - 1] \o s[j].rows
      BY <2>1, ZenonT(30)
    <2> HIDE DEF step
    <2>3. \A j \in 0..n : (IF j = 0 THEN <<>> ELSE step[j][f[j - 1]])
                           = IF j = 0 THEN <<>> ELSE f[j - 1] \o s[j].rows
      <3> TAKE j \in 0..n
      <3>1. j = 0 \/ j \in 1..n
        OBVIOUS
      <3> QED BY <2>2, <3>1, Zenon
    <2> QED BY <1>5, <2>3, Zenon DEF Unrolled
  <1>7. PICK g : g = [j \in 0..n |-> IF j = 0 THEN <<>> ELSE g[j - 1] \o s[j].rows] /\ rowsIn(s) = g[n]
    BY <1>0, <1>6, Zenon DEF rowsIn
  <1>8. g[n] \in X[n]
    <2>1. g[0] \in X[0]
      BY <1>3, <1>7
    <2> HIDE DEF X
    <2>2. ASSUME NEW j \in 1..n, g[j - 1] \in X[j - 1] PROVE g[j] \in X[j]
      <3>1. g[j] = g[j - 1] \o s[j].rows
        <4>1. j \in 0..n /\ j # 0
          OBVIOUS
        <4> QED BY <1>7, <4>1, Zenon
      <3> QED BY <1>4, <2>2, <3>1, Zenon
    <2>3. \A j \in 0..n : g[j] \in X[j]
      BY <2>1, <2>2, Along, ZenonT(30)
    <2> QED BY <2>3
  <1> HIDE DEF X
  <1> QED BY <1>0, <1>3, <1>7, <1>8, ZenonT(30)

\* A chain that is cut is a chain, as far as it goes.
LEMMA ChainCut ==
  ASSUME NEW ID, NEW ids \in Seq(ID), NEW s \in Responses(ID), NEW from \in 0..Len(ids),
         Chain(s, from, ids), NEW k \in 0..Len(s)
  PROVE  /\ SubSeq(s, 1, k) \in Responses(ID) /\ Len(SubSeq(s, 1, k)) = k
         /\ Chain(SubSeq(s, 1, k), from, ids)
         /\ \A j \in 0..k : At(SubSeq(s, 1, k), from, j) = At(s, from, j)
         /\ \A j \in 1..k : SubSeq(s, 1, k)[j] = s[j]
  <1>1. PICK t : t = SubSeq(s, 1, k)
    BY Zenon
  <1>2. Len(s) \in Nat /\ k \in Nat /\ k <= Len(s) /\ k \in Int
    BY ResponseParts
  <1>3. t \in Responses(ID) /\ Len(t) = k /\ \A j \in 1..k : t[j] = s[j]
    <2>1. \A j \in 1..k : s[j] \in Response(ID)
      BY <1>2 DEF Responses
    <2>2. /\ t \in Seq(Response(ID)) /\ Len(t) = (IF 1 <= k THEN k - 1 + 1 ELSE 0)
          /\ \A j \in 1..(k - 1 + 1) : t[j] = s[1 + j - 1]
      <3>1. 1 \in Int
        OBVIOUS
      <3> QED BY <1>1, <1>2, <2>1, <3>1, SubSeqProperties
    <2>3. k - 1 + 1 = k /\ (~(1 <= k) => k = 0) /\ \A j \in 1..k : 1 + j - 1 = j
      BY <1>2
    <2> QED BY <2>2, <2>3, Zenon DEF Responses
  <1>4. \A j \in 0..k : At(t, from, j) = At(s, from, j)
    <2> TAKE j \in 0..k
    <2>1. j = 0 \/ j \in 1..k
      BY <1>2
    <2> QED BY <1>3, <2>1, Zenon DEF At
  <1>5. Chain(t, from, ids)
    <2>1. \A j \in 1..k : j \in 1..Len(s) /\ j \in 0..k /\ j - 1 \in 0..k
      BY <1>2
    <2> QED BY <1>3, <1>4, <2>1, Zenon DEF Chain
  <1> QED BY <1>1, <1>3, <1>4, <1>5, Zenon

Chained(ID, ids, from, s, e) == s \in Responses(ID) /\ Chain(s, from, ids) /\ At(s, from, Len(s)) = e

\* A chain and one that goes on from its end are one chain.
LEMMA ChainJoin ==
  ASSUME NEW ID, NEW ids \in Seq(ID), NEW s \in Responses(ID), NEW t \in Responses(ID),
         NEW from \in 0..Len(ids), Chain(s, from, ids), Chain(t, At(s, from, Len(s)), ids)
  PROVE  Chained(ID, ids, from, s \o t, At(t, At(s, from, Len(s)), Len(t)))
  <1>1. PICK u : u = s \o t
    BY Zenon
  <1>2. PICK m \in Nat, n \in Nat : m = Len(s) /\ n = Len(t)
    BY ResponseParts
  <1>3. /\ u \in Responses(ID) /\ Len(u) = m + n
        /\ \A j \in 1..(m + n) : u[j] = IF j <= m THEN s[j] ELSE t[j - m]
    BY <1>1, <1>2, ConcatProperties, ZenonT(30) DEF Responses
  <1>4. PICK e : e = At(s, from, m)
    BY Zenon
  <1>5. \A j \in 0..m : At(u, from, j) = At(s, from, j)
    <2> TAKE j \in 0..m
    <2>1. j = 0 \/ (j \in 1..(m + n) /\ j <= m)
      OBVIOUS
    <2> QED BY <1>3, <2>1, Zenon DEF At
  <1>6. \A j \in 0..n : At(u, from, m + j) = At(t, e, j)
    <2> TAKE j \in 0..n
    <2>1. CASE j = 0
      <3>1. m + j = m /\ m \in 0..m
        BY <2>1
      <3>2. At(u, from, m + j) = e
        BY <1>4, <1>5, <3>1, Zenon
      <3> QED BY <2>1, <3>2, Zenon DEF At
    <2>2. CASE j # 0
      <3>1. m + j \in 1..(m + n) /\ ~(m + j <= m) /\ (m + j) - m = j /\ m + j # 0
        BY <2>2
      <3> QED BY <1>3, <2>2, <3>1, Zenon DEF At
    <2> QED BY <2>1, <2>2
  <1>7. Chain(u, from, ids)
    <2> SUFFICES ASSUME NEW j \in 1..(m + n)
                 PROVE  /\ u[j].rows = SubSeq(ids, At(u, from, j - 1) + 1, At(u, from, j))
                        /\ At(u, from, j - 1) <= At(u, from, j) /\ At(u, from, j) <= Len(ids)
      BY <1>3, Zenon DEF Chain
    <2>1. CASE j <= m
      <3>1. j \in 1..m /\ j \in 0..m /\ j - 1 \in 0..m
        BY <2>1
      <3>2. u[j] = s[j] /\ At(u, from, j) = At(s, from, j) /\ At(u, from, j - 1) = At(s, from, j - 1)
        BY <1>3, <1>5, <2>1, <3>1, Zenon
      <3> QED BY <1>2, <3>1, <3>2, Zenon DEF Chain
    <2>2. CASE ~(j <= m)
      <3>1. PICK i \in 1..n : i = j - m /\ j = m + i /\ j - 1 = m + (i - 1) /\ i \in 0..n /\ i - 1 \in 0..n
        <4>1. j - m \in 1..n /\ j = m + (j - m) /\ j - 1 = m + ((j - m) - 1) /\ j - m \in 0..n /\ (j - m) - 1 \in 0..n
          BY <2>2
        <4> QED BY <4>1, Zenon
      <3>2. u[j] = t[i]
        BY <1>3, <2>2, <3>1, Zenon
      <3>3. At(u, from, j) = At(t, e, i) /\ At(u, from, j - 1) = At(t, e, i - 1)
        BY <1>6, <3>1, Zenon
      <3>4. Chain(t, e, ids)
        BY <1>2, <1>4, Zenon
      <3> QED BY <1>2, <3>1, <3>2, <3>3, <3>4, Zenon DEF Chain
    <2> QED BY <2>1, <2>2
  <1>8. At(u, from, m + n) = At(t, e, n)
    <2>1. n \in 0..n
      OBVIOUS
    <2> QED BY <1>6, <2>1, Zenon
  <1> QED BY <1>1, <1>2, <1>3, <1>4, <1>7, <1>8, Zenon DEF Chained

\* The token of a client that has got a chain is the row the chain ends with.
LEMMA TokenIs ==
  ASSUME NEW ID, NEW ids \in Seq(ID), NEW s \in Responses(ID), NEW from \in 0..Len(ids),
         Chain(s, from, ids)
  PROVE  tokenAfter(from, s) = At(s, from, Len(s))
  <1>0. PICK n \in Nat, N \in Nat : n = Len(s) /\ N = Len(ids)
    BY ResponseParts
  <1>1. CASE \A j \in 1..n : s[j].rows = <<>>
    <2> DEFINE X == [j \in 0..n |-> {from}]
               g == [j \in 0..n |-> At(s, from, j)]
    <2>1. g[0] \in X[0]
      BY <1>0 DEF At
    <2>2. ASSUME NEW j \in 1..n, g[j - 1] \in X[j - 1] PROVE g[j] \in X[j]
      <3>1. j \in 0..n /\ j - 1 \in 0..n
        OBVIOUS
      <3>2. g[j] = At(s, from, j) /\ X[j] = {from} /\ At(s, from, j - 1) = from
        BY <2>2, <3>1, Zenon
      <3>3. PICK b \in 0..N : b = At(s, from, j)
        BY <1>0, <3>1, AtBounds
      <3>4. SubSeq(ids, from + 1, b) = <<>> /\ from <= b
        BY <1>0, <1>1, <3>2, <3>3, Zenon DEF Chain
      <3>5. Len(SubSeq(ids, from + 1, b)) = IF from + 1 <= b THEN b - (from + 1) + 1 ELSE 0
        <4>1. \A k \in (from + 1)..b : ids[k] \in ID
          BY <1>0
        <4>2. from + 1 \in Int /\ b \in Int
          BY <1>0
        <4> QED BY <4>1, <4>2, SubSeqProperties
      <3>6. b = from
        BY <1>0, <3>4, <3>5
      <3> HIDE DEF g, X
      <3> QED BY <3>2, <3>3, <3>6, Zenon
    <2>3. \A j \in 0..n : g[j] \in X[j]
      <3> HIDE DEF g, X
      <3> QED BY <2>1, <2>2, Along, ZenonT(30)
    <2>4. n \in 0..n
      OBVIOUS
    <2>5. At(s, from, n) = from
      BY <2>3, <2>4, Zenon
    <2> QED BY <1>0, <1>1, <2>5, Zenon DEF tokenAfter
  <1>2. CASE ~\A j \in 1..n : s[j].rows = <<>>
    <2>1. n # 0
      BY <1>2
    <2> QED BY <1>0, <1>2, <2>1, Zenon DEF tokenAfter, At
  <1> QED BY <1>1, <1>2

-----------------------------------------------------------------------------
(* One stream: what is in its batch follows on what it has sent.             *)

Row(ID) == [id : ID, size : Nat]
StreamOf(ID) == [index : Nat, delivered : Nat, batch : Seq(ID), bytes : Nat, sent : Responses(ID)]
Headed(s, header, md) == header => Len(s) > 0 /\ s[1].md = md

Streaming(ID, ids, resume, header, md, i) ==
  {s \in StreamOf(ID) :
     /\ s.index = i /\ Chain(s.sent, resume, ids) /\ Headed(s.sent, header, md)
     /\ s.batch = SubSeq(ids, At(s.sent, resume, Len(s.sent)) + 1, i)
     /\ IF i > resume THEN At(s.sent, resume, Len(s.sent)) <= i
        ELSE At(s.sent, resume, Len(s.sent)) = resume
     /\ s.batch # <<>> => s.delivered = i}

\* A response that goes on from the end of what was sent.
LEMMA ChainAppend ==
  ASSUME NEW ID, NEW ids \in Seq(ID), NEW s \in Responses(ID), NEW from \in 0..Len(ids),
         Chain(s, from, ids), NEW r \in Response(ID), NEW e, e = At(s, from, Len(s)),
         r.rows = SubSeq(ids, e + 1, r.token), e <= r.token, r.token <= Len(ids)
  PROVE  Chained(ID, ids, from, Append(s, r), r.token)
  <1>0. PICK n \in Nat : n = Len(s)
    BY ResponseParts
  <1>1. PICK u : u = Append(s, r)
    BY Zenon
  <1>2. /\ u \in Responses(ID) /\ Len(u) = n + 1 /\ u[n + 1] = r /\ \A j \in 1..n : u[j] = s[j]
    BY <1>0, <1>1 DEF Responses
  <1>3. \A j \in 0..n : At(u, from, j) = At(s, from, j)
    <2> TAKE j \in 0..n
    <2>1. j = 0 \/ j \in 1..n
      OBVIOUS
    <2> QED BY <1>2, <2>1, Zenon DEF At
  <1>4. At(u, from, n + 1) = r.token
    <2>1. n + 1 # 0
      OBVIOUS
    <2> QED BY <1>2, <2>1, Zenon DEF At
  <1>5. Chain(u, from, ids)
    <2> SUFFICES ASSUME NEW j \in 1..(n + 1)
                 PROVE  /\ u[j].rows = SubSeq(ids, At(u, from, j - 1) + 1, At(u, from, j))
                        /\ At(u, from, j - 1) <= At(u, from, j) /\ At(u, from, j) <= Len(ids)
      BY <1>2, Zenon DEF Chain
    <2>1. CASE j = n + 1
      <3>1. j - 1 = n /\ n \in 0..n
        BY <2>1
      <3>2. At(u, from, j - 1) = e
        BY <1>0, <1>3, <3>1, Zenon
      <3> QED BY <1>2, <1>4, <2>1, <3>2, Zenon
    <2>2. CASE j # n + 1
      <3>1. j \in 1..n /\ j \in 0..n /\ j - 1 \in 0..n
        BY <2>2
      <3> QED BY <1>0, <1>2, <1>3, <3>1, Zenon DEF Chain
    <2> QED BY <2>1, <2>2
  <1> QED BY <1>1, <1>2, <1>4, <1>5, Zenon DEF Chained

\* A stream is its parts.
LEMMA StreamParts ==
  ASSUME NEW ID, NEW s \in StreamOf(ID)
  PROVE  /\ s.index \in Nat /\ s.delivered \in Nat /\ s.batch \in Seq(ID) /\ s.bytes \in Nat
         /\ s.sent \in Responses(ID)
  BY DEF StreamOf

\* A stream with its batch, bytes and either what it sent or delivered replaced.
Emptying(B, P, s, b, w, t) ==
  /\ t.index = s.index /\ t.delivered = s.delivered /\ t.batch = b /\ t.sent = w
  /\ t \in [index : Nat, delivered : Nat, batch : B, bytes : Nat, sent : P]

LEMMA Emptied ==
  ASSUME NEW B, NEW P, NEW s \in [index : Nat, delivered : Nat, batch : B, bytes : Nat, sent : P],
         NEW b \in B, NEW w \in P, NEW t, t = [s EXCEPT !.batch = b, !.bytes = 0, !.sent = w]
  PROVE  Emptying(B, P, s, b, w, t)
  BY ZenonT(30) DEF Emptying

\* A stream s, with rows b of n bytes in its batch, d of them delivered: u.
Extends(B, P, s, b, n, d, u) ==
  /\ s \in [index : Nat, delivered : Nat, batch : B, bytes : Nat, sent : P]
  /\ d \in Nat /\ b \in B /\ n \in Nat
  /\ u = [s EXCEPT !.batch = b, !.bytes = n, !.delivered = d]

ExtendedTo(B, P, s, b, d, u) ==
  /\ u.index = s.index /\ u.delivered = d /\ u.batch = b /\ u.sent = s.sent
  /\ u \in [index : Nat, delivered : Nat, batch : B, bytes : Nat, sent : P]

LEMMA Extended ==
  ASSUME NEW B, NEW P, NEW s, NEW b, NEW n, NEW d, NEW u, Extends(B, P, s, b, n, d, u)
  PROVE  ExtendedTo(B, P, s, b, d, u)
  BY ZenonT(30) DEF Extends, ExtendedTo

\* What flush makes of a stream s with rows in its batch: t, which has sent r.
Flushed(ID, s, r, t) ==
  /\ r \in Response(ID) /\ r.rows = s.batch /\ r.token = s.delivered
  /\ t.index = s.index /\ t.delivered = s.delivered /\ t.batch = <<>>
  /\ t.sent = Append(s.sent, r) /\ t \in StreamOf(ID)

LEMMA FlushParts ==
  ASSUME NEW ID, NEW s \in StreamOf(ID), s.batch # <<>>, NEW r, NEW t, t = flush(s),
         r = [md |-> 0, rows |-> s.batch, token |-> s.delivered]
  PROVE  Flushed(ID, s, r, t)
  <1>1. s.delivered \in Nat /\ s.batch \in Seq(ID)
    BY StreamParts
  <1>2. r \in Response(ID) /\ r.rows = s.batch /\ r.token = s.delivered
    BY <1>1 DEF Response
  <1>3. Append(s.sent, r) \in Responses(ID)
    BY <1>2, StreamParts DEF Responses
  <1>4. t = [s EXCEPT !.batch = <<>>, !.bytes = 0, !.sent = Append(s.sent, r)]
    BY Zenon DEF flush
  <1>5. PICK w : w = Append(s.sent, r)
    BY Zenon
  <1>6. t = [s EXCEPT !.batch = <<>>, !.bytes = 0, !.sent = w] /\ w \in Responses(ID)
    BY <1>3, <1>4, <1>5, Zenon
  <1>7. <<>> \in Seq(ID)
    OBVIOUS
  <1>8. /\ t.index = s.index /\ t.delivered = s.delivered /\ t.batch = <<>> /\ t.sent = w
        /\ t \in StreamOf(ID)
    <2>1. PICK B, P : B = Seq(ID) /\ P = Responses(ID)
      BY Zenon
    <2>2. s \in [index : Nat, delivered : Nat, batch : B, bytes : Nat, sent : P] /\ <<>> \in B /\ w \in P
      BY <1>6, <1>7, <2>1, Zenon DEF StreamOf
    <2>3. /\ t.index = s.index /\ t.delivered = s.delivered /\ t.batch = <<>> /\ t.sent = w
          /\ t \in [index : Nat, delivered : Nat, batch : B, bytes : Nat, sent : P]
      <3>1. PICK z \in B : z = <<>>
        BY <2>2, Zenon
      <3>2. t = [s EXCEPT !.batch = z, !.bytes = 0, !.sent = w]
        BY <1>6, <3>1, Zenon
      <3>3. Emptying(B, P, s, z, w, t)
        BY <2>2, <3>2, Emptied, Zenon
      <3> QED BY <3>1, <3>3, Zenon DEF Emptying
    <2> QED BY <2>1, <2>3, Zenon DEF StreamOf
  <1> QED BY <1>2, <1>5, <1>8, Zenon DEF Flushed

\* flush sends what is in the batch and leaves nothing behind.
LEMMA FlushKeeps ==
  ASSUME NEW ID, NEW ids \in Seq(ID), NEW resume \in 0..Len(ids), NEW header, NEW md,
         NEW i \in 0..Len(ids), NEW s \in Streaming(ID, ids, resume, header, md, i)
  PROVE  /\ flush(s) \in Streaming(ID, ids, resume, header, md, i)
         /\ At(flush(s).sent, resume, Len(flush(s).sent)) = IF i > resume THEN i ELSE resume
  <1>0. PICK N \in Nat : N = Len(ids)
    OBVIOUS
  <1>1. /\ s \in StreamOf(ID) /\ s.index = i /\ Chain(s.sent, resume, ids) /\ Headed(s.sent, header, md)
        /\ s.batch = SubSeq(ids, At(s.sent, resume, Len(s.sent)) + 1, i)
        /\ IF i > resume THEN At(s.sent, resume, Len(s.sent)) <= i
           ELSE At(s.sent, resume, Len(s.sent)) = resume
        /\ s.batch # <<>> => s.delivered = i
    BY Zenon DEF Streaming
  <1>2. s.sent \in Responses(ID) /\ Len(s.sent) \in Nat
    BY <1>1, StreamParts, ResponseParts
  <1>3. PICK e \in 0..N : e = At(s.sent, resume, Len(s.sent))
    <2>1. Len(s.sent) \in 0..Len(s.sent)
      BY <1>2
    <2> QED BY <1>0, <1>1, <1>2, <2>1, AtBounds
  <1>4. Len(SubSeq(ids, e + 1, i)) = IF e + 1 <= i THEN i - (e + 1) + 1 ELSE 0
    <2>1. \A k \in (e + 1)..i : ids[k] \in ID
      BY <1>0
    <2>2. e + 1 \in Int /\ i \in Int
      BY <1>0
    <2> QED BY <2>1, <2>2, SubSeqProperties
  <1>5. s.batch = SubSeq(ids, e + 1, i) /\ IF i > resume THEN e <= i ELSE e = resume
    BY <1>1, <1>3, Zenon
  <1>6. CASE s.batch = <<>>
    <2>1. flush(s) = s
      BY <1>6, Zenon DEF flush
    <2>2. Len(SubSeq(ids, e + 1, i)) = 0
      BY <1>5, <1>6
    <2>3. e = IF i > resume THEN i ELSE resume
      BY <1>0, <1>4, <1>5, <2>2
    <2> QED BY <1>3, <2>1, <2>3, Zenon
  <1>7. CASE s.batch # <<>>
    <2>1. i > resume /\ e < i
      <3>1. SubSeq(ids, e + 1, i) # <<>>
        BY <1>5, <1>7, Zenon
      <3>2. i < e + 1 => SubSeq(ids, e + 1, i) = <<>>
        BY <1>0, SubSeqEmpty
      <3> QED BY <1>0, <1>5, <3>1, <3>2
    <2>2. PICK t, r : t = flush(s) /\ r = [md |-> 0, rows |-> s.batch, token |-> s.delivered]
      BY Zenon
    <2>b. Flushed(ID, s, r, t)
      BY <1>1, <1>7, <2>2, FlushParts, Zenon
    <2>3. /\ r \in Response(ID) /\ r.rows = s.batch /\ r.token = s.delivered
          /\ t.index = s.index /\ t.delivered = s.delivered /\ t.batch = <<>>
          /\ t.sent = Append(s.sent, r) /\ t \in StreamOf(ID)
      BY <2>b, Zenon DEF Flushed
    <2>4. r.token = i /\ r.rows = SubSeq(ids, e + 1, i)
      BY <1>1, <1>5, <1>7, <2>3, Zenon
    <2>5. e <= i /\ i <= Len(ids)
      BY <2>1
    <2>6. Chain(t.sent, resume, ids) /\ At(t.sent, resume, Len(t.sent)) = i
      <3>1. r.rows = SubSeq(ids, e + 1, r.token) /\ e <= r.token /\ r.token <= Len(ids)
        BY <2>4, <2>5, Zenon
      <3>2. PICK q : q = s.sent
        BY Zenon
      <3>3. q \in Responses(ID) /\ Chain(q, resume, ids) /\ e = At(q, resume, Len(q))
        BY <1>1, <1>2, <1>3, <3>2, Zenon
      <3>4. Chain(Append(q, r), resume, ids) /\ At(Append(q, r), resume, Len(Append(q, r))) = r.token
        <4>1. Chained(ID, ids, resume, Append(q, r), r.token)
          BY <2>3, <3>1, <3>3, ChainAppend, Zenon
        <4> QED BY <4>1, Zenon DEF Chained
      <3> QED BY <2>3, <2>4, <3>2, <3>4, Zenon
    <2>7. Headed(t.sent, header, md)
      <3>1. Len(s.sent) > 0 => Len(Append(s.sent, r)) > 0 /\ Append(s.sent, r)[1] = s.sent[1]
        BY <1>2, <2>3 DEF Responses
      <3> QED BY <1>1, <2>3, <3>1, Zenon DEF Headed
    <2>8. SubSeq(ids, i + 1, i) = <<>>
      BY SubSeqEmpty
    <2>9. i <= i
      OBVIOUS
    <2>a. t \in Streaming(ID, ids, resume, header, md, i)
      BY <1>1, <2>1, <2>3, <2>6, <2>7, <2>8, <2>9, Zenon DEF Streaming
    <2> QED BY <2>1, <2>2, <2>6, <2>a, Zenon
  <1> QED BY <1>6, <1>7

\* The parts of a stream that goes on to its next row, or adds one to its batch.
Added(ID, s, row, t, u) ==
  /\ t \in StreamOf(ID) /\ t.index = s.index + 1 /\ t.batch = s.batch /\ t.sent = s.sent
  /\ t.delivered = s.delivered
  /\ u \in StreamOf(ID) /\ u.index = s.index + 1 /\ u.batch = Append(s.batch, row.id)
  /\ u.sent = s.sent /\ u.delivered = s.index + 1

LEMMA RowParts ==
  ASSUME NEW ID, NEW s \in StreamOf(ID), NEW row \in Row(ID), NEW t, NEW u,
         t = [s EXCEPT !.index = @ + 1],
         u = [t EXCEPT !.batch = Append(@, row.id), !.bytes = @ + row.size, !.delivered = deliveredRows(t)]
  PROVE  Added(ID, s, row, t, u)
  <1>1. PICK B, P : B = Seq(ID) /\ P = Responses(ID)
    BY Zenon
  <1> DEFINE Q == [index : Nat, delivered : Nat, batch : B, bytes : Nat, sent : P]
  <1>2. s \in Q /\ row.id \in ID /\ row.size \in Nat
    <2>1. s \in Q
      BY <1>1, Zenon DEF StreamOf
    <2> QED BY <2>1 DEF Row
  <1>3. t \in Q /\ t.index = s.index + 1 /\ t.batch = s.batch /\ t.sent = s.sent
        /\ t.delivered = s.delivered
    BY <1>2
  <1>4. PICK b : b = Append(s.batch, row.id) /\ b \in B
    <2>1. s.batch \in Seq(ID)
      BY StreamParts
    <2>2. Append(s.batch, row.id) \in Seq(ID)
      BY <1>2, <2>1
    <2> QED BY <1>1, <2>2, Zenon
  <1>5. u = [t EXCEPT !.batch = b, !.bytes = t.bytes + row.size, !.delivered = t.index]
    <2>1. Append(t.batch, row.id) = b
      BY <1>3, <1>4, Zenon
    <2> QED BY <2>1, Zenon DEF deliveredRows
  <1>6. u \in Q /\ u.index = t.index /\ u.batch = b /\ u.sent = t.sent /\ u.delivered = t.index
    <2>1. t.bytes + row.size \in Nat /\ t.index \in Nat
      BY <1>2, <1>3
    <2>2. PICK n \in Nat, d \in Nat : n = t.bytes + row.size /\ d = t.index
      BY <2>1, Zenon
    <2>3. u = [t EXCEPT !.batch = b, !.bytes = n, !.delivered = d]
      BY <1>5, <2>2, Zenon
    <2>4. u.index = t.index /\ u.delivered = d /\ u.batch = b /\ u.sent = t.sent /\ u \in Q
      <3>1. Extends(B, P, t, b, n, d, u)
        BY <1>3, <1>4, <2>3, ZenonT(30) DEF Extends
      <3>2. ExtendedTo(B, P, t, b, d, u)
        BY <3>1, Extended, ZenonT(30)
      <3> QED BY <3>2, ZenonT(30) DEF ExtendedTo
    <2> QED BY <2>2, <2>4, Zenon
  <1> QED BY <1>1, <1>3, <1>4, <1>6, Zenon DEF StreamOf, Added

\* A row before the resume token is passed over, one after it is batched, and
\* the batch sent when it is full.
LEMMA RowKeeps ==
  ASSUME NEW ID, NEW ids \in Seq(ID), NEW resume \in 0..Len(ids), NEW header, NEW md,
         NEW i \in 1..Len(ids), NEW s \in Streaming(ID, ids, resume, header, md, i - 1),
         NEW row \in Row(ID), row.id = ids[i]
  PROVE  queryRow(resume, s, row) \in Streaming(ID, ids, resume, header, md, i)
  <1>0. PICK N \in Nat : N = Len(ids)
    OBVIOUS
  <1>1. /\ s \in StreamOf(ID) /\ s.index = i - 1 /\ Chain(s.sent, resume, ids) /\ Headed(s.sent, header, md)
        /\ s.batch = SubSeq(ids, At(s.sent, resume, Len(s.sent)) + 1, i - 1)
        /\ IF i - 1 > resume THEN At(s.sent, resume, Len(s.sent)) <= i - 1
           ELSE At(s.sent, resume, Len(s.sent)) = resume
    BY Zenon DEF Streaming
  <1>2. s.sent \in Responses(ID) /\ Len(s.sent) \in Nat /\ s.batch \in Seq(ID)
    BY <1>1, StreamParts, ResponseParts, ZenonT(30)
  <1>3. PICK e \in 0..N : e = At(s.sent, resume, Len(s.sent))
    <2>1. Len(s.sent) \in 0..Len(s.sent)
      BY <1>2
    <2> QED BY <1>0, <1>1, <1>2, <2>1, AtBounds, ZenonT(30)
  <1>4. s.batch = SubSeq(ids, e + 1, i - 1) /\ IF i - 1 > resume THEN e <= i - 1 ELSE e = resume
    BY <1>1, <1>3, Zenon
  <1>5. PICK t, u : /\ t = [s EXCEPT !.index = @ + 1]
                    /\ u = [t EXCEPT !.batch = Append(@, row.id), !.bytes = @ + row.size,
                                     !.delivered = deliveredRows(t)]
    BY Zenon
  <1>6. /\ t \in StreamOf(ID) /\ t.index = s.index + 1 /\ t.batch = s.batch /\ t.sent = s.sent
        /\ t.delivered = s.delivered
        /\ u \in StreamOf(ID) /\ u.index = s.index + 1 /\ u.batch = Append(s.batch, row.id)
        /\ u.sent = s.sent /\ u.delivered = s.index + 1
    <2>1. Added(ID, s, row, t, u)
      BY <1>1, <1>5, RowParts, Zenon
    <2> QED BY <2>1, Zenon DEF Added
  <1>7. t.index = i /\ u.index = i /\ u.delivered = i
    BY <1>1, <1>6
  <1>8. /\ t.index <= resume => queryRow(resume, s, row) = t
        /\ ~(t.index <= resume) => queryRow(resume, s, row) \in {u, flush(u)}
    <2>1. ASSUME t.index <= resume PROVE queryRow(resume, s, row) = t
      BY <1>5, <2>1, Zenon DEF queryRow
    <2>2. ASSUME ~(t.index <= resume), u.bytes >= QueryBatchBytes PROVE queryRow(resume, s, row) = flush(u)
      BY <1>5, <2>2, Zenon DEF queryRow
    <2>3. ASSUME ~(t.index <= resume), ~(u.bytes >= QueryBatchBytes) PROVE queryRow(resume, s, row) = u
      BY <1>5, <2>3, Zenon DEF queryRow
    <2> QED BY <2>1, <2>2, <2>3, Zenon
  <1>9. CASE i <= resume
    <2>1. e = resume /\ ~(i > resume) /\ i - 1 < e + 1 /\ i < e + 1
      BY <1>0, <1>4, <1>9
    <2>2. s.batch = <<>> /\ SubSeq(ids, e + 1, i) = <<>>
      <3>1. e + 1 \in Int /\ i \in Int /\ i - 1 \in Int
        BY <1>0
      <3> QED BY <1>4, <2>1, <3>1, SubSeqEmpty
    <2>3. t \in Streaming(ID, ids, resume, header, md, i)
      BY <1>1, <1>3, <1>6, <1>7, <2>1, <2>2, Zenon DEF Streaming
    <2>4. queryRow(resume, s, row) = t
      <3>1. t.index <= resume
        BY <1>7, <1>9, Zenon
      <3> QED BY <1>8, <3>1, Zenon
    <2> QED BY <2>3, <2>4, Zenon
  <1>a. CASE ~(i <= resume)
    <2>1. i > resume /\ e <= i - 1 /\ e <= i /\ e + 1 \in 1..Len(ids) /\ i \in (e + 1)..Len(ids)
      BY <1>0, <1>4, <1>a
    <2>2. Append(s.batch, row.id) = SubSeq(ids, e + 1, i)
      <3>1. SubSeq(ids, e + 1, i) = SubSeq(ids, e + 1, i - 1) \o <<ids[i]>>
        BY <2>1, SubSeqRecursiveSecond, ZenonT(30)
      <3>2. Append(s.batch, row.id) = s.batch \o <<row.id>>
        <4>1. row.id \in ID
          BY DEF Row
        <4> QED BY <1>2, <4>1, AppendIsConcat
      <3> QED BY <1>4, <3>1, <3>2, Zenon
    <2>3. u \in Streaming(ID, ids, resume, header, md, i)
      BY <1>1, <1>3, <1>6, <1>7, <2>1, <2>2, Zenon DEF Streaming
    <2>4. i \in 0..Len(ids)
      OBVIOUS
    <2>5. flush(u) \in Streaming(ID, ids, resume, header, md, i)
      BY <2>3, <2>4, FlushKeeps, Zenon
    <2>6. queryRow(resume, s, row) \in {u, flush(u)}
      BY <1>7, <1>8, <1>a, Zenon
    <2> QED BY <2>3, <2>5, <2>6, Zenon
  <1> QED BY <1>9, <1>a

\* A whole stream: every row after the resume token, with the metadata first.
Delivers(ID, ids, resume, header, md, s) ==
  /\ s \in Responses(ID) /\ Chain(s, resume, ids) /\ Headed(s, header, md)
  /\ At(s, resume, Len(s)) = Len(ids)

LEMMA StreamBegins ==
  ASSUME NEW ID, NEW ids \in Seq(ID), NEW resume \in 0..Len(ids), NEW header \in BOOLEAN, NEW md \in Nat,
         header => resume = 0, NEW first,
         first = IF header THEN <<[md |-> md, rows |-> <<>>, token |-> 0]>> ELSE <<>>
  PROVE  [index |-> 0, delivered |-> 0, batch |-> <<>>, bytes |-> 0, sent |-> first]
           \in Streaming(ID, ids, resume, header, md, 0)
  <1>1. PICK r : r = [md |-> md, rows |-> <<>>, token |-> 0]
    BY Zenon
  <1>2. r \in Response(ID) /\ r.md = md /\ r.rows = <<>> /\ r.token = 0
    BY <1>1 DEF Response
  <1>3. SubSeq(ids, resume + 1, 0) = <<>> /\ SubSeq(ids, 0 + 1, 0) = <<>>
    BY SubSeqEmpty
  <1>4. first \in Responses(ID) /\ Chain(first, resume, ids) /\ Headed(first, header, md)
        /\ At(first, resume, Len(first)) = resume
    <2>1. CASE header
      <3>1. first = <<r>> /\ resume = 0
        BY <1>1, <2>1, Zenon
      <3>2. first \in Responses(ID) /\ Len(first) = 1 /\ first[1] = r
        <4>1. ASSUME NEW R, r \in R PROVE <<r>> \in Seq(R) /\ Len(<<r>>) = 1 /\ <<r>>[1] = r
          BY <4>1
        <4> QED BY <1>2, <3>1, <4>1, Zenon DEF Responses
      <3>3. At(first, resume, 1) = 0 /\ At(first, resume, 0) = 0
        BY <1>2, <3>1, <3>2 DEF At
      <3>4. Chain(first, resume, ids)
        <4> SUFFICES ASSUME NEW j \in 1..1
                     PROVE  /\ first[j].rows = SubSeq(ids, At(first, resume, j - 1) + 1, At(first, resume, j))
                            /\ At(first, resume, j - 1) <= At(first, resume, j)
                            /\ At(first, resume, j) <= Len(ids)
          BY <3>2, Zenon DEF Chain
        <4>1. j = 1 /\ j - 1 = 0 /\ 0 <= 0 /\ 0 <= Len(ids)
          OBVIOUS
        <4> QED BY <1>2, <1>3, <3>2, <3>3, <4>1, Zenon
      <3>5. 1 > 0
        OBVIOUS
      <3> QED BY <1>2, <3>1, <3>2, <3>3, <3>4, <3>5, Zenon DEF Headed
    <2>2. CASE ~header
      <3>1. first = <<>> /\ first \in Responses(ID) /\ Len(first) = 0
        BY <2>2 DEF Responses
      <3>2. 1..0 = {}
        OBVIOUS
      <3> QED BY <2>2, <3>1, <3>2, Zenon DEF Chain, Headed, At
    <2> QED BY <2>1, <2>2
  <1>5. PICK s : s = [index |-> 0, delivered |-> 0, batch |-> <<>>, bytes |-> 0, sent |-> first]
    BY Zenon
  <1>6. s.index = 0 /\ s.batch = <<>> /\ s.sent = first
    BY <1>5
  <1>7. s \in StreamOf(ID)
    <2>1. <<>> \in Seq(ID) /\ 0 \in Nat
      OBVIOUS
    <2> QED BY <1>4, <1>5, <2>1, Zenon DEF StreamOf
  <1>8. ~(0 > resume)
    OBVIOUS
  <1> QED BY <1>3, <1>4, <1>5, <1>6, <1>7, <1>8, Zenon DEF Streaming

LEMMA StreamDelivers ==
  ASSUME NEW ID, NEW rows \in Seq(Row(ID)), NEW ids \in Seq(ID), Len(ids) = Len(rows),
         \A k \in 1..Len(rows) : ids[k] = rows[k].id, NEW resume \in 0..Len(ids),
         NEW header \in BOOLEAN, NEW md \in Nat, header => resume = 0
  PROVE  Delivers(ID, ids, resume, header, md, streamed(header, md, rows, resume))
  <1>n. PICK n \in Nat : n = Len(rows)
    OBVIOUS
  <1>r. \A i \in 1..n : rows[i] \in Row(ID)
    BY <1>n
  <1>f. PICK first : first = IF header THEN <<[md |-> md, rows |-> <<>>, token |-> 0]>> ELSE <<>>
    BY Zenon
  <1>s. PICK z : z = [index |-> 0, delivered |-> 0, batch |-> <<>>, bytes |-> 0, sent |-> first]
    BY Zenon
  <1> DEFINE X == [i \in 0..n |-> Streaming(ID, ids, resume, header, md, i)]
             step == [i \in 1..n |-> [s \in Streaming(ID, ids, resume, header, md, i - 1) |->
                                         queryRow(resume, s, rows[i])]]
  <1>0. z \in Streaming(ID, ids, resume, header, md, 0)
    BY <1>f, <1>s, StreamBegins, Zenon
  <1>x. z \in X[0]
    BY <1>n, <1>0
  <1>k. \A i \in 1..n : \A s \in Streaming(ID, ids, resume, header, md, i - 1) :
           queryRow(resume, s, rows[i]) \in Streaming(ID, ids, resume, header, md, i)
    <2> TAKE i \in 1..n
    <2>1. i \in 1..Len(ids) /\ i \in 1..Len(rows)
      BY <1>n, Zenon
    <2>2. rows[i].id = ids[i]
      BY <2>1, Zenon
    <2> QED BY <1>r, <2>1, <2>2, RowKeeps, Zenon
  <1>1. PICK f : Unrolled(f, z, step, n) /\ \A i \in 0..n : f[i] \in X[i]
    <2>1. \A i \in 1..n : \A s \in X[i - 1] : step[i][s] \in X[i]
      <3> TAKE i \in 1..n
      <3>1. i \in 0..n /\ i - 1 \in 0..n
        BY <1>n
      <3>2. X[i - 1] = Streaming(ID, ids, resume, header, md, i - 1)
            /\ X[i] = Streaming(ID, ids, resume, header, md, i)
        BY <3>1, Zenon
      <3>3. \A s \in Streaming(ID, ids, resume, header, md, i - 1) :
               step[i][s] = queryRow(resume, s, rows[i])
        BY Zenon
      <3> QED BY <1>k, <3>2, <3>3, Zenon
    <2> HIDE DEF step, X
    <2> QED BY <1>x, <2>1, Recursion, ZenonT(30)
  <1>2. f = [i \in 0..n |-> IF i = 0 THEN z ELSE queryRow(resume, f[i - 1], rows[i])]
    <2>1. ASSUME NEW i \in 0..n
          PROVE  (IF i = 0 THEN z ELSE step[i][f[i - 1]])
                   = IF i = 0 THEN z ELSE queryRow(resume, f[i - 1], rows[i])
      <3>1. CASE i = 0
        BY <3>1, Zenon
      <3>2. CASE i # 0
        <4>1. i \in 1..n /\ i - 1 \in 0..n
          BY <3>2
        <4>2. f[i - 1] \in Streaming(ID, ids, resume, header, md, i - 1)
          BY <1>1, <4>1, Zenon
        <4> QED BY <3>2, <4>1, <4>2, Zenon
      <3> QED BY <3>1, <3>2
    <2> HIDE DEF step, X
    <2> QED BY <1>1, <2>1, ZenonT(30) DEF Unrolled
  <1>3. PICK g : /\ g = [i \in 0..n |-> IF i = 0 THEN z ELSE queryRow(resume, g[i - 1], rows[i])]
                 /\ streamed(header, md, rows, resume) = flush(g[n]).sent
    <2> HIDE DEF step, X
    <2>1. z = [index |-> 0, delivered |-> 0, batch |-> <<>>, bytes |-> 0,
               sent |-> IF header THEN <<[md |-> md, rows |-> <<>>, token |-> 0]>> ELSE <<>>]
      BY <1>f, <1>s, ZenonT(30)
    <2>2. f = [i \in 0..Len(rows) |-> IF i = 0 THEN z ELSE queryRow(resume, f[i - 1], rows[i])]
      BY <1>n, <1>2, ZenonT(30)
    <2>3. PICK g :
             /\ g = [i \in 0..Len(rows) |-> IF i = 0 THEN z ELSE queryRow(resume, g[i - 1], rows[i])]
             /\ streamed(header, md, rows, resume) = flush(g[Len(rows)]).sent
      BY <2>1, <2>2, ZenonT(30) DEF streamed
    <2> QED BY <1>n, <2>3, ZenonT(30)
  <1>4. \A i \in 0..n : g[i] \in X[i]
    <2>1. g[0] \in X[0]
      BY <1>n, <1>x, <1>3
    <2>2. ASSUME NEW i \in 1..n, g[i - 1] \in X[i - 1] PROVE g[i] \in X[i]
      <3>1. i \in 0..n /\ i - 1 \in 0..n /\ i # 0
        BY <1>n
      <3>2. g[i] = queryRow(resume, g[i - 1], rows[i])
        BY <1>3, <3>1, ZenonT(30)
      <3>3. X[i - 1] = Streaming(ID, ids, resume, header, md, i - 1)
            /\ X[i] = Streaming(ID, ids, resume, header, md, i)
        BY <3>1, Zenon
      <3> QED BY <1>k, <2>2, <3>2, <3>3, Zenon
    <2> HIDE DEF X
    <2> QED BY <2>1, <2>2, Along, ZenonT(30)
  <1>5. g[n] \in Streaming(ID, ids, resume, header, md, n)
    <2>1. n \in 0..n
      OBVIOUS
    <2> QED BY <1>4, <2>1, Zenon
  <1>6. PICK t : t = flush(g[n])
    BY Zenon
  <1>7. /\ t \in Streaming(ID, ids, resume, header, md, n)
        /\ At(t.sent, resume, Len(t.sent)) = IF n > resume THEN n ELSE resume
    <2>1. n \in 0..Len(ids)
      BY <1>n
    <2>2. PICK s : s = g[n]
      BY Zenon
    <2>3. s \in Streaming(ID, ids, resume, header, md, n) /\ t = flush(s)
      BY <1>5, <1>6, <2>2, Zenon
    <2>4. /\ flush(s) \in Streaming(ID, ids, resume, header, md, n)
          /\ At(flush(s).sent, resume, Len(flush(s).sent)) = IF n > resume THEN n ELSE resume
      BY <2>1, <2>3, FlushKeeps
    <2> QED BY <2>3, <2>4
  <1>8. At(t.sent, resume, Len(t.sent)) = Len(ids)
    <2>1. n = Len(ids) /\ (~(n > resume) => resume = n)
      BY <1>n
    <2> QED BY <1>7, <2>1, Zenon
  <1>9. t.sent \in Responses(ID) /\ Chain(t.sent, resume, ids) /\ Headed(t.sent, header, md)
    <2>1. t \in StreamOf(ID) /\ Chain(t.sent, resume, ids) /\ Headed(t.sent, header, md)
      BY <1>7, Zenon DEF Streaming
    <2> QED BY <2>1, StreamParts, Zenon
  <1> QED BY <1>3, <1>6, <1>8, <1>9, Zenon DEF Delivers

-----------------------------------------------------------------------------
(* A client that resumes: what it has is a chain from the first row.         *)

\* What a request is sent, for a query that was prepared (prep) with metadata md
\* and has metadata now.
Sends(ID, ids, prep, md, resume, now, sent) ==
  /\ sent \in Responses(ID) /\ Chain(sent, resume, ids)
  /\ prep /\ now # md => sent = <<>>
  /\ now = md => At(sent, resume, Len(sent)) = Len(ids)
  /\ ~prep /\ resume = 0 /\ now = md => sent # <<>>
  /\ ~prep /\ resume = 0 /\ sent # <<>> => sent[1].md = now

Token(Q) == [instance : Nat, query : Q, md : Nat \ {0}]

LEMMA NothingSends ==
  ASSUME NEW ID, NEW ids \in Seq(ID), NEW resume \in 0..Len(ids)
  PROVE  <<>> \in Responses(ID) /\ Chain(<<>>, resume, ids) /\ At(<<>>, resume, Len(<<>>)) = resume
  <1>1. <<>> \in Responses(ID) /\ Len(<<>>) = 0 /\ 1..0 = {}
    BY DEF Responses
  <1> QED BY <1>1, Zenon DEF Chain, At

Executes(ID, Q, rows, ids, resume, prep, token, catalog) ==
  /\ rows \in Seq(Row(ID)) /\ ids \in Seq(ID) /\ Len(ids) = Len(rows)
  /\ \A k \in 1..Len(rows) : ids[k] = rows[k].id
  /\ resume \in 0..Len(ids) /\ prep \in BOOLEAN /\ token \in Token(Q) /\ catalog \in [Q -> Nat]

LEMMA ExecuteSends ==
  ASSUME NEW ID, NEW Q, NEW rows, NEW ids, NEW resume, NEW prep, NEW token, NEW catalog,
         Executes(ID, Q, rows, ids, resume, prep, token, catalog)
  PROVE  Sends(ID, ids, prep, token.md, resume, catalog[token.query],
               execute(prep, token, catalog, rows, resume).sent)
  <1> USE DEF Executes
  <1>1. PICK md, now, sent : /\ md = token.md /\ now = catalog[token.query]
                             /\ sent = execute(prep, token, catalog, rows, resume).sent
    BY Zenon
  <1>2. md \in Nat /\ md # 0 /\ now \in Nat
    <2>1. token.query \in Q /\ token.md \in Nat /\ token.md # 0
      BY DEF Token
    <2> QED BY <1>1, <2>1, Zenon
  <1>3. <<>> \in Responses(ID) /\ Chain(<<>>, resume, ids)
    BY NothingSends, Zenon
  <1>4. CASE prep
    <2>1. execute(prep, token, catalog, rows, resume) = ExecutePrepared(token, token.instance, catalog, rows, resume)
      BY <1>4, Zenon DEF execute
    <2>2. CASE now # md
      <3>1. prepared(token, token.instance, catalog) = "expired"
        BY <1>1, <2>2 DEF prepared
      <3>2. sent = <<>>
        BY <1>1, <2>1, <3>1 DEF ExecutePrepared
      <3> QED BY <1>1, <1>3, <1>4, <2>2, <3>2, Zenon DEF Sends
    <2>3. CASE now = md
      <3>1. prepared(token, token.instance, catalog) = "ok"
        BY <1>1, <1>2, <2>3 DEF prepared
      <3>2. sent = streamed(FALSE, md, rows, resume)
        BY <1>1, <2>1, <3>1 DEF ExecutePrepared
      <3>3. Delivers(ID, ids, resume, FALSE, md, sent)
        <4>1. FALSE \in BOOLEAN
          BY ZenonT(30)
        <4>2. Delivers(ID, ids, resume, FALSE, md, streamed(FALSE, md, rows, resume))
          BY <1>2, <4>1, StreamDelivers, ZenonT(30)
        <4> QED BY <3>2, <4>2, Zenon
      <3> QED BY <1>1, <1>4, <2>3, <3>3, Zenon DEF Sends, Delivers
    <2> QED BY <2>2, <2>3
  <1>5. CASE ~prep
    <2>1. execute(prep, token, catalog, rows, resume) = ExecuteQuery(token.query, catalog, rows, resume)
      BY <1>5, Zenon DEF execute
    <2>2. CASE now = 0
      <3>1. sent = <<>>
        BY <1>1, <2>1, <2>2 DEF ExecuteQuery
      <3>2. now # md
        BY <1>2, <2>2, Zenon
      <3> QED BY <1>1, <1>3, <1>5, <3>1, <3>2, Zenon DEF Sends
    <2>3. CASE now # 0
      <3>1. PICK header \in BOOLEAN : header = (resume = 0)
        BY ZenonT(30)
      <3>2. sent = streamed(header, now, rows, resume)
        BY <1>1, <2>1, <2>3, <3>1 DEF ExecuteQuery
      <3>3. Delivers(ID, ids, resume, header, now, sent)
        <4>1. header => resume = 0
          BY <3>1, ZenonT(30)
        <4>2. Delivers(ID, ids, resume, header, now, streamed(header, now, rows, resume))
          BY <1>2, <4>1, StreamDelivers
        <4> QED BY <3>2, <4>2, Zenon
      <3>4. resume = 0 => sent # <<>> /\ sent[1].md = now
        <4>1. sent = <<>> => ~(Len(sent) > 0)
          OBVIOUS
        <4>2. resume = 0 => header
          BY <3>1, ZenonT(30)
        <4> QED BY <3>3, <4>1, <4>2, Zenon DEF Delivers, Headed
      <3> QED BY <1>1, <1>5, <3>3, <3>4, Zenon DEF Sends, Delivers
    <2> QED BY <2>2, <2>3
  <1> QED BY <1>4, <1>5

ClientOf(ID) ==
  [resume : Nat, got : Responses(ID), open : BOOLEAN, tried : SUBSET Nat, told : SUBSET Nat]

Resuming(ID, ids, prep, md) ==
  {c \in ClientOf(ID) :
     /\ Chain(c.got, 0, ids) /\ c.resume = At(c.got, 0, Len(c.got))
     /\ ~c.open /\ c.tried \subseteq {md} => c.resume = Len(ids) /\ (prep \/ c.got # <<>>)
     /\ ~prep /\ c.tried \subseteq {md} /\ c.got # <<>> => c.got[1].md = md
     /\ prep => c.told \subseteq {md}}

\* What the client keeps of a stream.
Keeps(ID, ids, resume, sent, broken, kept) ==
  /\ kept \in Responses(ID) /\ Chain(kept, resume, ids)
  /\ ~broken => kept = sent
  /\ kept # <<>> => sent # <<>> /\ kept[1] = sent[1]

LEMMA KeepsPart ==
  ASSUME NEW ID, NEW ids \in Seq(ID), NEW resume \in 0..Len(ids), NEW sent \in Responses(ID),
         Chain(sent, resume, ids), NEW cut \in Nat, NEW kept, NEW broken, broken = (cut < Len(sent)),
         kept = IF broken THEN SubSeq(sent, 1, cut) ELSE sent
  PROVE  Keeps(ID, ids, resume, sent, broken, kept)
  <1>1. CASE ~broken
    BY <1>1, Zenon DEF Keeps
  <1>2. CASE broken
    <2>1. kept = SubSeq(sent, 1, cut)
      BY <1>2, Zenon
    <2>2. cut \in 0..Len(sent) /\ Len(sent) \in Nat /\ Len(sent) # 0
      <3>1. cut < Len(sent)
        BY <1>2, Zenon
      <3>2. PICK n \in Nat : n = Len(sent)
        BY ResponseParts, Zenon
      <3>3. n \in Nat /\ cut < n
        BY <3>1, <3>2, Zenon
      <3>4. cut \in 0..n /\ n # 0
        BY <3>3
      <3> QED BY <3>2, <3>4, Zenon
    <2>3. /\ kept \in Responses(ID) /\ Len(kept) = cut /\ Chain(kept, resume, ids)
          /\ \A j \in 1..cut : kept[j] = sent[j]
      BY <2>1, <2>2, ChainCut
    <2>4. kept # <<>> => kept[1] = sent[1]
      <3>1. kept # <<>> => Len(kept) # 0
        BY <2>3 DEF Responses
      <3>2. cut # 0 => 1 \in 1..cut
        OBVIOUS
      <3> QED BY <2>3, <3>1, <3>2, Zenon
    <2>5. sent # <<>>
      BY <2>2
    <2> QED BY <1>2, <2>3, <2>4, <2>5, Zenon DEF Keeps
  <1> QED BY <1>1, <1>2

ClientIs(P, S, n, got, open, tried, told, t) ==
  /\ t \in [resume : Nat, got : P, open : BOOLEAN, tried : S, told : S]
  /\ t.resume = n /\ t.got = got /\ t.open = open /\ t.tried = tried /\ t.told = told

LEMMA ClientParts ==
  ASSUME NEW P, NEW S, NEW n \in Nat, NEW got \in P, NEW open \in BOOLEAN, NEW tried \in S, NEW told \in S,
         NEW t, t = [resume |-> n, got |-> got, open |-> open, tried |-> tried, told |-> told]
  PROVE  ClientIs(P, S, n, got, open, tried, told, t)
  BY DEF ClientIs

Receives(ID, c, now, kept, n, got, broken, t) ==
  /\ t \in ClientOf(ID)
  /\ t.resume = n /\ t.got = got /\ t.open = broken /\ t.tried = c.tried \cup {now}
  /\ t.told = IF kept = <<>> THEN c.told ELSE c.told \cup {now}

\* t is what received makes of c: it keeps kept of sent, got in all, up to n.
IsReceived(ID, c, sent, now, cut, kept, n, got, broken, t) ==
  /\ c \in ClientOf(ID) /\ now \in Nat /\ broken \in BOOLEAN /\ broken = (cut < Len(sent))
  /\ kept = IF broken THEN SubSeq(sent, 1, cut) ELSE sent
  /\ t = received(c, sent, now, cut)
  /\ n \in Nat /\ n = tokenAfter(c.resume, kept)
  /\ got \in Responses(ID) /\ got = c.got \o kept

LEMMA ReceivedParts ==
  ASSUME NEW ID, NEW c, NEW sent, NEW now, NEW cut, NEW kept, NEW n, NEW got, NEW broken, NEW t,
         IsReceived(ID, c, sent, now, cut, kept, n, got, broken, t)
  PROVE  Receives(ID, c, now, kept, n, got, broken, t)
  <1> USE DEF IsReceived
  <1>1. c.tried \in SUBSET Nat /\ c.told \in SUBSET Nat
    BY DEF ClientOf
  <1>2. PICK tried, told :
           tried = c.tried \cup {now} /\ told = IF kept = <<>> THEN c.told ELSE c.told \cup {now}
    BY Zenon
  <1>3. tried \in SUBSET Nat /\ told \in SUBSET Nat
    <2>1. CASE kept = <<>>
      BY <1>1, <1>2, <2>1, Zenon
    <2>2. CASE kept # <<>>
      BY <1>1, <1>2, <2>2, Zenon
    <2> QED BY <2>1, <2>2
  <1>4. t = [resume |-> n, got |-> got, open |-> broken, tried |-> tried, told |-> told]
    BY <1>2, Zenon DEF received
  <1>5. PICK P, S : P = Responses(ID) /\ S = SUBSET Nat
    BY Zenon
  <1>6. ClientIs(P, S, n, got, broken, tried, told, t)
    BY <1>3, <1>4, <1>5, ClientParts, Zenon
  <1> QED BY <1>2, <1>5, <1>6, Zenon DEF ClientIs, ClientOf, Receives

LEMMA ReceivedKeeps ==
  ASSUME NEW ID, NEW ids \in Seq(ID), NEW prep \in BOOLEAN, NEW md \in Nat,
         NEW c \in Resuming(ID, ids, prep, md), NEW now \in Nat, NEW sent, NEW cut \in Nat,
         Sends(ID, ids, prep, md, c.resume, now, sent)
  PROVE  received(c, sent, now, cut) \in Resuming(ID, ids, prep, md)
  <1>1. /\ c \in ClientOf(ID) /\ Chain(c.got, 0, ids) /\ c.resume = At(c.got, 0, Len(c.got))
        /\ ~prep /\ c.tried \subseteq {md} /\ c.got # <<>> => c.got[1].md = md
        /\ prep => c.told \subseteq {md}
    BY Zenon DEF Resuming
  <1>2. c.got \in Responses(ID) /\ c.resume \in Nat /\ Len(c.got) \in Nat
    <2>1. c.got \in Responses(ID) /\ c.resume \in Nat
      BY <1>1 DEF ClientOf
    <2> QED BY <2>1, ResponseParts
  <1>3. c.resume \in 0..Len(ids)
    <2>1. 0 \in 0..Len(ids) /\ Len(c.got) \in 0..Len(c.got)
      BY <1>2
    <2>2. PICK s : s = c.got
      BY Zenon
    <2>3. \A j \in 0..Len(s) : At(s, 0, j) \in 0..Len(ids)
      BY <1>1, <1>2, <2>1, <2>2, AtBounds, ZenonT(30)
    <2> QED BY <1>1, <2>1, <2>2, <2>3, Zenon
  <1>4. /\ sent \in Responses(ID) /\ Chain(sent, c.resume, ids)
        /\ prep /\ now # md => sent = <<>>
        /\ now = md => At(sent, c.resume, Len(sent)) = Len(ids)
        /\ ~prep /\ c.resume = 0 /\ now = md => sent # <<>>
        /\ ~prep /\ c.resume = 0 /\ sent # <<>> => sent[1].md = now
    BY Zenon DEF Sends
  <1>5. PICK broken, kept : /\ broken \in BOOLEAN /\ broken = (cut < Len(sent))
                            /\ kept = IF broken THEN SubSeq(sent, 1, cut) ELSE sent
    <2>1. Len(sent) \in Nat
      BY <1>4, ResponseParts
    <2>2. (cut < Len(sent)) \in BOOLEAN
      BY <2>1
    <2> QED BY <2>2, Zenon
  <1>6. /\ kept \in Responses(ID) /\ Chain(kept, c.resume, ids)
        /\ ~broken => kept = sent
        /\ kept # <<>> => sent # <<>> /\ kept[1] = sent[1]
    <2>1. Keeps(ID, ids, c.resume, sent, broken, kept)
      BY <1>3, <1>4, <1>5, KeepsPart, Zenon
    <2> QED BY <2>1, Zenon DEF Keeps
  <1>7. PICK got : got = c.got \o kept
    BY Zenon
  <1>8. /\ got \in Responses(ID) /\ Chain(got, 0, ids)
        /\ At(got, 0, Len(got)) = At(kept, c.resume, Len(kept))
    <2>1. 0 \in 0..Len(ids) /\ Chain(kept, At(c.got, 0, Len(c.got)), ids)
      BY <1>1, <1>6
    <2>2. Chained(ID, ids, 0, c.got \o kept, At(kept, At(c.got, 0, Len(c.got)), Len(kept)))
      BY <1>1, <1>2, <1>6, <2>1, ChainJoin, Zenon
    <2> QED BY <1>1, <1>7, <2>2, Zenon DEF Chained
  <1>9. PICK n \in Nat : n = tokenAfter(c.resume, kept) /\ n = At(kept, c.resume, Len(kept))
    <2>1. tokenAfter(c.resume, kept) = At(kept, c.resume, Len(kept))
      BY <1>3, <1>6, TokenIs, Zenon
    <2>2. Len(kept) \in 0..Len(kept)
      BY <1>6, ResponseParts
    <2>3. At(kept, c.resume, Len(kept)) \in 0..Len(ids)
      BY <1>3, <1>6, <2>2, AtBounds, Zenon
    <2>4. \A x \in 0..Len(ids) : x \in Nat
      OBVIOUS
    <2> QED BY <2>1, <2>3, <2>4, Zenon
  <1>a. PICK t : t = received(c, sent, now, cut)
    BY Zenon
  <1>b. /\ t \in ClientOf(ID)
        /\ t.resume = n /\ t.got = got /\ t.open = broken /\ t.tried = c.tried \cup {now}
        /\ t.told = IF kept = <<>> THEN c.told ELSE c.told \cup {now}
    <2>1. c \in ClientOf(ID) /\ got \in Responses(ID) /\ n = tokenAfter(c.resume, kept)
      BY <1>1, <1>8, <1>9, Zenon
    <2>2. Receives(ID, c, now, kept, n, got, broken, t)
      <3>1. IsReceived(ID, c, sent, now, cut, kept, n, got, broken, t)
        BY <1>5, <1>7, <1>a, <2>1, ZenonT(30) DEF IsReceived
      <3> QED BY <3>1, ReceivedParts, ZenonT(30)
    <2> QED BY <2>2, Zenon DEF Receives
  <1>c. t.tried \subseteq {md} => now = md /\ c.tried \subseteq {md}
    BY <1>b, Zenon
  <1>d. (c.got = <<>> => got = kept /\ c.resume = 0) /\ (c.got # <<>> => got # <<>> /\ got[1] = c.got[1])
    <2>1. CASE c.got = <<>>
      <3>1. got = kept
        BY <1>6, <1>7, <2>1 DEF Responses
      <3>2. Len(c.got) = 0
        BY <2>1
      <3> QED BY <1>1, <2>1, <3>1, <3>2, Zenon DEF At
    <2>2. CASE c.got # <<>>
      <3>1. Len(c.got) # 0
        BY <1>2, <2>2 DEF Responses
      <3>2. got # <<>> /\ got[1] = c.got[1]
        BY <1>2, <1>6, <1>7, <3>1 DEF Responses
      <3> QED BY <2>2, <3>2, Zenon
    <2> QED BY <2>1, <2>2
  <1>e. Chain(t.got, 0, ids) /\ t.resume = At(t.got, 0, Len(t.got))
    BY <1>8, <1>9, <1>b, Zenon
  <1>f. ASSUME ~t.open, t.tried \subseteq {md} PROVE t.resume = Len(ids) /\ (prep \/ t.got # <<>>)
    <2>1. kept = sent /\ now = md
      BY <1>6, <1>b, <1>c, <1>f, Zenon
    <2>2. t.resume = Len(ids)
      BY <1>4, <1>9, <1>b, <2>1, Zenon
    <2>3. prep \/ t.got # <<>>
      BY <1>4, <1>b, <1>d, <2>1, Zenon
    <2> QED BY <2>2, <2>3
  <1>g. ASSUME ~prep, t.tried \subseteq {md}, t.got # <<>> PROVE t.got[1].md = md
    BY <1>1, <1>4, <1>6, <1>b, <1>c, <1>d, <1>g, Zenon
  <1>h. ASSUME prep PROVE t.told \subseteq {md}
    BY <1>1, <1>4, <1>6, <1>b, <1>h, Zenon
  <1> QED BY <1>a, <1>b, <1>e, <1>f, <1>g, <1>h, Zenon DEF Resuming

LEMMA ClientBegins ==
  ASSUME NEW ID, NEW ids \in Seq(ID), NEW prep \in BOOLEAN, NEW md \in Nat
  PROVE  NewClient \in Resuming(ID, ids, prep, md)
  <1>1. PICK P, S, got, n :
           P = Responses(ID) /\ S = SUBSET Nat /\ got = <<>> /\ n = {} /\ got \in P /\ n \in S
    <2>1. <<>> \in Responses(ID) /\ {} \in SUBSET Nat
      BY DEF Responses
    <2> QED BY <2>1, Zenon
  <1>2. PICK c, yes, zero : c = NewClient /\ yes = TRUE /\ yes \in BOOLEAN /\ zero = 0 /\ zero \in Nat
    <2>1. TRUE \in BOOLEAN /\ 0 \in Nat
      OBVIOUS
    <2> QED BY <2>1, Zenon
  <1>3. ClientIs(P, S, zero, got, yes, n, n, c)
    <2>1. c = [resume |-> zero, got |-> got, open |-> yes, tried |-> n, told |-> n]
      BY <1>1, <1>2, Zenon DEF NewClient
    <2> QED BY <1>1, <1>2, <2>1, ClientParts, Zenon
  <1>4. c \in ClientOf(ID) /\ c.resume = 0 /\ c.got = <<>> /\ c.open /\ c.told = {}
    BY <1>1, <1>2, <1>3, Zenon DEF ClientIs, ClientOf
  <1>5. Chain(<<>>, 0, ids) /\ At(<<>>, 0, Len(<<>>)) = 0
    <2>1. 0 \in 0..Len(ids)
      OBVIOUS
    <2> QED BY <2>1, NothingSends, Zenon
  <1> QED BY <1>2, <1>4, <1>5, Zenon DEF Resuming

\* However often the streams of a query break, and wherever, a client that resumes
\* each with the last token it got has every row up to that token once and in
\* order while the result of the query stays the same; it has all of them once a
\* stream has ended while the query kept its columns, and rows of the columns it
\* was told only (ExecuteQuery).
THEOREM ResumedStreamsDeliverOnce ==
  ASSUME NEW ID, NEW Q, NEW prep \in BOOLEAN, NEW token \in Token(Q), NEW rows \in Seq(Row(ID)),
         NEW cuts \in Seq(Nat), NEW catalogs \in [1..Len(cuts) -> [Q -> Nat]]
  PROVE  ResumedOnce(prep, token, catalogs, rows, cuts)
  <1>n. PICK n \in Nat, N \in Nat : n = Len(cuts) /\ N = Len(rows)
    OBVIOUS
  <1>r. PICK res : res = [i \in 1..Len(cuts) |-> rows]
    BY Zenon
  <1>s. \A i \in 1..n : res[i] = rows
    BY <1>n, <1>r, Zenon
  <1>i. PICK ids : ids = [i \in 1..Len(rows) |-> rows[i].id]
    BY Zenon
  <1>j. ids \in Seq(ID) /\ Len(ids) = Len(rows) /\ \A k \in 1..Len(rows) : ids[k] = rows[k].id
    <2>1. \A k \in 1..N : rows[k] \in Row(ID)
      BY <1>n
    <2>2. \A k \in 1..N : rows[k].id \in ID
      BY <2>1 DEF Row
    <2>3. PICK D : D = [k \in 1..N |-> rows[k].id]
      BY Zenon
    <2>4. D \in [1..N -> ID] /\ \A k \in 1..N : D[k] = rows[k].id
      BY <2>2, <2>3, Zenon
    <2>5. D \in Seq(ID) /\ Len(D) = N
      BY <2>4
    <2> QED BY <1>n, <1>i, <2>3, <2>4, <2>5, Zenon
  <1>m. token.md \in Nat /\ token.query \in Q
    BY DEF Token
  <1>d. PICK inv, z : inv = Resuming(ID, ids, prep, token.md) /\ z = NewClient
    BY Zenon
  <1>e. PICK X, step : /\ X = [i \in 0..n |-> inv]
                       /\ step = [i \in 1..n |->
                                    [c \in inv |-> attempt(c, prep, token, catalogs[i], res[i], cuts[i])]]
    BY Zenon
  <1>0. z \in inv
    BY <1>d, <1>j, <1>m, ClientBegins, Zenon
  <1>k. \A i \in 1..n : \A c \in inv : attempt(c, prep, token, catalogs[i], res[i], cuts[i]) \in inv
    <2> TAKE i \in 1..n
    <2> TAKE c \in inv
    <2>1. catalogs[i] \in [Q -> Nat] /\ cuts[i] \in Nat
      BY <1>n
    <2>2. PICK catalog \in [Q -> Nat], cut \in Nat : catalog = catalogs[i] /\ cut = cuts[i]
      BY <2>1, Zenon
    <2>3. CASE ~c.open
      BY <2>3, Zenon DEF attempt
    <2>4. CASE c.open
      <3>1. c \in ClientOf(ID) /\ Chain(c.got, 0, ids) /\ c.resume = At(c.got, 0, Len(c.got))
        BY <1>d, Zenon DEF Resuming
      <3>2. c.got \in Responses(ID)
        BY <3>1 DEF ClientOf
      <3>3. c.resume \in 0..Len(ids)
        <4>1. PICK s : s = c.got
          BY Zenon
        <4>2. 0 \in 0..Len(ids) /\ Len(s) \in 0..Len(s)
          BY <1>j, <3>2, <4>1, ResponseParts
        <4>3. \A j \in 0..Len(s) : At(s, 0, j) \in 0..Len(ids)
          BY <1>j, <3>1, <3>2, <4>1, <4>2, AtBounds, ZenonT(30)
        <4> QED BY <3>1, <4>1, <4>2, <4>3, Zenon
      <3>4. PICK resume, now, sent :
               /\ resume \in 0..Len(ids) /\ resume = c.resume
               /\ now \in Nat /\ now = catalog[token.query]
               /\ sent = execute(prep, token, catalog, rows, resume).sent
        BY <1>m, <3>3, Zenon
      <3>5. Sends(ID, ids, prep, token.md, resume, now, sent)
        <4>1. resume \in 0..Len(ids)
          BY <3>4, Zenon
        <4>2. Sends(ID, ids, prep, token.md, resume, catalog[token.query],
                    execute(prep, token, catalog, rows, resume).sent)
          <5>1. Executes(ID, Q, rows, ids, resume, prep, token, catalog)
            BY <1>j, <4>1, ZenonT(30) DEF Executes
          <5> QED BY <5>1, ExecuteSends, ZenonT(30)
        <4> QED BY <3>4, <4>2, Zenon
      <3>6. received(c, sent, now, cut) \in inv
        BY <1>d, <1>j, <1>m, <3>4, <3>5, ReceivedKeeps, Zenon
      <3>7. attempt(c, prep, token, catalogs[i], res[i], cuts[i]) = received(c, sent, now, cut)
        <4>1. res[i] = rows
          BY <1>s, Zenon
        <4> QED BY <2>2, <2>4, <3>4, <4>1, Zenon DEF attempt
      <3> QED BY <3>6, <3>7, Zenon
    <2> QED BY <2>3, <2>4
  <1>x. X[0] = inv /\ \A i \in 1..n : X[i - 1] = inv /\ X[i] = inv
    <2>1. 0 \in 0..n /\ \A i \in 1..n : i \in 0..n /\ i - 1 \in 0..n
      OBVIOUS
    <2> QED BY <1>e, <2>1, Zenon
  <1>y. \A i \in 1..n : \A c \in inv : step[i][c] = attempt(c, prep, token, catalogs[i], res[i], cuts[i])
    BY <1>e, Zenon
  <1>1. PICK f : Unrolled(f, z, step, n) /\ \A i \in 0..n : f[i] \in X[i]
    <2>1. \A i \in 1..n : \A c \in X[i - 1] : step[i][c] \in X[i]
      <3> SUFFICES ASSUME NEW i \in 1..n, NEW c \in X[i - 1] PROVE step[i][c] \in X[i]
        BY Zenon
      <3>1. X[i - 1] = inv /\ X[i] = inv
        BY <1>x, Zenon
      <3>2. step[i][c] = attempt(c, prep, token, catalogs[i], res[i], cuts[i])
        BY <1>y, <3>1, Zenon
      <3>3. attempt(c, prep, token, catalogs[i], res[i], cuts[i]) \in inv
        BY <1>k, <3>1, Zenon
      <3>4. step[i][c] \in inv
        BY <3>2, <3>3, Zenon
      <3>5. inv = X[i]
        BY <3>1, Zenon
      <3> QED BY <3>4, <3>5, Zenon
    <2>2. z \in X[0]
      BY <1>0, <1>x, Zenon
    <2> QED BY <2>1, <2>2, Recursion, Zenon
  <1>2. f = [i \in 0..n |-> IF i = 0 THEN z ELSE attempt(f[i - 1], prep, token, catalogs[i], res[i], cuts[i])]
    <2>1. \A i \in 0..n : (IF i = 0 THEN z ELSE step[i][f[i - 1]])
                            = IF i = 0 THEN z ELSE attempt(f[i - 1], prep, token, catalogs[i], res[i], cuts[i])
      <3> TAKE i \in 0..n
      <3>1. CASE i = 0
        BY <3>1, Zenon
      <3>2. CASE i # 0
        <4>1. i \in 1..n /\ i - 1 \in 0..n
          BY <3>2
        <4>2. f[i - 1] \in inv
          BY <1>1, <1>x, <4>1, Zenon
        <4> QED BY <1>y, <3>2, <4>1, <4>2, Zenon
      <3> QED BY <3>1, <3>2, ZenonT(30)
    <2> QED BY <1>1, <2>1, Zenon DEF Unrolled
  <1>3. PICK g : /\ g = [i \in 0..n |-> IF i = 0 THEN z
                                        ELSE attempt(g[i - 1], prep, token, catalogs[i], res[i], cuts[i])]
                 /\ resumed(prep, token, catalogs, res, cuts) = g[n]
    <2>1. f = [i \in 0..Len(cuts) |->
                 IF i = 0 THEN NewClient
                 ELSE attempt(f[i - 1], prep, token, catalogs[i], res[i], cuts[i])]
      BY <1>d, <1>n, <1>2, ZenonT(30)
    <2>2. PICK g : /\ g = [i \in 0..Len(cuts) |->
                             IF i = 0 THEN NewClient
                             ELSE attempt(g[i - 1], prep, token, catalogs[i], res[i], cuts[i])]
                   /\ resumed(prep, token, catalogs, res, cuts) = g[Len(cuts)]
      BY <2>1, ZenonT(30) DEF resumed
    <2> QED BY <1>d, <1>n, <2>2, ZenonT(30)
  <1>4. \A i \in 0..n : g[i] \in X[i]
    <2>1. g[0] \in X[0]
      <3>1. 0 \in 0..n
        OBVIOUS
      <3>2. g[0] = z
        BY <1>3, <3>1, Zenon
      <3> QED BY <1>0, <1>x, <3>2, Zenon
    <2>2. ASSUME NEW i \in 1..n, g[i - 1] \in X[i - 1] PROVE g[i] \in X[i]
      <3>1. i \in 0..n /\ i # 0
        OBVIOUS
      <3>2. g[i] = attempt(g[i - 1], prep, token, catalogs[i], res[i], cuts[i])
        BY <1>3, <3>1, Zenon
      <3> QED BY <1>k, <1>x, <2>2, <3>2, Zenon
    <2> QED BY <2>1, <2>2, Along, Zenon
  <1>5. PICK c : c = resumed(prep, token, catalogs, res, cuts)
    BY Zenon
  <1>6. c \in inv
    <2>1. n \in 0..n
      OBVIOUS
    <2>2. X[n] = inv
      BY <1>e, <2>1, Zenon
    <2> QED BY <1>3, <1>4, <1>5, <2>1, <2>2, Zenon
  <1>7. /\ c \in ClientOf(ID) /\ Chain(c.got, 0, ids) /\ c.resume = At(c.got, 0, Len(c.got))
        /\ ~c.open /\ c.tried \subseteq {token.md} => c.resume = Len(rows) /\ (prep \/ c.got # <<>>)
        /\ ~prep /\ c.tried \subseteq {token.md} /\ c.got # <<>> => c.got[1].md = token.md
        /\ prep => c.told \subseteq {token.md}
    BY <1>d, <1>6, <1>j, Zenon DEF Resuming
  <1>8. rowsIn(c.got) = SubSeq(ids, 1, c.resume)
    <2>1. c.got \in Responses(ID)
      BY <1>7 DEF ClientOf
    <2>2. PICK s : s = c.got
      BY Zenon
    <2>3. s \in Responses(ID) /\ Chain(s, 0, ids)
      BY <1>7, <2>1, <2>2, Zenon
    <2>4. rowsIn(s) = SubSeq(ids, 1, At(s, 0, Len(s)))
      BY <1>j, <2>3, ChainRows
    <2> QED BY <1>7, <2>2, <2>4, Zenon
  <1> QED BY <1>i, <1>r, <1>5, <1>7, <1>8, Zenon DEF ResumedOnce
=============================================================================
