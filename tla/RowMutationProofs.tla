-------------------------- MODULE RowMutationProofs --------------------------
(* Proofs about RowMutation: its types, and the change records against the   *)
(* row.                                                                      *)
EXTENDS RowMutation, TLAPS, FiniteSetTheorems, WellFoundedInduction

\* The time a leaf may take; one that needs Zenon or PTL instead says so.
USE SMTT(30)

-----------------------------------------------------------------------------
(* Induction, and the recursive functions of the model.                      *)

(* A set that holds 0 and, with a number, the next one holds all numbers.    *)
LEMMA NatSetInduction ==
    ASSUME NEW S, 0 \in S, \A n \in Nat : n \in S => n + 1 \in S
    PROVE  Nat \subseteq S
<1> DEFINE R == {ss \in Nat \X Nat : ss[1] < ss[2]}
           T == Nat \ S
<1> SUFFICES ASSUME T # {} PROVE FALSE
  OBVIOUS
<1>1. IsWellFoundedOn(R, Nat)
  BY NatLessThanWellFounded DEF OpToRel
<1>2. PICK x \in T : \A y \in T : ~ (<<y, x>> \in R)
  <2>1. T \subseteq Nat
    OBVIOUS
  <2> HIDE DEF R, T
  <2> QED
    BY <1>1, <2>1, WFMin, Zenon
<1>3. x \in Nat /\ x # 0 /\ x - 1 \in Nat /\ x - 1 < x
  OBVIOUS
<1>4. x - 1 \notin T
  BY <1>2, <1>3, Zenon
<1> QED
  BY <1>3, <1>4

(* The same up to a bound. *)
LEMMA UpToInduction ==
    ASSUME NEW n \in Nat, NEW S, 0 \in S, \A i \in 0 .. n - 1 : i \in S => i + 1 \in S
    PROVE  0 .. n \subseteq S
<1> DEFINE T == {i \in Nat : i =< n => i \in S}
<1>1. 0 \in T
  OBVIOUS
<1>2. ASSUME NEW i \in Nat, i \in T PROVE i + 1 \in T
  BY <1>2
<1>3. Nat \subseteq T
  <2> HIDE DEF T
  <2> QED
    BY <1>1, <1>2, NatSetInduction
<1> QED
  BY <1>3

Start(r) == [row |-> r, changes |-> << >>]

\* The states applyMutations goes through.
Done(r, ms, now) ==
    LET done[i \in 0 .. Len(ms)] ==
          IF i = 0 THEN [row |-> r, changes |-> << >>] ELSE applyOne(done[i - 1], ms[i], now)
    IN done

DoneFits(f, r, ms, now, n) ==
    f = [i \in 0 .. n |-> IF i = 0 THEN Start(r) ELSE applyOne(f[i - 1], ms[i], now)]

(* The recursive function of applyMutations exists. *)
LEMMA DoneExists ==
    ASSUME NEW r, NEW ms, NEW now, NEW k \in Nat
    PROVE  \E f : DoneFits(f, r, ms, now, k)
<1> DEFINE S == {n \in Nat : \E f : DoneFits(f, r, ms, now, n)}
<1>1. 0 \in S
  <2>1. DoneFits([i \in 0 .. 0 |-> Start(r)], r, ms, now, 0)
    BY DEF DoneFits
  <2> QED
    BY <2>1
<1>2. ASSUME NEW n \in Nat, n \in S PROVE n + 1 \in S
  <2>1. PICK f : DoneFits(f, r, ms, now, n)
    BY <1>2
  <2> DEFINE g == [i \in 0 .. n + 1 |-> IF i = n + 1 THEN applyOne(f[n], ms[n + 1], now) ELSE f[i]]
  <2>2. \A i \in 0 .. n : g[i] = f[i]
    OBVIOUS
  <2>3. ASSUME NEW i \in 0 .. n + 1
        PROVE  g[i] = IF i = 0 THEN Start(r) ELSE applyOne(g[i - 1], ms[i], now)
    <3>1. CASE i = n + 1
      BY <2>2, <3>1
    <3>2. CASE i \in 0 .. n
      BY <2>1, <2>2, <3>2 DEF DoneFits
    <3> QED
      BY <3>1, <3>2
  <2>4. DoneFits(g, r, ms, now, n + 1)
    BY <2>3 DEF DoneFits
  <2> HIDE DEF g
  <2> QED
    BY <2>4
<1>3. Nat \subseteq S
  <2> HIDE DEF S
  <2> QED
    BY <1>1, <1>2, NatSetInduction
<1> QED
  BY <1>3

(* applyMutations goes through the states one mutation at a time. *)
LEMMA DoneDef ==
    ASSUME NEW r, NEW ms, NEW now, Len(ms) \in Nat
    PROVE  /\ Done(r, ms, now)[0] = Start(r)
           /\ \A i \in 1 .. Len(ms) : Done(r, ms, now)[i] = applyOne(Done(r, ms, now)[i - 1], ms[i], now)
           /\ applyMutations(r, ms, now) = Done(r, ms, now)[Len(ms)]
<1> DEFINE k == Len(ms)
           f == Done(r, ms, now)
<1>1. \E g : DoneFits(g, r, ms, now, k)
  BY DoneExists
<1>2. f = CHOOSE g : DoneFits(g, r, ms, now, k)
  BY DEF Done, Start, DoneFits
<1>3. DoneFits(f, r, ms, now, k)
  <2> HIDE DEF f, k
  <2> QED
    BY <1>1, <1>2, Zenon
<1>4. applyMutations(r, ms, now) = f[k]
  BY DEF applyMutations, Done
<1>5. f[0] = Start(r) /\ \A i \in 1 .. k : f[i] = applyOne(f[i - 1], ms[i], now)
  <2> HIDE DEF f
  <2> QED
    BY <1>3 DEF DoneFits
<1> QED
  BY <1>4, <1>5

(* The row after each mutation. *)
LEMMA DoneRows ==
    ASSUME NEW r, NEW ms, NEW now, Len(ms) \in Nat, NEW A, A = Done(r, ms, now)
    PROVE  /\ A[0].row = r
           /\ \A i \in 1 .. Len(ms) : A[i].row = applyMutation(A[i - 1].row, ms[i], now)
           /\ applyMutations(r, ms, now) = A[Len(ms)]
<1>1. /\ A[0] = Start(r)
      /\ \A i \in 1 .. Len(ms) : A[i] = applyOne(A[i - 1], ms[i], now)
      /\ applyMutations(r, ms, now) = A[Len(ms)]
  BY DoneDef
<1>2. A[0].row = r
  BY <1>1 DEF Start
<1>3. ASSUME NEW i \in 1 .. Len(ms) PROVE A[i].row = applyMutation(A[i - 1].row, ms[i], now)
  <2> DEFINE B == A[i - 1]
             w == B.changes \o changesOf(B.row, ms[i], now)
  <2>1. A[i] = [row |-> applyMutation(B.row, ms[i], now), changes |-> w]
    BY <1>1, Zenon DEF applyOne
  <2> HIDE DEF w
  <2> QED
    BY <2>1
<1> QED
  BY <1>1, <1>2, <1>3

Recorded(A, ms, now) ==
    /\ A[0].changes = << >>
    /\ \A i \in 1 .. Len(ms) :
         A[i].changes = A[i - 1].changes \o changesOf(A[i - 1].row, ms[i], now)

(* The changes recorded after each mutation. *)
LEMMA DoneChanges ==
    ASSUME NEW r, NEW ms, NEW now, Len(ms) \in Nat, NEW A, A = Done(r, ms, now)
    PROVE  Recorded(A, ms, now)
<1>1. /\ A[0] = Start(r)
      /\ \A i \in 1 .. Len(ms) : A[i] = applyOne(A[i - 1], ms[i], now)
  BY DoneDef
<1>2. A[0].changes = << >>
  BY <1>1 DEF Start
<1>3. ASSUME NEW i \in 1 .. Len(ms)
      PROVE  A[i].changes = A[i - 1].changes \o changesOf(A[i - 1].row, ms[i], now)
  <2> DEFINE B == A[i - 1]
             w == B.changes \o changesOf(B.row, ms[i], now)
  <2>1. A[i] = [row |-> applyMutation(B.row, ms[i], now), changes |-> w]
    BY <1>1, Zenon DEF applyOne
  <2> HIDE DEF w
  <2>2. A[i].changes = w
    BY <2>1
  <2> QED
    BY <2>2 DEF w
<1> QED
  BY <1>2, <1>3, Zenon DEF Recorded

\* The rows a consumer goes through.
Rows(m, cs) == [i \in 0 .. Len(cs) |-> Done(m, cs, 0)[i].row]

(* A consumer applies one change after the other. *)
LEMMA RowsDef ==
    ASSUME NEW m, NEW cs, Len(cs) \in Nat, NEW A, A = Rows(m, cs)
    PROVE  /\ A[0] = m
           /\ \A i \in 1 .. Len(cs) : A[i] = applyMutation(A[i - 1], cs[i], 0)
           /\ Replay(m, cs) = A[Len(cs)]
<1>1. PICK D : D = Done(m, cs, 0)
  OBVIOUS
<1>2. \A i \in 0 .. Len(cs) : A[i] = D[i].row
  BY <1>1 DEF Rows
<1>3. /\ D[0].row = m
      /\ \A i \in 1 .. Len(cs) : D[i].row = applyMutation(D[i - 1].row, cs[i], 0)
      /\ applyMutations(m, cs, 0) = D[Len(cs)]
  BY <1>1, DoneRows
<1>4. A[0] = m
  BY <1>2, <1>3
<1>5. ASSUME NEW i \in 1 .. Len(cs) PROVE A[i] = applyMutation(A[i - 1], cs[i], 0)
  BY <1>2, <1>3
<1>6. Replay(m, cs) = A[Len(cs)]
  BY <1>2, <1>3 DEF Replay
<1> QED
  BY <1>4, <1>5, <1>6

(* A consumer may apply a list of changes in two parts. *)
LEMMA ReplayConcat ==
    ASSUME NEW X, NEW m, NEW c \in Seq(X), NEW d \in Seq(X)
    PROVE  Replay(m, c \o d) = Replay(Replay(m, c), d)
<1> DEFINE cd == c \o d
<1>1. /\ cd \in Seq(X) /\ Len(cd) = Len(c) + Len(d) /\ Len(c) \in Nat /\ Len(d) \in Nat /\ Len(cd) \in Nat
      /\ \A i \in 1 .. Len(c) : cd[i] = c[i]
      /\ \A i \in 1 .. Len(d) : cd[Len(c) + i] = d[i]
  OBVIOUS
<1> HIDE DEF cd
<1>2. PICK A : A = Rows(m, cd)
  OBVIOUS
<1>3. PICK B : B = Rows(m, c)
  OBVIOUS
<1>4. PICK C : C = Rows(Replay(m, c), d)
  OBVIOUS
<1>5. /\ A[0] = m
      /\ \A i \in 1 .. Len(cd) : A[i] = applyMutation(A[i - 1], cd[i], 0)
      /\ Replay(m, cd) = A[Len(cd)]
  <2>1. Len(cd) \in Nat
    BY <1>1
  <2> QED
    BY <2>1, <1>2, RowsDef
<1>6. /\ B[0] = m
      /\ \A i \in 1 .. Len(c) : B[i] = applyMutation(B[i - 1], c[i], 0)
      /\ Replay(m, c) = B[Len(c)]
  BY <1>1, <1>3, RowsDef
<1>7. /\ C[0] = Replay(m, c)
      /\ \A i \in 1 .. Len(d) : C[i] = applyMutation(C[i - 1], d[i], 0)
      /\ Replay(Replay(m, c), d) = C[Len(d)]
  BY <1>1, <1>4, RowsDef
<1> DEFINE S == {i \in Nat : i =< Len(c) => A[i] = B[i]}
           T == {i \in Nat : i =< Len(d) => A[Len(c) + i] = C[i]}
<1>8. 0 .. Len(c) \subseteq S
  <2>1. 0 \in S
    BY <1>5, <1>6
  <2>2. ASSUME NEW i \in 0 .. Len(c) - 1, i \in S PROVE i + 1 \in S
    <3>1. i + 1 \in 1 .. Len(c) /\ i + 1 \in 1 .. Len(cd) /\ (i + 1) - 1 = i
      BY <1>1
    <3>2. A[i] = B[i]
      BY <2>2, <1>1
    <3>3. A[i + 1] = B[i + 1]
      BY <3>1, <3>2, <1>1, <1>5, <1>6
    <3> QED
      BY <3>3
  <2> HIDE DEF S
  <2> QED
    BY <1>1, <2>1, <2>2, UpToInduction, Zenon
<1>9. 0 .. Len(d) \subseteq T
  <2>1. 0 \in T
    <3>1. Len(c) \in S
      <4>1. Len(c) \in 0 .. Len(c)
        BY <1>1
      <4> HIDE DEF S
      <4> QED
        BY <4>1, <1>8
    <3> QED
      BY <3>1, <1>1, <1>6, <1>7
  <2>2. ASSUME NEW i \in 0 .. Len(d) - 1, i \in T PROVE i + 1 \in T
    <3>1. /\ i + 1 \in 1 .. Len(d) /\ (i + 1) - 1 = i
          /\ Len(c) + (i + 1) \in 1 .. Len(cd) /\ (Len(c) + (i + 1)) - 1 = Len(c) + i
      BY <1>1
    <3>2. A[Len(c) + i] = C[i]
      BY <2>2, <1>1
    <3>3. A[Len(c) + (i + 1)] = C[i + 1]
      BY <3>1, <3>2, <1>1, <1>5, <1>7
    <3> QED
      BY <3>3
  <2> HIDE DEF T
  <2> QED
    BY <1>1, <2>1, <2>2, UpToInduction, Zenon
<1>10. Len(d) \in T
  <2> HIDE DEF T
  <2> QED
    BY <1>1, <1>9
<1> QED
  BY <1>1, <1>5, <1>7, <1>10 DEF cd

(* One change. *)
LEMMA ReplayOne ==
    ASSUME NEW m, NEW c
    PROVE  Replay(m, <<c>>) = applyMutation(m, c, 0)
<1>1. Len(<<c>>) = 1 /\ <<c>>[1] = c /\ 1 \in Nat /\ 1 \in 1 .. 1 /\ 1 - 1 = 0
  OBVIOUS
<1>2. PICK A : A = Rows(m, <<c>>)
  OBVIOUS
<1>3. /\ A[0] = m
      /\ \A i \in 1 .. Len(<<c>>) : A[i] = applyMutation(A[i - 1], <<c>>[i], 0)
      /\ Replay(m, <<c>>) = A[Len(<<c>>)]
  BY <1>1, <1>2, RowsDef
<1> QED
  BY <1>1, <1>3

\* The cells a deletion removes.
Hits(c, a) ==
    /\ a[1] = c.fam
    /\ c.op = "delCol" => a[2] = c.col /\ a[3] >= c.from /\ (c.to = 0 \/ a[3] < c.to)

Unhit(m, cs) == {a \in DOMAIN m : \A i \in 1 .. Len(cs) : ~ Hits(cs[i], a)}

(* A list of deletions removes the cells that one of them hits. *)
LEMMA ReplayDeletes ==
    ASSUME NEW m, NEW cs, Len(cs) \in Nat,
           \A i \in 1 .. Len(cs) : cs[i].op \in {"delCol", "delFam"}
    PROVE  /\ DOMAIN Replay(m, cs) = Unhit(m, cs)
           /\ \A a \in DOMAIN Replay(m, cs) : Replay(m, cs)[a] = m[a]
<1> DEFINE Left(i) == {a \in DOMAIN m : \A j \in 1 .. i : ~ Hits(cs[j], a)}
<1>1. PICK A : A = Rows(m, cs)
  OBVIOUS
<1>2. /\ A[0] = m
      /\ \A i \in 1 .. Len(cs) : A[i] = applyMutation(A[i - 1], cs[i], 0)
      /\ Replay(m, cs) = A[Len(cs)]
  BY <1>1, RowsDef
<1> DEFINE Fine(i) == DOMAIN A[i] = Left(i) /\ \A a \in Left(i) : A[i][a] = m[a]
           S == {i \in Nat : i =< Len(cs) => Fine(i)}
<1>3. 0 \in S
  BY <1>2
<1>4. ASSUME NEW i \in 0 .. Len(cs) - 1, i \in S PROVE i + 1 \in S
  <2> DEFINE r == A[i]
             c == cs[i + 1]
  <2>1. i + 1 \in 1 .. Len(cs) /\ (i + 1) - 1 = i
    OBVIOUS
  <2>2. A[i + 1] = applyMutation(r, c, 0) /\ c.op \in {"delCol", "delFam"}
    BY <1>2, <2>1
  <2>3. A[i + 1] = Without(r, {a \in DOMAIN r : Hits(c, a)})
    <3> HIDE DEF r, c
    <3> QED
      BY <2>2, Zenon DEF applyMutation, deleteFromColumn, deleteFromFamily, Hits
  <2>4. Fine(i)
    BY <1>4
  <2>5. Left(i + 1) = {a \in Left(i) : ~ Hits(c, a)}
    BY <2>1
  <2>6. Fine(i + 1)
    <3> HIDE DEF c
    <3>1. A[i + 1] = [a \in DOMAIN r \ {a \in DOMAIN r : Hits(c, a)} |-> r[a]]
      BY <2>3 DEF Without
    <3> HIDE DEF Left
    <3> QED
      BY <2>4, <2>5, <3>1
  <2> QED
    BY <2>6
<1>5. Len(cs) \in S
  <2> HIDE DEF S
  <2>1. 0 .. Len(cs) \subseteq S
    BY <1>3, <1>4, UpToInduction, Zenon
  <2> QED
    BY <2>1
<1> QED
  BY <1>2, <1>5 DEF Unhit

-----------------------------------------------------------------------------
(* The families of a row, in order.                                          *)

Sorted(r) ==
    LET sorted[i \in 0 .. Len(FamOrder)] ==
          CASE i = 0 -> << >>
            [] i # 0 /\ (\E a \in DOMAIN r : a[1] = FamOrder[i]) -> Append(sorted[i - 1], FamOrder[i])
            [] OTHER -> sorted[i - 1]
    IN sorted

\* One more family of the table.
MoreFamilies(s, r, i) ==
    IF \E a \in DOMAIN r : a[1] = FamOrder[i] THEN Append(s, FamOrder[i]) ELSE s

SortedFits(f, r, n) ==
    f = [i \in 0 .. n |->
           CASE i = 0 -> << >>
             [] i # 0 /\ (\E a \in DOMAIN r : a[1] = FamOrder[i]) -> Append(f[i - 1], FamOrder[i])
             [] OTHER -> f[i - 1]]

(* The recursion of sortedFamilies, one family of the table at a time. *)
LEMMA SortedFitsStep ==
    ASSUME NEW f, NEW r, NEW n \in Nat
    PROVE  SortedFits(f, r, n)
             <=> f = [i \in 0 .. n |-> IF i = 0 THEN << >> ELSE MoreFamilies(f[i - 1], r, i)]
<1>1. \A i \in 0 .. n :
        (CASE i = 0 -> << >>
           [] i # 0 /\ (\E a \in DOMAIN r : a[1] = FamOrder[i]) -> Append(f[i - 1], FamOrder[i])
           [] OTHER -> f[i - 1])
          = IF i = 0 THEN << >> ELSE MoreFamilies(f[i - 1], r, i)
  BY DEF MoreFamilies
<1> QED
  BY <1>1, Zenon DEF SortedFits

(* The recursive function of sortedFamilies exists. *)
LEMMA SortedExists ==
    ASSUME NEW r, NEW k \in Nat
    PROVE  \E f : SortedFits(f, r, k)
<1> DEFINE S == {n \in Nat : \E f : SortedFits(f, r, n)}
<1>1. 0 \in S
  <2> DEFINE g == [i \in 0 .. 0 |-> << >>]
  <2>1. g = [i \in 0 .. 0 |-> IF i = 0 THEN << >> ELSE MoreFamilies(g[i - 1], r, i)]
    OBVIOUS
  <2> HIDE DEF g
  <2>2. SortedFits(g, r, 0)
    BY <2>1, SortedFitsStep
  <2> QED
    BY <2>2
<1>2. ASSUME NEW n \in Nat, n \in S PROVE n + 1 \in S
  <2>1. PICK f : SortedFits(f, r, n)
    BY <1>2
  <2>2. f = [i \in 0 .. n |-> IF i = 0 THEN << >> ELSE MoreFamilies(f[i - 1], r, i)]
    BY <2>1, SortedFitsStep
  <2> DEFINE g == [i \in 0 .. n + 1 |-> IF i = n + 1 THEN MoreFamilies(f[n], r, n + 1) ELSE f[i]]
  <2>3. \A i \in 0 .. n : g[i] = f[i]
    OBVIOUS
  <2>4. ASSUME NEW i \in 0 .. n + 1
        PROVE  g[i] = IF i = 0 THEN << >> ELSE MoreFamilies(g[i - 1], r, i)
    <3>1. CASE i = n + 1
      BY <2>3, <3>1
    <3>2. CASE i \in 0 .. n
      BY <2>2, <2>3, <3>2
    <3> QED
      BY <3>1, <3>2
  <2>5. g = [i \in 0 .. n + 1 |-> IF i = 0 THEN << >> ELSE MoreFamilies(g[i - 1], r, i)]
    BY <2>4
  <2> HIDE DEF g
  <2>6. SortedFits(g, r, n + 1)
    BY <2>5, SortedFitsStep
  <2> QED
    BY <2>6
<1>3. Nat \subseteq S
  <2> HIDE DEF S
  <2> QED
    BY <1>1, <1>2, NatSetInduction
<1> QED
  BY <1>3

Elements(s) == {s[j] : j \in DOMAIN s}

(* Appending adds one element. *)
LEMMA AppendElements ==
    ASSUME NEW X, NEW s \in Seq(X), NEW x \in X
    PROVE  Elements(Append(s, x)) = Elements(s) \cup {x}
<1> DEFINE t == Append(s, x)
<1>1. DOMAIN s = 1 .. Len(s) /\ Len(s) \in Nat /\ DOMAIN t = 1 .. Len(s) + 1
  OBVIOUS
<1>2. t[Len(s) + 1] = x /\ \A j \in 1 .. Len(s) : t[j] = s[j]
  OBVIOUS
<1> HIDE DEF t
<1>3. {t[j] : j \in DOMAIN t} = {s[j] : j \in DOMAIN s} \cup {x}
  BY <1>1, <1>2
<1> QED
  BY <1>3 DEF t, Elements

(* sortedFamilies lists the row's families of the table, and no others. *)
LEMMA SortedFamilies ==
    ASSUME NEW r
    PROVE  /\ sortedFamilies(r) \in Seq(Fams)
           /\ Elements(sortedFamilies(r)) = {fam \in Fams : \E a \in DOMAIN r : a[1] = fam}
<1> DEFINE k == Len(FamOrder)
           f == Sorted(r)
<1>1. k \in Nat /\ DOMAIN FamOrder = 1 .. k
  BY RowAssumption
<1>2. \E g : SortedFits(g, r, k)
  <2> HIDE DEF k
  <2> QED
    BY <1>1, SortedExists
<1>3. f = CHOOSE g : SortedFits(g, r, k)
  BY DEF Sorted, SortedFits
<1>4. SortedFits(f, r, k)
  <2> HIDE DEF f, k
  <2> QED
    BY <1>2, <1>3, Zenon
<1>5. sortedFamilies(r) = f[k]
  BY DEF sortedFamilies, Sorted
<1> HIDE DEF f, k
<1>6. f = [i \in 0 .. k |-> IF i = 0 THEN << >> ELSE MoreFamilies(f[i - 1], r, i)]
  BY <1>1, <1>4, SortedFitsStep
<1> DEFINE Seen(i) == {FamOrder[j] : j \in {l \in 1 .. i : \E a \in DOMAIN r : a[1] = FamOrder[l]}}
           Fine(i) == f[i] \in Seq(Fams) /\ Elements(f[i]) = Seen(i)
           S == {i \in 0 .. k : Fine(i)}
<1>7. 0 \in S
  <2>1. 0 \in 0 .. k /\ f[0] = << >>
    BY <1>1, <1>6
  <2>2. f[0] \in Seq(Fams) /\ Elements(f[0]) = {} /\ Seen(0) = {}
    BY <2>1 DEF Elements
  <2> HIDE DEF Seen
  <2> QED
    BY <2>1, <2>2, Zenon
<1>8. ASSUME NEW i \in 0 .. k - 1, i \in S PROVE i + 1 \in S
  <2>1. i + 1 \in 1 .. k /\ i + 1 \in 0 .. k /\ i + 1 # 0 /\ (i + 1) - 1 = i /\ i \in Nat
    BY <1>1
  <2>2. f[i + 1] = MoreFamilies(f[i], r, i + 1)
    <3> HIDE DEF Fine, S
    <3> QED
      BY <1>6, <2>1, Zenon
  <2>3. FamOrder[i + 1] \in Fams
    BY <1>1, <2>1 DEF Fams
  <2>4. f[i] \in Seq(Fams) /\ Elements(f[i]) = Seen(i)
    BY <1>8
  <2>5. CASE \E a \in DOMAIN r : a[1] = FamOrder[i + 1]
    <3>1. f[i + 1] = Append(f[i], FamOrder[i + 1])
      BY <2>2, <2>5 DEF MoreFamilies
    <3>2. f[i + 1] \in Seq(Fams)
      BY <2>3, <2>4, <3>1
    <3>3. Elements(f[i + 1]) = Elements(f[i]) \cup {FamOrder[i + 1]}
      BY <2>3, <2>4, <3>1, AppendElements
    <3>4. Seen(i + 1) = Seen(i) \cup {FamOrder[i + 1]}
      BY <2>1, <2>5
    <3>5. Fine(i + 1)
      <4> HIDE DEF Seen
      <4> QED
        BY <2>4, <3>2, <3>3, <3>4
    <3> QED
      BY <2>1, <3>5
  <2>6. CASE ~ \E a \in DOMAIN r : a[1] = FamOrder[i + 1]
    <3>1. f[i + 1] = f[i]
      BY <2>2, <2>6 DEF MoreFamilies
    <3>2. Seen(i + 1) = Seen(i)
      BY <2>1, <2>6
    <3>3. Fine(i + 1)
      <4> HIDE DEF Seen
      <4> QED
        BY <2>4, <3>1, <3>2
    <3> QED
      BY <2>1, <3>3
  <2> QED
    BY <2>5, <2>6
<1>9. Fine(k)
  <2>1. 0 .. k \subseteq S
    <3> HIDE DEF S
    <3> QED
      BY <1>1, <1>7, <1>8, UpToInduction
  <2>2. k \in 0 .. k
    BY <1>1
  <2> HIDE DEF Fine
  <2> QED
    BY <2>1, <2>2
<1>10. Seen(k) = {fam \in Fams : \E a \in DOMAIN r : a[1] = fam}
  BY <1>1 DEF Fams
<1> QED
  BY <1>5, <1>9, <1>10

-----------------------------------------------------------------------------
(* Arithmetic.                                                               *)

(* Quotient and remainder. *)
LEMMA ModType ==
    ASSUME NEW x \in Int, NEW M \in Nat \ {0}
    PROVE  /\ x % M \in 0 .. M - 1 /\ x \div M \in Int
           /\ x = (x \div M) * M + (x % M)
OBVIOUS

(* The remainder of a multiple and a rest is the rest. *)
LEMMA ModMultiple ==
    ASSUME NEW q \in Int, NEW M \in Nat \ {0}, NEW r \in 0 .. M - 1
    PROVE  (q * M + r) % M = r
OBVIOUS

(* Two multiples of M less than M apart are equal. *)
LEMMA ModApart ==
    ASSUME NEW x \in Nat, NEW y \in Nat, NEW M \in Nat \ {0},
           x % M = 0, y % M = 0, x =< y, y < x + M
    PROVE  x = y
<1> DEFINE p == x \div M
           q == y \div M
<1>1. p \in Int /\ q \in Int /\ x = p * M /\ y = q * M
  BY ModType
<1> HIDE DEF p, q
<1>2. q * M < p * M + M /\ p * M =< q * M
  BY <1>1
<1>3. ~ (q < p)
  <2> SUFFICES ASSUME q < p PROVE FALSE
    OBVIOUS
  <2>1. PICK k \in Nat : k > 0 /\ p = q + k
    <3>1. p - q \in Nat /\ p - q > 0 /\ p = q + (p - q)
      BY <1>1
    <3> QED
      BY <3>1
  <2>2. p * M = q * M + k * M /\ k * M > 0
    BY <1>1, <2>1
  <2> QED
    BY <1>1, <1>2, <2>2
<1>4. ~ (q > p)
  <2> SUFFICES ASSUME q > p PROVE FALSE
    OBVIOUS
  <2>1. PICK k \in Nat : q = p + 1 + k
    <3>1. q - p - 1 \in Nat /\ q = p + 1 + (q - p - 1)
      BY <1>1
    <3> QED
      BY <3>1
  <2>2. q * M = p * M + M + k * M /\ k * M >= 0
    BY <1>1, <2>1
  <2> QED
    BY <1>1, <1>2, <2>2
<1> QED
  BY <1>1, <1>3, <1>4

(* A remainder may be taken of a summand first. *)
LEMMA ModSum ==
    ASSUME NEW x \in Int, NEW y \in Int, NEW M \in Nat \ {0}
    PROVE  ((x % M) + y) % M = (x + y) % M
<1> DEFINE p == x \div M
           u == x % M
           q == (u + y) \div M
           v == (u + y) % M
<1>1. p \in Int /\ u \in 0 .. M - 1 /\ x = p * M + u
  BY ModType
<1>2. u + y \in Int
  BY <1>1
<1>3. q \in Int /\ v \in 0 .. M - 1 /\ u + y = q * M + v
  <2> HIDE DEF u
  <2> QED
    BY <1>2, ModType, Zenon
<1> HIDE DEF p, u, q, v
<1>4. x + y = (p + q) * M + v /\ p + q \in Int
  <2>1. (p + q) * M = p * M + q * M
    BY <1>1, <1>3
  <2> QED
    BY <1>1, <1>3, <2>1
<1>5. ((p + q) * M + v) % M = v
  BY <1>3, <1>4, ModMultiple
<1> QED
  BY <1>4, <1>5, Zenon DEF v, u

(* A power of two is a positive number: it counts the subsets of a set. *)
LEMMA PowerOfTwo ==
    ASSUME NEW n \in Nat
    PROVE  2^n \in Nat \ {0}
<1> DEFINE S == 1 .. n
<1>1. IsFiniteSet(S) /\ Cardinality(S) = n
  BY FS_Interval
<1> HIDE DEF S
<1>2. IsFiniteSet(SUBSET S) /\ Cardinality(SUBSET S) = 2^n
  BY <1>1, FS_SUBSET
<1>3. Cardinality(SUBSET S) \in Nat
  BY <1>2, FS_CardinalityType
<1>4. SUBSET S # {}
  OBVIOUS
<1>5. Cardinality(SUBSET S) # 0
  BY <1>2, <1>4, FS_EmptySet
<1> QED
  BY <1>2, <1>3, <1>5

(* Integers that wrap around can be wrapped once, after the last addition. *)
LEMMA WrapSum ==
    ASSUME NEW x \in Int, NEW y \in Int
    PROVE  Wrap(x) \in Int /\ Wrap(Wrap(x) + y) = Wrap(x + y)
<1> DEFINE P == 2^Width
           H == 2^(Width - 1)
<1>1. P \in Nat \ {0} /\ H \in Nat
  <2>1. Width \in Nat /\ Width - 1 \in Nat
    BY RowAssumption
  <2> QED
    BY <2>1, PowerOfTwo
<1> HIDE DEF P, H
<1>2. \A n : Wrap(n) = ((n + H) % P) - H
  BY DEF Wrap, P, H
<1>3. x + H \in Int /\ (x + H) % P \in Int /\ x + y + H \in Int
  <2>1. x + H \in Int /\ x + y + H \in Int
    BY <1>1
  <2> QED
    BY <1>1, <2>1, ModType
<1>4. (Wrap(x) + y) + H = ((x + H) % P) + y
  <2>1. PICK u \in Int : u = (x + H) % P
    BY <1>3
  <2>2. Wrap(x) = u - H
    BY <1>2, <2>1
  <2>3. ((u - H) + y) + H = u + y
    BY <1>1
  <2> QED
    BY <2>1, <2>2, <2>3
<1>5. (((x + H) % P) + y) % P = ((x + H) + y) % P
  BY <1>1, <1>3, ModSum, Zenon
<1>6. (x + H) + y = (x + y) + H
  BY <1>1
<1>7. Wrap(Wrap(x) + y) = (((Wrap(x) + y) + H) % P) - H
  BY <1>2
<1>8. Wrap(x + y) = (((x + y) + H) % P) - H
  BY <1>2
<1>9. Wrap(Wrap(x) + y) = Wrap(x + y)
  BY <1>4, <1>5, <1>6, <1>7, <1>8
<1>10. Wrap(x) \in Int
  BY <1>1, <1>2, <1>3
<1> QED
  BY <1>9, <1>10

-----------------------------------------------------------------------------
(* Rows a table may hold.                                                    *)

Addresses == Fams \X Cols \X Nat

KindValues(kind) ==
    CASE kind = "none" -> PlainValues
      [] kind = "hll" -> {"hll"} \X SUBSET Nat
      [] OTHER -> {"int"} \X Int

\* A finite row: cells of the table's families and granularity, with values
\* of their family's kind.
GoodRow(r) ==
    /\ IsFiniteSet(DOMAIN r)
    /\ DOMAIN r \subseteq Addresses
    /\ \A a \in DOMAIN r : valid(a[3]) /\ r[a] \in KindValues(Kinds[a[1]])

(* Setting a valid cell keeps a row good. *)
LEMMA WithGood ==
    ASSUME NEW r, GoodRow(r), NEW at \in Addresses, valid(at[3]),
           NEW v \in KindValues(Kinds[at[1]])
    PROVE  GoodRow(With(r, at, v))
<1>1. DOMAIN With(r, at, v) = DOMAIN r \cup {at}
  BY DEF With
<1>2. IsFiniteSet(DOMAIN r \cup {at})
  BY FS_AddElement DEF GoodRow
<1>3. \A a \in DOMAIN r \cup {at} : With(r, at, v)[a] = IF a = at THEN v ELSE r[a]
  BY DEF With
<1> QED
  BY <1>1, <1>2, <1>3 DEF GoodRow

(* Removing cells keeps a row good. *)
LEMMA WithoutGood ==
    ASSUME NEW r, GoodRow(r), NEW X
    PROVE  GoodRow(Without(r, X))
<1>1. DOMAIN Without(r, X) = DOMAIN r \ X
  BY DEF Without
<1>2. IsFiniteSet(DOMAIN r \ X)
  BY FS_Difference, Zenon DEF GoodRow
<1>3. \A a \in DOMAIN r \ X : Without(r, X)[a] = r[a]
  BY DEF Without
<1> QED
  BY <1>1, <1>2, <1>3 DEF GoodRow

(* The empty row is good. *)
LEMMA NoRowGood == DOMAIN NoRow = {} /\ GoodRow(NoRow)
<1>1. DOMAIN NoRow = {}
  BY DEF NoRow
<1> QED
  BY <1>1, FS_EmptySet DEF GoodRow

\* The times the server stamps cells with.
Stamp(now) == now \in Nat /\ valid(now)

(* A timestamp that validation accepts is one after it is resolved. *)
LEMMA ResolveValid ==
    ASSUME NEW ts \in Int, NEW auto \in BOOLEAN, NEW now, Stamp(now), valid(resolve(ts, auto, 0))
    PROVE  Stamp(resolve(ts, auto, now)) /\ (ts # -1 => resolve(ts, auto, now) = resolve(ts, auto, 0))
<1>1. Milli \in Nat \ {0} /\ ts % Milli \in Int
  BY RowAssumption, ModType
<1>2. CASE ts = -1
  BY <1>2 DEF Stamp, resolve
<1>3. CASE ts # -1
  <2>1. resolve(ts, auto, now) = resolve(ts, auto, 0)
    BY <1>3 DEF resolve
  <2>2. resolve(ts, auto, 0) \in Int
    BY <1>1, <1>3 DEF resolve
  <2>3. resolve(ts, auto, 0) >= 0
    BY DEF valid
  <2> QED
    BY <2>1, <2>2, <2>3 DEF Stamp
<1> QED
  BY <1>2, <1>3

(* The server's own time has the table's granularity. *)
LEMMA ServerStamp ==
    ASSUME clock \in Nat
    PROVE  Stamp(newTimestamp) /\ newTimestamp =< clock /\ clock < newTimestamp + Milli
<1>1. Milli \in Nat \ {0}
  BY RowAssumption
<1> DEFINE q == clock \div Milli
           u == clock % Milli
<1>2. q \in Int /\ u \in 0 .. Milli - 1 /\ clock = q * Milli + u
  BY <1>1, ModType
<1>3. newTimestamp = clock - u
  BY DEF newTimestamp
<1>4. q * Milli + 0 = clock - u /\ 0 \in 0 .. Milli - 1
  BY <1>1, <1>2
<1>5. (q * Milli + 0) % Milli = 0
  <2> HIDE DEF q
  <2> QED
    BY <1>1, <1>2, <1>4, ModMultiple
<1>7. clock - u \in Nat
  BY <1>1
<1> HIDE DEF q, u
<1>8. newTimestamp % Milli = 0
  BY <1>3, <1>4, <1>5
<1> QED
  BY <1>1, <1>2, <1>3, <1>7, <1>8 DEF Stamp, valid

(* An aggregate stays a value of its kind. *)
LEMMA CombineType ==
    ASSUME NEW kind \in {"sum", "min", "max", "hll"}, NEW old \in KindValues(kind), NEW in \in KindValues(kind)
    PROVE  combine(kind, old, in) \in KindValues(kind)
<1>1. CASE kind = "hll"
  BY <1>1 DEF combine, KindValues
<1>2. CASE kind # "hll"
  <2>1. KindValues(kind) = {"int"} \X Int
    BY <1>2 DEF KindValues
  <2>2. old[2] \in Int /\ in[2] \in Int
    BY <2>1
  <2>3. old[2] + in[2] \in Int
    BY <2>2
  <2>4. Wrap(old[2] + in[2]) \in Int
    BY <2>3, WrapSum
  <2> QED
    BY <1>2, <2>1, <2>2, <2>4 DEF combine
<1> QED
  BY <1>1, <1>2

(* The fields of a mutation. *)
LEMMA MutationFields ==
    ASSUME NEW m \in Mutations
    PROVE  /\ m.op \in {"set", "add", "delCol", "delFam", "delRow"}
           /\ m.op = "set" => /\ m.col \in Cols /\ m.ts \in Int /\ m.auto \in BOOLEAN
                              /\ m.val \in PlainValues
                              /\ \A ts \in Int, auto \in BOOLEAN :
                                   [m EXCEPT !.ts = ts, !.auto = auto] \in Mutations
           /\ m.op = "add" => m.col \in Cols /\ m.ts \in Int /\ m.auto \in BOOLEAN /\ m.val \in Inputs
           /\ m.op = "delCol" => m.from \in Int /\ m.to \in Int
BY Zenon DEF Mutations

(* The value of a valid AddToCell has the kind of its family. *)
LEMMA AddValue ==
    ASSUME NEW v \in Inputs, NEW kind \in {"sum", "min", "max", "hll"}, v[1] \in ValueOf(kind)
    PROVE  v \in KindValues(kind)
BY DEF Inputs, PlainValues, ValueOf, KindValues

(* A valid mutation makes a good row of a good row. *)
LEMMA ApplyGood ==
    ASSUME NEW r, GoodRow(r), NEW m \in Mutations, validateMutation(m), NEW now, Stamp(now)
    PROVE  GoodRow(applyMutation(r, m, now))
<1>0. Kinds \in [Fams -> {"none", "sum", "min", "max", "hll"}]
  BY RowAssumption
<1>1. CASE m.op = "set"
  <2>1. /\ m.fam \in Fams /\ Kinds[m.fam] = "none" /\ valid(resolve(m.ts, m.auto, 0))
        /\ m.col \in Cols /\ m.ts \in Int /\ m.auto \in BOOLEAN /\ m.val \in PlainValues
    BY <1>1, MutationFields, Zenon DEF validateMutation
  <2> DEFINE at == <<m.fam, m.col, resolve(m.ts, m.auto, now)>>
  <2>2. Stamp(resolve(m.ts, m.auto, now))
    BY <2>1, ResolveValid
  <2>3. at \in Addresses /\ valid(at[3]) /\ at[1] = m.fam
    BY <2>1, <2>2 DEF Addresses, Stamp
  <2>4. m.val \in KindValues(Kinds[at[1]])
    BY <2>1, <2>3 DEF KindValues
  <2>5. applyMutation(r, m, now) = With(r, at, m.val)
    BY <1>1 DEF applyMutation
  <2> HIDE DEF at
  <2> QED
    BY <2>3, <2>4, <2>5, WithGood
<1>2. CASE m.op = "add"
  <2>1. /\ m.fam \in Fams /\ Kinds[m.fam] # "none" /\ valid(resolve(m.ts, m.auto, 0)) /\ m.ts # -1
        /\ m.col \in Cols /\ m.ts \in Int /\ m.auto \in BOOLEAN /\ m.val \in Inputs
        /\ m.val[1] \in ValueOf(Kinds[m.fam])
    BY <1>2, MutationFields, Zenon DEF validateMutation
  <2> DEFINE at == <<m.fam, m.col, resolve(m.ts, m.auto, 0)>>
             v == IF at \in DOMAIN r THEN combine(Kinds[m.fam], r[at], m.val) ELSE m.val
  <2>2. Stamp(resolve(m.ts, m.auto, 0))
    BY <2>1, ResolveValid
  <2>3. at \in Addresses /\ valid(at[3]) /\ at[1] = m.fam
    BY <2>1, <2>2 DEF Addresses, Stamp
  <2>4. Kinds[m.fam] \in {"sum", "min", "max", "hll"}
    BY <1>0, <2>1
  <2>5. m.val \in KindValues(Kinds[m.fam])
    BY <2>1, <2>4, AddValue
  <2>6. v \in KindValues(Kinds[at[1]])
    <3> HIDE DEF at
    <3>1. CASE at \in DOMAIN r
      <4>1. r[at] \in KindValues(Kinds[m.fam])
        BY <2>3, <3>1 DEF GoodRow
      <4> QED
        BY <2>3, <2>4, <2>5, <3>1, <4>1, CombineType, ZenonT(30)
    <3>2. CASE at \notin DOMAIN r
      BY <2>3, <2>5, <3>2
    <3> QED
      BY <3>1, <3>2
  <2>7. applyMutation(r, m, now) = With(r, at, v)
    BY <1>2 DEF applyMutation, applyAggregate
  <2> HIDE DEF at, v
  <2> QED
    BY <2>3, <2>6, <2>7, WithGood
<1>3. CASE m.op = "delCol"
  BY <1>3, WithoutGood DEF applyMutation, deleteFromColumn
<1>4. CASE m.op = "delFam"
  BY <1>4, WithoutGood DEF applyMutation, deleteFromFamily
<1>5. CASE m.op = "delRow"
  BY <1>5, NoRowGood DEF applyMutation
<1> QED
  BY <1>1, <1>2, <1>3, <1>4, <1>5, MutationFields, Zenon

-----------------------------------------------------------------------------
(* A consumer's row against the stored one.                                  *)

\* The rows agree on a family.
FamEq(m, r, fam) ==
    /\ \A a \in DOMAIN r : a[1] = fam => a \in DOMAIN m /\ m[a] = r[a]
    /\ \A a \in DOMAIN m : a[1] = fam => a \in DOMAIN r

(* Setting the same cell in both rows keeps them equal in a family. *)
LEMMA FamEqWith ==
    ASSUME NEW m, NEW r, NEW fam, FamEq(m, r, fam), NEW at, NEW v, NEW w, at[1] = fam => v = w
    PROVE  FamEq(With(m, at, v), With(r, at, w), fam)
<1>1. /\ DOMAIN With(m, at, v) = DOMAIN m \cup {at}
      /\ \A a \in DOMAIN m \cup {at} : With(m, at, v)[a] = IF a = at THEN v ELSE m[a]
  BY DEF With
<1>2. /\ DOMAIN With(r, at, w) = DOMAIN r \cup {at}
      /\ \A a \in DOMAIN r \cup {at} : With(r, at, w)[a] = IF a = at THEN w ELSE r[a]
  BY DEF With
<1> QED
  BY <1>1, <1>2 DEF FamEq

(* Removing the same cells of a family keeps the rows equal in it. *)
LEMMA FamEqWithout ==
    ASSUME NEW m, NEW r, NEW fam, FamEq(m, r, fam), NEW X, NEW Y,
           \A a \in DOMAIN r \cap DOMAIN m : a[1] = fam => (a \in X <=> a \in Y)
    PROVE  FamEq(Without(m, X), Without(r, Y), fam)
<1>1. /\ DOMAIN Without(m, X) = DOMAIN m \ X
      /\ \A a \in DOMAIN m \ X : Without(m, X)[a] = m[a]
  BY DEF Without
<1>2. /\ DOMAIN Without(r, Y) = DOMAIN r \ Y
      /\ \A a \in DOMAIN r \ Y : Without(r, Y)[a] = r[a]
  BY DEF Without
<1> QED
  BY <1>1, <1>2 DEF FamEq

(* Replaying a list of deletions removes, of a family, what they hit there. *)
LEMMA FamEqDeletes ==
    ASSUME NEW m, NEW r, NEW fam, FamEq(m, r, fam), NEW cs, Len(cs) \in Nat,
           \A i \in 1 .. Len(cs) : cs[i].op \in {"delCol", "delFam"},
           NEW Y, \A a \in DOMAIN r : a[1] = fam => (a \in Y <=> \E i \in 1 .. Len(cs) : Hits(cs[i], a))
    PROVE  FamEq(Replay(m, cs), Without(r, Y), fam)
<1>1. /\ DOMAIN Replay(m, cs) = Unhit(m, cs)
      /\ \A a \in DOMAIN Replay(m, cs) : Replay(m, cs)[a] = m[a]
  BY ReplayDeletes
<1>2. /\ DOMAIN Without(r, Y) = DOMAIN r \ Y
      /\ \A a \in DOMAIN r \ Y : Without(r, Y)[a] = r[a]
  BY DEF Without
<1> QED
  BY <1>1, <1>2 DEF FamEq, Unhit

DeletesFamiliesOf(r, cs) ==
    /\ cs \in Seq(Mutations)
    /\ \A i \in 1 .. Len(cs) : cs[i].op = "delFam"
    /\ \A fam \in Fams : (\E i \in 1 .. Len(cs) : cs[i].fam = fam) <=> \E a \in DOMAIN r : a[1] = fam

(* The deletions recorded for a deleted row. *)
LEMMA DelRowChanges ==
    ASSUME NEW r, NEW m, m.op = "delRow", NEW now, NEW cs, cs = changesOf(r, m, now)
    PROVE  DeletesFamiliesOf(r, cs)
<1> DEFINE fs == sortedFamilies(r)
<1>1. fs \in Seq(Fams) /\ Elements(fs) = {fam \in Fams : \E a \in DOMAIN r : a[1] = fam}
  BY SortedFamilies
<1>2. cs = [i \in DOMAIN fs |-> [op |-> "delFam", fam |-> fs[i]]]
  BY DEF changesOf
<1> HIDE DEF fs
<1>3. DOMAIN fs = 1 .. Len(fs) /\ Len(fs) \in Nat /\ \A i \in 1 .. Len(fs) : fs[i] \in Fams
  BY <1>1
<1>4. Fams \subseteq STRING
  BY RowAssumption DEF Fams
<1>5. \A fam \in STRING : [op |-> "delFam", fam |-> fam] \in Mutations
  BY Zenon DEF Mutations
<1>6. ASSUME NEW i \in 1 .. Len(fs) PROVE cs[i] \in Mutations
  <2>1. i \in DOMAIN fs /\ fs[i] \in STRING
    BY <1>3, <1>4, Zenon
  <2>2. cs[i] = [op |-> "delFam", fam |-> fs[i]]
    BY <1>2, <2>1, Zenon
  <2> QED
    BY <1>5, <2>1, <2>2, Zenon
<1>7. cs \in Seq(Mutations) /\ Len(cs) = Len(fs)
  BY <1>2, <1>3, <1>6
<1>8. \A i \in 1 .. Len(cs) : cs[i].op = "delFam" /\ cs[i].fam = fs[i]
  BY <1>2, <1>3, <1>7
<1>9. \A fam : fam \in Elements(fs) <=> \E i \in 1 .. Len(cs) : cs[i].fam = fam
  BY <1>3, <1>7, <1>8 DEF Elements
<1> QED
  BY <1>1, <1>7, <1>8, <1>9 DEF DeletesFamiliesOf

(* The changes recorded for a mutation do to a consumer's row what the       *)
(* mutation does to the stored one.                                          *)
LEMMA ChangesFollow ==
    ASSUME NEW r, GoodRow(r), NEW c \in Mutations, validateMutation(c), NEW now, Stamp(now)
    PROVE  /\ changesOf(r, c, now) \in Seq(Mutations)
           /\ \A m, fam : FamEq(m, r, fam) /\ fam \in Fams =>
                FamEq(Replay(m, changesOf(r, c, now)), applyMutation(r, c, now), fam)
<1>1. CASE c.op = "set"
  <2> DEFINE ts == resolve(c.ts, c.auto, now)
             d == [c EXCEPT !.ts = ts, !.auto = FALSE]
             at == <<c.fam, c.col, ts>>
  <2>1. /\ valid(resolve(c.ts, c.auto, 0)) /\ c.ts \in Int /\ c.auto \in BOOLEAN
        /\ \A t \in Int, auto \in BOOLEAN : [c EXCEPT !.ts = t, !.auto = auto] \in Mutations
    BY <1>1, MutationFields, Zenon DEF validateMutation
  <2>2. ts \in Nat
    <3>1. Stamp(ts)
      BY <2>1, ResolveValid, Zenon
    <3> QED
      BY <3>1 DEF Stamp
  <2>3. changesOf(r, c, now) = <<d>>
    BY <1>1 DEF changesOf
  <2> HIDE DEF ts
  <2>4. d \in Mutations
    <3>1. ts \in Int /\ FALSE \in BOOLEAN
      BY <2>2
    <3> QED
      BY <2>1, <3>1, Zenon
  <2>5. /\ d.op = "set" /\ d.fam = c.fam /\ d.col = c.col /\ d.val = c.val /\ d.ts = ts /\ d.auto = FALSE
    <3>1. c \in [op : {"set"}, fam : STRING, col : Cols, ts : Int, auto : BOOLEAN, val : PlainValues]
      BY <1>1, Zenon DEF Mutations
    <3> QED
      BY <3>1
  <2>6. resolve(d.ts, d.auto, 0) = ts
    BY <2>2, <2>5 DEF resolve
  <2> HIDE DEF d
  <2>7. ASSUME NEW m PROVE Replay(m, <<d>>) = With(m, at, c.val)
    <3>1. Replay(m, <<d>>) = applyMutation(m, d, 0)
      BY ReplayOne
    <3> QED
      BY <3>1, <2>5, <2>6 DEF applyMutation
  <2>8. applyMutation(r, c, now) = With(r, at, c.val)
    BY <1>1 DEF applyMutation, ts
  <2>9. <<d>> \in Seq(Mutations)
    BY <2>4
  <2> HIDE DEF at
  <2> QED
    BY <2>3, <2>7, <2>8, <2>9, FamEqWith
<1>2. CASE c.op \in {"add", "delCol", "delFam"}
  <2>1. changesOf(r, c, now) = <<c>> /\ <<c>> \in Seq(Mutations)
    BY <1>2 DEF changesOf
  <2> SUFFICES ASSUME NEW m, NEW fam, FamEq(m, r, fam)
               PROVE  FamEq(applyMutation(m, c, 0), applyMutation(r, c, now), fam)
    BY <2>1, ReplayOne
  <2>2. CASE c.op = "add"
    <3> DEFINE at == <<c.fam, c.col, resolve(c.ts, c.auto, 0)>>
               V(x) == IF at \in DOMAIN x THEN combine(Kinds[c.fam], x[at], c.val) ELSE c.val
    <3>1. /\ applyMutation(m, c, 0) = With(m, at, V(m))
          /\ applyMutation(r, c, now) = With(r, at, V(r))
      BY <2>2 DEF applyMutation, applyAggregate
    <3> HIDE DEF at
    <3>2. at[1] = fam => V(m) = V(r)
      BY DEF FamEq
    <3> HIDE DEF V
    <3> QED
      BY <3>1, <3>2, FamEqWith
  <2>3. CASE c.op = "delCol"
    <3> DEFINE X(x) == {a \in DOMAIN x : /\ a[1] = c.fam /\ a[2] = c.col
                                         /\ a[3] >= c.from
                                         /\ c.to = 0 \/ a[3] < c.to}
    <3>1. applyMutation(m, c, 0) = Without(m, X(m)) /\ applyMutation(r, c, now) = Without(r, X(r))
      BY <2>3 DEF applyMutation, deleteFromColumn
    <3>2. \A a \in DOMAIN r \cap DOMAIN m : a \in X(m) <=> a \in X(r)
      OBVIOUS
    <3> HIDE DEF X
    <3> QED
      BY <3>1, <3>2, FamEqWithout
  <2>4. CASE c.op = "delFam"
    <3> DEFINE X(x) == {a \in DOMAIN x : a[1] = c.fam}
    <3>1. applyMutation(m, c, 0) = Without(m, X(m)) /\ applyMutation(r, c, now) = Without(r, X(r))
      BY <2>4 DEF applyMutation, deleteFromFamily
    <3>2. \A a \in DOMAIN r \cap DOMAIN m : a \in X(m) <=> a \in X(r)
      OBVIOUS
    <3> HIDE DEF X
    <3> QED
      BY <3>1, <3>2, FamEqWithout
  <2> QED
    BY <1>2, <2>2, <2>3, <2>4
<1>3. CASE c.op = "delRow"
  <2>0. PICK cs : cs = changesOf(r, c, now)
    OBVIOUS
  <2>1. /\ cs \in Seq(Mutations)
        /\ \A i \in 1 .. Len(cs) : cs[i].op = "delFam"
        /\ \A fam \in Fams : (\E i \in 1 .. Len(cs) : cs[i].fam = fam) <=> \E a \in DOMAIN r : a[1] = fam
    <3>1. DeletesFamiliesOf(r, cs)
      BY <1>3, <2>0, DelRowChanges
    <3> QED
      BY <3>1, Zenon DEF DeletesFamiliesOf
  <2>2. applyMutation(r, c, now) = NoRow
    BY <1>3 DEF applyMutation
  <2>3. ASSUME NEW m, NEW fam \in Fams, FamEq(m, r, fam) PROVE FamEq(Replay(m, cs), NoRow, fam)
    <3>1. Len(cs) \in Nat /\ \A i \in 1 .. Len(cs) : cs[i].op \in {"delCol", "delFam"}
      BY <2>1
    <3>2. DOMAIN Replay(m, cs) = Unhit(m, cs)
      BY <3>1, ReplayDeletes
    <3>3. ASSUME NEW a \in DOMAIN m, a[1] = fam PROVE \E i \in 1 .. Len(cs) : Hits(cs[i], a)
      <4>1. a \in DOMAIN r
        BY <2>3, <3>3 DEF FamEq
      <4>2. PICK i \in 1 .. Len(cs) : cs[i].fam = fam
        BY <2>1, <3>3, <4>1
      <4> QED
        BY <2>1, <3>3, <4>2 DEF Hits
    <3> QED
      BY <3>2, <3>3, NoRowGood DEF FamEq, Unhit
  <2> QED
    BY <2>0, <2>1, <2>2, <2>3
<1> QED
  BY <1>1, <1>2, <1>3, MutationFields, Zenon

\* A consumer with the row r comes to the row s when it applies the changes.
Tracks(r, s, changes) ==
    /\ GoodRow(s)
    /\ changes \in Seq(Mutations)
    /\ \A m, fam : FamEq(m, r, fam) /\ fam \in Fams => FamEq(Replay(m, changes), s, fam)

(* No change leaves a consumer's row as it is. *)
LEMMA ReplayNothing ==
    ASSUME NEW m
    PROVE  Replay(m, << >>) = m
<1>1. Len(<< >>) = 0 /\ 0 \in Nat
  OBVIOUS
<1>2. PICK A : A = Rows(m, << >>)
  OBVIOUS
<1>3. /\ A[0] = m
      /\ \A i \in 1 .. Len(<< >>) : A[i] = applyMutation(A[i - 1], << >>[i], 0)
      /\ Replay(m, << >>) = A[Len(<< >>)]
  BY <1>1, <1>2, RowsDef
<1> QED
  BY <1>1, <1>3

(* No change leads from a row to itself. *)
LEMMA TracksNothing ==
    ASSUME NEW r, GoodRow(r)
    PROVE  Tracks(r, r, << >>)
<1>1. << >> \in Seq(Mutations)
  OBVIOUS
<1> QED
  BY <1>1, ReplayNothing DEF Tracks

(* Changes may be put one after the other. *)
LEMMA TracksMore ==
    ASSUME NEW r, NEW s, NEW t, NEW c, NEW d, Tracks(r, s, c), Tracks(s, t, d)
    PROVE  Tracks(r, t, c \o d)
<1>1. c \in Seq(Mutations) /\ d \in Seq(Mutations)
  BY DEF Tracks
<1>2. c \o d \in Seq(Mutations)
  BY <1>1
<1>3. ASSUME NEW m, NEW fam, FamEq(m, r, fam), fam \in Fams
      PROVE  FamEq(Replay(m, c \o d), t, fam)
  <2>1. FamEq(Replay(m, c), s, fam)
    BY <1>3 DEF Tracks
  <2>2. FamEq(Replay(Replay(m, c), d), t, fam)
    BY <1>3, <2>1 DEF Tracks
  <2>3. Replay(m, c \o d) = Replay(Replay(m, c), d)
    BY <1>1, ReplayConcat
  <2> QED
    BY <2>2, <2>3
<1>4. GoodRow(t)
  BY DEF Tracks
<1> QED
  BY <1>2, <1>3, <1>4 DEF Tracks

(* The changes recorded for one valid mutation lead to its result. *)
LEMMA TracksOne ==
    ASSUME NEW r, GoodRow(r), NEW c \in Mutations, validateMutation(c), NEW now, Stamp(now)
    PROVE  Tracks(r, applyMutation(r, c, now), changesOf(r, c, now))
BY ApplyGood, ChangesFollow DEF Tracks

(* The changes applyMutations records are those a consumer needs. *)
LEMMA TracksAll ==
    ASSUME NEW r, GoodRow(r), NEW ms \in Seq(Mutations), \A i \in DOMAIN ms : validateMutation(ms[i]),
           NEW now, Stamp(now)
    PROVE  Tracks(r, applyMutations(r, ms, now).row, applyMutations(r, ms, now).changes)
<1>1. Len(ms) \in Nat /\ \A i \in 1 .. Len(ms) : ms[i] \in Mutations /\ validateMutation(ms[i])
  OBVIOUS
<1>2. PICK A : A = Done(r, ms, now)
  OBVIOUS
<1>3. /\ A[0].row = r
      /\ \A i \in 1 .. Len(ms) : A[i].row = applyMutation(A[i - 1].row, ms[i], now)
      /\ applyMutations(r, ms, now) = A[Len(ms)]
  BY <1>1, <1>2, DoneRows
<1>4. /\ A[0].changes = << >>
      /\ \A i \in 1 .. Len(ms) :
           A[i].changes = A[i - 1].changes \o changesOf(A[i - 1].row, ms[i], now)
  <2>1. Recorded(A, ms, now)
    BY <1>1, <1>2, DoneChanges, ZenonT(30)
  <2> QED
    BY <2>1, Zenon DEF Recorded
<1> DEFINE Fine(i) == Tracks(r, A[i].row, A[i].changes)
           S == {i \in 0 .. Len(ms) : Fine(i)}
<1>5. 0 \in S
  BY <1>1, <1>3, <1>4, TracksNothing
<1>6. ASSUME NEW i \in 0 .. Len(ms) - 1, i \in S PROVE i + 1 \in S
  <2>1. i + 1 \in 1 .. Len(ms) /\ i + 1 \in 0 .. Len(ms) /\ (i + 1) - 1 = i
    BY <1>1
  <2>2. Tracks(r, A[i].row, A[i].changes)
    BY <1>6
  <2>3. A[i + 1].row = applyMutation(A[i].row, ms[i + 1], now)
    BY <1>3, <2>1
  <2>4. A[i + 1].changes = A[i].changes \o changesOf(A[i].row, ms[i + 1], now)
    BY <1>4, <2>1, Zenon
  <2>5. GoodRow(A[i].row) /\ ms[i + 1] \in Mutations /\ validateMutation(ms[i + 1])
    BY <1>1, <2>1, <2>2, Zenon DEF Tracks
  <2>6. Tracks(A[i].row, applyMutation(A[i].row, ms[i + 1], now), changesOf(A[i].row, ms[i + 1], now))
    BY <2>5, TracksOne
  <2>7. Fine(i + 1)
    BY <2>2, <2>3, <2>4, <2>6, TracksMore
  <2> QED
    BY <2>1, <2>7
<1>7. 0 .. Len(ms) \subseteq S
  <2>1. Len(ms) \in Nat
    BY <1>1
  <2> HIDE DEF S
  <2> QED
    BY <2>1, <1>5, <1>6, UpToInduction, ZenonT(30)
<1>8. Len(ms) \in 0 .. Len(ms)
  BY <1>1
<1>9. Fine(Len(ms))
  <2> HIDE DEF Fine
  <2> QED
    BY <1>7, <1>8
<1> QED
  BY <1>3, <1>9

-----------------------------------------------------------------------------
(* Collections and their records.                                            *)

(* A listing of a finite set has its elements and no others. *)
LEMMA ListingOnto ==
    ASSUME NEW S, IsFiniteSet(S), NEW s, s = Listing(S)
    PROVE  /\ Len(s) \in Nat /\ DOMAIN s = 1 .. Len(s)
           /\ \A i \in 1 .. Len(s) : s[i] \in S
           /\ \A x \in S : \E i \in 1 .. Len(s) : s[i] = x
<1> DEFINE n == Cardinality(S)
<1>1. n \in Nat /\ ExistsBijection(1 .. n, S)
  BY FS_CardinalityType
<1> HIDE DEF n
<1>2. Bijection(1 .. n, S) # {}
  BY <1>1 DEF ExistsBijection
<1>3. s \in Bijection(1 .. n, S)
  BY <1>2 DEF Listing, n
<1>4. s \in [1 .. n -> S] /\ \A x \in S : \E i \in 1 .. n : s[i] = x
  BY <1>3 DEF Bijection, Surjection
<1>5. s \in Seq(S) /\ Len(s) = n
  BY <1>1, <1>4
<1> QED
  BY <1>1, <1>4, <1>5

\* The deletion recorded for a collected cell.
Deletion(a) == [op |-> "delCol", fam |-> a[1], col |-> a[2], from |-> a[3], to |-> a[3] + Milli]

(* The deletion recorded for a collected cell. *)
LEMMA DeletionFields ==
    ASSUME NEW a \in Addresses
    PROVE  /\ Deletion(a) \in Mutations
           /\ Deletion(a).op = "delCol" /\ Deletion(a).fam = a[1] /\ Deletion(a).col = a[2]
           /\ Deletion(a).from = a[3] /\ Deletion(a).to = a[3] + Milli
<1>1. a[1] \in STRING /\ a[2] \in Cols /\ a[3] \in Int /\ a[3] + Milli \in Int
  BY RowAssumption DEF Addresses, Fams
<1>2. \A fam \in STRING, col \in Cols, from \in Int, to \in Int :
        [op |-> "delCol", fam |-> fam, col |-> col, from |-> from, to |-> to] \in Mutations
  BY Zenon DEF Mutations
<1>3. Deletion(a) \in Mutations
  BY <1>1, <1>2, Zenon DEF Deletion
<1> QED
  BY <1>3 DEF Deletion

\* The list holds the deletions of the cells S.
Deletes(cs, S) ==
    /\ cs \in Seq(Mutations)
    /\ \A i \in 1 .. Len(cs) : \E a \in S : cs[i] = Deletion(a)
    /\ \A a \in S : \E i \in 1 .. Len(cs) : cs[i] = Deletion(a)

(* Every collected cell has its deletion. *)
LEMMA GcChanges ==
    ASSUME NEW r, GoodRow(r), NEW now
    PROVE  Deletes(gcChanges(r, now), Collectable(r, now))
<1> DEFINE S == Collectable(r, now)
<1>1. IsFiniteSet(S) /\ S \subseteq Addresses
  <2>1. S \subseteq DOMAIN r
    BY DEF Collectable
  <2> HIDE DEF S
  <2> QED
    BY <2>1, FS_Subset DEF GoodRow
<1>2. PICK s : s = Listing(S)
  OBVIOUS
<1>3. PICK cs : cs = gcChanges(r, now)
  OBVIOUS
<1>4. cs = [i \in DOMAIN s |-> Deletion(s[i])]
  BY <1>2, <1>3 DEF gcChanges, Deletion
<1> HIDE DEF S
<1>5. /\ Len(s) \in Nat /\ DOMAIN s = 1 .. Len(s)
      /\ \A i \in 1 .. Len(s) : s[i] \in S
      /\ \A x \in S : \E i \in 1 .. Len(s) : s[i] = x
  BY <1>1, <1>2, ListingOnto
<1>6. \A i \in 1 .. Len(s) : cs[i] = Deletion(s[i])
  BY <1>4, <1>5
<1>7. \A i \in 1 .. Len(s) : cs[i] \in Mutations
  BY <1>1, <1>5, <1>6, DeletionFields
<1>8. cs \in Seq(Mutations) /\ Len(cs) = Len(s)
  BY <1>4, <1>5, <1>7
<1>9. Deletes(cs, S)
  BY <1>5, <1>6, <1>8 DEF Deletes
<1> QED
  BY <1>3, <1>9 DEF S

(* At millisecond granularity the deletion of a cell covers no other one. *)
LEMMA DeletionExact ==
    ASSUME ~ micros, NEW a \in Addresses, NEW b \in Addresses, valid(a[3]), valid(b[3])
    PROVE  Hits(Deletion(b), a) <=> a = b
<1>1. /\ a[3] \in Nat /\ b[3] \in Nat /\ a[3] % Milli = 0 /\ b[3] % Milli = 0
      /\ a = <<a[1], a[2], a[3]>> /\ b = <<b[1], b[2], b[3]>>
  BY DEF Addresses, valid
<1>2. Milli \in Nat \ {0}
  BY RowAssumption
<1>3. Hits(Deletion(b), a)
        <=> a[1] = b[1] /\ a[2] = b[2] /\ a[3] >= b[3] /\ (b[3] + Milli = 0 \/ a[3] < b[3] + Milli)
  BY DeletionFields DEF Hits
<1>4. b[3] + Milli # 0
  BY <1>1, <1>2
<1>5. ASSUME a[3] >= b[3], a[3] < b[3] + Milli PROVE a[3] = b[3]
  BY <1>1, <1>2, <1>5, ModApart, ZenonT(30)
<1> QED
  BY <1>1, <1>2, <1>3, <1>4, <1>5

\* The families of the cells deleted.
FamiliesOf(cs) == {cs[i].fam : i \in DOMAIN cs}

(* A consumer that applies the record of a collection has the collected row: *)
(* in every family at millisecond granularity, and in the others at any.     *)
LEMMA GcTracks ==
    ASSUME NEW r, GoodRow(r), NEW now, NEW m, NEW fam, FamEq(m, r, fam),
           ~ micros \/ fam \notin FamiliesOf(gcChanges(r, now))
    PROVE  FamEq(Replay(m, gcChanges(r, now)), gc(r, now), fam)
<1> DEFINE Y == Collectable(r, now)
<1>1. PICK cs : cs = gcChanges(r, now)
  OBVIOUS
<1>2. Deletes(cs, Y)
  BY <1>1, GcChanges, ZenonT(30)
<1>3. Y \subseteq DOMAIN r /\ gc(r, now) = Without(r, Y)
  BY DEF Collectable, gc
<1> HIDE DEF Y
<1>4. DOMAIN r \subseteq Addresses /\ \A a \in DOMAIN r : valid(a[3])
  BY DEF GoodRow
<1>5. Len(cs) \in Nat /\ DOMAIN cs = 1 .. Len(cs)
  BY <1>2 DEF Deletes
<1>6. \A i \in 1 .. Len(cs) : cs[i].op \in {"delCol", "delFam"}
  BY <1>2, <1>3, <1>4, DeletionFields DEF Deletes
<1>7. ASSUME NEW a \in DOMAIN r, a[1] = fam
      PROVE  a \in Y <=> \E i \in 1 .. Len(cs) : Hits(cs[i], a)
  <2>1. CASE ~ micros
    <3>1. \A b \in Y : Hits(Deletion(b), a) <=> a = b
      BY <1>3, <1>4, <2>1, DeletionExact
    <3> QED
      BY <1>2, <3>1 DEF Deletes
  <2>2. CASE fam \notin FamiliesOf(cs)
    <3>1. \A i \in 1 .. Len(cs) : cs[i].fam # fam
      BY <1>5, <2>2 DEF FamiliesOf
    <3>2. \A i \in 1 .. Len(cs) : ~ Hits(cs[i], a)
      BY <1>7, <3>1 DEF Hits
    <3>3. a \notin Y
      <4> SUFFICES ASSUME a \in Y PROVE FALSE
        OBVIOUS
      <4>1. PICK i \in 1 .. Len(cs) : cs[i] = Deletion(a)
        BY <1>2 DEF Deletes
      <4> QED
        BY <1>4, <1>7, <3>1, <4>1, DeletionFields
    <3> QED
      BY <3>2, <3>3
  <2> QED
    BY <1>1, <2>1, <2>2
<1> QED
  BY <1>1, <1>3, <1>5, <1>6, <1>7, FamEqDeletes, ZenonT(30)

-----------------------------------------------------------------------------
(* Staging and committing.                                                   *)

\* A commit whose records lead to its row, in the families it does not collect.
CommitGood(commit) ==
    /\ GoodRow(commit.row)
    /\ commit.user \in Seq(Mutations)
    /\ commit.gc \in Seq(Mutations)
    /\ \A i \in 1 .. Len(commit.gc) : commit.gc[i].op = "delCol" /\ commit.gc[i].fam \in Fams
    /\ \A m, fam : FamEq(m, row, fam) /\ fam \in Fams /\ fam \notin FamiliesOf(commit.gc) =>
         FamEq(Replay(m, commit.user), commit.row, fam)

\* One whose records lead to its row in every family.
Exact(commit) ==
    \A m, fam : FamEq(m, row, fam) /\ fam \in Fams =>
        FamEq(Replay(Replay(m, commit.user), commit.gc), commit.row, fam)

(* A commit with nothing staged is good. *)
LEMMA UnstagedGood ==
    ASSUME GoodRow(row)
    PROVE  CommitGood(Unstaged(row))
<1> DEFINE c == Unstaged(row)
<1>1. c.row = row /\ c.user = << >> /\ c.gc = << >>
  BY DEF Unstaged
<1> HIDE DEF c
<1>2. << >> \in Seq(Mutations) /\ Len(<< >>) = 0
  OBVIOUS
<1>3. \A i \in 1 .. Len(c.gc) : c.gc[i].op = "delCol" /\ c.gc[i].fam \in Fams
  BY <1>1, <1>2
<1>4. CommitGood(c)
  BY <1>1, <1>2, <1>3, ReplayNothing DEF CommitGood
<1> QED
  BY <1>4 DEF c

(* The families of two lists of changes are those of either. *)
LEMMA FamiliesConcat ==
    ASSUME NEW c \in Seq(Mutations), NEW d \in Seq(Mutations)
    PROVE  FamiliesOf(c \o d) = FamiliesOf(c) \cup FamiliesOf(d)
<1> DEFINE e == c \o d
<1>1. /\ DOMAIN c = 1 .. Len(c) /\ DOMAIN d = 1 .. Len(d) /\ DOMAIN e = 1 .. Len(c) + Len(d)
      /\ Len(c) \in Nat /\ Len(d) \in Nat
      /\ \A i \in 1 .. Len(c) : e[i] = c[i]
      /\ \A i \in 1 .. Len(d) : e[Len(c) + i] = d[i]
  OBVIOUS
<1> HIDE DEF e
<1>2. FamiliesOf(e) \subseteq FamiliesOf(c) \cup FamiliesOf(d)
  <2> SUFFICES ASSUME NEW i \in DOMAIN e PROVE e[i].fam \in FamiliesOf(c) \cup FamiliesOf(d)
    BY DEF FamiliesOf
  <2>1. CASE i \in 1 .. Len(c)
    BY <1>1, <2>1 DEF FamiliesOf
  <2>2. CASE i \notin 1 .. Len(c)
    <3>1. i - Len(c) \in 1 .. Len(d) /\ i = Len(c) + (i - Len(c))
      BY <1>1, <2>2
    <3>2. e[i] = d[i - Len(c)]
      BY <1>1, <3>1
    <3> QED
      BY <1>1, <3>1, <3>2 DEF FamiliesOf
  <2> QED
    BY <2>1, <2>2
<1>3. ASSUME NEW i \in DOMAIN c PROVE c[i].fam \in FamiliesOf(e)
  <2>1. i \in DOMAIN e /\ e[i] = c[i]
    BY <1>1
  <2> QED
    BY <2>1 DEF FamiliesOf
<1>4. ASSUME NEW i \in DOMAIN d PROVE d[i].fam \in FamiliesOf(e)
  <2>1. Len(c) + i \in DOMAIN e /\ e[Len(c) + i] = d[i]
    BY <1>1
  <2> QED
    BY <2>1 DEF FamiliesOf
<1>5. FamiliesOf(c) \subseteq FamiliesOf(e) /\ FamiliesOf(d) \subseteq FamiliesOf(e)
  BY <1>3, <1>4 DEF FamiliesOf
<1> QED
  BY <1>2, <1>5 DEF e

\* The row stage collects.
Candidate(applied) == Without(applied.row, {a \in DOMAIN applied.row : a[1] \notin Fams})

Staged(c, prev, applied, candidate) ==
    /\ c.row = gc(candidate, clock)
    /\ c.user = prev.user \o applied.changes
    /\ c.gc = prev.gc \o gcChanges(candidate, clock)

(* What stage makes of a commit, field by field. *)
LEMMA StageFields ==
    ASSUME NEW prev, NEW applied, NEW c, c = stage(prev, applied), NEW candidate, candidate = Candidate(applied)
    PROVE  Staged(c, prev, applied, candidate)
<1> DEFINE u == prev.user \o applied.changes
           g == prev.gc \o gcChanges(candidate, clock)
<1>1. c = [row |-> gc(candidate, clock), user |-> u, gc |-> g]
  BY DEF stage, Candidate
<1> HIDE DEF u, g
<1>2. c.row = gc(candidate, clock) /\ c.user = u /\ c.gc = g
  BY <1>1
<1> QED
  BY <1>2 DEF u, g, Staged

(* The candidate is the applied row as far as the table's families go. *)
LEMMA CandidateGood ==
    ASSUME NEW applied, GoodRow(applied.row)
    PROVE  /\ GoodRow(Candidate(applied))
           /\ \A m, fam : FamEq(m, applied.row, fam) /\ fam \in Fams => FamEq(m, Candidate(applied), fam)
<1> DEFINE r == applied.row
           Y == {a \in DOMAIN r : a[1] \notin Fams}
<1>1. Candidate(applied) = Without(r, Y)
  BY DEF Candidate
<1>2. ASSUME NEW m, NEW fam, FamEq(m, r, fam), fam \in Fams PROVE FamEq(m, Without(r, Y), fam)
  BY <1>2 DEF FamEq, Without
<1> HIDE DEF r, Y
<1>3. GoodRow(Without(r, Y))
  BY WithoutGood, ZenonT(30) DEF r
<1> QED
  BY <1>1, <1>2, <1>3 DEF r

(* What stage adds to a good commit. *)
LEMMA StageParts ==
    ASSUME NEW applied, GoodRow(applied.row), NEW candidate, candidate = Candidate(applied),
           NEW g, g = gcChanges(candidate, clock)
    PROVE  /\ GoodRow(gc(candidate, clock))
           /\ g \in Seq(Mutations)
           /\ \A i \in 1 .. Len(g) : g[i].op = "delCol" /\ g[i].fam \in Fams
           /\ \A m, fam : FamEq(m, applied.row, fam) /\ fam \in Fams /\ (~ micros \/ fam \notin FamiliesOf(g)) =>
                FamEq(Replay(m, g), gc(candidate, clock), fam)
           /\ \A m, fam : FamEq(m, applied.row, fam) /\ fam \in Fams /\ fam \notin FamiliesOf(g) =>
                FamEq(m, gc(candidate, clock), fam)
<1>1. /\ GoodRow(candidate)
      /\ \A m, fam : FamEq(m, applied.row, fam) /\ fam \in Fams => FamEq(m, candidate, fam)
  BY CandidateGood
<1>2. gc(candidate, clock) = Without(candidate, Collectable(candidate, clock))
  BY DEF gc
<1>3. Deletes(g, Collectable(candidate, clock))
  BY <1>1, GcChanges, ZenonT(30)
<1>4. Collectable(candidate, clock) \subseteq DOMAIN candidate /\ DOMAIN candidate \subseteq Addresses
  BY <1>1 DEF Collectable, GoodRow
<1>5. GoodRow(gc(candidate, clock))
  BY <1>1, <1>2, WithoutGood
<1>6. g \in Seq(Mutations)
  BY <1>3 DEF Deletes
<1>7. ASSUME NEW i \in 1 .. Len(g) PROVE g[i].op = "delCol" /\ g[i].fam \in Fams
  <2>1. PICK a \in Addresses : g[i] = Deletion(a)
    BY <1>3, <1>4 DEF Deletes
  <2>2. a[1] \in Fams
    BY DEF Addresses
  <2> QED
    BY <2>1, <2>2, DeletionFields
<1>8. ASSUME NEW m, NEW fam, FamEq(m, applied.row, fam), fam \in Fams, ~ micros \/ fam \notin FamiliesOf(g)
      PROVE  FamEq(Replay(m, g), gc(candidate, clock), fam)
  BY <1>1, <1>8, GcTracks, ZenonT(30)
<1>9. ASSUME NEW m, NEW fam, FamEq(m, applied.row, fam), fam \in Fams, fam \notin FamiliesOf(g)
      PROVE  FamEq(m, gc(candidate, clock), fam)
  <2>1. FamEq(m, candidate, fam)
    BY <1>1, <1>9
  <2>2. \A a \in Collectable(candidate, clock) : a[1] # fam
    <3> SUFFICES ASSUME NEW a \in Collectable(candidate, clock) PROVE a[1] # fam
      OBVIOUS
    <3>1. PICK i \in 1 .. Len(g) : g[i] = Deletion(a)
      BY <1>3 DEF Deletes
    <3>2. g[i].fam = a[1] /\ i \in DOMAIN g
      BY <1>4, <1>6, <3>1, DeletionFields
    <3> QED
      BY <1>9, <3>2 DEF FamiliesOf
  <2> QED
    BY <1>2, <2>1, <2>2 DEF FamEq, Without
<1> QED
  BY <1>5, <1>6, <1>7, <1>8, <1>9

(* Staging further changes keeps a commit good. *)
LEMMA StageGood ==
    ASSUME NEW prev, CommitGood(prev), NEW applied, Tracks(prev.row, applied.row, applied.changes)
    PROVE  CommitGood(stage(prev, applied))
<1>1. PICK c : c = stage(prev, applied)
  OBVIOUS
<1>2. PICK candidate : candidate = Candidate(applied)
  OBVIOUS
<1>3. PICK g : g = gcChanges(candidate, clock)
  OBVIOUS
<1>4. c.row = gc(candidate, clock) /\ c.user = prev.user \o applied.changes /\ c.gc = prev.gc \o g
  <2>1. Staged(c, prev, applied, candidate)
    BY <1>1, <1>2, StageFields
  <2> QED
    BY <1>3, <2>1, Zenon DEF Staged
<1>5. /\ prev.user \in Seq(Mutations) /\ prev.gc \in Seq(Mutations)
      /\ \A i \in 1 .. Len(prev.gc) : prev.gc[i].op = "delCol" /\ prev.gc[i].fam \in Fams
  BY DEF CommitGood
<1>6. GoodRow(applied.row) /\ applied.changes \in Seq(Mutations)
  BY DEF Tracks
<1>7. /\ GoodRow(gc(candidate, clock))
      /\ g \in Seq(Mutations)
      /\ \A i \in 1 .. Len(g) : g[i].op = "delCol" /\ g[i].fam \in Fams
      /\ \A m, fam : FamEq(m, applied.row, fam) /\ fam \in Fams /\ fam \notin FamiliesOf(g) =>
           FamEq(m, gc(candidate, clock), fam)
  BY <1>2, <1>3, <1>6, StageParts, ZenonT(30)
<1>8. c.user \in Seq(Mutations) /\ c.gc \in Seq(Mutations)
  BY <1>4, <1>5, <1>6, <1>7
<1>9. ASSUME NEW i \in 1 .. Len(c.gc) PROVE c.gc[i].op = "delCol" /\ c.gc[i].fam \in Fams
  <2>1. PICK e : e = prev.gc
    OBVIOUS
  <2>2. c.gc[i] = IF i =< Len(e) THEN e[i] ELSE g[i - Len(e)]
    BY <1>4, <1>5, <1>7, <2>1
  <2>3. Len(e) \in Nat /\ Len(g) \in Nat /\ Len(c.gc) = Len(e) + Len(g)
    BY <1>4, <1>5, <1>7, <2>1
  <2>4. CASE i =< Len(e)
    <3>1. i \in 1 .. Len(e) /\ c.gc[i] = e[i]
      BY <2>2, <2>3, <2>4
    <3> QED
      BY <1>5, <2>1, <3>1
  <2>5. CASE ~ (i =< Len(e))
    <3>1. i - Len(e) \in 1 .. Len(g) /\ c.gc[i] = g[i - Len(e)]
      BY <2>2, <2>3, <2>5
    <3> QED
      BY <1>7, <3>1, ZenonT(30)
  <2> QED
    BY <2>4, <2>5
<1>10. FamiliesOf(c.gc) = FamiliesOf(prev.gc) \cup FamiliesOf(g)
  BY <1>4, <1>5, <1>7, FamiliesConcat, ZenonT(30)
<1>11. ASSUME NEW m, NEW fam, FamEq(m, row, fam), fam \in Fams, fam \notin FamiliesOf(c.gc)
       PROVE  FamEq(Replay(m, c.user), c.row, fam)
  <2>1. FamEq(Replay(m, prev.user), prev.row, fam)
    BY <1>10, <1>11, ZenonT(30) DEF CommitGood
  <2>2. FamEq(Replay(Replay(m, prev.user), applied.changes), applied.row, fam)
    BY <1>11, <2>1, ZenonT(30) DEF Tracks
  <2>3. Replay(m, c.user) = Replay(Replay(m, prev.user), applied.changes)
    BY <1>4, <1>5, <1>6, ReplayConcat
  <2> QED
    BY <1>4, <1>7, <1>10, <1>11, <2>2, <2>3, ZenonT(30)
<1> QED
  BY <1>1, <1>4, <1>7, <1>8, <1>9, <1>11, ZenonT(30) DEF CommitGood

(* A commit staged once, at millisecond granularity, is exact. *)
LEMMA StageExact ==
    ASSUME GoodRow(row), ~ micros, NEW applied, Tracks(row, applied.row, applied.changes)
    PROVE  Exact(stage(Unstaged(row), applied))
<1>1. PICK c : c = stage(Unstaged(row), applied)
  OBVIOUS
<1>2. PICK candidate : candidate = Candidate(applied)
  OBVIOUS
<1>3. PICK g : g = gcChanges(candidate, clock)
  OBVIOUS
<1>4. PICK u : u = applied.changes
  OBVIOUS
<1>5. GoodRow(applied.row) /\ u \in Seq(Mutations)
  BY <1>4, ZenonT(30) DEF Tracks
<1>6. /\ g \in Seq(Mutations)
      /\ \A m, fam : FamEq(m, applied.row, fam) /\ fam \in Fams => FamEq(Replay(m, g), gc(candidate, clock), fam)
  BY <1>2, <1>3, <1>5, StageParts
<1>7. c.row = gc(candidate, clock) /\ c.user = u /\ c.gc = g
  <2>1. Staged(c, Unstaged(row), applied, candidate)
    BY <1>1, <1>2, StageFields
  <2>2. Unstaged(row).user = << >> /\ Unstaged(row).gc = << >>
    BY DEF Unstaged
  <2>3. c.row = gc(candidate, clock) /\ c.user = << >> \o u /\ c.gc = << >> \o g
    BY <1>3, <1>4, <2>1, <2>2, Zenon DEF Staged
  <2>4. << >> \o u = u /\ << >> \o g = g
    BY <1>5, <1>6
  <2> QED
    BY <2>3, <2>4, Zenon
<1>8. ASSUME NEW m, NEW fam, FamEq(m, row, fam), fam \in Fams
      PROVE  FamEq(Replay(Replay(m, c.user), c.gc), c.row, fam)
  <2>1. FamEq(Replay(m, u), applied.row, fam)
    BY <1>4, <1>8, ZenonT(30) DEF Tracks
  <2> QED
    BY <1>6, <1>7, <1>8, <2>1
<1> QED
  BY <1>1, <1>8 DEF Exact

(* Deletions in other families leave a family alone. *)
LEMMA OtherFamilies ==
    ASSUME NEW m, NEW r, NEW fam, FamEq(m, r, fam), NEW cs \in Seq(Mutations),
           \A i \in 1 .. Len(cs) : cs[i].op = "delCol", fam \notin FamiliesOf(cs)
    PROVE  FamEq(Replay(m, cs), r, fam)
<1>1. Len(cs) \in Nat /\ DOMAIN cs = 1 .. Len(cs) /\ \A i \in 1 .. Len(cs) : cs[i].op \in {"delCol", "delFam"}
  OBVIOUS
<1>2. /\ DOMAIN Replay(m, cs) = Unhit(m, cs)
      /\ \A a \in DOMAIN Replay(m, cs) : Replay(m, cs)[a] = m[a]
  BY <1>1, ReplayDeletes
<1>3. \A i \in 1 .. Len(cs) : cs[i].fam # fam
  BY <1>1 DEF FamiliesOf
<1>4. \A a \in DOMAIN m : a[1] = fam => a \in Unhit(m, cs)
  BY <1>3 DEF Unhit, Hits
<1>5. Unhit(m, cs) \subseteq DOMAIN m
  BY DEF Unhit
<1> QED
  BY <1>2, <1>4, <1>5 DEF FamEq

\* What holds of the row and its mirror, beside the types.
RowInv == GoodRow(row) /\ inexact \subseteq Fams /\ MirrorMatchesStore

(* MirrorMatchesStore, family by family. *)
LEMMA MirrorFamEq ==
    MirrorMatchesStore <=> \A fam \in Fams : fam \notin inexact => FamEq(mirror, row, fam)
BY DEF MirrorMatchesStore, FamEq

(* The same after a step. *)
LEMMA FamEqPrime ==
    (\A fam \in Fams : fam \notin inexact' => FamEq(mirror', row', fam)) => MirrorMatchesStore'
BY DEF MirrorMatchesStore, FamEq

(* A row that is good after a step that keeps the granularity. *)
LEMMA GoodRowPrime ==
    ASSUME micros' = micros, GoodRow(row')
    PROVE  GoodRow(row)'
BY DEF GoodRow, valid

(* Committing keeps the row good and the mirror faithful. *)
LEMMA PersistKeeps ==
    ASSUME RowInv, micros' = micros, NEW commit, CommitGood(commit),
           row' = commit.row,
           mirror' = Replay(Replay(mirror, commit.user), commit.gc),
           NEW marked, marked = FamiliesOf(commit.gc) \/ (marked = {} /\ Exact(commit)),
           inexact' = inexact \cup marked
    PROVE  RowInv'
<1> DEFINE fams == FamiliesOf(commit.gc)
<1>1. /\ row' = commit.row
      /\ mirror' = Replay(Replay(mirror, commit.user), commit.gc)
      /\ inexact' = inexact \cup marked
      /\ marked = fams \/ (marked = {} /\ Exact(commit))
  OBVIOUS
<1>2. /\ GoodRow(commit.row) /\ commit.gc \in Seq(Mutations)
      /\ \A i \in 1 .. Len(commit.gc) : commit.gc[i].op = "delCol" /\ commit.gc[i].fam \in Fams
      /\ \A m, fam : FamEq(m, row, fam) /\ fam \in Fams /\ fam \notin fams =>
           FamEq(Replay(m, commit.user), commit.row, fam)
  BY DEF CommitGood
<1>3. fams \subseteq Fams
  BY <1>2 DEF FamiliesOf
<1> HIDE DEF fams
<1>4. inexact' \subseteq Fams
  BY <1>1, <1>3, ZenonT(30) DEF RowInv
<1>5. GoodRow(row)'
  BY <1>1, <1>2, GoodRowPrime
<1>6. ASSUME NEW fam \in Fams, fam \notin inexact' PROVE FamEq(mirror', row', fam)
  <2>1. FamEq(mirror, row, fam)
    BY <1>1, <1>6, MirrorFamEq, ZenonT(30) DEF RowInv
  <2>2. CASE fam \notin fams
    <3>1. FamEq(Replay(mirror, commit.user), commit.row, fam)
      BY <1>2, <2>1, <2>2, ZenonT(30)
    <3> QED
      BY <1>1, <1>2, <2>2, <3>1, OtherFamilies, ZenonT(30) DEF fams
  <2>3. CASE fam \in fams
    <3>1. Exact(commit)
      BY <1>1, <1>6, <2>3
    <3> QED
      BY <1>1, <2>1, <3>1 DEF Exact
  <2> QED
    BY <2>2, <2>3
<1> QED
  BY <1>4, <1>5, <1>6, FamEqPrime, ZenonT(30) DEF RowInv

-----------------------------------------------------------------------------
(* ReadModifyWriteRow.                                                       *)

(* A finite set of numbers has a largest one. *)
LEMMA MaxOfFinite ==
    ASSUME NEW S \in SUBSET Nat, IsFiniteSet(S), S # {}
    PROVE  Max(S) \in S /\ \A y \in S : Max(S) >= y
<1> DEFINE HasMax(T) == \E x \in T : \A y \in T : x >= y
           P == {n \in Nat : \A T \in SUBSET Nat : IsFiniteSet(T) /\ Cardinality(T) = n /\ T # {} => HasMax(T)}
<1>1. 0 \in P
  BY FS_EmptySet
<1>2. ASSUME NEW n \in Nat, n \in P PROVE n + 1 \in P
  <2> SUFFICES ASSUME NEW T \in SUBSET Nat, IsFiniteSet(T), Cardinality(T) = n + 1, T # {} PROVE HasMax(T)
    OBVIOUS
  <2>1. PICK x : x \in T
    BY Zenon
  <2> DEFINE U == T \ {x}
  <2>2. IsFiniteSet(U) /\ Cardinality(U) = n /\ U \in SUBSET Nat
    <3>1. /\ IsFiniteSet(U)
          /\ Cardinality(U) = IF x \in T THEN Cardinality(T) - 1 ELSE Cardinality(T)
      BY FS_RemoveElement, Zenon
    <3> HIDE DEF U
    <3>2. Cardinality(U) = n
      BY <2>1, <3>1
    <3> QED
      BY <3>1, <3>2, Zenon DEF U
  <2>3. CASE U = {}
    <3>1. T = {x}
      BY <2>1, <2>3, Zenon
    <3> QED
      BY <3>1
  <2>4. CASE U # {}
    <3>1. HasMax(U)
      <4> HIDE DEF HasMax, U
      <4> QED
        BY <1>2, <2>2, <2>4
    <3>2. PICK z \in U : \A y \in U : z >= y
      BY <3>1
    <3>3. x \in Nat /\ z \in Nat /\ z \in T /\ \A y \in T : y = x \/ y \in U
      BY <2>1, <3>2
    <3>4. CASE x >= z
      <4>1. \A y \in T : x >= y
        BY <3>2, <3>3, <3>4
      <4> QED
        BY <2>1, <4>1
    <3>5. CASE ~ (x >= z)
      <4>1. \A y \in T : z >= y
        BY <3>2, <3>3, <3>5
      <4> QED
        BY <3>3, <4>1
    <3> QED
      BY <3>4, <3>5
  <2> QED
    BY <2>3, <2>4
<1>3. Nat \subseteq P
  <2> HIDE DEF P
  <2> QED
    BY <1>1, <1>2, NatSetInduction
<1>4. Cardinality(S) \in Nat
  BY FS_CardinalityType
<1>5. HasMax(S)
  <2> HIDE DEF HasMax
  <2> QED
    BY <1>3, <1>4
<1> QED
  BY <1>5, Zenon DEF Max

(* The timestamps of a column. *)
LEMMA StampsFacts ==
    ASSUME NEW r, GoodRow(r), NEW fam, NEW col, NEW T, T = Stamps(r, fam, col)
    PROVE  /\ T \in SUBSET Nat /\ IsFiniteSet(T)
           /\ \A t \in T : <<fam, col, t>> \in DOMAIN r /\ valid(t)
           /\ \A t : <<fam, col, t>> \in DOMAIN r => t \in T
<1> DEFINE D == {b \in DOMAIN r : b[1] = fam /\ b[2] = col}
           f == [a \in D |-> a[3]]
<1>1. T = {a[3] : a \in D}
  BY DEF Stamps
<1>2. \A a \in D : a \in Addresses /\ a = <<fam, col, a[3]>> /\ a[3] \in Nat /\ valid(a[3])
  BY DEF GoodRow, Addresses
<1>3. \A t : <<fam, col, t>> \in DOMAIN r => <<fam, col, t>> \in D
  OBVIOUS
<1>4. IsFiniteSet(D)
  <2>1. D \in SUBSET DOMAIN r
    OBVIOUS
  <2> HIDE DEF D
  <2> QED
    BY <2>1, FS_Subset DEF GoodRow
<1>5. f \in Surjection(D, T)
  <2> HIDE DEF D
  <2> QED
    BY <1>1 DEF Surjection
<1>6. IsFiniteSet(T)
  <2> HIDE DEF D, f
  <2> QED
    BY <1>4, <1>5, FS_Surjection
<1>7. \A t : <<fam, col, t>> \in D => t \in T
  <2> SUFFICES ASSUME NEW t, <<fam, col, t>> \in D PROVE t \in T
    OBVIOUS
  <2>1. <<fam, col, t>>[3] = t
    OBVIOUS
  <2> HIDE DEF D
  <2> QED
    BY <1>1, <2>1
<1> HIDE DEF f
<1>8. ASSUME NEW t \in T PROVE <<fam, col, t>> \in DOMAIN r /\ valid(t) /\ t \in Nat
  <2>1. PICK a \in D : t = a[3]
    BY <1>1
  <2> QED
    BY <1>2, <2>1
<1> HIDE DEF D
<1>9. T \in SUBSET Nat
  <2>1. \A t \in T : t \in Nat
    BY <1>8, Zenon
  <2> QED
    BY <2>1, Zenon
<1>10. \A t : <<fam, col, t>> \in DOMAIN r => t \in T
  BY <1>3, <1>7, Zenon
<1> QED
  BY <1>6, <1>8, <1>9, <1>10, Zenon

(* Time zero has the granularity of every table. *)
LEMMA ZeroStamp == Stamp(0)
<1>1. Milli \in Nat \ {0} /\ 0 \in 0 .. Milli - 1 /\ 0 * Milli + 0 = 0 /\ 0 \in Int
  BY RowAssumption
<1>2. (0 * Milli + 0) % Milli = 0
  BY <1>1, ModMultiple
<1> QED
  BY <1>1, <1>2 DEF Stamp, valid

ModifyStart == [row |-> row, visible |-> gc(row, clock), ok |-> TRUE, changes |-> << >>]

\* The states modifyAll goes through.
Modify(rs) ==
    LET done[i \in 0 .. Len(rs)] ==
          IF i = 0 THEN [row |-> row, visible |-> gc(row, clock), ok |-> TRUE, changes |-> << >>]
          ELSE modify(done[i - 1], rs[i])
    IN done

ModifyFits(f, rs, n) == f = [i \in 0 .. n |-> IF i = 0 THEN ModifyStart ELSE modify(f[i - 1], rs[i])]

(* The recursive function of modifyAll exists. *)
LEMMA ModifyExists ==
    ASSUME NEW rs, NEW k \in Nat
    PROVE  \E f : ModifyFits(f, rs, k)
<1> DEFINE S == {n \in Nat : \E f : ModifyFits(f, rs, n)}
<1>1. 0 \in S
  <2>1. ModifyFits([i \in 0 .. 0 |-> ModifyStart], rs, 0)
    BY DEF ModifyFits
  <2> QED
    BY <2>1
<1>2. ASSUME NEW n \in Nat, n \in S PROVE n + 1 \in S
  <2>1. PICK f : ModifyFits(f, rs, n)
    BY <1>2
  <2> DEFINE g == [i \in 0 .. n + 1 |-> IF i = n + 1 THEN modify(f[n], rs[n + 1]) ELSE f[i]]
  <2>2. \A i \in 0 .. n : g[i] = f[i]
    OBVIOUS
  <2>3. ASSUME NEW i \in 0 .. n + 1
        PROVE  g[i] = IF i = 0 THEN ModifyStart ELSE modify(g[i - 1], rs[i])
    <3>1. CASE i = n + 1
      BY <2>2, <3>1
    <3>2. CASE i \in 0 .. n
      BY <2>1, <2>2, <3>2 DEF ModifyFits
    <3> QED
      BY <3>1, <3>2
  <2>4. ModifyFits(g, rs, n + 1)
    BY <2>3 DEF ModifyFits
  <2> HIDE DEF g
  <2> QED
    BY <2>4
<1>3. Nat \subseteq S
  <2> HIDE DEF S
  <2> QED
    BY <1>1, <1>2, NatSetInduction
<1> QED
  BY <1>3

(* modifyAll goes through the states one rule at a time. *)
LEMMA ModifyDef ==
    ASSUME NEW rs, Len(rs) \in Nat, NEW A, A = Modify(rs)
    PROVE  /\ A[0] = ModifyStart
           /\ \A i \in 1 .. Len(rs) : A[i] = modify(A[i - 1], rs[i])
           /\ modifyAll(rs) = A[Len(rs)]
<1> DEFINE k == Len(rs)
<1>1. \E g : ModifyFits(g, rs, k)
  BY ModifyExists
<1>2. A = CHOOSE g : ModifyFits(g, rs, k)
  BY DEF Modify, ModifyStart, ModifyFits
<1>3. ModifyFits(A, rs, k)
  <2> HIDE DEF k
  <2> QED
    BY <1>1, <1>2, Zenon
<1>4. modifyAll(rs) = Modify(rs)[k]
  BY DEF modifyAll, Modify
<1>5. A[0] = ModifyStart /\ \A i \in 1 .. k : A[i] = modify(A[i - 1], rs[i])
  BY <1>3 DEF ModifyFits
<1> QED
  BY <1>4, <1>5

\* A rule of a family of plain values.
PlainRule(rule) ==
    /\ rule.op \in {"append", "increment"} /\ rule.col \in Cols /\ rule.n \in Int
    /\ rule.fam \in Fams /\ Kinds[rule.fam] = "none"

(* The rules that ReadModifyWriteRow accepts are about plain families. *)
LEMMA RulesPlain ==
    ASSUME NEW rs \in RuleLists, validateRules(rs)
    PROVE  /\ Len(rs) \in Nat \ {0} /\ DOMAIN rs = 1 .. Len(rs)
           /\ \A i \in 1 .. Len(rs) : PlainRule(rs[i])
<1>1. rs \in Seq(ModifyRules)
  BY RowAssumption
<1>2. Len(rs) \in Nat /\ DOMAIN rs = 1 .. Len(rs) /\ rs # << >>
  BY <1>1 DEF validateRules
<1>3. Len(rs) # 0
  BY <1>1, <1>2
<1>4. ASSUME NEW i \in 1 .. Len(rs) PROVE PlainRule(rs[i])
  <2>1. rs[i] \in ModifyRules
    BY <1>1, <1>2
  <2>2. rs[i].fam \in Fams /\ Kinds[rs[i].fam] = "none"
    BY <1>2 DEF validateRules
  <2> QED
    BY <2>1, <2>2 DEF PlainRule, ModifyRules
<1> QED
  BY <1>2, <1>3, <1>4

\* What a rule reads, and the timestamp and value of the cell it writes.
Previous(st, rule) ==
    LET T == Stamps(st.visible, rule.fam, rule.col)
    IN IF T = {} THEN <<"int", 0>> ELSE st.visible[<<rule.fam, rule.col, Max(T)>>]

WrittenTs(st, rule) == Max(Stamps(st.visible, rule.fam, rule.col) \cup {newTimestamp})

WrittenVal(st, rule) ==
    CASE rule.op = "append" -> <<"text", 0>>
      [] rule.op # "append" /\ Previous(st, rule)[1] = "int" -> <<"int", Wrap(Previous(st, rule)[2] + rule.n)>>
      [] OTHER -> <<"error", 0>>

Writes(m, st, rule) ==
    /\ m.op = "set" /\ m.fam = rule.fam /\ m.col = rule.col /\ m.auto = FALSE
    /\ m.ts = WrittenTs(st, rule) /\ m.val = WrittenVal(st, rule)
    /\ m = [op |-> "set", fam |-> rule.fam, col |-> rule.col, auto |-> FALSE, ts |-> m.ts, val |-> m.val]

(* The cell a rule writes. *)
LEMMA ModifiedFields ==
    ASSUME NEW st, NEW rule, NEW m, m = modified(st, rule)
    PROVE  Writes(m, st, rule)
<1> DEFINE ts == WrittenTs(st, rule)
           v == WrittenVal(st, rule)
<1>1. m = [op |-> "set", fam |-> rule.fam, col |-> rule.col, auto |-> FALSE, ts |-> ts, val |-> v]
  BY DEF modified, WrittenTs, WrittenVal, Previous
<1> HIDE DEF ts, v
<1>2. /\ m.op = "set" /\ m.fam = rule.fam /\ m.col = rule.col /\ m.auto = FALSE
      /\ m.ts = ts /\ m.val = v
  BY <1>1
<1>3. m = [op |-> "set", fam |-> rule.fam, col |-> rule.col, auto |-> FALSE, ts |-> m.ts, val |-> m.val]
  BY <1>1, <1>2, Zenon
<1> QED
  BY <1>2, <1>3, Zenon DEF ts, v, Writes

\* The state next comes of st by writing the cell m.
Adds(next, st, m) ==
    /\ next.row = applyMutation(st.row, m, 0)
    /\ next.visible = applyMutation(st.visible, m, 0)
    /\ next.ok = (st.ok /\ m.val[1] # "error")
    /\ next.changes = Append(st.changes, m)

(* What modify does to the state. *)
LEMMA ModifyFields ==
    ASSUME NEW st, NEW rule, NEW m, m = modified(st, rule), NEW next, next = modify(st, rule)
    PROVE  Adds(next, st, m)
<1> DEFINE c == Append(st.changes, m)
           ok == st.ok /\ m.val[1] # "error"
<1>1. next = [row |-> applyMutation(st.row, m, 0), visible |-> applyMutation(st.visible, m, 0),
              ok |-> ok, changes |-> c]
  BY ZenonT(30) DEF modify
<1> HIDE DEF c, ok
<1>2. /\ next.row = applyMutation(st.row, m, 0) /\ next.visible = applyMutation(st.visible, m, 0)
      /\ next.ok = ok /\ next.changes = c
  BY <1>1
<1> QED
  BY <1>2, ZenonT(30) DEF c, ok, Adds

NewestCell(m, st, rule) ==
    /\ m \in Mutations /\ validateMutation(m)
    /\ Stamp(m.ts) /\ m.ts >= newTimestamp
    /\ \A t \in Stamps(st.visible, rule.fam, rule.col) : m.ts >= t
    /\ \A r : applyMutation(r, m, 0) = With(r, <<rule.fam, rule.col, m.ts>>, m.val)
    /\ \A r : changesOf(r, m, 0) = <<m>>

(* A rule that does not fail writes a valid cell, not older than the server's *)
(* time or than the cells it reads.                                          *)
LEMMA ModifiedGood ==
    ASSUME clock \in Nat, NEW st, GoodRow(st.visible), NEW rule, PlainRule(rule),
           NEW m, m = modified(st, rule), m.val[1] # "error"
    PROVE  NewestCell(m, st, rule)
<1>1. PICK T : T = Stamps(st.visible, rule.fam, rule.col)
  OBVIOUS
<1> DEFINE prev == Previous(st, rule)
<1>2. /\ m.op = "set" /\ m.fam = rule.fam /\ m.col = rule.col /\ m.auto = FALSE
      /\ m.ts = WrittenTs(st, rule) /\ m.val = WrittenVal(st, rule)
      /\ m = [op |-> "set", fam |-> rule.fam, col |-> rule.col, auto |-> FALSE, ts |-> m.ts, val |-> m.val]
  <2>1. Writes(m, st, rule)
    BY ModifiedFields, ZenonT(30)
  <2> QED
    BY <2>1, Zenon DEF Writes
<1>3. /\ T \in SUBSET Nat /\ IsFiniteSet(T)
      /\ \A t \in T : <<rule.fam, rule.col, t>> \in DOMAIN st.visible /\ valid(t)
  BY <1>1, StampsFacts
<1>4. /\ rule.op \in {"append", "increment"} /\ rule.col \in Cols /\ rule.n \in Int
      /\ rule.fam \in Fams /\ Kinds[rule.fam] = "none"
  BY DEF PlainRule
<1>5. Stamp(newTimestamp)
  BY ServerStamp
<1>6. Stamp(m.ts) /\ m.ts >= newTimestamp /\ \A t \in T : m.ts >= t
  <2> DEFINE U == T \cup {newTimestamp}
  <2>1. newTimestamp \in Nat /\ valid(newTimestamp)
    BY <1>5 DEF Stamp
  <2>2. IsFiniteSet(U)
    BY <1>3, FS_AddElement
  <2>3. U \in SUBSET Nat /\ U # {} /\ T \subseteq U /\ newTimestamp \in U
    BY <1>3, <2>1, ZenonT(30)
  <2>4. \A t \in U : t \in Nat /\ valid(t)
    BY <1>3, <2>1, ZenonT(30)
  <2> HIDE DEF U
  <2>5. Max(U) \in U /\ \A y \in U : Max(U) >= y
    BY <2>2, <2>3, MaxOfFinite
  <2>6. m.ts = Max(U)
    BY <1>1, <1>2 DEF U, WrittenTs
  <2> QED
    BY <2>3, <2>4, <2>5, <2>6, ZenonT(30) DEF Stamp
<1>7. prev \in PlainValues
  <2>1. CASE T = {}
    BY <1>1, <2>1 DEF PlainValues, Previous
  <2>2. CASE T # {}
    <3>1. Max(T) \in T
      BY <1>3, <2>2, MaxOfFinite
    <3> DEFINE at == <<rule.fam, rule.col, Max(T)>>
    <3>2. at \in DOMAIN st.visible /\ at[1] = rule.fam
      BY <1>3, <3>1, ZenonT(30)
    <3> HIDE DEF at
    <3>3. st.visible[at] \in KindValues(Kinds[rule.fam])
      BY <3>2 DEF GoodRow
    <3> QED
      BY <1>1, <1>4, <2>2, <3>3, ZenonT(30) DEF KindValues, Previous, at
  <2> QED
    BY <2>1, <2>2, ZenonT(30)
<1> HIDE DEF prev
<1>8. m.val \in PlainValues
  <2>1. CASE rule.op = "append"
    <3>1. m.val = <<"text", 0>>
      BY <1>2, <2>1, ZenonT(30) DEF WrittenVal
    <3> QED
      BY <3>1 DEF PlainValues
  <2>2. CASE rule.op # "append" /\ prev[1] = "int"
    <3>1. prev[2] \in Int
      BY <1>7, <2>2 DEF PlainValues
    <3>2. prev[2] + rule.n \in Int
      BY <1>4, <3>1
    <3>3. Wrap(prev[2] + rule.n) \in Int
      BY <3>2, WrapSum
    <3>4. m.val = <<"int", Wrap(prev[2] + rule.n)>>
      BY <1>2, <2>2 DEF WrittenVal, prev
    <3> QED
      BY <3>3, <3>4 DEF PlainValues
  <2>3. CASE rule.op # "append" /\ prev[1] # "int"
    <3>1. m.val = <<"error", 0>>
      BY <1>2, <2>3 DEF WrittenVal, prev
    <3> QED
      BY <3>1
  <2> QED
    BY <2>1, <2>2, <2>3
<1>9. m.ts \in Nat /\ m.ts \in Int /\ valid(m.ts)
  BY <1>6 DEF Stamp
<1>10. m \in [op : {"set"}, fam : STRING, col : Cols, ts : Int, auto : BOOLEAN, val : PlainValues]
  <2>1. rule.fam \in STRING
    BY <1>4, RowAssumption DEF Fams
  <2>2. \A fam \in STRING, col \in Cols, ts \in Int, val \in PlainValues :
          [op |-> "set", fam |-> fam, col |-> col, auto |-> FALSE, ts |-> ts, val |-> val]
            \in [op : {"set"}, fam : STRING, col : Cols, ts : Int, auto : BOOLEAN, val : PlainValues]
    OBVIOUS
  <2> QED
    BY <1>2, <1>4, <1>8, <1>9, <2>1, <2>2, ZenonT(30)
<1>16. m \in Mutations
  BY <1>10, ZenonT(30) DEF Mutations
<1>11. resolve(m.ts, m.auto, 0) = m.ts
  BY <1>2, <1>9 DEF resolve
<1>12. validateMutation(m)
  BY <1>2, <1>4, <1>9, <1>11 DEF validateMutation
<1>13. \A r : applyMutation(r, m, 0) = With(r, <<rule.fam, rule.col, m.ts>>, m.val)
  BY <1>2, <1>11 DEF applyMutation
<1>14. [m EXCEPT !.ts = m.ts, !.auto = FALSE] = m
  <2>1. m = [x \in {"op", "fam", "col", "auto", "ts", "val"} |-> m[x]]
    <3>1. \A fam, col, ts, val, d :
            d = [op |-> "set", fam |-> fam, col |-> col, auto |-> FALSE, ts |-> ts, val |-> val]
              => d = [x \in {"op", "fam", "col", "auto", "ts", "val"} |-> d[x]]
      OBVIOUS
    <3> QED
      BY <1>2, <3>1, ZenonT(30)
  <2>2. [m EXCEPT !.ts = m.ts] = m
    BY <2>1
  <2>3. [m EXCEPT !.auto = m.auto] = m
    BY <2>1
  <2> QED
    BY <1>2, <2>2, <2>3, ZenonT(30)
<1>15. ASSUME NEW r PROVE changesOf(r, m, 0) = <<m>>
  <2>1. changesOf(r, m, 0) = <<[m EXCEPT !.ts = resolve(m.ts, m.auto, 0), !.auto = FALSE]>>
    BY <1>2 DEF changesOf
  <2> QED
    BY <1>11, <1>14, <2>1, ZenonT(30)
<1> QED
  BY <1>1, <1>6, <1>12, <1>13, <1>15, <1>16, ZenonT(30) DEF NewestCell

(* Setting a plain cell keeps a row good. *)
LEMMA PlainSet ==
    ASSUME NEW r, GoodRow(r), NEW m \in Mutations, validateMutation(m)
    PROVE  GoodRow(applyMutation(r, m, 0))
BY ZeroStamp, ApplyGood

(* The states modifyAll goes through, as long as no rule has failed: the     *)
(* changes lead to the row, and what the rules see is a row.                 *)
LEMMA ModifyTracks ==
    ASSUME clock \in Nat, GoodRow(row), NEW rs \in RuleLists, validateRules(rs), NEW A, A = Modify(rs)
    PROVE  \A i \in 0 .. Len(rs) : A[i].ok => Tracks(row, A[i].row, A[i].changes) /\ GoodRow(A[i].visible)
<1>1. Len(rs) \in Nat /\ \A i \in 1 .. Len(rs) : PlainRule(rs[i])
  BY RulesPlain
<1>2. /\ A[0] = ModifyStart
      /\ \A i \in 1 .. Len(rs) : A[i] = modify(A[i - 1], rs[i])
  BY <1>1, ModifyDef
<1> DEFINE Fine(i) == A[i].ok => Tracks(row, A[i].row, A[i].changes) /\ GoodRow(A[i].visible)
           S == {i \in 0 .. Len(rs) : Fine(i)}
<1>3. 0 \in S
  <2>1. A[0].row = row /\ A[0].visible = gc(row, clock) /\ A[0].changes = << >>
    BY <1>2 DEF ModifyStart
  <2>2. GoodRow(gc(row, clock))
    BY WithoutGood DEF gc
  <2>3. Fine(0)
    BY <2>1, <2>2, TracksNothing
  <2> QED
    BY <1>1, <2>3
<1>4. ASSUME NEW i \in 0 .. Len(rs) - 1, i \in S PROVE i + 1 \in S
  <2>1. i + 1 \in 1 .. Len(rs) /\ i + 1 \in 0 .. Len(rs) /\ (i + 1) - 1 = i
    BY <1>1
  <2>2. PICK st : st = A[i]
    OBVIOUS
  <2>3. PICK rule : rule = rs[i + 1]
    OBVIOUS
  <2>4. PICK next : next = A[i + 1]
    OBVIOUS
  <2>5. PICK m : m = modified(st, rule)
    OBVIOUS
  <2>6. next = modify(st, rule) /\ PlainRule(rule)
    BY <1>1, <1>2, <2>1, <2>2, <2>3, <2>4
  <2>7. /\ next.row = applyMutation(st.row, m, 0)
        /\ next.visible = applyMutation(st.visible, m, 0)
        /\ next.ok = (st.ok /\ m.val[1] # "error")
        /\ next.changes = Append(st.changes, m)
    <3>1. Adds(next, st, m)
      BY <2>5, <2>6, ModifyFields, ZenonT(30)
    <3> QED
      BY <3>1, ZenonT(30) DEF Adds
  <2>8. ASSUME next.ok PROVE Tracks(row, next.row, next.changes) /\ GoodRow(next.visible)
    <3>1. st.ok /\ m.val[1] # "error"
      BY <2>7, <2>8, ZenonT(30)
    <3>2. Tracks(row, st.row, st.changes) /\ GoodRow(st.visible)
      BY <1>4, <2>2, <3>1
    <3>3. m \in Mutations /\ validateMutation(m) /\ \A r : changesOf(r, m, 0) = <<m>>
      <4>1. NewestCell(m, st, rule)
        BY <2>5, <2>6, <3>1, <3>2, ModifiedGood, ZenonT(30)
      <4> QED
        BY <4>1, ZenonT(30) DEF NewestCell
    <3>4. GoodRow(st.row) /\ st.changes \in Seq(Mutations)
      BY <3>2 DEF Tracks
    <3>5. Tracks(st.row, applyMutation(st.row, m, 0), <<m>>)
      <4>1. Tracks(st.row, applyMutation(st.row, m, 0), changesOf(st.row, m, 0))
        BY <3>3, <3>4, ZeroStamp, TracksOne
      <4> QED
        BY <3>3, <4>1
    <3>6. Append(st.changes, m) = st.changes \o <<m>>
      BY <3>3, <3>4
    <3>7. Tracks(row, next.row, st.changes \o <<m>>)
      BY <2>7, <3>2, <3>5, TracksMore, ZenonT(30)
    <3> QED
      BY <2>7, <3>2, <3>3, <3>6, <3>7, PlainSet
  <2>9. Fine(i + 1)
    BY <2>4, <2>8
  <2> QED
    BY <2>1, <2>9
<1>5. 0 .. Len(rs) \subseteq S
  <2>1. Len(rs) \in Nat
    BY <1>1
  <2> HIDE DEF S
  <2> QED
    BY <2>1, <1>3, <1>4, UpToInduction, ZenonT(30)
<1>6. \A i \in 0 .. Len(rs) : Fine(i)
  <2> HIDE DEF Fine
  <2> QED
    BY <1>5, ZenonT(30)
<1> QED
  BY <1>6

-----------------------------------------------------------------------------
(* The inductive invariant.                                                  *)

IInv ==
    /\ micros \in BOOLEAN /\ rules \in [Fams -> Rules] /\ clock \in 0 .. MaxTime
    /\ RowInv

\* What the write requests leave of the invariant to prove.
Frame == UNCHANGED <<micros, rules, clock>>

(* A request that stages once and commits. *)
LEMMA CommitOnce ==
    ASSUME IInv, NEW applied, Tracks(row, applied.row, applied.changes),
           NEW c, c = stage(Unstaged(row), applied),
           row' = c.row,
           mirror' = Replay(Replay(mirror, c.user), c.gc),
           inexact' = inexact \cup IF micros THEN FamiliesOf(c.gc) ELSE {},
           Frame
    PROVE  IInv'
<1>2. GoodRow(row) /\ micros \in BOOLEAN /\ RowInv /\ micros' = micros
  BY DEF IInv, RowInv, Frame
<1>3. CommitGood(c)
  <2>1. CommitGood(Unstaged(row)) /\ Unstaged(row).row = row
    BY <1>2, UnstagedGood DEF Unstaged
  <2> QED
    BY <2>1, StageGood, ZenonT(30)
<1>4. RowInv'
  <2>1. CASE micros
    <3>1. inexact' = inexact \cup FamiliesOf(c.gc)
      BY <2>1, ZenonT(30)
    <3> QED
      BY <1>2, <1>3, <3>1, PersistKeeps, ZenonT(30)
  <2>2. CASE ~ micros
    <3>1. PICK none : none = {}
      <4> DEFINE e == {}
      <4>1. e = {}
        BY ZenonT(30)
      <4> HIDE DEF e
      <4> QED
        BY <4>1
    <3>2. inexact' = inexact \cup none /\ none = {} /\ Exact(c)
      BY <1>2, <2>2, <3>1, StageExact
    <3> QED
      BY <1>2, <1>3, <3>2, PersistKeeps, ZenonT(30)
  <2> QED
    BY <2>1, <2>2, ZenonT(30)
<1> QED
  BY <1>4, ZenonT(30) DEF IInv, Frame

(* What applyMutations does to a good row, at the server's time. *)
LEMMA AppliedTracks ==
    ASSUME IInv, NEW r, GoodRow(r), NEW ms \in Seq(Mutations), validateMutations(ms),
           NEW applied, applied = applyMutations(r, ms, newTimestamp)
    PROVE  Tracks(r, applied.row, applied.changes)
<1>1. clock \in Nat
  BY RowAssumption DEF IInv
<1>2. Stamp(newTimestamp)
  BY <1>1, ServerStamp
<1>3. \A i \in DOMAIN ms : validateMutation(ms[i])
  BY DEF validateMutations
<1> QED
  BY <1>2, <1>3, TracksAll

(* MutateRow stages once and commits. *)
LEMMA MutateRowKeeps ==
    ASSUME IInv, NEW ms \in MutationLists, MutateRow(ms)
    PROVE  IInv'
<1>1. PICK applied : applied = applyMutations(row, ms, newTimestamp)
  OBVIOUS
<1>2. ms \in Seq(Mutations) /\ validateMutations(ms) /\ GoodRow(row)
  BY RowAssumption, ZenonT(30) DEF MutateRow, IInv, RowInv
<1>3. Tracks(row, applied.row, applied.changes)
  BY <1>1, <1>2, AppliedTracks
<1>4. PICK c : c = stage(Unstaged(row), applied)
  BY ZenonT(30)
<1>5. /\ row' = c.row /\ mirror' = Replay(Replay(mirror, c.user), c.gc)
      /\ inexact' = inexact \cup IF micros THEN FamiliesOf(c.gc) ELSE {}
      /\ Frame
  BY <1>1, <1>4 DEF MutateRow, persist, FamiliesOf, Frame
<1> QED
  BY <1>3, <1>4, <1>5, CommitOnce

\* What MutateRows makes of one entry.
Entry(commit, ms) ==
    IF validateMutations(ms)
    THEN stage(commit, applyMutations(commit.row, ms, newTimestamp))
    ELSE commit

(* An entry of a batch, applied or refused, keeps the commit good. *)
LEMMA EntryGood ==
    ASSUME IInv, NEW commit, CommitGood(commit), NEW ms \in Seq(Mutations)
    PROVE  CommitGood(Entry(commit, ms))
<1>1. CASE validateMutations(ms)
  <2>1. PICK applied : applied = applyMutations(commit.row, ms, newTimestamp)
    OBVIOUS
  <2>2. GoodRow(commit.row)
    BY DEF CommitGood
  <2>3. Tracks(commit.row, applied.row, applied.changes)
    BY <1>1, <2>1, <2>2, AppliedTracks
  <2>4. CommitGood(stage(commit, applied))
    BY <2>3, StageGood
  <2> QED
    BY <1>1, <2>1, <2>4 DEF Entry
<1>2. CASE ~ validateMutations(ms)
  BY <1>2, ZenonT(30) DEF Entry
<1> QED
  BY <1>1, <1>2

(* A batch in which both entries are valid stages the row twice. *)
LEMMA MutateRowsKeeps ==
    ASSUME IInv, NEW ms1 \in Seq(Mutations), NEW ms2 \in Seq(Mutations), MutateRows(ms1, ms2)
    PROVE  IInv'
<1>1. PICK u : u = Unstaged(row)
  OBVIOUS
<1>2. CommitGood(u) /\ u.row = row /\ GoodRow(row) /\ RowInv /\ micros \in BOOLEAN
  BY <1>1, UnstagedGood DEF Unstaged, IInv, RowInv
<1> DEFINE twice == validateMutations(ms1) /\ validateMutations(ms2)
<1>8. PICK c : c = Entry(Entry(u, ms1), ms2)
  OBVIOUS
<1>3. /\ validateMutations(ms1) \/ validateMutations(ms2)
      /\ row' = c.row /\ mirror' = Replay(Replay(mirror, c.user), c.gc)
      /\ inexact' = inexact \cup IF micros \/ twice THEN FamiliesOf(c.gc) ELSE {}
      /\ Frame
  BY <1>1, <1>8, ZenonT(30) DEF MutateRows, Entry, persist, FamiliesOf, Frame
<1>4. CASE twice
  <2>1. CommitGood(c)
    BY <1>2, <1>8, EntryGood
  <2>2. inexact' = inexact \cup FamiliesOf(c.gc)
    BY <1>3, <1>4
  <2>3. micros' = micros
    BY <1>3, ZenonT(30) DEF Frame
  <2>4. RowInv'
    BY <1>2, <1>3, <2>1, <2>2, <2>3, PersistKeeps, ZenonT(30)
  <2> QED
    BY <1>3, <2>4 DEF IInv, Frame
<1>5. ASSUME NEW ms \in Seq(Mutations), validateMutations(ms), c = Entry(u, ms), ~ twice
      PROVE  IInv'
  <2>1. PICK applied : applied = applyMutations(row, ms, newTimestamp)
    OBVIOUS
  <2>2. c = stage(Unstaged(row), applied)
    BY <1>1, <1>2, <1>5, <2>1 DEF Entry
  <2>3. Tracks(row, applied.row, applied.changes)
    BY <1>2, <1>5, <2>1, AppliedTracks, ZenonT(30)
  <2>4. inexact' = inexact \cup IF micros THEN FamiliesOf(c.gc) ELSE {}
    BY <1>3, <1>5
  <2> QED
    BY <1>3, <2>2, <2>3, <2>4, CommitOnce
<1>6. CASE validateMutations(ms1) /\ ~ validateMutations(ms2)
  <2>1. c = Entry(u, ms1)
    BY <1>6, <1>8 DEF Entry
  <2> QED
    BY <1>5, <1>6, <2>1, ZenonT(30)
<1>7. CASE ~ validateMutations(ms1) /\ validateMutations(ms2)
  <2>1. c = Entry(u, ms2)
    BY <1>7, <1>8, ZenonT(30) DEF Entry
  <2> QED
    BY <1>5, <1>7, <2>1
<1> QED
  BY <1>3, <1>4, <1>6, <1>7

(* The branch that CheckAndMutateRow selects is a mutation list like any     *)
(* other.                                                                    *)
LEMMA CheckAndMutateRowKeeps ==
    ASSUME IInv, NEW ifTrue \in Seq(Mutations), NEW ifFalse \in Seq(Mutations), NEW pred,
           CheckAndMutateRow(pred, ifTrue, ifFalse)
    PROVE  IInv'
<1> DEFINE matched == IF pred = {} THEN DOMAIN row # {}
                      ELSE \E a \in DOMAIN gc(row, clock) : a[1] \in pred
           list == IF matched THEN ifTrue ELSE ifFalse
<1> HIDE DEF list
<1>1. PICK ms : ms = list
  OBVIOUS
<1>2. PICK applied : applied = applyMutations(row, ms, newTimestamp)
  OBVIOUS
<1>3. PICK c : c = stage(Unstaged(row), applied)
  OBVIOUS
<1>4. /\ validateMutations(ms)
      /\ row' = c.row /\ mirror' = Replay(Replay(mirror, c.user), c.gc)
      /\ inexact' = inexact \cup IF micros THEN FamiliesOf(c.gc) ELSE {}
      /\ Frame
  BY <1>1, <1>2, <1>3, ZenonT(30) DEF CheckAndMutateRow, persist, FamiliesOf, Frame, list
<1>5. ms \in Seq(Mutations)
  <2> HIDE DEF matched
  <2> QED
    BY <1>1, ZenonT(30) DEF list
<1>6. Tracks(row, applied.row, applied.changes)
  BY <1>2, <1>4, <1>5, AppliedTracks, ZenonT(30) DEF IInv, RowInv
<1> QED
  BY <1>3, <1>4, <1>6, CommitOnce

(* ReadModifyWriteRow commits what its rules wrote. *)
LEMMA ReadModifyWriteRowKeeps ==
    ASSUME IInv, NEW rs \in RuleLists, ReadModifyWriteRow(rs)
    PROVE  IInv'
<1>1. PICK A : A = Modify(rs)
  OBVIOUS
<1>2. PICK applied : applied = modifyAll(rs)
  BY ZenonT(30)
<1>3. PICK c : c = stage(Unstaged(row), applied)
  BY ZenonT(30)
<1>4. /\ validateRules(rs) /\ applied.ok
      /\ row' = c.row /\ mirror' = Replay(Replay(mirror, c.user), c.gc)
      /\ inexact' = inexact \cup IF micros THEN FamiliesOf(c.gc) ELSE {}
      /\ Frame
  BY <1>2, <1>3 DEF ReadModifyWriteRow, persist, FamiliesOf, Frame
<1>5. Len(rs) \in Nat /\ clock \in Nat /\ GoodRow(row)
  <2>1. Len(rs) \in Nat \ {0}
    BY <1>4, RulesPlain, ZenonT(30)
  <2>2. clock \in Nat
    BY RowAssumption DEF IInv
  <2>3. GoodRow(row)
    BY ZenonT(30) DEF IInv, RowInv
  <2> QED
    BY <2>1, <2>2, <2>3
<1>6. applied = A[Len(rs)] /\ Len(rs) \in 0 .. Len(rs)
  BY <1>1, <1>2, <1>5, ModifyDef
<1>7. Tracks(row, applied.row, applied.changes)
  BY <1>1, <1>4, <1>5, <1>6, ModifyTracks, ZenonT(30)
<1> QED
  BY <1>3, <1>4, <1>7, CommitOnce

(* A new rule and the passage of time leave the row alone. *)
LEMMA UntouchedKeeps ==
    ASSUME IInv, UNCHANGED <<micros, row, mirror, inexact>>,
           rules' \in [Fams -> Rules], clock' \in 0 .. MaxTime
    PROVE  IInv'
BY DEF IInv, RowInv, GoodRow, valid, MirrorMatchesStore

(* The invariant holds of an empty row. *)
LEMMA InitIInv == Init => IInv
<1> SUFFICES ASSUME Init PROVE IInv
  OBVIOUS
<1>1. rules \in [Fams -> Rules] /\ clock \in 0 .. MaxTime
  BY RowAssumption, RuleAssumption DEF Init
<1>2. DOMAIN row = {} /\ DOMAIN mirror = {} /\ GoodRow(row)
  BY NoRowGood DEF Init
<1>3. MirrorMatchesStore
  BY <1>2 DEF MirrorMatchesStore
<1> QED
  BY <1>1, <1>2, <1>3 DEF Init, IInv, RowInv

(* Every request, change of rules and tick keeps the invariant. *)
LEMMA StepIInv ==
    ASSUME IInv, [Next]_vars
    PROVE  IInv'
<1>1. ASSUME NEW ms \in MutationLists, MutateRow(ms) PROVE IInv'
  BY <1>1, MutateRowKeeps
<1>2. ASSUME NEW b \in Batches, MutateRows(b[1], b[2]) PROVE IInv'
  <2>1. b[1] \in Seq(Mutations) /\ b[2] \in Seq(Mutations)
    BY RowAssumption
  <2> QED
    BY <1>2, <2>1, MutateRowsKeeps
<1>3. ASSUME NEW b \in Batches, NEW pred \in SUBSET Fams, CheckAndMutateRow(pred, b[1], b[2]) PROVE IInv'
  <2>1. b[1] \in Seq(Mutations) /\ b[2] \in Seq(Mutations)
    BY RowAssumption
  <2> QED
    BY <1>3, <2>1, CheckAndMutateRowKeeps
<1>4. ASSUME NEW rs \in RuleLists, ReadModifyWriteRow(rs) PROVE IInv'
  BY <1>4, ReadModifyWriteRowKeeps
<1>5. ASSUME NEW fam \in Fams, NEW rule \in Rules, UpdateFamily(fam, rule) PROVE IInv'
  <2>1. rules' \in [Fams -> Rules] /\ clock' \in 0 .. MaxTime /\ UNCHANGED <<micros, row, mirror, inexact>>
    BY <1>5 DEF UpdateFamily, IInv
  <2> QED
    BY <2>1, UntouchedKeeps
<1>6. CASE Tick
  <2>1. rules' \in [Fams -> Rules] /\ clock' \in 0 .. MaxTime /\ UNCHANGED <<micros, row, mirror, inexact>>
    BY <1>6, RowAssumption DEF Tick, IInv
  <2> QED
    BY <2>1, UntouchedKeeps
<1>7. CASE UNCHANGED vars
  <2>1. rules' \in [Fams -> Rules] /\ clock' \in 0 .. MaxTime /\ UNCHANGED <<micros, row, mirror, inexact>>
    BY <1>7 DEF vars, IInv
  <2> QED
    BY <2>1, UntouchedKeeps
<1> QED
  BY <1>1, <1>2, <1>3, <1>4, <1>5, <1>6, <1>7, ZenonT(30) DEF Next

(* The invariant holds in every reachable state. *)
LEMMA Inductive == Spec => []IInv
BY InitIInv, StepIInv, PTL DEF Spec

(* Whatever requests, rules and times come, every stored cell has a family,  *)
(* a column, a timestamp of the table's granularity and a value of its       *)
(* family's kind: aggregation, increments and collection never leave a cell  *)
(* that validateMutation would refuse.                                       *)
THEOREM RowTypes == Spec => []TypeOK
<1>1. ASSUME IInv PROVE TypeOK
  <2>1. ASSUME NEW a \in DOMAIN row
        PROVE  /\ a[1] \in Fams /\ a[2] \in Cols /\ valid(a[3])
               /\ row[a][1] \in ValueOf(Kinds[a[1]])
    <3>1. a[1] \in Fams /\ a[2] \in Cols /\ valid(a[3]) /\ row[a] \in KindValues(Kinds[a[1]])
      BY <1>1, <2>1 DEF IInv, RowInv, GoodRow, Addresses
    <3>2. row[a][1] \in ValueOf(Kinds[a[1]])
      BY <3>1 DEF KindValues, PlainValues, ValueOf
    <3> QED
      BY <3>1, <3>2
  <2> QED
    BY <1>1, <2>1, ZenonT(30) DEF IInv, RowInv, TypeOK
<1> QED
  BY <1>1, Inductive, PTL

(* For tables with any families, rules and requests: a consumer that applies *)
(* the change records in order has the stored row, in every family without   *)
(* an approximate collection.                                                *)
THEOREM MirrorHolds == Spec => []MirrorMatchesStore
<1>1. IInv => MirrorMatchesStore
  BY DEF IInv, RowInv
<1> QED
  BY <1>1, Inductive, PTL
=============================================================================
