-------------------------- MODULE CollectionProofs --------------------------
(* Proofs about RowMutation: what garbage collection deletes, and what reads *)
(* and increments of a row see of it.                                        *)
EXTENDS RowMutationProofs

\* The time a leaf may take; one that needs Zenon or PTL instead says so.
USE SMTT(30)

-----------------------------------------------------------------------------
(* Garbage collection.                                                       *)

(* Induction over the nesting of GC rules. *)
LEMMA RuleInduction ==
    ASSUME NEW P,
           \A rule \in AllRules : (\A sub \in AllRules : Depth[sub] < Depth[rule] => sub \in P) => rule \in P
    PROVE  AllRules \subseteq P
<1> DEFINE S == {n \in Nat : \A rule \in AllRules : Depth[rule] < n => rule \in P}
<1>1. \A rule \in AllRules : Depth[rule] \in Nat
  BY RuleAssumption
<1>2. 0 \in S
  BY <1>1
<1>3. ASSUME NEW n \in Nat, n \in S PROVE n + 1 \in S
  <2> SUFFICES ASSUME NEW rule \in AllRules, Depth[rule] < n + 1 PROVE rule \in P
    OBVIOUS
  <2>1. \A sub \in AllRules : Depth[sub] < Depth[rule] => sub \in P
    BY <1>1, <1>3
  <2> QED
    BY <2>1
<1>4. Nat \subseteq S
  <2> HIDE DEF S
  <2> QED
    BY <1>2, <1>3, NatSetInduction
<1>5. ASSUME NEW rule \in AllRules PROVE rule \in P
  <2>1. Depth[rule] + 1 \in Nat /\ Depth[rule] < Depth[rule] + 1
    BY <1>1
  <2> QED
    BY <1>4, <2>1
<1> QED
  BY <1>5

\* The recursive function of gcDeletes.
GcFits(f, stamps, now) == f = [r \in AllRules |-> ruleDeletes(f, stamps, r, now)]

Deleted(stamps, now) ==
    LET deletes[r \in AllRules] == ruleDeletes(deletes, stamps, r, now)
    IN deletes

\* What gcDeletes says of a rule, given what it says of the rules in it.
Unfolds(stamps, rule, now) ==
    /\ rule.kind = "versions" => gcDeletes(stamps, rule, now) = surplus(stamps, rule.n)
    /\ rule.kind = "age" => gcDeletes(stamps, rule, now) = {t \in stamps : t < now - rule.n}
    /\ rule.kind = "union" =>
         \A t : t \in gcDeletes(stamps, rule, now) <=> \E sub \in rule.subs : t \in gcDeletes(stamps, sub, now)
    /\ rule.kind = "intersection" =>
         \A t : t \in gcDeletes(stamps, rule, now) <=>
             /\ t \in stamps /\ rule.subs # {}
             /\ \A sub \in rule.subs : t \in gcDeletes(stamps, sub, now)
    /\ rule.kind = "nothing" => gcDeletes(stamps, rule, now) = {}

(* A rule has a kind, and the rules in it are nested less deep. *)
LEMMA RuleKinds ==
    ASSUME NEW rule \in AllRules
    PROVE  /\ rule.kind \in {"nothing", "versions", "age", "union", "intersection"}
           /\ rule.kind = "versions" => rule.n \in Nat /\ rule.n >= 1
           /\ rule.kind = "age" => rule.n \in Nat /\ rule.n >= Milli
           /\ rule.kind \in {"union", "intersection"} =>
                \A sub \in rule.subs : sub \in AllRules /\ Depth[sub] < Depth[rule]
BY RuleAssumption DEF validateGCRule

(* Only what is nested in a rule matters to its unfolding. *)
LEMMA SameDeletes ==
    ASSUME NEW f, NEW g, NEW stamps, NEW now, NEW rule \in AllRules,
           \A sub \in AllRules : Depth[sub] < Depth[rule] => f[sub] = g[sub]
    PROVE  ruleDeletes(f, stamps, rule, now) = ruleDeletes(g, stamps, rule, now)
<1>1. CASE rule.kind \in {"union", "intersection"}
  <2>1. \A sub \in rule.subs : f[sub] = g[sub]
    BY <1>1, RuleKinds
  <2>2. CASE rule.kind = "union"
    <3>1. {f[sub] : sub \in rule.subs} = {g[sub] : sub \in rule.subs}
      BY <2>1
    <3> QED
      BY <2>2, <3>1 DEF ruleDeletes
  <2>3. CASE rule.kind = "intersection"
    <3>1. {t \in stamps : rule.subs # {} /\ \A sub \in rule.subs : t \in f[sub]}
            = {t \in stamps : rule.subs # {} /\ \A sub \in rule.subs : t \in g[sub]}
      BY <2>1
    <3> QED
      BY <2>3, <3>1 DEF ruleDeletes
  <2> QED
    BY <1>1, <2>2, <2>3
<1>2. CASE rule.kind \notin {"union", "intersection"}
  BY <1>2, RuleKinds DEF ruleDeletes
<1> QED
  BY <1>1, <1>2

(* The recursive function of gcDeletes exists. *)
LEMMA GcExists ==
    ASSUME NEW stamps, NEW now
    PROVE  \E f : GcFits(f, stamps, now)
<1> DEFINE UpTo(f, n) == \A rule \in AllRules : Depth[rule] < n => f[rule] = ruleDeletes(f, stamps, rule, now)
           S == {n \in Nat : \E f : UpTo(f, n)}
<1>1. \A rule \in AllRules : Depth[rule] \in Nat /\ Depth[rule] < MaxDepth + 1
  BY RuleAssumption
<1>2. 0 \in S
  BY <1>1
<1>3. ASSUME NEW n \in Nat, n \in S PROVE n + 1 \in S
  <2>1. PICK f : UpTo(f, n)
    BY <1>3
  <2> DEFINE g == [r \in AllRules |-> IF Depth[r] < n THEN f[r] ELSE ruleDeletes(f, stamps, r, now)]
  <2>2. \A r \in AllRules : Depth[r] < n => g[r] = f[r]
    BY ZenonT(30)
  <2>3. \A r \in AllRules : ~ (Depth[r] < n) => g[r] = ruleDeletes(f, stamps, r, now)
    BY ZenonT(30)
  <2> HIDE DEF g
  <2>4. ASSUME NEW rule \in AllRules, Depth[rule] < n + 1
        PROVE  g[rule] = ruleDeletes(g, stamps, rule, now)
    <3>1. g[rule] = ruleDeletes(f, stamps, rule, now)
      BY <2>1, <2>2, <2>3, ZenonT(30)
    <3>2. \A sub \in AllRules : Depth[sub] < Depth[rule] => f[sub] = g[sub]
      <4>1. \A sub \in AllRules : Depth[sub] < Depth[rule] => Depth[sub] < n
        BY <1>1, <2>4
      <4> QED
        BY <2>2, <4>1
    <3> QED
      BY <3>1, <3>2, SameDeletes
  <2>5. UpTo(g, n + 1)
    BY <2>4
  <2> QED
    BY <2>5
<1>4. Nat \subseteq S
  <2> HIDE DEF S
  <2> QED
    BY <1>2, <1>3, NatSetInduction
<1>5. PICK f : UpTo(f, MaxDepth + 1)
  BY <1>4, RuleAssumption
<1> DEFINE h == [r \in AllRules |-> f[r]]
<1>6. \A rule \in AllRules : h[rule] = f[rule]
  OBVIOUS
<1>7. ASSUME NEW rule \in AllRules PROVE h[rule] = ruleDeletes(h, stamps, rule, now)
  <2> HIDE DEF h
  <2>1. f[rule] = ruleDeletes(f, stamps, rule, now)
    BY <1>1, <1>5
  <2>2. ruleDeletes(f, stamps, rule, now) = ruleDeletes(h, stamps, rule, now)
    BY <1>6, SameDeletes
  <2> QED
    BY <1>6, <2>1, <2>2
<1>8. h = [r \in AllRules |-> h[r]]
  BY <1>6
<1> HIDE DEF h
<1>9. GcFits(h, stamps, now)
  BY <1>7, <1>8 DEF GcFits
<1> QED
  BY <1>9

(* gcDeletes, rule by rule. *)
LEMMA GcUnfold ==
    ASSUME NEW stamps, NEW now, NEW rule \in AllRules
    PROVE  Unfolds(stamps, rule, now)
<1>1. PICK f : f = Deleted(stamps, now)
  OBVIOUS
<1>2. GcFits(f, stamps, now)
  <2>1. f = CHOOSE g : GcFits(g, stamps, now)
    BY <1>1 DEF Deleted, GcFits
  <2> QED
    BY <2>1, GcExists, ZenonT(30)
<1>3. \A r : gcDeletes(stamps, r, now) = f[r]
  BY <1>1 DEF gcDeletes, Deleted
<1>4. f[rule] = ruleDeletes(f, stamps, rule, now)
  BY <1>2 DEF GcFits
<1>5. rule.kind = "union" => \A t : t \in f[rule] <=> \E sub \in rule.subs : t \in f[sub]
  <2> SUFFICES ASSUME rule.kind = "union" PROVE \A t : t \in f[rule] <=> \E sub \in rule.subs : t \in f[sub]
    OBVIOUS
  <2>1. f[rule] = UNION {f[sub] : sub \in rule.subs}
    BY <1>4 DEF ruleDeletes
  <2> QED
    BY <2>1, ZenonT(30)
<1>6. rule.kind = "intersection" =>
        \A t : t \in f[rule] <=> /\ t \in stamps /\ rule.subs # {}
                                 /\ \A sub \in rule.subs : t \in f[sub]
  <2> SUFFICES ASSUME rule.kind = "intersection"
               PROVE  \A t : t \in f[rule] <=> /\ t \in stamps /\ rule.subs # {}
                                                /\ \A sub \in rule.subs : t \in f[sub]
    OBVIOUS
  <2>1. f[rule] = {s \in stamps : rule.subs # {} /\ \A sub \in rule.subs : s \in f[sub]}
    BY <1>4 DEF ruleDeletes
  <2> QED
    BY <2>1, ZenonT(30)
<1>7. rule.kind = "versions" => f[rule] = surplus(stamps, rule.n)
  BY <1>4 DEF ruleDeletes
<1>8. rule.kind = "age" => f[rule] = {t \in stamps : t < now - rule.n}
  BY <1>4 DEF ruleDeletes
<1>9. rule.kind = "nothing" => f[rule] = {}
  BY <1>4 DEF ruleDeletes
<1>10. rule.kind = "union" =>
         \A t : t \in gcDeletes(stamps, rule, now) <=> \E sub \in rule.subs : t \in gcDeletes(stamps, sub, now)
  BY <1>3, <1>5
<1>11. rule.kind = "intersection" =>
         \A t : t \in gcDeletes(stamps, rule, now) <=>
             /\ t \in stamps /\ rule.subs # {}
             /\ \A sub \in rule.subs : t \in gcDeletes(stamps, sub, now)
  BY <1>3, <1>6
<1>12. gcDeletes(stamps, rule, now) = f[rule]
  BY <1>3
<1> QED
  BY <1>7, <1>8, <1>9, <1>10, <1>11, <1>12, ZenonT(30) DEF Unfolds

Newer(S, t) == {x \in S : x > t}

(* There are more newer timestamps among more timestamps. *)
LEMMA SurplusGrows ==
    ASSUME NEW T \in SUBSET Nat, IsFiniteSet(T), NEW S \in SUBSET T, NEW n \in Nat, NEW t \in Nat, NEW u \in Nat,
           u =< t, Cardinality(Newer(S, t)) >= n
    PROVE  Cardinality(Newer(T, u)) >= n
<1>1. PICK A : A = Newer(S, t)
  OBVIOUS
<1>2. PICK B : B = Newer(T, u)
  OBVIOUS
<1>3. B \in SUBSET T
  BY <1>2, ZenonT(30) DEF Newer
<1>4. IsFiniteSet(B)
  BY <1>3, FS_Subset, ZenonT(30)
<1>5. ASSUME NEW x \in A PROVE x \in B
  <2>1. x \in S /\ x \in T /\ x \in Nat /\ x > t
    BY <1>1, <1>5, ZenonT(30) DEF Newer
  <2>2. x > u
    BY <2>1
  <2> QED
    BY <1>2, <2>1, <2>2, ZenonT(30) DEF Newer
<1>6. A \in SUBSET B
  BY <1>5, ZenonT(30)
<1>7. Cardinality(A) \in Nat /\ Cardinality(B) \in Nat /\ Cardinality(A) =< Cardinality(B)
  BY <1>4, <1>6, FS_Subset, FS_CardinalityType, ZenonT(30)
<1> QED
  BY <1>1, <1>2, <1>7

\* What a rule collects of the timestamps T, compared with what it collects
\* of some of them and later.
Orderly(rule, S, T, now, later) ==
    /\ \A t \in gcDeletes(T, rule, now) : t \in T
    /\ \A t \in gcDeletes(S, rule, now) : t \in S
    /\ \A t \in gcDeletes(T, rule, now), u \in T : u < t => u \in gcDeletes(T, rule, now)
    /\ \A t \in gcDeletes(S, rule, now) : t \in gcDeletes(T, rule, now)
    /\ \A t \in gcDeletes(T, rule, now) : t \in gcDeletes(T, rule, later)

(* Every rule, however nested, collects the oldest timestamps; it collects   *)
(* more of more timestamps, and more later.                                  *)
LEMMA GcOrderly ==
    ASSUME NEW T \in SUBSET Nat, IsFiniteSet(T), NEW S \in SUBSET T,
           NEW now \in Int, NEW later \in Int, now =< later
    PROVE  \A rule \in AllRules : Orderly(rule, S, T, now, later)
<1> DEFINE P == {rule \in AllRules : Orderly(rule, S, T, now, later)}
<1>1. ASSUME NEW rule \in AllRules, \A sub \in AllRules : Depth[sub] < Depth[rule] => sub \in P
      PROVE  rule \in P
  <2>1. /\ Unfolds(T, rule, now) /\ Unfolds(S, rule, now) /\ Unfolds(T, rule, later)
    BY GcUnfold
  <2>2. CASE rule.kind = "nothing"
    BY <2>1, <2>2, ZenonT(30) DEF Unfolds, Orderly
  <2>3. CASE rule.kind = "age"
    <3>1. rule.n \in Nat
      BY <2>3, RuleKinds
    <3>2. /\ gcDeletes(T, rule, now) = {t \in T : t < now - rule.n}
          /\ gcDeletes(S, rule, now) = {t \in S : t < now - rule.n}
          /\ gcDeletes(T, rule, later) = {t \in T : t < later - rule.n}
      BY <2>1, <2>3 DEF Unfolds
    <3>3. \A t \in T : t < now - rule.n => t < later - rule.n
      BY <3>1
    <3>4. \A t \in T, u \in T : t < now - rule.n /\ u < t => u < now - rule.n
      BY <3>1
    <3>5. Orderly(rule, S, T, now, later)
      BY <3>2, <3>3, <3>4, ZenonT(30) DEF Orderly
    <3> QED
      BY <3>5
  <2>4. CASE rule.kind = "versions"
    <3>1. rule.n \in Nat
      BY <2>4, RuleKinds, ZenonT(30)
    <3>2. /\ gcDeletes(T, rule, now) = surplus(T, rule.n)
          /\ gcDeletes(S, rule, now) = surplus(S, rule.n)
          /\ gcDeletes(T, rule, later) = surplus(T, rule.n)
      BY <2>1, <2>4 DEF Unfolds
    <3>3. ASSUME NEW t \in surplus(T, rule.n), NEW u \in T, u < t PROVE u \in surplus(T, rule.n)
      <4>1. t \in T /\ Cardinality(Newer(T, t)) >= rule.n
        BY <3>3, ZenonT(30) DEF surplus, Newer
      <4>2. t \in Nat /\ u \in Nat /\ T \in SUBSET T
        BY <4>1, ZenonT(30)
      <4>3. u =< t
        BY <3>3, <4>2
      <4>4. Cardinality(Newer(T, u)) >= rule.n
        BY <3>1, <4>1, <4>2, <4>3, SurplusGrows, ZenonT(30)
      <4> QED
        BY <4>4, ZenonT(30) DEF surplus, Newer
    <3>4. ASSUME NEW t \in surplus(S, rule.n) PROVE t \in surplus(T, rule.n)
      <4>1. t \in T /\ t \in Nat /\ Cardinality(Newer(S, t)) >= rule.n
        BY <3>4, ZenonT(30) DEF surplus, Newer
      <4>2. t =< t
        BY <4>1
      <4>3. Cardinality(Newer(T, t)) >= rule.n
        BY <3>1, <4>1, <4>2, SurplusGrows
      <4> QED
        BY <4>1, <4>3, ZenonT(30) DEF surplus, Newer
    <3>5. (\A t \in surplus(T, rule.n) : t \in T) /\ (\A t \in surplus(S, rule.n) : t \in S)
      BY DEF surplus
    <3>6. Orderly(rule, S, T, now, later)
      BY <3>2, <3>3, <3>4, <3>5, ZenonT(30) DEF Orderly
    <3> QED
      BY <3>6
  <2>5. CASE rule.kind \in {"union", "intersection"}
    <3>1. \A sub \in rule.subs : Orderly(sub, S, T, now, later)
      BY <1>1, <2>5, RuleKinds
    <3>2. CASE rule.kind = "union"
      BY <2>1, <3>1, <3>2, ZenonT(30) DEF Unfolds, Orderly
    <3>3. CASE rule.kind = "intersection"
      BY <2>1, <3>1, <3>3, ZenonT(30) DEF Unfolds, Orderly
    <3> QED
      BY <2>5, <3>2, <3>3
  <2>6. Orderly(rule, S, T, now, later)
    BY <2>2, <2>3, <2>4, <2>5, RuleKinds, ZenonT(30)
  <2> QED
    BY <2>6
<1>2. AllRules \subseteq P
  <2> HIDE DEF P
  <2> QED
    BY <1>1, RuleInduction
<1> QED
  BY <1>2

(* For any rules and rows: a GC rule removes the oldest cells of a column    *)
(* only, a second collection at the same time finds nothing, and what it     *)
(* removes it would also remove later (gcDeletes).                           *)
THEOREM CollectsOldest == Spec => []CollectsOldestOnly
<1>1. ASSUME IInv PROVE CollectsOldestOnly
  <2> SUFFICES ASSUME NEW fam \in Fams, NEW col \in Cols, NEW rule \in Rules,
                      NEW T, T = Stamps(row, fam, col),
                      NEW gone, gone = gcDeletes(T, rule, clock)
               PROVE  /\ \A t \in gone, u \in T \ gone : t < u
                      /\ gcDeletes(T \ gone, rule, clock) = {}
                      /\ gone \subseteq gcDeletes(T, rule, clock + 1)
    BY ZenonT(30) DEF CollectsOldestOnly
  <2>1. T \in SUBSET Nat /\ IsFiniteSet(T) /\ clock \in Int /\ clock + 1 \in Int /\ clock =< clock + 1
    <3>1. GoodRow(row)
      BY <1>1 DEF IInv, RowInv
    <3>2. T \in SUBSET Nat /\ IsFiniteSet(T)
      BY <3>1, StampsFacts
    <3>3. clock \in Int /\ clock + 1 \in Int /\ clock =< clock + 1
      BY <1>1, RowAssumption DEF IInv
    <3> QED
      BY <3>2, <3>3
  <2>2. PICK S : S = T \ gone
    BY ZenonT(30)
  <2>3. S \in SUBSET T /\ rule \in AllRules
    BY <2>2, ZenonT(30) DEF AllRules
  <2>4. Orderly(rule, S, T, clock, clock + 1)
    BY <2>1, <2>3, GcOrderly
  <2>5. ASSUME NEW t \in gone, NEW u \in T \ gone PROVE t < u
    <3>1. t \in T /\ ~ (u < t) /\ t # u
      BY <2>4, <2>5 DEF Orderly
    <3> QED
      BY <2>1, <2>5, <3>1
  <2>6. gcDeletes(S, rule, clock) = {}
    BY <2>2, <2>4, ZenonT(30) DEF Orderly
  <2>7. gone \subseteq gcDeletes(T, rule, clock + 1)
    BY <2>4, ZenonT(30) DEF Orderly
  <2> QED
    BY <2>2, <2>5, <2>6, <2>7, ZenonT(30)
<1> QED
  BY <1>1, Inductive, PTL

-----------------------------------------------------------------------------
(* Increments.                                                               *)

(* The largest of some numbers is the only one that none exceeds. *)
LEMMA MaxIs ==
    ASSUME NEW S \in SUBSET Nat, IsFiniteSet(S), NEW t \in S, \A u \in S : u =< t
    PROVE  Max(S) = t
<1>1. Max(S) \in S /\ \A y \in S : Max(S) >= y
  BY MaxOfFinite, ZenonT(30)
<1>2. Max(S) \in Nat /\ t \in Nat
  BY <1>1, ZenonT(30)
<1>3. Max(S) =< t /\ Max(S) >= t
  BY <1>1, ZenonT(30)
<1> QED
  BY <1>2, <1>3

(* No rule collects the newest timestamp of a column, if the server could    *)
(* have chosen it now: validateGCRule refuses a limit of zero versions and   *)
(* an age below a millisecond.                                               *)
LEMMA NewestKept ==
    ASSUME NEW T \in SUBSET Nat, NEW now \in Int, NEW t \in T, \A u \in T : u =< t, now < t + Milli
    PROVE  \A rule \in AllRules : t \notin gcDeletes(T, rule, now)
<1> DEFINE P == {rule \in AllRules : t \notin gcDeletes(T, rule, now)}
<1>1. t \in Nat /\ Milli \in Nat
  BY RowAssumption, ZenonT(30)
<1>2. ASSUME NEW rule \in AllRules, \A sub \in AllRules : Depth[sub] < Depth[rule] => sub \in P
      PROVE  t \notin gcDeletes(T, rule, now)
  <2>1. Unfolds(T, rule, now)
    BY GcUnfold
  <2>2. CASE rule.kind = "nothing"
    BY <2>1, <2>2 DEF Unfolds
  <2>3. CASE rule.kind = "age"
    <3>1. rule.n \in Nat /\ rule.n >= Milli
      BY <2>3, RuleKinds
    <3>2. ~ (t < now - rule.n)
      BY <1>1, <3>1
    <3> QED
      BY <2>1, <2>3, <3>2, ZenonT(30) DEF Unfolds
  <2>4. CASE rule.kind = "versions"
    <3>1. rule.n \in Nat /\ rule.n >= 1
      BY <2>4, RuleKinds
    <3>2. {u \in T : u > t} = {}
      <4>1. \A u \in T : ~ (u > t)
        <5> SUFFICES ASSUME NEW u \in T PROVE ~ (u > t)
          OBVIOUS
        <5>1. u \in Nat /\ u =< t
          BY ZenonT(30)
        <5> QED
          BY <1>1, <5>1
      <4> QED
        BY <4>1, ZenonT(30)
    <3>3. Cardinality({u \in T : u > t}) = 0
      BY <3>2, FS_EmptySet
    <3>4. ~ (Cardinality({u \in T : u > t}) >= rule.n)
      BY <3>1, <3>3
    <3> QED
      BY <2>1, <2>4, <3>4, ZenonT(30) DEF Unfolds, surplus
  <2>5. CASE rule.kind \in {"union", "intersection"}
    <3>1. \A sub \in rule.subs : t \notin gcDeletes(T, sub, now)
      BY <1>2, <2>5, RuleKinds
    <3>2. CASE rule.kind = "union"
      BY <2>1, <3>1, <3>2, ZenonT(30) DEF Unfolds
    <3>3. CASE rule.kind = "intersection"
      BY <2>1, <3>1, <3>3, ZenonT(30) DEF Unfolds
    <3> QED
      BY <2>5, <3>2, <3>3
  <2> QED
    BY <2>2, <2>3, <2>4, <2>5, RuleKinds, ZenonT(30)
<1>3. AllRules \subseteq P
  <2>1. \A rule \in AllRules : (\A sub \in AllRules : Depth[sub] < Depth[rule] => sub \in P) => rule \in P
    BY <1>2
  <2> HIDE DEF P
  <2> QED
    BY <2>1, RuleInduction
<1> QED
  BY <1>3

\* No cell of the column is newer than t.
AtMost(r, fam, col, t) == \A u \in Stamps(r, fam, col) : u =< t

\* The newest cell of the column has the timestamp t and the value v.
Top(r, fam, col, t, v) ==
    /\ <<fam, col, t>> \in DOMAIN r /\ r[<<fam, col, t>>] = v
    /\ AtMost(r, fam, col, t)

(* What Newest returns. *)
LEMMA TopNewest ==
    ASSUME NEW r, GoodRow(r), NEW fam, NEW col, NEW t, NEW v, Top(r, fam, col, t, v)
    PROVE  Newest(r, fam, col) = t
<1>1. PICK T : T = Stamps(r, fam, col)
  OBVIOUS
<1>2. T \in SUBSET Nat /\ IsFiniteSet(T) /\ t \in T
  BY <1>1, StampsFacts DEF Top
<1>3. \A u \in T : u =< t
  BY <1>1 DEF Top, AtMost
<1> QED
  BY <1>1, <1>2, <1>3, MaxIs, ZenonT(30) DEF Newest

(* Writing a cell that is not older than the others. *)
LEMMA TopWith ==
    ASSUME NEW r, NEW fam, NEW col, NEW t \in Nat, NEW v, AtMost(r, fam, col, t)
    PROVE  Top(With(r, <<fam, col, t>>, v), fam, col, t, v)
<1> DEFINE at == <<fam, col, t>>
           w == With(r, at, v)
<1>1. DOMAIN w = DOMAIN r \cup {at} /\ w[at] = v
  BY DEF With
<1>2. at[3] = t
  OBVIOUS
<1> HIDE DEF at, w
<1>3. ASSUME NEW u \in Stamps(w, fam, col) PROVE u =< t
  <2>1. PICK b \in DOMAIN w : b[1] = fam /\ b[2] = col /\ u = b[3]
    BY <1>3 DEF Stamps
  <2>2. CASE b = at
    BY <1>2, <2>1, <2>2
  <2>3. CASE b # at
    <3>1. b \in DOMAIN r
      BY <1>1, <2>1, <2>3
    <3>2. u \in Stamps(r, fam, col)
      BY <2>1, <3>1 DEF Stamps
    <3> QED
      BY <3>2 DEF AtMost
  <2> QED
    BY <2>2, <2>3
<1> QED
  BY <1>1, <1>3 DEF Top, AtMost, at, w

(* Dropping other cells. *)
LEMMA TopWithout ==
    ASSUME NEW r, NEW fam, NEW col, NEW t, NEW v, Top(r, fam, col, t, v), NEW X, <<fam, col, t>> \notin X
    PROVE  Top(Without(r, X), fam, col, t, v)
<1> DEFINE at == <<fam, col, t>>
           w == Without(r, X)
<1>1. DOMAIN w = DOMAIN r \ X /\ \A a \in DOMAIN w : w[a] = r[a]
  BY DEF Without
<1>2. at \in DOMAIN w /\ w[at] = v
  BY <1>1 DEF Top
<1> HIDE DEF w
<1>3. \A u \in Stamps(w, fam, col) : u \in Stamps(r, fam, col)
  BY <1>1 DEF Stamps
<1> QED
  BY <1>2, <1>3 DEF Top, AtMost, w

(* Collection keeps the newest cell of a column, if it is as new as what the *)
(* server stamps now.                                                        *)
LEMMA TopGc ==
    ASSUME clock \in Nat, rules \in [Fams -> Rules], NEW r, GoodRow(r), NEW fam \in Fams, NEW col,
           NEW t \in Nat, newTimestamp =< t, NEW v, Top(r, fam, col, t, v)
    PROVE  Top(gc(r, clock), fam, col, t, v)
<1>1. PICK T : T = Stamps(r, fam, col)
  OBVIOUS
<1>2. T \in SUBSET Nat /\ t \in T
  BY <1>1, StampsFacts DEF Top
<1>3. \A u \in T : u =< t
  BY <1>1 DEF Top, AtMost
<1>4. clock < t + Milli /\ clock \in Int
  <2>1. newTimestamp \in Nat /\ clock < newTimestamp + Milli /\ Milli \in Nat
    BY ServerStamp, RowAssumption DEF Stamp
  <2> QED
    BY <2>1
<1>5. rules[fam] \in AllRules
  BY DEF AllRules
<1>6. t \notin gcDeletes(T, rules[fam], clock)
  BY <1>2, <1>3, <1>4, <1>5, NewestKept
<1>7. <<fam, col, t>> \notin Collectable(r, clock)
  <2> SUFFICES ASSUME <<fam, col, t>> \in Collectable(r, clock) PROVE FALSE
    OBVIOUS
  <2>1. PICK a : a = <<fam, col, t>>
    OBVIOUS
  <2>2. a[1] = fam /\ a[2] = col /\ a[3] = t
    BY <2>1
  <2>3. a[3] \in gcDeletes(Stamps(r, a[1], a[2]), rules[a[1]], clock)
    BY <2>1, ZenonT(30) DEF Collectable
  <2> QED
    BY <1>1, <1>6, <2>2, <2>3, ZenonT(30)
<1>8. PICK X : X = Collectable(r, clock)
  OBVIOUS
<1> QED
  BY <1>7, <1>8, TopWithout, ZenonT(30) DEF gc

(* The first rule writes no older than any cell of the stored row, visible   *)
(* or not: what the collection hides is older than what it shows.            *)
LEMMA FirstIsNewest ==
    ASSUME clock \in Nat, rules \in [Fams -> Rules], GoodRow(row), NEW fam \in Fams, NEW col,
           NEW t \in Nat, newTimestamp =< t, AtMost(gc(row, clock), fam, col, t)
    PROVE  AtMost(row, fam, col, t)
<1>1. PICK T : T = Stamps(row, fam, col)
  OBVIOUS
<1>2. /\ T \in SUBSET Nat /\ IsFiniteSet(T)
      /\ \A u \in T : <<fam, col, u>> \in DOMAIN row
  BY <1>1, StampsFacts
<1>3. CASE T = {}
  BY <1>1, <1>3 DEF AtMost
<1>4. CASE T # {}
  <2>1. PICK x : x = Max(T)
    OBVIOUS
  <2>2. x \in T /\ \A y \in T : x >= y
    BY <1>2, <1>4, <2>1, MaxOfFinite, ZenonT(30)
  <2>3. x \in Nat /\ \A y \in T : y \in Nat
    BY <1>2, <2>2, ZenonT(30)
  <2>4. \A y \in T : y =< x
    BY <2>2, <2>3
  <2>5. x =< t
    <3>1. CASE x < newTimestamp
      <4>1. newTimestamp \in Nat
        BY ServerStamp DEF Stamp
      <4> QED
        BY <2>3, <3>1, <4>1
    <3>2. CASE ~ (x < newTimestamp)
      <4>1. newTimestamp =< x
        <5>1. newTimestamp \in Nat
          BY ServerStamp DEF Stamp
        <5> QED
          BY <2>3, <3>2, <5>1
      <4>2. PICK v : v = row[<<fam, col, x>>]
        OBVIOUS
      <4>3. Top(row, fam, col, x, v)
        BY <1>1, <1>2, <2>2, <2>4, <4>2, ZenonT(30) DEF Top, AtMost
      <4>4. PICK g : g = gc(row, clock)
        OBVIOUS
      <4>5. Top(g, fam, col, x, v) /\ GoodRow(g)
        BY <2>3, <4>1, <4>3, <4>4, TopGc, WithoutGood, ZenonT(30) DEF gc
      <4>6. <<fam, col, x>> \in DOMAIN g
        BY <4>5 DEF Top
      <4>7. PICK U : U = Stamps(g, fam, col)
        OBVIOUS
      <4>8. x \in U
        BY <4>5, <4>6, <4>7, StampsFacts, ZenonT(30)
      <4> QED
        BY <4>4, <4>7, <4>8, ZenonT(30) DEF AtMost
    <3> QED
      BY <3>1, <3>2
  <2>6. \A u \in T : u =< t
    BY <2>3, <2>4, <2>5
  <2> QED
    BY <1>1, <2>6 DEF AtMost
<1> QED
  BY <1>3, <1>4

(* What a rule reads and where it writes, once an earlier rule has written   *)
(* the newest cell of the column.                                            *)
LEMMA ReadsTop ==
    ASSUME NEW st, GoodRow(st.visible), NEW rule, NEW t \in Nat, newTimestamp =< t, newTimestamp \in Nat, NEW v,
           Top(st.visible, rule.fam, rule.col, t, v)
    PROVE  Previous(st, rule) = v /\ WrittenTs(st, rule) = t
<1>1. PICK T : T = Stamps(st.visible, rule.fam, rule.col)
  OBVIOUS
<1>2. T \in SUBSET Nat /\ IsFiniteSet(T) /\ t \in T
  BY <1>1, StampsFacts DEF Top
<1>3. \A u \in T : u =< t
  BY <1>1 DEF Top, AtMost
<1>4. Max(T) = t
  BY <1>2, <1>3, MaxIs
<1>5. Previous(st, rule) = v
  <2>1. Previous(st, rule) = IF T = {} THEN <<"int", 0>> ELSE st.visible[<<rule.fam, rule.col, Max(T)>>]
    BY <1>1 DEF Previous
  <2>2. T # {}
    BY <1>2
  <2>3. st.visible[<<rule.fam, rule.col, t>>] = v
    BY DEF Top
  <2> QED
    BY <1>4, <2>1, <2>2, <2>3, ZenonT(30)
<1> DEFINE U == T \cup {newTimestamp}
<1>6. IsFiniteSet(U)
  BY <1>2, FS_AddElement
<1>7. U \in SUBSET Nat /\ t \in U
  BY <1>2, ZenonT(30)
<1>8. \A u \in U : u =< t
  BY <1>3
<1> HIDE DEF U
<1>9. Max(U) = t
  BY <1>6, <1>7, <1>8, MaxIs, ZenonT(30)
<1> QED
  BY <1>1, <1>5, <1>9, ZenonT(30) DEF WrittenTs, U

\* The column has the value v on top at t, in the row and in what later rules
\* see.
Holds(st, fam, col, t, v) == Top(st.row, fam, col, t, v) /\ Top(st.visible, fam, col, t, v)

(* An increment writes the sum on top of the column. *)
LEMMA IncrementStep ==
    ASSUME clock \in Nat, NEW st, GoodRow(st.visible), NEW rule, PlainRule(rule), rule.op = "increment",
           NEW t \in Nat, WrittenTs(st, rule) = t,
           AtMost(st.row, rule.fam, rule.col, t), AtMost(st.visible, rule.fam, rule.col, t),
           NEW next, next = modify(st, rule), next.ok,
           NEW x, x = Previous(st, rule)[2]
    PROVE  /\ Previous(st, rule)[1] = "int"
           /\ Holds(next, rule.fam, rule.col, t, <<"int", Wrap(x + rule.n)>>)
<1>1. PICK m : m = modified(st, rule)
  BY ZenonT(30)
<1>2. /\ next.row = applyMutation(st.row, m, 0)
      /\ next.visible = applyMutation(st.visible, m, 0)
      /\ next.ok = (st.ok /\ m.val[1] # "error")
      /\ next.changes = Append(st.changes, m)
  <2>1. Adds(next, st, m)
    BY <1>1, ModifyFields
  <2> QED
    BY <2>1, ZenonT(30) DEF Adds
<1>3. m.val[1] # "error"
  BY <1>2, ZenonT(30)
<1>4. m.ts = t /\ m.val = WrittenVal(st, rule)
  <2>1. Writes(m, st, rule)
    BY <1>1, ModifiedFields
  <2> QED
    BY <2>1, ZenonT(30) DEF Writes
<1>5. \A r : applyMutation(r, m, 0) = With(r, <<rule.fam, rule.col, m.ts>>, m.val)
  <2>1. NewestCell(m, st, rule)
    BY <1>1, <1>3, ModifiedGood, ZenonT(30)
  <2> QED
    BY <2>1, ZenonT(30) DEF NewestCell
<1>6. Previous(st, rule)[1] = "int" /\ m.val = <<"int", Wrap(x + rule.n)>>
  <2>1. CASE Previous(st, rule)[1] = "int"
    BY <1>4, <2>1, ZenonT(30) DEF WrittenVal
  <2>2. CASE Previous(st, rule)[1] # "int"
    <3>1. m.val = <<"error", 0>>
      BY <1>4, <2>2 DEF WrittenVal
    <3> QED
      BY <1>3, <3>1
  <2> QED
    BY <2>1, <2>2
<1>7. PICK v : v = m.val
  OBVIOUS
<1>8. /\ next.row = With(st.row, <<rule.fam, rule.col, t>>, v)
      /\ next.visible = With(st.visible, <<rule.fam, rule.col, t>>, v)
  BY <1>2, <1>4, <1>5, <1>7, ZenonT(30)
<1>9. Top(next.row, rule.fam, rule.col, t, v) /\ Top(next.visible, rule.fam, rule.col, t, v)
  BY <1>8, TopWith, ZenonT(30)
<1> QED
  BY <1>6, <1>7, <1>9, ZenonT(30) DEF Holds

SumFits(f, rs, n) == f = [i \in 0 .. n |-> IF i = 0 THEN 0 ELSE f[i - 1] + rs[i].n]

\* The sums Total goes through.
Sums(rs) ==
    LET sum[i \in 0 .. Len(rs)] == IF i = 0 THEN 0 ELSE sum[i - 1] + rs[i].n
    IN sum

(* The recursive function of Total exists. *)
LEMMA SumExists ==
    ASSUME NEW rs, NEW k \in Nat
    PROVE  \E f : SumFits(f, rs, k)
<1> DEFINE S == {n \in Nat : \E f : SumFits(f, rs, n)}
<1>1. 0 \in S
  <2>1. SumFits([i \in 0 .. 0 |-> 0], rs, 0)
    BY DEF SumFits
  <2> QED
    BY <2>1
<1>2. ASSUME NEW n \in Nat, n \in S PROVE n + 1 \in S
  <2>1. PICK f : SumFits(f, rs, n)
    BY <1>2
  <2> DEFINE g == [i \in 0 .. n + 1 |-> IF i = n + 1 THEN f[n] + rs[n + 1].n ELSE f[i]]
  <2>2. \A i \in 0 .. n : g[i] = f[i]
    OBVIOUS
  <2>3. ASSUME NEW i \in 0 .. n + 1
        PROVE  g[i] = IF i = 0 THEN 0 ELSE g[i - 1] + rs[i].n
    <3>1. CASE i = n + 1
      BY <2>2, <3>1
    <3>2. CASE i \in 0 .. n
      BY <2>1, <2>2, <3>2 DEF SumFits
    <3> QED
      BY <3>1, <3>2
  <2>4. SumFits(g, rs, n + 1)
    BY <2>3 DEF SumFits
  <2> HIDE DEF g
  <2> QED
    BY <2>4
<1>3. Nat \subseteq S
  <2> HIDE DEF S
  <2> QED
    BY <1>1, <1>2, NatSetInduction, ZenonT(30)
<1> QED
  BY <1>3

(* Total adds up one rule at a time. *)
LEMMA SumDef ==
    ASSUME NEW rs, Len(rs) \in Nat, NEW s, s = Sums(rs)
    PROVE  /\ s[0] = 0
           /\ \A i \in 1 .. Len(rs) : s[i] = s[i - 1] + rs[i].n
           /\ Total(rs) = s[Len(rs)]
<1> DEFINE k == Len(rs)
<1>1. \E g : SumFits(g, rs, k)
  BY SumExists
<1>2. s = CHOOSE g : SumFits(g, rs, k)
  BY DEF Sums, SumFits
<1>3. SumFits(s, rs, k)
  <2> HIDE DEF k
  <2> QED
    BY <1>1, <1>2, ZenonT(30)
<1>4. Total(rs) = Sums(rs)[k]
  BY DEF Total, Sums
<1>5. s[0] = 0 /\ \A i \in 1 .. k : s[i] = s[i - 1] + rs[i].n
  BY <1>3 DEF SumFits
<1> QED
  BY <1>4, <1>5, ZenonT(30)

\* The value a read of the column returns, as a number.
ReadValue(r, fam, col) ==
    IF Stamps(r, fam, col) = {} THEN 0 ELSE r[<<fam, col, Newest(r, fam, col)>>][2]

(* After i increments of a column it has the value read before plus their    *)
(* sum on top, at the same timestamp for all i.                              *)
LEMMA IncrementsHold ==
    ASSUME IInv, NEW rs \in RuleLists, validateRules(rs), OneColumnIncrements(rs),
           NEW fam, fam = rs[1].fam, NEW col, col = rs[1].col,
           NEW A, A = Modify(rs), NEW s, s = Sums(rs), A[Len(rs)].ok,
           NEW old, old = ReadValue(gc(row, clock), fam, col)
    PROVE  \E t \in Nat : newTimestamp =< t /\ Holds(A[Len(rs)], fam, col, t, <<"int", Wrap(old + s[Len(rs)])>>)
<1>1. /\ Len(rs) \in Nat \ {0} /\ DOMAIN rs = 1 .. Len(rs)
      /\ \A i \in 1 .. Len(rs) : PlainRule(rs[i])
  BY RulesPlain
<1>2. clock \in Nat /\ rules \in [Fams -> Rules] /\ GoodRow(row)
  BY RowAssumption DEF IInv, RowInv
<1>3. newTimestamp \in Nat
  BY <1>2, ServerStamp DEF Stamp
<1>4. /\ A[0] = ModifyStart
      /\ \A i \in 1 .. Len(rs) : A[i] = modify(A[i - 1], rs[i])
  BY <1>1, ModifyDef
<1>5. s[0] = 0 /\ \A i \in 1 .. Len(rs) : s[i] = s[i - 1] + rs[i].n
  BY <1>1, SumDef, ZenonT(30)
<1>6. \A i \in 1 .. Len(rs) : rs[i].fam = fam /\ rs[i].col = col /\ rs[i].op = "increment" /\ rs[i].n \in Int
  BY <1>1, ZenonT(30) DEF OneColumnIncrements, PlainRule
<1>7. \A i \in 0 .. Len(rs) : A[i].ok => GoodRow(A[i].visible)
  BY <1>2, ModifyTracks
<1>8. \A i \in 1 .. Len(rs) : A[i].ok => A[i - 1].ok
  <2> SUFFICES ASSUME NEW i \in 1 .. Len(rs), A[i].ok PROVE A[i - 1].ok
    OBVIOUS
  <2>1. PICK m : m = modified(A[i - 1], rs[i])
    OBVIOUS
  <2>2. PICK next : next = A[i]
    OBVIOUS
  <2>3. PICK st : st = A[i - 1]
    OBVIOUS
  <2>4. next = modify(st, rs[i])
    BY <1>4, <2>2, <2>3
  <2>5. /\ next.row = applyMutation(st.row, m, 0)
        /\ next.visible = applyMutation(st.visible, m, 0)
        /\ next.ok = (st.ok /\ m.val[1] # "error")
        /\ next.changes = Append(st.changes, m)
    <3>1. Adds(next, st, m)
      BY <2>1, <2>3, <2>4, ModifyFields, ZenonT(30)
    <3> QED
      BY <3>1, ZenonT(30) DEF Adds
  <2> QED
    BY <2>2, <2>3, <2>5, ZenonT(30)
<1>9. PICK t : t = WrittenTs(A[0], rs[1])
  OBVIOUS
<1>10. PICK start : start = A[0]
  OBVIOUS
<1>11. start.row = row /\ start.visible = gc(row, clock) /\ start.ok
  BY <1>4, <1>10 DEF ModifyStart
<1>12. PICK rule : rule = rs[1]
  OBVIOUS
<1>13. PlainRule(rule) /\ rule.op = "increment" /\ rule.fam = fam /\ rule.col = col /\ fam \in Fams /\ rule.n \in Int
  <2>1. 1 \in 1 .. Len(rs)
    BY <1>1
  <2>2. PlainRule(rule) /\ rule.op = "increment" /\ rule.fam = fam /\ rule.col = col /\ rule.n \in Int
    BY <1>1, <1>6, <1>12, <2>1, ZenonT(30)
  <2> QED
    BY <2>2 DEF PlainRule
<1>14. GoodRow(start.visible)
  BY <1>2, <1>11, WithoutGood, ZenonT(30) DEF gc
<1>15. t \in Nat /\ newTimestamp =< t /\ AtMost(start.visible, fam, col, t)
  <2>1. PICK T : T = Stamps(start.visible, fam, col)
    OBVIOUS
  <2>2. T \in SUBSET Nat /\ IsFiniteSet(T)
    BY <1>14, <2>1, StampsFacts
  <2> DEFINE U == T \cup {newTimestamp}
  <2>3. t = Max(U)
    BY <1>9, <1>10, <1>12, <1>13, <2>1, ZenonT(30) DEF WrittenTs
  <2>4. IsFiniteSet(U)
    BY <2>2, FS_AddElement, ZenonT(30)
  <2>5. U \in SUBSET Nat /\ U # {} /\ newTimestamp \in U /\ T \subseteq U
    BY <1>3, <2>2, ZenonT(30)
  <2> HIDE DEF U
  <2>6. Max(U) \in U /\ \A y \in U : Max(U) >= y
    BY <2>4, <2>5, MaxOfFinite, ZenonT(30)
  <2>7. t \in Nat /\ \A y \in U : y \in Nat /\ t >= y
    BY <2>3, <2>5, <2>6, ZenonT(30)
  <2>8. newTimestamp =< t
    BY <1>3, <2>5, <2>7, ZenonT(30)
  <2>9. \A y \in T : y =< t
    BY <2>5, <2>7
  <2> QED
    BY <2>1, <2>7, <2>8, <2>9, ZenonT(30) DEF AtMost
<1>16. AtMost(start.row, fam, col, t)
  BY <1>2, <1>11, <1>13, <1>15, FirstIsNewest, ZenonT(30)
<1>17. Previous(start, rule)[2] = old
  <2>1. PICK T : T = Stamps(start.visible, fam, col)
    OBVIOUS
  <2>2. PICK before : before = start.visible
    OBVIOUS
  <2>3. Previous(start, rule) = IF T = {} THEN <<"int", 0>> ELSE before[<<fam, col, Max(T)>>]
    BY <1>13, <2>1, <2>2, ZenonT(30) DEF Previous
  <2>4. old = IF T = {} THEN 0 ELSE before[<<fam, col, Max(T)>>][2]
    BY <1>11, <2>1, <2>2, ZenonT(30) DEF ReadValue, Newest
  <2>5. <<"int", 0>>[2] = 0
    OBVIOUS
  <2> QED
    BY <2>3, <2>4, <2>5, ZenonT(30)
<1> DEFINE Value(i) == <<"int", Wrap(old + s[i])>>
           Fine(i) == A[i].ok => old \in Int /\ s[i] \in Int /\ Holds(A[i], fam, col, t, Value(i))
<1>18. Fine(1)
  <2> SUFFICES ASSUME A[1].ok PROVE old \in Int /\ s[1] \in Int /\ Holds(A[1], fam, col, t, Value(1))
    OBVIOUS
  <2>1. PICK next : next = A[1]
    OBVIOUS
  <2>2. 1 \in 1 .. Len(rs) /\ 1 - 1 = 0
    BY <1>1
  <2>3. next = modify(start, rule)
    BY <1>4, <1>10, <1>12, <2>1, <2>2, ZenonT(30)
  <2>4. s[1] = rule.n
    BY <1>5, <1>12, <1>13, <2>2
  <2>5. /\ Previous(start, rule)[1] = "int"
        /\ Holds(next, rule.fam, rule.col, t, <<"int", Wrap(old + rule.n)>>)
    <3>1. t = WrittenTs(start, rule)
      BY <1>9, <1>10, <1>12, ZenonT(30)
    <3>2. next.ok
      BY <2>1
    <3> QED
      BY <1>2, <1>13, <1>14, <1>15, <1>16, <1>17, <2>3, <3>1, <3>2, IncrementStep, ZenonT(30)
  <2>6. old \in Int
    <3>1. PICK T : T = Stamps(start.visible, fam, col)
      OBVIOUS
    <3>2. CASE T = {}
      BY <1>11, <3>1, <3>2 DEF ReadValue
    <3>3. CASE T # {}
      <4>1. /\ T \in SUBSET Nat /\ IsFiniteSet(T)
            /\ \A u \in T : <<fam, col, u>> \in DOMAIN start.visible /\ valid(u)
        BY <1>14, <3>1, StampsFacts
      <4>2. Max(T) \in T
        BY <3>3, <4>1, MaxOfFinite, ZenonT(30)
      <4>3. PICK at : at = <<fam, col, Max(T)>>
        BY ZenonT(30)
      <4>4. at \in DOMAIN start.visible
        BY <4>1, <4>2, <4>3, ZenonT(30)
      <4>5. at[1] = fam
        BY <4>3
      <4>6. start.visible[at] \in KindValues(Kinds[fam])
        BY <1>14, <4>4, <4>5, ZenonT(30) DEF GoodRow
      <4>7. Previous(start, rule) = start.visible[at]
        BY <1>13, <3>1, <3>3, <4>3, ZenonT(30) DEF Previous
      <4>8. Kinds[fam] = "none"
        BY <1>13, ZenonT(30) DEF PlainRule
      <4>9. start.visible[at] \in PlainValues /\ start.visible[at][1] = "int"
        BY <2>5, <4>6, <4>7, <4>8, ZenonT(30) DEF KindValues
      <4>10. start.visible[at][2] \in Int
        BY <4>9 DEF PlainValues
      <4> QED
        BY <1>17, <4>7, <4>10, ZenonT(30)
    <3> QED
      BY <3>2, <3>3, ZenonT(30)
  <2> QED
    BY <1>13, <2>1, <2>4, <2>5, <2>6, ZenonT(30)
<1>19. ASSUME NEW i \in 1 .. Len(rs) - 1, Fine(i) PROVE Fine(i + 1)
  <2> SUFFICES ASSUME A[i + 1].ok PROVE old \in Int /\ s[i + 1] \in Int /\ Holds(A[i + 1], fam, col, t, Value(i + 1))
    OBVIOUS
  <2>1. i + 1 \in 1 .. Len(rs) /\ i \in 0 .. Len(rs) /\ (i + 1) - 1 = i
    BY <1>1
  <2>2. A[i].ok
    BY <1>8, <2>1
  <2>3. PICK st : st = A[i]
    OBVIOUS
  <2>4. PICK next : next = A[i + 1]
    OBVIOUS
  <2>5. PICK r : r = rs[i + 1]
    OBVIOUS
  <2>6. next = modify(st, r) /\ next.ok /\ GoodRow(st.visible)
    BY <1>4, <1>7, <2>1, <2>2, <2>3, <2>4, <2>5, ZenonT(30)
  <2>7. PlainRule(r) /\ r.fam = fam /\ r.col = col /\ r.op = "increment" /\ r.n \in Int
    BY <1>1, <1>6, <2>1, <2>5, ZenonT(30)
  <2>8. old \in Int /\ s[i] \in Int /\ Holds(st, fam, col, t, Value(i))
    BY <1>19, <2>2, <2>3
  <2>9. s[i + 1] = s[i] + r.n
    BY <1>5, <2>1, <2>5, ZenonT(30)
  <2>10. PICK v : v = Value(i)
    BY ZenonT(30)
  <2>11. Top(st.row, fam, col, t, v) /\ Top(st.visible, fam, col, t, v)
    BY <2>8, <2>10, ZenonT(30) DEF Holds
  <2>12. Previous(st, r) = v /\ WrittenTs(st, r) = t
    BY <1>3, <1>15, <2>6, <2>7, <2>11, ReadsTop, ZenonT(30)
  <2>13. v[2] = Wrap(old + s[i])
    BY <2>10
  <2>14. Holds(next, r.fam, r.col, t, <<"int", Wrap(v[2] + r.n)>>)
    <3>1. AtMost(st.row, fam, col, t) /\ AtMost(st.visible, fam, col, t)
      BY <2>11, ZenonT(30) DEF Top
    <3>2. v[2] = Previous(st, r)[2]
      BY <2>12
    <3> QED
      BY <1>2, <1>15, <2>6, <2>7, <2>12, <3>1, <3>2, IncrementStep, ZenonT(30)
  <2>15. Wrap(v[2] + r.n) = Wrap(old + s[i + 1])
    <3>1. old + s[i] \in Int /\ (old + s[i]) + r.n = old + s[i + 1]
      <4>1. PICK x : x = s[i]
        BY ZenonT(30)
      <4>2. PICK y : y = r.n
        BY ZenonT(30)
      <4>3. PICK z : z = s[i + 1]
        BY ZenonT(30)
      <4>4. old \in Int /\ x \in Int /\ y \in Int /\ z = x + y
        BY <2>7, <2>8, <2>9, <4>1, <4>2, <4>3, ZenonT(30)
      <4>5. old + x \in Int /\ (old + x) + y = old + z
        BY <4>4
      <4> QED
        BY <4>1, <4>2, <4>3, <4>5, ZenonT(30)
    <3>2. Wrap(Wrap(old + s[i]) + r.n) = Wrap((old + s[i]) + r.n)
      <4>1. PICK x : x = old + s[i]
        OBVIOUS
      <4>2. PICK y : y = r.n
        OBVIOUS
      <4>3. Wrap(Wrap(x) + y) = Wrap(x + y)
        <5>1. x \in Int /\ y \in Int
          BY <2>7, <3>1, <4>1, <4>2, ZenonT(30)
        <5> QED
          BY <5>1, WrapSum, ZenonT(30)
      <4> QED
        BY <4>1, <4>2, <4>3
    <3> QED
      BY <2>13, <3>1, <3>2
  <2>16. s[i + 1] \in Int
    <3>1. s[i] \in Int /\ r.n \in Int
      BY <2>7, <2>8, ZenonT(30)
    <3>2. \A x, y \in Int : x + y \in Int
      OBVIOUS
    <3> QED
      BY <2>9, <3>1, <3>2, ZenonT(30)
  <2> QED
    BY <2>4, <2>7, <2>8, <2>14, <2>15, <2>16, ZenonT(30)
<1> DEFINE k == Len(rs) - 1
           S == {i \in 0 .. k : Fine(i + 1)}
<1>20. k \in Nat /\ k + 1 = Len(rs) /\ k \in 0 .. k
  BY <1>1
<1>21. 0 \in S
  BY <1>18, <1>20
<1>22. ASSUME NEW i \in 0 .. k - 1, i \in S PROVE i + 1 \in S
  <2>1. i + 1 \in 1 .. Len(rs) - 1 /\ i + 1 \in 0 .. k
    BY <1>20
  <2>2. Fine(i + 1)
    BY <1>22
  <2> HIDE DEF Fine
  <2>3. Fine((i + 1) + 1)
    BY <1>19, <2>1, <2>2
  <2> QED
    BY <2>1, <2>3
<1>23. 0 .. k \subseteq S
  <2> HIDE DEF S, k
  <2> QED
    BY <1>20, <1>21, <1>22, UpToInduction, ZenonT(30)
<1>24. Fine(Len(rs))
  <2> HIDE DEF Fine, k
  <2>1. Fine(k + 1)
    BY <1>20, <1>23, ZenonT(30)
  <2> QED
    BY <1>20, <2>1
<1> QED
  BY <1>15, <1>24, ZenonT(30)

\* The row after has the sum on top of the column.
SumOnTop(after, fam, col, old, rs) ==
    after[<<fam, col, Newest(after, fam, col)>>] = <<"int", Wrap(old + Total(rs))>>

(* For any rules, rows and increments of one column by one request: they add *)
(* up on top of the value a read would have returned, wrapping around at 64  *)
(* bits, and the collection that follows keeps the result as the newest cell *)
(* (ReadModifyWriteRow, stage).                                              *)
THEOREM IncrementsSum == Spec => []IncrementsAddUp
<1>1. ASSUME IInv PROVE IncrementsAddUp
  <2>1. ASSUME NEW rs \in RuleLists, validateRules(rs), OneColumnIncrements(rs), modifyAll(rs).ok,
               NEW fam, fam = rs[1].fam, NEW col, col = rs[1].col,
               NEW after, after = stage(Unstaged(row), modifyAll(rs)).row,
               NEW old, old = ReadValue(gc(row, clock), fam, col)
        PROVE  SumOnTop(after, fam, col, old, rs)
    <3>1. PICK A : A = Modify(rs)
      OBVIOUS
    <3>2. PICK s : s = Sums(rs)
      OBVIOUS
    <3>3. /\ Len(rs) \in Nat \ {0}
          /\ \A i \in 1 .. Len(rs) : PlainRule(rs[i])
      BY <2>1, RulesPlain
    <3>4. PICK applied : applied = modifyAll(rs)
      OBVIOUS
    <3>5. applied = A[Len(rs)]
      BY <3>1, <3>3, <3>4, ModifyDef, ZenonT(30)
    <3>6. Total(rs) = s[Len(rs)]
      BY <3>2, <3>3, SumDef
    <3>7. clock \in Nat /\ rules \in [Fams -> Rules] /\ GoodRow(row)
      BY <1>1, RowAssumption DEF IInv, RowInv
    <3>8. A[Len(rs)].ok
      BY <2>1, <3>4, <3>5
    <3>9. GoodRow(applied.row)
      <4>1. Len(rs) \in 0 .. Len(rs)
        BY <3>3
      <4>2. Tracks(row, applied.row, applied.changes)
        BY <2>1, <3>1, <3>5, <3>7, <3>8, <4>1, ModifyTracks, ZenonT(30)
      <4> QED
        BY <4>2 DEF Tracks
    <3>10. PICK v : v = <<"int", Wrap(old + Total(rs))>>
      BY ZenonT(30)
    <3>11. PICK t \in Nat : newTimestamp =< t /\ Holds(applied, fam, col, t, v)
      <4>1. \E t \in Nat : newTimestamp =< t /\ Holds(A[Len(rs)], fam, col, t, <<"int", Wrap(old + s[Len(rs)])>>)
        BY <1>1, <2>1, <3>1, <3>2, <3>8, IncrementsHold, ZenonT(30)
      <4> QED
        BY <3>5, <3>6, <3>10, <4>1, ZenonT(30)
    <3>12. PICK candidate : candidate = Candidate(applied)
      OBVIOUS
    <3>13. fam \in Fams
      <4>1. 1 \in 1 .. Len(rs)
        BY <3>3
      <4> QED
        BY <2>1, <3>3, <4>1, ZenonT(30) DEF PlainRule
    <3>14. GoodRow(candidate) /\ Top(candidate, fam, col, t, v)
      <4>1. PICK X : X = {a \in DOMAIN applied.row : a[1] \notin Fams}
        BY ZenonT(30)
      <4>2. candidate = Without(applied.row, X)
        BY <3>12, <4>1, ZenonT(30) DEF Candidate
      <4>3. <<fam, col, t>> \notin X
        BY <3>13, <4>1, ZenonT(30)
      <4> QED
        BY <3>9, <3>11, <4>2, <4>3, TopWithout, WithoutGood, ZenonT(30) DEF Holds
    <3>15. after = gc(candidate, clock)
      <4>1. PICK c : c = stage(Unstaged(row), applied)
        OBVIOUS
      <4>2. Staged(c, Unstaged(row), applied, candidate)
        BY <3>12, <4>1, StageFields, ZenonT(30)
      <4> QED
        BY <2>1, <3>4, <4>1, <4>2, ZenonT(30) DEF Staged
    <3>16. Top(after, fam, col, t, v) /\ GoodRow(after)
      BY <3>7, <3>11, <3>13, <3>14, <3>15, TopGc, WithoutGood, ZenonT(30) DEF gc
    <3>17. Newest(after, fam, col) = t
      BY <3>16, TopNewest
    <3> QED
      BY <3>10, <3>16, <3>17 DEF Top, SumOnTop
  <2>2. ASSUME NEW rs \in RuleLists, validateRules(rs) /\ OneColumnIncrements(rs) /\ modifyAll(rs).ok
        PROVE  stage(Unstaged(row), modifyAll(rs)).row[<<rs[1].fam, rs[1].col,
                   Newest(stage(Unstaged(row), modifyAll(rs)).row, rs[1].fam, rs[1].col)>>]
                 = <<"int", Wrap(ReadValue(gc(row, clock), rs[1].fam, rs[1].col) + Total(rs))>>
    <3>1. PICK fam : fam = rs[1].fam
      OBVIOUS
    <3>2. PICK col : col = rs[1].col
      OBVIOUS
    <3>3. PICK after : after = stage(Unstaged(row), modifyAll(rs)).row
      OBVIOUS
    <3>4. PICK old : old = ReadValue(gc(row, clock), fam, col)
      OBVIOUS
    <3>5. after[<<fam, col, Newest(after, fam, col)>>] = <<"int", Wrap(old + Total(rs))>>
      <4>1. SumOnTop(after, fam, col, old, rs)
        BY <2>1, <2>2, <3>1, <3>2, <3>3, <3>4, ZenonT(30)
      <4> QED
        BY <4>1 DEF SumOnTop
    <3> QED
      BY <3>1, <3>2, <3>3, <3>4, <3>5, ZenonT(30)
  <2>3. \A rs \in RuleLists :
          validateRules(rs) /\ OneColumnIncrements(rs) /\ modifyAll(rs).ok =>
            stage(Unstaged(row), modifyAll(rs)).row[<<rs[1].fam, rs[1].col,
                Newest(stage(Unstaged(row), modifyAll(rs)).row, rs[1].fam, rs[1].col)>>]
              = <<"int", Wrap(ReadValue(gc(row, clock), rs[1].fam, rs[1].col) + Total(rs))>>
    BY <2>2, ZenonT(30)
  <2> QED
    BY <2>3, ZenonT(30) DEF IncrementsAddUp, ReadValue
<1> QED
  BY <1>1, Inductive, PTL
=============================================================================
