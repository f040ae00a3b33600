------------------------------ MODULE ViewPolicy -----------------------------
(* The policy of authorized views (targets.go).  A view has row prefixes,    *)
(* and for some families qualifiers and prefixes; row keys and qualifiers    *)
(* are sequences, a row the set of its columns <<family, qualifier>>.        *)
EXTENDS KeyRanges

rowAllowed(view, key) == \E p \in view.rowPrefixes : HasPrefix(key, p)

cellAllowed(view, fam, col) ==
  /\ fam \in DOMAIN view.families
  /\ \/ col \in view.families[fam].qualifiers
     \/ \E p \in view.families[fam].prefixes : HasPrefix(col, p)

\* Mutant: some prefix is enough to delete the family.
familyPartlyAllowed(view, fam) ==
  fam \in DOMAIN view.families /\ view.families[fam].prefixes # {}

familyFullyAllowed(view, fam) ==
  fam \in DOMAIN view.families /\ <<>> \in view.families[fam].prefixes

restrict(view, key, row) ==
  IF rowAllowed(view, key) THEN {c \in row : cellAllowed(view, c[1], c[2])} ELSE {}

\* A SetCell, AddToCell, MergeToCell, DeleteFromColumn or rule names a column;
\* DeleteFromRow is refused.
mutationAllowed(view, m) ==
  \/ m.op \in {"set", "deleteColumn"} /\ cellAllowed(view, m.fam, m.col)
  \/ m.op = "deleteFamily" /\ familyFullyAllowed(view, m.fam)

checkMutations(view, key, muts) ==
  rowAllowed(view, key) /\ \A i \in DOMAIN muts : mutationAllowed(view, muts[i])

\* The columns of a row after a mutation (mutation_engine.go).
touched(row, m) ==
  CASE m.op = "set" -> row \cup {<<m.fam, m.col>>}
    [] m.op = "deleteColumn" -> row \ {<<m.fam, m.col>>}
    [] m.op = "deleteFamily" -> {c \in row : c[1] # m.fam}
    [] m.op = "deleteRow" -> {}

\* The columns after all of them, in order.
rowAfter(row, muts) ==
  LET done[i \in 0..Len(muts)] == IF i = 0 THEN row ELSE touched(done[i - 1], muts[i])
  IN done[Len(muts)]

\* A write through a view that is let through leaves every column the view does
\* not show as it was, and adds none that it does not show.
StaysInView(view, key, row, muts) ==
  checkMutations(view, key, muts) =>
    LET after == rowAfter(row, muts)
    IN after \ restrict(view, key, after) = row \ restrict(view, key, row)
=============================================================================
