----------------------------- MODULE MCBackups -----------------------------
(* An instance of Backups for TLC: one instance with two clusters, one of    *)
(* which holds two backups.                                                  *)
EXTENDS Backups, TLC

MCNames == {<<"i", "c1", "b1">>, <<"i", "c1", "b2">>}
MCTables == {<<"i", "t">>}
MCMaxPerTable == [k \in Kinds |-> 1]
MCMaxRetention == [e \in Editions |-> IF e = "ENTERPRISE" THEN 2 ELSE 3]

\* No definition tells one column family from another.
MCSymmetry == Permutations(Fams)
=============================================================================
