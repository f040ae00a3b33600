-------------------------- MODULE MCTableLifecycle --------------------------
(* Instances of TableLifecycle for TLC. *)
EXTENDS TableLifecycle, TLC

Symmetry == Permutations(Handlers)

\* An object nothing points to cannot be seen again: what it holds does not
\* tell two states apart.
HeapView == <<clock, mu, tables, deletedTables,
              [p \in Ptrs |-> IF Reachable(p) THEN obj[p] ELSE Blank],
              tables_t, rows_t, authorized_views_t, req>>
=============================================================================
