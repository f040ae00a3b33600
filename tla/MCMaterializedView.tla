------------------------- MODULE MCMaterializedView -------------------------
(* The instance of MaterializedView for TLC. *)
EXTENDS MaterializedView

\* A view takes a name only when no request works on an earlier view of that
\* name any more: a refresh that outlives its view overwrites the rows of its
\* successor (materialized_views.go:405).
Successive ==
    mvs' # mvs /\ mvs' # None =>
        \A h \in Handlers : at'[h] # None /\ pc'[h] # "register" => at'[h] = mvs'

SuccessiveSpec == Init /\ [][Next /\ Successive]_vars /\ Fairness
=============================================================================
