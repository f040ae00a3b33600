---------------------------- MODULE MCViewReads -----------------------------
(* What the readers of a materialized view have been promised when they      *)
(* begin, observed beside MaterializedView.                                  *)
EXTENDS MaterializedView, FiniteSetsExt

VARIABLES
    acked,          \* newest source commit a client was told of
    need            \* acked when the handler's read or creation began

ReadsInit == Init /\ acked = 0 /\ need = [h \in Handlers |-> 0]

ReadsNext ==
    /\ Next
    /\ acked' = Max({acked} \cup {ver[h] : h \in {w \in Handlers : afterCommit(w)}})
    /\ need' = [h \in Handlers |->
                  IF materializedViewTarget(h) \/ CreateMaterializedView(h) THEN acked ELSE need[h]]

ReadsSpec == ReadsInit /\ [][ReadsNext]_<<vars, acked, need>>

\* "Reads therefore observe every committed source write" (CMV_SUPPORT.md): a
\* read returns every write acknowledged before the read began, unless the
\* view is gone meanwhile.  Not so: readable returns at once when the flag is
\* clear, and the refresh that cleared it may still be running.
ReadsSeeAcknowledgedWrites ==
    [][\A h \in Handlers : ReadView(h) /\ at[h] = mvs => mvRows >= need[h]]_<<vars, acked, need>>
=============================================================================
