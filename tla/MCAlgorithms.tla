---------------------------- MODULE MCAlgorithms ----------------------------
(* The pure algorithms of the server in one run, and its lock order: the     *)
(* input of kind "locks" is the state of LockOrder, whose steps it takes.    *)
EXTENDS MCReads, MCQueryEngine

Locking == INSTANCE LockOrder WITH Handlers <- 1..2, Tables <- {"t"}, at <- input

TakeLocks == Take("locks") /\ input' = Locking!AllIdle
StepLocks == taken("locks") /\ Locking!Next /\ UNCHANGED <<kind, stage>>

\* However two requests interleave, one that is being served goes on: the
\* handlers take s.mu, tbl.mu, a view's refreshMu and the only connection of the
\* database in an order that never closes a circle (storage.go, withTx).
NoDeadlock == taken("locks") => Locking!NoDeadlock

Kinds == ReadKinds \cup QueryKinds \cup {"locks"}
Init == kind \in Kinds /\ stage = "idle" /\ input = <<>>
Next == NextRead \/ NextQuery \/ TakeLocks \/ StepLocks \/ Back
Spec == Init /\ [][Next]_vars
=============================================================================
