------------------------------- MODULE Cases --------------------------------
(* How a pure algorithm is checked: from the idle state of its kind one step *)
(* takes an input of a small set, an invariant compares what the code        *)
(* computes for it with a reference definition, and a step leads back.       *)
EXTENDS Naturals, Sequences

VARIABLES kind, stage, input
vars == <<kind, stage, input>>

Take(k) == kind = k /\ stage = "idle" /\ stage' = "taken" /\ UNCHANGED kind
taken(k) == kind = k /\ stage = "taken"

Back == stage = "taken" /\ stage' = "idle" /\ input' = <<>> /\ UNCHANGED kind

SeqsUpTo(S, n) == UNION {[1..k -> S] : k \in 0..n}
=============================================================================
