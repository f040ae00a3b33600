----------------------------- MODULE MCClients -----------------------------
(* Clients that repeat their requests: writers that retry under idempotency  *)
(* tokens, and administrators that read, change and write back.  The two     *)
(* share no state, and each behaviour is of one of them.                     *)
EXTENDS WriteRequests, NamedResources, TLC

CONSTANTS once, plain, bad, a1, a2, c1, c2

VARIABLE who    \* "writers" or "administrators"

MCBatches == {<<once>>, <<bad>>, <<once, once>>, <<plain, plain>>, <<bad, once>>}
MCKindOf == <<"view", "logical">>

Symmetry == Permutations(Attempts) \cup Permutations(Clients)

InitClients == Init /\ InitResources /\ who \in {"writers", "administrators"}

NextClients ==
  /\ \/ who = "writers" /\ Next /\ UNCHANGED resourceVars
     \/ who = "administrators" /\ NextResources /\ UNCHANGED vars
  /\ UNCHANGED who

SpecClients == InitClients /\ [][NextClients]_<<vars, resourceVars, who>>
=============================================================================
