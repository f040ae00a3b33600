---------------------------- MODULE TableService ----------------------------
(***************************************************************************)
(* What the table admin and data services promise about ONE table name,    *)
(* seen by clients: at most one live table of that name, the tombstones of *)
(* earlier incarnations keyed by deletion time, and the requests that the  *)
(* server has accepted and not yet carried out.  Storage identifiers,      *)
(* pointers, locks and transactions do not appear here; TableLifecycle is  *)
(* shown to implement this module.                                         *)
(***************************************************************************)
EXTENDS Integers

CONSTANTS Handlers, Fams, Views, Window, MaxTime, None

VARIABLES clock, live, tombs, pending

vars == <<clock, live, tombs, pending>>

Times == 0 .. MaxTime

Table == [fams : SUBSET Fams, rows : SUBSET Fams, views : SUBSET Views,
          prot : BOOLEAN, created : Times]

Idle == [op |-> "idle", at |-> 0]

Init ==
    /\ clock = 0
    /\ live = None
    /\ tombs = [t \in Times |-> None]
    /\ pending = [h \in Handlers |-> Idle]

Tick ==
    /\ clock < MaxTime
    /\ clock' = clock + 1
    /\ UNCHANGED <<live, tombs, pending>>

Create(F, b) ==
    /\ live = None
    /\ live' = [fams |-> F, rows |-> {}, views |-> {}, prot |-> b,
                created |-> clock]
    /\ UNCHANGED <<clock, tombs, pending>>

\* A request names the table that is live when it is accepted.
Accept(h, op) ==
    /\ pending[h] = Idle
    /\ live # None
    /\ pending' = [pending EXCEPT ![h] = [op |-> op, at |-> clock]]
    /\ UNCHANGED <<clock, live, tombs>>

\* How a carried-out request may change the table it was accepted for: data
\* stays inside known families, a dropped family takes its data along.
Effect(op, T, U) ==
    \/ U = T
    \/ /\ op = "write"
       /\ \E f \in T.fams :
            \/ U = [T EXCEPT !.rows = @ \union {f}]
            \/ U = [T EXCEPT !.rows = @ \ {f}]
    \/ op = "drop"   /\ U = [T EXCEPT !.rows = {}]
    \/ op = "update" /\ \E b \in BOOLEAN : U = [T EXCEPT !.prot = b]
    \/ /\ op = "families"
       /\ \E D, C \in SUBSET Fams :
            U = [T EXCEPT !.fams = (@ \ D) \union C, !.rows = @ \ D]
    \/ op = "view"   /\ \E v \in Views : U = [T EXCEPT !.views = @ \union {v}]

\* The request takes effect on the incarnation it was accepted for: the live
\* table, unless it was created later, or a tombstone deleted in the meantime.
CarryOut(h) ==
    /\ pending[h] # Idle
    /\ \/ /\ live # None
          /\ live.created =< pending[h].at
          /\ live' \in Table
          /\ Effect(pending[h].op, live, live')
          /\ UNCHANGED tombs
       \/ \E t \in Times :
            /\ tombs[t] # None
            /\ t > pending[h].at
            /\ tombs[t].created =< pending[h].at
            /\ \E U \in Table :
                 /\ Effect(pending[h].op, tombs[t], U)
                 /\ tombs' = [tombs EXCEPT ![t] = U]
            /\ UNCHANGED live
    /\ pending' = [pending EXCEPT ![h] = Idle]
    /\ UNCHANGED clock

\* Soft delete: the whole table becomes a tombstone dated now.
Delete ==
    /\ live # None
    /\ clock < MaxTime
    /\ clock' = clock + 1
    /\ tombs' = [tombs EXCEPT ![clock + 1] = live]
    /\ live' = None
    /\ UNCHANGED pending

\* The newest tombstone comes back whole, with deletion protection on.
Undelete ==
    /\ live = None
    /\ \E t \in Times :
         /\ tombs[t] # None
         /\ \A u \in Times : tombs[u] # None => u =< t
         /\ clock - t =< Window
         /\ live' = [tombs[t] EXCEPT !.prot = TRUE]
         /\ tombs' = [tombs EXCEPT ![t] = None]
    /\ UNCHANGED <<clock, pending>>

\* Only tombstones past the undelete window are forgotten.
Purge ==
    /\ \E S \in SUBSET {t \in Times : clock - t > Window} :
         tombs' = [t \in Times |-> IF t \in S THEN None ELSE tombs[t]]
    /\ UNCHANGED <<clock, live, pending>>

DropView(v) ==
    /\ live # None
    /\ live' = [live EXCEPT !.views = @ \ {v}]
    /\ UNCHANGED <<clock, tombs, pending>>

DeleteInstance ==
    /\ live' = None
    /\ tombs' = [t \in Times |-> None]
    /\ UNCHANGED <<clock, pending>>

\* A restart drops the requests in flight and nothing else.
Restart ==
    /\ pending' = [h \in Handlers |-> Idle]
    /\ UNCHANGED <<clock, live, tombs>>

Reject(h) ==
    /\ pending' = [pending EXCEPT ![h] = Idle]
    /\ UNCHANGED <<clock, live, tombs>>

Next ==
    \/ Tick
    \/ \E F \in SUBSET Fams, b \in BOOLEAN : Create(F, b)
    \/ \E h \in Handlers :
         \/ \E op \in {"write", "drop", "update", "families", "view"} : Accept(h, op)
         \/ CarryOut(h)
         \/ Reject(h)
    \/ Delete
    \/ Undelete
    \/ Purge
    \/ \E v \in Views : DropView(v)
    \/ DeleteInstance
    \/ Restart

Spec == Init /\ [][Next]_vars
=============================================================================
