-------------------------------- MODULE EventBook -------------------------------
(***************************************************************************)
(* What sync_events promises its callers, without locks, transactions or   *)
(* calls in progress: every sync happens at one instant.  It enters what   *)
(* the fills of its scope derive and the book does not have, all in one    *)
(* piece, and nothing is ever changed or taken out.  Only the legs it goes *)
(* by may be a little old, since no lock covers them.                      *)
(***************************************************************************)
CONSTANTS
    FirstLegs, LaterLegs, Deliveries, Scopes,
    Ids,              \* ids of syncs
    Derived(_, _, _)  \* the events of some legs, fills and scope

VARIABLES legs, fills, book

vars == <<legs, fills, book>>

Init ==
    /\ legs = FirstLegs
    /\ fills = {}
    /\ book = {}

Enter(leg) ==
    /\ legs' = legs \cup {leg}
    /\ UNCHANGED <<fills, book>>

Land(delivery) ==
    /\ fills' = fills \cup delivery
    /\ UNCHANGED <<legs, book>>

Missing(known, scope) == Derived(known, fills, scope) \ {r.event : r \in book}

Sync(id, known, scope) ==
    /\ FirstLegs \subseteq known
    /\ \A r \in book : r.id # id
    /\ book' = book \cup {[id |-> id, event |-> e] : e \in Missing(known, scope)}
    /\ UNCHANGED <<legs, fills>>

Next ==
    \/ \E leg \in LaterLegs : Enter(leg)
    \/ \E delivery \in Deliveries : Land(delivery)
    \/ \E id \in Ids, known \in SUBSET legs, scope \in Scopes : Sync(id, known, scope)

Spec == Init /\ [][Next]_vars
================================================================================
