------------------------------- MODULE EventSync --------------------------------
(***************************************************************************)
(* ledger/pairing.py::sync_events as concurrent calls for one user, each   *)
(* in its caller's transaction, beside the transactions that land fills    *)
(* (ingest/schwab_sync.py::sync_user, module Ingest) and the writer of     *)
(* legs.  Postgres is read-committed: every statement reads what is        *)
(* committed then.                                                         *)
(***************************************************************************)
EXTENDS Pairing

CONSTANTS
    Callers,
    Deliveries,  \* the sets of fills one sync lands together
    FirstLegs,   \* legs known from the start
    LaterLegs,   \* legs that may be added at any time
    Scopes,      \* values of order_ids, None for a full sweep
    MaxCalls     \* bound of the model

ASSUME EventSyncAssumption ==
    /\ None \notin Callers
    /\ Deliveries \subseteq SUBSET Fills
    /\ FirstLegs \subseteq Leg /\ LaterLegs \subseteq Leg
    /\ Scopes \subseteq (SUBSET Orders) \cup {None}
    /\ MaxCalls \in Nat

VARIABLES
    legs,    \* legs table
    fills,   \* fills table
    events,  \* events table
    lock,    \* holder of pg_advisory_xact_lock(hashtext(user_id))
    calls,   \* number of calls begun
    call     \* the local state of each call

vars == <<legs, fills, events, lock, calls, call>>

DerivedEvent == [position : Positions, type : Roles, hash : SUBSET Fills,
                 amount : Int \cup {None}]

\* A stored row has a random id of its own.  The drafts of one call are told
\* apart by their keys, so the number of the call is enough for an id.
EventRow == [id : Nat, event : DerivedEvent]
Key(e) == <<e.position, e.type, e.hash>>

IdleCall == [pc |-> "idle", id |-> 0, scope |-> None,
             res |-> [f \in Fills |-> None], derived |-> {}, drafts |-> {}]

TypeOK ==
    /\ legs \subseteq Leg
    /\ fills \subseteq Fills
    /\ events \subseteq EventRow
    /\ lock \in Callers \cup {None}
    /\ calls \in Nat
    /\ call \in [Callers ->
          [pc : {"idle", "waiting", "locked", "resolved", "derived", "written"},
           id : Nat, scope : (SUBSET Orders) \cup {None},
           res : [Fills -> Positions \cup {None}],
           derived : SUBSET DerivedEvent, drafts : SUBSET DerivedEvent]]

Init ==
    /\ legs = FirstLegs
    /\ fills = {}
    /\ events = {}
    /\ lock = None
    /\ calls = 0
    /\ call = [d \in Callers |-> IdleCall]

--------------------------------------------------------------------------------
\* A position is entered: no code under src writes legs yet, and no lock is named
\* for it.
AddLeg(leg) ==
    /\ leg \in LaterLegs \ legs
    /\ legs' = legs \cup {leg}
    /\ UNCHANGED <<fills, events, lock, calls, call>>

\* A sync_user transaction from lock to commit, seen from here.
LandFills(delivery) ==
    /\ lock = None
    /\ ~(delivery \subseteq fills)
    /\ fills' = fills \cup delivery
    /\ UNCHANGED <<legs, events, lock, calls, call>>

\* sync_events is called with its order_ids.
Begin(d, scope) ==
    /\ call[d].pc = "idle"
    /\ calls < MaxCalls
    /\ calls' = calls + 1
    /\ call' = [call EXCEPT ![d] = [IdleCall EXCEPT !.pc = "waiting",
                                                    !.id = calls + 1,
                                                    !.scope = scope]]
    /\ UNCHANGED <<legs, fills, events, lock>>

\* Mutant of AcquireLock: the lock is not taken.
AcquireLockFree(d) ==
    /\ call[d].pc = "waiting"
    /\ lock' = d
    /\ call' = [call EXCEPT ![d].pc = "locked"]
    /\ UNCHANGED <<legs, fills, events, calls>>

AcquireLock(d) ==
    /\ call[d].pc = "waiting"
    /\ lock = None
    /\ lock' = d
    /\ call' = [call EXCEPT ![d].pc = "locked"]
    /\ UNCHANGED <<legs, fills, events, calls>>

\* resolve_fill_positions: one statement over every leg and fill of the user.
ResolveFills(d) ==
    /\ call[d].pc = "locked"
    /\ call' = [call EXCEPT ![d].pc = "resolved",
                            ![d].res = Resolve(legs, fills)]
    /\ UNCHANGED <<legs, fills, events, lock, calls>>

\* read_fills, the filter on order_ids, and derive_events.
Derive(d) ==
    /\ call[d].pc = "resolved"
    /\ call' = [call EXCEPT ![d].pc = "derived",
                            ![d].derived = DeriveEvents(InScope(fills, call[d].scope),
                                                        call[d].res)]
    /\ UNCHANGED <<legs, fills, events, lock, calls>>

\* Mutant of Absent: a stored event of the same position and type is enough to
\* skip a draft.
AbsentByType(derived) ==
    {e \in derived : \A row \in events : row.event.position # e.position
                                         \/ row.event.type # e.type}

\* Read-compare-skip: the drafts whose triple is not stored.
Absent(derived) ==
    {e \in derived : \A row \in events : Key(row.event) # Key(e)}

\* read_events, then insert_events of the drafts, in the caller's transaction.
Write(d) ==
    /\ call[d].pc = "derived"
    /\ call' = [call EXCEPT ![d].pc = "written",
                            ![d].drafts = Absent(call[d].derived)]
    /\ UNCHANGED <<legs, fills, events, lock, calls>>

\* The caller commits.
Commit(d) ==
    /\ call[d].pc = "written"
    /\ events' = events \cup {[id |-> call[d].id, event |-> e] : e \in call[d].drafts}
    /\ lock' = None
    /\ call' = [call EXCEPT ![d] = IdleCall]
    /\ UNCHANGED <<legs, fills, calls>>

\* Any statement fails, or the caller rolls back or dies.
Rollback(d) ==
    /\ call[d].pc \notin {"idle", "waiting"}
    /\ lock' = None
    /\ call' = [call EXCEPT ![d] = IdleCall]
    /\ UNCHANGED <<legs, fills, events, calls>>

Next ==
    \/ \E leg \in LaterLegs : AddLeg(leg)
    \/ \E delivery \in Deliveries : LandFills(delivery)
    \/ \E d \in Callers, scope \in Scopes : Begin(d, scope)
    \/ \E d \in Callers : AcquireLock(d) \/ ResolveFills(d) \/ Derive(d)
    \/ \E d \in Callers : Write(d) \/ Commit(d) \/ Rollback(d)

Spec == Init /\ [][Next]_vars

--------------------------------------------------------------------------------
(* Properties.                                                             *)

\* CR-02, LEDGER-09: however calls overlap and whatever their scopes, one OPEN or
\* CLOSE of one set of fills is stored once.
NoDuplicateEvents ==
    \A r, s \in events : Key(r.event) = Key(s.event) => r = s

\* Every call, also one between whose statements legs were added, derives from
\* one state of the fills: what it is about to store covers its scope, and what
\* it skipped is stored.
NothingSkipped ==
    \A d \in Callers : call[d].pc = "written" =>
        LET stored == {Key(r.event) : r \in events}
                        \cup {Key(e) : e \in call[d].drafts} IN
        \A e \in DeriveEvents(InScope(fills, call[d].scope), call[d].res) :
            Key(e) \in stored

\* L061: an event only holds fills of one order and one effect whose symbols are
\* legs of its own position, also when the fill's symbol is shared with a sibling
\* position.
EventsOnOwnLegs ==
    \A r \in events :
        LET e == r.event IN
        /\ e.hash # {}
        /\ \A f \in e.hash : /\ f \in fills
                             /\ <<e.position, SymbolOf[f]>> \in legs
                             /\ ClassifyFill(EffectOf[f]) = e.type
        /\ \A f, g \in e.hash : OrderOf[f] = OrderOf[g]

\* LEDGER-01: re-deriving one order in its own scope gives the rows of a full
\* sweep, for every order and whatever the legs are.
ScopeEqualsSweep ==
    LET res == Resolve(legs, fills) IN
    \A o \in Orders :
        DeriveEvents(InScope(fills, {o}), res)
          = {e \in DeriveEvents(fills, res) : \A f \in e.hash : OrderOf[f] = o}

Cash(f) == IF SideOf[f] = "BUY" THEN AmountOf[f] ELSE -AmountOf[f]
Gap(f) == AmountOf[f] = None \/ SideOf[f] \notin {"BUY", "SELL"}

\* NN-10, NN-16: a stored OPEN event has the cash that went out with the fills it
\* holds, a CLOSE event the cash that came back with them, and an amount is missing
\* exactly where one of the fills has none.
MoneyConserved ==
    \A r \in events :
        LET e == r.event
            cash == MapThenSumSet(Cash, e.hash) IN
        IF \E f \in e.hash : Gap(f) THEN e.amount = None
        ELSE e.amount = IF e.type = "OPEN" THEN cash ELSE -cash

\* A fill is counted by one event.
EachFillCountedOnce ==
    \A r, s \in events :
        r.event.hash \cap s.event.hash # {} => r = s

\* L061: where the fills of an order land apart a fill may be counted by two rows (the
\* "Honest limit" of sync_events), but until a leg is added these are rows of one
\* position and one type: a second anchor takes the fill from the position it was
\* given to and never gives it to another.
OverlapsOnOnePosition ==
    legs = FirstLegs =>
        \A r, s \in events : r.event.hash \cap s.event.hash # {} =>
            r.event.position = s.event.position /\ r.event.type = s.event.type

\* What one call derives from the legs, the fills and its order_ids.
DerivedFrom(known, S, scope) == DeriveEvents(InScope(S, scope), Resolve(known, S))

Book == INSTANCE EventBook WITH
    book <- events, Ids <- 1..MaxCalls, Derived <- DerivedFrom

\* LEDGER-09, CR-02: however calls overlap, roll back or repeat, the table changes as
\* if each committed call had run at one instant, from one state of the fills and of
\* the table.
ImplementsBook == Book!Spec
================================================================================
