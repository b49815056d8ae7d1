--------------------------- MODULE EventSync_proofs -----------------------------
(***************************************************************************)
(* Proofs about event derivation, for any fills, legs, positions, orders   *)
(* and callers.                                                            *)
(***************************************************************************)
EXTENDS EventSync, Sums_proofs, TLAPS

--------------------------------------------------------------------------------
(* The pure core.                                                          *)

\* The fills of one group in the scope of an order are those of the sweep's group
\* of that order, and there is no other group.
LEMMA GroupInScope ==
    ASSUME NEW S, NEW res, NEW p, NEW role, NEW n, NEW o \in Orders
    PROVE  Group(InScope(S, {o}), res, p, role, n)
             = IF n = o THEN Group(S, res, p, role, o) ELSE {}
<1>1. InScope(S, {o}) = {f \in S : OrderOf[f] = o}
    BY PairingAssumption DEF InScope
<1> QED BY <1>1 DEF Group

\* derive_events over the fills of one order gives exactly the full sweep's events
\* of that order, for every set of fills and every resolution.
THEOREM ScopeIsSweep ==
    ASSUME NEW S, NEW res, NEW o \in Orders
    PROVE  DeriveEvents(InScope(S, {o}), res)
             = {e \in DeriveEvents(S, res) : \A f \in e.hash : OrderOf[f] = o}
<1> DEFINE T == InScope(S, {o})
           L == DeriveEvents(T, res)
           R == {e \in DeriveEvents(S, res) : \A f \in e.hash : OrderOf[f] = o}
<1>0. \A p, role, g : EventOf(p, role, g).hash = g
    BY DEF EventOf
<1>1. ASSUME NEW e \in L PROVE e \in R
    <2>1. PICK p \in Positions, role \in Roles, n \in Orders :
            e = EventOf(p, role, Group(T, res, p, role, n)) /\ e.hash # {}
        BY DEF DeriveEvents
    <2>2. Group(T, res, p, role, n) # {}
        BY <1>0, <2>1
    <2>3. n = o /\ Group(T, res, p, role, n) = Group(S, res, p, role, o)
        BY <2>2, GroupInScope
    <2>4. e = EventOf(p, role, Group(S, res, p, role, o))
        BY <2>1, <2>3
    <2>5. \A f \in e.hash : OrderOf[f] = o
        BY <1>0, <2>4 DEF Group
    <2> QED BY <2>1, <2>4, <2>5 DEF DeriveEvents
<1>2. ASSUME NEW e \in R PROVE e \in L
    <2>1. PICK p \in Positions, role \in Roles, n \in Orders :
            e = EventOf(p, role, Group(S, res, p, role, n)) /\ e.hash # {}
        BY DEF DeriveEvents
    <2>2. n = o
        BY <1>0, <2>1 DEF Group
    <2>3. Group(T, res, p, role, o) = Group(S, res, p, role, o)
        BY GroupInScope
    <2>4. e = EventOf(p, role, Group(T, res, p, role, o))
        BY <2>1, <2>2, <2>3
    <2> QED BY <2>1, <2>4 DEF DeriveEvents
<1> QED BY <1>1, <1>2

\* A run of derive_events scoped to one order gives the sweep's rows in every
\* state of the system.
THEOREM SpecScopeEqualsSweep == Spec => []ScopeEqualsSweep
<1>1. ScopeEqualsSweep
    BY ScopeIsSweep DEF ScopeEqualsSweep
<1> QED BY <1>1, PTL

\* Events as derive_events builds them: the amount is a function of the group and
\* the role, so the key determines the event.
Derivable == {EventOf(p, role, g) : p \in Positions, role \in Roles, g \in SUBSET Fills}

\* The key compared by sync_events (position, type, hash) names one derived event,
\* because the amounts are determined by the fills of the group.
LEMMA KeyInjective ==
    ASSUME NEW e \in Derivable, NEW f \in Derivable, Key(e) = Key(f)
    PROVE  e = f
<1>1. PICK p \in Positions, role \in Roles, g \in SUBSET Fills : e = EventOf(p, role, g)
    BY DEF Derivable
<1>2. PICK q \in Positions, type \in Roles, h \in SUBSET Fills : f = EventOf(q, type, h)
    BY DEF Derivable
<1>3. e.position = p /\ e.type = role /\ e.hash = g
    BY <1>1 DEF EventOf
<1>4. f.position = q /\ f.type = type /\ f.hash = h
    BY <1>2 DEF EventOf
<1>5. p = q /\ role = type /\ g = h
    BY <1>3, <1>4 DEF Key
<1> QED BY <1>1, <1>2, <1>5

\* A group of fills of the user is a set of fills of the user.
LEMMA DerivedIsDerivable ==
    ASSUME NEW S \in SUBSET Fills, NEW scope, NEW res
    PROVE  DeriveEvents(InScope(S, scope), res) \subseteq Derivable
<1>1. \A p, role, o : Group(InScope(S, scope), res, p, role, o) \in SUBSET Fills
    BY DEF Group, InScope
<1> QED BY <1>1 DEF DeriveEvents, Derivable

\* resolve_fill_positions only names positions that have a leg of the fill's symbol.
LEMMA ResolveFacts ==
    ASSUME NEW L, NEW S
    PROVE  /\ Resolve(L, S) \in [Fills -> Positions \cup {None}]
           /\ \A f \in Fills : Resolve(L, S)[f] # None =>
                 f \in S /\ <<Resolve(L, S)[f], SymbolOf[f]>> \in L
<1> SUFFICES ASSUME NEW f \in Fills
             PROVE  /\ Resolve(L, S)[f] \in Positions \cup {None}
                    /\ Resolve(L, S)[f] # None =>
                          f \in S /\ <<Resolve(L, S)[f], SymbolOf[f]>> \in L
    BY DEF Resolve
<1>1. CASE f \in S /\ \E p \in Positions : Survivors(L, S, f) = {p}
    <2>1. PICK p \in Positions : Survivors(L, S, f) = {p} /\ Resolve(L, S)[f] = p
        BY <1>1 DEF Resolve
    <2>2. p \in Candidates(L, f)
        BY <2>1 DEF Survivors
    <2> QED BY <1>1, <2>1, <2>2 DEF Candidates
<1>2. CASE ~(f \in S /\ \E p \in Positions : Survivors(L, S, f) = {p})
    BY <1>2 DEF Resolve
<1> QED BY <1>1, <1>2

--------------------------------------------------------------------------------
(* Concurrent calls.  The inductive invariant says of a call under way     *)
(* what it has read and derived, and that this is still so because it      *)
(* holds the lock.                                                         *)

Shape ==
    /\ fills \subseteq Fills
    /\ calls \in Nat
    /\ lock \in Callers \cup {None}
    /\ call \in [Callers ->
          [pc : {"idle", "waiting", "locked", "resolved", "derived", "written"},
           id : Nat, scope : (SUBSET Orders) \cup {None},
           res : [Fills -> Positions \cup {None}],
           derived : SUBSET Derivable, drafts : SUBSET Derivable]]

\* A call past its first statement is the holder of the lock.
LockHeld == \A d \in Callers : call[d].pc \notin {"idle", "waiting"} <=> lock = d

\* The event holds fills of one order and role, on legs of its own position.
OwnLegs(e) ==
    /\ e.hash # {}
    /\ \A f \in e.hash : /\ f \in fills
                         /\ <<e.position, SymbolOf[f]>> \in legs
                         /\ ClassifyFill(EffectOf[f]) = e.type
    /\ \A f, g \in e.hash : OrderOf[f] = OrderOf[g]

CallInv(d) ==
    LET c == call[d] IN
    /\ c.pc \in {"resolved", "derived", "written"} =>
          \A f \in Fills : c.res[f] # None =>
              f \in fills /\ <<c.res[f], SymbolOf[f]>> \in legs
    /\ c.pc \in {"derived", "written"} =>
          /\ c.derived = DeriveEvents(InScope(fills, c.scope), c.res)
          /\ \A e \in c.derived : OwnLegs(e)
    /\ c.pc = "written" => c.drafts = Absent(c.derived)

IInv ==
    /\ Shape
    /\ LockHeld
    /\ \A d \in Callers : CallInv(d)
    /\ NoDuplicateEvents
    /\ EventsOnOwnLegs

\* What a derived event holds is on the legs its resolution was read from.
LEMMA DerivedOwnLegs ==
    ASSUME NEW S \in SUBSET fills, fills \subseteq Fills,
           NEW res \in [Fills -> Positions \cup {None}],
           \A f \in Fills : res[f] # None =>
               f \in fills /\ <<res[f], SymbolOf[f]>> \in legs,
           NEW e \in DeriveEvents(S, res)
    PROVE  OwnLegs(e)
<1>1. PICK p \in Positions, role \in Roles, o \in Orders :
        e = EventOf(p, role, Group(S, res, p, role, o)) /\ e.hash # {}
    BY DEF DeriveEvents
<1>2. e.position = p /\ e.type = role /\ e.hash = Group(S, res, p, role, o)
    BY <1>1 DEF EventOf
<1>3. p # None
    BY PairingAssumption
<1> QED BY <1>1, <1>2, <1>3 DEF OwnLegs, Group

\* With no fill and no call under way the invariant holds.
LEMMA InitIInv == Init => IInv
<1> SUFFICES ASSUME Init PROVE IInv
    OBVIOUS
<1>1. IdleCall \in [pc : {"idle", "waiting", "locked", "resolved", "derived", "written"},
                    id : Nat, scope : (SUBSET Orders) \cup {None},
                    res : [Fills -> Positions \cup {None}],
                    derived : SUBSET Derivable, drafts : SUBSET Derivable]
    BY DEF IdleCall
<1>2. Shape
    BY <1>1 DEF Init, Shape
<1>3. LockHeld /\ \A d \in Callers : CallInv(d)
    BY EventSyncAssumption DEF Init, LockHeld, CallInv, IdleCall
<1>4. NoDuplicateEvents /\ EventsOnOwnLegs
    BY DEF Init, NoDuplicateEvents, EventsOnOwnLegs
<1> QED BY <1>2, <1>3, <1>4 DEF IInv

\* Adding legs or fills takes no leg or fill away from an event.
LEMMA OwnLegsGrow ==
    ASSUME NEW e, OwnLegs(e), fills \subseteq fills', legs \subseteq legs'
    PROVE  OwnLegs(e)'
BY DEF OwnLegs

\* Every statement of a call, every landing of fills and every new leg keeps it:
\* only the holder of the lock can make what another call read out of date.
LEMMA NextIInv == IInv /\ [Next]_vars => IInv'
<1> SUFFICES ASSUME IInv, [Next]_vars PROVE IInv'
    OBVIOUS
<1> DEFINE Calls == [pc : {"idle", "waiting", "locked", "resolved", "derived", "written"},
                     id : Nat, scope : (SUBSET Orders) \cup {None},
                     res : [Fills -> Positions \cup {None}],
                     derived : SUBSET Derivable, drafts : SUBSET Derivable]
<1>0. /\ fills \subseteq Fills /\ calls \in Nat /\ lock \in Callers \cup {None}
      /\ call \in [Callers -> Calls] /\ None \notin Callers
    BY EventSyncAssumption DEF IInv, Shape
<1>i. IdleCall \in Calls
    BY DEF IdleCall
<1>a. ASSUME NEW leg \in LaterLegs, AddLeg(leg) PROVE IInv'
    <2>1. /\ legs \subseteq legs' /\ fills' = fills /\ events' = events
          /\ lock' = lock /\ calls' = calls /\ call' = call
        BY <1>a DEF AddLeg
    <2>2. Shape' /\ LockHeld' /\ NoDuplicateEvents'
        BY <2>1 DEF IInv, Shape, LockHeld, NoDuplicateEvents
    <2>3. \A d \in Callers : CallInv(d)'
        BY <2>1, OwnLegsGrow DEF IInv, CallInv, Absent
    <2>4. EventsOnOwnLegs'
        BY <2>1 DEF IInv, EventsOnOwnLegs
    <2> QED BY <2>2, <2>3, <2>4 DEF IInv
<1>b. ASSUME NEW delivery \in Deliveries, LandFills(delivery) PROVE IInv'
    <2>1. /\ legs' = legs /\ fills \subseteq fills' /\ events' = events
          /\ lock' = lock /\ calls' = calls /\ call' = call /\ lock = None
        BY <1>b DEF LandFills
    <2>2. fills' \subseteq Fills
        BY <1>0, <1>b, EventSyncAssumption DEF LandFills
    <2>3. Shape' /\ LockHeld' /\ NoDuplicateEvents'
        BY <2>1, <2>2 DEF IInv, Shape, LockHeld, NoDuplicateEvents
    <2>4. \A d \in Callers : CallInv(d)'
        BY <1>0, <2>1 DEF IInv, LockHeld, CallInv
    <2>5. EventsOnOwnLegs'
        BY <2>1 DEF IInv, EventsOnOwnLegs
    <2> QED BY <2>3, <2>4, <2>5 DEF IInv
<1>c. ASSUME NEW d \in Callers, NEW scope \in Scopes, Begin(d, scope) PROVE IInv'
    <2> DEFINE new == [IdleCall EXCEPT !.pc = "waiting", !.id = calls + 1, !.scope = scope]
    <2>1. /\ legs' = legs /\ fills' = fills /\ events' = events /\ lock' = lock
          /\ calls' = calls + 1 /\ call' = [call EXCEPT ![d] = new] /\ call[d].pc = "idle"
        BY <1>c DEF Begin
    <2>2. new \in Calls /\ new.pc = "waiting"
        <3>1. scope \in (SUBSET Orders) \cup {None} /\ calls + 1 \in Nat
            BY <1>0, EventSyncAssumption
        <3>2. IdleCall.pc = "idle"
            BY DEF IdleCall
        <3> HIDE DEF IdleCall
        <3> QED BY <1>i, <3>1
    <2> HIDE DEF new
    <2>3. call'[d] = new /\ \A x \in Callers \ {d} : call'[x] = call[x]
        BY <1>0, <2>1
    <2>4. Shape'
        BY <1>0, <2>1, <2>2 DEF Shape
    <2>5. LockHeld'
        <3>1. \A x \in Callers : call'[x].pc \notin {"idle", "waiting"} =>
                                   call[x].pc \notin {"idle", "waiting"}
            BY <2>1, <2>2, <2>3
        <3>2. \A x \in Callers : call[x].pc \notin {"idle", "waiting"} =>
                                   call'[x].pc \notin {"idle", "waiting"}
            BY <2>1, <2>2, <2>3
        <3> QED BY <2>1, <3>1, <3>2 DEF IInv, LockHeld
    <2>6. ASSUME NEW x \in Callers PROVE CallInv(x)'
        <3>1. CASE x = d
            BY <2>2, <2>3, <3>1 DEF CallInv
        <3>2. CASE x # d
            BY <2>1, <2>3, <3>2 DEF IInv, CallInv, Absent, OwnLegs
        <3> QED BY <3>1, <3>2
    <2>7. NoDuplicateEvents' /\ EventsOnOwnLegs'
        BY <2>1 DEF IInv, NoDuplicateEvents, EventsOnOwnLegs
    <2> QED BY <2>4, <2>5, <2>6, <2>7 DEF IInv
<1>d. ASSUME NEW d \in Callers, AcquireLock(d) PROVE IInv'
    <2>1. /\ legs' = legs /\ fills' = fills /\ events' = events /\ calls' = calls
          /\ lock = None /\ lock' = d /\ call[d].pc = "waiting"
          /\ call' = [call EXCEPT ![d] = [call[d] EXCEPT !.pc = "locked"]]
        BY <1>d DEF AcquireLock
    <2>2. [call[d] EXCEPT !.pc = "locked"] \in Calls /\ call'[d].pc = "locked"
        BY <1>0, <2>1
    <2>3. \A x \in Callers \ {d} : call'[x] = call[x]
        BY <1>0, <2>1
    <2>4. Shape'
        BY <1>0, <2>1, <2>2 DEF Shape
    <2>5. LockHeld'
        BY <1>0, <2>1, <2>2, <2>3 DEF IInv, LockHeld
    <2>6. \A x \in Callers : CallInv(x)'
        BY <1>0, <2>1, <2>2, <2>3 DEF IInv, CallInv, Absent, OwnLegs
    <2>7. NoDuplicateEvents' /\ EventsOnOwnLegs'
        BY <2>1 DEF IInv, NoDuplicateEvents, EventsOnOwnLegs
    <2> QED BY <2>4, <2>5, <2>6, <2>7 DEF IInv
<1>e. ASSUME NEW d \in Callers, ResolveFills(d) PROVE IInv'
    <2>1. /\ legs' = legs /\ fills' = fills /\ events' = events /\ calls' = calls
          /\ lock' = lock /\ call[d].pc = "locked"
          /\ call' = [call EXCEPT ![d] = [call[d] EXCEPT !.pc = "resolved",
                                                         !.res = Resolve(legs, fills)]]
        BY <1>e DEF ResolveFills
    <2>2. /\ [call[d] EXCEPT !.pc = "resolved", !.res = Resolve(legs, fills)] \in Calls
          /\ call'[d].pc = "resolved" /\ call'[d].res = Resolve(legs, fills)
        BY <1>0, <2>1, ResolveFacts
    <2>3. \A x \in Callers \ {d} : call'[x] = call[x]
        BY <1>0, <2>1
    <2>4. Shape'
        BY <1>0, <2>1, <2>2 DEF Shape
    <2>5. LockHeld'
        BY <1>0, <2>1, <2>2, <2>3 DEF IInv, LockHeld
    <2>6. ASSUME NEW x \in Callers PROVE CallInv(x)'
        <3>1. CASE x = d
            BY <2>1, <2>2, <3>1, ResolveFacts DEF CallInv
        <3>2. CASE x # d
            BY <2>1, <2>3, <3>2 DEF IInv, CallInv, Absent, OwnLegs
        <3> QED BY <3>1, <3>2
    <2>7. NoDuplicateEvents' /\ EventsOnOwnLegs'
        BY <2>1 DEF IInv, NoDuplicateEvents, EventsOnOwnLegs
    <2> QED BY <2>4, <2>5, <2>6, <2>7 DEF IInv
<1>f. ASSUME NEW d \in Callers, Derive(d) PROVE IInv'
    <2> DEFINE D == DeriveEvents(InScope(fills, call[d].scope), call[d].res)
    <2>1. /\ legs' = legs /\ fills' = fills /\ events' = events /\ calls' = calls
          /\ lock' = lock /\ call[d].pc = "resolved"
          /\ call' = [call EXCEPT ![d] = [call[d] EXCEPT !.pc = "derived", !.derived = D]]
        BY <1>f DEF Derive
    <2>2. D \in SUBSET Derivable
        BY <1>0, DerivedIsDerivable
    <2>3. \A e \in D : OwnLegs(e)
        <3>1. InScope(fills, call[d].scope) \in SUBSET fills
            BY DEF InScope
        <3>2. /\ call[d].res \in [Fills -> Positions \cup {None}]
              /\ \A f \in Fills : call[d].res[f] # None =>
                    f \in fills /\ <<call[d].res[f], SymbolOf[f]>> \in legs
            BY <1>0, <2>1 DEF IInv, CallInv
        <3> QED BY <1>0, <3>1, <3>2, DerivedOwnLegs
    <2> HIDE DEF D
    <2>4. /\ [call[d] EXCEPT !.pc = "derived", !.derived = D] \in Calls
          /\ call'[d].pc = "derived" /\ call'[d].derived = D
          /\ call'[d].res = call[d].res /\ call'[d].scope = call[d].scope
        BY <1>0, <2>1, <2>2
    <2>5. \A x \in Callers \ {d} : call'[x] = call[x]
        BY <1>0, <2>1
    <2>6. Shape'
        BY <1>0, <2>1, <2>4 DEF Shape
    <2>7. LockHeld'
        BY <1>0, <2>1, <2>4, <2>5 DEF IInv, LockHeld
    <2>8. ASSUME NEW x \in Callers PROVE CallInv(x)'
        <3>1. CASE x = d
            BY <2>1, <2>3, <2>4, <3>1 DEF IInv, CallInv, OwnLegs, D
        <3>2. CASE x # d
            BY <2>1, <2>5, <3>2 DEF IInv, CallInv, Absent, OwnLegs
        <3> QED BY <3>1, <3>2
    <2>9. NoDuplicateEvents' /\ EventsOnOwnLegs'
        BY <2>1 DEF IInv, NoDuplicateEvents, EventsOnOwnLegs
    <2> QED BY <2>6, <2>7, <2>8, <2>9 DEF IInv
<1>g. ASSUME NEW d \in Callers, Write(d) PROVE IInv'
    <2> DEFINE A == Absent(call[d].derived)
    <2>1. /\ legs' = legs /\ fills' = fills /\ events' = events /\ calls' = calls
          /\ lock' = lock /\ call[d].pc = "derived"
          /\ call' = [call EXCEPT ![d] = [call[d] EXCEPT !.pc = "written", !.drafts = A]]
        BY <1>g DEF Write
    <2>2. A \in SUBSET Derivable
        BY <1>0 DEF Absent
    <2> HIDE DEF A
    <2>3. /\ [call[d] EXCEPT !.pc = "written", !.drafts = A] \in Calls
          /\ call'[d].pc = "written" /\ call'[d].drafts = A
          /\ call'[d].derived = call[d].derived
          /\ call'[d].res = call[d].res /\ call'[d].scope = call[d].scope
        BY <1>0, <2>1, <2>2
    <2>4. \A x \in Callers \ {d} : call'[x] = call[x]
        BY <1>0, <2>1
    <2>5. Shape'
        BY <1>0, <2>1, <2>3 DEF Shape
    <2>6. LockHeld'
        BY <1>0, <2>1, <2>3, <2>4 DEF IInv, LockHeld
    <2>7. ASSUME NEW x \in Callers PROVE CallInv(x)'
        <3>1. CASE x = d
            <4>1. CallInv(d)
                BY DEF IInv
            <4>2. Absent(call[d].derived)' = A
                BY <2>1, <2>3 DEF A, Absent
            <4>3. \A e : OwnLegs(e)' = OwnLegs(e)
                BY <2>1 DEF OwnLegs
            <4> QED BY <2>1, <2>3, <3>1, <4>1, <4>2, <4>3 DEF CallInv
        <3>2. CASE x # d
            BY <2>1, <2>4, <3>2 DEF IInv, CallInv, Absent, OwnLegs
        <3> QED BY <3>1, <3>2
    <2>8. NoDuplicateEvents' /\ EventsOnOwnLegs'
        BY <2>1 DEF IInv, NoDuplicateEvents, EventsOnOwnLegs
    <2> QED BY <2>5, <2>6, <2>7, <2>8 DEF IInv
<1>h. ASSUME NEW d \in Callers, Commit(d) PROVE IInv'
    <2> DEFINE c == call[d]
               rows == {[id |-> c.id, event |-> e] : e \in c.drafts}
    <2>1. /\ legs' = legs /\ fills' = fills /\ calls' = calls /\ lock' = None
          /\ c.pc = "written" /\ events' = events \cup rows
          /\ call' = [call EXCEPT ![d] = IdleCall]
        BY <1>h DEF Commit
    <2>2. call'[d].pc = "idle" /\ \A x \in Callers \ {d} : call'[x] = call[x]
        BY <1>0, <2>1 DEF IdleCall
    <2>3. lock = d /\ \A x \in Callers \ {d} : call[x].pc \in {"idle", "waiting"}
        BY <2>1 DEF IInv, LockHeld
    <2>4. /\ c.drafts \subseteq Derivable /\ c.drafts = Absent(c.derived)
          /\ \A e \in c.drafts : OwnLegs(e)
        BY <1>0, <2>1 DEF IInv, CallInv, Absent
    <2>5. Shape'
        BY <1>0, <1>i, <2>1 DEF Shape
    <2>6. LockHeld'
        BY <1>0, <2>1, <2>2, <2>3 DEF LockHeld
    <2>7. \A x \in Callers : CallInv(x)'
        BY <2>2, <2>3 DEF CallInv
    <2>8. NoDuplicateEvents'
        <3> SUFFICES ASSUME NEW r \in events \cup rows, NEW s \in events \cup rows,
                            Key(r.event) = Key(s.event)
                     PROVE  r = s
            BY <2>1 DEF NoDuplicateEvents
        <3>1. \A x \in rows : x.event \in c.drafts /\ x = [id |-> c.id, event |-> x.event]
            OBVIOUS
        <3>2. \A x \in rows, y \in events : Key(x.event) # Key(y.event)
            BY <2>4, <3>1 DEF Absent
        <3>3. CASE r \in events /\ s \in events
            BY <3>3 DEF IInv, NoDuplicateEvents
        <3>4. CASE r \in rows /\ s \in rows
            <4>1. r.event = s.event
                BY <2>4, <3>1, <3>4, KeyInjective
            <4> QED BY <3>1, <3>4, <4>1
        <3> QED BY <3>2, <3>3, <3>4
    <2>9. EventsOnOwnLegs'
        <3> SUFFICES ASSUME NEW r \in events \cup rows PROVE OwnLegs(r.event)
            BY <2>1 DEF EventsOnOwnLegs, OwnLegs
        <3>1. CASE r \in events
            BY <3>1 DEF IInv, EventsOnOwnLegs, OwnLegs
        <3>2. CASE r \in rows
            BY <2>4, <3>2
        <3> QED BY <3>1, <3>2
    <2> QED BY <2>5, <2>6, <2>7, <2>8, <2>9 DEF IInv
<1>j. ASSUME NEW d \in Callers, Rollback(d) PROVE IInv'
    <2>1. /\ legs' = legs /\ fills' = fills /\ events' = events /\ calls' = calls
          /\ lock' = None /\ call[d].pc \notin {"idle", "waiting"}
          /\ call' = [call EXCEPT ![d] = IdleCall]
        BY <1>j DEF Rollback
    <2>2. call'[d].pc = "idle" /\ \A x \in Callers \ {d} : call'[x] = call[x]
        BY <1>0, <2>1 DEF IdleCall
    <2>3. lock = d /\ \A x \in Callers \ {d} : call[x].pc \in {"idle", "waiting"}
        BY <2>1 DEF IInv, LockHeld
    <2>4. Shape'
        BY <1>0, <1>i, <2>1 DEF Shape
    <2>5. LockHeld'
        BY <1>0, <2>1, <2>2, <2>3 DEF LockHeld
    <2>6. \A x \in Callers : CallInv(x)'
        BY <2>2, <2>3 DEF CallInv
    <2>7. NoDuplicateEvents' /\ EventsOnOwnLegs'
        BY <2>1 DEF IInv, NoDuplicateEvents, EventsOnOwnLegs
    <2> QED BY <2>4, <2>5, <2>6, <2>7 DEF IInv
<1>k. CASE UNCHANGED vars
    BY <1>k DEF vars, IInv, Shape, LockHeld, CallInv, Absent, OwnLegs,
        NoDuplicateEvents, EventsOnOwnLegs
<1> QED BY <1>a, <1>b, <1>c, <1>d, <1>e, <1>f, <1>g, <1>h, <1>j, <1>k DEF Next

\* What every call under way of sync_events has read and derived stays true until
\* its transaction ends.
THEOREM Invariance == Spec => []IInv
BY InitIInv, NextIInv, PTL DEF Spec

\* CR-02, LEDGER-09: with any number of overlapping calls of any scopes, an event
\* of one set of fills is stored once.
THEOREM SpecNoDuplicateEvents == Spec => []NoDuplicateEvents
<1>1. IInv => NoDuplicateEvents
    BY DEF IInv
<1> QED BY <1>1, Invariance, PTL

\* L061: no event takes a fill whose symbol is not a leg of its own position.
THEOREM SpecEventsOnOwnLegs == Spec => []EventsOnOwnLegs
<1>1. IInv => EventsOnOwnLegs
    BY DEF IInv
<1> QED BY <1>1, Invariance, PTL

\* Read-compare-skip leaves out only what is stored.
THEOREM SpecNothingSkipped == Spec => []NothingSkipped
<1>1. IInv => NothingSkipped
    <2> SUFFICES ASSUME IInv, NEW d \in Callers, call[d].pc = "written",
                        NEW e \in DeriveEvents(InScope(fills, call[d].scope), call[d].res)
                 PROVE  Key(e) \in {Key(r.event) : r \in events}
                                     \cup {Key(x) : x \in call[d].drafts}
        BY DEF NothingSkipped
    <2>1. e \in call[d].derived /\ call[d].drafts = Absent(call[d].derived)
        BY DEF IInv, CallInv
    <2> QED BY <2>1 DEF Absent
<1> QED BY <1>1, Invariance, PTL

--------------------------------------------------------------------------------
(* Each fill is counted once, where the fills of an order land together    *)
(* and no leg is added afterwards: then what a fill resolves to and which  *)
(* group it is in do not depend on when a call looks.                      *)

Whole(S) == \A f \in S, g \in Fills : OrderOf[f] = OrderOf[g] => g \in S

OrdersLandWhole ==
    /\ LaterLegs \subseteq FirstLegs
    /\ \A delivery \in Deliveries : Whole(delivery)

\* What a fill resolves to in the end, and the events that follow.
Final == Resolve(FirstLegs, Fills)
FinalEvents == DeriveEvents(Fills, Final)

\* A fill resolves by the fills of its own order only.
LEMMA ResolveWhole ==
    ASSUME NEW L, NEW S \in SUBSET Fills, Whole(S), NEW f \in S
    PROVE  Resolve(L, S)[f] = Resolve(L, Fills)[f]
<1>1. Anchors(L, S, OrderOf[f]) = Anchors(L, Fills, OrderOf[f])
    BY DEF Anchors, Whole
<1> DEFINE V == Survivors(L, S, f)
<1>2. V = Survivors(L, Fills, f)
    BY <1>1 DEF Survivors
<1>3. CASE \E p \in Positions : V = {p}
    <2>1. PICK p \in Positions : V = {p}
        BY <1>3
    <2>2. Resolve(L, S)[f] = p
        BY <2>1 DEF Resolve
    <2>3. Resolve(L, Fills)[f] = p
        BY <1>2, <2>1 DEF Resolve
    <2> QED BY <2>2, <2>3
<1>4. CASE ~\E p \in Positions : V = {p}
    <2>1. Resolve(L, S)[f] = None
        BY <1>4 DEF Resolve
    <2>2. Resolve(L, Fills)[f] = None
        BY <1>2, <1>4 DEF Resolve
    <2> QED BY <2>1, <2>2
<1> QED BY <1>3, <1>4

\* Whole orders, in whatever scope, derive events of the final state.
LEMMA WholeGroups ==
    ASSUME NEW S \in SUBSET Fills, Whole(S), NEW scope, NEW res,
           \A f \in S : res[f] = Final[f]
    PROVE  DeriveEvents(InScope(S, scope), res) \subseteq FinalEvents
<1> SUFFICES ASSUME NEW e \in DeriveEvents(InScope(S, scope), res)
             PROVE  e \in FinalEvents
    OBVIOUS
<1> DEFINE T == InScope(S, scope)
<1>1. PICK p \in Positions, role \in Roles, o \in Orders :
        e = EventOf(p, role, Group(T, res, p, role, o)) /\ e.hash # {}
    BY DEF DeriveEvents
<1>2. PICK f : f \in Group(T, res, p, role, o)
    BY <1>1 DEF EventOf
<1>3. f \in S /\ OrderOf[f] = o /\ (scope = None \/ o \in scope)
    BY <1>2 DEF Group, InScope
<1>4. \A g \in Fills : OrderOf[g] = o => g \in S /\ g \in T
    BY <1>3 DEF Whole, InScope
<1>5. T \subseteq S
    BY DEF InScope
<1>6. Group(T, res, p, role, o) = Group(Fills, Final, p, role, o)
    BY <1>4, <1>5 DEF Group
<1> QED BY <1>1, <1>6 DEF FinalEvents, DeriveEvents

\* Two events of the final state share no fill.
LEMMA FinalDisjoint ==
    ASSUME NEW e \in FinalEvents, NEW g \in FinalEvents, e.hash \cap g.hash # {}
    PROVE  e = g
<1>1. PICK p \in Positions, role \in Roles, o \in Orders :
        e = EventOf(p, role, Group(Fills, Final, p, role, o))
    BY DEF FinalEvents, DeriveEvents
<1>2. PICK q \in Positions, type \in Roles, n \in Orders :
        g = EventOf(q, type, Group(Fills, Final, q, type, n))
    BY DEF FinalEvents, DeriveEvents
<1>3. PICK f : f \in e.hash /\ f \in g.hash
    OBVIOUS
<1>4. f \in Group(Fills, Final, p, role, o) /\ f \in Group(Fills, Final, q, type, n)
    BY <1>1, <1>2, <1>3 DEF EventOf
<1>5. p = q /\ role = type /\ o = n
    BY <1>4 DEF Group
<1> QED BY <1>1, <1>2, <1>5

\* No call sees half an order or other legs, and no row is of another state.
Stable ==
    /\ legs = FirstLegs
    /\ Whole(fills)
    /\ \A d \in Callers : call[d].pc \in {"resolved", "derived", "written"} =>
          \A f \in fills : call[d].res[f] = Final[f]
    /\ \A r \in events : r.event \in FinalEvents

\* Whole deliveries keep the orders whole; the lock keeps a call's fills the same
\* from the resolution to the commit.
LEMMA NextStable ==
    ASSUME OrdersLandWhole, IInv, Stable, [Next]_vars
    PROVE  Stable'
<1> DEFINE Resolved(d) == call[d].pc \in {"resolved", "derived", "written"} =>
                             \A f \in fills : call[d].res[f] = Final[f]
<1>0. /\ fills \in SUBSET Fills /\ None \notin Callers
      /\ legs = FirstLegs /\ Whole(fills)
      /\ \A d \in Callers : Resolved(d)
      /\ \A r \in events : r.event \in FinalEvents
    BY EventSyncAssumption DEF IInv, Shape, Stable
<1>t. call \in [Callers ->
          [pc : {"idle", "waiting", "locked", "resolved", "derived", "written"},
           id : Nat, scope : (SUBSET Orders) \cup {None},
           res : [Fills -> Positions \cup {None}],
           derived : SUBSET Derivable, drafts : SUBSET Derivable]]
    BY DEF IInv, Shape
<1>1. ASSUME NEW leg \in LaterLegs, AddLeg(leg) PROVE Stable'
    BY <1>0, <1>1 DEF AddLeg, OrdersLandWhole
<1>2. ASSUME NEW delivery \in Deliveries, LandFills(delivery) PROVE Stable'
    <2>1. /\ legs' = legs /\ events' = events /\ call' = call /\ lock = None
          /\ fills' = fills \cup delivery
        BY <1>2 DEF LandFills
    <2>2. Whole(fills)'
        BY <1>0, <2>1 DEF OrdersLandWhole, Whole
    <2>3. \A d \in Callers : call[d].pc \in {"idle", "waiting"}
        BY <1>0, <2>1 DEF IInv, LockHeld
    <2> QED BY <1>0, <2>1, <2>2, <2>3 DEF Stable
<1>3. ASSUME NEW d \in Callers, ResolveFills(d) PROVE Stable'
    <2>1. UNCHANGED <<legs, fills, events>>
        BY <1>3 DEF ResolveFills
    <2>2. /\ \A x \in Callers \ {d} : call'[x] = call[x]
          /\ call'[d].res = Resolve(legs, fills)
        BY <1>3, <1>t DEF ResolveFills
    <2>3. \A f \in fills : Resolve(legs, fills)[f] = Final[f]
        <3>1. PICK S \in SUBSET Fills : S = fills
            BY <1>0
        <3>2. \A f \in S : Resolve(FirstLegs, S)[f] = Final[f]
            BY <1>0, <3>1, ResolveWhole DEF Final, Whole
        <3> QED BY <1>0, <3>1, <3>2
    <2>4. \A x \in Callers : Resolved(x)'
        BY <1>0, <2>1, <2>2, <2>3
    <2> QED BY <1>0, <2>1, <2>4 DEF Stable, Whole
<1>4. ASSUME NEW d \in Callers, Commit(d) PROVE Stable'
    <2> DEFINE c == call[d]
    <2>1. /\ UNCHANGED <<legs, fills>> /\ c.pc = "written"
          /\ events' = events \cup {[id |-> c.id, event |-> e] : e \in c.drafts}
          /\ call' = [call EXCEPT ![d] = IdleCall]
        BY <1>4 DEF Commit
    <2>2. c.drafts \subseteq DeriveEvents(InScope(fills, c.scope), c.res)
        BY <2>1 DEF IInv, CallInv, Absent
    <2>3. DeriveEvents(InScope(fills, c.scope), c.res) \subseteq FinalEvents
        <3>1. PICK S, scope, res : S = fills /\ scope = c.scope /\ res = c.res
            OBVIOUS
        <3>2. S \in SUBSET Fills /\ Whole(S) /\ \A f \in S : res[f] = Final[f]
            BY <1>0, <2>1, <3>1 DEF Whole
        <3>3. DeriveEvents(InScope(S, scope), res) \subseteq FinalEvents
            BY <3>2, WholeGroups
        <3> QED BY Zenon, <3>1, <3>3
    <2>4. \A r \in events' : r.event \in FinalEvents
        <3> DEFINE rows == {[id |-> c.id, event |-> e] : e \in c.drafts}
        <3>1. \A r \in rows : r.event \in c.drafts
            OBVIOUS
        <3>2. events' = events \cup rows
            BY <2>1
        <3> HIDE DEF rows
        <3> QED BY <1>0, <2>2, <2>3, <3>1, <3>2
    <2>5. call'[d].pc = "idle" /\ \A x \in Callers \ {d} : call'[x] = call[x]
        BY <1>t, <2>1 DEF IdleCall
    <2>6. \A x \in Callers : Resolved(x)'
        BY <1>0, <2>1, <2>5
    <2> QED BY <1>0, <2>1, <2>4, <2>6 DEF Stable, Whole
<1>5. ASSUME UNCHANGED <<legs, fills, events>>,
             \A x \in Callers : \/ call'[x].pc \notin {"resolved", "derived", "written"}
                                \/ /\ call[x].pc \in {"resolved", "derived", "written"}
                                   /\ call'[x].res = call[x].res
      PROVE  Stable'
    BY <1>0, <1>5 DEF Stable, Whole
<1>6. ASSUME NEW d \in Callers,
             Rollback(d) \/ AcquireLock(d) \/ \E scope \in Scopes : Begin(d, scope)
      PROVE  Stable'
    <2>1. \A x \in Callers \ {d} : call'[x] = call[x]
        BY <1>6, <1>t DEF Rollback, AcquireLock, Begin
    <2>2. call'[d].pc \in {"idle", "waiting", "locked"}
        <3>1. CASE Rollback(d)
            BY <3>1, <1>t DEF Rollback, IdleCall
        <3>2. CASE AcquireLock(d)
            BY <3>2, <1>t DEF AcquireLock
        <3>3. ASSUME NEW scope \in Scopes, Begin(d, scope) PROVE call'[d].pc = "waiting"
            <4> DEFINE n == calls + 1
                       new == [IdleCall EXCEPT !.pc = "waiting", !.id = n, !.scope = scope]
            <4>1. call' = [call EXCEPT ![d] = new]
                BY <3>3 DEF Begin
            <4> HIDE DEF n
            <4>2. new.pc = "waiting"
                BY DEF IdleCall
            <4> HIDE DEF new
            <4> QED BY <4>1, <4>2, <1>t
        <3> QED BY <1>6, <3>1, <3>2, <3>3
    <2>3. UNCHANGED <<legs, fills, events>>
        BY <1>6 DEF Rollback, AcquireLock, Begin
    <2> QED BY <1>5, <2>1, <2>2, <2>3
<1>7. ASSUME NEW d \in Callers, Derive(d) \/ Write(d) PROVE Stable'
    <2>1. \A x \in Callers \ {d} : call'[x] = call[x]
        BY <1>7, <1>t DEF Derive, Write
    <2>2. call[d].pc \in {"resolved", "derived", "written"} /\ call'[d].res = call[d].res
        BY <1>7, <1>t DEF Derive, Write
    <2>3. UNCHANGED <<legs, fills, events>>
        BY <1>7 DEF Derive, Write
    <2> QED BY <1>5, <2>1, <2>2, <2>3
<1>8. CASE UNCHANGED vars
    BY <1>0, <1>8 DEF vars, Stable, Whole
<1> QED BY <1>1, <1>2, <1>3, <1>4, <1>6, <1>7, <1>8 DEF Next

\* L061: where a sync lands the fills of an order together and legs are entered
\* before, no fill is counted by two events, whatever calls overlap in whatever
\* scopes.  Without the two conditions it is not so: see the run event_split.
THEOREM SpecEachFillCountedOnce ==
    ASSUME OrdersLandWhole
    PROVE  Spec => []EachFillCountedOnce
<1>1. Init => Stable
    <2> SUFFICES ASSUME Init PROVE Stable
        OBVIOUS
    <2>1. \A d \in Callers : call[d].pc = "idle"
        BY DEF Init, IdleCall
    <2> QED BY <2>1 DEF Init, Stable, Whole
<1>2. IInv /\ Stable /\ [Next]_vars => Stable'
    BY NextStable
<1>3. IInv /\ Stable => EachFillCountedOnce
    <2> SUFFICES ASSUME IInv, Stable, NEW r \in events, NEW s \in events,
                        r.event.hash \cap s.event.hash # {}
                 PROVE  r = s
        BY DEF EachFillCountedOnce
    <2>1. r.event \in FinalEvents /\ s.event \in FinalEvents
        BY DEF Stable
    <2>2. r.event = s.event
        BY <2>1, FinalDisjoint
    <2>3. Key(r.event) = Key(s.event)
        BY <2>2
    <2> QED BY <2>3 DEF IInv, NoDuplicateEvents
<1> QED BY <1>1, <1>2, <1>3, Invariance, PTL DEF Spec

--------------------------------------------------------------------------------
(* Amounts.                                                                *)

\* A fill's signed amount is the cash that went out with it where it opens, what came
\* back where it closes, and missing exactly where its own is.
LEMMA SignedIsCash ==
    ASSUME NEW f \in Fills, NEW type \in Roles
    PROVE  /\ SignedLegAmount(f, type) = None <=> Gap(f)
           /\ ~Gap(f) => SignedLegAmount(f, type) = IF type = "OPEN" THEN Cash(f) ELSE -Cash(f)
<1>1. AmountOf[f] \in Nat \cup {None} /\ None \notin Int
    BY PairingAssumption
<1>2. CASE Gap(f)
    BY <1>2 DEF Gap, SignedLegAmount
<1>3. CASE ~Gap(f)
    <2>1. AmountOf[f] \in Nat /\ SideOf[f] \in {"BUY", "SELL"}
        BY <1>1, <1>3 DEF Gap
    <2>2. SignedLegAmount(f, type) = IF type = "OPEN" THEN Cash(f) ELSE -Cash(f)
        BY <1>1, <2>1 DEF SignedLegAmount, Cash, Roles
    <2>3. Cash(f) \in Int
        BY <2>1 DEF Cash
    <2> QED BY <1>1, <1>3, <2>2, <2>3
<1> QED BY <1>2, <1>3

\* The two sums of the model as the recursion that defines them.
SignedBody(it, group, type) ==
    it = [s \in SUBSET group |->
             IF s = {} THEN 0 ELSE SignedLegAmount(Pick(s), type) + it[s \ {Pick(s)}]]
CashBody(it, group) ==
    it = [s \in SUBSET group |-> IF s = {} THEN 0 ELSE Cash(Pick(s)) + it[s \ {Pick(s)}]]

LEMMA SumsAreRecursions ==
    ASSUME NEW group, NEW type
    PROVE  /\ MapThenSumSet(LAMBDA f : SignedLegAmount(f, type), group)
                = (CHOOSE it : SignedBody(it, group, type))[group]
           /\ MapThenSumSet(Cash, group) = (CHOOSE it : CashBody(it, group))[group]
<1>1. MapThenSumSet(LAMBDA f : SignedLegAmount(f, type), group)
        = (CHOOSE it : SignedBody(it, group, type))[group]
    BY Zenon DEF MapThenSumSet, MapThenFoldSet, SignedBody, Pick
<1>2. MapThenSumSet(Cash, group) = (CHOOSE it : CashBody(it, group))[group]
    BY Zenon DEF MapThenSumSet, MapThenFoldSet, CashBody, Pick
<1> QED BY Zenon, <1>1, <1>2

\* What the fills of a group without a gap cost or brought is the sum of their cash
\* with the sign of the event's type, however many there are.
LEMMA NetIsCash ==
    ASSUME NEW group \in SUBSET Fills, NEW type \in Roles, \A f \in group : ~Gap(f)
    PROVE  LET cash == MapThenSumSet(Cash, group) IN
           /\ cash \in Int
           /\ NetAmount(group, type) = IF type = "OPEN" THEN cash ELSE -cash
<1> DEFINE h == [f \in group |-> Cash(f)]
           k == [f \in group |-> SignedLegAmount(f, type)]
           it == CHOOSE it : CashBody(it, group)
           jt == CHOOSE jt : SignedBody(jt, group, type)
<1>1. IsFiniteSet(group)
    BY PairingAssumption, FS_Subset
<1>2. \A f \in group : /\ Cash(f) \in Int
                       /\ SignedLegAmount(f, type) \in Int
                       /\ SignedLegAmount(f, type) # None
                       /\ SignedLegAmount(f, type) = IF type = "OPEN" THEN Cash(f) ELSE -Cash(f)
    <2> TAKE f \in group
    <2>1. Cash(f) \in Int
        BY PairingAssumption DEF Cash, Gap
    <2>2. SignedLegAmount(f, type) = IF type = "OPEN" THEN Cash(f) ELSE -Cash(f)
        BY SignedIsCash
    <2> QED BY <2>1, <2>2, PairingAssumption
<1>3. h \in [group -> Int] /\ k \in [group -> Int]
    BY <1>2
<1>4. \A g : (Sums(g, h, group) <=> CashBody(g, group))
             /\ (Sums(g, k, group) <=> SignedBody(g, group, type))
    <2>1. \A s \in SUBSET group : s # {} => Pick(s) \in group
        BY <1>1, PickIn
    <2>2. \A s \in SUBSET group : s # {} => /\ h[Pick(s)] = Cash(Pick(s))
                                            /\ k[Pick(s)] = SignedLegAmount(Pick(s), type)
        BY <2>1
    <2> HIDE DEF h, k
    <2> QED BY <2>2 DEF Sums, Added, CashBody, SignedBody
<1> HIDE DEF h, k
<1>5. CashBody(it, group) /\ SignedBody(jt, group, type)
    <2>1. (\E g : CashBody(g, group)) /\ \E g : SignedBody(g, group, type)
        BY <1>1, <1>3, <1>4, SumsExist
    <2> QED BY Zenon, <2>1
<1>6. Sums(it, h, group) /\ Sums(jt, k, group)
    BY Zenon, <1>4, <1>5
<1>7. MapThenSumSet(Cash, group) = it[group]
    BY Zenon, SumsAreRecursions
<1>8. NetAmount(group, type) = jt[group]
    <2>1. NetAmount(group, type) = MapThenSumSet(LAMBDA f : SignedLegAmount(f, type), group)
        BY Zenon, <1>2 DEF NetAmount
    <2>2. MapThenSumSet(LAMBDA f : SignedLegAmount(f, type), group) = jt[group]
        BY Zenon, SumsAreRecursions
    <2> QED BY Zenon, <2>1, <2>2
<1> HIDE DEF it, jt
<1>9. /\ it[group] \in Int
      /\ (\A f \in group : k[f] = h[f]) => jt[group] = it[group]
      /\ (\A f \in group : k[f] = -h[f]) => jt[group] = -it[group]
    BY <1>1, <1>3, <1>6, SumsOfParts
<1>10. CASE type = "OPEN"
    <2>1. \A f \in group : k[f] = h[f]
        BY <1>2, <1>10 DEF h, k
    <2> QED BY <1>7, <1>8, <1>9, <1>10, <2>1
<1>11. CASE type # "OPEN"
    <2>1. \A f \in group : k[f] = -h[f]
        BY <1>2, <1>11 DEF h, k
    <2> QED BY <1>7, <1>8, <1>9, <1>11, <2>1
<1> QED BY <1>10, <1>11

\* What derive_events can build has the types of a row: an amount is an integer or
\* missing.
LEMMA DerivableTyped == Derivable \subseteq DerivedEvent
<1> SUFFICES ASSUME NEW p \in Positions, NEW role \in Roles, NEW g \in SUBSET Fills
             PROVE  EventOf(p, role, g) \in DerivedEvent
    BY DEF Derivable
<1>1. CASE \E f \in g : Gap(f)
    <2>1. NetAmount(g, role) = None
        BY <1>1, SignedIsCash DEF NetAmount
    <2> QED BY <2>1 DEF EventOf, DerivedEvent
<1>2. CASE \A f \in g : ~Gap(f)
    <2>1. NetAmount(g, role) \in Int
        BY <1>2, NetIsCash
    <2> QED BY <2>1 DEF EventOf, DerivedEvent
<1> QED BY <1>1, <1>2

\* Every stored row is an event of a group of fills, with the amount of the group.
Stored == /\ legs \subseteq Leg
          /\ \A r \in events : r \in [id : Nat, event : Derivable]

\* A commit stores what the call derived.
LEMMA StoredInvariant == Spec => []Stored
<1>1. Init => Stored
    BY EventSyncAssumption DEF Init, Stored
<1>2. IInv /\ Stored /\ [Next]_vars => Stored'
    <2> SUFFICES ASSUME IInv, Stored, [Next]_vars PROVE Stored'
        OBVIOUS
    <2>1. CASE events' = events /\ legs' = legs
        BY <2>1 DEF Stored
    <2>2. ASSUME NEW leg \in LaterLegs, AddLeg(leg) PROVE Stored'
        BY <2>2, EventSyncAssumption DEF AddLeg, Stored
    <2>3. ASSUME NEW d \in Callers, Commit(d) PROVE Stored'
        <3> DEFINE rows == {[id |-> call[d].id, event |-> e] : e \in call[d].drafts}
        <3>1. call[d].id \in Nat /\ call[d].drafts \subseteq Derivable
            BY DEF IInv, Shape
        <3>2. \A r \in rows : r \in [id : Nat, event : Derivable]
            BY <3>1
        <3>3. events' = events \cup rows /\ legs' = legs
            BY <2>3 DEF Commit
        <3> HIDE DEF rows
        <3> QED BY <3>2, <3>3 DEF Stored
    <2>4. ASSUME NEW d \in Callers, NEW scope,
                 \/ Begin(d, scope) \/ AcquireLock(d)
                 \/ ResolveFills(d) \/ Derive(d) \/ Write(d) \/ Rollback(d)
          PROVE  events' = events /\ legs' = legs
        BY Zenon, <2>4 DEF Begin, AcquireLock, ResolveFills, Derive, Write, Rollback
    <2>5. ASSUME NEW delivery, LandFills(delivery) PROVE events' = events /\ legs' = legs
        BY <2>5 DEF LandFills
    <2>6. CASE UNCHANGED vars
        BY <2>1, <2>6 DEF vars
    <2> QED BY <2>1, <2>2, <2>3, <2>4, <2>5, <2>6 DEF Next
<1> QED BY <1>1, <1>2, Invariance, PTL DEF Spec

\* The tables and every call keep their types; of an amount this says that the sum
\* derive_events makes is a number or missing.
THEOREM SpecTypeOK == Spec => []TypeOK
<1>1. IInv /\ Stored => TypeOK
    <2> SUFFICES ASSUME IInv, Stored PROVE TypeOK
        OBVIOUS
    <2>1. events \subseteq EventRow
        BY DerivableTyped DEF Stored, EventRow
    <2>2. call \in [Callers ->
          [pc : {"idle", "waiting", "locked", "resolved", "derived", "written"},
           id : Nat, scope : (SUBSET Orders) \cup {None},
           res : [Fills -> Positions \cup {None}],
           derived : SUBSET DerivedEvent, drafts : SUBSET DerivedEvent]]
        BY DerivableTyped DEF IInv, Shape
    <2> QED BY <2>1, <2>2 DEF IInv, Shape, Stored, TypeOK
<1> QED BY <1>1, Invariance, StoredInvariant, PTL

\* NN-10, NN-16: an OPEN row holds the cash that went out with its fills and a CLOSE
\* row what came back, for groups of any size, and an amount is missing exactly where
\* one of the fills has none; whatever calls overlap, a commit stores no other amount.
THEOREM SpecMoneyConserved == Spec => []MoneyConserved
<1>1. Stored => MoneyConserved
    <2> SUFFICES ASSUME Stored, NEW r \in events
                 PROVE  LET e == r.event
                            cash == MapThenSumSet(Cash, e.hash) IN
                        IF \E f \in e.hash : Gap(f) THEN e.amount = None
                        ELSE e.amount = IF e.type = "OPEN" THEN cash ELSE -cash
        BY Zenon DEF MoneyConserved
    <2>1. PICK p \in Positions, role \in Roles, g \in SUBSET Fills :
            r.event = EventOf(p, role, g)
        BY DEF Stored, Derivable
    <2>2. /\ r.event.type = role /\ r.event.hash = g
          /\ r.event.amount = NetAmount(g, role)
        BY <2>1 DEF EventOf
    <2>3. CASE \E f \in g : Gap(f)
        <3>1. NetAmount(g, role) = None
            BY <2>3, SignedIsCash DEF NetAmount
        <3> QED BY <2>2, <2>3, <3>1
    <2>4. CASE \A f \in g : ~Gap(f)
        <3>1. NetAmount(g, role) = IF role = "OPEN" THEN MapThenSumSet(Cash, g)
                                   ELSE -MapThenSumSet(Cash, g)
            BY <2>4, NetIsCash
        <3> QED BY Zenon, <2>2, <2>4, <3>1
    <2> QED BY <2>3, <2>4
<1> QED BY <1>1, StoredInvariant, PTL

--------------------------------------------------------------------------------
(* sync_events as a call at one instant.  A call under way has a number    *)
(* that no other call and no stored row has, and it resolved from the      *)
(* fills of the table and from legs that are still there.                  *)

Numbered ==
    /\ calls <= MaxCalls
    /\ \A d \in Callers : call[d].pc # "idle" =>
          /\ call[d].id \in 1..calls /\ call[d].scope \in Scopes
          /\ \A e \in Callers \ {d} : call[e].pc # "idle" => call[e].id # call[d].id
          /\ \A r \in events : r.id # call[d].id
    /\ \A r \in events : r.id \in 1..calls

Known ==
    /\ FirstLegs \subseteq legs
    /\ \A d \in Callers : call[d].pc \in {"resolved", "derived", "written"} =>
          \E known \in SUBSET legs :
              FirstLegs \subseteq known /\ call[d].res = Resolve(known, fills)

\* What a step does to the number and the scope of a call: Begin gives the next number,
\* and nothing else changes them while the call lasts.
LEMMA CallKept ==
    ASSUME IInv, [Next]_vars
    PROVE  \/ /\ calls' = calls
              /\ \A x \in Callers :
                    \/ call'[x].pc = "idle"
                    \/ /\ call[x].pc # "idle"
                       /\ call'[x].id = call[x].id /\ call'[x].scope = call[x].scope
           \/ /\ calls' = calls + 1 /\ calls < MaxCalls /\ events' = events
              /\ \E d \in Callers :
                    /\ call'[d].pc = "waiting" /\ call'[d].id = calls + 1
                    /\ call'[d].scope \in Scopes
                    /\ \A x \in Callers \ {d} : call'[x] = call[x]
<1> DEFINE Kept == /\ calls' = calls
                   /\ \A x \in Callers :
                         \/ call'[x].pc = "idle"
                         \/ /\ call[x].pc # "idle"
                            /\ call'[x].id = call[x].id /\ call'[x].scope = call[x].scope
<1>t. call \in [Callers ->
          [pc : {"idle", "waiting", "locked", "resolved", "derived", "written"},
           id : Nat, scope : (SUBSET Orders) \cup {None},
           res : [Fills -> Positions \cup {None}],
           derived : SUBSET Derivable, drafts : SUBSET Derivable]]
    BY DEF IInv, Shape
<1>0. ASSUME calls' = calls, call' = call PROVE Kept
    BY <1>0
<1>1. ASSUME NEW leg \in LaterLegs, AddLeg(leg) PROVE Kept
    BY <1>0, <1>1 DEF AddLeg
<1>2. ASSUME NEW delivery \in Deliveries, LandFills(delivery) PROVE Kept
    BY <1>0, <1>2 DEF LandFills
<1>3. ASSUME NEW d \in Callers, Commit(d) \/ Rollback(d) PROVE Kept
    <2>1. calls' = calls /\ call' = [call EXCEPT ![d] = IdleCall]
        BY <1>3 DEF Commit, Rollback
    <2>2. IdleCall.pc = "idle"
        BY DEF IdleCall
    <2> QED BY <1>t, <2>1, <2>2
<1>4. ASSUME NEW d \in Callers, AcquireLock(d) PROVE Kept
    BY <1>t, <1>4 DEF AcquireLock
<1>5. ASSUME NEW d \in Callers, ResolveFills(d) PROVE Kept
    <2> DEFINE new == Resolve(legs, fills)
    <2>1. /\ calls' = calls /\ call[d].pc = "locked"
          /\ call' = [call EXCEPT ![d].pc = "resolved", ![d].res = new]
        BY <1>5 DEF ResolveFills
    <2> HIDE DEF new
    <2> QED BY <1>t, <2>1
<1>6. ASSUME NEW d \in Callers, Derive(d) PROVE Kept
    <2> DEFINE new == DeriveEvents(InScope(fills, call[d].scope), call[d].res)
    <2>1. /\ calls' = calls /\ call[d].pc = "resolved"
          /\ call' = [call EXCEPT ![d].pc = "derived", ![d].derived = new]
        BY <1>6 DEF Derive
    <2> HIDE DEF new
    <2> QED BY <1>t, <2>1
<1>7. ASSUME NEW d \in Callers, Write(d) PROVE Kept
    <2> DEFINE new == Absent(call[d].derived)
    <2>1. /\ calls' = calls /\ call[d].pc = "derived"
          /\ call' = [call EXCEPT ![d].pc = "written", ![d].drafts = new]
        BY <1>7 DEF Write
    <2> HIDE DEF new
    <2> QED BY <1>t, <2>1
<1>8. ASSUME NEW d \in Callers, NEW scope \in Scopes, Begin(d, scope)
      PROVE  /\ calls' = calls + 1 /\ calls < MaxCalls /\ events' = events
             /\ \E x \in Callers :
                   /\ call'[x].pc = "waiting" /\ call'[x].id = calls + 1
                   /\ call'[x].scope \in Scopes
                   /\ \A y \in Callers \ {x} : call'[y] = call[y]
    <2> DEFINE n == calls + 1
               new == [IdleCall EXCEPT !.pc = "waiting", !.id = n, !.scope = scope]
    <2>1. /\ calls' = n /\ calls < MaxCalls /\ events' = events
          /\ call' = [call EXCEPT ![d] = new]
        BY <1>8 DEF Begin
    <2>h. n = calls + 1
        OBVIOUS
    <2> HIDE DEF n
    <2>2. new.pc = "waiting" /\ new.id = n /\ new.scope = scope
        BY DEF IdleCall
    <2> HIDE DEF new
    <2>3. call'[d] = new /\ \A y \in Callers \ {d} : call'[y] = call[y]
        BY <1>t, <2>1
    <2> QED BY <2>h, <2>1, <2>2, <2>3
<1>9. CASE UNCHANGED vars
    BY <1>0, <1>9 DEF vars
<1>10. CASE Next
    <2>1. CASE \/ \E leg \in LaterLegs : AddLeg(leg)
               \/ \E delivery \in Deliveries : LandFills(delivery)
        BY Zenon, <1>1, <1>2, <2>1
    <2>2. CASE \E d \in Callers : AcquireLock(d) \/ ResolveFills(d) \/ Derive(d)
        BY Zenon, <1>4, <1>5, <1>6, <2>2
    <2>3. CASE \E d \in Callers : Write(d) \/ Commit(d) \/ Rollback(d)
        BY Zenon, <1>3, <1>7, <2>3
    <2>4. CASE \E d \in Callers, scope \in Scopes : Begin(d, scope)
        BY Zenon, <1>8, <2>4
    <2> QED BY Zenon, <1>10, <2>1, <2>2, <2>3, <2>4 DEF Next
<1> QED BY <1>9, <1>10

\* A step leaves the rows alone, or is the commit of one call.
LEMMA RowsKept ==
    ASSUME [Next]_vars
    PROVE  events' = events \/ \E d \in Callers : Commit(d)
<1>1. ASSUME NEW leg, AddLeg(leg) PROVE events' = events
    BY <1>1 DEF AddLeg
<1>2. ASSUME NEW delivery, LandFills(delivery) PROVE events' = events
    BY <1>2 DEF LandFills
<1>3. ASSUME NEW d \in Callers, NEW scope, Begin(d, scope) PROVE events' = events
    BY <1>3 DEF Begin
<1>4. ASSUME NEW d \in Callers, AcquireLock(d) \/ ResolveFills(d) \/ Derive(d)
                                \/ Write(d) \/ Rollback(d)
      PROVE events' = events
    BY Zenon, <1>4 DEF AcquireLock, ResolveFills, Derive, Write, Rollback
<1>5. CASE UNCHANGED vars
    BY <1>5 DEF vars
<1> QED BY <1>1, <1>2, <1>3, <1>4, <1>5 DEF Next

LEMMA NextNumbered ==
    ASSUME IInv, Numbered, [Next]_vars
    PROVE  Numbered'
<1>0. calls \in Nat /\ MaxCalls \in Nat
    BY EventSyncAssumption DEF IInv, Shape
<1>1. CASE events' = events
    <2>1. CASE /\ calls' = calls
               /\ \A x \in Callers :
                     \/ call'[x].pc = "idle"
                     \/ /\ call[x].pc # "idle"
                        /\ call'[x].id = call[x].id /\ call'[x].scope = call[x].scope
        BY <1>1, <2>1 DEF Numbered
    <2>2. ASSUME calls' = calls + 1, calls < MaxCalls,
                 NEW d \in Callers, call'[d].pc = "waiting", call'[d].id = calls + 1,
                 call'[d].scope \in Scopes,
                 \A x \in Callers \ {d} : call'[x] = call[x]
          PROVE  Numbered'
        <3>1. calls' <= MaxCalls /\ \A i \in 1..calls : i \in 1..calls' /\ i # calls + 1
            BY <1>0, <2>2
        <3>2. \A r \in events : r.id \in 1..calls' /\ r.id # call'[d].id
            BY <2>2, <3>1 DEF Numbered
        <3>3. call'[d].id \in 1..calls'
            BY <1>0, <2>2
        <3>4. \A x \in Callers \ {d} : call'[x].pc # "idle" =>
                 call'[x].id \in 1..calls' /\ call'[x].id # call'[d].id
            BY <2>2, <3>1 DEF Numbered
        <3> QED BY <1>1, <2>2, <3>1, <3>2, <3>3, <3>4 DEF Numbered
    <2> QED BY <2>1, <2>2, CallKept
<1>2. ASSUME NEW d \in Callers, Commit(d) PROVE Numbered'
    <2> DEFINE rows == {[id |-> call[d].id, event |-> e] : e \in call[d].drafts}
    <2>1. /\ events' = events \cup rows /\ calls' = calls /\ call[d].pc = "written"
          /\ call' = [call EXCEPT ![d] = IdleCall]
        BY <1>2 DEF Commit
    <2>2. \A r \in rows : r.id = call[d].id
        OBVIOUS
    <2> HIDE DEF rows
    <2>3. call'[d].pc = "idle" /\ \A x \in Callers \ {d} : call'[x] = call[x]
        BY <2>1 DEF IInv, Shape, IdleCall
    <2>4. call[d].id \in 1..calls /\ \A r \in events' : r.id \in 1..calls'
        BY <2>1, <2>2 DEF Numbered
    <2>5. \A x \in Callers \ {d} : call[x].pc # "idle" => \A r \in events' : r.id # call[x].id
        BY <2>1, <2>2 DEF Numbered
    <2> QED BY <2>1, <2>3, <2>4, <2>5 DEF Numbered
<1> QED BY <1>1, <1>2, RowsKept

\* The lock keeps the fills as the resolution saw them, and legs are only added.
LEMMA NextKnown ==
    ASSUME IInv, Known, [Next]_vars
    PROVE  Known'
<1> DEFINE In(d) == call[d].pc \in {"resolved", "derived", "written"}
           From(d) == \E known \in SUBSET legs :
                         FirstLegs \subseteq known /\ call[d].res = Resolve(known, fills)
<1>0. FirstLegs \subseteq legs /\ \A d \in Callers : In(d) => From(d)
    BY DEF Known
<1>t. call \in [Callers ->
          [pc : {"idle", "waiting", "locked", "resolved", "derived", "written"},
           id : Nat, scope : (SUBSET Orders) \cup {None},
           res : [Fills -> Positions \cup {None}],
           derived : SUBSET Derivable, drafts : SUBSET Derivable]]
    BY DEF IInv, Shape
<1>1. ASSUME legs \subseteq legs', fills' = fills,
             \A x \in Callers : In(x)' => In(x) /\ call'[x].res = call[x].res
      PROVE  Known'
    <2> SUFFICES ASSUME NEW x \in Callers, In(x)' PROVE From(x)'
        BY <1>0, <1>1 DEF Known
    <2>1. PICK known \in SUBSET legs :
             FirstLegs \subseteq known /\ call[x].res = Resolve(known, fills)
        BY <1>0, <1>1
    <2>2. Resolve(known, fills') = Resolve(known, fills)
        BY <1>1
    <2>3. known \in SUBSET legs' /\ call'[x].res = Resolve(known, fills')
        BY <1>1, <2>1, <2>2
    <2> QED BY <2>1, <2>3
<1>2. ASSUME NEW leg, AddLeg(leg) PROVE Known'
    BY <1>1, <1>2 DEF AddLeg
<1>3. ASSUME NEW delivery, LandFills(delivery) PROVE Known'
    <2>1. legs' = legs /\ call' = call /\ lock = None
        BY <1>3 DEF LandFills
    <2>2. \A d \in Callers : ~In(d)
        BY <2>1, EventSyncAssumption DEF IInv, LockHeld
    <2> QED BY <1>0, <2>1, <2>2 DEF Known
<1>4. ASSUME NEW d \in Callers, ResolveFills(d) PROVE Known'
    <2> DEFINE new == Resolve(legs, fills)
    <2>1. /\ legs' = legs /\ fills' = fills
          /\ call' = [call EXCEPT ![d].pc = "resolved", ![d].res = new]
        BY <1>4 DEF ResolveFills
    <2>n. new = Resolve(legs, fills)
        OBVIOUS
    <2> HIDE DEF new
    <2>2. call'[d].res = new /\ \A x \in Callers \ {d} : call'[x] = call[x]
        BY <1>t, <2>1
    <2> SUFFICES ASSUME NEW x \in Callers, In(x)' PROVE From(x)'
        BY <1>0, <2>1 DEF Known
    <2>3. CASE x = d
        <3>1. Resolve(legs, fills') = Resolve(legs, fills)
            BY <2>1
        <3>2. call'[x].res = Resolve(legs, fills')
            BY <2>n, <2>2, <2>3, <3>1
        <3> QED BY <1>0, <2>1, <3>2
    <2>4. CASE x # d
        <3>1. PICK known \in SUBSET legs :
                 FirstLegs \subseteq known /\ call[x].res = Resolve(known, fills)
            BY <1>0, <2>2, <2>4
        <3>2. Resolve(known, fills') = Resolve(known, fills)
            BY <2>1
        <3> QED BY <2>1, <2>2, <2>4, <3>1, <3>2
    <2> QED BY <2>3, <2>4
<1>5. ASSUME NEW d \in Callers, Commit(d) \/ Rollback(d) PROVE Known'
    <2>1. legs' = legs /\ fills' = fills /\ call' = [call EXCEPT ![d] = IdleCall]
        BY <1>5 DEF Commit, Rollback
    <2>2. call'[d].pc = "idle" /\ \A x \in Callers \ {d} : call'[x] = call[x]
        BY <1>t, <2>1 DEF IdleCall
    <2> QED BY <1>1, <2>1, <2>2
<1>6. ASSUME NEW d \in Callers, NEW scope, Begin(d, scope) PROVE Known'
    <2> DEFINE n == calls + 1
               new == [IdleCall EXCEPT !.pc = "waiting", !.id = n, !.scope = scope]
    <2>1. legs' = legs /\ fills' = fills /\ call' = [call EXCEPT ![d] = new]
        BY <1>6 DEF Begin
    <2> HIDE DEF n
    <2>2. new.pc = "waiting"
        BY DEF IdleCall
    <2> HIDE DEF new
    <2>3. call'[d].pc = "waiting" /\ \A x \in Callers \ {d} : call'[x] = call[x]
        BY <1>t, <2>1, <2>2
    <2> QED BY <1>1, <2>1, <2>3
<1>7. ASSUME NEW d \in Callers, AcquireLock(d) PROVE Known'
    <2>1. legs' = legs /\ fills' = fills /\ call' = [call EXCEPT ![d].pc = "locked"]
        BY <1>7 DEF AcquireLock
    <2>2. call'[d].pc = "locked" /\ \A x \in Callers \ {d} : call'[x] = call[x]
        BY <1>t, <2>1
    <2> QED BY <1>1, <2>1, <2>2
<1>8. ASSUME NEW d \in Callers, Derive(d) \/ Write(d) PROVE Known'
    <2>1. legs' = legs /\ fills' = fills /\ In(d)
        BY <1>8 DEF Derive, Write
    <2>2. call'[d].res = call[d].res /\ \A x \in Callers \ {d} : call'[x] = call[x]
        BY <1>8, <1>t DEF Derive, Write
    <2> QED BY <1>1, <2>1, <2>2
<1>9. CASE UNCHANGED vars
    BY <1>1, <1>9 DEF vars
<1> QED BY <1>2, <1>3, <1>4, <1>5, <1>6, <1>7, <1>8, <1>9 DEF Next

\* LEDGER-09, CR-02: the commit of a call is one sync of the book, with the number of
\* the call, the legs it resolved by and its own scope; a leg entered and fills landed
\* are themselves, and all other steps leave the tables alone.
LEMMA NextBook ==
    ASSUME IInv, Stored, Numbered, Known, [Next]_vars
    PROVE  [Book!Next]_Book!vars
<1>1. ASSUME NEW d \in Callers, Commit(d) PROVE Book!Next
    <2> DEFINE c == call[d]
    <2>1. /\ c.pc = "written" /\ legs' = legs /\ fills' = fills
          /\ events' = events \cup {[id |-> c.id, event |-> e] : e \in c.drafts}
        BY <1>1 DEF Commit
    <2>2. PICK known \in SUBSET legs :
             FirstLegs \subseteq known /\ c.res = Resolve(known, fills)
        BY <2>1 DEF Known
    <2>3. /\ c.id \in 1..MaxCalls /\ c.scope \in Scopes /\ \A r \in events : r.id # c.id
        <3>1. c.id \in 1..calls /\ calls <= MaxCalls /\ calls \in Nat /\ MaxCalls \in Nat
            BY <2>1, EventSyncAssumption DEF Numbered, IInv, Shape
        <3> QED BY <2>1, <3>1 DEF Numbered
    <2>4. c.derived = DerivedFrom(known, fills, c.scope)
        BY <2>1, <2>2 DEF IInv, CallInv, DerivedFrom
    <2>5. c.drafts = DerivedFrom(known, fills, c.scope) \ {r.event : r \in events}
        <3>1. c.drafts = Absent(c.derived)
            BY <2>1 DEF IInv, CallInv
        <3>2. c.derived \subseteq Derivable /\ \A r \in events : r.event \in Derivable
            BY DEF IInv, Shape, Stored
        <3>3. \A e \in c.derived, r \in events : Key(r.event) = Key(e) <=> r.event = e
            BY <3>2, KeyInjective
        <3>4. c.drafts = c.derived \ {r.event : r \in events}
            BY <3>1, <3>3 DEF Absent
        <3> QED BY <2>4, <3>4
    <2>6. Book!Missing(known, c.scope) = c.drafts
        BY <2>5 DEF Book!Missing
    <2>7. Book!Sync(c.id, known, c.scope)
        BY <2>1, <2>2, <2>3, <2>6 DEF Book!Sync
    <2> QED BY <2>3, <2>7 DEF Book!Next
<1>2. ASSUME NEW leg \in LaterLegs, AddLeg(leg) PROVE Book!Next
    BY <1>2 DEF AddLeg, Book!Next, Book!Enter
<1>3. ASSUME NEW delivery \in Deliveries, LandFills(delivery) PROVE Book!Next
    BY <1>3 DEF LandFills, Book!Next, Book!Land
<1>4. ASSUME NEW d \in Callers, AcquireLock(d) \/ ResolveFills(d) \/ Derive(d)
                                \/ Write(d) \/ Rollback(d)
      PROVE  UNCHANGED Book!vars
    BY Zenon, <1>4 DEF AcquireLock, ResolveFills, Derive, Write, Rollback, Book!vars
<1>5. ASSUME NEW d \in Callers, NEW scope, Begin(d, scope) PROVE UNCHANGED Book!vars
    BY <1>5 DEF Begin, Book!vars
<1>6. CASE UNCHANGED vars
    BY <1>6 DEF vars, Book!vars
<1> QED BY <1>1, <1>2, <1>3, <1>4, <1>5, <1>6 DEF Next

\* sync_events is serializable: overlapping calls, rollbacks and repeats change the
\* events table as single calls at one instant would (EventBook).
THEOREM SpecImplementsBook == Spec => ImplementsBook
<1>1. Init => Book!Init /\ Numbered /\ Known
    <2> SUFFICES ASSUME Init PROVE Book!Init /\ Numbered /\ Known
        OBVIOUS
    <2>1. \A d \in Callers : call[d].pc = "idle"
        BY DEF Init, IdleCall
    <2> QED BY <2>1, EventSyncAssumption DEF Init, Book!Init, Numbered, Known
<1>2. IInv /\ Numbered /\ [Next]_vars => Numbered'
    BY NextNumbered
<1>3. IInv /\ Known /\ [Next]_vars => Known'
    BY NextKnown
<1>4. IInv /\ Stored /\ Numbered /\ Known /\ [Next]_vars => [Book!Next]_Book!vars
    BY NextBook
<1> QED BY <1>1, <1>2, <1>3, <1>4, Invariance, StoredInvariant, PTL
        DEF Spec, ImplementsBook, Book!Spec

--------------------------------------------------------------------------------
(* Fills of an order that land apart, before a leg is added.               *)

\* A landed fill adds anchors and takes none away.
LEMMA SurvivorsGrow ==
    ASSUME NEW L, NEW S, NEW T, S \subseteq T, NEW f
    PROVE  Survivors(L, S, f) \subseteq Survivors(L, T, f)
<1>1. Anchors(L, S, OrderOf[f]) \subseteq Anchors(L, T, OrderOf[f])
    BY DEF Anchors
<1> QED BY <1>1 DEF Survivors

\* A derived event takes a fill only where its position is the fill's one survivor.
LEMMA DerivedSurvives ==
    ASSUME NEW L, NEW S \in SUBSET Fills, NEW scope,
           NEW e \in DerivedFrom(L, S, scope), NEW f \in e.hash
    PROVE  Survivors(L, S, f) = {e.position}
<1>1. PICK p \in Positions, role \in Roles, o \in Orders :
        e = EventOf(p, role, Group(InScope(S, scope), Resolve(L, S), p, role, o))
    BY DEF DerivedFrom, DeriveEvents
<1>2. e.position = p /\ f \in S /\ Resolve(L, S)[f] = p /\ f \in Fills
    BY <1>1 DEF EventOf, Group, InScope
<1>3. p # None
    BY PairingAssumption
<1>4. PICK q \in Positions : Survivors(L, S, f) = {q}
    BY <1>2, <1>3 DEF Resolve
<1>5. Resolve(L, S)[f] \in Positions /\ Survivors(L, S, f) = {Resolve(L, S)[f]}
    BY <1>2, <1>3, <1>4 DEF Resolve
<1> QED BY <1>2, <1>5

\* Until a leg is added, the position of a row is a survivor of each of its fills.
Held ==
    legs = FirstLegs =>
        \A r \in events : \A f \in r.event.hash :
            r.event.position \in Survivors(legs, fills, f)

\* A commit only gives a fill to its one survivor, and the rows that have the fill
\* already are rows of survivors.
LEMMA NextHeld ==
    ASSUME IInv, Known, Held, OverlapsOnOnePosition, [Next]_vars
    PROVE  Held' /\ OverlapsOnOnePosition'
<1> SUFFICES ASSUME legs' = FirstLegs PROVE Held' /\ OverlapsOnOnePosition'
    BY DEF Held, OverlapsOnOnePosition
<1>1. ASSUME NEW d \in Callers, Commit(d) PROVE Held' /\ OverlapsOnOnePosition'
    <2> DEFINE c == call[d]
               rows == {[id |-> c.id, event |-> e] : e \in c.drafts}
    <2>1. /\ c.pc = "written" /\ legs' = legs /\ legs = FirstLegs /\ fills' = fills
          /\ events' = events \cup rows
        BY <1>1 DEF Commit
    <2>2. \A r \in rows : r.event \in c.drafts
        OBVIOUS
    <2>3. PICK known \in SUBSET legs :
             FirstLegs \subseteq known /\ c.res = Resolve(known, fills)
        BY <2>1 DEF Known
    <2>4. known = legs
        BY <2>1, <2>3
    <2>5. c.drafts \subseteq DerivedFrom(legs, fills, c.scope)
        BY <2>1, <2>3, <2>4 DEF IInv, CallInv, Absent, DerivedFrom
    <2>6. \A r \in rows : \A f \in r.event.hash :
             Survivors(legs, fills, f) = {r.event.position}
        <3> SUFFICES ASSUME NEW r \in rows, NEW f \in r.event.hash
                     PROVE  Survivors(legs, fills, f) = {r.event.position}
            OBVIOUS
        <3>1. PICK L, S, scope, e : L = legs /\ S = fills /\ scope = c.scope /\ e = r.event
            OBVIOUS
        <3>2. S \in SUBSET Fills /\ e \in DerivedFrom(L, S, scope) /\ f \in e.hash
            BY <2>2, <2>5, <3>1 DEF IInv, Shape
        <3>3. Survivors(L, S, f) = {e.position}
            BY <3>2, DerivedSurvives
        <3> QED BY <3>1, <3>3
    <2> HIDE DEF rows, c
    <2>7. \A f : Survivors(legs, fills, f)' = Survivors(legs, fills, f)
        BY <2>1 DEF Survivors, Anchors, Candidates
    <2>8. \A r \in events' : \A f \in r.event.hash :
             r.event.position \in Survivors(legs, fills, f)
        BY <2>1, <2>6 DEF Held
    <2>9. Held'
        BY <2>1, <2>7, <2>8 DEF Held
    <2>10. \A r, s \in events' : r.event.hash \cap s.event.hash # {} =>
              r.event.position = s.event.position
        BY <2>1, <2>6, <2>8 DEF OverlapsOnOnePosition
    <2>11. \A r \in events' : \A f \in r.event.hash : ClassifyFill(EffectOf[f]) = r.event.type
        <3>1. IInv'
            BY NextIInv
        <3> QED BY <3>1 DEF IInv, EventsOnOwnLegs
    <2> QED BY <2>9, <2>10, <2>11 DEF OverlapsOnOnePosition
<1>2. CASE events' = events
    <2>1. legs' = legs /\ fills \subseteq fills'
        <3>1. ASSUME NEW leg \in LaterLegs, AddLeg(leg) PROVE FALSE
            BY <3>1 DEF AddLeg, Known
        <3>2. ASSUME NEW delivery, LandFills(delivery)
              PROVE  legs' = legs /\ fills \subseteq fills'
            BY <3>2 DEF LandFills
        <3>3. ASSUME NEW d \in Callers, NEW scope, Begin(d, scope)
              PROVE  legs' = legs /\ fills' = fills
            BY <3>3 DEF Begin
        <3>4. ASSUME NEW d \in Callers, AcquireLock(d) \/ ResolveFills(d) \/ Derive(d)
              PROVE  legs' = legs /\ fills' = fills
            BY Zenon, <3>4 DEF AcquireLock, ResolveFills, Derive
        <3>5. ASSUME NEW d \in Callers, Write(d) \/ Commit(d) \/ Rollback(d)
              PROVE  legs' = legs /\ fills' = fills
            BY Zenon, <3>5 DEF Write, Commit, Rollback
        <3>6. CASE UNCHANGED vars
            BY <3>6 DEF vars
        <3> QED BY <3>1, <3>2, <3>3, <3>4, <3>5, <3>6 DEF Next
    <2>2. \A f : Survivors(legs, fills, f) \subseteq Survivors(legs, fills', f)
        BY <2>1, SurvivorsGrow
    <2>3. \A f : Survivors(legs, fills, f)' = Survivors(legs, fills', f)
        BY <2>1 DEF Survivors, Anchors, Candidates
    <2> QED BY <1>2, <2>1, <2>2, <2>3 DEF Held, OverlapsOnOnePosition
<1> QED BY <1>1, <1>2, RowsKept

\* L061: until a leg is added, two rows that share a fill are rows of one position and
\* type, in whatever pieces an order's fills land and whatever calls overlap.
THEOREM SpecOverlapsOnOnePosition == Spec => []OverlapsOnOnePosition
<1>1. Init => Known /\ Held /\ OverlapsOnOnePosition
    <2> SUFFICES ASSUME Init PROVE Known /\ Held /\ OverlapsOnOnePosition
        OBVIOUS
    <2>1. \A d \in Callers : call[d].pc = "idle"
        BY DEF Init, IdleCall
    <2> QED BY <2>1 DEF Init, Known, Held, OverlapsOnOnePosition
<1>2. IInv /\ Known /\ [Next]_vars => Known'
    BY NextKnown
<1>3. IInv /\ Known /\ Held /\ OverlapsOnOnePosition /\ [Next]_vars
        => Held' /\ OverlapsOnOnePosition'
    BY NextHeld
<1> QED BY <1>1, <1>2, <1>3, Invariance, PTL DEF Spec
================================================================================
