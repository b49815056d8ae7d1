--------------------------------- MODULE Pairing --------------------------------
(***************************************************************************)
(* The pure part of ledger/pairing.py: which position a fill belongs to    *)
(* (RESOLVE_FILL_POSITIONS_SQL) and which OPEN and CLOSE events a set of   *)
(* fills derives (derive_events), for one user.                            *)
(*                                                                         *)
(* A fill is named by its primary key, and its columns are functions of    *)
(* that key, since fills are never updated.  hash_fill_ids is a digest of  *)
(* the sorted keys of a group; the model keeps the set of keys itself.     *)
(***************************************************************************)
EXTENDS Integers, FiniteSets, FiniteSetsExt

CONSTANTS
    Fills, Positions, Symbols, Orders,
    OrderOf, SymbolOf,   \* order_id and occ_symbol of a fill
    EffectOf,            \* position_effect, any text the vendor sends
    SideOf,              \* side, any text the vendor sends
    AmountOf,            \* price_usd * quantity, None when either is missing
    None

ASSUME PairingAssumption ==
    /\ IsFiniteSet(Fills)
    /\ OrderOf \in [Fills -> Orders]
    /\ SymbolOf \in [Fills -> Symbols]
    /\ EffectOf \in [Fills -> STRING]
    /\ SideOf \in [Fills -> STRING]
    /\ AmountOf \in [Fills -> Nat \cup {None}]
    /\ None \notin Positions /\ None \notin Int
    /\ \A scope \in SUBSET Orders : scope # None

Leg == Positions \X Symbols

--------------------------------------------------------------------------------
(* resolve_fill_positions, over the legs and fills it reads.               *)

\* The fill_candidates rows of a fill.
Candidates(legs, f) == {p \in Positions : <<p, SymbolOf[f]>> \in legs}

\* The order_anchors rows of an order: positions that some fill of the order can
\* only belong to.
Anchors(legs, fills, o) ==
    {p \in Positions :
        \E f \in fills : OrderOf[f] = o /\ Candidates(legs, f) = {p}}

\* Mutant of Survivors: the fill's own candidates are not consulted.
SurvivorsAnyAnchor(legs, fills, f) == Anchors(legs, fills, OrderOf[f])

\* The rows the scalar subquery aggregates.
Survivors(legs, fills, f) ==
    Candidates(legs, f) \cap Anchors(legs, fills, OrderOf[f])

\* Mutant of Resolve: any survivor will do.
ResolveAny(legs, fills) ==
    [f \in Fills |->
        IF f \in fills /\ Survivors(legs, fills, f) # {}
        THEN CHOOSE p \in Survivors(legs, fills, f) : TRUE
        ELSE None]

\* CASE WHEN COUNT(*) = 1; two anchors, or none, leave the fill unresolved.
Resolve(legs, fills) ==
    [f \in Fills |->
        IF f \in fills /\ \E p \in Positions : Survivors(legs, fills, f) = {p}
        THEN CHOOSE p \in Positions : Survivors(legs, fills, f) = {p}
        ELSE None]

--------------------------------------------------------------------------------
(* derive_events.                                                          *)

Roles == {"OPEN", "CLOSE"}

ClassifyFill(effect) ==
    CASE effect = "OPENING" -> "OPEN"
      [] effect = "CLOSING" -> "CLOSE"
      [] OTHER -> "UNKNOWN"

\* Mutant of SignedLegAmount: one sign for both event types.
SignedLegAmountOneSign(f, type) ==
    IF AmountOf[f] = None \/ SideOf[f] \notin {"BUY", "SELL"} THEN None
    ELSE IF SideOf[f] = "BUY" THEN AmountOf[f] ELSE -AmountOf[f]

SignedLegAmount(f, type) ==
    LET towards == IF type = "OPEN" THEN "BUY" ELSE "SELL" IN
    IF AmountOf[f] = None \/ SideOf[f] \notin {"BUY", "SELL"} THEN None
    ELSE IF SideOf[f] = towards THEN AmountOf[f] ELSE -AmountOf[f]

\* One gap makes the whole amount a gap.
NetAmount(group, type) ==
    IF \E f \in group : SignedLegAmount(f, type) = None THEN None
    ELSE MapThenSumSet(LAMBDA f : SignedLegAmount(f, type), group)

\* Mutant of Group: without the order.
GroupByPosition(fills, res, p, role, o) ==
    {f \in fills : res[f] = p /\ ClassifyFill(EffectOf[f]) = role}

\* The fills grouped under (position, role, order).
Group(fills, res, p, role, o) ==
    {f \in fills : /\ res[f] = p
                   /\ ClassifyFill(EffectOf[f]) = role
                   /\ OrderOf[f] = o}

\* The event of one group.  amount stands for the one of open_debit_usd and
\* close_credit_usd that the event's type selects.
EventOf(p, role, group) ==
    [position |-> p, type |-> role, hash |-> group,
     amount |-> NetAmount(group, role)]

\* Fills that resolve to None or have another effect contribute to nothing.
DeriveEvents(fills, res) ==
    {e \in {EventOf(p, role, Group(fills, res, p, role, o)) :
                p \in Positions, role \in Roles, o \in Orders} : e.hash # {}}

\* The filter on order_ids; scope None is no filter.
InScope(fills, scope) ==
    IF scope = None THEN fills ELSE {f \in fills : OrderOf[f] \in scope}
================================================================================
