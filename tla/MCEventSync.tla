------------------------------ MODULE MCEventSync -------------------------------
(* EventSync for TLC: two calendars that share the short leg "S".  Order A opens  *)
(* the first and closes a leg of the second, order B opens the second, order C    *)
(* closes the first with a fill that has no price and one of an unknown effect,   *)
(* order D closes a leg of the second, and order E adds to the first.  A third    *)
(* calendar, entered late, shares the long leg of the second; its other leg is    *)
(* not traded here.                                                               *)
EXTENDS EventSync, TLC

CONSTANTS p1, p2, p3, c1, c2

FillTable ==
    ("a1" :> <<"A", "L1", "OPENING", "BUY", 5>>) @@
    ("a2" :> <<"A", "S", "OPENING", "SELL", 3>>) @@
    ("a3" :> <<"A", "L2", "CLOSING", "SELL", 4>>) @@
    ("b1" :> <<"B", "L2", "OPENING", "BUY", 7>>) @@
    ("b2" :> <<"B", "S", "OPENING", "SELL", 2>>) @@
    ("c1" :> <<"C", "L1", "CLOSING", "SELL", 6>>) @@
    ("c2" :> <<"C", "S", "CLOSING", "BUY", None>>) @@
    ("c3" :> <<"C", "S", "EXPIRED", "BUY", 1>>) @@
    ("d1" :> <<"D", "L2", "CLOSING", "SELL", 8>>) @@
    ("e1" :> <<"E", "L1", "OPENING", "BUY", 4>>)

Column(i) == [f \in Fills |-> FillTable[f][i]]
MCOrderOf == Column(1)
MCSymbolOf == Column(2)
MCEffectOf == Column(3)
MCSideOf == Column(4)
MCAmountOf == Column(5)

WholeOrder(o) == {f \in Fills : FillTable[f][1] = o}
ByOrder == {WholeOrder(o) : o \in Orders}
ByFill == {{f} : f \in Fills}

FirstTwo == {<<p1, "L1">>, <<p1, "S">>, <<p2, "L2">>, <<p2, "S">>}
Third == {<<p3, "L2">>}
NoLegs == {}

SweepsAndOrders == {None, {"A"}, {"B"}}
Sweeps == {None}

Symmetry == Permutations(Callers)
================================================================================
