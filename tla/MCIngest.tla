-------------------------------- MODULE MCIngest --------------------------------
(* Ingest for TLC: the functions over the sets of the cfg. *)
EXTENDS Ingest, TLC

CONSTANTS acctA, acctB

\* The transactions are trades of the first account with two legs.
OfFirstAccount == [a \in Activities |-> acctA]
LegsOfTrade == [a \in Activities |-> {"leg0", "leg1"}]

TimesAroundStart == -1..1
EarlyTimes == 0..1

Symmetry == Permutations(Workers)
================================================================================
