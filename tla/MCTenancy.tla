------------------------------- MODULE MCTenancy --------------------------------
(* Tenancy for TLC: two requests and one job over their pools.              *)
EXTENDS Tenancy, TLC

CONSTANTS r1, r2, j1, admin, u1, u2, c1, c2, k1

MCProcessOf == (r1 :> "web") @@ (r2 :> "web") @@ (j1 :> "worker")
MCPoolOf == (c1 :> "web") @@ (c2 :> "web") @@ (k1 :> "worker")

Symmetry == Permutations({r1, r2}) \cup Permutations({u1, u2}) \cup Permutations({c1, c2})
================================================================================
