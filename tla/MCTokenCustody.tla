----------------------------- MODULE MCTokenCustody -----------------------------
(* TokenCustody for TLC. *)
EXTENDS TokenCustody, TLC

Symmetry == Permutations(Workers) \cup Permutations(Requests)
              \cup Permutations(Grants) \cup Permutations(States)
================================================================================
