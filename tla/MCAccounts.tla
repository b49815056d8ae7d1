------------------------------- MODULE MCAccounts -------------------------------
(* Accounts with interchangeable values throughout.                  *)
EXTENDS Accounts, TLC

Symmetry ==
    Permutations(Requests) \cup Permutations(Tokens) \cup Permutations(Passwords)
        \cup Permutations(Users) \cup Permutations(Scripts) \cup Permutations(Cookies)
================================================================================
