------------------------------ MODULE MCWindowLoop ------------------------------
(* WindowLoop over a range of times a few windows wide. *)
EXTENDS WindowLoop

MCTimes == -2..7
================================================================================
