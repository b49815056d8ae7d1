-------------------------------- MODULE JobBoard --------------------------------
(***************************************************************************)
(* What the job table promises its callers, without rows, row locks,       *)
(* heartbeats, events or ticks: a job is posted once, waits, is taken by   *)
(* one worker and ends in that worker's hand.  A worker that dies leaves   *)
(* its job running until somebody puts it back or gives it up; a waiting   *)
(* job may be withdrawn, and one that has ended may be put back.           *)
(***************************************************************************)
CONSTANTS JobIds, Workers, None

VARIABLES board, hand

vars == <<board, hand>>

Init ==
    /\ board = [j \in JobIds |-> "none"]
    /\ hand = [w \in Workers |-> None]

Move(j, from, to) ==
    /\ board[j] = from
    /\ board' = [board EXCEPT ![j] = to]

Post(j) == Move(j, "none", "waiting") /\ UNCHANGED hand
Withdraw(j) == Move(j, "waiting", "ended") /\ UNCHANGED hand

\* A job in nobody's hand, one that has ended or whose worker died.
Loose(j) == \A w \in Workers : hand[w] # j
PutBack(j) ==
    /\ Loose(j)
    /\ Move(j, "ended", "waiting") \/ Move(j, "running", "waiting")
    /\ UNCHANGED hand
GiveUp(j) == Loose(j) /\ Move(j, "running", "ended") /\ UNCHANGED hand

Take(w, j) ==
    /\ hand[w] = None
    /\ Move(j, "waiting", "running")
    /\ hand' = [hand EXCEPT ![w] = j]

End(w) ==
    /\ hand[w] # None
    /\ Move(hand[w], "running", "ended")
    /\ hand' = [hand EXCEPT ![w] = None]

Die(w) ==
    /\ hand' = [hand EXCEPT ![w] = None]
    /\ UNCHANGED board

Next ==
    \/ \E j \in JobIds : Post(j) \/ Withdraw(j) \/ PutBack(j) \/ GiveUp(j)
    \/ \E w \in Workers, j \in JobIds : Take(w, j)
    \/ \E w \in Workers : End(w) \/ Die(w)

Spec == Init /\ [][Next]_vars
================================================================================
