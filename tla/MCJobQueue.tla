------------------------------- MODULE MCJobQueue -------------------------------
(* Two worker processes, one periodic task, and jobs with and without a lock. *)
EXTENDS JobQueue

CONSTANTS l1, q1

MCDeferrals == {Plain,
                [lock |-> l1, queueing |-> None, priority |-> 0],
                [lock |-> l1, queueing |-> q1, priority |-> 1]}
================================================================================
