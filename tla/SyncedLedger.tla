------------------------------ MODULE SyncedLedger ------------------------------
(***************************************************************************)
(* What the ingest path promises, without jobs, workers, locks or windows: *)
(* a sync of one user happens at one instant.  It lands, of one account,   *)
(* everything the vendor owes for the range from the watermark less the    *)
(* overlap (or the lookback, for a user never synced) up to some moment    *)
(* already past, and moves the watermark to that moment.  Nothing else     *)
(* touches the ledger but the deletion of the account.                     *)
(***************************************************************************)
EXTENDS Integers

CONSTANTS Users, Accounts, Activities, AccountOf, Fills, FillsOf, ExecTimes,
          PostDelay, Overlap, Lookback, None

VARIABLES clock, execAt, users, account, lastSynced, broker, fills

vars == <<clock, execAt, users, account, lastSynced, broker, fills>>

Init ==
    /\ clock = 0
    /\ execAt \in [Activities -> ExecTimes]
    /\ users = Users
    /\ account = [u \in Users |-> None]
    /\ lastSynced = [u \in Users |-> None]
    /\ broker = [u \in Users |-> {}]
    /\ fills = [u \in Users |-> {}]

Pass ==
    /\ clock' = clock + 1
    /\ UNCHANGED <<execAt, users, account, lastSynced, broker, fills>>

Connect(u, acct) ==
    /\ u \in users
    /\ account' = [account EXCEPT ![u] = acct]
    /\ UNCHANGED <<clock, execAt, users, lastSynced, broker, fills>>

\* The transactions of acct a sync up to moment s may land ...
May(u, acct, s) ==
    LET from == IF lastSynced[u] = None THEN s - Lookback ELSE lastSynced[u] - Overlap
    IN {a \in Activities : AccountOf[a] = acct /\ from <= execAt[a] /\ execAt[a] <= s}

\* ... and those among them it must land, being published for certain.
Must(u, acct, s) == {a \in May(u, acct, s) : execAt[a] + PostDelay < s}

Sync(u, acct, s) ==
    /\ u \in users
    /\ account[u] # None
    /\ s <= clock
    /\ \E landed \in SUBSET May(u, acct, s) :
         /\ Must(u, acct, s) \subseteq broker[u] \cup landed
         /\ broker' = [broker EXCEPT ![u] = @ \cup landed]
         /\ fills' = [fills EXCEPT ![u] = @ \cup UNION {FillsOf[a] : a \in landed}]
    /\ lastSynced' = [lastSynced EXCEPT ![u] = s]
    /\ UNCHANGED <<clock, execAt, users, account>>

Delete(u) ==
    /\ u \in users
    /\ users' = users \ {u}
    /\ account' = [account EXCEPT ![u] = None]
    /\ lastSynced' = [lastSynced EXCEPT ![u] = None]
    /\ broker' = [broker EXCEPT ![u] = {}]
    /\ fills' = [fills EXCEPT ![u] = {}]
    /\ UNCHANGED <<clock, execAt>>

Next ==
    \/ Pass
    \/ \E u \in Users, acct \in Accounts : Connect(u, acct)
    \/ \E u \in Users, acct \in Accounts, s \in 0..clock : Sync(u, acct, s)
    \/ \E u \in Users : Delete(u)

Spec == Init /\ [][Next]_vars
================================================================================
