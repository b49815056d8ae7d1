--------------------------------- MODULE Tenancy --------------------------------
(***************************************************************************)
(* What keeps tenants apart: row-level security over pooled connections    *)
(* (identity/rls.py, identity/sessions.py, migrations 0003 to 0012) and    *)
(* the per-user data keys under one master key (crypto/rotation.py,        *)
(* ledger/fills.py::provision_data_key).                                   *)
(*                                                                         *)
(* A request or job works through statements on a connection of its        *)
(* process's pool.  The user id and the admin flag the policies consult    *)
(* are transaction-local settings of that connection.  A commit ends them  *)
(* and gives the connection back; the next statement of the same request   *)
(* takes any free one.                                                     *)
(***************************************************************************)
EXTENDS Integers, FiniteSets

CONSTANTS
    Users, Admin,
    Slots,        \* requests and jobs under way at a time
    ProcessOf,    \* the process a slot belongs to: "web" or "worker"
    Conns,        \* the connections of get_app_engine's pools
    PoolOf,       \* the process a connection belongs to
    None,
    MaxKek, MaxBoots   \* bounds of the model

Processes == {"web", "worker"}
Keks == 0..MaxKek

ASSUME TenancyAssumption ==
    /\ Admin \in Users
    /\ ProcessOf \in [Slots -> Processes]
    /\ PoolOf \in [Conns -> Processes]
    /\ MaxKek \in Nat /\ MaxBoots \in Nat
    /\ None \notin Users \cup Keks \cup Conns
    /\ {"null", "empty"} \cap Users = {}

VARIABLES
    bypass,   \* may the role morai_app bypass row-level security
    conn,     \* the settings of each pooled connection
    req,      \* the local state of each request or job
    account,  \* users: "none" yet, "live", or "gone" for good
    keys,     \* user_data_keys
    env,      \* MORAI_MASTER_KEY as it is configured now
    proc,     \* the processes: the master key each has cached, None when it is down
    current,  \* the master key the last committed rotation wrapped for
    rot,      \* the transaction of tools/rotate_kek.py
    boots     \* number of boots so far

vars == <<bypass, conn, req, account, keys, env, proc, current, rot, boots>>

\* current_setting('app.current_user_id', true) is NULL on a connection that has
\* never set it and '' after a transaction that has.
Unset == [uid |-> "null", admin |-> FALSE]

Idle == [pc |-> "idle", user |-> None, new |-> None, kek |-> None, conn |-> None]

\* kek is the master key the row is wrapped under.  late is history: the row was
\* not there yet when a rotation read its rows, or its process had an older key.
NoKey == [kek |-> None, late |-> FALSE]

NoRotation == [pc |-> "idle", rows |-> {}, new |-> None]

\* The statements that touch a table with a policy.
Protected == {"handler", "provision", "write", "job", "record"}

TypeOK ==
    /\ bypass \in BOOLEAN
    /\ conn \in [Conns -> [uid : Users \cup {"null", "empty"}, admin : BOOLEAN]]
    /\ req \in [Slots -> [pc : Protected \cup {"idle", "switch", "provisioned",
                                             "consumed", "failing"},
                          user : Users \cup {None}, new : Users \cup {None},
                          kek : Keks \cup {None}, conn : Conns \cup {None}]]
    /\ account \in [Users -> {"none", "live", "gone"}]
    /\ keys \in [Users -> [kek : Keks \cup {None}, late : BOOLEAN]]
    /\ {env, current} \subseteq Keks
    /\ proc \in [Processes -> Keks \cup {None}]
    /\ rot \in [pc : {"idle", "read"}, rows : SUBSET Users, new : Keks \cup {None}]
    /\ boots \in 0..MaxBoots

\* tools/create_admin.py has run; it provisions no key.  Migration 0003 creates
\* morai_app without superuser and bypassrls, but leaves a role of that name that
\* exists already as it is.
Init ==
    /\ bypass \in BOOLEAN
    /\ conn = [c \in Conns |-> Unset]
    /\ req = [r \in Slots |-> Idle]
    /\ account = [u \in Users |-> IF u = Admin THEN "live" ELSE "none"]
    /\ keys = [u \in Users |-> NoKey]
    /\ env = 0
    /\ proc = [p \in Processes |-> None]
    /\ current = 0
    /\ rot = NoRotation
    /\ boots = 0

--------------------------------------------------------------------------------
(* Connections and settings.                                               *)

Free(r) == {c \in Conns : /\ PoolOf[c] = ProcessOf[r]
                          /\ \A x \in Slots : req[x].conn # c}

\* set_config('app.current_user_id', ..., true).
SetUser(c, u) == [conn EXCEPT ![c].uid = u]

\* Mutant of EndTransaction: app.is_admin is set for the session, not the transaction.
EndTransactionKeepsAdmin(c) ==
    [conn EXCEPT ![c].uid = IF @ = "null" THEN "null" ELSE "empty"]

\* Commit or rollback: what set_config made local is undone.
EndTransaction(c) ==
    [conn EXCEPT ![c].uid = IF @ = "null" THEN "null" ELSE "empty",
                 ![c].admin = FALSE]

\* The policies user_isolation of the data tables and self_or_admin of users: whose
\* rows a statement on the connection can see and write.
UserIsolation(c) ==
    IF bypass THEN Users ELSE {u \in Users : conn[c].uid = u}

SelfOrAdmin(c) ==
    IF conn[c].admin THEN Users ELSE UserIsolation(c)

AssertConnectionCannotBypassRls == ~bypass

\* require_rls_context passes on a connection set to a user; it raises on NULL and,
\* in UUID, on the empty string.
RequireRlsContext(uid) == uid \in Users

--------------------------------------------------------------------------------
(* Processes.                                                              *)

\* A process starts or restarts: it reads MORAI_MASTER_KEY, its pool is new, and
\* what it was doing is gone.  The web process refuses to serve on a role that
\* bypasses the policies; the worker asserts it job by job.
Boot(p) ==
    /\ boots < MaxBoots
    /\ boots' = boots + 1
    /\ proc' = [proc EXCEPT ![p] =
                   IF p = "web" /\ ~AssertConnectionCannotBypassRls THEN None ELSE env]
    /\ conn' = [c \in Conns |-> IF PoolOf[c] = p THEN Unset ELSE conn[c]]
    /\ req' = [r \in Slots |-> IF ProcessOf[r] = p THEN Idle ELSE req[r]]
    /\ UNCHANGED <<bypass, account, keys, env, current, rot>>

Up(r) == proc[ProcessOf[r]] # None
Begins(r, p) == req[r].pc = "idle" /\ ProcessOf[r] = p /\ Up(r)

tenants == <<bypass, account, keys, env, proc, current, rot, boots>>

\* The request ends, or its handler raises: get_db_session closes the session.
Close(r) ==
    /\ req[r].conn # None
    /\ conn' = EndTransaction(req[r].conn)
    /\ req' = [req EXCEPT ![r] = Idle]
    /\ UNCHANGED tenants

--------------------------------------------------------------------------------
(* Authenticated requests.                                                 *)

\* get_current_user: the cookie's session row, the context, the caller's own row,
\* and the flag if that row says so.
GetCurrentUser(r, u) ==
    /\ Begins(r, "web")
    /\ account[u] = "live"
    /\ \E c \in Free(r) :
         /\ conn' = [SetUser(c, u) EXCEPT ![c].admin = @ \/ u = Admin]
         /\ req' = [req EXCEPT ![r] = [Idle EXCEPT !.pc = "handler", !.user = u, !.conn = c]]
    /\ UNCHANGED tenants

\* create_user, after get_current_admin: the user row is flushed under the admin's
\* context.  A name another transaction is inserting waits for it.
CreateUser(r, u) ==
    /\ req[r].pc = "handler" /\ req[r].user = Admin
    /\ account[u] = "none"
    /\ \A x \in Slots : req[x].new # u
    /\ u \in SelfOrAdmin(req[r].conn)
    /\ req' = [req EXCEPT ![r].pc = "switch", ![r].new = u]
    /\ UNCHANGED <<conn, tenants>>

\* The context is switched to the new user, and confirmed.
SwitchContext(r) ==
    LET c == req[r].conn IN
    /\ req[r].pc = "switch"
    /\ conn' = SetUser(c, req[r].new)
    /\ RequireRlsContext(conn'[c].uid)
    /\ req' = [req EXCEPT ![r].pc = "provision"]
    /\ UNCHANGED tenants

\* provision_data_key: a new key, wrapped under the master key of the process.
ProvisionDataKey(r) ==
    /\ req[r].pc = "provision"
    /\ req[r].new \in UserIsolation(req[r].conn)
    /\ req' = [req EXCEPT ![r].pc = "provisioned", ![r].kek = proc[ProcessOf[r]]]
    /\ UNCHANGED <<conn, tenants>>

\* Mutant of CommitUser: the user row is committed before its key is inserted.
CommitUserFirst(r) ==
    LET u == req[r].new IN
    /\ req[r].pc \in {"switch", "provisioned"}
    /\ account' = [account EXCEPT ![u] = "live"]
    /\ keys' = [keys EXCEPT ![u].kek = req[r].kek]
    /\ conn' = EndTransaction(req[r].conn)
    /\ req' = [req EXCEPT ![r] = Idle]
    /\ UNCHANGED <<bypass, env, proc, current, rot, boots>>

\* The one commit of create_user.
CommitUser(r) ==
    LET u == req[r].new IN
    /\ req[r].pc = "provisioned"
    /\ account' = [account EXCEPT ![u] = "live"]
    /\ keys' = [keys EXCEPT ![u] = [kek |-> req[r].kek,
                                    late |-> rot.pc = "read" \/ req[r].kek # current]]
    /\ conn' = EndTransaction(req[r].conn)
    /\ req' = [req EXCEPT ![r] = Idle]
    /\ UNCHANGED <<bypass, env, proc, current, rot, boots>>

\* delete_me: the key first, the account last, one transaction.
DeleteMe(r) ==
    LET u == req[r].user IN
    /\ req[r].pc = "handler"
    /\ account' = [account EXCEPT ![u] = "gone"]
    /\ keys' = [keys EXCEPT ![u] = NoKey]
    /\ conn' = EndTransaction(req[r].conn)
    /\ req' = [req EXCEPT ![r] = Idle]
    /\ UNCHANGED <<bypass, env, proc, current, rot, boots>>

--------------------------------------------------------------------------------
(* Requests that bring a token or a password, and jobs.                    *)

\* Mutant of ConsumeToken: the context is set before the commit and not again.
ConsumeTokenInContext(r, u) ==
    /\ Begins(r, "web")
    /\ account[u] = "live"
    /\ \E c, d \in Free(r) :
         /\ conn' = [conn EXCEPT ![c].uid = "empty"]
         /\ req' = [req EXCEPT ![r] = [Idle EXCEPT !.pc = "write", !.user = u, !.conn = d]]
    /\ UNCHANGED tenants

\* setup and callback: consume_token deletes the row, which has no policy, and commits.
ConsumeToken(r, u) ==
    /\ Begins(r, "web")
    /\ account[u] = "live"
    /\ Free(r) # {}
    /\ req' = [req EXCEPT ![r] = [Idle EXCEPT !.pc = "consumed", !.user = u]]
    /\ UNCHANGED <<conn, tenants>>

\* They then set the context on the connection the next transaction has got, and
\* confirm it.
SetContext(r) ==
    /\ req[r].pc = "consumed"
    /\ \E c \in Free(r) :
         /\ conn' = SetUser(c, req[r].user)
         /\ RequireRlsContext(conn'[c].uid)
         /\ req' = [req EXCEPT ![r].pc = "write", ![r].conn = c]
    /\ UNCHANGED tenants

\* login: login_lookup runs with its owner's rights and needs no context; the rehash
\* is the caller's own write.
Login(r, u) ==
    /\ Begins(r, "web")
    /\ account[u] = "live"
    /\ \E c \in Free(r) :
         /\ conn' = SetUser(c, u)
         /\ req' = [req EXCEPT ![r] = [Idle EXCEPT !.pc = "write", !.user = u, !.conn = c]]
    /\ UNCHANGED tenants

\* sync_user_task of a user the fan-out or the route named: the assertion, then
\* sync_user's context.
SyncUser(r, u) ==
    /\ Begins(r, "worker")
    /\ account[u] # "none"
    /\ AssertConnectionCannotBypassRls
    /\ \E c \in Free(r) :
         /\ conn' = SetUser(c, u)
         /\ req' = [req EXCEPT ![r] = [Idle EXCEPT !.pc = "job", !.user = u, !.conn = c]]
    /\ UNCHANGED tenants

\* It raises, for one because its process cannot unwrap the user's key: rollback.
SyncFails(r) ==
    /\ req[r].pc = "job"
    /\ conn' = EndTransaction(req[r].conn)
    /\ req' = [req EXCEPT ![r].pc = "failing", ![r].conn = None]
    /\ UNCHANGED tenants

\* The failed run is recorded by a session of its own.
RecordFailure(r) ==
    /\ req[r].pc = "failing"
    /\ \E c \in Free(r) :
         /\ conn' = SetUser(c, req[r].user)
         /\ req' = [req EXCEPT ![r].pc = "record", ![r].conn = c]
    /\ UNCHANGED tenants

--------------------------------------------------------------------------------
(* Rotating the master key.                                                *)

Stored == {u \in Users : keys[u].kek # None}

\* rotate_kek reads every row and unwraps it with the old key the operator gave; one
\* row under another key raises InvalidTag before anything is written.
RotateRead(old) ==
    /\ rot.pc = "idle"
    /\ current < MaxKek
    /\ \A u \in Stored : keys[u].kek = old
    /\ rot' = [pc |-> "read", rows |-> Stored, new |-> current + 1]
    /\ UNCHANGED <<bypass, conn, req, account, keys, env, proc, current, boots>>

\* Mutant of RotateCommit: one commit per row, so that the last may be missing.
RotateCommitRows ==
    /\ rot.pc = "read"
    /\ \E done \in SUBSET rot.rows :
         keys' = [u \in Users |-> IF u \in done \cap Stored
                                  THEN [kek |-> rot.new, late |-> FALSE] ELSE keys[u]]
    /\ current' = rot.new
    /\ rot' = NoRotation
    /\ UNCHANGED <<bypass, conn, req, account, env, proc, boots>>

\* The rows it read, re-wrapped, in one commit.  A row deleted meanwhile stays deleted;
\* whether the flush notices it and raises (RotateAbort) is left open.
RotateCommit ==
    /\ rot.pc = "read"
    /\ keys' = [u \in Users |-> IF u \in rot.rows \cap Stored
                                THEN [kek |-> rot.new, late |-> FALSE] ELSE keys[u]]
    /\ current' = rot.new
    /\ rot' = NoRotation
    /\ UNCHANGED <<bypass, conn, req, account, env, proc, boots>>

\* The script fails or is stopped before its commit.
RotateAbort ==
    /\ rot.pc = "read"
    /\ rot' = NoRotation
    /\ UNCHANGED <<bypass, conn, req, account, keys, env, proc, current, boots>>

\* The operator configures the new key; processes see it when they boot.
Configure ==
    /\ env # current
    /\ env' = current
    /\ UNCHANGED <<bypass, conn, req, account, keys, proc, current, rot, boots>>

--------------------------------------------------------------------------------
Next ==
    \/ \E p \in Processes : Boot(p)
    \/ \E r \in Slots :
         \/ Close(r) \/ SwitchContext(r) \/ ProvisionDataKey(r) \/ CommitUser(r)
         \/ DeleteMe(r) \/ SetContext(r) \/ SyncFails(r) \/ RecordFailure(r)
         \/ \E u \in Users :
              \/ GetCurrentUser(r, u) \/ CreateUser(r, u) \/ ConsumeToken(r, u)
              \/ Login(r, u) \/ SyncUser(r, u)
    \/ \E old \in Keks : RotateRead(old)
    \/ RotateCommit \/ RotateAbort \/ Configure

Spec == Init /\ [][Next]_vars

--------------------------------------------------------------------------------
(* Properties.                                                             *)

Subject(r) == IF req[r].pc = "provision" THEN req[r].new ELSE req[r].user

\* D2-08, D3-18: a statement on a data table sees the rows of the user whose
\* credential the request brought, all of them and nobody else's, whatever the
\* connection was used for before and whichever connection the session has got
\* after a commit of its own.
OwnRowsOnly ==
    \A r \in Slots : req[r].pc \in Protected =>
        UserIsolation(req[r].conn) = {Subject(r)}

\* The admin clause of the users policy is open to requests the admin authenticated
\* and to nothing else that runs on the connection afterwards.
AccountsOfOthersForAdmin ==
    \A r \in Slots : req[r].conn # None =>
        \/ SelfOrAdmin(req[r].conn) \subseteq {Subject(r)}
        \/ req[r].user = Admin /\ req[r].pc \in {"handler", "switch", "provision", "provisioned"}

\* CRYPT-01, AUTH-06: every account the admin created has its data key from the
\* moment it exists until it is deleted, and no key outlives its account, also where
\* a rotation read the key before the deletion and commits after it.
KeyWithAccount ==
    \A u \in Users : keys[u].kek # None <=> account[u] = "live" /\ u # Admin

\* D3-06: a rotation leaves a key behind only if the account was committed after the
\* rotation read its rows, by a process that had not got the new master key; failed
\* and repeated rotations leave no other mixture.
OnlyLateKeysLeftBehind ==
    \A u \in Stored : keys[u].kek # current => keys[u].late
================================================================================
