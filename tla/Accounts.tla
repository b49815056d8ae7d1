-------------------------------- MODULE Accounts --------------------------------
(***************************************************************************)
(* The life of accounts: tools/create_admin.py, the routes of              *)
(* api/routes_identity.py over identity/setup_tokens.py, sessions.py,      *)
(* audit.py, passwords.py and account.py, as concurrent requests over the  *)
(* tables users, user_data_keys, setup_tokens, sessions and audit_log.     *)
(*                                                                         *)
(* A user is named by its id, which is never used again; so are the raw    *)
(* tokens, drawn from 256 bits.  Expiry is a set the rows enter at any     *)
(* time.  A request that answers an error changes nothing and is left out, *)
(* or is Drop when it was under way.                                       *)
(***************************************************************************)
EXTENDS FiniteSets, Naturals

CONSTANTS
    Users, Passwords, None,
    Tokens,      \* raw tokens of setup_tokens
    Cookies,     \* raw tokens of sessions
    Requests,    \* requests served at a time
    Scripts,     \* invocations of tools/create_admin.py
    MaxParams    \* bound: changes of the Argon2 parameters

ASSUME AccountsAssumption ==
    /\ None \notin Users \cup Passwords \cup Tokens \cup Cookies \cup Scripts
    /\ MaxParams \in Nat

VARIABLES
    status,      \* users rows: "new" before the insert, "live", "deleted"
    admins,      \* users.is_admin
    password,    \* users.password_hash
    keys,        \* users with a user_data_keys row
    tokens,      \* setup_tokens rows, by raw token
    tokenRow,    \* what was stored under a raw token, also after its deletion
    sessions,    \* sessions rows, by cookie
    cookieUser,  \* the user a cookie was given to
    expired,     \* tokens and cookies whose expires_at has passed
    audit,       \* audit_log rows
    params,      \* _hasher's parameters
    request,     \* per request: what the handler holds between statements
    script,      \* per invocation of create_admin
    scriptLock,  \* pg_advisory_xact_lock('morai:create_admin')
    uses,        \* auxiliary: how often a token was consumed
    latest,      \* auxiliary: the password of the last /setup that answered 200
    raced,       \* auxiliary: users whose /setup committed during a rehashing login
    asked        \* auxiliary: users whose DELETE /me ran all its statements

identity == <<status, admins, password, keys>>
tokenTables == <<tokens, tokenRow>>
sessionTables == <<sessions, cookieUser>>
scripts == <<script, scriptLock>>
history == <<uses, latest, raced, asked>>
vars == <<identity, tokenTables, sessionTables, expired, audit, params, request,
          scripts, history>>

Purposes == {"setup", "password_reset", "oauth_state"}
TokenRow == [user : Users, purpose : Purposes]
ASSUME TokenRowAssumption == None \notin TokenRow
Hash == [password : Passwords, params : 0..MaxParams]
Idle == [pc |-> "idle", user |-> None, token |-> None, password |-> None,
         privileged |-> FALSE, rehash |-> FALSE]

TypeOK ==
    /\ status \in [Users -> {"new", "live", "deleted"}]
    /\ admins \subseteq Users
    /\ password \in [Users -> Hash \cup {None}]
    /\ keys \subseteq Users
    /\ tokens \subseteq Tokens
    /\ tokenRow \in [Tokens -> TokenRow \cup {None}]
    /\ sessions \subseteq Cookies
    /\ cookieUser \in [Cookies -> Users \cup {None}]
    /\ expired \subseteq Tokens \cup Cookies
    /\ audit \subseteq [reader : Users, subject : Users]
    /\ params \in 0..MaxParams
    /\ request \in [Requests ->
          [pc : {"idle", "authenticated", "consumed", "verified"},
           user : Users \cup {None}, token : Tokens \cup Cookies \cup {None},
           password : Passwords \cup {None}, privileged : BOOLEAN, rehash : BOOLEAN]]
    /\ script \in [Scripts -> {"start", "locked", "checked", "done"}]
    /\ scriptLock \in Scripts \cup {None}
    /\ uses \in [Tokens -> Nat]
    /\ latest \in [Users -> Passwords \cup {None}]
    /\ raced \subseteq Users
    /\ asked \subseteq Users

Init ==
    /\ status = [u \in Users |-> "new"]
    /\ admins = {} /\ keys = {}
    /\ password = [u \in Users |-> None]
    /\ tokens = {} /\ tokenRow = [t \in Tokens |-> None]
    /\ sessions = {} /\ cookieUser = [s \in Cookies |-> None]
    /\ expired = {} /\ audit = {} /\ params = 0
    /\ request = [r \in Requests |-> Idle]
    /\ script = [c \in Scripts |-> "start"] /\ scriptLock = None
    /\ uses = [t \in Tokens |-> 0]
    /\ latest = [u \in Users |-> None]
    /\ raced = {} /\ asked = {}

Live(u) == status[u] = "live"

\* The insert of issue_token; the token is fresh, the user a users row.
IssueToken(u, t, purpose) ==
    /\ tokenRow[t] = None
    /\ tokens' = tokens \cup {t}
    /\ tokenRow' = [tokenRow EXCEPT ![t] = [user |-> u, purpose |-> purpose]]

Finished(r) == [request EXCEPT ![r] = Idle]

--------------------------------------------------------------------------------
(* The surroundings.                                                       *)

\* expires_at of a stored row passes.
Expire(x) ==
    /\ x \in (tokens \cup sessions) \ expired
    /\ expired' = expired \cup {x}
    /\ UNCHANGED <<identity, tokenTables, sessionTables, audit, params, request,
                   scripts, history>>

\* A deployment changes the parameters of _hasher, a constant of the process.
BumpParameters ==
    /\ params < MaxParams
    /\ \A r \in Requests : request[r] = Idle
    /\ params' = params + 1
    /\ UNCHANGED <<identity, tokenTables, sessionTables, expired, audit, request,
                   scripts, history>>

\* The handler raises or answers an error, only read, or the process dies: the
\* transaction is rolled back.  What consume_token committed stays.
Drop(r) ==
    /\ request[r] # Idle
    /\ request' = Finished(r)
    /\ UNCHANGED <<identity, tokenTables, sessionTables, expired, audit, params,
                   scripts, history>>

--------------------------------------------------------------------------------
(* tools/create_admin.py                                                   *)

\* Mutant of ScriptLocks: no advisory lock.
ScriptLocksFree(c) ==
    /\ script[c] = "start"
    /\ scriptLock' = c
    /\ script' = [script EXCEPT ![c] = "locked"]
    /\ UNCHANGED <<identity, tokenTables, sessionTables, expired, audit, params,
                   request, history>>

ScriptLocks(c) ==
    /\ script[c] = "start"
    /\ scriptLock = None
    /\ scriptLock' = c
    /\ script' = [script EXCEPT ![c] = "locked"]
    /\ UNCHANGED <<identity, tokenTables, sessionTables, expired, audit, params,
                   request, history>>

ScriptChecks(c) ==
    /\ script[c] = "locked"
    /\ admins = {}
    /\ script' = [script EXCEPT ![c] = "checked"]
    /\ UNCHANGED <<identity, tokenTables, sessionTables, expired, audit, params,
                   request, scriptLock, history>>

\* The insert of the admin and its token, and the commit.  No data key.
CreateAdmin(c, u, t) ==
    /\ script[c] = "checked"
    /\ status[u] = "new"
    /\ status' = [status EXCEPT ![u] = "live"]
    /\ admins' = admins \cup {u}
    /\ IssueToken(u, t, "setup")
    /\ script' = [script EXCEPT ![c] = "done"]
    /\ scriptLock' = None
    /\ UNCHANGED <<password, keys, sessionTables, expired, audit, params, request,
                   history>>

\* An admin exists, or the script fails.
ScriptEnds(c) ==
    /\ script[c] \in {"locked", "checked"}
    /\ script' = [script EXCEPT ![c] = "done"]
    /\ scriptLock' = None
    /\ UNCHANGED <<identity, tokenTables, sessionTables, expired, audit, params,
                   request, history>>

--------------------------------------------------------------------------------
(* Requests with a session.                                                *)

\* get_current_user.
GetCurrentUser(r, s) ==
    LET u == cookieUser[s] IN
    /\ request[r] = Idle
    /\ s \in sessions \ expired
    /\ request' = [request EXCEPT ![r] = [Idle EXCEPT !.pc = "authenticated", !.user = u,
                                                      !.token = s,
                                                      !.privileged = (u \in admins)]]
    /\ UNCHANGED <<identity, tokenTables, sessionTables, expired, audit, params,
                   scripts, history>>

\* POST /admin/users: user, setup token and data key in one transaction.
CreateUser(r, u, t) ==
    /\ request[r].pc = "authenticated" /\ request[r].privileged
    /\ status[u] = "new"
    /\ status' = [status EXCEPT ![u] = "live"]
    /\ IssueToken(u, t, "setup")
    /\ keys' = keys \cup {u}
    /\ request' = Finished(r)
    /\ UNCHANGED <<admins, password, sessionTables, expired, audit, params, scripts,
                   history>>

\* open_audited_read: the insert into audit_log, whose two foreign keys want users
\* rows.
OpenAuditedRead(reader, subject) ==
    /\ Live(reader) /\ Live(subject)
    /\ audit' = audit \cup {[reader |-> reader, subject |-> subject]}

\* POST /admin/users/{user_id}/reset-password.
ResetPassword(r, u, t) ==
    /\ request[r].pc = "authenticated" /\ request[r].privileged
    /\ OpenAuditedRead(request[r].user, u)
    /\ IssueToken(u, t, "password_reset")
    /\ request' = Finished(r)
    /\ UNCHANGED <<identity, sessionTables, expired, params, scripts, history>>

\* POST /schwab/connect, for its row in setup_tokens.
Connect(r, t) ==
    /\ request[r].pc = "authenticated"
    /\ Live(request[r].user)
    /\ IssueToken(request[r].user, t, "oauth_state")
    /\ request' = Finished(r)
    /\ UNCHANGED <<identity, sessionTables, expired, audit, params, scripts, history>>

\* POST /logout deletes the row of the cookie.
Logout(r) ==
    /\ request[r].pc = "authenticated"
    /\ sessions' = sessions \ {request[r].token}
    /\ request' = Finished(r)
    /\ UNCHANGED <<identity, tokenTables, cookieUser, expired, audit, params, scripts,
                   history>>

\* Mutant of DeleteAccount: the rows of setup_tokens are left for their expiry.
DeleteAccountKeepsTokens(u) ==
    [keys |-> keys \ {u}, tokens |-> tokens,
     sessions |-> {s \in sessions : cookieUser[s] # u}]

\* delete_account: what its DELETEs leave of the tables that refer to users.
DeleteAccount(u) ==
    [keys |-> keys \ {u},
     tokens |-> {t \in tokens : tokenRow[t].user # u},
     sessions |-> {s \in sessions : cookieUser[s] # u}]

Audited(u) == \E row \in audit : u \in {row.reader, row.subject}

\* A row still refers to the user: the foreign keys do not cascade.
Referenced(u, left) ==
    \/ u \in left.keys
    \/ \E t \in left.tokens : tokenRow[t].user = u
    \/ \E s \in left.sessions : cookieUser[s] = u
    \/ Audited(u)

\* DELETE /me.
DeleteMe(r) ==
    LET u == request[r].user
        left == DeleteAccount(u) IN
    /\ request[r].pc = "authenticated"
    /\ ~Referenced(u, left)
    /\ status' = [status EXCEPT ![u] = "deleted"]
    /\ admins' = admins \ {u}
    /\ password' = [password EXCEPT ![u] = None]
    /\ keys' = left.keys /\ tokens' = left.tokens /\ sessions' = left.sessions
    /\ asked' = asked \cup {u}
    /\ request' = Finished(r)
    /\ UNCHANGED <<tokenRow, cookieUser, expired, audit, params, scripts, uses, latest,
                   raced>>

\* The last DELETE of DELETE /me violates a foreign key: everything is undone.
DeleteRefused(r) ==
    LET u == request[r].user IN
    /\ request[r].pc = "authenticated"
    /\ Referenced(u, DeleteAccount(u))
    /\ asked' = asked \cup {u}
    /\ request' = Finished(r)
    /\ UNCHANGED <<identity, tokenTables, sessionTables, expired, audit, params, scripts,
                   uses, latest, raced>>

--------------------------------------------------------------------------------
(* Requests without a session.                                             *)

\* Mutants of ConsumeToken: the row is left; any purpose will do.
ConsumeTokenKeeps(t, purposes) ==
    /\ t \in tokens \ expired
    /\ tokenRow[t].purpose \in purposes
    /\ tokens' = tokens
ConsumeTokenAny(t, purposes) ==
    /\ t \in tokens \ expired
    /\ tokens' = tokens \ {t}

\* consume_token: DELETE ... RETURNING of an unexpired row of the purpose.
ConsumeToken(t, purposes) ==
    /\ t \in tokens \ expired
    /\ tokenRow[t].purpose \in purposes
    /\ tokens' = tokens \ {t}

\* POST /setup up to the commit in consume_token, tried for both purposes.
Setup(r, t) ==
    /\ request[r] = Idle
    /\ ConsumeToken(t, {"setup", "password_reset"})
    /\ request' = [request EXCEPT ![r] = [Idle EXCEPT !.pc = "consumed", !.token = t,
                                                      !.user = tokenRow[t].user]]
    /\ uses' = [uses EXCEPT ![t] = uses[t] + 1]
    /\ UNCHANGED <<identity, tokenRow, sessionTables, expired, audit, params, scripts,
                   latest, raced, asked>>

HashPassword(pw) == [password |-> pw, params |-> params]

\* The rest of /setup: the UPDATE of exactly one row, and its commit.
SetPassword(r, pw) ==
    LET u == request[r].user IN
    /\ request[r].pc = "consumed"
    /\ Live(u)
    /\ password' = [password EXCEPT ![u] = HashPassword(pw)]
    /\ latest' = [latest EXCEPT ![u] = pw]
    /\ raced' = IF \E q \in Requests : request[q].user = u /\ request[q].rehash
                THEN raced \cup {u} ELSE raced \ {u}
    /\ request' = Finished(r)
    /\ UNCHANGED <<status, admins, keys, tokenTables, sessionTables, expired, audit,
                   params, scripts, uses, asked>>

NeedsRehash(hash) == hash.params # params

\* POST /login up to verify_password: login_lookup has read the stored hash.
VerifyPassword(r, u, pw) ==
    LET stored == password[u] IN
    /\ request[r] = Idle
    /\ Live(u) /\ stored # None
    /\ stored.password = pw
    /\ request' = [request EXCEPT ![r] = [Idle EXCEPT !.pc = "verified", !.user = u,
                                                      !.password = pw,
                                                      !.rehash = NeedsRehash(stored)]]
    /\ UNCHANGED <<identity, tokenTables, sessionTables, expired, audit, params,
                   scripts, history>>

\* Mutant of Login: the hash is written at every login.
LoginRehashes(r, s) ==
    LET u == request[r].user IN
    /\ request[r].pc = "verified"
    /\ Live(u)
    /\ cookieUser[s] = None
    /\ password' = [password EXCEPT ![u] = HashPassword(request[r].password)]
    /\ sessions' = sessions \cup {s}
    /\ cookieUser' = [cookieUser EXCEPT ![s] = u]
    /\ request' = Finished(r)
    /\ UNCHANGED <<status, admins, keys, tokenTables, expired, audit, params, scripts,
                   history>>

\* Mutant of Login: sessions.user_id without its foreign key.
LoginUnchecked(r, s) ==
    LET u == request[r].user IN
    /\ request[r].pc = "verified"
    /\ cookieUser[s] = None
    /\ password' = IF request[r].rehash /\ Live(u)
                   THEN [password EXCEPT ![u] = HashPassword(request[r].password)]
                   ELSE password
    /\ sessions' = sessions \cup {s}
    /\ cookieUser' = [cookieUser EXCEPT ![s] = u]
    /\ request' = Finished(r)
    /\ UNCHANGED <<status, admins, keys, tokenTables, expired, audit, params, scripts,
                   history>>

\* The rest of /login: the UPDATE of a stale hash, the sessions row, the commit.
Login(r, s) ==
    LET u == request[r].user IN
    /\ request[r].pc = "verified"
    /\ Live(u)
    /\ cookieUser[s] = None
    /\ password' = IF request[r].rehash
                   THEN [password EXCEPT ![u] = HashPassword(request[r].password)]
                   ELSE password
    /\ sessions' = sessions \cup {s}
    /\ cookieUser' = [cookieUser EXCEPT ![s] = u]
    /\ request' = Finished(r)
    /\ UNCHANGED <<status, admins, keys, tokenTables, expired, audit, params, scripts,
                   history>>

Next ==
    \/ \E x \in Tokens \cup Cookies : Expire(x)
    \/ BumpParameters
    \/ \E c \in Scripts : ScriptLocks(c) \/ ScriptChecks(c) \/ ScriptEnds(c)
    \/ \E c \in Scripts, u \in Users, t \in Tokens : CreateAdmin(c, u, t)
    \/ \E r \in Requests, s \in Cookies : GetCurrentUser(r, s) \/ Login(r, s)
    \/ \E r \in Requests, u \in Users, t \in Tokens :
         CreateUser(r, u, t) \/ ResetPassword(r, u, t)
    \/ \E r \in Requests, t \in Tokens : Connect(r, t) \/ Setup(r, t)
    \/ \E r \in Requests : Logout(r) \/ DeleteMe(r) \/ DeleteRefused(r) \/ Drop(r)
    \/ \E r \in Requests, pw \in Passwords : SetPassword(r, pw)
    \/ \E r \in Requests, u \in Users, pw \in Passwords : VerifyPassword(r, u, pw)

Spec == Init /\ [][Next]_vars

--------------------------------------------------------------------------------
(* Properties.                                                             *)

\* T-02-32, WR-06: however many invocations of create_admin overlap, and whatever
\* accounts come and go, there is at most one admin.
AtMostOneAdmin == Cardinality(admins) <= 1

\* AUTH-02, NN-35: a link sets one password, however often and however concurrently
\* it is delivered.
TokenWorksOnce == \A t \in Tokens : uses[t] <= 1

\* D2-01, D4-07: the token that lets /setup write a password was issued for that
\* user by the admin or the script; the OAuth state of the same table is none.
SetupNeedsItsToken ==
    \A r \in Requests : request[r].pc = "consumed" =>
        LET row == tokenRow[request[r].token] IN
        row.user = request[r].user /\ row.purpose # "oauth_state"

\* AUTH-05: the password in force is the one of the last /setup, unless that
\* committed between the lookup and the rehash of a login.
PasswordIsLatest ==
    \A u \in Users : Live(u) /\ u \notin raced =>
        (password[u] # None => password[u].password = latest[u])

\* AUTH-06: DELETE /me deletes the account of a user no audit entry names, whatever
\* sessions and links are outstanding.
DeletionGoesThrough ==
    \A u \in asked : status[u] = "deleted" \/ Audited(u)

\* AUTH-06: nothing is kept of an account that is gone, and a request that was under
\* way while DELETE /me committed writes nothing about it afterwards: no session of
\* a login that had verified the password, no link, no audit entry, no password.
ErasureComplete ==
    \A u \in Users : ~Live(u) =>
        /\ u \notin admins \cup keys
        /\ password[u] = None
        /\ \A t \in tokens : tokenRow[t].user # u
        /\ \A s \in sessions : cookieUser[s] # u
        /\ ~Audited(u)
================================================================================
