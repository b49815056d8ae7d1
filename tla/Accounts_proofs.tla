---------------------------- MODULE Accounts_proofs -----------------------------
(***************************************************************************)
(* Proofs about the life of accounts, for any number of users, tokens,     *)
(* sessions, requests and invocations of create_admin: types, at most one  *)
(* admin, links that work once and for their user only, the password in    *)
(* force, and deletion.                                                    *)
(***************************************************************************)
EXTENDS Accounts, FiniteSetTheorems, TLAPS

RequestType == [pc : {"idle", "authenticated", "consumed", "verified"},
                user : Users \cup {None}, token : Tokens \cup Cookies \cup {None},
                password : Passwords \cup {None}, privileged : BOOLEAN, rehash : BOOLEAN]

\* Every session is somebody's, every link has its row, and a request under way
\* acts for a user.
Owned ==
    /\ \A s \in sessions : cookieUser[s] \in Users
    /\ \A t \in tokens : tokenRow[t] \in TokenRow
    /\ \A r \in Requests :
          /\ request[r].pc # "idle" => request[r].user \in Users
          /\ request[r].pc = "verified" => request[r].password \in Passwords

\* An invocation of create_admin past the lock holds it; once it has found no admin
\* there is none; and there are never two.
OneScript ==
    /\ \A c \in Scripts : script[c] \in {"locked", "checked"} <=> scriptLock = c
    /\ \A c \in Scripts : script[c] = "checked" => admins = {}
    /\ \A a, b \in admins : a = b

\* A link that can still be used, or was not given out, has not been used; the row
\* under which a link was stored stays known to the request that consumed it.
Links ==
    /\ \A t \in Tokens : /\ uses[t] <= 1
                         /\ t \in tokens => uses[t] = 0
                         /\ tokenRow[t] = None => uses[t] = 0
    /\ \A r \in Requests : request[r].pc = "consumed" =>
          /\ request[r].token \in Tokens /\ tokenRow[request[r].token] \in TokenRow
          /\ tokenRow[request[r].token].user = request[r].user
          /\ tokenRow[request[r].token].purpose # "oauth_state"

\* Only accounts have passwords, and a login that will write its password back has
\* the latest one.
Rehashing ==
    /\ \A u \in Users : password[u] # None => Live(u)
    /\ \A r \in Requests : request[r].rehash =>
          /\ request[r].pc = "verified"
          /\ request[r].user \notin raced => request[r].password = latest[request[r].user]

IInv == TypeOK /\ Owned /\ OneScript /\ Links /\ Rehashing /\ PasswordIsLatest
           /\ DeletionGoesThrough /\ ErasureComplete

--------------------------------------------------------------------------------
(* Requests.                                                               *)

\* The three ways in which a request begins, as values.
Authenticated(s) == [Idle EXCEPT !.pc = "authenticated", !.user = cookieUser[s],
                                 !.token = s, !.privileged = (cookieUser[s] \in admins)]
Consumed(t) == [Idle EXCEPT !.pc = "consumed", !.token = t, !.user = tokenRow[t].user]
Verified(u, pw) == [Idle EXCEPT !.pc = "verified", !.user = u, !.password = pw,
                                !.rehash = NeedsRehash(password[u])]

\* The fields of a request at rest.
LEMMA IdleFields ==
    /\ Idle \in RequestType /\ Idle.pc = "idle" /\ Idle.rehash = FALSE
BY DEF Idle, RequestType

\* A request with a session acts for the session's user.
LEMMA AuthenticatedFields ==
    ASSUME NEW s \in Cookies, cookieUser[s] \in Users
    PROVE  /\ Authenticated(s) \in RequestType /\ Authenticated(s).pc = "authenticated"
           /\ Authenticated(s).user = cookieUser[s] /\ Authenticated(s).rehash = FALSE
<1> DEFINE b == cookieUser[s] \in admins
           new == [Idle EXCEPT !.pc = "authenticated", !.user = cookieUser[s],
                               !.token = s, !.privileged = b]
<1>1. b \in BOOLEAN /\ Authenticated(s) = new
    BY DEF Authenticated
<1> HIDE DEF b
<1>2. /\ new \in RequestType /\ new.pc = "authenticated"
      /\ new.user = cookieUser[s] /\ new.rehash = FALSE
    BY <1>1 DEF Idle, RequestType
<1> QED BY <1>1, <1>2

\* One with a link acts for the user the link was stored for.
LEMMA ConsumedFields ==
    ASSUME NEW t \in Tokens, tokenRow[t] \in TokenRow
    PROVE  /\ Consumed(t) \in RequestType /\ Consumed(t).pc = "consumed"
           /\ Consumed(t).user = tokenRow[t].user /\ Consumed(t).user \in Users
           /\ Consumed(t).token = t /\ Consumed(t).rehash = FALSE
BY DEF Consumed, Idle, RequestType, TokenRow

\* One with a password acts for the user of the password.
LEMMA VerifiedFields ==
    ASSUME NEW u \in Users, NEW pw \in Passwords
    PROVE  /\ Verified(u, pw) \in RequestType /\ Verified(u, pw).pc = "verified"
           /\ Verified(u, pw).user = u /\ Verified(u, pw).password = pw
<1>1. NeedsRehash(password[u]) \in BOOLEAN
    BY DEF NeedsRehash
<1> HIDE DEF NeedsRehash
<1> QED BY <1>1 DEF Verified, Idle, RequestType

\* Steps that begin a request, with what they bring.
Begins(r) ==
    \/ \E s \in sessions : request'[r] = Authenticated(s)
    \/ \E t \in Tokens : Setup(r, t) /\ request'[r] = Consumed(t)
    \/ \E u \in Users, pw \in Passwords : VerifyPassword(r, u, pw) /\ request'[r] = Verified(u, pw)

\* Every step leaves a request as it is, ends it or begins it.
LEMMA RequestEffect ==
    ASSUME TypeOK, [Next]_vars
    PROVE  \A r \in Requests : request'[r] = request[r] \/ request'[r] = Idle \/ Begins(r)
<1>1. request \in [Requests -> RequestType]
    BY DEF TypeOK, RequestType
<1>2. CASE request' = request
    BY <1>2
<1>3. ASSUME NEW q \in Requests, request' = Finished(q)
      PROVE  \A r \in Requests : request'[r] = request[r] \/ request'[r] = Idle
    BY <1>1, <1>3 DEF Finished
<1>4. ASSUME NEW q \in Requests, NEW s \in Cookies, GetCurrentUser(q, s)
      PROVE  \A r \in Requests : request'[r] = request[r] \/ Begins(r)
    <2>1. request' = [request EXCEPT ![q] = Authenticated(s)] /\ s \in sessions
        BY <1>4 DEF GetCurrentUser, Authenticated
    <2> QED BY <1>1, <2>1 DEF Begins
<1>5. ASSUME NEW q \in Requests, NEW t \in Tokens, Setup(q, t)
      PROVE  \A r \in Requests : request'[r] = request[r] \/ Begins(r)
    <2>1. request' = [request EXCEPT ![q] = Consumed(t)]
        BY <1>5 DEF Setup, Consumed
    <2> QED BY <1>1, <1>5, <2>1 DEF Begins
<1>6. ASSUME NEW q \in Requests, NEW u \in Users, NEW pw \in Passwords, VerifyPassword(q, u, pw)
      PROVE  \A r \in Requests : request'[r] = request[r] \/ Begins(r)
    <2>1. request' = [request EXCEPT ![q] = Verified(u, pw)]
        BY <1>6 DEF VerifyPassword, Verified
    <2> QED BY <1>1, <1>6, <2>1 DEF Begins
<1>7. CASE \/ \E x \in Tokens \cup Cookies : Expire(x)
           \/ BumpParameters
           \/ \E c \in Scripts : ScriptLocks(c) \/ ScriptChecks(c) \/ ScriptEnds(c)
           \/ \E c \in Scripts, u \in Users, t \in Tokens : CreateAdmin(c, u, t)
           \/ UNCHANGED vars
    <2>1. request' = request
        BY <1>7 DEF Expire, BumpParameters, ScriptLocks, ScriptChecks, ScriptEnds, CreateAdmin, vars
    <2> QED BY <1>2, <2>1
<1>8. ASSUME NEW q \in Requests,
             \/ \E s \in Cookies : Login(q, s)
             \/ \E u \in Users, t \in Tokens : CreateUser(q, u, t) \/ ResetPassword(q, u, t)
             \/ \E t \in Tokens : Connect(q, t)
             \/ Logout(q) \/ DeleteMe(q) \/ DeleteRefused(q) \/ Drop(q)
             \/ \E pw \in Passwords : SetPassword(q, pw)
      PROVE  request' = Finished(q)
    BY <1>8 DEF Login, CreateUser, ResetPassword, Connect, Logout, DeleteMe, DeleteRefused,
        Drop, SetPassword
<1> QED BY <1>2, <1>3, <1>4, <1>5, <1>6, <1>7, <1>8 DEF Next

\* The requests keep their types.
LEMMA RequestTyped ==
    ASSUME TypeOK, Owned, [Next]_vars
    PROVE  request' \in [Requests -> RequestType]
<1>1. request \in [Requests -> RequestType] /\ sessions \subseteq Cookies
    BY DEF TypeOK, RequestType
<1>2. ASSUME NEW r \in Requests PROVE request'[r] \in RequestType
    <2>1. CASE request'[r] \in {request[r], Idle}
        BY <1>1, <2>1, IdleFields
    <2>2. CASE \E s \in sessions : request'[r] = Authenticated(s)
        BY <1>1, <2>2, AuthenticatedFields DEF Owned
    <2>3. CASE \E t \in Tokens : Setup(r, t) /\ request'[r] = Consumed(t)
        BY <2>3, ConsumedFields DEF Owned, Setup, ConsumeToken
    <2>4. CASE \E u \in Users, pw \in Passwords : request'[r] = Verified(u, pw)
        BY <2>4, VerifiedFields
    <2> QED BY <2>1, <2>2, <2>3, <2>4, RequestEffect DEF Begins
<1>3. \E f : request' = [r \in Requests |-> f[r]]
    <2>1. CASE request' = request
        BY <1>1, <2>1
    <2>2. CASE \E r \in Requests : \E new : request' = [request EXCEPT ![r] = new]
        BY <1>1, <2>2
    <2> QED BY <2>1, <2>2 DEF Next, Expire, BumpParameters, ScriptLocks, ScriptChecks, ScriptEnds,
            CreateAdmin, vars, Login, CreateUser, ResetPassword, Connect, Logout, DeleteMe,
            DeleteRefused, Drop, SetPassword, GetCurrentUser, Setup, VerifyPassword, Finished
<1> QED BY <1>2, <1>3

--------------------------------------------------------------------------------
(* What a step does to the tables.                                         *)

\* A link's row is written once, when the link is issued to a user; any other step
\* only takes links away.
LEMMA LinkEffect ==
    ASSUME TypeOK, Owned, [Next]_vars
    PROVE  \/ tokenRow' = tokenRow /\ tokens' \subseteq tokens
           \/ \E u \in Users, t \in Tokens, p \in Purposes : IssueToken(u, t, p)
<1>1. CASE \E c \in Scripts, u \in Users, t \in Tokens : CreateAdmin(c, u, t)
    BY <1>1 DEF CreateAdmin, Purposes
<1>2. CASE \E r \in Requests, u \in Users, t \in Tokens :
               CreateUser(r, u, t) \/ ResetPassword(r, u, t)
    BY <1>2 DEF CreateUser, ResetPassword, Purposes
<1>3. ASSUME NEW r \in Requests, NEW t \in Tokens, Connect(r, t)
      PROVE  \E u \in Users, p \in Purposes : IssueToken(u, t, p)
    <2>1. request[r].user \in Users
        BY <1>3 DEF Connect, Owned
    <2>2. PICK u \in Users : u = request[r].user
        BY <2>1
    <2> QED BY <1>3, <2>2 DEF Connect, Purposes, IssueToken
<1>4. CASE \E r \in Requests, t \in Tokens : Setup(r, t)
    BY <1>4 DEF Setup, ConsumeToken
<1>5. CASE \E r \in Requests : DeleteMe(r)
    BY <1>5 DEF DeleteMe, DeleteAccount
<1>6. CASE tokenRow' = tokenRow /\ tokens' = tokens
    BY <1>6
<1>7. CASE \/ \E x \in Tokens \cup Cookies : Expire(x)
           \/ BumpParameters
           \/ \E c \in Scripts : ScriptLocks(c) \/ ScriptChecks(c) \/ ScriptEnds(c)
           \/ \E r \in Requests, s \in Cookies : GetCurrentUser(r, s) \/ Login(r, s)
           \/ \E r \in Requests : Logout(r) \/ DeleteRefused(r) \/ Drop(r)
           \/ \E r \in Requests, pw \in Passwords : SetPassword(r, pw)
           \/ \E r \in Requests, u \in Users, pw \in Passwords : VerifyPassword(r, u, pw)
           \/ UNCHANGED vars
    <2>1. UNCHANGED tokenTables
        BY <1>7 DEF Expire, BumpParameters, ScriptLocks, ScriptChecks, ScriptEnds,
            GetCurrentUser, Login, Logout, DeleteRefused, Drop, SetPassword, VerifyPassword, vars
    <2> QED BY <1>6, <2>1 DEF tokenTables
<1> QED BY <1>1, <1>2, <1>3, <1>4, <1>5, <1>7 DEF Next

\* A session is written once, at a login; any other step only takes sessions away.
LEMMA SessionEffect ==
    ASSUME TypeOK, [Next]_vars
    PROVE  \/ cookieUser' = cookieUser /\ sessions' \subseteq sessions
           \/ \E r \in Requests, s \in Cookies : Login(r, s)
<1>1. CASE \E r \in Requests : Logout(r)
    BY <1>1 DEF Logout
<1>2. CASE \E r \in Requests : DeleteMe(r)
    BY <1>2 DEF DeleteMe, DeleteAccount
<1>3. CASE \/ \E x \in Tokens \cup Cookies : Expire(x)
           \/ BumpParameters
           \/ \E c \in Scripts : ScriptLocks(c) \/ ScriptChecks(c) \/ ScriptEnds(c)
           \/ \E c \in Scripts, u \in Users, t \in Tokens : CreateAdmin(c, u, t)
           \/ \E r \in Requests, s \in Cookies : GetCurrentUser(r, s)
           \/ \E r \in Requests, u \in Users, t \in Tokens :
                 CreateUser(r, u, t) \/ ResetPassword(r, u, t)
           \/ \E r \in Requests, t \in Tokens : Connect(r, t) \/ Setup(r, t)
           \/ \E r \in Requests : DeleteRefused(r) \/ Drop(r)
           \/ \E r \in Requests, pw \in Passwords : SetPassword(r, pw)
           \/ \E r \in Requests, u \in Users, pw \in Passwords : VerifyPassword(r, u, pw)
           \/ UNCHANGED vars
    <2>1. UNCHANGED sessionTables
        BY <1>3 DEF Expire, BumpParameters, ScriptLocks, ScriptChecks, ScriptEnds, CreateAdmin,
            GetCurrentUser, CreateUser, ResetPassword, Connect, Setup, DeleteRefused, Drop,
            SetPassword, VerifyPassword, vars
    <2> QED BY <2>1 DEF sessionTables
<1> QED BY <1>1, <1>2, <1>3 DEF Next

\* Steps that change the users table or what is recorded about passwords.
Changes ==
    \/ \E c \in Scripts, u \in Users, t \in Tokens : CreateAdmin(c, u, t)
    \/ \E r \in Requests, u \in Users, t \in Tokens : CreateUser(r, u, t)
    \/ \E r \in Requests : DeleteMe(r)
    \/ \E r \in Requests, pw \in Passwords : SetPassword(r, pw)
    \/ \E r \in Requests, s \in Cookies : Login(r, s)

\* All others leave it alone.
LEMMA IdentityEffect ==
    ASSUME [Next]_vars
    PROVE  Changes \/ UNCHANGED <<status, admins, password, keys, latest, raced>>
<1>1. CASE \E r \in Requests, t \in Tokens : Setup(r, t)
    BY <1>1 DEF Setup, identity
<1>2. CASE \E r \in Requests : DeleteRefused(r)
    BY <1>2 DEF DeleteRefused, identity
<1>3. CASE \/ \E x \in Tokens \cup Cookies : Expire(x)
           \/ BumpParameters
           \/ \E c \in Scripts : ScriptLocks(c) \/ ScriptChecks(c) \/ ScriptEnds(c)
           \/ \E r \in Requests, s \in Cookies : GetCurrentUser(r, s)
           \/ \E r \in Requests, u \in Users, t \in Tokens : ResetPassword(r, u, t)
           \/ \E r \in Requests, t \in Tokens : Connect(r, t)
           \/ \E r \in Requests : Logout(r) \/ Drop(r)
           \/ \E r \in Requests, u \in Users, pw \in Passwords : VerifyPassword(r, u, pw)
           \/ UNCHANGED vars
    <2>1. UNCHANGED <<identity, history>>
        BY <1>3 DEF Expire, BumpParameters, ScriptLocks, ScriptChecks, ScriptEnds,
            GetCurrentUser, ResetPassword, Connect, Logout, Drop, VerifyPassword, vars
    <2> QED BY <2>1 DEF identity, history
<1> QED BY <1>1, <1>2, <1>3 DEF Next, Changes

\* A link is used by the step that consumes it, and no other.
LEMMA UseEffect ==
    ASSUME [Next]_vars
    PROVE  uses' = uses \/ \E r \in Requests, t \in Tokens : Setup(r, t)
<1>1. CASE \/ \E r \in Requests : DeleteMe(r) \/ DeleteRefused(r)
           \/ \E r \in Requests, pw \in Passwords : SetPassword(r, pw)
    BY <1>1 DEF DeleteMe, DeleteRefused, SetPassword
<1>2. CASE \/ \E x \in Tokens \cup Cookies : Expire(x)
           \/ BumpParameters
           \/ \E c \in Scripts : ScriptLocks(c) \/ ScriptChecks(c) \/ ScriptEnds(c)
           \/ \E c \in Scripts, u \in Users, t \in Tokens : CreateAdmin(c, u, t)
           \/ \E r \in Requests, s \in Cookies : GetCurrentUser(r, s) \/ Login(r, s)
           \/ \E r \in Requests, u \in Users, t \in Tokens :
                 CreateUser(r, u, t) \/ ResetPassword(r, u, t)
           \/ \E r \in Requests, t \in Tokens : Connect(r, t)
           \/ \E r \in Requests : Logout(r) \/ Drop(r)
           \/ \E r \in Requests, u \in Users, pw \in Passwords : VerifyPassword(r, u, pw)
           \/ UNCHANGED vars
    <2>1. UNCHANGED history
        BY <1>2 DEF Expire, BumpParameters, ScriptLocks, ScriptChecks, ScriptEnds, CreateAdmin,
            GetCurrentUser, Login, CreateUser, ResetPassword, Connect, Logout, Drop,
            VerifyPassword, vars
    <2> QED BY <2>1 DEF history
<1> QED BY <1>1, <1>2 DEF Next

\* The invocations of create_admin take and give back the lock.
LEMMA ScriptEffect ==
    ASSUME [Next]_vars
    PROVE  \/ UNCHANGED scripts
           \/ \E c \in Scripts : ScriptLocks(c) \/ ScriptChecks(c) \/ ScriptEnds(c)
           \/ \E c \in Scripts, u \in Users, t \in Tokens : CreateAdmin(c, u, t)
BY DEF Next, Expire, BumpParameters, GetCurrentUser, Login, CreateUser, ResetPassword, Connect,
    Setup, Logout, DeleteMe, DeleteRefused, Drop, SetPassword, VerifyPassword, vars

\* Entries of the audit log stay; a deletion is asked for by DELETE /me only.
LEMMA AuditEffect ==
    ASSUME TypeOK, Owned, [Next]_vars
    PROVE  /\ \/ audit' = audit
              \/ \E r \in Requests, u \in Users, t \in Tokens : ResetPassword(r, u, t)
           /\ asked' = asked \/ \E r \in Requests : DeleteMe(r) \/ DeleteRefused(r)
<1>1. CASE \E r \in Requests : DeleteMe(r) \/ DeleteRefused(r)
    BY <1>1 DEF DeleteMe, DeleteRefused
<1>2. CASE \E r \in Requests, t \in Tokens : Setup(r, t)
    BY <1>2 DEF Setup
<1>3. CASE \E r \in Requests, pw \in Passwords : SetPassword(r, pw)
    BY <1>3 DEF SetPassword
<1>4. CASE \E r \in Requests, u \in Users, t \in Tokens : ResetPassword(r, u, t)
    BY <1>4 DEF ResetPassword, history
<1>5. CASE \/ \E x \in Tokens \cup Cookies : Expire(x)
           \/ BumpParameters
           \/ \E c \in Scripts : ScriptLocks(c) \/ ScriptChecks(c) \/ ScriptEnds(c)
           \/ \E c \in Scripts, u \in Users, t \in Tokens : CreateAdmin(c, u, t)
           \/ \E r \in Requests, s \in Cookies : GetCurrentUser(r, s) \/ Login(r, s)
           \/ \E r \in Requests, u \in Users, t \in Tokens : CreateUser(r, u, t)
           \/ \E r \in Requests, t \in Tokens : Connect(r, t)
           \/ \E r \in Requests : Logout(r) \/ Drop(r)
           \/ \E r \in Requests, u \in Users, pw \in Passwords : VerifyPassword(r, u, pw)
           \/ UNCHANGED vars
    <2>1. UNCHANGED <<audit, history>>
        BY <1>5 DEF Expire, BumpParameters, ScriptLocks, ScriptChecks, ScriptEnds, CreateAdmin,
            GetCurrentUser, Login, CreateUser, Connect, Logout, Drop, VerifyPassword, vars
    <2> QED BY <2>1 DEF history
<1> QED BY <1>1, <1>2, <1>3, <1>4, <1>5 DEF Next

--------------------------------------------------------------------------------
(* Each part of the invariant is preserved.                                *)

\* The tables of links and sessions keep their types, and every row its owner.
LEMMA TablesTyped ==
    ASSUME TypeOK, Owned, [Next]_vars
    PROVE  /\ tokens' \subseteq Tokens /\ tokenRow' \in [Tokens -> TokenRow \cup {None}]
           /\ sessions' \subseteq Cookies /\ cookieUser' \in [Cookies -> Users \cup {None}]
           /\ \A t \in tokens' : tokenRow'[t] \in TokenRow
           /\ \A s \in sessions' : cookieUser'[s] \in Users
<1>1. /\ tokens \subseteq Tokens /\ tokenRow \in [Tokens -> TokenRow \cup {None}]
      /\ \A t \in tokens : tokenRow[t] \in TokenRow
      /\ sessions \subseteq Cookies /\ cookieUser \in [Cookies -> Users \cup {None}]
      /\ \A s \in sessions : cookieUser[s] \in Users
    BY DEF TypeOK, Owned
<1>2. /\ tokens' \subseteq Tokens /\ tokenRow' \in [Tokens -> TokenRow \cup {None}]
      /\ \A t \in tokens' : tokenRow'[t] \in TokenRow
    <2>1. CASE tokenRow' = tokenRow /\ tokens' \subseteq tokens
        BY <1>1, <2>1
    <2>2. ASSUME NEW u \in Users, NEW t \in Tokens, NEW p \in Purposes, IssueToken(u, t, p)
          PROVE  /\ tokens' \subseteq Tokens /\ tokenRow' \in [Tokens -> TokenRow \cup {None}]
                 /\ \A x \in tokens' : tokenRow'[x] \in TokenRow
        <3> DEFINE row == [user |-> u, purpose |-> p]
        <3>1. row \in TokenRow
            BY DEF TokenRow
        <3>2. tokens' = tokens \cup {t} /\ tokenRow' = [tokenRow EXCEPT ![t] = row]
            BY <2>2 DEF IssueToken
        <3> HIDE DEF row
        <3> QED BY <1>1, <3>1, <3>2
    <2> QED BY <2>1, <2>2, LinkEffect
<1>3. /\ sessions' \subseteq Cookies /\ cookieUser' \in [Cookies -> Users \cup {None}]
      /\ \A s \in sessions' : cookieUser'[s] \in Users
    <2>1. CASE cookieUser' = cookieUser /\ sessions' \subseteq sessions
        BY <1>1, <2>1
    <2>2. ASSUME NEW r \in Requests, NEW s \in Cookies, Login(r, s)
          PROVE  /\ sessions' \subseteq Cookies /\ cookieUser' \in [Cookies -> Users \cup {None}]
                 /\ \A x \in sessions' : cookieUser'[x] \in Users
        <3>1. request[r].user \in Users
            BY <2>2 DEF Login, Owned
        <3>2. /\ sessions' = sessions \cup {s}
              /\ cookieUser' = [cookieUser EXCEPT ![s] = request[r].user]
            BY <2>2 DEF Login
        <3> QED BY <1>1, <3>1, <3>2
    <2> QED BY <2>1, <2>2, SessionEffect
<1> QED BY <1>2, <1>3

\* What each step that changes the users table writes there; u is the user it acts
\* for.
LEMMA ChangesEffect ==
    ASSUME TypeOK, Owned, Changes
    PROVE  \E u \in Users :
             \/ /\ status[u] = "new" /\ status' = [status EXCEPT ![u] = "live"]
                /\ keys' \subseteq keys \cup {u}
                /\ UNCHANGED <<password, latest, raced>>
             \/ /\ status' = [status EXCEPT ![u] = "deleted"]
                /\ password' = [password EXCEPT ![u] = None]
                /\ keys' \subseteq keys
                /\ UNCHANGED <<latest, raced>>
             \/ \E r \in Requests, pw \in Passwords :
                   /\ SetPassword(r, pw) /\ u = request[r].user /\ Live(u)
                   /\ password' = [password EXCEPT ![u] = HashPassword(pw)]
                   /\ latest' = [latest EXCEPT ![u] = pw]
                   /\ raced' \subseteq raced \cup {u} /\ raced \subseteq raced' \cup {u}
                   /\ UNCHANGED <<status, keys>>
             \/ \E r \in Requests, pw \in Passwords :
                   /\ u = request[r].user /\ pw = request[r].password /\ Live(u)
                   /\ \/ /\ request[r].rehash
                         /\ password' = [password EXCEPT ![u] = HashPassword(pw)]
                      \/ password' = password
                   /\ UNCHANGED <<status, keys, latest, raced>>
<1>1. CASE \E c \in Scripts, u \in Users, t \in Tokens : CreateAdmin(c, u, t)
    BY <1>1 DEF CreateAdmin, history
<1>2. CASE \E r \in Requests, u \in Users, t \in Tokens : CreateUser(r, u, t)
    BY <1>2 DEF CreateUser, history
<1>3. ASSUME NEW r \in Requests, DeleteMe(r)
      PROVE  \E u \in Users :
                /\ status' = [status EXCEPT ![u] = "deleted"]
                /\ password' = [password EXCEPT ![u] = None]
                /\ keys' \subseteq keys
                /\ UNCHANGED <<latest, raced>>
    <2>1. request[r].user \in Users
        BY <1>3 DEF DeleteMe, Owned
    <2> QED BY <1>3, <2>1 DEF DeleteMe, DeleteAccount
<1>4. ASSUME NEW r \in Requests, NEW pw \in Passwords, SetPassword(r, pw)
      PROVE  \E u \in Users :
                /\ u = request[r].user /\ Live(u)
                /\ password' = [password EXCEPT ![u] = HashPassword(pw)]
                /\ latest' = [latest EXCEPT ![u] = pw]
                /\ raced' \subseteq raced \cup {u} /\ raced \subseteq raced' \cup {u}
                /\ UNCHANGED <<status, keys>>
    <2>1. request[r].user \in Users
        BY <1>4 DEF SetPassword, Owned
    <2>2. PICK u \in Users : u = request[r].user
        BY <2>1
    <2>3. raced' \in {raced \cup {u}, raced \ {u}}
        BY <1>4, <2>2 DEF SetPassword
    <2> QED BY <1>4, <2>2, <2>3 DEF SetPassword
<1>5. ASSUME NEW r \in Requests, NEW s \in Cookies, Login(r, s)
      PROVE  \E u \in Users, pw \in Passwords :
                /\ u = request[r].user /\ pw = request[r].password /\ Live(u)
                /\ \/ /\ request[r].rehash
                      /\ password' = [password EXCEPT ![u] = HashPassword(pw)]
                   \/ password' = password
                /\ UNCHANGED <<status, keys, latest, raced>>
    <2>1. request[r].user \in Users /\ request[r].password \in Passwords
        BY <1>5 DEF Login, Owned
    <2> QED BY <1>5, <2>1 DEF Login, history
<1> QED BY <1>1, <1>2, <1>3, <1>4, <1>5 DEF Changes

\* The users table and the passwords keep their types.
LEMMA IdentityTyped ==
    ASSUME TypeOK, Owned, [Next]_vars
    PROVE  /\ status' \in [Users -> {"new", "live", "deleted"}]
           /\ password' \in [Users -> Hash \cup {None}]
           /\ keys' \subseteq Users /\ raced' \subseteq Users
           /\ latest' \in [Users -> Passwords \cup {None}]
<1>1. /\ status \in [Users -> {"new", "live", "deleted"}]
      /\ password \in [Users -> Hash \cup {None}]
      /\ keys \subseteq Users /\ raced \subseteq Users
      /\ latest \in [Users -> Passwords \cup {None}]
      /\ \A pw \in Passwords : HashPassword(pw) \in Hash
    BY DEF TypeOK, Hash, HashPassword
<1>2. CASE UNCHANGED <<status, admins, password, keys, latest, raced>>
    BY <1>1, <1>2
<1>3. CASE Changes
    <2> HIDE DEF HashPassword
    <2> QED BY <1>1, <1>3, ChangesEffect
<1> QED BY <1>2, <1>3, IdentityEffect

\* The remaining variables keep their types.
LEMMA RestTyped ==
    ASSUME TypeOK, Owned, [Next]_vars
    PROVE  /\ admins' \subseteq Users
           /\ expired' \subseteq Tokens \cup Cookies
           /\ audit' \subseteq [reader : Users, subject : Users]
           /\ params' \in 0..MaxParams
           /\ script' \in [Scripts -> {"start", "locked", "checked", "done"}]
           /\ scriptLock' \in Scripts \cup {None}
           /\ uses' \in [Tokens -> Nat]
           /\ asked' \subseteq Users
<1>1. admins' \subseteq Users
    <2>1. admins \subseteq Users
        BY DEF TypeOK
    <2> QED BY <2>1, IdentityEffect DEF Changes, CreateAdmin, CreateUser, DeleteMe, SetPassword, Login
<1>2. expired' \subseteq Tokens \cup Cookies
    <2>1. expired \subseteq Tokens \cup Cookies
        BY DEF TypeOK
    <2> QED BY <2>1 DEF Next, vars, Expire, BumpParameters, ScriptLocks, ScriptChecks, ScriptEnds,
            CreateAdmin, Login, CreateUser, ResetPassword, Connect, Logout, DeleteMe,
            DeleteRefused, Drop, SetPassword, GetCurrentUser, Setup, VerifyPassword
<1>3. audit' \subseteq [reader : Users, subject : Users]
    <2>1. audit \subseteq [reader : Users, subject : Users]
        BY DEF TypeOK
    <2>2. ASSUME NEW r \in Requests, NEW u \in Users, NEW t \in Tokens, ResetPassword(r, u, t)
          PROVE  audit' \subseteq [reader : Users, subject : Users]
        <3>1. request[r].user \in Users
            BY <2>2 DEF ResetPassword, Owned
        <3>2. audit' = audit \cup {[reader |-> request[r].user, subject |-> u]}
            BY <2>2 DEF ResetPassword, OpenAuditedRead
        <3> QED BY <2>1, <3>1, <3>2
    <2> QED BY <2>1, <2>2, AuditEffect
<1>4. params' \in 0..MaxParams
    <2>1. params \in 0..MaxParams /\ MaxParams \in Nat
        BY AccountsAssumption DEF TypeOK
    <2>2. CASE BumpParameters
        BY <2>1, <2>2 DEF BumpParameters
    <2>3. CASE params' = params
        BY <2>1, <2>3
    <2> QED BY <2>2, <2>3 DEF Next, vars, Expire, ScriptLocks, ScriptChecks, ScriptEnds,
            CreateAdmin, Login, CreateUser, ResetPassword, Connect, Logout, DeleteMe,
            DeleteRefused, Drop, SetPassword, GetCurrentUser, Setup, VerifyPassword
<1>5. /\ script' \in [Scripts -> {"start", "locked", "checked", "done"}]
      /\ scriptLock' \in Scripts \cup {None}
    <2>1. /\ script \in [Scripts -> {"start", "locked", "checked", "done"}]
          /\ scriptLock \in Scripts \cup {None}
        BY DEF TypeOK
    <2> QED BY <2>1, ScriptEffect DEF scripts, ScriptLocks, ScriptChecks, ScriptEnds, CreateAdmin
<1>6. uses' \in [Tokens -> Nat]
    <2>1. uses \in [Tokens -> Nat]
        BY DEF TypeOK
    <2>2. ASSUME NEW r \in Requests, NEW t \in Tokens, Setup(r, t)
          PROVE  uses' \in [Tokens -> Nat]
        <3> DEFINE n == uses[t] + 1
        <3>1. n \in Nat /\ uses' = [uses EXCEPT ![t] = n]
            BY <2>1, <2>2 DEF Setup
        <3> HIDE DEF n
        <3> QED BY <2>1, <3>1
    <2> QED BY <2>1, <2>2, UseEffect
<1>7. asked' \subseteq Users
    <2>1. asked \subseteq Users
        BY DEF TypeOK
    <2>2. ASSUME NEW r \in Requests, DeleteMe(r) \/ DeleteRefused(r)
          PROVE  asked' \subseteq Users
        <3>1. request[r].user \in Users
            BY <2>2 DEF DeleteMe, DeleteRefused, Owned
        <3> QED BY <2>1, <2>2, <3>1 DEF DeleteMe, DeleteRefused
    <2> QED BY <2>1, <2>2, AuditEffect
<1> QED BY <1>1, <1>2, <1>3, <1>4, <1>5, <1>6, <1>7

\* All of the type invariant.
LEMMA NextTypeOK == TypeOK /\ Owned /\ [Next]_vars => TypeOK'
BY TablesTyped, IdentityTyped, RestTyped, RequestTyped DEF TypeOK, RequestType

\* Requests, links and sessions keep their users.
LEMMA NextOwned == TypeOK /\ Owned /\ [Next]_vars => Owned'
<1> SUFFICES ASSUME TypeOK, Owned, [Next]_vars PROVE Owned'
    OBVIOUS
<1>1. sessions \subseteq Cookies
    BY DEF TypeOK
<1>2. ASSUME NEW r \in Requests
      PROVE  /\ request'[r].pc # "idle" => request'[r].user \in Users
             /\ request'[r].pc = "verified" => request'[r].password \in Passwords
    <2>1. CASE request'[r] = request[r]
        BY <2>1 DEF Owned
    <2>2. CASE request'[r] = Idle
        BY <2>2, IdleFields
    <2>3. CASE \E s \in sessions : request'[r] = Authenticated(s)
        <3>1. PICK s \in sessions : request'[r] = Authenticated(s)
            BY <2>3
        <3>2. s \in Cookies /\ cookieUser[s] \in Users
            BY <1>1 DEF Owned
        <3> QED BY <3>1, <3>2, AuthenticatedFields
    <2>4. CASE \E t \in Tokens : Setup(r, t) /\ request'[r] = Consumed(t)
        <3>1. PICK t \in Tokens : Setup(r, t) /\ request'[r] = Consumed(t)
            BY <2>4
        <3>2. tokenRow[t] \in TokenRow
            BY <3>1 DEF Owned, Setup, ConsumeToken
        <3> QED BY <3>1, <3>2, ConsumedFields
    <2>5. CASE \E u \in Users, pw \in Passwords : request'[r] = Verified(u, pw)
        BY <2>5, VerifiedFields
    <2> QED BY <2>1, <2>2, <2>3, <2>4, <2>5, RequestEffect DEF Begins
<1> QED BY <1>2, TablesTyped DEF Owned

\* The lock keeps the invocations of create_admin apart, from the check to the
\* commit; nothing else makes an admin.
LEMMA NextOneScript == TypeOK /\ OneScript /\ [Next]_vars => OneScript'
<1> SUFFICES ASSUME TypeOK, OneScript, [Next]_vars PROVE OneScript'
    OBVIOUS
<1>1. /\ script \in [Scripts -> {"start", "locked", "checked", "done"}]
      /\ None \notin Scripts
    BY AccountsAssumption DEF TypeOK
<1>2. CASE \E c \in Scripts, u \in Users, t \in Tokens : CreateAdmin(c, u, t)
    <2>1. PICK c \in Scripts, u \in Users, t \in Tokens : CreateAdmin(c, u, t)
        BY <1>2
    <2>2. admins' = {u}
        BY <2>1 DEF CreateAdmin, OneScript
    <2>3. script' = [script EXCEPT ![c] = "done"] /\ scriptLock' = None /\ scriptLock = c
        BY <2>1 DEF CreateAdmin, OneScript
    <2>4. \A d \in Scripts : script'[d] \notin {"locked", "checked"}
        BY <1>1, <2>3 DEF OneScript
    <2> QED BY <1>1, <2>2, <2>3, <2>4 DEF OneScript
<1>3. CASE ~\E c \in Scripts, u \in Users, t \in Tokens : CreateAdmin(c, u, t)
    <2>1. admins' \subseteq admins
        BY <1>3, IdentityEffect DEF Changes, CreateUser, DeleteMe, SetPassword, Login
    <2>2. CASE UNCHANGED scripts
        BY <2>1, <2>2 DEF scripts, OneScript
    <2>3. ASSUME NEW c \in Scripts, ScriptLocks(c) \/ ScriptChecks(c) \/ ScriptEnds(c)
          PROVE  OneScript'
        BY <1>1, <2>1, <2>3 DEF ScriptLocks, ScriptChecks, ScriptEnds, OneScript
    <2> QED BY <1>3, <2>2, <2>3, ScriptEffect
<1> QED BY <1>2, <1>3

\* A link is issued once, used once, and its row is never rewritten.
LEMMA NextLinks == TypeOK /\ Owned /\ Links /\ [Next]_vars => Links'
<1> SUFFICES ASSUME TypeOK, Owned, Links, [Next]_vars PROVE Links'
    OBVIOUS
<1>1. /\ tokens \subseteq Tokens /\ tokenRow \in [Tokens -> TokenRow \cup {None}]
      /\ uses \in [Tokens -> Nat] /\ sessions \subseteq Cookies
      /\ None \notin TokenRow
    BY TokenRowAssumption DEF TypeOK
<1>2. \A t \in Tokens : tokenRow[t] \in TokenRow => tokenRow'[t] = tokenRow[t]
    BY <1>1, LinkEffect DEF IssueToken
<1>3. \A t \in Tokens : /\ uses'[t] <= 1
                        /\ t \in tokens' => uses'[t] = 0
                        /\ tokenRow'[t] = None => uses'[t] = 0
    <2>1. ASSUME NEW r \in Requests, NEW x \in Tokens, Setup(r, x), NEW t \in Tokens
          PROVE  /\ uses'[t] <= 1
                 /\ t \in tokens' => uses'[t] = 0
                 /\ tokenRow'[t] = None => uses'[t] = 0
        <3> DEFINE n == uses[x] + 1
        <3>1. /\ tokens' = tokens \ {x} /\ tokenRow' = tokenRow /\ x \in tokens
              /\ uses' = [uses EXCEPT ![x] = n]
            BY <2>1 DEF Setup, ConsumeToken
        <3>2. n = 1 /\ tokenRow[x] # None
            BY <1>1, <3>1 DEF Links, Owned
        <3> HIDE DEF n
        <3>3. CASE t = x
            BY <1>1, <3>1, <3>2, <3>3
        <3>4. CASE t # x
            BY <1>1, <3>1, <3>4 DEF Links
        <3> QED BY <3>3, <3>4
    <2>2. CASE uses' = uses
        <3>1. CASE tokenRow' = tokenRow /\ tokens' \subseteq tokens
            BY <2>2, <3>1 DEF Links
        <3>2. ASSUME NEW u \in Users, NEW x \in Tokens, NEW p \in Purposes, IssueToken(u, x, p),
                     NEW t \in Tokens
              PROVE  /\ uses'[t] <= 1
                     /\ t \in tokens' => uses'[t] = 0
                     /\ tokenRow'[t] = None => uses'[t] = 0
            BY <1>1, <2>2, <3>2 DEF IssueToken, Links
        <3> QED BY <3>1, <3>2, LinkEffect
    <2> QED BY <2>1, <2>2, UseEffect
<1>4. ASSUME NEW r \in Requests, request'[r].pc = "consumed"
      PROVE  /\ request'[r].token \in Tokens /\ tokenRow'[request'[r].token] \in TokenRow
             /\ tokenRow'[request'[r].token].user = request'[r].user
             /\ tokenRow'[request'[r].token].purpose # "oauth_state"
    <2>1. CASE request'[r] = request[r]
        BY <1>2, <1>4, <2>1 DEF Links
    <2>2. CASE request'[r] = Idle
        BY <1>4, <2>2, IdleFields
    <2>3. CASE \E s \in sessions : request'[r] = Authenticated(s)
        <3>1. PICK s \in sessions : request'[r] = Authenticated(s)
            BY <2>3
        <3>2. s \in Cookies /\ cookieUser[s] \in Users
            BY <1>1 DEF Owned
        <3> QED BY <1>4, <3>1, <3>2, AuthenticatedFields
    <2>4. CASE \E t \in Tokens : Setup(r, t) /\ request'[r] = Consumed(t)
        <3>1. PICK t \in Tokens : Setup(r, t) /\ request'[r] = Consumed(t)
            BY <2>4
        <3>2. tokenRow[t] \in TokenRow /\ tokenRow[t].purpose # "oauth_state"
            BY <3>1 DEF Owned, Setup, ConsumeToken
        <3>3. tokenRow'[t] = tokenRow[t]
            BY <1>2, <3>2
        <3>4. Consumed(t).token = t /\ Consumed(t).user = tokenRow[t].user
            BY <3>2, ConsumedFields
        <3>5. request'[r].token = t /\ request'[r].user = tokenRow[t].user
            BY <3>1, <3>4
        <3> QED BY <3>2, <3>3, <3>5
    <2>5. CASE \E u \in Users, pw \in Passwords : request'[r] = Verified(u, pw)
        BY <1>4, <2>5, VerifiedFields
    <2> QED BY <2>1, <2>2, <2>3, <2>4, <2>5, RequestEffect DEF Begins
<1> QED BY <1>3, <1>4 DEF Links

\* Where SetPassword overtakes a login that will write its password back, the user
\* is recorded.
LEMMA RacedRecorded ==
    ASSUME NEW r \in Requests, NEW pw \in Passwords, SetPassword(r, pw),
           NEW q \in Requests, request[q].rehash, request[q].user = request[r].user
    PROVE  request[r].user \in raced'
BY DEF SetPassword

\* Passwords belong to accounts, and a login about to rehash holds the latest one,
\* unless it was overtaken.
LEMMA NextRehashing ==
    TypeOK /\ Owned /\ Rehashing /\ PasswordIsLatest /\ [Next]_vars => Rehashing'
<1> SUFFICES ASSUME TypeOK, Owned, Rehashing, PasswordIsLatest, [Next]_vars
             PROVE  Rehashing'
    OBVIOUS
<1>1. /\ password \in [Users -> Hash \cup {None}] /\ sessions \subseteq Cookies
      /\ status \in [Users -> {"new", "live", "deleted"}]
      /\ latest \in [Users -> Passwords \cup {None}]
    BY DEF TypeOK
<1>2. ASSUME NEW u \in Users, password'[u] # None PROVE status'[u] = "live"
    <2>1. CASE UNCHANGED <<status, admins, password, keys, latest, raced>>
        BY <1>2, <2>1 DEF Rehashing, Live
    <2>2. CASE Changes
        <3> HIDE DEF HashPassword
        <3> QED BY <1>1, <1>2, <2>2, ChangesEffect DEF Rehashing, Live
    <2> QED BY <2>1, <2>2, IdentityEffect
<1>3. ASSUME NEW r \in Requests, request'[r].rehash
      PROVE  /\ request'[r].pc = "verified"
             /\ request'[r].user \notin raced' =>
                   request'[r].password = latest'[request'[r].user]
    <2>1. CASE request'[r] = request[r]
        <3>1. /\ request[r].pc = "verified" /\ request[r].user \in Users
              /\ request[r].user \notin raced => request[r].password = latest[request[r].user]
            BY <1>3, <2>1 DEF Rehashing, Owned
        <3> DEFINE v == request[r].user
        <3>2. ASSUME v \notin raced' PROVE v \notin raced /\ latest'[v] = latest[v]
            <4>1. CASE UNCHANGED <<latest, raced>>
                BY <3>2, <4>1
            <4>2. ASSUME NEW q \in Requests, NEW pw \in Passwords, SetPassword(q, pw),
                         NEW u \in Users, u = request[q].user,
                         latest' = [latest EXCEPT ![u] = pw], raced \subseteq raced' \cup {u}
                  PROVE  v \notin raced /\ latest'[v] = latest[v]
                <5>1. v # u
                    BY <1>3, <2>1, <3>2, <4>2, RacedRecorded
                <5> QED BY <1>1, <3>1, <3>2, <4>2, <5>1
            <4>3. CASE Changes
                <5> HIDE DEF HashPassword
                <5> QED BY <4>1, <4>2, <4>3, ChangesEffect
            <4> QED BY <4>1, <4>3, IdentityEffect
        <3> QED BY <2>1, <3>1, <3>2
    <2>2. CASE request'[r] = Idle
        BY <1>3, <2>2, IdleFields
    <2>3. CASE \E s \in sessions : request'[r] = Authenticated(s)
        <3>1. PICK s \in sessions : request'[r] = Authenticated(s)
            BY <2>3
        <3>2. s \in Cookies /\ cookieUser[s] \in Users
            BY <1>1 DEF Owned
        <3> QED BY <1>3, <3>1, <3>2, AuthenticatedFields
    <2>4. CASE \E t \in Tokens : Setup(r, t) /\ request'[r] = Consumed(t)
        <3>1. PICK t \in Tokens : Setup(r, t) /\ request'[r] = Consumed(t)
            BY <2>4
        <3>2. tokenRow[t] \in TokenRow
            BY <3>1 DEF Owned, Setup, ConsumeToken
        <3> QED BY <1>3, <3>1, <3>2, ConsumedFields
    <2>5. ASSUME NEW u \in Users, NEW pw \in Passwords, VerifyPassword(r, u, pw),
                 request'[r] = Verified(u, pw)
          PROVE  /\ request'[r].pc = "verified"
                 /\ request'[r].user \notin raced' =>
                       request'[r].password = latest'[request'[r].user]
        <3>1. u \notin raced => pw = latest[u]
            BY <2>5 DEF VerifyPassword, PasswordIsLatest
        <3>2. UNCHANGED <<raced, latest>>
            BY <2>5 DEF VerifyPassword, history
        <3> QED BY <2>5, <3>1, <3>2, VerifiedFields
    <2> QED BY <2>1, <2>2, <2>3, <2>4, <2>5, RequestEffect DEF Begins
<1> QED BY <1>2, <1>3 DEF Rehashing, Live

\* Only /setup changes the password in force; a rehash writes the same one.
LEMMA NextPasswordIsLatest ==
    TypeOK /\ Owned /\ Rehashing /\ PasswordIsLatest /\ [Next]_vars => PasswordIsLatest'
<1> SUFFICES ASSUME TypeOK, Owned, Rehashing, PasswordIsLatest, [Next]_vars,
                    NEW v \in Users, status'[v] = "live", v \notin raced', password'[v] # None
             PROVE  password'[v].password = latest'[v]
    BY DEF PasswordIsLatest, Live
<1>1. /\ password \in [Users -> Hash \cup {None}]
      /\ status \in [Users -> {"new", "live", "deleted"}]
      /\ latest \in [Users -> Passwords \cup {None}]
      /\ \A pw : HashPassword(pw).password = pw
    BY DEF TypeOK, HashPassword
<1>2. status[v] = "live" /\ v \notin raced /\ password[v] # None
        => password[v].password = latest[v]
    BY DEF PasswordIsLatest, Live
<1>3. CASE UNCHANGED <<status, admins, password, keys, latest, raced>>
    BY <1>2, <1>3
<1>4. CASE Changes
    <2> HIDE DEF HashPassword
    <2>1. ASSUME NEW u \in Users, status[u] = "new", status' = [status EXCEPT ![u] = "live"],
                 UNCHANGED <<password, latest, raced>>
          PROVE  password'[v].password = latest'[v]
        BY <1>1, <1>2, <2>1 DEF Rehashing, Live
    <2>2. ASSUME NEW u \in Users, status' = [status EXCEPT ![u] = "deleted"],
                 password' = [password EXCEPT ![u] = None], UNCHANGED <<latest, raced>>
          PROVE  password'[v].password = latest'[v]
        BY <1>1, <1>2, <2>2
    <2>3. ASSUME NEW u \in Users, NEW pw \in Passwords,
                 password' = [password EXCEPT ![u] = HashPassword(pw)],
                 latest' = [latest EXCEPT ![u] = pw],
                 raced \subseteq raced' \cup {u}, UNCHANGED status
          PROVE  password'[v].password = latest'[v]
        BY <1>1, <1>2, <2>3
    <2>4. ASSUME NEW u \in Users, NEW r \in Requests, NEW pw \in Passwords,
                 u = request[r].user, pw = request[r].password, request[r].rehash,
                 password' = [password EXCEPT ![u] = HashPassword(pw)],
                 UNCHANGED <<status, latest, raced>>
          PROVE  password'[v].password = latest'[v]
        <3>1. u \notin raced => pw = latest[u]
            BY <2>4 DEF Rehashing
        <3> QED BY <1>1, <1>2, <2>4, <3>1
    <2>5. ASSUME UNCHANGED <<status, password, latest, raced>>
          PROVE  password'[v].password = latest'[v]
        BY <1>2, <2>5
    <2> QED BY <1>4, <2>1, <2>2, <2>3, <2>4, <2>5, ChangesEffect
<1> QED BY <1>3, <1>4, IdentityEffect

\* After the DELETEs of delete_account only the audit log can still refer to the user.
LEMMA OnlyAuditRefuses ==
    ASSUME NEW u \in Users, Referenced(u, DeleteAccount(u)) PROVE Audited(u)
BY DEF Referenced, DeleteAccount

\* A deletion is final, and so is an entry of the audit log.
LEMMA NextDeletionGoesThrough ==
    TypeOK /\ Owned /\ DeletionGoesThrough /\ [Next]_vars => DeletionGoesThrough'
<1> SUFFICES ASSUME TypeOK, Owned, DeletionGoesThrough, [Next]_vars, NEW v \in asked'
             PROVE  status'[v] = "deleted" \/ Audited(v)'
    BY DEF DeletionGoesThrough
<1>1. status \in [Users -> {"new", "live", "deleted"}] /\ asked \subseteq Users
    BY DEF TypeOK
<1>2. \A u \in Users : status[u] = "deleted" => status'[u] = "deleted"
    <2>1. CASE Changes
        <3> HIDE DEF HashPassword
        <3> QED BY <1>1, <2>1, ChangesEffect DEF Live
    <2> QED BY <2>1, IdentityEffect
<1>3. audit \subseteq audit'
    BY AuditEffect DEF ResetPassword, OpenAuditedRead
<1>4. CASE v \in asked
    <2>1. status[v] = "deleted" \/ Audited(v)
        BY <1>4 DEF DeletionGoesThrough
    <2> QED BY <1>1, <1>2, <1>3, <1>4, <2>1 DEF Audited
<1>5. CASE v \notin asked
    <2>1. PICK r \in Requests : DeleteMe(r) \/ DeleteRefused(r)
        BY <1>5, AuditEffect
    <2>2. v = request[r].user /\ request[r].user \in Users
        BY <1>5, <2>1 DEF DeleteMe, DeleteRefused, Owned
    <2>3. CASE DeleteMe(r)
        BY <1>1, <2>2, <2>3 DEF DeleteMe
    <2>4. CASE DeleteRefused(r)
        <3>1. Audited(v)
            BY <2>2, <2>4, OnlyAuditRefuses DEF DeleteRefused
        <3> QED BY <1>3, <3>1 DEF Audited
    <2> QED BY <2>1, <2>3, <2>4
<1> QED BY <1>4, <1>5

\* Nothing in the tables is about u.
Gone(u) ==
    /\ u \notin admins \cup keys
    /\ password[u] = None
    /\ \A t \in tokens : tokenRow[t].user # u
    /\ \A s \in sessions : cookieUser[s] # u
    /\ ~Audited(u)

\* A new link names its user; the others keep their rows.
LEMMA LinkIssued ==
    ASSUME TypeOK, NEW u \in Users, NEW v \in Users, u # v, NEW x \in Tokens, NEW p \in Purposes,
           IssueToken(u, x, p), \A t \in tokens : tokenRow[t].user # v
    PROVE  \A t \in tokens' : tokenRow'[t].user # v
<1>1. tokenRow \in [Tokens -> TokenRow \cup {None}] /\ tokens \subseteq Tokens
    BY DEF TypeOK
<1> DEFINE row == [user |-> u, purpose |-> p]
<1>2. row.user = u
    OBVIOUS
<1>3. tokens' = tokens \cup {x} /\ tokenRow' = [tokenRow EXCEPT ![x] = row]
    BY DEF IssueToken
<1> HIDE DEF row
<1> QED BY <1>1, <1>2, <1>3

\* Steps that write no row about anybody: what they change, they take away.
LEMMA WritesNothing ==
    ASSUME \/ \E x \in Tokens \cup Cookies : Expire(x)
           \/ BumpParameters
           \/ \E c \in Scripts : ScriptLocks(c) \/ ScriptChecks(c) \/ ScriptEnds(c)
           \/ \E r \in Requests, s \in Cookies : GetCurrentUser(r, s)
           \/ \E r \in Requests, t \in Tokens : Setup(r, t)
           \/ \E r \in Requests : Logout(r) \/ DeleteRefused(r) \/ Drop(r)
           \/ \E r \in Requests, u \in Users, pw \in Passwords : VerifyPassword(r, u, pw)
           \/ UNCHANGED vars
    PROVE  /\ UNCHANGED <<status, admins, password, keys, tokenRow, cookieUser, audit>>
           /\ tokens' \subseteq tokens /\ sessions' \subseteq sessions
<1>1. CASE \E r \in Requests, t \in Tokens : Setup(r, t)
    BY <1>1 DEF Setup, ConsumeToken, identity, sessionTables
<1>2. CASE \E r \in Requests : Logout(r)
    BY <1>2 DEF Logout, identity, tokenTables
<1>3. CASE \/ \E x \in Tokens \cup Cookies : Expire(x)
           \/ BumpParameters
           \/ \E c \in Scripts : ScriptLocks(c) \/ ScriptChecks(c) \/ ScriptEnds(c)
           \/ \E r \in Requests, s \in Cookies : GetCurrentUser(r, s)
           \/ \E r \in Requests : DeleteRefused(r) \/ Drop(r)
           \/ \E r \in Requests, u \in Users, pw \in Passwords : VerifyPassword(r, u, pw)
           \/ UNCHANGED vars
    <2>1. UNCHANGED <<identity, tokenTables, sessionTables, audit>>
        BY <1>3 DEF Expire, BumpParameters, ScriptLocks, ScriptChecks, ScriptEnds,
            GetCurrentUser, DeleteRefused, Drop, VerifyPassword, vars
    <2> QED BY <2>1 DEF identity, tokenTables, sessionTables
<1> QED BY <1>1, <1>2, <1>3

\* A row is written for a user there is when it is written, which the foreign keys
\* see to; and a user goes when nothing refers to it any more.
LEMMA NextErasureComplete ==
    TypeOK /\ Owned /\ ErasureComplete /\ [Next]_vars => ErasureComplete'
<1> SUFFICES ASSUME TypeOK, Owned, ErasureComplete, [Next]_vars,
                    NEW v \in Users, status'[v] # "live"
             PROVE  Gone(v)'
    BY DEF ErasureComplete, Gone, Live, Audited
<1>1. /\ status \in [Users -> {"new", "live", "deleted"}] /\ password \in [Users -> Hash \cup {None}]
      /\ cookieUser \in [Cookies -> Users \cup {None}] /\ sessions \subseteq Cookies
    BY DEF TypeOK
<1>2. ASSUME status[v] # "live" PROVE Gone(v)
    BY <1>2 DEF ErasureComplete, Gone, Live
<1>3. ASSUME NEW c \in Scripts, NEW u \in Users, NEW t \in Tokens, CreateAdmin(c, u, t)
      PROVE  Gone(v)'
    <2>1. u # v /\ status[v] # "live"
        BY <1>1, <1>3 DEF CreateAdmin
    <2>2. \A x \in tokens' : tokenRow'[x].user # v
        BY <1>2, <1>3, <2>1, LinkIssued DEF CreateAdmin, Gone, Purposes
    <2> QED BY <1>2, <1>3, <2>1, <2>2 DEF CreateAdmin, Gone, Audited, sessionTables
<1>4. ASSUME NEW r \in Requests, NEW u \in Users, NEW t \in Tokens, CreateUser(r, u, t)
      PROVE  Gone(v)'
    <2>1. u # v /\ status[v] # "live"
        BY <1>1, <1>4 DEF CreateUser
    <2>2. \A x \in tokens' : tokenRow'[x].user # v
        BY <1>2, <1>4, <2>1, LinkIssued DEF CreateUser, Gone, Purposes
    <2> QED BY <1>2, <1>4, <2>1, <2>2 DEF CreateUser, Gone, Audited, sessionTables
<1>5. ASSUME NEW r \in Requests, NEW u \in Users, NEW t \in Tokens, ResetPassword(r, u, t)
      PROVE  Gone(v)'
    <2> DEFINE w == request[r].user
               row == [reader |-> w, subject |-> u]
    <2>1. status' = status /\ u # v /\ w # v /\ Gone(v)
        BY <1>2, <1>5 DEF ResetPassword, OpenAuditedRead, identity, Live
    <2>2. \A x \in tokens' : tokenRow'[x].user # v
        BY <1>5, <2>1, LinkIssued DEF ResetPassword, Gone, Purposes
    <2>3. audit' = audit \cup {row}
        BY <1>5 DEF ResetPassword, OpenAuditedRead
    <2>4. row.reader = w /\ row.subject = u
        OBVIOUS
    <2> HIDE DEF row, w
    <2>5. ~Audited(v)'
        BY <2>1, <2>3, <2>4 DEF Audited, Gone
    <2> QED BY <1>5, <2>1, <2>2, <2>5 DEF ResetPassword, Gone, identity, sessionTables
<1>6. ASSUME NEW r \in Requests, NEW t \in Tokens, Connect(r, t)
      PROVE  Gone(v)'
    <2>1. request[r].user \in Users
        BY <1>6 DEF Connect, Owned
    <2>2. status' = status /\ request[r].user # v /\ Gone(v)
        BY <1>2, <1>6 DEF Connect, identity, Live
    <2>3. \A x \in tokens' : tokenRow'[x].user # v
        BY <1>6, <2>1, <2>2, LinkIssued DEF Connect, Gone, Purposes
    <2> QED BY <1>6, <2>2, <2>3 DEF Connect, Gone, Audited, identity, sessionTables
<1>7. ASSUME NEW r \in Requests, NEW s \in Cookies, Login(r, s)
      PROVE  Gone(v)'
    <2> DEFINE u == request[r].user
               h == HashPassword(request[r].password)
    <2>1. /\ status' = status /\ u # v /\ Gone(v)
          /\ password' \in {password, [password EXCEPT ![u] = h]}
          /\ sessions' = sessions \cup {s} /\ cookieUser' = [cookieUser EXCEPT ![s] = u]
          /\ UNCHANGED <<admins, keys, tokenTables, audit>>
        BY <1>2, <1>7 DEF Login, Live
    <2> HIDE DEF u, h
    <2>2. \A x \in sessions' : cookieUser'[x] # v
        BY <1>1, <2>1 DEF Gone
    <2>3. password'[v] = None
        BY <1>1, <2>1 DEF Gone
    <2> QED BY <2>1, <2>2, <2>3 DEF Gone, Audited, tokenTables
<1>8. ASSUME NEW r \in Requests, NEW pw \in Passwords, SetPassword(r, pw)
      PROVE  Gone(v)'
    <2> DEFINE u == request[r].user
               h == HashPassword(pw)
    <2>1. /\ status' = status /\ u # v /\ Gone(v)
          /\ password' = [password EXCEPT ![u] = h]
          /\ UNCHANGED <<admins, keys, tokenTables, sessionTables, audit>>
        BY <1>2, <1>8 DEF SetPassword, Live
    <2> HIDE DEF u, h
    <2>2. password'[v] = None
        BY <1>1, <2>1 DEF Gone
    <2> QED BY <2>1, <2>2 DEF Gone, Audited, tokenTables, sessionTables
<1>9. ASSUME NEW r \in Requests, DeleteMe(r)
      PROVE  Gone(v)'
    <2> DEFINE u == request[r].user
    <2>1. /\ admins' = admins \ {u} /\ password' = [password EXCEPT ![u] = None]
          /\ keys' = DeleteAccount(u).keys /\ tokens' = DeleteAccount(u).tokens
          /\ sessions' = DeleteAccount(u).sessions /\ status' = [status EXCEPT ![u] = "deleted"]
          /\ UNCHANGED <<tokenRow, cookieUser, audit>>
        BY <1>9 DEF DeleteMe
    <2>2. CASE v = u
        <3>1. ~Referenced(u, DeleteAccount(u))
            BY <1>9 DEF DeleteMe
        <3> QED BY <1>1, <2>1, <2>2, <3>1 DEF Referenced, Gone, Audited
    <2>3. CASE v # u
        <3>1. Gone(v)
            BY <1>1, <1>2, <2>1, <2>3
        <3>2. keys' \subseteq keys /\ tokens' \subseteq tokens /\ sessions' \subseteq sessions
            BY <2>1 DEF DeleteAccount
        <3> HIDE DEF u
        <3> QED BY <1>1, <2>1, <2>3, <3>1, <3>2 DEF Gone, Audited
    <2> QED BY <2>2, <2>3
<1>10. CASE /\ UNCHANGED <<status, admins, password, keys, tokenRow, cookieUser, audit>>
            /\ tokens' \subseteq tokens /\ sessions' \subseteq sessions
    BY <1>2, <1>10 DEF Gone, Audited
<1> QED BY <1>3, <1>4, <1>5, <1>6, <1>7, <1>8, <1>9, <1>10, WritesNothing DEF Next

--------------------------------------------------------------------------------
(* The theorems.                                                           *)

\* Before the first account the invariant holds.
LEMMA InitIInv == Init => IInv
<1> SUFFICES ASSUME Init PROVE IInv
    OBVIOUS
<1>1. TypeOK
    BY IdleFields, AccountsAssumption DEF Init, TypeOK, RequestType
<1>2. \A r \in Requests : request[r].pc = "idle" /\ request[r].rehash = FALSE
    BY IdleFields DEF Init
<1>3. Owned /\ OneScript /\ Links
    BY <1>2, AccountsAssumption DEF Init, Owned, OneScript, Links
<1>4. Rehashing /\ PasswordIsLatest /\ DeletionGoesThrough
    BY <1>2 DEF Init, Rehashing, PasswordIsLatest, DeletionGoesThrough
<1>5. ErasureComplete
    BY DEF Init, ErasureComplete, Audited
<1> QED BY <1>1, <1>3, <1>4, <1>5 DEF IInv

\* The invariant of the tables, the requests and the scripts holds throughout.
THEOREM SpecIInv == Spec => []IInv
<1>1. IInv /\ [Next]_vars => IInv'
    BY NextTypeOK, NextOwned, NextOneScript, NextLinks, NextRehashing, NextPasswordIsLatest,
       NextDeletionGoesThrough, NextErasureComplete DEF IInv
<1> QED BY <1>1, InitIInv, PTL DEF Spec

\* Tables and requests keep their types: in particular every token, audit entry and
\* password is written for a user there is.
THEOREM SpecTypeOK == Spec => []TypeOK
<1>1. IInv => TypeOK
    BY DEF IInv
<1> QED BY <1>1, SpecIInv, PTL

\* T-02-32, WR-06: any number of invocations of create_admin, concurrent with any
\* number of requests, leave at most one admin.
THEOREM SpecAtMostOneAdmin == Spec => []AtMostOneAdmin
<1>1. ASSUME IInv PROVE AtMostOneAdmin
    <2>1. CASE admins = {}
        BY <2>1, FS_EmptySet DEF AtMostOneAdmin
    <2>2. CASE admins # {}
        <3>1. PICK a \in admins : admins = {a}
            BY <1>1, <2>2 DEF IInv, OneScript
        <3>2. Cardinality({a}) = 1
            BY FS_Singleton
        <3> QED BY <3>1, <3>2 DEF AtMostOneAdmin
    <2> QED BY <2>1, <2>2
<1> QED BY <1>1, SpecIInv, PTL

\* AUTH-02, NN-35: however many requests present a link, one consumes it.
THEOREM SpecTokenWorksOnce == Spec => []TokenWorksOnce
<1>1. IInv => TokenWorksOnce
    BY DEF IInv, Links, TokenWorksOnce
<1> QED BY <1>1, SpecIInv, PTL

\* D2-01, D4-07: a request that may write a password consumed a link issued for that
\* user, and never an OAuth state.
THEOREM SpecSetupNeedsItsToken == Spec => []SetupNeedsItsToken
<1>1. IInv => SetupNeedsItsToken
    BY DEF IInv, Links, SetupNeedsItsToken
<1> QED BY <1>1, SpecIInv, PTL

\* AUTH-05: a login's rehash never brings back a password that a /setup replaced,
\* unless the /setup committed between that login's lookup and its update.
THEOREM SpecPasswordIsLatest == Spec => []PasswordIsLatest
<1>1. IInv => PasswordIsLatest
    BY DEF IInv
<1> QED BY <1>1, SpecIInv, PTL

\* AUTH-06: whatever keys, links and sessions a user has, only the audit log can make
\* DELETE /me fail.
THEOREM SpecDeletionGoesThrough == Spec => []DeletionGoesThrough
<1>1. IInv => DeletionGoesThrough
    BY DEF IInv
<1> QED BY <1>1, SpecIInv, PTL

\* AUTH-06: once DELETE /me has committed, no table holds a row about the user, and no
\* login, reset or connect that was under way then adds one.
THEOREM SpecErasureComplete == Spec => []ErasureComplete
<1>1. IInv => ErasureComplete
    BY DEF IInv
<1> QED BY <1>1, SpecIInv, PTL
================================================================================
