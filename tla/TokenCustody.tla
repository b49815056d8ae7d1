------------------------------ MODULE TokenCustody ------------------------------
(***************************************************************************)
(* Custody of one user's Schwab refresh token: the OAuth handshake that    *)
(* stores a grant (api/routes_connections.py::connect and ::callback over  *)
(* identity/setup_tokens.py), the refresh of the stored token inside       *)
(* vendor/connections.py::schwab_client_for_user, and the health derived   *)
(* from token_created_at.  The rows and locks of two users are disjoint,   *)
(* so one user is modelled.                                                *)
(*                                                                         *)
(* The vendor (external) rotates: a refresh answers the current token of a *)
(* grant with the next one and any older token with invalid_grant, and a   *)
(* grant dies Lifetime after its creation however often it is refreshed.   *)
(***************************************************************************)
EXTENDS Integers

CONSTANTS
    States,      \* OAuth state nonces
    Grants,      \* grants the vendor can still hand out
    Workers,     \* processes that open a client for the user
    Requests,    \* deliveries of /schwab/callback, repeated ones included
    None,
    Lifetime,    \* _REFRESH_TOKEN_LIFETIME
    SoonBefore,  \* _EXPIRING_SOON_THRESHOLD
    StateTTL,    \* _OAUTH_STATE_TTL
    MaxClock, MaxVersion   \* bounds of the model

ASSUME CustodyAssumption ==
    /\ None \notin States \cup Grants \cup Workers \cup Nat
    /\ Lifetime \in Nat \ {0} /\ SoonBefore \in Nat /\ StateTTL \in Nat
    /\ MaxClock \in Nat /\ MaxVersion \in Nat \ {0}

VARIABLES
    clock,
    born,       \* vendor: creation time of each grant handed out
    live,       \* vendor: number of the current token of each grant, 0 for none
    states,     \* setup_tokens with purpose oauth_state: state -> expires_at
    row,        \* the schwab_connections row: token and token_created_at
    lock,       \* holder of the user's advisory lock
    run,        \* per worker: pc, the TokenHolder's token, its wrote flag
    request,    \* per callback delivery: pc, the state it carries, its grant
    lost,       \* auxiliary: grants with a rotated token nobody stored
    raced       \* auxiliary: a callback committed inside a client's body

vars == <<clock, born, live, states, row, lock, run, request, lost, raced>>

Token == [grant : Grants, version : 1..MaxVersion]
Row == [token : Token, createdAt : Nat]
ASSUME RowAssumption == None \notin Row
IdleRun == [pc |-> "idle", token |-> None, wrote |-> FALSE]
NewRequest == [pc |-> "new", state |-> None, grant |-> None]

TypeOK ==
    /\ clock \in Nat
    /\ born \in [Grants -> Nat \cup {None}]
    /\ live \in [Grants -> 0..MaxVersion]
    /\ states \in [States -> Nat \cup {None}]
    /\ row \in Row \cup {None}
    /\ lock \in Workers \cup {None}
    /\ run \in [Workers -> [pc : {"idle", "waiting", "locked", "body"},
                            token : Token \cup {None}, wrote : BOOLEAN]]
    /\ request \in [Requests -> [pc : {"new", "consumed", "exchanged", "done"},
                                 state : States \cup {None},
                                 grant : Grants \cup {None}]]
    /\ lost \subseteq Grants
    /\ raced \in BOOLEAN

Init ==
    /\ clock = 0
    /\ born = [g \in Grants |-> None]
    /\ live = [g \in Grants |-> 0]
    /\ states = [s \in States |-> None]
    /\ row = None
    /\ lock = None
    /\ run = [w \in Workers |-> IdleRun]
    /\ request = [c \in Requests |-> NewRequest]
    /\ lost = {}
    /\ raced = FALSE

Tick ==
    /\ clock < MaxClock
    /\ clock' = clock + 1
    /\ UNCHANGED <<born, live, states, row, lock, run, request, lost, raced>>

--------------------------------------------------------------------------------
(* The OAuth handshake.                                                    *)

\* POST /schwab/connect: issue_token and commit.  The nonce is drawn at random,
\* so no two are ever equal.
Connect(s) ==
    /\ states[s] = None
    /\ \A c \in Requests : request[c].state # s
    /\ states' = [states EXCEPT ![s] = clock + StateTTL]
    /\ UNCHANGED <<clock, born, live, row, lock, run, request, lost, raced>>

\* Mutant of Consume: the nonce is checked and left for a later clean-up.
ConsumeKeeps(c, s) ==
    /\ request[c].pc = "new"
    /\ states[s] # None
    /\ states[s] > clock
    /\ request' = [request EXCEPT ![c] = [pc |-> "consumed", state |-> s, grant |-> None]]
    /\ UNCHANGED <<clock, born, live, states, row, lock, run, lost, raced>>

\* consume_token: one DELETE ... RETURNING of an unexpired row, committed by itself.
Consume(c, s) ==
    /\ request[c].pc = "new"
    /\ states[s] # None
    /\ states[s] > clock
    /\ states' = [states EXCEPT ![s] = None]
    /\ request' = [request EXCEPT ![c] = [pc |-> "consumed", state |-> s, grant |-> None]]
    /\ UNCHANGED <<clock, born, live, row, lock, run, lost, raced>>

\* A delivery whose state is unknown, used or expired: 400.
RejectState(c, s) ==
    /\ request[c].pc = "new"
    /\ ~(states[s] # None /\ states[s] > clock)
    /\ request' = [request EXCEPT ![c].pc = "done"]
    /\ UNCHANGED <<clock, born, live, states, row, lock, run, lost, raced>>

\* exchange_callback: the vendor hands out a new grant.
Exchange(c) ==
    /\ request[c].pc = "consumed"
    /\ \E g \in Grants :
         /\ born[g] = None
         /\ born' = [born EXCEPT ![g] = clock]
         /\ live' = [live EXCEPT ![g] = 1]
         /\ request' = [request EXCEPT ![c].pc = "exchanged", ![c].grant = g]
    /\ UNCHANGED <<clock, states, row, lock, run, lost, raced>>

\* upsert_connection and commit.  It takes no advisory lock.
Store(c) ==
    LET g == request[c].grant IN
    /\ request[c].pc = "exchanged"
    /\ row' = [token |-> [grant |-> g, version |-> 1], createdAt |-> born[g]]
    /\ raced' = (raced \/ \E w \in Workers : run[w].pc = "body")
    /\ request' = [request EXCEPT ![c].pc = "done"]
    /\ UNCHANGED <<clock, born, live, states, lock, run, lost>>

\* The exchange fails, the grant covers other than one account (409), or the
\* process dies: the state is already gone.
CallbackFails(c) ==
    /\ request[c].pc \in {"consumed", "exchanged"}
    /\ request' = [request EXCEPT ![c].pc = "done"]
    /\ UNCHANGED <<clock, born, live, states, row, lock, run, lost, raced>>

--------------------------------------------------------------------------------
(* schwab_client_for_user.                                                 *)

Open(w) ==
    /\ run[w].pc = "idle"
    /\ run' = [run EXCEPT ![w].pc = "waiting"]
    /\ UNCHANGED <<clock, born, live, states, row, lock, request, lost, raced>>

AcquireLock(w) ==
    /\ run[w].pc = "waiting"
    /\ lock = None
    /\ lock' = w
    /\ run' = [run EXCEPT ![w].pc = "locked"]
    /\ UNCHANGED <<clock, born, live, states, row, request, lost, raced>>

\* Mutant of ReadToken: read first, then lock.
ReadTokenUnlocked(w) ==
    /\ run[w].pc \in {"waiting", "locked"}
    /\ row # None
    /\ run' = [run EXCEPT ![w] = [pc |-> "body", token |-> row.token, wrote |-> FALSE]]
    /\ UNCHANGED <<clock, born, live, states, row, lock, request, lost, raced>>

\* read_connection, after the lock is granted, into the TokenHolder.
ReadToken(w) ==
    /\ run[w].pc = "locked"
    /\ row # None
    /\ run' = [run EXCEPT ![w] = [pc |-> "body", token |-> row.token, wrote |-> FALSE]]
    /\ UNCHANGED <<clock, born, live, states, row, lock, request, lost, raced>>

Expired(g) == clock >= born[g] + Lifetime

\* A vendor call of the body finds the access token stale and refreshes: the
\* vendor rotates, schwab-py calls holder.write.
Refresh(w) ==
    LET t == run[w].token IN
    /\ run[w].pc = "body"
    /\ t.version = live[t.grant]
    /\ t.version < MaxVersion
    /\ ~Expired(t.grant)
    /\ live' = [live EXCEPT ![t.grant] = t.version + 1]
    /\ run' = [run EXCEPT ![w] = [pc |-> "body", wrote |-> TRUE,
                                  token |-> [t EXCEPT !.version = t.version + 1]]]
    /\ UNCHANGED <<clock, born, states, row, lock, request, lost, raced>>

\* The body raises, no row is found, or the process dies: nothing is persisted
\* and the transaction's end frees the lock.
Fail(w) ==
    /\ run[w].pc \in {"locked", "body"}
    /\ lost' = IF run[w].wrote THEN lost \cup {run[w].token.grant} ELSE lost
    /\ lock' = None
    /\ run' = [run EXCEPT ![w] = IdleRun]
    /\ UNCHANGED <<clock, born, live, states, row, request, raced>>

\* Mutants of Persisted: the wrote flag is ignored the wrong way round; a refresh
\* is taken for a new grant.
PersistedNever(r) == row
PersistedAsNew(r) ==
    IF r.wrote THEN [token |-> r.token, createdAt |-> clock] ELSE row

\* What the row is after the body: the rotated token, and token_created_at left
\* alone.
Persisted(r) == IF r.wrote THEN [row EXCEPT !.token = r.token] ELSE row

\* The body returns and the caller commits.
Finish(w) ==
    /\ run[w].pc = "body"
    /\ row' = Persisted(run[w])
    /\ lock' = None
    /\ run' = [run EXCEPT ![w] = IdleRun]
    /\ UNCHANGED <<clock, born, live, states, request, lost, raced>>

Next ==
    \/ Tick
    \/ \E s \in States : Connect(s)
    \/ \E c \in Requests, s \in States : Consume(c, s) \/ RejectState(c, s)
    \/ \E c \in Requests : Exchange(c) \/ Store(c) \/ CallbackFails(c)
    \/ \E w \in Workers : Open(w) \/ AcquireLock(w) \/ ReadToken(w)
    \/ \E w \in Workers : Refresh(w) \/ Fail(w) \/ Finish(w)

Spec == Init /\ [][Next]_vars

--------------------------------------------------------------------------------
(* Properties.                                                             *)

\* derive_connection_health.
Health(createdAt, now) ==
    LET remaining == createdAt + Lifetime - now IN
    IF remaining <= 0 THEN "expired"
    ELSE IF remaining <= SoonBefore THEN "expiring_soon" ELSE "healthy"

\* CONN-02, NN-35: a state is good for one exchange, however often and however
\* concurrently the redirect is delivered.
StateUsedOnce ==
    \A c, d \in Requests :
        c # d /\ request[c].state # None => request[c].state # request[d].state

\* CONN-06: a client is never built over a token the vendor has rotated away
\* from, unless an earlier body refreshed and then raised.
NeverPresentsStale ==
    \A w \in Workers :
        LET t == run[w].token IN
        run[w].pc = "body" /\ t.grant \notin lost => t.version = live[t.grant]

\* CONN-06: between two clients the stored token is the vendor's current one,
\* with the same exception.
StoredTokenLive ==
    row # None /\ lock = None /\ row.token.grant \notin lost =>
        row.token.version = live[row.token.grant]

\* CONN-04: while no callback lands inside a client's body, the health the user
\* reads says expired exactly when the vendor will refuse the stored token for
\* its age; refreshing does not push the date.
HealthHonest ==
    row # None /\ ~raced =>
        (Health(row.createdAt, clock) = "expired" <=> Expired(row.token.grant))

\* The two writes the row is meant for: the next token of its own grant, with
\* token_created_at kept, or the first token of another grant, dated as the vendor
\* dated it.
Rotated(old, new) ==
    /\ new.token.grant = old.token.grant /\ new.createdAt = old.createdAt
    /\ new.token.version > old.token.version
Replaced(old, new) ==
    /\ new.token.grant # old.token.grant /\ new.createdAt = born[new.token.grant]
    /\ new.token.version = 1 /\ live[new.token.grant] = 1

\* CONN-04, CONN-06: the stored row is never lost and never goes back to an earlier
\* token of its grant; only where a callback has landed inside a body may that body
\* put another grant's token under the stored date.
RowMovesForward ==
    [][row # None =>
         /\ row' # None
         /\ \/ Rotated(row, row') \/ Replaced(row, row')
            \/ /\ raced
               /\ row'.token.grant # row.token.grant /\ row'.createdAt = row.createdAt]_row

\* token_created_at is the creation time the vendor gave the stored token.
CreatedAtIsTokens == row # None => row.createdAt = born[row.token.grant]
================================================================================
