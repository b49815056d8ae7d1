-------------------------- MODULE TokenCustody_proofs ---------------------------
(***************************************************************************)
(* Proofs about the custody of a refresh token, for any number of workers, *)
(* callbacks, states, grants, rotations and any lifetimes: a state is used *)
(* once, a client never presents a token the vendor has rotated away, the  *)
(* stored token is the current one, and its health is honest.              *)
(***************************************************************************)
EXTENDS TokenCustody, TLAPS

RunType == [pc : {"idle", "waiting", "locked", "body"},
            token : Token \cup {None}, wrote : BOOLEAN]
RequestType == [pc : {"new", "consumed", "exchanged", "done"},
                state : States \cup {None}, grant : Grants \cup {None}]

\* A state that can still be consumed is in no delivery's hands.
StateFresh ==
    \A s \in States, c \in Requests : states[s] # None => request[c].state # s

\* A worker between the lock and the end of its transaction is the holder.
Locked == \A w \in Workers : run[w].pc \in {"locked", "body"} <=> lock = w

\* Inside the body, and nowhere else, a worker has a token; there is a row then.
Bodies ==
    \A w \in Workers :
        /\ run[w].pc = "body" => run[w].token \in Token /\ row # None /\ row \in Row
        /\ run[w].pc # "body" => ~run[w].wrote

\* A grant that somebody has, or has lost, was handed out.
HandedOut ==
    /\ row # None => row \in Row /\ born[row.token.grant] \in Nat
    /\ \A w \in Workers : run[w].pc = "body" => born[run[w].token.grant] \in Nat
    /\ \A g \in lost : born[g] \in Nat
    /\ \A c \in Requests : request[c].pc = "exchanged" => 
          request[c].grant \in Grants /\ born[request[c].grant] \in Nat

\* A grant on its way to the row is in one delivery's hands and nowhere else.
OnItsWay ==
    \A c \in Requests : request[c].pc = "exchanged" =>
        LET g == request[c].grant IN
        /\ live[g] = 1
        /\ row # None => row.token.grant # g
        /\ \A w \in Workers : run[w].pc = "body" => run[w].token.grant # g
        /\ g \notin lost
        /\ \A d \in Requests \ {c} : request[d].pc = "exchanged" => request[d].grant # g

\* StoredTokenLive with the lock taken: the row is behind only while the holder has
\* rotated the very grant it holds and not committed yet.
StoredLive ==
    row # None /\ row.token.grant \notin lost =>
        \/ row.token.version = live[row.token.grant]
        \/ \E w \in Workers : /\ run[w].pc = "body" /\ run[w].wrote
                              /\ run[w].token.grant = row.token.grant

\* Without a callback inside a body, the body is about the row's grant, and the row
\* is dated as that grant is.
Dated ==
    ~raced /\ row # None =>
        /\ row.createdAt = born[row.token.grant]
        /\ \A w \in Workers : run[w].pc = "body" => run[w].token.grant = row.token.grant

Nonces == StateFresh /\ StateUsedOnce
Custody ==
    /\ Locked /\ Bodies /\ HandedOut /\ OnItsWay
    /\ NeverPresentsStale /\ StoredLive /\ Dated
IInv == TypeOK /\ Nonces /\ Custody

--------------------------------------------------------------------------------
(* Types.                                                                  *)

\* What TypeOK says of a worker, a delivery and the row.
LEMMA Typed ==
    ASSUME TypeOK
    PROVE  /\ run \in [Workers -> RunType] /\ request \in [Requests -> RequestType]
           /\ IdleRun \in RunType /\ NewRequest \in RequestType
           /\ clock \in Nat /\ born \in [Grants -> Nat \cup {None}]
           /\ live \in [Grants -> 0..MaxVersion] /\ lost \subseteq Grants
           /\ raced \in BOOLEAN
BY DEF TypeOK, RunType, RequestType, IdleRun, NewRequest

\* The fields of a token and of a row.
LEMMA Fields ==
    /\ \A t \in Token : t.grant \in Grants /\ t.version \in 1..MaxVersion
    /\ \A r \in Row : r.token \in Token /\ r.token.grant \in Grants /\ r.createdAt \in Nat
    /\ \A g \in Grants, n \in 1..MaxVersion :
          /\ [grant |-> g, version |-> n] \in Token
          /\ [grant |-> g, version |-> n].grant = g
          /\ [grant |-> g, version |-> n].version = n
    /\ \A t \in Token, n \in Nat :
          /\ [token |-> t, createdAt |-> n] \in Row
          /\ [token |-> t, createdAt |-> n].token = t
          /\ [token |-> t, createdAt |-> n].createdAt = n
BY DEF Token, Row

--------------------------------------------------------------------------------
(* Steps that leave a part alone.                                          *)

\* No nonce appears and no delivery gets another.
LEMMA NoncesStay ==
    ASSUME Nonces, \A s \in States : states'[s] # None => states[s] # None,
           \A c \in Requests : request'[c].state = request[c].state
    PROVE  Nonces'
BY DEF Nonces, StateFresh, StateUsedOnce

\* The vendor, the row and the bodies stay; deliveries may end.
LEMMA CustodyStays ==
    ASSUME Custody, born' = born, live' = live, row' = row, lost' = lost, raced' = raced,
           \A w \in Workers : /\ run'[w].pc \in {"locked", "body"} <=> lock' = w
                              /\ run'[w].pc = "body" <=> run[w].pc = "body"
                              /\ run'[w].token = run[w].token
                              /\ run'[w].wrote = run[w].wrote,
           \A c \in Requests : request'[c].pc = "exchanged" =>
               request[c].pc = "exchanged" /\ request'[c].grant = request[c].grant
    PROVE  Custody'
<1>1. Locked' /\ Bodies' /\ HandedOut'
    BY DEF Custody, Locked, Bodies, HandedOut
<1>2. OnItsWay'
    BY DEF Custody, OnItsWay
<1>3. NeverPresentsStale'
    BY DEF Custody, NeverPresentsStale
<1>4. StoredLive'
    BY DEF Custody, StoredLive
<1>5. Dated'
    BY DEF Custody, Dated
<1> QED BY <1>1, <1>2, <1>3, <1>4, <1>5 DEF Custody

--------------------------------------------------------------------------------
(* The OAuth handshake.                                                    *)

\* Time, and a nonce that no delivery has.
LEMMA TickConnectStep ==
    ASSUME IInv, Tick \/ \E s \in States : Connect(s)
    PROVE  IInv'
<1>1. /\ born' = born /\ live' = live /\ row' = row /\ lost' = lost /\ raced' = raced
      /\ lock' = lock /\ run' = run /\ request' = request
    BY DEF Tick, Connect
<1>2. Custody'
    BY <1>1, CustodyStays DEF IInv, Custody, Locked
<1>3. CASE Tick
    <2>1. TypeOK'
        BY <1>1, <1>3 DEF IInv, TypeOK, Tick
    <2>2. Nonces'
        BY <1>1, <1>3, NoncesStay DEF IInv, Tick
    <2> QED BY <1>2, <2>1, <2>2 DEF IInv
<1>4. ASSUME NEW s \in States, Connect(s) PROVE IInv'
    <2>1. states' = [states EXCEPT ![s] = clock + StateTTL] /\ clock' = clock
        BY <1>4 DEF Connect
    <2>2. TypeOK'
        BY <1>1, <2>1, CustodyAssumption DEF IInv, TypeOK
    <2>3. \A c \in Requests : request[c].state # s
        BY <1>4 DEF Connect
    <2>4. StateFresh' /\ StateUsedOnce'
        BY <1>1, <2>1, <2>3 DEF IInv, TypeOK, Nonces, StateFresh, StateUsedOnce
    <2> QED BY <1>2, <2>2, <2>4 DEF IInv, Nonces
<1> QED BY <1>3, <1>4

\* consume_token: the nonce goes from the table to one delivery.
LEMMA ConsumeStep ==
    ASSUME IInv, NEW c \in Requests, NEW s \in States, Consume(c, s)
    PROVE  IInv'
<1> DEFINE new == [pc |-> "consumed", state |-> s, grant |-> None]
<1>1. /\ born' = born /\ live' = live /\ row' = row /\ lost' = lost /\ raced' = raced
      /\ lock' = lock /\ run' = run /\ clock' = clock
      /\ states' = [states EXCEPT ![s] = None] /\ states[s] # None
      /\ request' = [request EXCEPT ![c] = new]
    BY DEF Consume
<1>2. new \in RequestType /\ new.pc = "consumed" /\ new.state = s
    BY DEF RequestType
<1> HIDE DEF new
<1>3. /\ request'[c] = new /\ \A d \in Requests \ {c} : request'[d] = request[d]
      /\ request' \in [Requests -> RequestType]
    BY <1>1, <1>2, Typed DEF IInv
<1>4. TypeOK'
    BY <1>1, <1>3 DEF IInv, TypeOK, RunType, RequestType
<1>5. \A d \in Requests : request[d].state # s
    BY <1>1 DEF IInv, Nonces, StateFresh
<1>6. states'[s] = None /\ \A x \in States \ {s} : states'[x] = states[x]
    BY <1>1 DEF IInv, TypeOK
<1>7. StateFresh'
    BY <1>2, <1>3, <1>6 DEF IInv, Nonces, StateFresh
<1>8. StateUsedOnce'
    BY <1>2, <1>3, <1>5 DEF IInv, Nonces, StateUsedOnce
<1>9. Custody'
    BY <1>1, <1>2, <1>3, CustodyStays DEF IInv, Custody, Locked
<1> QED BY <1>4, <1>7, <1>8, <1>9 DEF IInv, Nonces

\* A delivery ends without touching anything.
LEMMA DeliveryEnds ==
    ASSUME IInv, NEW c \in Requests,
           CallbackFails(c) \/ \E s \in States : RejectState(c, s)
    PROVE  IInv'
<1>1. /\ born' = born /\ live' = live /\ row' = row /\ lost' = lost /\ raced' = raced
      /\ lock' = lock /\ run' = run /\ clock' = clock /\ states' = states
      /\ request' = [request EXCEPT ![c].pc = "done"]
    BY DEF CallbackFails, RejectState
<1>2. /\ request' \in [Requests -> RequestType]
      /\ request'[c].pc = "done" /\ request'[c].state = request[c].state
      /\ \A d \in Requests \ {c} : request'[d] = request[d]
    BY <1>1, Typed DEF IInv, RequestType
<1>3. TypeOK'
    BY <1>1, <1>2 DEF IInv, TypeOK, RunType, RequestType
<1>4. Nonces'
    BY <1>1, <1>2, NoncesStay DEF IInv
<1>5. Custody'
    BY <1>1, <1>2, CustodyStays DEF IInv, Custody, Locked
<1> QED BY <1>3, <1>4, <1>5 DEF IInv

\* exchange_callback: a grant nobody has heard of.
LEMMA ExchangeStep ==
    ASSUME IInv, NEW c \in Requests, Exchange(c)
    PROVE  IInv'
<1>1. PICK g \in Grants :
        /\ born[g] = None
        /\ born' = [born EXCEPT ![g] = clock]
        /\ live' = [live EXCEPT ![g] = 1]
        /\ request' = [request EXCEPT ![c].pc = "exchanged", ![c].grant = g]
    BY DEF Exchange
<1>2. /\ row' = row /\ lost' = lost /\ raced' = raced
      /\ lock' = lock /\ run' = run /\ clock' = clock /\ states' = states
    BY DEF Exchange
<1>3. /\ request' \in [Requests -> RequestType]
      /\ request'[c].pc = "exchanged" /\ request'[c].state = request[c].state
      /\ request'[c].grant = g
      /\ \A d \in Requests \ {c} : request'[d] = request[d]
    BY <1>1, Typed DEF IInv, RequestType
<1>4. /\ live' \in [Grants -> 0..MaxVersion] /\ live'[g] = 1
      /\ \A h \in Grants \ {g} : live'[h] = live[h]
    BY <1>1, Typed, CustodyAssumption DEF IInv
<1>5. /\ born' \in [Grants -> Nat \cup {None}] /\ born'[g] \in Nat
      /\ \A h \in Grants \ {g} : born'[h] = born[h]
      /\ \A h \in Grants : born[h] \in Nat => h # g /\ born'[h] = born[h]
    BY <1>1, Typed, CustodyAssumption DEF IInv
<1>6. TypeOK'
    BY <1>2, <1>3, <1>4, <1>5 DEF IInv, TypeOK, RunType, RequestType
<1>7. Nonces'
    BY <1>2, <1>3, NoncesStay DEF IInv
<1>8. /\ row # None => row \in Row /\ row.token.grant \in Grants \ {g}
                       /\ born[row.token.grant] \in Nat
      /\ \A w \in Workers : run[w].pc = "body" => /\ run[w].token.grant \in Grants \ {g}
                                                  /\ born[run[w].token.grant] \in Nat
      /\ g \notin lost
      /\ \A d \in Requests : request[d].pc = "exchanged" =>
            request[d].grant \in Grants \ {g} /\ born[request[d].grant] \in Nat
    BY <1>5, Fields DEF IInv, Custody, HandedOut, Bodies
<1>9. Locked' /\ Bodies'
    BY <1>2 DEF IInv, Custody, Locked, Bodies
<1>10. HandedOut'
    <2>1. \A h \in lost' : born'[h] \in Nat
        BY <1>2, <1>5, Typed DEF IInv, Custody, HandedOut
    <2> QED BY <1>2, <1>3, <1>5, <1>8, <2>1 DEF HandedOut
<1>11. OnItsWay'
    <2> SUFFICES ASSUME NEW d \in Requests, request'[d].pc = "exchanged"
                 PROVE  LET h == request'[d].grant IN
                        /\ live'[h] = 1
                        /\ row' # None => row'.token.grant # h
                        /\ \A w \in Workers : run'[w].pc = "body" => run'[w].token.grant # h
                        /\ h \notin lost'
                        /\ \A e \in Requests \ {d} :
                              request'[e].pc = "exchanged" => request'[e].grant # h
        BY DEF OnItsWay
    <2>1. CASE d = c
        BY <1>2, <1>3, <1>4, <1>8, <2>1
    <2>2. CASE d # c
        BY <1>2, <1>3, <1>4, <1>8, <2>2 DEF IInv, Custody, OnItsWay
    <2> QED BY <2>1, <2>2
<1>12. NeverPresentsStale'
    BY <1>2, <1>4, <1>8 DEF IInv, Custody, NeverPresentsStale
<1>13. StoredLive'
    BY <1>2, <1>4, <1>8 DEF IInv, Custody, StoredLive
<1>14. Dated'
    BY <1>2, <1>5, <1>8 DEF IInv, Custody, Dated
<1> QED BY <1>6, <1>7, <1>9, <1>10, <1>11, <1>12, <1>13, <1>14 DEF IInv, Custody

\* upsert_connection: the grant's first token, which is still the vendor's.
LEMMA StoreStep ==
    ASSUME IInv, NEW c \in Requests, Store(c)
    PROVE  IInv'
<1> DEFINE g == request[c].grant
           t == [grant |-> g, version |-> 1]
           new == [token |-> t, createdAt |-> born[g]]
<1>1. /\ born' = born /\ live' = live /\ lost' = lost
      /\ lock' = lock /\ run' = run /\ clock' = clock /\ states' = states
      /\ row' = new /\ request[c].pc = "exchanged"
      /\ request' = [request EXCEPT ![c].pc = "done"]
      /\ raced' = (raced \/ \E w \in Workers : run[w].pc = "body")
    BY DEF Store
<1>2. /\ g \in Grants /\ born[g] \in Nat /\ live[g] = 1 /\ g \notin lost
      /\ \A w \in Workers : run[w].pc = "body" => run[w].token.grant # g
      /\ \A d \in Requests \ {c} : request[d].pc = "exchanged" => request[d].grant # g
    BY <1>1 DEF IInv, Custody, HandedOut, OnItsWay
<1>3. t \in Token /\ t.grant = g /\ t.version = 1
    BY <1>2, CustodyAssumption, Fields
<1> HIDE DEF t
<1>4. new \in Row /\ new.token = t /\ new.createdAt = born[g]
    BY <1>2, <1>3, Fields
<1> HIDE DEF new, g
<1>5. /\ request' \in [Requests -> RequestType]
      /\ request'[c].pc = "done" /\ request'[c].state = request[c].state
      /\ \A d \in Requests \ {c} : request'[d] = request[d]
    BY <1>1, Typed DEF IInv, RequestType
<1>6. raced' \in BOOLEAN
    BY <1>1
<1>7. TypeOK'
    BY <1>1, <1>4, <1>5, <1>6 DEF IInv, TypeOK, RunType, RequestType
<1>8. Nonces'
    BY <1>1, <1>5, NoncesStay DEF IInv
<1>9. Locked' /\ Bodies'
    BY <1>1, <1>4, RowAssumption DEF IInv, Custody, Locked, Bodies
<1>10. HandedOut'
    BY <1>1, <1>2, <1>3, <1>4, <1>5 DEF IInv, Custody, HandedOut
<1>11. OnItsWay'
    BY <1>1, <1>2, <1>3, <1>4, <1>5 DEF IInv, Custody, OnItsWay
<1>12. NeverPresentsStale'
    BY <1>1 DEF IInv, Custody, NeverPresentsStale
<1>13. StoredLive'
    BY <1>1, <1>2, <1>3, <1>4 DEF StoredLive
<1>14. Dated'
    BY <1>1, <1>3, <1>4 DEF Dated
<1> QED BY <1>7, <1>8, <1>9, <1>10, <1>11, <1>12, <1>13, <1>14 DEF IInv, Custody

--------------------------------------------------------------------------------
(* schwab_client_for_user.                                                 *)

\* Opening a client and waiting for the lock.
LEMMA WaitStep ==
    ASSUME IInv, NEW w \in Workers, Open(w) \/ AcquireLock(w)
    PROVE  IInv'
<1>1. /\ born' = born /\ live' = live /\ row' = row /\ lost' = lost /\ raced' = raced
      /\ clock' = clock /\ states' = states /\ request' = request
    BY DEF Open, AcquireLock
<1>2. PICK p \in {"waiting", "locked"} :
        /\ run' = [run EXCEPT ![w].pc = p]
        /\ p = "waiting" => lock' = lock /\ run[w].pc = "idle"
        /\ p = "locked" => lock = None /\ lock' = w /\ run[w].pc = "waiting"
    BY DEF Open, AcquireLock
<1>3. /\ run' \in [Workers -> RunType] /\ lock' \in Workers \cup {None}
      /\ run'[w].pc = p /\ run'[w].token = run[w].token /\ run'[w].wrote = run[w].wrote
      /\ \A x \in Workers \ {w} : run'[x] = run[x]
    BY <1>2, Typed DEF IInv, RunType, TypeOK
<1>4. \A x \in Workers : run'[x].pc \in {"locked", "body"} <=> lock' = x
    BY <1>2, <1>3, CustodyAssumption DEF IInv, Custody, Locked
<1>5. TypeOK'
    BY <1>1, <1>3 DEF IInv, TypeOK, RunType, RequestType
<1>6. Nonces'
    BY <1>1, NoncesStay DEF IInv
<1>7. Custody'
    BY <1>1, <1>2, <1>3, <1>4, CustodyStays DEF IInv
<1> QED BY <1>5, <1>6, <1>7 DEF IInv

\* Of the workers, only the holder of the lock is in a body.
LEMMA OneBody ==
    ASSUME Locked, NEW w \in Workers, run[w].pc \in {"locked", "body"}
    PROVE  \A x \in Workers \ {w} : run[x].pc \notin {"locked", "body"}
BY DEF Locked

\* A step of the worker that has the lock: w becomes new, the others are outside.
LEMMA HolderFacts ==
    ASSUME IInv, NEW w \in Workers, run[w].pc \in {"locked", "body"}, NEW new \in RunType,
           run' = [run EXCEPT ![w] = new]
    PROVE  /\ run' \in [Workers -> RunType] /\ run'[w] = new
           /\ \A x \in Workers \ {w} : /\ run'[x] = run[x]
                                       /\ run[x].pc \notin {"locked", "body"}
           /\ lock = w
BY Typed, OneBody DEF IInv, Custody, Locked

\* read_connection under the lock.
LEMMA ReadTokenStep ==
    ASSUME IInv, NEW w \in Workers, ReadToken(w)
    PROVE  IInv'
<1> DEFINE new == [pc |-> "body", token |-> row.token, wrote |-> FALSE]
<1>1. /\ born' = born /\ live' = live /\ row' = row /\ lost' = lost /\ raced' = raced
      /\ clock' = clock /\ states' = states /\ request' = request /\ lock' = lock
      /\ run[w].pc = "locked" /\ row # None /\ run' = [run EXCEPT ![w] = new]
    BY DEF ReadToken
<1>2. row \in Row /\ row.token \in Token /\ born[row.token.grant] \in Nat
    BY <1>1, Fields DEF IInv, Custody, HandedOut
<1>3. new \in RunType /\ new.pc = "body" /\ new.token = row.token /\ new.wrote = FALSE
    BY <1>2 DEF RunType
<1> HIDE DEF new
<1>4. /\ run' \in [Workers -> RunType] /\ run'[w] = new /\ lock = w
      /\ \A x \in Workers \ {w} : run'[x] = run[x] /\ run[x].pc \notin {"locked", "body"}
    BY <1>1, <1>3, HolderFacts
<1>5. TypeOK'
    BY <1>1, <1>4 DEF IInv, TypeOK, RunType, RequestType
<1>6. Nonces'
    BY <1>1, NoncesStay DEF IInv
<1>7. Locked' /\ Bodies'
    BY <1>1, <1>2, <1>3, <1>4 DEF IInv, Custody, Locked, Bodies
<1>8. HandedOut'
    BY <1>1, <1>2, <1>3, <1>4 DEF IInv, Custody, HandedOut
<1>9. OnItsWay'
    BY <1>1, <1>3, <1>4 DEF IInv, Custody, OnItsWay
<1>10. row.token.grant \notin lost => row.token.version = live[row.token.grant]
    BY <1>1, <1>4 DEF IInv, Custody, StoredLive
<1>11. NeverPresentsStale'
    BY <1>1, <1>3, <1>4, <1>10 DEF IInv, Custody, NeverPresentsStale
<1>12. StoredLive'
    BY <1>1, <1>10 DEF StoredLive
<1>13. Dated'
    BY <1>1, <1>3, <1>4 DEF IInv, Custody, Dated
<1> QED BY <1>5, <1>6, <1>7, <1>8, <1>9, <1>11, <1>12, <1>13 DEF IInv, Custody

\* The vendor rotates the holder's token.
LEMMA RefreshStep ==
    ASSUME IInv, NEW w \in Workers, Refresh(w)
    PROVE  IInv'
<1> DEFINE t == run[w].token
           g == t.grant
           u == [t EXCEPT !.version = t.version + 1]
           new == [pc |-> "body", wrote |-> TRUE, token |-> u]
<1>1. /\ born' = born /\ row' = row /\ lost' = lost /\ raced' = raced
      /\ clock' = clock /\ states' = states /\ request' = request /\ lock' = lock
      /\ run[w].pc = "body" /\ t.version = live[g] /\ t.version < MaxVersion
      /\ live' = [live EXCEPT ![g] = t.version + 1]
      /\ run' = [run EXCEPT ![w] = new]
    BY DEF Refresh
<1>2. t \in Token /\ row \in Row /\ g \in Grants /\ born[g] \in Nat
    BY <1>1, Fields DEF IInv, Custody, Bodies, HandedOut
<1>3. u \in Token /\ u.grant = g /\ u.version = t.version + 1
    BY <1>1, <1>2, CustodyAssumption DEF Token
<1> HIDE DEF u
<1>4. new \in RunType /\ new.pc = "body" /\ new.token = u /\ new.wrote = TRUE
    BY <1>3 DEF RunType
<1>5. /\ live' \in [Grants -> 0..MaxVersion] /\ live'[g] = u.version
      /\ \A h \in Grants \ {g} : live'[h] = live[h]
    <2>1. t.version + 1 \in 0..MaxVersion
        BY <1>1, <1>2, CustodyAssumption DEF Token
    <2> QED BY <1>1, <1>2, <1>3, <2>1, Typed DEF IInv
<1> HIDE DEF new
<1>6. /\ run' \in [Workers -> RunType] /\ run'[w] = new /\ lock = w
      /\ \A x \in Workers \ {w} : run'[x] = run[x] /\ run[x].pc \notin {"locked", "body"}
    BY <1>1, <1>4, HolderFacts
<1>7. TypeOK'
    BY <1>1, <1>5, <1>6 DEF IInv, TypeOK, RunType, RequestType
<1>8. Nonces'
    BY <1>1, NoncesStay DEF IInv
<1>9. Locked' /\ Bodies'
    BY <1>1, <1>2, <1>3, <1>4, <1>6 DEF IInv, Custody, Locked, Bodies
<1>10. HandedOut'
    BY <1>1, <1>2, <1>3, <1>4, <1>6 DEF IInv, Custody, HandedOut
<1>11. OnItsWay'
    <2>1. \A c \in Requests : request[c].pc = "exchanged" => request[c].grant \in Grants \ {g}
        BY <1>1 DEF IInv, Custody, OnItsWay, HandedOut
    <2> QED BY <1>1, <1>3, <1>4, <1>5, <1>6, <2>1 DEF IInv, Custody, OnItsWay
<1>12. NeverPresentsStale'
    BY <1>3, <1>4, <1>5, <1>6 DEF NeverPresentsStale
<1>13. StoredLive'
    <2> SUFFICES ASSUME row # None, row.token.grant \notin lost
                 PROVE  \/ row.token.version = live'[row.token.grant]
                        \/ \E x \in Workers : /\ run'[x].pc = "body" /\ run'[x].wrote
                                              /\ run'[x].token.grant = row.token.grant
        BY <1>1 DEF StoredLive
    <2>1. CASE row.token.grant = g
        BY <1>3, <1>4, <1>6, <2>1
    <2>2. CASE row.token.grant # g
        <3>1. row.token.grant \in Grants
            BY <1>2, Fields
        <3>2. ~\E x \in Workers : /\ run[x].pc = "body" /\ run[x].wrote
                                  /\ run[x].token.grant = row.token.grant
            BY <1>6, <2>2
        <3> QED BY <1>5, <2>2, <3>1, <3>2 DEF IInv, Custody, StoredLive
    <2> QED BY <2>1, <2>2
<1>14. Dated'
    BY <1>1, <1>3, <1>4, <1>6 DEF IInv, Custody, Dated
<1> QED BY <1>7, <1>8, <1>9, <1>10, <1>11, <1>12, <1>13, <1>14 DEF IInv, Custody

\* The body raises: a rotation is lost with its transaction, and known as lost.
LEMMA FailStep ==
    ASSUME IInv, NEW w \in Workers, Fail(w)
    PROVE  IInv'
<1>1. /\ born' = born /\ live' = live /\ row' = row /\ raced' = raced
      /\ clock' = clock /\ states' = states /\ request' = request /\ lock' = None
      /\ run[w].pc \in {"locked", "body"} /\ run' = [run EXCEPT ![w] = IdleRun]
      /\ lost' = IF run[w].wrote THEN lost \cup {run[w].token.grant} ELSE lost
    BY DEF Fail
<1>2. IdleRun \in RunType /\ IdleRun.pc = "idle" /\ IdleRun.wrote = FALSE
    BY Typed DEF IInv, IdleRun
<1>3. /\ run' \in [Workers -> RunType] /\ run'[w] = IdleRun /\ lock = w
      /\ \A x \in Workers \ {w} : run'[x] = run[x] /\ run[x].pc \notin {"locked", "body"}
    BY <1>1, <1>2, HolderFacts
<1>4. run[w].wrote => /\ run[w].pc = "body" /\ run[w].token.grant \in Grants
                      /\ born[run[w].token.grant] \in Nat
    BY Fields DEF IInv, Custody, Bodies, HandedOut
<1>5. lost' \subseteq Grants
    BY <1>1, <1>4, Typed DEF IInv
<1>6. TypeOK'
    BY <1>1, <1>3, <1>5 DEF IInv, TypeOK, RunType, RequestType
<1>7. Nonces'
    BY <1>1, NoncesStay DEF IInv
<1>8. \A x \in Workers : run'[x].pc \notin {"locked", "body"}
    BY <1>2, <1>3
<1>9. Locked' /\ Bodies'
    BY <1>1, <1>2, <1>3, <1>8, CustodyAssumption DEF IInv, Custody, Locked, Bodies
<1>10. HandedOut'
    BY <1>1, <1>4, <1>8 DEF IInv, Custody, HandedOut
<1>11. OnItsWay'
    BY <1>1, <1>4, <1>8 DEF IInv, Custody, OnItsWay
<1>12. NeverPresentsStale' /\ Dated'
    BY <1>1, <1>8 DEF IInv, Custody, NeverPresentsStale, Dated
<1>13. StoredLive'
    BY <1>1, <1>3 DEF IInv, Custody, StoredLive
<1> QED BY <1>6, <1>7, <1>9, <1>10, <1>11, <1>12, <1>13 DEF IInv, Custody

\* The body returns: what it rotated is stored.
LEMMA FinishStep ==
    ASSUME IInv, NEW w \in Workers, Finish(w)
    PROVE  IInv'
<1>1. /\ born' = born /\ live' = live /\ lost' = lost /\ raced' = raced
      /\ clock' = clock /\ states' = states /\ request' = request /\ lock' = None
      /\ run[w].pc = "body" /\ run' = [run EXCEPT ![w] = IdleRun]
      /\ row' = IF run[w].wrote THEN [row EXCEPT !.token = run[w].token] ELSE row
    BY DEF Finish, Persisted
<1>2. IdleRun \in RunType /\ IdleRun.pc = "idle" /\ IdleRun.wrote = FALSE
    BY Typed DEF IInv, IdleRun
<1>3. /\ run' \in [Workers -> RunType] /\ run'[w] = IdleRun /\ lock = w
      /\ \A x \in Workers \ {w} : run'[x] = run[x] /\ run[x].pc \notin {"locked", "body"}
    BY <1>1, <1>2, HolderFacts
<1>4. run[w].token \in Token /\ row # None /\ row \in Row /\ born[run[w].token.grant] \in Nat
    BY <1>1 DEF IInv, Custody, Bodies, HandedOut
<1>5. /\ row' \in Row /\ row'.createdAt = row.createdAt
      /\ row'.token = IF run[w].wrote THEN run[w].token ELSE row.token
    BY <1>1, <1>4 DEF Row
<1>6. TypeOK'
    BY <1>1, <1>3, <1>5 DEF IInv, TypeOK, RunType, RequestType
<1>7. Nonces'
    BY <1>1, NoncesStay DEF IInv
<1>8. \A x \in Workers : run'[x].pc \notin {"locked", "body"}
    BY <1>2, <1>3
<1>9. Locked' /\ Bodies'
    BY <1>1, <1>2, <1>3, <1>8, CustodyAssumption DEF IInv, Custody, Locked, Bodies
<1>10. CASE run[w].wrote
    <2>1. HandedOut'
        BY <1>1, <1>4, <1>5, <1>8, <1>10 DEF IInv, Custody, HandedOut
    <2>2. OnItsWay'
        BY <1>1, <1>5, <1>8, <1>10 DEF IInv, Custody, OnItsWay
    <2>3. NeverPresentsStale'
        BY <1>8 DEF NeverPresentsStale
    <2>4. StoredLive'
        BY <1>1, <1>5, <1>10 DEF IInv, Custody, StoredLive, NeverPresentsStale
    <2>5. Dated'
        BY <1>1, <1>4, <1>5, <1>8, <1>10 DEF IInv, Custody, Dated
    <2> QED BY <1>6, <1>7, <1>9, <2>1, <2>2, <2>3, <2>4, <2>5 DEF IInv, Custody
<1>11. CASE ~run[w].wrote
    <2>1. row' = row
        BY <1>1, <1>11
    <2>2. HandedOut'
        BY <1>1, <1>8, <2>1 DEF IInv, Custody, HandedOut
    <2>3. OnItsWay'
        BY <1>1, <1>8, <2>1 DEF IInv, Custody, OnItsWay
    <2>4. NeverPresentsStale' /\ Dated'
        BY <1>1, <1>8, <2>1 DEF IInv, Custody, NeverPresentsStale, Dated
    <2>5. StoredLive'
        BY <1>1, <1>3, <1>11, <2>1 DEF IInv, Custody, StoredLive
    <2> QED BY <1>6, <1>7, <1>9, <2>2, <2>3, <2>4, <2>5 DEF IInv, Custody
<1> QED BY <1>10, <1>11

--------------------------------------------------------------------------------
(* Theorems.                                                               *)

\* Before anything happens.
LEMMA IInvInit == Init => IInv
<1> SUFFICES ASSUME Init PROVE IInv
    OBVIOUS
<1> USE DEF Init
<1>1. /\ IdleRun \in RunType /\ IdleRun.pc = "idle" /\ IdleRun.wrote = FALSE
      /\ NewRequest \in RequestType /\ NewRequest.pc = "new" /\ NewRequest.state = None
    BY DEF IdleRun, NewRequest, RunType, RequestType
<1>2. TypeOK
    <2>1. run \in [Workers -> RunType] /\ request \in [Requests -> RequestType]
        BY <1>1
    <2>2. 0 \in 0..MaxVersion /\ 0 \in Nat
        BY CustodyAssumption
    <2>3. /\ born \in [Grants -> Nat \cup {None}] /\ live \in [Grants -> 0..MaxVersion]
          /\ states \in [States -> Nat \cup {None}]
        BY <2>2
    <2> QED BY <2>1, <2>2, <2>3 DEF TypeOK, RunType, RequestType
<1>3. Nonces
    BY <1>1 DEF Nonces, StateFresh, StateUsedOnce
<1>4. Locked /\ Bodies
    BY <1>1, CustodyAssumption DEF Locked, Bodies
<1>5. HandedOut /\ OnItsWay /\ NeverPresentsStale /\ StoredLive /\ Dated
    BY <1>1 DEF HandedOut, OnItsWay, NeverPresentsStale, StoredLive, Dated
<1> QED BY <1>2, <1>3, <1>4, <1>5 DEF IInv, Custody

\* Every step keeps the invariant.
LEMMA IInvNext == IInv /\ [Next]_vars => IInv'
<1> SUFFICES ASSUME IInv, [Next]_vars PROVE IInv'
    OBVIOUS
<1>1. CASE Tick \/ \E s \in States : Connect(s)
    BY <1>1, TickConnectStep
<1>2. ASSUME NEW c \in Requests, NEW s \in States, Consume(c, s) \/ RejectState(c, s)
      PROVE  IInv'
    BY <1>2, ConsumeStep, DeliveryEnds
<1>3. ASSUME NEW c \in Requests, Exchange(c) \/ Store(c) \/ CallbackFails(c) PROVE IInv'
    BY <1>3, ExchangeStep, StoreStep, DeliveryEnds
<1>4. ASSUME NEW w \in Workers, Open(w) \/ AcquireLock(w) \/ ReadToken(w) PROVE IInv'
    BY <1>4, WaitStep, ReadTokenStep
<1>5. ASSUME NEW w \in Workers, Refresh(w) \/ Fail(w) \/ Finish(w) PROVE IInv'
    BY <1>5, RefreshStep, FailStep, FinishStep
<1>6. CASE UNCHANGED vars
    <2>1. TypeOK'
        BY <1>6 DEF vars, IInv, TypeOK
    <2>2. Nonces'
        BY <1>6, NoncesStay DEF vars, IInv
    <2>3. Custody'
        BY <1>6, CustodyStays DEF vars, IInv, Custody, Locked
    <2> QED BY <2>1, <2>2, <2>3 DEF IInv
<1> QED BY <1>1, <1>2, <1>3, <1>4, <1>5, <1>6 DEF Next

\* The inductive invariant holds in every state.
THEOREM SpecIInv == Spec => []IInv
BY IInvInit, IInvNext, PTL DEF Spec

\* Grants, nonces, the row, workers and deliveries keep their types.
THEOREM SpecTypeOK == Spec => []TypeOK
<1>1. IInv => TypeOK
    BY DEF IInv
<1> QED BY <1>1, SpecIInv, PTL

\* consume_token: a state is good for one delivery of /schwab/callback, however many
\* arrive and in whatever order.
THEOREM SpecStateUsedOnce == Spec => []StateUsedOnce
<1>1. IInv => StateUsedOnce
    BY DEF IInv, Nonces
<1> QED BY <1>1, SpecIInv, PTL

\* schwab_client_for_user reads under the lock and stores before it is freed: no client
\* is built over a token the vendor has rotated away, unless a body raised after it
\* had refreshed.
THEOREM SpecNeverPresentsStale == Spec => []NeverPresentsStale
<1>1. IInv => NeverPresentsStale
    BY DEF IInv, Custody
<1> QED BY <1>1, SpecIInv, PTL

\* Between two clients the schwab_connections row has the vendor's current token, with
\* the same exception.
THEOREM SpecStoredTokenLive == Spec => []StoredTokenLive
<1>1. IInv => StoredTokenLive
    BY CustodyAssumption DEF IInv, Custody, Locked, StoredLive, StoredTokenLive
<1> QED BY <1>1, SpecIInv, PTL

\* derive_connection_health says expired exactly when the vendor refuses the stored
\* grant for its age, as long as no callback has landed inside a client's body.
THEOREM SpecHealthHonest == Spec => []HealthHonest
<1>1. IInv => HealthHonest
    <2> SUFFICES ASSUME IInv, row # None, ~raced
                 PROVE  Health(row.createdAt, clock) = "expired" <=> Expired(row.token.grant)
        BY DEF HealthHonest
    <2>1. row.createdAt = born[row.token.grant] /\ row.createdAt \in Nat /\ clock \in Nat
        BY Fields, Typed DEF IInv, Custody, Dated, HandedOut
    <2>2. Health(row.createdAt, clock) = "expired" <=> row.createdAt + Lifetime - clock <= 0
        BY DEF Health
    <2>3. Expired(row.token.grant) <=> clock >= row.createdAt + Lifetime
        BY <2>1 DEF Expired
    <2> QED BY <2>1, <2>2, <2>3, CustodyAssumption
<1> QED BY <1>1, SpecIInv, PTL

--------------------------------------------------------------------------------
(* How the row may change.                                                 *)

\* A body about the row's own grant is not behind the row, and ahead of it once it has
\* rotated.
Ahead ==
    \A w \in Workers : row # None /\ run[w].pc = "body"
                       /\ run[w].token.grant = row.token.grant =>
        /\ run[w].token.version >= row.token.version
        /\ run[w].wrote => run[w].token.version > row.token.version

\* A step that leaves the row and the bodies alone.
LEMMA AheadStays ==
    ASSUME Ahead, row' = row,
           \A w \in Workers : run'[w].pc = "body" =>
               /\ run[w].pc = "body"
               /\ run'[w].token = run[w].token /\ run'[w].wrote = run[w].wrote
    PROVE  Ahead'
BY DEF Ahead

\* A body starts from the row and only rotates forward; a callback stores a grant that
\* no body has.
LEMMA AheadNext ==
    ASSUME IInv, Ahead, [Next]_vars
    PROVE  Ahead'
<1>r. run \in [Workers -> RunType]
    BY Typed DEF IInv
<1>1. ASSUME row' = row, run' = run PROVE Ahead'
    BY <1>1, AheadStays
<1>2. CASE Tick \/ \E s \in States : Connect(s)
    BY <1>1, <1>2 DEF Tick, Connect
<1>3. ASSUME NEW c \in Requests, NEW s \in States, Consume(c, s) \/ RejectState(c, s)
      PROVE  Ahead'
    BY <1>1, <1>3 DEF Consume, RejectState
<1>4. ASSUME NEW c \in Requests, Exchange(c) \/ CallbackFails(c) PROVE Ahead'
    BY <1>1, <1>4 DEF Exchange, CallbackFails
<1>5. ASSUME NEW c \in Requests, Store(c) PROVE Ahead'
    <2> DEFINE g == request[c].grant
    <2>1. /\ request[c].pc = "exchanged" /\ run' = run
          /\ row' = [token |-> [grant |-> g, version |-> 1], createdAt |-> born[g]]
        BY <1>5 DEF Store
    <2>2. row'.token.grant = g
        BY <2>1
    <2>3. \A w \in Workers : run[w].pc = "body" => run[w].token.grant # g
        BY <2>1 DEF IInv, Custody, OnItsWay
    <2> QED BY <2>1, <2>2, <2>3 DEF Ahead
<1>6. ASSUME NEW w \in Workers, Open(w) PROVE Ahead'
    <2>1. row' = row /\ run[w].pc = "idle" /\ run' = [run EXCEPT ![w].pc = "waiting"]
        BY <1>6 DEF Open
    <2>2. run'[w].pc = "waiting" /\ \A x \in Workers \ {w} : run'[x] = run[x]
        BY <1>r, <2>1 DEF RunType
    <2> QED BY <2>1, <2>2, AheadStays
<1>7. ASSUME NEW w \in Workers, AcquireLock(w) PROVE Ahead'
    <2>1. row' = row /\ run' = [run EXCEPT ![w].pc = "locked"]
        BY <1>7 DEF AcquireLock
    <2>2. run'[w].pc = "locked" /\ \A x \in Workers \ {w} : run'[x] = run[x]
        BY <1>r, <2>1 DEF RunType
    <2> QED BY <2>1, <2>2, AheadStays
<1>8. ASSUME NEW w \in Workers, ReadToken(w) PROVE Ahead'
    <2> DEFINE new == [pc |-> "body", token |-> row.token, wrote |-> FALSE]
    <2>1. row' = row /\ row # None /\ run' = [run EXCEPT ![w] = new]
        BY <1>8 DEF ReadToken
    <2>2. run'[w] = new /\ \A x \in Workers \ {w} : run'[x] = run[x]
        BY <1>r, <2>1
    <2>3. row.token.version \in Int
        BY <2>1 DEF IInv, TypeOK, Row, Token
    <2> QED BY <2>1, <2>2, <2>3 DEF Ahead
<1>9. ASSUME NEW w \in Workers, Refresh(w) PROVE Ahead'
    <2> DEFINE t == run[w].token
               u == [t EXCEPT !.version = t.version + 1]
               new == [pc |-> "body", wrote |-> TRUE, token |-> u]
    <2>1. row' = row /\ run[w].pc = "body" /\ run' = [run EXCEPT ![w] = new]
        BY <1>9 DEF Refresh
    <2>2. t \in Token /\ row \in Row /\ row # None
        BY <2>1 DEF IInv, Custody, Bodies
    <2>3. u.grant = t.grant /\ u.version = t.version + 1 /\ t.version \in Int
        BY <2>2 DEF Token
    <2>4. row.token.version \in Int
        BY <2>2 DEF Row, Token
    <2> HIDE DEF u
    <2>5. new.token = u
        OBVIOUS
    <2> HIDE DEF new
    <2>6. run'[w] = new /\ \A x \in Workers \ {w} : run'[x] = run[x]
        BY <1>r, <2>1
    <2> QED BY <2>1, <2>2, <2>3, <2>4, <2>5, <2>6 DEF Ahead
<1>10. ASSUME NEW w \in Workers, Fail(w) \/ Finish(w) PROVE Ahead'
    <2>1. run[w].pc \in {"locked", "body"} /\ run' = [run EXCEPT ![w] = IdleRun]
        BY <1>10 DEF Fail, Finish
    <2>2. IdleRun \in RunType /\ IdleRun.pc = "idle"
        BY Typed DEF IInv, IdleRun
    <2>3. \A x \in Workers : run'[x].pc # "body"
        BY <2>1, <2>2, HolderFacts
    <2> QED BY <2>3 DEF Ahead
<1>11. CASE UNCHANGED vars
    BY <1>1, <1>11 DEF vars
<1> QED BY <1>2, <1>3, <1>4, <1>5, <1>6, <1>7, <1>8, <1>9, <1>10, <1>11 DEF Next

\* Only a callback and the end of a body write the row: the one a grant that was on its
\* way, the other what it rotated.
LEMMA RowNext ==
    ASSUME IInv, Ahead, [Next]_vars, row # None, row' # row
    PROVE  /\ row' # None
           /\ \/ Rotated(row, row') \/ Replaced(row, row')
              \/ /\ raced
                 /\ row'.token.grant # row.token.grant /\ row'.createdAt = row.createdAt
<1>1. ASSUME NEW c \in Requests, Store(c) PROVE row' # None /\ Replaced(row, row')
    <2> DEFINE g == request[c].grant
    <2>1. /\ request[c].pc = "exchanged"
          /\ row' = [token |-> [grant |-> g, version |-> 1], createdAt |-> born[g]]
        BY <1>1 DEF Store
    <2>2. row'.token.grant = g /\ row'.token.version = 1 /\ row'.createdAt = born[g]
        BY <2>1
    <2>3. live[g] = 1 /\ row.token.grant # g
        BY <2>1 DEF IInv, Custody, OnItsWay
    <2>4. row' # None
        <3>1. IInv'
            BY IInvNext
        <3>2. g \in Grants /\ born[g] \in Nat /\ 1 \in 1..MaxVersion
            BY <2>1, CustodyAssumption DEF IInv, Custody, HandedOut
        <3>3. row' \in Row
            BY <2>1, <3>2 DEF Row, Token
        <3> QED BY <3>3, RowAssumption
    <2> QED BY <2>2, <2>3, <2>4 DEF Replaced
<1>2. ASSUME NEW w \in Workers, Finish(w)
      PROVE  /\ row' # None
             /\ \/ Rotated(row, row')
                \/ /\ raced
                   /\ row'.token.grant # row.token.grant /\ row'.createdAt = row.createdAt
    <2>1. /\ run[w].pc = "body"
          /\ row' = IF run[w].wrote THEN [row EXCEPT !.token = run[w].token] ELSE row
        BY <1>2 DEF Finish, Persisted
    <2>2. run[w].wrote /\ row' = [row EXCEPT !.token = run[w].token]
        BY <2>1
    <2>3. run[w].token \in Token /\ row \in Row
        BY <2>1 DEF IInv, Custody, Bodies
    <2>4. row' \in Row /\ row'.token = run[w].token /\ row'.createdAt = row.createdAt
        BY <2>2, <2>3 DEF Row
    <2>5. row' # None
        BY <2>4, RowAssumption
    <2>6. CASE run[w].token.grant = row.token.grant
        <3>1. run[w].token.version > row.token.version
            BY <2>1, <2>2, <2>6 DEF Ahead
        <3> QED BY <2>4, <2>5, <2>6, <3>1 DEF Rotated
    <2>7. CASE run[w].token.grant # row.token.grant
        <3>1. raced
            BY <2>1, <2>7 DEF IInv, Custody, Dated
        <3> QED BY <2>4, <2>5, <2>7, <3>1
    <2> QED BY <2>6, <2>7
<1>3. \/ \E c \in Requests : Store(c)
      \/ \E w \in Workers : Finish(w)
    BY DEF Next, vars, Tick, Connect, Consume, RejectState, Exchange, CallbackFails, Open,
           AcquireLock, ReadToken, Refresh, Fail
<1> QED BY <1>1, <1>2, <1>3

\* upsert_connection and the persistence of a refresh: the schwab_connections row is
\* never lost, never goes back to an earlier token of its grant, and keeps its date
\* unless a new grant replaces it.
THEOREM SpecRowMovesForward == Spec => RowMovesForward
<1>1. Init => Ahead
    BY DEF Init, Ahead
<1>2. IInv /\ Ahead /\ [Next]_vars => Ahead'
    BY AheadNext
<1>3. IInv /\ Ahead /\ [Next]_vars =>
        [row # None =>
           /\ row' # None
           /\ \/ Rotated(row, row') \/ Replaced(row, row')
              \/ /\ raced
                 /\ row'.token.grant # row.token.grant
                 /\ row'.createdAt = row.createdAt]_row
    BY RowNext
<1> QED BY <1>1, <1>2, <1>3, SpecIInv, PTL DEF Spec, RowMovesForward
================================================================================
