----------------------------- MODULE Tenancy_proofs -----------------------------
(***************************************************************************)
(* Proofs about Tenancy, for any number of users, requests, connections,   *)
(* boots and rotations: the columns keep their types, a statement sees its *)
(* own user's rows and nothing else, the admin clause ends with the        *)
(* admin's request, keys live and die with their accounts, and a rotation  *)
(* leaves only late keys behind.                                           *)
(***************************************************************************)
EXTENDS Tenancy, TLAPS

Request == [pc : Protected \cup {"idle", "switch", "provisioned", "consumed", "failing"},
            user : Users \cup {None}, new : Users \cup {None},
            kek : Keks \cup {None}, conn : Conns \cup {None}]
Settings == [uid : Users \cup {"null", "empty"}, admin : BOOLEAN]

\* The values that begin and end a request, a connection and a rotation.
LEMMA StartValues ==
    /\ Idle \in Request /\ Unset \in Settings
    /\ NoKey \in [kek : Keks \cup {None}, late : BOOLEAN]
    /\ NoRotation \in [pc : {"idle", "read"}, rows : SUBSET Users, new : Keks \cup {None}]
BY DEF Idle, Unset, NoKey, NoRotation, Request, Settings, Protected

\* A connection in use is one of the pool.
LEMMA ConnTyped ==
    ASSUME req \in [Slots -> Request], NEW r \in Slots, req[r].conn # None
    PROVE  req[r].conn \in Conns
BY DEF Request

\* The part of the type invariant that requests change, and the part that the
\* accounts, keys and processes change.
ReqTypes == conn \in [Conns -> Settings] /\ req \in [Slots -> Request]
TenantTypes ==
    /\ bypass \in BOOLEAN
    /\ account \in [Users -> {"none", "live", "gone"}]
    /\ keys \in [Users -> [kek : Keks \cup {None}, late : BOOLEAN]]
    /\ env \in Keks /\ current \in Keks
    /\ proc \in [Processes -> Keks \cup {None}]
    /\ rot \in [pc : {"idle", "read"}, rows : SUBSET Users, new : Keks \cup {None}]
    /\ boots \in 0..MaxBoots

\* The two parts are the type invariant.
LEMMA TypeParts == TypeOK <=> ReqTypes /\ TenantTypes
BY DEF TypeOK, ReqTypes, TenantTypes, Request, Settings

\* Where a request is tells what it holds: a connection of its process's pool while a
\* transaction is open, the user it acts for, and, while it creates one, the new user.
Holding ==
    \A r \in Slots :
        /\ req[r].pc = "idle" => req[r] = Idle
        /\ req[r].pc # "idle" => req[r].user \in Users /\ ~bypass /\ Up(r)
        /\ req[r].pc \in {"idle", "consumed", "failing"} <=> req[r].conn = None
        /\ req[r].conn # None => PoolOf[req[r].conn] = ProcessOf[r]
        /\ req[r].pc \in {"switch", "provision", "provisioned"}
             => req[r].new \in Users /\ req[r].user = Admin
        /\ req[r].pc \notin {"switch", "provision", "provisioned"} => req[r].new = None
        /\ req[r].pc = "provisioned" => req[r].kek \in Keks

\* No two requests use one connection.
Exclusive ==
    \A r, x \in Slots : req[r].conn # None /\ req[r].conn = req[x].conn => r = x

\* The user id of a connection in use: the new user's from the switch on, the
\* request's own before it and in all other requests.
ContextSet ==
    \A r \in Slots : req[r].conn # None =>
        conn[req[r].conn].uid = IF req[r].pc \in {"provision", "provisioned"}
                                THEN req[r].new ELSE req[r].user

\* The flag is on only where an admin's request has the connection.
FlagHeld ==
    \A c \in Conns : conn[c].admin =>
        \E r \in Slots : /\ req[r].conn = c /\ req[r].user = Admin
                         /\ req[r].pc \in {"handler", "switch", "provision", "provisioned"}

\* A web process that is up does not bypass the policies.
BootRefused == proc["web"] # None => ~bypass

Context == ReqTypes /\ Holding /\ Exclusive /\ ContextSet /\ FlagHeld /\ BootRefused

\* A user being created is nobody's yet, and one request's only.
Pending ==
    /\ account[Admin] # "none"
    /\ \A r \in Slots : req[r].new # None => account[req[r].new] = "none"
    /\ \A r, x \in Slots : req[r].new # None /\ req[r].new = req[x].new => r = x
    /\ \A r \in Slots : req[r].user # None => account[req[r].user] # "none"

\* While a rotation has read its rows, every other key is a late one.
OthersLate ==
    rot.pc = "read" => /\ rot.new \in Keks
                       /\ \A u \in Stored : u \in rot.rows \/ keys[u].late
--------------------------------------------------------------------------------
(* Connections: the ways in which a step may change who uses one.          *)

\* A request without a connection gets a free one and sets the context on it.
LEMMA AcquireStep ==
    ASSUME Context, NEW r \in Slots, NEW c \in Free(r), NEW u \in Users,
           NEW pc \in {"handler", "write", "job", "record"},
           req[r].conn = None, Up(r), ~bypass,
           conn' \in [Conns -> Settings], conn'[c].uid = u,
           conn'[c].admin => conn[c].admin \/ (u = Admin /\ pc = "handler"),
           \A d \in Conns \ {c} : conn'[d] = conn[d],
           req' \in [Slots -> Request],
           req'[r].pc = pc, req'[r].user = u, req'[r].new = None, req'[r].conn = c,
           \A x \in Slots \ {r} : req'[x] = req[x],
           bypass' = bypass, proc' = proc
    PROVE  Context'
<1>1. /\ c \in Conns /\ c # None /\ PoolOf[c] = ProcessOf[r]
      /\ \A x \in Slots : req[x].conn # c
    BY TenancyAssumption DEF Free
<1>2. ~conn[c].admin
    BY <1>1 DEF Context, FlagHeld
<1>3. Holding'
    BY <1>1 DEF Context, Holding, Up
<1>4. Exclusive'
    BY <1>1 DEF Context, Exclusive
<1>5. ContextSet'
    BY <1>1, ConnTyped DEF Context, ContextSet, ReqTypes
<1>6. FlagHeld'
    <2> SUFFICES ASSUME NEW d \in Conns, conn'[d].admin
                 PROVE  \E x \in Slots :
                          /\ req'[x].conn = d /\ req'[x].user = Admin
                          /\ req'[x].pc \in {"handler", "switch", "provision", "provisioned"}
        BY DEF FlagHeld
    <2>1. CASE d = c
        BY <2>1, <1>2
    <2>2. CASE d # c
        <3>1. conn[d].admin
            BY <2>2
        <3>2. PICK x \in Slots :
                /\ req[x].conn = d /\ req[x].user = Admin
                /\ req[x].pc \in {"handler", "switch", "provision", "provisioned"}
            BY <3>1 DEF Context, FlagHeld
        <3>3. x # r
            BY <3>2, TenancyAssumption
        <3> QED BY <3>2, <3>3
    <2> QED BY <2>1, <2>2
<1> QED BY <1>3, <1>4, <1>5, <1>6 DEF Context, ReqTypes, BootRefused

\* A request ends its transaction: it is over, or a failing job goes on without a
\* connection.
LEMMA ReleaseStep ==
    ASSUME Context, NEW r \in Slots, req[r].conn # None,
           conn' = EndTransaction(req[r].conn),
           req' \in [Slots -> Request],
           \/ req'[r] = Idle
           \/ /\ req'[r].pc = "failing" /\ req'[r].user = req[r].user
              /\ req'[r].new = None /\ req'[r].conn = None,
           \A x \in Slots \ {r} : req'[x] = req[x],
           bypass' = bypass, proc' = proc
    PROVE  Context'
<1> DEFINE c == req[r].conn
<1>1. c \in Conns
    BY ConnTyped DEF Context, ReqTypes
<1>2. /\ conn' \in [Conns -> Settings]
      /\ ~conn'[c].admin
      /\ \A d \in Conns \ {c} : conn'[d] = conn[d]
    BY <1>1 DEF EndTransaction, Context, ReqTypes, Settings
<1>3. req'[r].conn = None /\ req'[r].pc \in {"idle", "failing"} /\ req'[r].new = None
    BY DEF Idle
<1>4. Holding'
    BY <1>3 DEF Context, Holding, Up, Idle
<1>5. Exclusive'
    BY <1>3 DEF Context, Exclusive
<1>6. ContextSet'
    <2> SUFFICES ASSUME NEW x \in Slots, req'[x].conn # None
                 PROVE  conn'[req'[x].conn].uid =
                            IF req'[x].pc \in {"provision", "provisioned"}
                            THEN req'[x].new ELSE req'[x].user
        BY DEF ContextSet
    <2>1. x # r /\ req'[x] = req[x]
        BY <1>3
    <2>2. req[x].conn # c /\ req[x].conn \in Conns
        BY <2>1, ConnTyped DEF Context, Exclusive, ReqTypes
    <2> QED BY <1>2, <2>1, <2>2 DEF Context, ContextSet
<1>7. FlagHeld'
    <2> SUFFICES ASSUME NEW d \in Conns, conn'[d].admin
                 PROVE  \E x \in Slots :
                          /\ req'[x].conn = d /\ req'[x].user = Admin
                          /\ req'[x].pc \in {"handler", "switch", "provision", "provisioned"}
        BY DEF FlagHeld
    <2>1. d # c /\ conn[d].admin
        BY <1>2
    <2>2. PICK x \in Slots :
            /\ req[x].conn = d /\ req[x].user = Admin
            /\ req[x].pc \in {"handler", "switch", "provision", "provisioned"}
        BY <2>1 DEF Context, FlagHeld
    <2> QED BY <2>1, <2>2
<1> QED BY <1>2, <1>4, <1>5, <1>6, <1>7 DEF Context, ReqTypes, BootRefused

\* A request moves on inside its transaction: create_user before and after it
\* switches the context.
LEMMA MoveStep ==
    ASSUME Context, NEW r \in Slots, req[r].conn # None, req[r].user = Admin,
           req[r].pc \in {"handler", "switch", "provision"},
           NEW new \in Users,
           NEW pc \in {"switch", "provision", "provisioned"},
           conn' \in [Conns -> Settings],
           conn'[req[r].conn].uid = IF pc = "switch" THEN Admin ELSE new,
           conn'[req[r].conn].admin => conn[req[r].conn].admin,
           \A d \in Conns \ {req[r].conn} : conn'[d] = conn[d],
           req' \in [Slots -> Request],
           req'[r].pc = pc, req'[r].user = Admin, req'[r].new = new,
           req'[r].conn = req[r].conn, pc = "provisioned" => req'[r].kek \in Keks,
           \A x \in Slots \ {r} : req'[x] = req[x],
           bypass' = bypass, proc' = proc
    PROVE  Context'
<1> DEFINE c == req[r].conn
<1>1. c \in Conns /\ ~bypass /\ Up(r) /\ PoolOf[c] = ProcessOf[r]
    BY ConnTyped DEF Context, ReqTypes, Holding
<1>2. Holding'
    BY <1>1, TenancyAssumption DEF Context, Holding, Up
<1>3. Exclusive'
    BY DEF Context, Exclusive
<1>4. ContextSet'
    <2> SUFFICES ASSUME NEW x \in Slots, req'[x].conn # None
                 PROVE  conn'[req'[x].conn].uid =
                            IF req'[x].pc \in {"provision", "provisioned"}
                            THEN req'[x].new ELSE req'[x].user
        BY DEF ContextSet
    <2>1. CASE x = r
        BY <2>1
    <2>2. CASE x # r
        <3>1. req'[x] = req[x] /\ req[x].conn # c /\ req[x].conn \in Conns
            BY <2>2, ConnTyped DEF Context, Exclusive, ReqTypes
        <3> QED BY <3>1 DEF Context, ContextSet
    <2> QED BY <2>1, <2>2
<1>5. FlagHeld'
    <2> SUFFICES ASSUME NEW d \in Conns, conn'[d].admin
                 PROVE  \E x \in Slots :
                          /\ req'[x].conn = d /\ req'[x].user = Admin
                          /\ req'[x].pc \in {"handler", "switch", "provision", "provisioned"}
        BY DEF FlagHeld
    <2>1. conn[d].admin
        BY <1>1
    <2>2. PICK x \in Slots :
            /\ req[x].conn = d /\ req[x].user = Admin
            /\ req[x].pc \in {"handler", "switch", "provision", "provisioned"}
        BY <2>1 DEF Context, FlagHeld
    <2>3. CASE x = r BY <2>2, <2>3
    <2>4. CASE x # r BY <2>2, <2>4
    <2> QED BY <2>3, <2>4
<1> QED BY <1>2, <1>3, <1>4, <1>5 DEF Context, ReqTypes, BootRefused

\* Requests that begin: a credential, a free connection, and a context.
LEMMA BeginStep ==
    ASSUME Context, TenantTypes, NEW r \in Slots, NEW u \in Users,
           GetCurrentUser(r, u) \/ Login(r, u) \/ SyncUser(r, u)
    PROVE  Context'
<1>1. req[r] = Idle /\ req[r].conn = None /\ Up(r)
    BY DEF GetCurrentUser, Login, SyncUser, Begins, Context, Holding, Idle
<1>2. ~bypass
    BY DEF GetCurrentUser, Login, SyncUser, Begins, Context, BootRefused, Up,
           AssertConnectionCannotBypassRls
<1>3. conn \in [Conns -> Settings] /\ req \in [Slots -> Request] /\ Idle \in Request
    BY StartValues DEF Context, ReqTypes
<1>4. \A c \in Free(r) : c \in Conns
    BY DEF Free
<1>5. CASE GetCurrentUser(r, u)
    <2>1. PICK c \in Free(r) :
            /\ conn' = [SetUser(c, u) EXCEPT ![c].admin = @ \/ u = Admin]
            /\ req' = [req EXCEPT ![r] = [Idle EXCEPT !.pc = "handler", !.user = u, !.conn = c]]
        BY <1>5 DEF GetCurrentUser
    <2>2. /\ conn' \in [Conns -> Settings] /\ conn'[c].uid = u
          /\ conn'[c].admin => conn[c].admin \/ u = Admin
          /\ \A d \in Conns \ {c} : conn'[d] = conn[d]
        BY <1>3, <1>4, <2>1 DEF SetUser, Settings
    <2>3. /\ req' \in [Slots -> Request] /\ req'[r].pc = "handler" /\ req'[r].user = u
          /\ req'[r].new = None /\ req'[r].conn = c
          /\ \A x \in Slots \ {r} : req'[x] = req[x]
        BY <1>3, <1>4, <2>1 DEF Request, Protected, Idle
    <2>4. bypass' = bypass /\ proc' = proc
        BY <1>5 DEF GetCurrentUser, tenants
    <2> QED BY <1>1, <1>2, <2>2, <2>3, <2>4, AcquireStep
<1>6. CASE Login(r, u)
    <2>1. PICK c \in Free(r) :
            /\ conn' = SetUser(c, u)
            /\ req' = [req EXCEPT ![r] = [Idle EXCEPT !.pc = "write", !.user = u, !.conn = c]]
        BY <1>6 DEF Login
    <2>2. /\ conn' \in [Conns -> Settings] /\ conn'[c].uid = u
          /\ conn'[c].admin => conn[c].admin
          /\ \A d \in Conns \ {c} : conn'[d] = conn[d]
        BY <1>3, <1>4, <2>1 DEF SetUser, Settings
    <2>3. /\ req' \in [Slots -> Request] /\ req'[r].pc = "write" /\ req'[r].user = u
          /\ req'[r].new = None /\ req'[r].conn = c
          /\ \A x \in Slots \ {r} : req'[x] = req[x]
        BY <1>3, <1>4, <2>1 DEF Request, Protected, Idle
    <2>4. bypass' = bypass /\ proc' = proc
        BY <1>6 DEF Login, tenants
    <2> QED BY <1>1, <1>2, <2>2, <2>3, <2>4, AcquireStep
<1>7. CASE SyncUser(r, u)
    <2>1. PICK c \in Free(r) :
            /\ conn' = SetUser(c, u)
            /\ req' = [req EXCEPT ![r] = [Idle EXCEPT !.pc = "job", !.user = u, !.conn = c]]
        BY <1>7 DEF SyncUser
    <2>2. /\ conn' \in [Conns -> Settings] /\ conn'[c].uid = u
          /\ conn'[c].admin => conn[c].admin
          /\ \A d \in Conns \ {c} : conn'[d] = conn[d]
        BY <1>3, <1>4, <2>1 DEF SetUser, Settings
    <2>3. /\ req' \in [Slots -> Request] /\ req'[r].pc = "job" /\ req'[r].user = u
          /\ req'[r].new = None /\ req'[r].conn = c
          /\ \A x \in Slots \ {r} : req'[x] = req[x]
        BY <1>3, <1>4, <2>1 DEF Request, Protected, Idle
    <2>4. bypass' = bypass /\ proc' = proc
        BY <1>7 DEF SyncUser, tenants
    <2> QED BY <1>1, <1>2, <2>2, <2>3, <2>4, AcquireStep
<1> QED BY <1>5, <1>6, <1>7

\* Requests that go on after a commit: the next transaction sets its own context.
LEMMA ResumeStep ==
    ASSUME Context, NEW r \in Slots, SetContext(r) \/ RecordFailure(r)
    PROVE  Context'
<1> DEFINE u == req[r].user
<1>1. /\ req[r].pc \in {"consumed", "failing"} /\ req[r].conn = None
      /\ u \in Users /\ ~bypass /\ Up(r) /\ req[r].new = None
    BY DEF SetContext, RecordFailure, Context, Holding
<1>2. conn \in [Conns -> Settings] /\ req \in [Slots -> Request]
    BY DEF Context, ReqTypes
<1>3. PICK c \in Free(r), pc \in {"write", "record"} :
        /\ conn' = SetUser(c, u)
        /\ req' = [req EXCEPT ![r].pc = pc, ![r].conn = c]
    BY DEF SetContext, RecordFailure
<1>4. c \in Conns
    BY DEF Free
<1>5. /\ conn' \in [Conns -> Settings] /\ conn'[c].uid = u
      /\ conn'[c].admin => conn[c].admin
      /\ \A d \in Conns \ {c} : conn'[d] = conn[d]
    BY <1>1, <1>2, <1>3, <1>4 DEF SetUser, Settings
<1>6. /\ req' \in [Slots -> Request] /\ req'[r].pc = pc /\ req'[r].user = u
      /\ req'[r].new = None /\ req'[r].conn = c
      /\ \A x \in Slots \ {r} : req'[x] = req[x]
    BY <1>1, <1>2, <1>3, <1>4 DEF Request, Protected
<1>7. bypass' = bypass /\ proc' = proc
    BY DEF SetContext, RecordFailure, tenants
<1> QED BY <1>1, <1>5, <1>6, <1>7, AcquireStep

\* Requests that end, commit or fail.
LEMMA EndStep ==
    ASSUME Context, NEW r \in Slots,
           Close(r) \/ CommitUser(r) \/ DeleteMe(r) \/ SyncFails(r)
    PROVE  Context'
<1>1. req[r].conn # None
    BY DEF Close, CommitUser, DeleteMe, SyncFails, Context, Holding
<1>2. req \in [Slots -> Request] /\ Idle \in Request
    BY StartValues DEF Context, ReqTypes
<1>3. conn' = EndTransaction(req[r].conn) /\ bypass' = bypass /\ proc' = proc
    BY DEF Close, CommitUser, DeleteMe, SyncFails, tenants
<1>4. CASE SyncFails(r)
    <2>1. /\ req' \in [Slots -> Request]
          /\ req'[r].pc = "failing" /\ req'[r].user = req[r].user
          /\ req'[r].new = req[r].new /\ req'[r].conn = None
          /\ \A x \in Slots \ {r} : req'[x] = req[x]
        BY <1>2, <1>4 DEF SyncFails, Request
    <2>2. req[r].new = None
        BY <1>4 DEF SyncFails, Context, Holding
    <2> QED BY <1>1, <1>3, <2>1, <2>2, ReleaseStep
<1>5. CASE Close(r) \/ CommitUser(r) \/ DeleteMe(r)
    <2>1. req' = [req EXCEPT ![r] = Idle]
        BY <1>5 DEF Close, CommitUser, DeleteMe
    <2>2. /\ req' \in [Slots -> Request] /\ req'[r] = Idle
          /\ \A x \in Slots \ {r} : req'[x] = req[x]
        BY <1>2, <2>1
    <2> QED BY <1>1, <1>3, <2>2, ReleaseStep
<1> QED BY <1>4, <1>5

\* create_user between the insert of the row and the insert of its key.
LEMMA CreateStep ==
    ASSUME Context, NEW r \in Slots,
           (\E u \in Users : CreateUser(r, u)) \/ SwitchContext(r) \/ ProvisionDataKey(r),
           TenantTypes
    PROVE  Context'
<1>1. conn \in [Conns -> Settings] /\ req \in [Slots -> Request]
    BY DEF Context, ReqTypes
<1>2. /\ req[r].conn # None /\ req[r].user = Admin
      /\ req[r].pc \in {"handler", "switch", "provision"}
      /\ req[r].conn \in Conns
      /\ Up(r) /\ ProcessOf[r] \in Processes
    BY <1>1, ConnTyped, TenancyAssumption
       DEF CreateUser, SwitchContext, ProvisionDataKey, Context, Holding
<1>3. CASE \E u \in Users : CreateUser(r, u)
    <2>1. PICK u \in Users : CreateUser(r, u)
        BY <1>3
    <2>2. /\ conn' = conn /\ bypass' = bypass /\ proc' = proc
          /\ req' = [req EXCEPT ![r].pc = "switch", ![r].new = u]
          /\ req[r].pc = "handler"
        BY <2>1 DEF CreateUser, tenants
    <2>3. conn[req[r].conn].uid = Admin
        BY <1>2, <2>2 DEF Context, ContextSet
    <2>4. /\ req' \in [Slots -> Request] /\ req'[r].pc = "switch" /\ req'[r].user = Admin
          /\ req'[r].new = u /\ req'[r].conn = req[r].conn
          /\ \A x \in Slots \ {r} : req'[x] = req[x]
        BY <1>1, <1>2, <2>2 DEF Request
    <2> QED BY <1>1, <1>2, <2>2, <2>3, <2>4, MoveStep
<1>4. CASE SwitchContext(r)
    <2> DEFINE new == req[r].new
    <2>1. /\ conn' = SetUser(req[r].conn, new) /\ bypass' = bypass /\ proc' = proc
          /\ req' = [req EXCEPT ![r].pc = "provision"]
          /\ new \in Users
        BY <1>4 DEF SwitchContext, tenants, Context, Holding
    <2>2. /\ conn' \in [Conns -> Settings] /\ conn'[req[r].conn].uid = new
          /\ conn'[req[r].conn].admin => conn[req[r].conn].admin
          /\ \A d \in Conns \ {req[r].conn} : conn'[d] = conn[d]
        BY <1>1, <1>2, <2>1 DEF SetUser, Settings
    <2>3. /\ req' \in [Slots -> Request] /\ req'[r].pc = "provision" /\ req'[r].user = Admin
          /\ req'[r].new = new /\ req'[r].conn = req[r].conn
          /\ \A x \in Slots \ {r} : req'[x] = req[x]
        BY <1>1, <1>2, <2>1 DEF Request, Protected
    <2> QED BY <1>2, <2>1, <2>2, <2>3, MoveStep
<1>5. CASE ProvisionDataKey(r)
    <2> DEFINE new == req[r].new
    <2>1. /\ conn' = conn /\ bypass' = bypass /\ proc' = proc
          /\ req' = [req EXCEPT ![r].pc = "provisioned", ![r].kek = proc[ProcessOf[r]]]
          /\ new \in Users /\ req[r].pc = "provision"
        BY <1>5 DEF ProvisionDataKey, tenants, Context, Holding
    <2>2. proc[ProcessOf[r]] \in Keks
        BY <1>2 DEF TenantTypes, Up
    <2>3. conn[req[r].conn].uid = new
        BY <1>2, <2>1 DEF Context, ContextSet
    <2>4. /\ req' \in [Slots -> Request] /\ req'[r].pc = "provisioned" /\ req'[r].user = Admin
          /\ req'[r].new = new /\ req'[r].conn = req[r].conn /\ req'[r].kek \in Keks
          /\ \A x \in Slots \ {r} : req'[x] = req[x]
        BY <1>1, <1>2, <2>1, <2>2 DEF Request
    <2> QED BY <1>1, <1>2, <2>1, <2>3, <2>4, MoveStep
<1> QED BY <1>3, <1>4, <1>5

\* consume_token leaves its request without a connection and without a context.
LEMMA ConsumeStep ==
    ASSUME Context, NEW r \in Slots, NEW u \in Users, ConsumeToken(r, u)
    PROVE  Context'
<1>1. /\ req[r] = Idle /\ Up(r) /\ ~bypass /\ req \in [Slots -> Request]
      /\ conn' = conn /\ bypass' = bypass /\ proc' = proc
    BY DEF ConsumeToken, Begins, Context, Holding, BootRefused, Up, tenants, ReqTypes
<1>2. /\ req' \in [Slots -> Request]
      /\ req'[r] = [Idle EXCEPT !.pc = "consumed", !.user = u]
      /\ \A x \in Slots \ {r} : req'[x] = req[x]
    BY <1>1, StartValues DEF ConsumeToken, Request
<1>3. /\ req[r].conn = None /\ req'[r].conn = None /\ req'[r].new = None
      /\ req'[r].pc = "consumed" /\ req'[r].user = u
      /\ \A x \in Slots \ {r} : req'[x] = req[x]
    BY <1>1, <1>2 DEF Idle
<1>4. Holding'
    BY <1>1, <1>3 DEF Context, Holding, Up
<1>5. Exclusive' /\ ContextSet'
    BY <1>1, <1>3 DEF Context, Exclusive, ContextSet
<1>6. FlagHeld'
    BY <1>1, <1>3, TenancyAssumption DEF Context, FlagHeld
<1> QED BY <1>1, <1>2, <1>4, <1>5, <1>6 DEF Context, ReqTypes, BootRefused

\* A boot empties the process's pool and forgets its requests; the other process and
\* its connections are untouched.
LEMMA BootStep ==
    ASSUME Context, NEW p \in Processes, Boot(p)
    PROVE  Context'
<1>1. /\ conn \in [Conns -> Settings] /\ req \in [Slots -> Request] /\ bypass' = bypass
      /\ Idle \in Request /\ Unset \in Settings
      /\ \A c \in Conns : conn'[c] = IF PoolOf[c] = p THEN Unset ELSE conn[c]
      /\ \A r \in Slots : req'[r] = IF ProcessOf[r] = p THEN Idle ELSE req[r]
      /\ conn' \in [Conns -> Settings] /\ req' \in [Slots -> Request]
    BY StartValues DEF Boot, Context, ReqTypes
<1>2. Idle.conn = None /\ Idle.pc = "idle" /\ Idle.new = None /\ Unset.admin = FALSE
    BY DEF Idle, Unset
<1>3. \A r \in Slots : ProcessOf[r] # p => (Up(r) <=> Up(r)')
    BY TenancyAssumption DEF Boot, Up
<1>4. Holding'
    BY <1>1, <1>2, <1>3 DEF Context, Holding
<1>5. Exclusive'
    BY <1>1, <1>2 DEF Context, Exclusive
<1>6. ContextSet'
    <2> SUFFICES ASSUME NEW r \in Slots, req'[r].conn # None
                 PROVE  conn'[req'[r].conn].uid =
                            IF req'[r].pc \in {"provision", "provisioned"}
                            THEN req'[r].new ELSE req'[r].user
        BY DEF ContextSet
    <2>1. ProcessOf[r] # p /\ req'[r] = req[r]
        BY <1>1, <1>2
    <2>2. req[r].conn \in Conns /\ PoolOf[req[r].conn] # p
        BY <1>1, <2>1, ConnTyped DEF Context, Holding
    <2> QED BY <1>1, <2>1, <2>2 DEF Context, ContextSet
<1>7. FlagHeld'
    <2> SUFFICES ASSUME NEW c \in Conns, conn'[c].admin
                 PROVE  \E r \in Slots :
                          /\ req'[r].conn = c /\ req'[r].user = Admin
                          /\ req'[r].pc \in {"handler", "switch", "provision", "provisioned"}
        BY DEF FlagHeld
    <2>1. PoolOf[c] # p /\ conn[c].admin
        BY <1>1, <1>2
    <2>2. PICK r \in Slots :
            /\ req[r].conn = c /\ req[r].user = Admin
            /\ req[r].pc \in {"handler", "switch", "provision", "provisioned"}
        BY <2>1 DEF Context, FlagHeld
    <2>3. ProcessOf[r] # p
        BY <2>1, <2>2, TenancyAssumption DEF Context, Holding
    <2> QED BY <1>1, <2>2, <2>3
<1>8. BootRefused'
    BY <1>1, TenancyAssumption DEF Boot, Context, BootRefused, AssertConnectionCannotBypassRls
<1> QED BY <1>1, <1>4, <1>5, <1>6, <1>7, <1>8 DEF Context, ReqTypes

\* Rotations and their configuration touch neither requests nor connections.
LEMMA FrameStep ==
    ASSUME Context, conn' = conn, req' = req, bypass' = bypass, proc' = proc
    PROVE  Context'
BY DEF Context, ReqTypes, Holding, Exclusive, ContextSet, FlagHeld, BootRefused, Up

--------------------------------------------------------------------------------
(* Accounts, keys and rotations.                                           *)

Custody == TenantTypes /\ Pending /\ OthersLate /\ KeyWithAccount /\ OnlyLateKeysLeftBehind

\* The requests' part of Pending, for steps that leave accounts and keys alone.
LEMMA QuietStep ==
    ASSUME Custody, UNCHANGED tenants,
           \A r \in Slots : req'[r].new # None => req'[r].new = req[r].new,
           \A r \in Slots : \/ req'[r].user = req[r].user
                            \/ req'[r].user = None
                            \/ account[req'[r].user] # "none"
    PROVE  Custody'
<1>1. /\ bypass' = bypass /\ account' = account /\ keys' = keys /\ env' = env
      /\ proc' = proc /\ current' = current /\ rot' = rot /\ boots' = boots
    BY DEF tenants
<1>2. TenantTypes' /\ OthersLate' /\ KeyWithAccount' /\ OnlyLateKeysLeftBehind'
    BY <1>1 DEF Custody, TenantTypes, OthersLate, KeyWithAccount,
                OnlyLateKeysLeftBehind, Stored
<1>3. Pending'
    BY <1>1 DEF Custody, Pending
<1> QED BY <1>2, <1>3 DEF Custody

\* A new user: the account and its key come into being together, and late if a
\* rotation has read its rows or the process has an older master key.
LEMMA CommitUserCustody ==
    ASSUME Context, Custody, NEW r \in Slots, CommitUser(r)
    PROVE  Custody'
<1> DEFINE u == req[r].new
<1>1. /\ u \in Users /\ u # None /\ req[r].kek \in Keks /\ req[r].kek # None
      /\ account[u] = "none" /\ u # Admin
    BY TenancyAssumption DEF CommitUser, Context, Holding, Custody, Pending
<1>2. /\ account' = [account EXCEPT ![u] = "live"]
      /\ keys' = [keys EXCEPT ![u] = [kek |-> req[r].kek,
                                      late |-> rot.pc = "read" \/ req[r].kek # current]]
      /\ bypass' = bypass /\ env' = env /\ proc' = proc /\ current' = current
      /\ rot' = rot /\ boots' = boots
    BY DEF CommitUser
<1>3. /\ req'[r].new = None /\ req'[r].user = None
      /\ \A x \in Slots \ {r} : req'[x] = req[x]
    BY DEF CommitUser, Idle, Context, ReqTypes
<1>4. TenantTypes'
    BY <1>1, <1>2 DEF Custody, TenantTypes
<1>5. /\ account' \in [Users -> {"none", "live", "gone"}] /\ account'[u] = "live"
      /\ keys'[u].kek = req[r].kek
      /\ keys'[u].late <=> (rot.pc = "read" \/ req[r].kek # current)
      /\ \A v \in Users \ {u} : account'[v] = account[v] /\ keys'[v] = keys[v]
    BY <1>1, <1>2 DEF Custody, TenantTypes
<1>6. Pending'
    <2>1. \A x \in Slots : req[x].new # None /\ x # r => req[x].new # u
        BY <1>1 DEF Custody, Pending
    <2>2. \A x \in Slots : req[x].new # None => req[x].new \in Users
        BY DEF Context, Holding
    <2>3. \A x \in Slots : req[x].user # None => req[x].user \in Users
        BY DEF Context, Holding, Idle
    <2> QED BY <1>1, <1>3, <1>5, <2>1, <2>2, <2>3, TenancyAssumption DEF Custody, Pending
<1>7. KeyWithAccount'
    BY <1>1, <1>5 DEF Custody, KeyWithAccount
<1>8. OthersLate'
    BY <1>2, <1>5 DEF Custody, OthersLate, Stored
<1>9. OnlyLateKeysLeftBehind'
    BY <1>2, <1>5 DEF Custody, OnlyLateKeysLeftBehind, Stored
<1> QED BY <1>4, <1>6, <1>7, <1>8, <1>9 DEF Custody

\* A deletion takes the key with the account.
LEMMA DeleteCustody ==
    ASSUME Context, Custody, NEW r \in Slots, DeleteMe(r)
    PROVE  Custody'
<1> DEFINE u == req[r].user
<1>1. u \in Users /\ NoKey.kek = None /\ NoKey \in [kek : Keks \cup {None}, late : BOOLEAN]
    BY StartValues DEF DeleteMe, Context, Holding, NoKey
<1>2. /\ account' = [account EXCEPT ![u] = "gone"] /\ keys' = [keys EXCEPT ![u] = NoKey]
      /\ bypass' = bypass /\ env' = env /\ proc' = proc /\ current' = current
      /\ rot' = rot /\ boots' = boots
    BY DEF DeleteMe
<1>3. /\ req'[r].new = None /\ req'[r].user = None
      /\ \A x \in Slots \ {r} : req'[x] = req[x]
    BY DEF DeleteMe, Idle, Context, ReqTypes
<1>4. TenantTypes'
    BY <1>1, <1>2 DEF Custody, TenantTypes
<1>5. /\ account'[u] = "gone" /\ account[u] # "none" /\ keys'[u].kek = None
      /\ \A v \in Users \ {u} : account'[v] = account[v] /\ keys'[v] = keys[v]
    BY <1>1, <1>2, TenancyAssumption DEF Custody, TenantTypes, Pending
<1>6. Pending'
    <2>1. \A x \in Slots : req[x].new # None => req[x].new \in Users \ {u}
        BY <1>5 DEF Context, Holding, Custody, Pending
    <2>2. \A x \in Slots : req[x].user # None => req[x].user \in Users
        BY DEF Context, Holding, Idle
    <2> QED BY <1>3, <1>5, <2>1, <2>2, TenancyAssumption DEF Custody, Pending
<1>7. KeyWithAccount'
    BY <1>5 DEF Custody, KeyWithAccount
<1>8. OthersLate' /\ OnlyLateKeysLeftBehind'
    BY <1>2, <1>5 DEF Custody, OthersLate, OnlyLateKeysLeftBehind, Stored
<1> QED BY <1>4, <1>6, <1>7, <1>8 DEF Custody

\* Starting, committing and abandoning a rotation, and configuring its key.
LEMMA RotationCustody ==
    ASSUME Context, Custody,
           (\E old \in Keks : RotateRead(old)) \/ RotateCommit \/ RotateAbort \/ Configure
    PROVE  Custody'
<1>1. /\ req' = req /\ account' = account /\ bypass' = bypass /\ proc' = proc
      /\ boots' = boots
    BY DEF RotateRead, RotateCommit, RotateAbort, Configure
<1>2. Pending'
    BY <1>1 DEF Custody, Pending
<1>3. CASE \E old \in Keks : RotateRead(old)
    <2>1. /\ rot' = [pc |-> "read", rows |-> Stored, new |-> current + 1]
          /\ keys' = keys /\ current' = current /\ env' = env
          /\ current < MaxKek
        BY <1>3 DEF RotateRead
    <2>2. current + 1 \in Keks
        BY <2>1, TenancyAssumption DEF Custody, TenantTypes, Keks
    <2>3. Stored \subseteq Users
        BY DEF Stored
    <2>4. TenantTypes'
        BY <1>1, <2>1, <2>2, <2>3 DEF Custody, TenantTypes
    <2>5. OthersLate'
        BY <2>1, <2>2 DEF OthersLate, Stored
    <2> QED BY <1>1, <1>2, <2>1, <2>4, <2>5
            DEF Custody, KeyWithAccount, OnlyLateKeysLeftBehind, Stored
<1>4. CASE RotateCommit
    <2>1. /\ rot.pc = "read" /\ rot.new \in Keks /\ rot.new # None
          /\ current' = rot.new /\ rot' = NoRotation /\ env' = env
          /\ NoRotation.pc = "idle"
        BY <1>4, TenancyAssumption DEF RotateCommit, Custody, OthersLate, NoRotation
    <2>2. keys' = [u \in Users |-> IF u \in rot.rows \cap Stored
                                   THEN [kek |-> rot.new, late |-> FALSE] ELSE keys[u]]
        BY <1>4 DEF RotateCommit
    <2>3. TenantTypes'
        BY <1>1, <2>1, <2>2, StartValues DEF Custody, TenantTypes
    <2>4. OthersLate'
        BY <2>1 DEF OthersLate
    <2>5. \A u \in Users : keys'[u].kek = None <=> keys[u].kek = None
        BY <2>1, <2>2 DEF Stored
    <2>6. KeyWithAccount'
        BY <1>1, <2>5 DEF Custody, KeyWithAccount
    <2>7. OnlyLateKeysLeftBehind'
        BY <2>1, <2>2, <2>5 DEF Custody, OthersLate, OnlyLateKeysLeftBehind, Stored
    <2> QED BY <1>2, <2>3, <2>4, <2>6, <2>7 DEF Custody
<1>5. CASE RotateAbort \/ Configure
    <2>1. /\ keys' = keys /\ current' = current
          /\ rot' = rot \/ rot' = NoRotation
          /\ env' = env \/ env' = current
          /\ NoRotation.pc = "idle"
        BY <1>5 DEF RotateAbort, Configure, NoRotation
    <2>2. TenantTypes'
        BY <1>1, <2>1, StartValues DEF Custody, TenantTypes
    <2>3. OthersLate'
        BY <2>1 DEF Custody, OthersLate, Stored
    <2> QED BY <1>1, <1>2, <2>1, <2>2, <2>3
            DEF Custody, KeyWithAccount, OnlyLateKeysLeftBehind, Stored
<1> QED BY <1>3, <1>4, <1>5

\* A boot only brings the configured key to its process.
LEMMA BootCustody ==
    ASSUME Context, Custody, NEW p \in Processes, Boot(p)
    PROVE  Custody'
<1>1. /\ bypass' = bypass /\ account' = account /\ keys' = keys /\ env' = env
      /\ current' = current /\ rot' = rot /\ boots' = boots + 1 /\ boots < MaxBoots
      /\ \E k \in {None, env} : proc' = [proc EXCEPT ![p] = k]
      /\ \A r \in Slots : req'[r] = Idle \/ req'[r] = req[r]
    BY DEF Boot
<1>2. TenantTypes'
    BY <1>1, TenancyAssumption DEF Custody, TenantTypes
<1>3. Idle.new = None /\ Idle.user = None
    BY DEF Idle
<1>4. Pending'
    BY <1>1, <1>3 DEF Custody, Pending
<1> QED BY <1>1, <1>2, <1>4
        DEF Custody, OthersLate, KeyWithAccount, OnlyLateKeysLeftBehind, Stored

\* The row create_user has flushed: a name nobody has and nobody else is creating.
LEMMA CreateCustody ==
    ASSUME Context, Custody, NEW r \in Slots, NEW u \in Users, CreateUser(r, u)
    PROVE  Custody'
<1>1. /\ account[u] = "none" /\ \A x \in Slots : req[x].new # u
      /\ UNCHANGED tenants
    BY DEF CreateUser
<1>2. /\ req'[r].new = u /\ req'[r].user = req[r].user
      /\ \A x \in Slots \ {r} : req'[x] = req[x]
    BY DEF CreateUser, Context, ReqTypes, Request
<1>3. Pending'
    <2>1. account' = account
        BY <1>1 DEF tenants
    <2> QED BY <1>1, <1>2, <2>1 DEF Custody, Pending
<1>4. TenantTypes' /\ OthersLate' /\ KeyWithAccount' /\ OnlyLateKeysLeftBehind'
    BY <1>1 DEF Custody, TenantTypes, OthersLate, KeyWithAccount,
                OnlyLateKeysLeftBehind, Stored, tenants
<1> QED BY <1>3, <1>4 DEF Custody

\* Steps of requests that write no account and no key.
LEMMA RequestCustody ==
    ASSUME Context, Custody, NEW r \in Slots,
           \/ Close(r) \/ SwitchContext(r) \/ ProvisionDataKey(r)
           \/ SetContext(r) \/ SyncFails(r) \/ RecordFailure(r)
           \/ \E u \in Users : \/ GetCurrentUser(r, u) \/ ConsumeToken(r, u)
                               \/ Login(r, u) \/ SyncUser(r, u)
    PROVE  Custody'
<1>1. UNCHANGED tenants
    BY DEF Close, SwitchContext, ProvisionDataKey, SetContext, SyncFails, RecordFailure,
           GetCurrentUser, ConsumeToken, Login, SyncUser
<1>2. req \in [Slots -> Request] /\ Idle.new = None /\ Idle.user = None
    BY DEF Context, ReqTypes, Idle
<1>3. CASE Close(r) \/ SwitchContext(r) \/ ProvisionDataKey(r)
           \/ SetContext(r) \/ SyncFails(r) \/ RecordFailure(r)
    <2>1. \A x \in Slots : /\ req'[x].new = req[x].new \/ req'[x].new = None
                           /\ req'[x].user = req[x].user \/ req'[x].user = None
        BY <1>2, <1>3 DEF Close, SwitchContext, ProvisionDataKey, SetContext, SyncFails,
                          RecordFailure, Request
    <2> QED BY <1>1, <2>1, QuietStep
<1>4. CASE \E u \in Users : \/ GetCurrentUser(r, u) \/ ConsumeToken(r, u)
                            \/ Login(r, u) \/ SyncUser(r, u)
    <2>1. PICK u \in Users : \/ GetCurrentUser(r, u) \/ ConsumeToken(r, u)
                             \/ Login(r, u) \/ SyncUser(r, u)
        BY <1>4
    <2>2. account[u] # "none"
        BY <2>1 DEF GetCurrentUser, ConsumeToken, Login, SyncUser
    <2>3. /\ req'[r].new = None /\ req'[r].user = u
          /\ \A x \in Slots \ {r} : req'[x] = req[x]
        <3>1. CASE ConsumeToken(r, u) BY <1>2, <3>1 DEF ConsumeToken, Idle
        <3>2. CASE GetCurrentUser(r, u) BY <1>2, <3>2 DEF GetCurrentUser, Idle
        <3>3. CASE Login(r, u) BY <1>2, <3>3 DEF Login, Idle
        <3>4. CASE SyncUser(r, u) BY <1>2, <3>4 DEF SyncUser, Idle
        <3> QED BY <2>1, <3>1, <3>2, <3>3, <3>4
    <2> QED BY <1>1, <2>2, <2>3, QuietStep
<1> QED BY <1>3, <1>4

--------------------------------------------------------------------------------
(* The inductive invariant and what follows from it.                       *)

IInv == Context /\ Custody

\* The invariant holds after create_admin and before any process has booted.
LEMMA IInvInit == Init => IInv
<1> SUFFICES ASSUME Init PROVE IInv
    OBVIOUS
<1>1. /\ Idle.pc = "idle" /\ Idle.conn = None /\ Idle.new = None /\ Idle.user = None
      /\ Unset.admin = FALSE /\ NoKey.kek = None /\ NoRotation.pc = "idle"
    BY DEF Idle, Unset, NoKey, NoRotation
<1>2. /\ ReqTypes /\ bypass \in BOOLEAN
      /\ \A r \in Slots : req[r] = Idle
      /\ \A c \in Conns : conn[c] = Unset
    BY StartValues DEF Init, ReqTypes
<1>3. Context
    BY <1>1, <1>2 DEF Context, Holding, Exclusive, ContextSet, FlagHeld, BootRefused,
                      Init, Processes
<1>4. TenantTypes
    BY StartValues, TenancyAssumption DEF Init, TenantTypes, Keks
<1>5. /\ \A u \in Users : keys[u] = NoKey
      /\ \A u \in Users : account[u] = "live" <=> u = Admin
      /\ account[Admin] = "live" /\ rot = NoRotation
    BY TenancyAssumption DEF Init
<1>6. Pending /\ OthersLate /\ KeyWithAccount /\ OnlyLateKeysLeftBehind
    BY <1>1, <1>2, <1>5 DEF Pending, OthersLate, KeyWithAccount, OnlyLateKeysLeftBehind, Stored
<1> QED BY <1>3, <1>4, <1>6 DEF IInv, Custody

\* Every step of the web process, the worker and the operator keeps the invariant.
LEMMA IInvNext == IInv /\ [Next]_vars => IInv'
<1> SUFFICES ASSUME Context, Custody, TenantTypes, [Next]_vars PROVE Context' /\ Custody'
    BY DEF IInv, Custody
<1>1. CASE UNCHANGED vars
    <2>1. conn' = conn /\ req' = req /\ bypass' = bypass /\ proc' = proc /\ UNCHANGED tenants
        BY <1>1 DEF vars, tenants
    <2> QED BY <2>1, FrameStep, QuietStep
<1>2. ASSUME NEW p \in Processes, Boot(p) PROVE Context' /\ Custody'
    BY <1>2, BootStep, BootCustody
<1>3. ASSUME NEW r \in Slots, CommitUser(r) PROVE Context' /\ Custody'
    BY <1>3, EndStep, CommitUserCustody
<1>4. ASSUME NEW r \in Slots, DeleteMe(r) PROVE Context' /\ Custody'
    BY <1>4, EndStep, DeleteCustody
<1>5. ASSUME NEW r \in Slots, Close(r) \/ SyncFails(r) PROVE Context' /\ Custody'
    BY <1>5, EndStep, RequestCustody
<1>6. ASSUME NEW r \in Slots, SwitchContext(r) \/ ProvisionDataKey(r)
      PROVE  Context' /\ Custody'
    BY <1>6, CreateStep, RequestCustody
<1>7. ASSUME NEW r \in Slots, SetContext(r) \/ RecordFailure(r) PROVE Context' /\ Custody'
    BY <1>7, ResumeStep, RequestCustody
<1>8. ASSUME NEW r \in Slots, NEW u \in Users, CreateUser(r, u) PROVE Context' /\ Custody'
    BY <1>8, CreateStep, CreateCustody
<1>9. ASSUME NEW r \in Slots, NEW u \in Users, ConsumeToken(r, u) PROVE Context' /\ Custody'
    BY <1>9, ConsumeStep, RequestCustody
<1>10. ASSUME NEW r \in Slots, NEW u \in Users,
              GetCurrentUser(r, u) \/ Login(r, u) \/ SyncUser(r, u)
       PROVE  Context' /\ Custody'
    BY <1>10, BeginStep, RequestCustody
<1>11. CASE (\E old \in Keks : RotateRead(old)) \/ RotateCommit \/ RotateAbort \/ Configure
    <2>1. conn' = conn /\ req' = req /\ bypass' = bypass /\ proc' = proc
        BY <1>11 DEF RotateRead, RotateCommit, RotateAbort, Configure
    <2> QED BY <1>11, <2>1, FrameStep, RotationCustody
<1> QED BY <1>1, <1>2, <1>3, <1>4, <1>5, <1>6, <1>7, <1>8, <1>9, <1>10, <1>11 DEF Next

\* The inductive invariant.
THEOREM SpecIInv == Spec => []IInv
BY IInvInit, IInvNext, PTL DEF Spec

\* The columns, settings and requests keep their types.
THEOREM SpecTypeOK == Spec => []TypeOK
<1>1. IInv => TypeOK
    BY TypeParts DEF IInv, Context, Custody
<1> QED BY <1>1, SpecIInv, PTL

\* D2-08, D3-18: a statement on a table with a policy sees exactly the rows of the
\* user the request acts for, over any pool and any number of commits and boots.
THEOREM SpecOwnRowsOnly == Spec => []OwnRowsOnly
<1>1. ASSUME IInv, NEW r \in Slots, req[r].pc \in Protected
      PROVE  UserIsolation(req[r].conn) = {Subject(r)}
    <2>1. /\ req[r].conn # None /\ ~bypass /\ Subject(r) \in Users
          /\ conn[req[r].conn].uid = Subject(r)
        BY <1>1 DEF IInv, Context, Holding, ContextSet, Subject, Protected
    <2> QED BY <2>1 DEF UserIsolation
<1>2. IInv => OwnRowsOnly
    BY <1>1 DEF OwnRowsOnly
<1> QED BY <1>2, SpecIInv, PTL

\* The admin clause of the users policy is never open to another request than one the
\* admin authenticated.
THEOREM SpecAccountsOfOthersForAdmin == Spec => []AccountsOfOthersForAdmin
<1>1. ASSUME IInv, NEW r \in Slots, req[r].conn # None
      PROVE  \/ SelfOrAdmin(req[r].conn) \subseteq {Subject(r)}
             \/ /\ req[r].user = Admin
                /\ req[r].pc \in {"handler", "switch", "provision", "provisioned"}
    <2>1. req[r].conn \in Conns
        BY <1>1, ConnTyped DEF IInv, Context, ReqTypes
    <2>2. CASE conn[req[r].conn].admin
        BY <1>1, <2>1, <2>2 DEF IInv, Context, FlagHeld, Exclusive
    <2>3. CASE ~conn[req[r].conn].admin
        <3>1. ~bypass /\ conn[req[r].conn].uid =
                IF req[r].pc \in {"provision", "provisioned"} THEN req[r].new ELSE req[r].user
            BY <1>1 DEF IInv, Context, Holding, ContextSet
        <3>2. CASE req[r].pc = "provisioned"
            BY <1>1, <3>2 DEF IInv, Context, Holding
        <3>3. CASE req[r].pc # "provisioned"
            BY <2>3, <3>1, <3>3 DEF SelfOrAdmin, UserIsolation, Subject
        <3> QED BY <3>2, <3>3
    <2> QED BY <2>2, <2>3
<1>2. IInv => AccountsOfOthersForAdmin
    BY <1>1 DEF AccountsOfOthersForAdmin
<1> QED BY <1>2, SpecIInv, PTL

\* CRYPT-01, AUTH-06: a key exists exactly as long as the account it was made for.
THEOREM SpecKeyWithAccount == Spec => []KeyWithAccount
<1>1. IInv => KeyWithAccount
    BY DEF IInv, Custody
<1> QED BY <1>1, SpecIInv, PTL

\* D3-06: a rotation leaves no key behind but the late ones.
THEOREM SpecOnlyLateKeysLeftBehind == Spec => []OnlyLateKeysLeftBehind
<1>1. IInv => OnlyLateKeysLeftBehind
    BY DEF IInv, Custody
<1> QED BY <1>1, SpecIInv, PTL
================================================================================
