---------------------------------- MODULE Api ----------------------------------
(***************************************************************************)
(* One API process serving the endpoints that do not trade: POST auth/login,*)
(* GET auth/me, the paged lists of orders, runs, audit logs and             *)
(* reconciliations, GET admin/system/status and GET ready.                  *)
(*                                                                         *)
(* Their handlers and the dependency require_role are plain functions, so   *)
(* each runs on a worker thread of the server, one after the other, and a   *)
(* request that needs the database takes a connection from the engine's     *)
(* pool.  The session keeps that connection until the request is over; the  *)
(* readiness probe opens a session of its own.  A client pages through one  *)
(* list, asking for the next offset until a page comes back short.          *)
(***************************************************************************)
EXTENDS Access, Paging

CONSTANTS
    Clients,
    Uses,      \* the endpoints each client calls
    Key,       \* the X-API-Key each client sends, None for nothing
    SeededRole,\* the role each user is created with
    Kept,      \* the token each client has from before, None for none
    PoolSize,  \* connections the engine's pool may open
    Threads,   \* worker threads for plain functions
    Limit,     \* the page size clients ask for
    Times,     \* values of created_at
    Budgets    \* bounds: rows inserted, accounts edited and ticks, together

Endpoints == {"login", "me", "list", "status", "ready"}

ASSUME ServerAssumption ==
    /\ IsFiniteSet(Clients)
    /\ Uses \in [Clients -> SUBSET Endpoints]
    /\ SeededRole \in [Users -> Roles]
    /\ Kept \in [Clients -> Token \cup {None}]
    /\ PoolSize \in Nat \ {0} /\ Threads \in Nat \ {0} /\ Limit \in Nat \ {0}
    /\ Times \subseteq Nat
    /\ Budgets \subseteq [rows: Nat, edits: Nat, ticks: Nat]

\* The roles each guarded endpoint lets in.
Allowed == [list |-> {"OPERATOR", "ADMIN"}, status |-> {"ADMIN"}]

Row == [id: Nat, at: Times]
Labels == {"idle", "arrived", "lookup", "admitted", "count", "page",
           "probe", "select", "ping", "answered"}

\* A query that raises answers 500, or is reported by the probe; the exception
\* says whether the database failed or the pool refused a connection.
Refused == {"error_refused", "database_refused"}
Raised == {"error_failed", "database_failed"} \cup Refused
Replies == {"none", "ok", "bad_request", "unauthorized", "forbidden", "redis_down"} \cup Raised

VARIABLES
    pc,     \* where the request of each client is
    to,     \* the endpoint it asks for, with the client's token and key
    token,  \* the token each client keeps
    grant,  \* the role require_role returned, and what it came from
    conns,  \* connections out of the pool: <<client, "session" or "probe">>
    total,  \* the count a list request has read
    page,   \* the rows it has read
    reply,  \* what it is answered
    rows,   \* the listed table
    budget, \* what may still happen around the server
    \* Ghosts: what the properties remember.
    held,   \* what the user of its live token has been since it was sent
    walk    \* each client's list: the next offset, and the rows that were there
            \* when it began and that no page has shown yet

requestVars == <<pc, to, grant, total, page, reply, held>>
aroundVars == <<accounts, clock, budget>>
vars == <<requestVars, token, conns, rows, walk, aroundVars>>

NewWalk == [offset |-> 0, left |-> rows, over |-> FALSE]

Init ==
    /\ accounts = [user \in Users |-> [role |-> SeededRole[user], active |-> TRUE]]
    /\ clock = 0
    /\ budget \in Budgets
    /\ pc = [c \in Clients |-> "idle"]
    /\ to = [c \in Clients |-> None]
    /\ token = Kept
    /\ grant = [c \in Clients |-> None]
    /\ conns = {}
    /\ total = [c \in Clients |-> 0]
    /\ page = [c \in Clients |-> {}]
    /\ reply = [c \in Clients |-> "none"]
    /\ rows = {}
    /\ held = [c \in Clients |-> {}]
    /\ walk = [c \in Clients |-> NewWalk]

-----------------------------------------------------------------------------
(* Threads, connections and answers.                                       *)

OnThread == {"lookup", "count", "page", "probe", "select", "ping"}
ThreadFree == Cardinality({c \in Clients : pc[c] \in OnThread}) < Threads
PoolFree == Cardinality(conns) < PoolSize

Goto(c, label) == pc' = [pc EXCEPT ![c] = label]
Answer(c, answer) == Goto(c, "answered") /\ reply' = [reply EXCEPT ![c] = answer]

\* The request's session has a connection, or takes one at its first query.
UseSession(c) ==
    /\ <<c, "session">> \in conns \/ PoolFree
    /\ conns' = conns \cup {<<c, "session">>}

\* What the row of a user says he is, "inactive" if nothing.
Standing(row) == IF row.active THEN row.role ELSE "inactive"

-----------------------------------------------------------------------------
(* A client sends a request, with the token and the key it has.             *)

Send(c) ==
    /\ pc[c] = "idle"
    /\ \E e \in Uses[c] :
        /\ to' = [to EXCEPT ![c] = e]
        /\ held' = [held EXCEPT ![c] =
               IF e \in DOMAIN Allowed /\ Decodes(token[c])
               THEN {Standing(accounts[token[c].sub])} ELSE {}]
        /\ walk' = IF e = "list" /\ walk[c].over THEN [walk EXCEPT ![c] = NewWalk] ELSE walk
    /\ Goto(c, "arrived")
    /\ UNCHANGED <<token, grant, conns, total, page, reply, rows, aroundVars>>

\* The end of require_role.
Admit(c, bearerRole) ==
    LET g == Grant(bearerRole, Key[c])
    IN  IF g.role = None THEN Answer(c, "unauthorized") /\ grant' = grant
        ELSE IF g.role \notin Allowed[to[c]] THEN Answer(c, "forbidden") /\ grant' = grant
        ELSE Goto(c, "admitted") /\ grant' = [grant EXCEPT ![c] = g] /\ reply' = reply

\* A thread for require_role, or for the handler when there is no such
\* dependency.  Whoever takes a bearer decodes the token first; GET auth/me has
\* no key to fall back on.
StartDependency(c) ==
    /\ pc[c] = "arrived"
    /\ ThreadFree
    /\ IF to[c] = "ready" THEN Goto(c, "probe") /\ UNCHANGED <<grant, reply>>
       ELSE IF to[c] = "login" \/ Decodes(token[c]) THEN Goto(c, "lookup") /\ UNCHANGED <<grant, reply>>
       ELSE IF to[c] = "me" THEN Answer(c, "unauthorized") /\ grant' = grant
       ELSE Admit(c, None)
    /\ UNCHANGED <<to, total, page, held, token, conns, rows, walk, aroundVars>>

\* get_by_username and verify_password: a name and password that fit, or not.
Login(c) ==
    /\ pc[c] = "lookup" /\ to[c] = "login"
    /\ UseSession(c)
    /\ \/ \E user \in Users :
             /\ ActiveAccount(user) # None
             /\ token' = [token EXCEPT ![c] = IssueToken(user)]
             /\ Answer(c, "ok")
       \/ Answer(c, "bad_request") /\ token' = token
    /\ UNCHANGED <<to, grant, total, page, held, rows, walk, aroundVars>>

\* get_by_username for a bearer.
LookupBearer(c) ==
    /\ pc[c] = "lookup" /\ to[c] # "login"
    /\ UseSession(c)
    /\ LET account == ActiveAccount(token[c].sub)
       IN  IF to[c] = "me"
           THEN Answer(c, IF account = None THEN "unauthorized" ELSE "ok") /\ grant' = grant
           ELSE Admit(c, RoleOfBearer(token[c], account))
    /\ UNCHANGED <<to, total, page, held, token, rows, walk, aroundVars>>

\* A thread for the handler of a guarded endpoint.
StartHandler(c) ==
    /\ pc[c] = "admitted"
    /\ ThreadFree
    /\ Goto(c, IF to[c] = "list" THEN "count" ELSE "probe")
    /\ UNCHANGED <<to, grant, total, page, reply, held, token, conns, rows, walk, aroundVars>>

-----------------------------------------------------------------------------
(* The lists: a count, then the page, each a statement of its own.          *)

CountRows(c) ==
    /\ pc[c] = "count"
    /\ UseSession(c)
    /\ total' = [total EXCEPT ![c] = Cardinality(rows)]
    /\ Goto(c, "page")
    /\ UNCHANGED <<to, grant, page, reply, held, token, rows, walk, aroundVars>>

\* Mutant: offsets count from one.
PagesFromOne(offset) == Pages(rows, offset + 1, Limit)
PagesAt(offset) == Pages(rows, offset, Limit)

FetchPage(c) ==
    /\ pc[c] = "page"
    /\ \E items \in PagesAt(walk[c].offset) : page' = [page EXCEPT ![c] = items]
    /\ Answer(c, "ok")
    /\ UNCHANGED <<to, grant, total, held, token, conns, rows, walk, aroundVars>>

-----------------------------------------------------------------------------
(* get_system_status: SELECT 1 on a connection of its own, then PING.       *)

OpenProbe(c) ==
    /\ pc[c] = "probe"
    /\ PoolFree
    /\ conns' = conns \cup {<<c, "probe">>}
    /\ Goto(c, "select")
    /\ UNCHANGED <<to, grant, total, page, reply, held, token, rows, walk, aroundVars>>

SelectOne(c) ==
    /\ pc[c] = "select"
    /\ conns' = conns \ {<<c, "probe">>}
    /\ Goto(c, "ping")
    /\ UNCHANGED <<to, grant, total, page, reply, held, token, rows, walk, aroundVars>>

PingRedis(c) ==
    /\ pc[c] = "ping"
    /\ \E answer \in {"ok", "redis_down"} :
           Answer(c, IF reply[c] = "none" THEN answer ELSE reply[c])
    /\ UNCHANGED <<to, grant, total, page, held, token, conns, rows, walk, aroundVars>>

-----------------------------------------------------------------------------
(* What can go wrong, and the end of a request.                             *)

\* The exception of a query: the probe reports it, anything else answers 500.
QueryRaises(c, reported, raised) ==
    IF pc[c] \in {"probe", "select"}
    THEN Goto(c, "ping") /\ reply' = [reply EXCEPT ![c] = reported]
    ELSE Answer(c, raised)

\* Mutant: a request that is refused a connection asks again, without end.
AskAgain(c) ==
    /\ pc[c] \in {"lookup", "count", "probe"}
    /\ ~PoolFree
    /\ UNCHANGED vars

\* The pool gave out no connection in time.
ConnectionTimeout(c) ==
    /\ pc[c] \in {"lookup", "count", "probe"}
    /\ ~PoolFree
    /\ pc[c] = "probe" \/ <<c, "session">> \notin conns
    /\ QueryRaises(c, "database_refused", "error_refused")
    /\ UNCHANGED <<to, grant, total, page, held, token, conns, rows, walk, aroundVars>>

DatabaseFails(c) ==
    /\ \/ pc[c] \in {"lookup", "count"} /\ UseSession(c)
       \/ pc[c] = "page" /\ conns' = conns
       \/ pc[c] = "select" /\ conns' = conns \ {<<c, "probe">>}
    /\ QueryRaises(c, "database_failed", "error_failed")
    /\ UNCHANGED <<to, grant, total, page, held, token, rows, walk, aroundVars>>

\* Mutant: get_db_session closes the session only when nothing was raised.
ReleaseUnlessRaised(c) ==
    IF reply[c] \in {"error_failed", "error_refused"} THEN conns ELSE conns \ {<<c, "session">>}

\* The finally block of get_db_session.
Release(c) == conns \ {<<c, "session">>}

\* The client's next step in its list.
Advance(w, items) ==
    [offset |-> w.offset + Limit,
     left |-> w.left \ items,
     over |-> Cardinality(items) < Limit]

Close(c) ==
    /\ pc[c] = "answered"
    /\ conns' = Release(c)
    /\ walk' = IF to[c] = "list" /\ reply[c] = "ok"
               THEN [walk EXCEPT ![c] = Advance(@, page[c])] ELSE walk
    /\ Goto(c, "idle")
    /\ to' = [to EXCEPT ![c] = None]
    /\ grant' = [grant EXCEPT ![c] = None]
    /\ total' = [total EXCEPT ![c] = 0]
    /\ page' = [page EXCEPT ![c] = {}]
    /\ reply' = [reply EXCEPT ![c] = "none"]
    /\ held' = [held EXCEPT ![c] = {}]
    /\ UNCHANGED <<token, rows, aroundVars>>

-----------------------------------------------------------------------------
(* Around the server.                                                       *)

Spend(what) ==
    /\ budget[what] > 0
    /\ budget' = [budget EXCEPT ![what] = @ - 1]

\* A row is committed.  Its created_at is the start of its transaction, so it
\* may be older than rows that are already there.
InsertRow ==
    /\ Spend("rows")
    /\ \E at \in Times : rows' = rows \cup {[id |-> Cardinality(rows) + 1, at |-> at]}
    /\ UNCHANGED <<requestVars, token, conns, walk, accounts, clock>>

EditUser(user) ==
    /\ Spend("edits")
    /\ EditAccount(user)
    /\ held' = [c \in Clients |->
           IF held[c] # {} /\ token[c].sub = user
           THEN held[c] \cup {Standing(accounts'[user])} ELSE held[c]]
    /\ UNCHANGED <<pc, to, grant, total, page, reply, token, conns, rows, walk>>

ClockTicks ==
    /\ Spend("ticks")
    /\ Tick
    /\ UNCHANGED <<requestVars, token, conns, rows, walk>>

TakeThread(c) == StartDependency(c) \/ StartHandler(c)

Run(c) ==
    \/ Login(c) \/ LookupBearer(c)
    \/ CountRows(c) \/ FetchPage(c)
    \/ OpenProbe(c) \/ SelectOne(c) \/ PingRedis(c)
    \/ ConnectionTimeout(c) \/ Close(c)

Next ==
    \/ \E c \in Clients : Send(c) \/ TakeThread(c) \/ Run(c) \/ DatabaseFails(c)
    \/ \E user \in Users : EditUser(user)
    \/ InsertRow \/ ClockTicks

\* A thread that has work does it, and waiting for a thread is first come,
\* first served, so nobody is passed over for ever.
Fairness == \A c \in Clients : WF_vars(Run(c)) /\ SF_vars(TakeThread(c))

Spec == Init /\ [][Next]_vars /\ Fairness

-----------------------------------------------------------------------------
(* Properties.                                                              *)

\* The type of the state.
TypeOK ==
    /\ accounts \in [Users -> Account]
    /\ clock \in Nat
    /\ budget \in [rows: Nat, edits: Nat, ticks: Nat]
    /\ pc \in [Clients -> Labels]
    /\ to \in [Clients -> Endpoints \cup {None}]
    /\ token \in [Clients -> Token \cup {None}]
    /\ grant \in [Clients -> [role: Roles, by: {"user", "key"}] \cup {None}]
    /\ conns \subseteq Clients \X {"session", "probe"}
    /\ total \in [Clients -> Nat]
    /\ page \in [Clients -> SUBSET Row]
    /\ reply \in [Clients -> Replies]
    /\ rows \subseteq Row
    /\ held \in [Clients -> SUBSET (Roles \cup {"inactive"})]
    /\ walk \in [Clients -> [offset: Nat, left: SUBSET Row, over: BOOLEAN]]

\* A role a bearer is served with is one his user really had, active, at some
\* moment since the request was sent with a token that was alive then, whatever
\* role the token was signed with: a demotion counts from the next request on.
BearerServesAsHeld ==
    \A c \in Clients : grant[c] # None /\ grant[c].by = "user" => grant[c].role \in held[c]

\* A request is served by its key only if its bearer could not be: no token, an
\* expired one, or a user who was inactive at some moment since it was sent.
\* A key never lifts a request above the active user it speaks for.
KeyServesOnlyAlone ==
    \A c \in Clients : grant[c] # None /\ grant[c].by = "key" =>
        \/ token[c] = None
        \/ token[c].exp < clock
        \/ "inactive" \in held[c]

\* A list answer with fewer rows than its limit reached the end: its rows and
\* the ones skipped make up at least the total it reports, although the total
\* was counted before the page was read.
ShortPageIsLast ==
    \A c \in Clients :
        pc[c] = "answered" /\ to[c] = "list" /\ reply[c] = "ok"
            /\ Cardinality(page[c]) < Limit
        => total[c] =< walk[c].offset + Cardinality(page[c])

\* A client that pages to the end has seen every row that was there when it
\* began, whatever was inserted meanwhile, if no two rows share a created_at.
WalkMissesNothing ==
    \A c \in Clients : walk[c].over /\ DistinctTimes(rows) => walk[c].left = {}

\* A request is refused a connection, and the probe blames the database for
\* it, only when enough other requests are open to hold the whole pool: each
\* has a session and, at most, a probe, and the request its own session.
RefusedOnlyInACrowd ==
    [][\A c \in Clients :
         reply[c] = "none" /\ reply'[c] \in Refused
         => PoolSize =< 1 + 2 * Cardinality({d \in Clients \ {c} : pc[d] # "idle"})]_vars

\* Every request is answered and closed, though requests wait for threads and
\* connections that other waiting requests hold.
EveryRequestEnds == \A c \in Clients : pc[c] # "idle" ~> pc[c] = "idle"
=============================================================================
