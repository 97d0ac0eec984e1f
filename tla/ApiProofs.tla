------------------------------ MODULE ApiProofs ------------------------------
(* Who is served as whom, and what pages show, for any clients, users, keys, *)
(* tokens, threads, connections and rows.                                    *)
EXTENDS Api, FiniteSetTheorems, TLAPS

USE DEF requestVars, aroundVars, vars

\* The steps of a request, and what a user whose token it carries is.
Standings == Roles \cup {"inactive"}
Grants == [role: Roles, by: {"user", "key"}] \cup {None}

TypeInv == TypeOK /\ IsFiniteSet(rows)

-----------------------------------------------------------------------------
(* Pages of any set of rows: what a page of a growing table can leave out.  *)

\* The leading rows are at most as many as asked for, and all if fewer.
LEMMA LeadingCounts ==
    ASSUME NEW S, IsFiniteSet(S), NEW n \in Nat, NEW T \in Leading(S, n)
    PROVE  /\ T \subseteq S
           /\ IsFiniteSet(T)
           /\ Cardinality(T) \in Nat
           /\ Cardinality(T) =< n
           /\ Cardinality(T) < n => T = S
           /\ \A a \in T, b \in S \ T : a.at >= b.at
  <1>1. T \subseteq S /\ Cardinality(T) = IF n < Cardinality(S) THEN n ELSE Cardinality(S)
    BY DEF Leading
  <1>2. IsFiniteSet(T) /\ (Cardinality(S) = Cardinality(T) => S = T)
    BY <1>1, FS_Subset
  <1>3. Cardinality(T) \in Nat /\ Cardinality(S) \in Nat
    BY <1>2, FS_CardinalityType
  <1>4. \A a \in T, b \in S \ T : a.at >= b.at
    BY DEF Leading
  <1> QED
    BY <1>1, <1>2, <1>3, <1>4

\* A page is a set of rows, no more than the limit.
LEMMA PageCounts ==
    ASSUME NEW S, IsFiniteSet(S), NEW offset \in Nat, NEW limit \in Nat,
           NEW shown \in Pages(S, offset, limit)
    PROVE  /\ shown \subseteq S
           /\ IsFiniteSet(shown)
           /\ Cardinality(shown) \in Nat
           /\ Cardinality(shown) < limit => Cardinality(S) =< offset + Cardinality(shown)
  <1>1. PICK skipped \in Leading(S, offset) : shown \in Leading(S \ skipped, limit)
    BY DEF Pages
  <1>2. /\ skipped \subseteq S /\ IsFiniteSet(skipped)
        /\ Cardinality(skipped) \in Nat /\ Cardinality(skipped) =< offset
    BY LeadingCounts
  <1>3. IsFiniteSet(S \ skipped)
    BY <1>2, FS_Difference
  <1>4. /\ shown \subseteq S \ skipped /\ IsFiniteSet(shown) /\ Cardinality(shown) \in Nat
        /\ Cardinality(shown) < limit => shown = S \ skipped
    BY <1>1, <1>3, LeadingCounts
  <1>5. Cardinality(S \ skipped) = Cardinality(S) - Cardinality(skipped)
    <2>1. S \cap skipped = skipped
      BY <1>2
    <2> QED
      BY <2>1, FS_Difference
  <1>6. Cardinality(S) \in Nat
    BY FS_CardinalityType
  <1> QED
    BY <1>2, <1>4, <1>5, <1>6

\* A row that has at least as many newer rows as were skipped, and is not on the
\* page, has at least as many as were skipped and shown; so the page is full.
LEMMA UnseenIsFurtherBack ==
    ASSUME NEW S, IsFiniteSet(S), \A a \in S : a.at \in Nat, DistinctTimes(S),
           NEW offset \in Nat, NEW limit \in Nat, NEW shown \in Pages(S, offset, limit),
           NEW x \in S, Cardinality(Newer(S, x)) >= offset, x \notin shown
    PROVE  /\ Cardinality(Newer(S, x)) >= offset + limit
           /\ Cardinality(shown) = limit
  <1> DEFINE newer == Newer(S, x)
  <1>1. newer \subseteq S /\ IsFiniteSet(newer) /\ Cardinality(newer) \in Nat
    <2>1. newer \subseteq S
      BY DEF Newer
    <2> QED
      BY <2>1, FS_Subset, FS_CardinalityType
  <1>2. PICK skipped \in Leading(S, offset) : shown \in Leading(S \ skipped, limit)
    BY DEF Pages
  <1>3. /\ skipped \subseteq S /\ IsFiniteSet(skipped)
        /\ Cardinality(skipped) \in Nat /\ Cardinality(skipped) =< offset
        /\ Cardinality(skipped) < offset => skipped = S
        /\ \A a \in skipped, b \in S \ skipped : a.at >= b.at
    BY LeadingCounts
  <1>4. x \notin skipped
    <2> SUFFICES ASSUME x \in skipped PROVE FALSE
      OBVIOUS
    <2>1. newer \cup {x} \subseteq skipped
      BY <1>1, <1>3 DEF Newer
    <2>2. x \notin newer
      BY DEF Newer
    <2>3. Cardinality(newer \cup {x}) = Cardinality(newer) + 1
      BY <1>1, <2>2, FS_AddElement
    <2>4. Cardinality(newer \cup {x}) =< Cardinality(skipped)
      BY <1>3, <2>1, FS_Subset
    <2> QED
      BY <1>1, <1>3, <2>3, <2>4
  <1>5. IsFiniteSet(S \ skipped)
    BY <1>3, FS_Difference
  <1>6. /\ shown \subseteq S \ skipped /\ IsFiniteSet(shown)
        /\ Cardinality(shown) \in Nat /\ Cardinality(shown) =< limit
        /\ Cardinality(shown) < limit => shown = S \ skipped
        /\ \A a \in shown, b \in (S \ skipped) \ shown : a.at >= b.at
    BY <1>2, <1>5, LeadingCounts
  <1>7. Cardinality(skipped) = offset /\ Cardinality(shown) = limit
    <2>1. skipped # S /\ shown # S \ skipped
      BY <1>4
    <2> QED
      BY <1>3, <1>6, <2>1
  <1>8. skipped \cup shown \subseteq newer
    <2> SUFFICES ASSUME NEW a \in skipped \cup shown PROVE a.at > x.at
      BY <1>3, <1>6 DEF Newer
    <2>1. a \in S /\ a # x
      BY <1>3, <1>4, <1>6
    <2>2. a.at >= x.at
      BY <1>3, <1>4, <1>6
    <2>3. a.at # x.at
      BY <2>1 DEF DistinctTimes
    <2>4. a.at \in Nat /\ x.at \in Nat
      BY <2>1
    <2> QED
      BY <2>2, <2>3, <2>4
  <1>9. Cardinality(skipped \cup shown) = offset + limit
    <2>1. skipped \cap shown = {} /\ Cardinality({}) = 0
      BY <1>6, FS_EmptySet
    <2>2. Cardinality(skipped \cup shown)
              = Cardinality(skipped) + Cardinality(shown) - Cardinality(skipped \cap shown)
      BY <1>3, <1>6, FS_Union, Zenon
    <2>3. Cardinality(skipped \cap shown) = 0
      BY <2>1
    <2> QED
      BY <1>7, <2>2, <2>3
  <1>10. Cardinality(skipped \cup shown) =< Cardinality(newer)
    BY <1>1, <1>8, FS_Subset
  <1> QED
    BY <1>7, <1>9, <1>10

\* Rows that arrive leave as many newer rows as there were, or more.
LEMMA NewerOnlyGrows ==
    ASSUME NEW S, NEW T, IsFiniteSet(T), S \subseteq T, NEW x
    PROVE  /\ Cardinality(Newer(S, x)) \in Nat
           /\ Cardinality(Newer(T, x)) \in Nat
           /\ Cardinality(Newer(S, x)) =< Cardinality(Newer(T, x))
           /\ DistinctTimes(T) => DistinctTimes(S)
  <1>1. Newer(T, x) \subseteq T /\ Newer(S, x) \subseteq Newer(T, x)
    BY DEF Newer
  <1>2. IsFiniteSet(Newer(T, x))
    BY <1>1, FS_Subset
  <1>3. IsFiniteSet(Newer(S, x)) /\ Cardinality(Newer(S, x)) =< Cardinality(Newer(T, x))
    BY <1>1, <1>2, FS_Subset
  <1>4. DistinctTimes(T) => DistinctTimes(S)
    BY DEF DistinctTimes
  <1> QED
    BY <1>2, <1>3, <1>4, FS_CardinalityType

-----------------------------------------------------------------------------
(* Types.                                                                  *)

\* The state starts well-typed.
LEMMA TypeInit == Init => TypeInv
  <1> SUFFICES ASSUME Init PROVE TypeInv
    OBVIOUS
  <1>1. IsFiniteSet(rows)
    BY FS_EmptySet DEF Init
  <1>2. accounts \in [Users -> Account]
    BY ServerAssumption DEF Init, Account
  <1>3. walk \in [Clients -> [offset: Nat, left: SUBSET Row, over: BOOLEAN]]
    BY DEF Init, NewWalk
  <1>4. budget \in [rows: Nat, edits: Nat, ticks: Nat] /\ token \in [Clients -> Token \cup {None}]
    BY ServerAssumption DEF Init
  <1>5. pc \in [Clients -> Labels] /\ reply \in [Clients -> Replies]
    BY DEF Init, Labels, Replies
  <1> QED
    BY <1>1, <1>2, <1>3, <1>4, <1>5 DEF TypeInv, TypeOK, Init

\* What Grant returns.
LEMMA GrantType ==
    ASSUME NEW bearerRole \in Roles \cup {None}, NEW key
    PROVE  /\ Grant(bearerRole, key) = [role |-> Grant(bearerRole, key).role,
                                        by |-> Grant(bearerRole, key).by]
           /\ Grant(bearerRole, key).role \in Roles \cup {None}
           /\ Grant(bearerRole, key).by = IF bearerRole # None THEN "user" ELSE "key"
           /\ bearerRole # None => Grant(bearerRole, key).role = bearerRole
  <1>1. RoleOfKey(key) \in Roles \cup {None}
    BY DEF RoleOfKey, Roles
  <1> QED
    BY <1>1 DEF Grant

\* The outcomes of the end of require_role.
LEMMA AdmitCases ==
    ASSUME NEW c \in Clients, NEW bearerRole \in Roles \cup {None}, Admit(c, bearerRole)
    PROVE  \/ \E answer \in {"unauthorized", "forbidden"} : Answer(c, answer) /\ grant' = grant
           \/ \E g \in [role: Roles, by: {"user", "key"}] :
                 /\ g.by = "user" => bearerRole # None /\ g.role = bearerRole
                 /\ g.by = "key" => bearerRole = None
                 /\ Goto(c, "admitted") /\ reply' = reply
                 /\ grant' = [grant EXCEPT ![c] = g]
  <1> DEFINE g == Grant(bearerRole, Key[c])
  <1>1. CASE g.role = None
    BY <1>1 DEF Admit
  <1>2. CASE g.role # None /\ g.role \notin Allowed[to[c]]
    BY <1>2 DEF Admit
  <1>3. CASE g.role # None /\ ~(g.role \notin Allowed[to[c]])
    <2>1. Goto(c, "admitted") /\ reply' = reply /\ grant' = [grant EXCEPT ![c] = g]
      BY <1>3 DEF Admit
    <2>2. /\ g \in [role: Roles, by: {"user", "key"}]
          /\ g.by = "user" => bearerRole # None /\ g.role = bearerRole
          /\ g.by = "key" => bearerRole = None
      BY <1>3, GrantType
    <2> HIDE DEF g
    <2> QED
      BY <2>1, <2>2
  <1> QED
    BY <1>1, <1>2, <1>3

\* What the end of require_role leaves is well-typed.
LEMMA AdmitTypes ==
    ASSUME TypeOK, NEW c \in Clients, NEW bearerRole \in Roles \cup {None}, Admit(c, bearerRole)
    PROVE  /\ pc' \in [Clients -> Labels]
           /\ reply' \in [Clients -> Replies]
           /\ grant' \in [Clients -> Grants]
  <1>1. CASE \E answer \in {"unauthorized", "forbidden"} : Answer(c, answer) /\ grant' = grant
    BY <1>1 DEF TypeOK, Answer, Goto, Labels, Replies, Grants
  <1>2. CASE \E g \in [role: Roles, by: {"user", "key"}] :
                 /\ Goto(c, "admitted") /\ reply' = reply
                 /\ grant' = [grant EXCEPT ![c] = g]
    BY <1>2 DEF TypeOK, Goto, Labels, Grants
  <1> QED
    BY <1>1, <1>2, AdmitCases

\* The role a bearer is looked up with is a role or none.
LEMMA BearerRoles ==
    ASSUME TypeOK, NEW t, NEW user
    PROVE  /\ RoleOfBearer(t, ActiveAccount(user)) \in Roles \cup {None}
           /\ RoleOfBearer(t, ActiveAccount(user)) # None =>
                 /\ user \in Users
                 /\ Standing(accounts[user]) = RoleOfBearer(t, ActiveAccount(user))
           /\ RoleOfBearer(t, ActiveAccount(user)) = None /\ user \in Users =>
                 Standing(accounts[user]) = "inactive"
  <1>1. CASE user \in Users /\ accounts[user].active
    <2>1. accounts[user] \in Account /\ accounts[user].role \in Roles
      BY <1>1 DEF TypeOK, Account
    <2>2. accounts[user].role # None
      BY <2>1, NoneIsNoOne
    <2>3. accounts[user] # None
      BY <2>1, NoneIsNoOne
    <2> QED
      BY <1>1, <2>1, <2>2, <2>3 DEF RoleOfBearer, ActiveAccount, Standing
  <1>2. CASE ~(user \in Users /\ accounts[user].active)
    BY <1>2 DEF RoleOfBearer, ActiveAccount, Standing
  <1> QED
    BY <1>1, <1>2

\* Using the session takes a connection of the session's kind.
LEMMA SessionTypes ==
    ASSUME TypeOK, NEW c \in Clients, UseSession(c)
    PROVE  conns' \subseteq Clients \X {"session", "probe"}
  BY DEF TypeOK, UseSession

\* What a query that raises leaves is well-typed.
LEMMA RaiseTypes ==
    ASSUME TypeOK, NEW c \in Clients,
           NEW reported \in Replies, NEW raised \in Replies, QueryRaises(c, reported, raised)
    PROVE  pc' \in [Clients -> Labels] /\ reply' \in [Clients -> Replies]
  <1>0. /\ pc \in [Clients -> Labels] /\ reply \in [Clients -> Replies]
        /\ "ping" \in Labels /\ "answered" \in Labels
    BY DEF TypeOK, Labels
  <1>1. CASE pc[c] \in {"probe", "select"}
    BY <1>0, <1>1 DEF QueryRaises, Goto
  <1>2. CASE ~(pc[c] \in {"probe", "select"})
    BY <1>0, <1>2 DEF QueryRaises, Answer, Goto
  <1> QED
    BY <1>1, <1>2

\* Every step keeps the types and the listed table finite.
LEMMA TypeStep == TypeInv /\ [Next]_vars => TypeInv'
  <1> SUFFICES ASSUME TypeInv, [Next]_vars PROVE TypeInv'
    OBVIOUS
  <1> USE DEF TypeInv
  <1>1. ASSUME NEW c \in Clients, Send(c) PROVE TypeInv'
    <2>1. PICK e \in Uses[c] :
            /\ to' = [to EXCEPT ![c] = e]
            /\ held' = [held EXCEPT ![c] =
                   IF e \in DOMAIN Allowed /\ Decodes(token[c])
                   THEN {Standing(accounts[token[c].sub])} ELSE {}]
            /\ walk' = IF e = "list" /\ walk[c].over THEN [walk EXCEPT ![c] = NewWalk] ELSE walk
      BY <1>1 DEF Send
    <2>2. to' \in [Clients -> Endpoints \cup {None}]
      BY <2>1, ServerAssumption DEF TypeOK
    <2>3. Decodes(token[c]) => Standing(accounts[token[c].sub]) \in Standings
      BY DEF TypeOK, Decodes, Token, Account, Standing, Standings
    <2>4. held' \in [Clients -> SUBSET Standings]
      <3> DEFINE h == IF e \in DOMAIN Allowed /\ Decodes(token[c])
                      THEN {Standing(accounts[token[c].sub])} ELSE {}
      <3>1. h \in SUBSET Standings
        BY <2>3
      <3>2. held' = [held EXCEPT ![c] = h]
        BY <2>1
      <3> HIDE DEF h
      <3> QED
        BY <3>1, <3>2 DEF TypeOK, Standings
    <2>5. walk' \in [Clients -> [offset: Nat, left: SUBSET Row, over: BOOLEAN]]
      BY <2>1 DEF TypeOK, NewWalk
    <2>6. pc' \in [Clients -> Labels]
      BY <1>1 DEF TypeOK, Send, Goto, Labels
    <2> QED
      BY <1>1, <2>2, <2>4, <2>5, <2>6 DEF TypeOK, Send, Standings
  <1>2. ASSUME NEW c \in Clients, StartDependency(c) PROVE TypeInv'
    <2>1. /\ pc' \in [Clients -> Labels]
          /\ reply' \in [Clients -> Replies]
          /\ grant' \in [Clients -> Grants]
      <3>1. CASE Admit(c, None)
        BY <3>1, AdmitTypes
      <3>2. CASE Goto(c, "probe") /\ UNCHANGED <<grant, reply>>
        BY <3>2 DEF TypeOK, Goto, Labels, Grants
      <3>3. CASE Goto(c, "lookup") /\ UNCHANGED <<grant, reply>>
        BY <3>3 DEF TypeOK, Goto, Labels, Grants
      <3>4. CASE Answer(c, "unauthorized") /\ grant' = grant
        BY <3>4 DEF TypeOK, Answer, Goto, Labels, Replies, Grants
      <3> QED
        BY <1>2, <3>1, <3>2, <3>3, <3>4, Zenon DEF StartDependency
    <2> QED
      BY <1>2, <2>1 DEF TypeOK, StartDependency, Grants
  <1>3. ASSUME NEW c \in Clients, Login(c) PROVE TypeInv'
    <2>1. conns' \subseteq Clients \X {"session", "probe"}
      BY <1>3, SessionTypes DEF Login
    <2>2. token' \in [Clients -> Token \cup {None}]
      <3>1. ASSUME NEW user \in Users PROVE IssueToken(user) \in Token
        <4>1. accounts[user].role \in Roles
          BY DEF TypeOK, Account
        <4>2. clock + TokenSeconds \in Nat
          BY LifetimeAssumption DEF TypeOK
        <4> QED
          BY <4>1, <4>2 DEF IssueToken, Token
      <3>2. CASE token' = token
        BY <3>2 DEF TypeOK
      <3>3. CASE \E user \in Users : token' = [token EXCEPT ![c] = IssueToken(user)]
        <4>1. PICK user \in Users : token' = [token EXCEPT ![c] = IssueToken(user)]
          BY <3>3
        <4>2. IssueToken(user) \in Token
          BY <3>1
        <4> QED
          BY <4>1, <4>2 DEF TypeOK
      <3> QED
        BY <1>3, <3>2, <3>3, Zenon DEF Login
    <2>3. \E answer \in {"ok", "bad_request"} : Answer(c, answer)
      BY <1>3 DEF Login
    <2>4. pc' \in [Clients -> Labels] /\ reply' \in [Clients -> Replies]
      BY <2>3 DEF TypeOK, Answer, Goto, Labels, Replies
    <2> QED
      BY <1>3, <2>1, <2>2, <2>4 DEF TypeOK, Login
  <1>4. ASSUME NEW c \in Clients, LookupBearer(c) PROVE TypeInv'
    <2>1. conns' \subseteq Clients \X {"session", "probe"}
      BY <1>4, SessionTypes DEF LookupBearer
    <2>2. /\ pc' \in [Clients -> Labels]
          /\ reply' \in [Clients -> Replies]
          /\ grant' \in [Clients -> Grants]
      <3> DEFINE account == ActiveAccount(token[c].sub)
      <3>1. CASE to[c] = "me"
        <4>1. \E answer \in {"unauthorized", "ok"} : Answer(c, answer)
          BY <1>4, <3>1 DEF LookupBearer
        <4>2. grant' = grant
          BY <1>4, <3>1 DEF LookupBearer
        <4> QED
          BY <4>1, <4>2 DEF TypeOK, Answer, Goto, Labels, Replies, Grants
      <3>2. CASE to[c] # "me"
        <4>1. Admit(c, RoleOfBearer(token[c], account))
          BY <1>4, <3>2 DEF LookupBearer
        <4>2. RoleOfBearer(token[c], account) \in Roles \cup {None}
          BY BearerRoles
        <4> HIDE DEF account
        <4> QED
          BY <4>1, <4>2, AdmitTypes
      <3> QED
        BY <3>1, <3>2
    <2> QED
      BY <1>4, <2>1, <2>2 DEF TypeOK, LookupBearer, Grants
  <1>5. ASSUME NEW c \in Clients, StartHandler(c) PROVE TypeInv'
    BY <1>5 DEF TypeOK, StartHandler, Goto, Labels
  <1>6. ASSUME NEW c \in Clients, CountRows(c) PROVE TypeInv'
    <2>1. conns' \subseteq Clients \X {"session", "probe"}
      BY <1>6, SessionTypes DEF CountRows
    <2>2. total' \in [Clients -> Nat]
      BY <1>6, FS_CardinalityType DEF TypeOK, CountRows
    <2>3. pc' \in [Clients -> Labels]
      BY <1>6 DEF TypeOK, CountRows, Goto, Labels
    <2> QED
      BY <1>6, <2>1, <2>2, <2>3 DEF TypeOK, CountRows
  <1>7. ASSUME NEW c \in Clients, FetchPage(c) PROVE TypeInv'
    <2>1. PICK items \in PagesAt(walk[c].offset) : page' = [page EXCEPT ![c] = items]
      BY <1>7 DEF FetchPage
    <2>2. walk[c].offset \in Nat /\ Limit \in Nat
      BY ServerAssumption DEF TypeOK
    <2>3. items \subseteq rows
      BY <2>1, <2>2, PageCounts DEF PagesAt
    <2>4. page' \in [Clients -> SUBSET Row]
      BY <2>1, <2>3 DEF TypeOK
    <2>5. pc' \in [Clients -> Labels] /\ reply' \in [Clients -> Replies]
      BY <1>7 DEF TypeOK, FetchPage, Answer, Goto, Labels, Replies
    <2> QED
      BY <1>7, <2>4, <2>5 DEF TypeOK, FetchPage
  <1>8. ASSUME NEW c \in Clients, OpenProbe(c) PROVE TypeInv'
    BY <1>8 DEF TypeOK, OpenProbe, Goto, Labels
  <1>9. ASSUME NEW c \in Clients, SelectOne(c) PROVE TypeInv'
    BY <1>9 DEF TypeOK, SelectOne, Goto, Labels
  <1>10. ASSUME NEW c \in Clients, PingRedis(c) PROVE TypeInv'
    <2>1. PICK answer \in {"ok", "redis_down"} :
              Answer(c, IF reply[c] = "none" THEN answer ELSE reply[c])
      BY <1>10 DEF PingRedis
    <2>2. (IF reply[c] = "none" THEN answer ELSE reply[c]) \in Replies
      BY DEF TypeOK, Replies
    <2>3. pc' \in [Clients -> Labels] /\ reply' \in [Clients -> Replies]
      BY <2>1, <2>2 DEF TypeOK, Answer, Goto, Labels
    <2> QED
      BY <1>10, <2>3 DEF TypeOK, PingRedis
  <1>11. ASSUME NEW c \in Clients, ConnectionTimeout(c) PROVE TypeInv'
    <2>1. "database_refused" \in Replies /\ "error_refused" \in Replies
      BY DEF Replies, Raised, Refused
    <2>2. pc' \in [Clients -> Labels] /\ reply' \in [Clients -> Replies]
      BY <1>11, <2>1, RaiseTypes DEF ConnectionTimeout
    <2> QED
      BY <1>11, <2>2 DEF TypeOK, ConnectionTimeout
  <1>12. ASSUME NEW c \in Clients, DatabaseFails(c) PROVE TypeInv'
    <2>1. "database_failed" \in Replies /\ "error_failed" \in Replies
      BY DEF Replies, Raised
    <2>2. pc' \in [Clients -> Labels] /\ reply' \in [Clients -> Replies]
      BY <1>12, <2>1, RaiseTypes DEF DatabaseFails
    <2>3. conns' \subseteq Clients \X {"session", "probe"}
      <3>1. CASE UseSession(c)
        BY <3>1, SessionTypes
      <3>2. CASE conns' = conns \/ conns' = conns \ {<<c, "probe">>}
        BY <3>2 DEF TypeOK
      <3> QED
        BY <1>12, <3>1, <3>2 DEF DatabaseFails
    <2> QED
      BY <1>12, <2>2, <2>3 DEF TypeOK, DatabaseFails
  <1>13. ASSUME NEW c \in Clients, Close(c) PROVE TypeInv'
    <2>1. Advance(walk[c], page[c]) \in [offset: Nat, left: SUBSET Row, over: BOOLEAN]
      <3>1. walk[c].offset + Limit \in Nat /\ walk[c].left \ page[c] \subseteq Row
        BY ServerAssumption DEF TypeOK
      <3> QED
        BY <3>1 DEF Advance
    <2>2. walk' \in [Clients -> [offset: Nat, left: SUBSET Row, over: BOOLEAN]]
      BY <1>13, <2>1 DEF TypeOK, Close
    <2>3. pc' \in [Clients -> Labels] /\ reply' \in [Clients -> Replies]
      BY <1>13 DEF TypeOK, Close, Goto, Labels, Replies
    <2>4. conns' \subseteq Clients \X {"session", "probe"}
      BY <1>13 DEF TypeOK, Close, Release
    <2>5. /\ to' \in [Clients -> Endpoints \cup {None}]
          /\ grant' \in [Clients -> [role: Roles, by: {"user", "key"}] \cup {None}]
          /\ total' \in [Clients -> Nat]
          /\ page' \in [Clients -> SUBSET Row]
          /\ held' \in [Clients -> SUBSET (Roles \cup {"inactive"})]
      BY <1>13 DEF TypeOK, Close
    <2> QED
      BY <1>13, <2>2, <2>3, <2>4, <2>5 DEF TypeOK, Close
  <1>14. ASSUME NEW user \in Users, EditUser(user) PROVE TypeInv'
    <2>1. accounts' \in [Users -> Account]
      <3>1. CASE \E role \in Roles \ {accounts[user].role} :
                    accounts' = [accounts EXCEPT ![user].role = role]
        <4>1. PICK role \in Roles : accounts' = [accounts EXCEPT ![user].role = role]
          BY <3>1
        <4> QED
          BY <4>1 DEF TypeOK, Account
      <3>2. CASE accounts' = [accounts EXCEPT ![user].active = ~@]
        BY <3>2 DEF TypeOK, Account
      <3> QED
        BY <1>14, <3>1, <3>2 DEF EditUser, EditAccount
    <2>2. budget' \in [rows: Nat, edits: Nat, ticks: Nat]
      BY <1>14 DEF TypeOK, EditUser, Spend
    <2>3. held' \in [Clients -> SUBSET Standings]
      <3>1. Standing(accounts'[user]) \in Standings
        BY <2>1 DEF Account, Standing, Standings
      <3> QED
        BY <1>14, <3>1 DEF TypeOK, EditUser, Standings
    <2> QED
      BY <1>14, <2>1, <2>2, <2>3 DEF TypeOK, EditUser, EditAccount, Standings
  <1>15. ASSUME InsertRow PROVE TypeInv'
    <2>1. PICK at \in Times : rows' = rows \cup {[id |-> Cardinality(rows) + 1, at |-> at]}
      BY <1>15 DEF InsertRow
    <2>2. Cardinality(rows) + 1 \in Nat
      BY FS_CardinalityType
    <2>3. rows' \subseteq Row
      BY <2>1, <2>2 DEF TypeOK, Row
    <2>4. IsFiniteSet(rows')
      BY <2>1, FS_AddElement
    <2>5. budget' \in [rows: Nat, edits: Nat, ticks: Nat]
      BY <1>15 DEF TypeOK, InsertRow, Spend
    <2> QED
      BY <1>15, <2>3, <2>4, <2>5 DEF TypeOK, InsertRow
  <1>16. ASSUME ClockTicks PROVE TypeInv'
    <2>1. budget' \in [rows: Nat, edits: Nat, ticks: Nat]
      BY <1>16 DEF TypeOK, ClockTicks, Spend
    <2> QED
      BY <1>16, <2>1 DEF TypeOK, ClockTicks, Tick
  <1>17. CASE UNCHANGED vars
    BY <1>17 DEF TypeOK
  <1> QED
    BY <1>1, <1>2, <1>3, <1>4, <1>5, <1>6, <1>7, <1>8, <1>9, <1>10, <1>11, <1>12, <1>13,
       <1>14, <1>15, <1>16, <1>17
       DEF Next, TakeThread, Run

\* Types: the state of the API process is always well-typed, however many
\* requests run, wait and fail.
THEOREM TypeCorrect == Spec => []TypeOK
  <1>1. Spec => []TypeInv
    BY TypeInit, TypeStep, PTL DEF Spec
  <1>2. TypeInv => TypeOK
    BY DEF TypeInv
  <1> QED
    BY <1>1, <1>2, PTL

-----------------------------------------------------------------------------
(* One client's step is nobody else's.                                     *)

Step(c) == Send(c) \/ TakeThread(c) \/ Run(c) \/ DatabaseFails(c)

\* The functions of the state, for steps that only update them.
LEMMA Functions ==
    ASSUME TypeOK
    PROVE  /\ pc \in [Clients -> Labels] /\ to \in [Clients -> Endpoints \cup {None}]
           /\ grant \in [Clients -> Grants] /\ total \in [Clients -> Nat]
           /\ page \in [Clients -> SUBSET Row] /\ reply \in [Clients -> Replies]
           /\ held \in [Clients -> SUBSET Standings] /\ token \in [Clients -> Token \cup {None}]
           /\ walk \in [Clients -> [offset: Nat, left: SUBSET Row, over: BOOLEAN]]
  BY DEF TypeOK, Grants, Standings

\* A step of one request leaves the state of another request, and the
\* connections it holds, as they are.
LEMMA OthersKeep ==
    ASSUME TypeOK, NEW c \in Clients, Step(c), NEW d \in Clients, d # c
    PROVE  /\ pc'[d] = pc[d] /\ to'[d] = to[d] /\ grant'[d] = grant[d]
           /\ total'[d] = total[d] /\ page'[d] = page[d] /\ reply'[d] = reply[d]
           /\ held'[d] = held[d] /\ token'[d] = token[d] /\ walk'[d] = walk[d]
           /\ (<<d, "session">> \in conns' <=> <<d, "session">> \in conns)
           /\ (<<d, "probe">> \in conns' <=> <<d, "probe">> \in conns)
  <1> USE Functions
  <1>1. ASSUME NEW r, Admit(c, r)
        PROVE  pc'[d] = pc[d] /\ reply'[d] = reply[d] /\ grant'[d] = grant[d]
    BY <1>1 DEF Admit, Goto, Answer
  <1>2. ASSUME NEW x, NEW y, QueryRaises(c, x, y)
        PROVE  pc'[d] = pc[d] /\ reply'[d] = reply[d]
    BY <1>2 DEF QueryRaises, Goto, Answer
  <1>3. ASSUME UseSession(c)
        PROVE  /\ <<d, "session">> \in conns' <=> <<d, "session">> \in conns
               /\ <<d, "probe">> \in conns' <=> <<d, "probe">> \in conns
    BY <1>3 DEF UseSession
  <1>4. CASE Send(c)
    BY <1>4 DEF Send, Goto
  <1>5. CASE StartDependency(c)
    BY <1>1, <1>5 DEF StartDependency, Goto, Answer
  <1>6. CASE StartHandler(c)
    BY <1>6 DEF StartHandler, Goto
  <1>7. CASE Login(c)
    <2>1. pc'[d] = pc[d] /\ reply'[d] = reply[d] /\ token'[d] = token[d]
      BY <1>7 DEF Login, Goto, Answer
    <2> QED
      BY <1>3, <1>7, <2>1 DEF Login
  <1>8. CASE LookupBearer(c)
    <2>1. pc'[d] = pc[d] /\ reply'[d] = reply[d] /\ grant'[d] = grant[d]
      BY <1>1, <1>8 DEF LookupBearer, Goto, Answer
    <2> QED
      BY <1>3, <1>8, <2>1 DEF LookupBearer
  <1>9. CASE CountRows(c)
    BY <1>3, <1>9 DEF CountRows, Goto
  <1>10. CASE FetchPage(c)
    BY <1>10 DEF FetchPage, Goto, Answer
  <1>11. CASE OpenProbe(c)
    BY <1>11 DEF OpenProbe, Goto
  <1>12. CASE SelectOne(c)
    BY <1>12 DEF SelectOne, Goto
  <1>13. CASE PingRedis(c)
    BY <1>13 DEF PingRedis, Goto, Answer
  <1>14. CASE ConnectionTimeout(c)
    BY <1>2, <1>14 DEF ConnectionTimeout
  <1>15. CASE DatabaseFails(c)
    BY <1>2, <1>3, <1>15 DEF DatabaseFails
  <1>16. CASE Close(c)
    BY <1>16 DEF Close, Release, Goto
  <1> QED
    BY <1>4, <1>5, <1>6, <1>7, <1>8, <1>9, <1>10, <1>11, <1>12, <1>13, <1>14, <1>15, <1>16
       DEF Step, TakeThread, Run

\* No step of a request touches the users, the clock or the listed table.
LEMMA SharedKeep ==
    ASSUME NEW c \in Clients, Step(c)
    PROVE  accounts' = accounts /\ clock' = clock /\ rows' = rows
  BY DEF Step, TakeThread, Run, Send, StartDependency, StartHandler, Login, LookupBearer, CountRows,
         FetchPage, OpenProbe, SelectOne, PingRedis, ConnectionTimeout, DatabaseFails, Close

-----------------------------------------------------------------------------
(* Where a request can be, and which connections it can hold there.         *)

Routed(c) ==
    /\ pc[c] # "idle" => to[c] \in Endpoints
    /\ pc[c] = "lookup" => to[c] # "ready"
    /\ pc[c] = "admitted" => to[c] \in {"list", "status"}
    /\ pc[c] \in {"count", "page"} => to[c] = "list"
    /\ pc[c] \in {"probe", "select", "ping"} => to[c] \in {"status", "ready"}
    /\ <<c, "session">> \in conns => pc[c] # "idle"
    /\ <<c, "probe">> \in conns => pc[c] = "select"

\* What require_role makes of a request: the endpoint is a guarded one.
LEMMA AdmitRoutes ==
    ASSUME TypeOK, NEW c \in Clients, NEW r \in Roles \cup {None}, Admit(c, r),
           to[c] \in Endpoints \ {"login", "me", "ready"}
    PROVE  pc'[c] \in {"admitted", "answered"} /\ to[c] \in {"list", "status"}
  BY Functions DEF Admit, Goto, Answer, Endpoints

\* A step of a request keeps it on the path of its endpoint.
LEMMA RoutedStep ==
    ASSUME TypeOK, NEW c \in Clients, Step(c), Routed(c)
    PROVE  Routed(c)'
  <1> USE Functions
  <1>1. ASSUME UseSession(c), pc[c] \in {"lookup", "count"}
        PROVE  <<c, "probe">> \notin conns'
    BY <1>1 DEF UseSession, Routed
  <1>4. CASE Send(c)
    <2>1. pc[c] = "idle" /\ pc'[c] = "arrived" /\ conns' = conns
      BY <1>4 DEF Send, Goto
    <2>2. to'[c] \in Endpoints
      <3>1. PICK e \in Uses[c] : to' = [to EXCEPT ![c] = e]
        BY <1>4 DEF Send
      <3>2. e \in Endpoints
        BY ServerAssumption
      <3> QED
        BY <3>1, <3>2
    <2> QED
      BY <2>1, <2>2 DEF Routed
  <1>5. CASE StartDependency(c)
    <2>1. pc[c] = "arrived" /\ to' = to /\ conns' = conns /\ to[c] \in Endpoints
      BY <1>5 DEF StartDependency, Routed
    <2>2. \/ pc'[c] = "probe" /\ to[c] = "ready"
          \/ pc'[c] = "lookup" /\ to[c] # "ready"
          \/ pc'[c] = "answered"
          \/ Admit(c, None) /\ to[c] \in Endpoints \ {"login", "me", "ready"}
      BY <1>5, <2>1 DEF StartDependency, Goto, Answer
    <2>3. \/ pc'[c] = "probe" /\ to[c] = "ready"
          \/ pc'[c] = "lookup" /\ to[c] # "ready"
          \/ pc'[c] = "answered"
          \/ pc'[c] = "admitted" /\ to[c] \in {"list", "status"}
      BY <2>2, AdmitRoutes
    <2> QED
      BY <2>1, <2>3 DEF Routed
  <1>6. CASE StartHandler(c)
    BY <1>6 DEF StartHandler, Goto, Routed
  <1>7. CASE Login(c)
    <2>1. pc[c] = "lookup" /\ to' = to /\ pc'[c] = "answered"
      BY <1>7 DEF Login, Goto, Answer
    <2> QED
      BY <1>1, <1>7, <2>1 DEF Login, Routed
  <1>8. CASE LookupBearer(c)
    <2>1. pc[c] = "lookup" /\ to' = to /\ UseSession(c)
      BY <1>8 DEF LookupBearer
    <2>2. \/ pc'[c] = "answered"
          \/ pc'[c] = "admitted" /\ to[c] \in {"list", "status"}
      <3>1. CASE to[c] = "me"
        <4>1. pc' = [pc EXCEPT ![c] = "answered"]
          BY <1>8, <3>1 DEF LookupBearer, Goto, Answer
        <4> QED
          BY <4>1
      <3>2. CASE to[c] # "me"
        <4> DEFINE r == RoleOfBearer(token[c], ActiveAccount(token[c].sub))
        <4>1. Admit(c, r)
          BY <1>8, <3>2 DEF LookupBearer
        <4>2. r \in Roles \cup {None}
          BY BearerRoles
        <4>3. CASE to[c] # "ready"
          <5>1. to[c] \in Endpoints \ {"login", "me", "ready"}
            BY <1>8, <2>1, <3>2, <4>3 DEF LookupBearer, Routed
          <5> HIDE DEF r
          <5> QED
            BY <4>1, <4>2, <5>1, AdmitRoutes
        <4>4. CASE to[c] = "ready"
          BY <2>1, <4>4 DEF Routed
        <4> QED
          BY <4>3, <4>4
      <3> QED
        BY <3>1, <3>2
    <2> QED
      BY <1>1, <2>1, <2>2 DEF Routed
  <1>9. CASE CountRows(c)
    <2>1. pc[c] = "count" /\ to' = to /\ pc'[c] = "page" /\ UseSession(c)
      BY <1>9 DEF CountRows, Goto
    <2> QED
      BY <1>1, <2>1 DEF Routed
  <1>10. CASE FetchPage(c)
    BY <1>10 DEF FetchPage, Goto, Answer, Routed
  <1>11. CASE OpenProbe(c)
    BY <1>11 DEF OpenProbe, Goto, Routed
  <1>12. CASE SelectOne(c)
    BY <1>12 DEF SelectOne, Goto, Routed
  <1>13. CASE PingRedis(c)
    BY <1>13 DEF PingRedis, Goto, Answer, Routed
  <1>14. CASE ConnectionTimeout(c)
    BY <1>14 DEF ConnectionTimeout, QueryRaises, Goto, Answer, Routed
  <1>15. CASE DatabaseFails(c)
    <2>1. CASE pc[c] \in {"lookup", "count"} /\ UseSession(c)
      BY <1>1, <1>15, <2>1 DEF DatabaseFails, QueryRaises, Goto, Answer, Routed
    <2>2. CASE pc[c] = "page" /\ conns' = conns
      BY <1>15, <2>2 DEF DatabaseFails, QueryRaises, Goto, Answer, Routed
    <2>3. CASE pc[c] = "select" /\ conns' = conns \ {<<c, "probe">>}
      BY <1>15, <2>3 DEF DatabaseFails, QueryRaises, Goto, Answer, Routed
    <2> QED
      BY <1>15, <2>1, <2>2, <2>3 DEF DatabaseFails
  <1>16. CASE Close(c)
    BY <1>16 DEF Close, Release, Goto, Routed
  <1> QED
    BY <1>4, <1>5, <1>6, <1>7, <1>8, <1>9, <1>10, <1>11, <1>12, <1>13, <1>14, <1>15, <1>16
       DEF Step, TakeThread, Run

-----------------------------------------------------------------------------
(* Who a request is served as.                                             *)

\* Until require_role ends, held follows the user of a token that was alive when
\* the request was sent; a token that decodes later did so then.
Served(c) ==
    /\ pc[c] \in {"idle", "arrived", "lookup"} => grant[c] = None
    /\ pc[c] = "arrived" /\ to[c] \in DOMAIN Allowed /\ Decodes(token[c]) => held[c] # {}
    /\ pc[c] = "lookup" /\ to[c] \in DOMAIN Allowed => held[c] # {}
    /\ pc[c] \in {"arrived", "lookup"} /\ held[c] # {} =>
          token[c] \in Token /\ Standing(accounts[token[c].sub]) \in held[c]
    /\ grant[c] # None /\ grant[c].by = "user" => grant[c].role \in held[c]
    /\ grant[c] # None /\ grant[c].by = "key" =>
          \/ token[c] = None
          \/ token[c].exp < clock
          \/ "inactive" \in held[c]

\* What Admit leaves, given that the bearer was looked up as he is.
LEMMA AdmitServes ==
    ASSUME TypeOK, NEW c \in Clients, NEW r \in Roles \cup {None}, Admit(c, r),
           grant[c] = None,
           r # None => r \in held[c],
           r = None => \/ token[c] = None
                       \/ token[c].exp < clock
                       \/ "inactive" \in held[c],
           UNCHANGED <<token, held, clock>>
    PROVE  Served(c)'
  <1> USE Functions
  <1>1. CASE \E answer \in {"unauthorized", "forbidden"} : Answer(c, answer) /\ grant' = grant
    <2>1. pc'[c] = "answered" /\ grant'[c] = None
      BY <1>1 DEF Answer, Goto
    <2> QED
      BY <2>1 DEF Served
  <1>2. CASE \E g \in [role: Roles, by: {"user", "key"}] :
                 /\ g.by = "user" => r # None /\ g.role = r
                 /\ g.by = "key" => r = None
                 /\ Goto(c, "admitted") /\ reply' = reply
                 /\ grant' = [grant EXCEPT ![c] = g]
    <2>1. PICK g \in [role: Roles, by: {"user", "key"}] :
                 /\ g.by = "user" => r # None /\ g.role = r
                 /\ g.by = "key" => r = None
                 /\ Goto(c, "admitted") /\ reply' = reply
                 /\ grant' = [grant EXCEPT ![c] = g]
      BY <1>2
    <2>2. pc'[c] = "admitted" /\ grant'[c] = g
      BY <2>1 DEF Goto
    <2> QED
      BY <2>1, <2>2 DEF Served
  <1> QED
    BY <1>1, <1>2, AdmitCases

\* A step of a request keeps what is known of whom it is served as.
LEMMA ServedStep ==
    ASSUME TypeOK, NEW c \in Clients, Step(c), Routed(c), Served(c)
    PROVE  Served(c)'
  <1> USE Functions
  <1>0. accounts' = accounts /\ clock' = clock
    BY SharedKeep
  <1>1. ASSUME token' = token, held' = held, grant' = grant,
               pc'[c] \notin {"idle", "arrived", "lookup"}
        PROVE  Served(c)'
    BY <1>0, <1>1 DEF Served
  <1>4. CASE Send(c)
    <2>1. PICK e \in Uses[c] :
            /\ to' = [to EXCEPT ![c] = e]
            /\ held' = [held EXCEPT ![c] =
                   IF e \in DOMAIN Allowed /\ Decodes(token[c])
                   THEN {Standing(accounts[token[c].sub])} ELSE {}]
      BY <1>4 DEF Send
    <2>2. /\ pc[c] = "idle" /\ pc'[c] = "arrived" /\ grant' = grant /\ token' = token
          /\ to'[c] = e
      BY <1>4, <2>1 DEF Send, Goto
    <2>3. grant'[c] = None
      BY <2>2 DEF Served
    <2>4. CASE e \in DOMAIN Allowed /\ Decodes(token[c])
      <3>1. held'[c] = {Standing(accounts[token[c].sub])}
        BY <2>1, <2>4
      <3>2. token[c] \in Token
        BY <2>4 DEF Decodes
      <3> QED
        BY <1>0, <2>2, <2>3, <3>1, <3>2 DEF Served
    <2>5. CASE ~(e \in DOMAIN Allowed /\ Decodes(token[c]))
      <3>1. held'[c] = {}
        BY <2>1, <2>5
      <3>2. ~(to'[c] \in DOMAIN Allowed /\ Decodes(token[c])')
        BY <1>0, <2>2, <2>5 DEF Decodes
      <3> QED
        BY <2>2, <2>3, <3>1, <3>2 DEF Served
    <2> QED
      BY <2>4, <2>5
  <1>5. CASE StartDependency(c)
    <2>1. /\ pc[c] = "arrived" /\ grant[c] = None
          /\ UNCHANGED <<to, token, held>>
      BY <1>5 DEF StartDependency, Served
    <2>2. CASE Admit(c, None) /\ ~Decodes(token[c])
      <3>1. token[c] = None \/ token[c].exp < clock
        BY <2>2 DEF Decodes
      <3> QED
        BY <1>0, <2>1, <2>2, <3>1, AdmitServes
    <2>3. CASE Goto(c, "lookup") /\ grant' = grant /\ (to[c] = "login" \/ Decodes(token[c]))
      <3>1. pc'[c] = "lookup"
        BY <2>3 DEF Goto
      <3>2. to[c] \in DOMAIN Allowed => held[c] # {}
        BY <2>1, <2>3 DEF Served, Allowed
      <3> QED
        BY <1>0, <2>1, <2>3, <3>1, <3>2 DEF Served
    <2>4. CASE Goto(c, "probe") /\ grant' = grant
      BY <1>1, <2>1, <2>4 DEF Goto
    <2>5. CASE Answer(c, "unauthorized") /\ grant' = grant
      BY <1>1, <2>1, <2>5 DEF Answer, Goto
    <2> QED
      BY <1>5, <2>2, <2>3, <2>4, <2>5, Zenon DEF StartDependency
  <1>6. CASE StartHandler(c)
    <2>1. pc'[c] \notin {"idle", "arrived", "lookup"}
      BY <1>6 DEF StartHandler, Goto
    <2> QED
      BY <1>1, <1>6, <2>1 DEF StartHandler
  <1>7. CASE Login(c)
    <2>1. pc[c] = "lookup" /\ pc'[c] = "answered" /\ grant' = grant
      BY <1>7 DEF Login, Goto, Answer
    <2> QED
      BY <2>1 DEF Served
  <1>8. CASE LookupBearer(c)
    <2>1. /\ pc[c] = "lookup" /\ grant[c] = None /\ to[c] # "login"
          /\ UNCHANGED <<to, token, held>>
      BY <1>8 DEF LookupBearer, Served
    <2>2. CASE to[c] = "me"
      <3>1. pc' = [pc EXCEPT ![c] = "answered"] /\ grant' = grant
        BY <1>8, <2>2 DEF LookupBearer, Goto, Answer
      <3> QED
        BY <1>1, <2>1, <3>1
    <2>3. CASE to[c] # "me"
      <3> DEFINE r == RoleOfBearer(token[c], ActiveAccount(token[c].sub))
      <3>1. Admit(c, r)
        BY <1>8, <2>3 DEF LookupBearer
      <3>2. to[c] \in DOMAIN Allowed
        BY <2>1, <2>3 DEF Routed, Endpoints, Allowed
      <3>3. token[c] \in Token /\ Standing(accounts[token[c].sub]) \in held[c]
        BY <2>1, <3>2 DEF Served
      <3>4. token[c].sub \in Users
        BY <3>3 DEF Token
      <3>5. /\ r \in Roles \cup {None}
            /\ r # None => r \in held[c]
            /\ r = None => "inactive" \in held[c]
        BY <3>3, <3>4, BearerRoles
      <3> HIDE DEF r
      <3> QED
        BY <1>0, <2>1, <3>1, <3>5, AdmitServes
    <2> QED
      BY <2>2, <2>3
  <1>9. CASE CountRows(c)
    BY <1>1, <1>9 DEF CountRows, Goto
  <1>10. CASE FetchPage(c)
    BY <1>1, <1>10 DEF FetchPage, Goto, Answer
  <1>11. CASE OpenProbe(c)
    BY <1>1, <1>11 DEF OpenProbe, Goto
  <1>12. CASE SelectOne(c)
    BY <1>1, <1>12 DEF SelectOne, Goto
  <1>13. CASE PingRedis(c)
    BY <1>1, <1>13 DEF PingRedis, Goto, Answer
  <1>14. CASE ConnectionTimeout(c)
    BY <1>1, <1>14 DEF ConnectionTimeout, QueryRaises, Goto, Answer
  <1>15. CASE DatabaseFails(c)
    BY <1>1, <1>15 DEF DatabaseFails, QueryRaises, Goto, Answer
  <1>16. CASE Close(c)
    <2>1. pc'[c] = "idle" /\ grant'[c] = None
      BY <1>16 DEF Close, Goto
    <2> QED
      BY <2>1 DEF Served
  <1> QED
    BY <1>4, <1>5, <1>6, <1>7, <1>8, <1>9, <1>10, <1>11, <1>12, <1>13, <1>14, <1>15, <1>16
       DEF Step, TakeThread, Run

-----------------------------------------------------------------------------
(* What the pages of a walk leave out.                                      *)

\* Every row a walk has not shown has at least as many newer rows as the walk
\* has skipped and shown, and rows that arrive only add to them.
Behind(rest, offset) ==
    DistinctTimes(rows) => \A x \in rest : Cardinality(Newer(rows, x)) >= offset

Paged(c) ==
    /\ walk[c].left \subseteq rows
    /\ Behind(walk[c].left, walk[c].offset)
    /\ walk[c].over /\ DistinctTimes(rows) => walk[c].left = {}
    /\ pc[c] = "page" => total[c] =< Cardinality(rows)
    /\ pc[c] = "answered" /\ to[c] = "list" /\ reply[c] = "ok" =>
          /\ page[c] \subseteq rows
          /\ Cardinality(page[c]) < Limit => total[c] =< walk[c].offset + Cardinality(page[c])
          /\ Behind(walk[c].left \ page[c], walk[c].offset + Limit)
          /\ Cardinality(page[c]) < Limit /\ DistinctTimes(rows) => walk[c].left \subseteq page[c]

\* The created_at of a row is a number, and there are finitely many rows.
LEMMA RowTimes == TypeInv => /\ \A a \in rows : a.at \in Nat
                             /\ Cardinality(rows) \in Nat
  <1> SUFFICES ASSUME TypeInv PROVE (\A a \in rows : a.at \in Nat) /\ Cardinality(rows) \in Nat
    OBVIOUS
  <1>1. \A a \in rows : a.at \in Nat
    BY ServerAssumption DEF TypeInv, TypeOK, Row
  <1> QED
    BY <1>1, FS_CardinalityType DEF TypeInv

\* A step of a request keeps what is known of the rows its pages left out.
LEMMA PagedStep ==
    ASSUME TypeInv, NEW c \in Clients, Step(c), Routed(c), Paged(c)
    PROVE  Paged(c)'
  <1>0. rows' = rows /\ TypeOK
    BY SharedKeep DEF TypeInv
  <1> USE Functions, <1>0
  <1>1. ASSUME walk' = walk, pc'[c] # "page", pc'[c] = "answered" => to'[c] # "list" \/ reply'[c] # "ok"
        PROVE  Paged(c)'
    BY <1>1 DEF Paged, Behind
  <1>2. ASSUME NEW x, NEW y, QueryRaises(c, x, y), walk' = walk, x # "ok", y # "ok"
        PROVE  Paged(c)'
    <2>1. CASE pc[c] \in {"probe", "select"}
      <3>1. pc'[c] = "ping"
        BY <1>2, <2>1 DEF QueryRaises, Goto
      <3> QED
        BY <1>1, <1>2, <3>1
    <2>2. CASE pc[c] \notin {"probe", "select"}
      <3>1. pc'[c] = "answered" /\ reply'[c] # "ok"
        BY <1>2, <2>2 DEF QueryRaises, Answer, Goto
      <3> QED
        BY <1>1, <1>2, <3>1
    <2> QED
      BY <2>1, <2>2
  <1>3. ASSUME NEW r, Admit(c, r), walk' = walk
        PROVE  Paged(c)'
    <2>1. \/ pc'[c] = "answered" /\ reply'[c] # "ok"
          \/ pc'[c] = "admitted"
      BY <1>3 DEF Admit, Answer, Goto
    <2> QED
      BY <1>1, <1>3, <2>1
  <1>4. CASE Send(c)
    <2>1. pc'[c] = "arrived"
      BY <1>4 DEF Send, Goto
    <2>2. CASE walk' = walk
      BY <1>1, <2>1, <2>2
    <2>3. CASE walk' = [walk EXCEPT ![c] = NewWalk]
      <3>1. walk'[c] = [offset |-> 0, left |-> rows, over |-> FALSE]
        BY <2>3 DEF NewWalk
      <3>2. \A x \in rows : Cardinality(Newer(rows, x)) >= 0
        <4> SUFFICES ASSUME NEW x \in rows PROVE Cardinality(Newer(rows, x)) \in Nat
          OBVIOUS
        <4> QED
          BY NewerOnlyGrows DEF TypeInv
      <3> QED
        BY <2>1, <3>1, <3>2 DEF Paged, Behind
    <2> QED
      BY <1>4, <2>2, <2>3 DEF Send
  <1>5. CASE StartDependency(c)
    <2>1. walk' = walk
      BY <1>5 DEF StartDependency
    <2>2. CASE \E label \in {"probe", "lookup"} : Goto(c, label)
      <3>1. pc'[c] \in {"probe", "lookup"}
        BY <2>2 DEF Goto
      <3> QED
        BY <1>1, <2>1, <3>1
    <2>3. CASE Answer(c, "unauthorized")
      <3>1. reply'[c] = "unauthorized" /\ pc'[c] = "answered"
        BY <2>3 DEF Answer, Goto
      <3> QED
        BY <1>1, <2>1, <3>1
    <2>4. CASE Admit(c, None)
      BY <1>3, <2>1, <2>4
    <2> QED
      BY <1>5, <2>2, <2>3, <2>4, Zenon DEF StartDependency
  <1>6. CASE StartHandler(c)
    <2>1. walk' = walk /\ pc'[c] \in {"count", "probe"}
      BY <1>6 DEF StartHandler, Goto
    <2> QED
      BY <1>1, <2>1
  <1>7. CASE Login(c)
    <2>1. walk' = walk /\ to'[c] = "login"
      BY <1>7 DEF Login
    <2>2. pc'[c] = "answered"
      BY <1>7 DEF Login, Answer, Goto
    <2> QED
      BY <1>1, <2>1, <2>2
  <1>8. CASE LookupBearer(c)
    <2>1. walk' = walk /\ to' = to
      BY <1>8 DEF LookupBearer
    <2>2. CASE to[c] = "me"
      <3>1. pc' = [pc EXCEPT ![c] = "answered"]
        BY <1>8, <2>2 DEF LookupBearer, Answer, Goto
      <3>2. pc'[c] = "answered"
        BY <3>1
      <3> QED
        BY <1>1, <2>1, <2>2, <3>2
    <2>3. CASE to[c] # "me"
      <3>1. Admit(c, RoleOfBearer(token[c], ActiveAccount(token[c].sub)))
        BY <1>8, <2>3 DEF LookupBearer
      <3> QED
        BY <1>3, <2>1, <3>1
    <2> QED
      BY <2>2, <2>3
  <1>9. CASE CountRows(c)
    <2>1. walk' = walk /\ pc'[c] = "page" /\ total'[c] = Cardinality(rows)
      BY <1>9 DEF CountRows, Goto
    <2>2. total'[c] =< Cardinality(rows)
      BY <2>1, RowTimes
    <2> QED
      BY <2>1, <2>2 DEF Paged, Behind
  <1>10. CASE FetchPage(c)
    <2>1. PICK items \in PagesAt(walk[c].offset) : page' = [page EXCEPT ![c] = items]
      BY <1>10 DEF FetchPage
    <2>2. /\ pc[c] = "page" /\ pc'[c] = "answered" /\ walk' = walk /\ total' = total
          /\ page'[c] = items
      BY <1>10, <2>1 DEF FetchPage, Answer, Goto
    <2>3. /\ walk[c].offset \in Nat /\ Limit \in Nat /\ Cardinality(rows) \in Nat
          /\ total[c] \in Nat /\ total[c] =< Cardinality(rows) /\ IsFiniteSet(rows)
      BY <2>2, RowTimes, ServerAssumption DEF TypeInv, Paged
    <2>4. items \in Pages(rows, walk[c].offset, Limit)
      BY <2>1 DEF PagesAt
    <2>5. /\ items \subseteq rows /\ Cardinality(items) \in Nat
          /\ Cardinality(items) < Limit => Cardinality(rows) =< walk[c].offset + Cardinality(items)
      BY <2>3, <2>4, PageCounts
    <2>6. ASSUME DistinctTimes(rows), NEW x \in walk[c].left \ items
          PROVE  Cardinality(Newer(rows, x)) >= walk[c].offset + Limit /\ Cardinality(items) = Limit
      <3>1. x \in rows /\ Cardinality(Newer(rows, x)) >= walk[c].offset
        BY <2>6 DEF Paged, Behind
      <3> QED
        BY <2>3, <2>4, <2>6, <3>1, RowTimes, UnseenIsFurtherBack
    <2>7. Cardinality(items) < Limit => total[c] =< walk[c].offset + Cardinality(items)
      BY <2>3, <2>5
    <2>8. Cardinality(items) < Limit /\ DistinctTimes(rows) => walk[c].left \subseteq items
      BY <2>3, <2>5, <2>6
    <2> QED
      BY <2>2, <2>5, <2>6, <2>7, <2>8 DEF Paged, Behind
  <1>11. CASE OpenProbe(c)
    <2>1. walk' = walk /\ pc'[c] = "select"
      BY <1>11 DEF OpenProbe, Goto
    <2> QED
      BY <1>1, <2>1
  <1>12. CASE SelectOne(c)
    <2>1. walk' = walk /\ pc'[c] = "ping"
      BY <1>12 DEF SelectOne, Goto
    <2> QED
      BY <1>1, <2>1
  <1>13. CASE PingRedis(c)
    <2>1. walk' = walk /\ pc'[c] = "answered" /\ to'[c] # "list"
      BY <1>13 DEF PingRedis, Answer, Goto, Routed
    <2> QED
      BY <1>1, <2>1
  <1>14. CASE ConnectionTimeout(c)
    BY <1>2, <1>14 DEF ConnectionTimeout
  <1>15. CASE DatabaseFails(c)
    BY <1>2, <1>15 DEF DatabaseFails
  <1>16. CASE Close(c)
    <2>1. pc[c] = "answered" /\ pc'[c] = "idle"
      BY <1>16 DEF Close, Goto
    <2>2. CASE to[c] = "list" /\ reply[c] = "ok"
      <3>1. walk'[c] = [offset |-> walk[c].offset + Limit,
                        left |-> walk[c].left \ page[c],
                        over |-> Cardinality(page[c]) < Limit]
        BY <1>16, <2>2 DEF Close, Advance
      <3>2. /\ Behind(walk[c].left \ page[c], walk[c].offset + Limit)
            /\ Cardinality(page[c]) < Limit /\ DistinctTimes(rows) => walk[c].left \subseteq page[c]
        BY <2>1, <2>2 DEF Paged
      <3>3. walk[c].left \ page[c] \subseteq rows
        BY DEF Paged
      <3> QED
        BY <2>1, <3>1, <3>2, <3>3 DEF Paged, Behind
    <2>3. CASE ~(to[c] = "list" /\ reply[c] = "ok")
      <3>1. walk' = walk
        BY <1>16, <2>3 DEF Close
      <3> QED
        BY <1>1, <2>1, <3>1
    <2> QED
      BY <2>2, <2>3
  <1> QED
    BY <1>4, <1>5, <1>6, <1>7, <1>8, <1>9, <1>10, <1>11, <1>12, <1>13, <1>14, <1>15, <1>16
       DEF Step, TakeThread, Run

-----------------------------------------------------------------------------
(* The inductive invariant.                                                 *)

Inv == TypeInv /\ \A c \in Clients : Routed(c) /\ Served(c) /\ Paged(c)

\* Nothing has been asked for, so all of it holds at the start.
LEMMA InvInit == Init => Inv
  <1> SUFFICES ASSUME Init PROVE Inv
    OBVIOUS
  <1>1. TypeInv
    BY TypeInit
  <1> SUFFICES ASSUME NEW c \in Clients PROVE Routed(c) /\ Served(c) /\ Paged(c)
    BY <1>1 DEF Inv
  <1>2. /\ pc[c] = "idle" /\ grant[c] = None /\ conns = {} /\ rows = {}
        /\ walk[c] = [offset |-> 0, left |-> {}, over |-> FALSE]
    BY DEF Init, NewWalk
  <1>3. Routed(c)
    BY <1>2 DEF Routed
  <1>4. Served(c)
    BY <1>2 DEF Served
  <1>5. Paged(c)
    BY <1>2 DEF Paged, Behind
  <1> QED
    BY <1>3, <1>4, <1>5

\* Every step keeps the invariant: a client's own by the lemmas above, another
\* client's because it touches nothing of this one, and what happens around the
\* server because held follows the user and rows only arrive.
LEMMA InvStep == Inv /\ [Next]_vars => Inv'
  <1> SUFFICES ASSUME Inv, [Next]_vars PROVE Inv'
    OBVIOUS
  <1>1. TypeInv /\ TypeInv' /\ TypeOK
    BY TypeStep DEF Inv, TypeInv
  <1> SUFFICES ASSUME NEW c \in Clients PROVE (Routed(c) /\ Served(c) /\ Paged(c))'
    BY <1>1 DEF Inv
  <1>2. Routed(c) /\ Served(c) /\ Paged(c)
    BY DEF Inv
  <1>3. ASSUME Step(c) PROVE (Routed(c) /\ Served(c) /\ Paged(c))'
    BY <1>1, <1>2, <1>3, RoutedStep, ServedStep, PagedStep
  <1>4. ASSUME NEW d \in Clients, Step(d), d # c PROVE (Routed(c) /\ Served(c) /\ Paged(c))'
    <2>1. /\ pc'[c] = pc[c] /\ to'[c] = to[c] /\ grant'[c] = grant[c]
          /\ total'[c] = total[c] /\ page'[c] = page[c] /\ reply'[c] = reply[c]
          /\ held'[c] = held[c] /\ token'[c] = token[c] /\ walk'[c] = walk[c]
          /\ (<<c, "session">> \in conns' <=> <<c, "session">> \in conns)
          /\ (<<c, "probe">> \in conns' <=> <<c, "probe">> \in conns)
          /\ accounts' = accounts /\ clock' = clock /\ rows' = rows
      BY <1>1, <1>4, OthersKeep, SharedKeep
    <2>2. Routed(c)'
      BY <1>2, <2>1 DEF Routed
    <2>3. Served(c)'
      BY <1>2, <2>1 DEF Served, Decodes
    <2>4. Paged(c)'
      BY <1>2, <2>1 DEF Paged, Behind
    <2> QED
      BY <2>2, <2>3, <2>4
  <1>5. ASSUME NEW user \in Users, EditUser(user) PROVE (Routed(c) /\ Served(c) /\ Paged(c))'
    <2>1. /\ UNCHANGED <<pc, to, grant, total, page, reply, token, conns, rows, walk, clock>>
          /\ held'[c] = IF held[c] # {} /\ token[c].sub = user
                        THEN held[c] \cup {Standing(accounts'[user])} ELSE held[c]
      BY <1>5 DEF EditUser, EditAccount
    <2>2. Routed(c)'
      BY <1>2, <2>1 DEF Routed
    <2>3. Paged(c)'
      BY <1>2, <2>1 DEF Paged, Behind
    <2>4. held[c] \subseteq held'[c] /\ (held[c] = {} => held'[c] = {})
      BY <2>1
    <2>5. \A other \in Users \ {user} : accounts'[other] = accounts[other]
      BY <1>1, <1>5 DEF EditUser, EditAccount, TypeOK
    <2>6. ASSUME token[c] \in Token, Standing(accounts[token[c].sub]) \in held[c]
          PROVE  Standing(accounts'[token[c].sub]) \in held'[c]
      <3>1. token[c].sub \in Users
        BY <2>6 DEF Token
      <3>2. CASE token[c].sub = user
        BY <2>1, <2>6, <3>2
      <3>3. CASE token[c].sub # user
        BY <2>1, <2>5, <2>6, <3>1, <3>3
      <3> QED
        BY <3>2, <3>3
    <2>7. Standing(accounts[token[c].sub])' = Standing(accounts'[token[c].sub])
      BY <2>1 DEF Standing
    <2>8. Served(c)'
      <3>1. pc[c] \in {"arrived", "lookup"} /\ held'[c] # {} =>
              token[c] \in Token /\ Standing(accounts[token[c].sub])' \in held'[c]
        BY <1>2, <2>4, <2>6, <2>7 DEF Served
      <3>2. Decodes(token[c])' = Decodes(token[c])
        BY <2>1 DEF Decodes
      <3> QED
        BY <1>2, <2>1, <2>4, <3>1, <3>2 DEF Served
    <2> QED
      BY <2>2, <2>3, <2>8
  <1>6. ASSUME InsertRow PROVE (Routed(c) /\ Served(c) /\ Paged(c))'
    <2>1. /\ rows \subseteq rows' /\ UNCHANGED <<requestVars, token, conns, walk, accounts, clock>>
      BY <1>6 DEF InsertRow
    <2>2. Routed(c)' /\ Served(c)'
      BY <1>2, <2>1 DEF Routed, Served, Decodes
    <2>3. /\ DistinctTimes(rows)' => DistinctTimes(rows)
          /\ \A x : /\ Cardinality(Newer(rows, x)) \in Nat /\ Cardinality(Newer(rows', x)) \in Nat
                   /\ Cardinality(Newer(rows, x)) =< Cardinality(Newer(rows', x))
      BY <1>1, <2>1, NewerOnlyGrows DEF TypeInv
    <2>4. Cardinality(rows) \in Nat /\ Cardinality(rows') \in Nat /\ Cardinality(rows) =< Cardinality(rows')
      BY <1>1, <2>1, FS_CardinalityType, FS_Subset DEF TypeInv
    <2>5. /\ walk[c].offset \in Nat /\ Limit \in Nat /\ total[c] \in Nat
      BY <1>1, ServerAssumption DEF TypeOK
    <2>6. ASSUME NEW rest, NEW offset \in Nat, Behind(rest, offset)
          PROVE  DistinctTimes(rows') => \A x \in rest : Cardinality(Newer(rows', x)) >= offset
      <3> SUFFICES ASSUME DistinctTimes(rows'), NEW x \in rest
                   PROVE Cardinality(Newer(rows', x)) >= offset
        OBVIOUS
      <3>1. Cardinality(Newer(rows, x)) >= offset
        BY <2>3, <2>6 DEF Behind
      <3> QED
        BY <2>3, <3>1
    <2>7. Paged(c)'
      <3>1. Behind(walk[c].left, walk[c].offset)'
        BY <1>2, <2>1, <2>5, <2>6 DEF Paged, Behind
      <3>2. pc[c] = "answered" /\ to[c] = "list" /\ reply[c] = "ok" =>
               Behind(walk[c].left \ page[c], walk[c].offset + Limit)'
        <4> SUFFICES ASSUME pc[c] = "answered", to[c] = "list", reply[c] = "ok"
                     PROVE  Behind(walk[c].left \ page[c], walk[c].offset + Limit)'
          OBVIOUS
        <4>1. Behind(walk[c].left \ page[c], walk[c].offset + Limit) /\ walk[c].offset + Limit \in Nat
          BY <1>2, <2>5 DEF Paged
        <4>2. DistinctTimes(rows') => \A x \in walk[c].left \ page[c] :
                                         Cardinality(Newer(rows', x)) >= walk[c].offset + Limit
          BY <2>6, <4>1
        <4> QED
          BY <2>1, <4>2 DEF Behind
      <3>3. pc[c] = "page" => total[c] =< Cardinality(rows')
        BY <1>2, <2>4, <2>5 DEF Paged
      <3> QED
        BY <1>2, <2>1, <2>3, <3>1, <3>2, <3>3 DEF Paged
    <2> QED
      BY <2>2, <2>7
  <1>7. ASSUME ClockTicks PROVE (Routed(c) /\ Served(c) /\ Paged(c))'
    <2>1. clock' = clock + 1 /\ UNCHANGED <<requestVars, token, conns, rows, walk, accounts>>
      BY <1>7 DEF ClockTicks, Tick
    <2>2. Routed(c)' /\ Paged(c)'
      BY <1>2, <2>1 DEF Routed, Paged, Behind
    <2>3. token[c] # None => token[c].exp \in Nat
      BY <1>1 DEF TypeOK, Token
    <2>4. clock \in Nat /\ clock' = clock + 1
      BY <1>1, <2>1 DEF TypeOK
    <2>5. token[c] # None /\ token[c].exp < clock => token[c].exp < clock'
      BY <2>3, <2>4
    <2>6. Decodes(token[c])' => Decodes(token[c])
      BY <2>1, <2>5 DEF Decodes
    <2>7. Served(c)'
      BY <1>2, <2>1, <2>5, <2>6 DEF Served
    <2> QED
      BY <2>2, <2>7
  <1>8. CASE UNCHANGED vars
    BY <1>2, <1>8 DEF Routed, Served, Paged, Behind, Decodes
  <1> QED
    BY <1>3, <1>4, <1>5, <1>6, <1>7, <1>8 DEF Next, Step

\* The inductive invariant holds in every reachable state.
LEMMA Invariant == Spec => []Inv
  BY InvInit, InvStep, PTL DEF Spec

\* require_role: a bearer is served with a role its user really had, active,
\* since the request was sent, for any users, edits and tokens.
THEOREM BearersServedAsHeld == Spec => []BearerServesAsHeld
  <1>1. Inv => BearerServesAsHeld
    BY DEF Inv, Served, BearerServesAsHeld
  <1> QED
    BY <1>1, Invariant, PTL

\* require_role: a key decides only for a request that had no live token of an
\* active user, for any keys, even equal ones.
THEOREM KeysServeAlone == Spec => []KeyServesOnlyAlone
  <1>1. Inv => KeyServesOnlyAlone
    BY DEF Inv, Served, KeyServesOnlyAlone
  <1> QED
    BY <1>1, Invariant, PTL

\* list_*: an answer with fewer rows than its limit reached the end of the total
\* it reports, however many rows arrive between the count and the page.
THEOREM ShortPagesAreLast == Spec => []ShortPageIsLast
  <1>1. Inv => ShortPageIsLast
    BY DEF Inv, Paged, ShortPageIsLast
  <1> QED
    BY <1>1, Invariant, PTL

\* list_*: paging to a short page shows every row that was there at the start,
\* for any rows with different created_at, any limit and any arrivals.
THEOREM WalksMissNothing == Spec => []WalkMissesNothing
  <1>1. Inv => WalkMissesNothing
    BY DEF Inv, Paged, WalkMissesNothing
  <1> QED
    BY <1>1, Invariant, PTL

\* The connections that are out belong to other open requests, but one.
LEMMA PoolHolders ==
    ASSUME Inv, NEW c \in Clients, <<c, "probe">> \notin conns, ~PoolFree
    PROVE  PoolSize =< 1 + 2 * Cardinality({d \in Clients \ {c} : pc[d] # "idle"})
  <1> DEFINE others == {d \in Clients \ {c} : pc[d] # "idle"}
             kinds == {"session", "probe"}
             theirs == others \X kinds
             most == theirs \cup {<<c, "session">>}
  <1>1. IsFiniteSet(others) /\ Cardinality(others) \in Nat
    <2>1. others \subseteq Clients /\ IsFiniteSet(Clients)
      BY ServerAssumption
    <2> QED
      BY <2>1, FS_Subset, FS_CardinalityType
  <1>2. IsFiniteSet(kinds) /\ Cardinality(kinds) = 2
    <2>1. IsFiniteSet({"session"}) /\ Cardinality({"session"}) = 1
      BY FS_Singleton
    <2>2. IsFiniteSet({"session"} \cup {"probe"}) /\ Cardinality({"session"} \cup {"probe"}) = 2
      BY <2>1, FS_AddElement
    <2>3. kinds = {"session"} \cup {"probe"}
      OBVIOUS
    <2> QED
      BY <2>2, <2>3
  <1>3. IsFiniteSet(theirs) /\ Cardinality(theirs) = Cardinality(others) * 2
    <2> HIDE DEF others, kinds
    <2>1. IsFiniteSet(theirs) /\ Cardinality(theirs) = Cardinality(others) * Cardinality(kinds)
      BY <1>1, <1>2, FS_Product
    <2> QED
      BY <1>2, <2>1
  <1>4. <<c, "session">> \notin theirs
    OBVIOUS
  <1>5. IsFiniteSet(most) /\ Cardinality(most) = Cardinality(theirs) + 1
    <2> HIDE DEF theirs
    <2> QED
      BY <1>3, <1>4, FS_AddElement
  <1>6. conns \subseteq most
    <2> SUFFICES ASSUME NEW x \in conns PROVE x \in most
      OBVIOUS
    <2>1. PICK d \in Clients, k \in kinds : x = <<d, k>>
      BY DEF Inv, TypeInv, TypeOK
    <2>2. pc[d] # "idle"
      BY <2>1 DEF Inv, Routed
    <2> QED
      BY <2>1, <2>2
  <1>7. Cardinality(conns) =< Cardinality(most) /\ Cardinality(conns) \in Nat
    <2> HIDE DEF most
    <2> QED
      BY <1>5, <1>6, FS_Subset, FS_CardinalityType
  <1>8. Cardinality(conns) >= PoolSize
    BY <1>7, ServerAssumption DEF PoolFree
  <1> HIDE DEF others
  <1>9. PoolSize =< 1 + 2 * Cardinality(others)
    BY <1>1, <1>3, <1>5, <1>7, <1>8, ServerAssumption
  <1> QED
    BY <1>9 DEF others

\* Only a request that waited for a connection in vain is refused one.
LEMMA OnlyTimeoutRefuses ==
    ASSUME TypeOK, NEW c \in Clients, Step(c), reply[c] = "none", reply'[c] \in Refused
    PROVE  ConnectionTimeout(c)
  <1> USE Functions DEF Refused
  <1>1. ASSUME NEW r, Admit(c, r) PROVE FALSE
    BY <1>1 DEF Admit, Goto, Answer
  <1>2. /\ ~Answer(c, "ok") /\ ~Answer(c, "bad_request") /\ ~Answer(c, "unauthorized")
        /\ ~Answer(c, "redis_down")
    BY DEF Answer
  <1>3. ~StartDependency(c)
    <2>1. ~(reply' = reply)
      OBVIOUS
    <2> QED
      BY <1>1, <1>2, <2>1, Zenon DEF StartDependency
  <1>4. ~Login(c)
    BY <1>2, Zenon DEF Login
  <1>5. ~LookupBearer(c)
    <2>1. CASE to[c] = "me" /\ ActiveAccount(token[c].sub) = None
      BY <1>2, <2>1 DEF LookupBearer
    <2>2. CASE to[c] = "me" /\ ActiveAccount(token[c].sub) # None
      BY <1>2, <2>2 DEF LookupBearer
    <2>3. CASE to[c] # "me"
      BY <1>1, <2>3 DEF LookupBearer
    <2> QED
      BY <2>1, <2>2, <2>3
  <1>6. ~PingRedis(c) /\ ~FetchPage(c)
    BY <1>2 DEF PingRedis, FetchPage
  <1>7. ~DatabaseFails(c)
    <2>1. ASSUME QueryRaises(c, "database_failed", "error_failed") PROVE FALSE
      BY <2>1 DEF QueryRaises, Goto, Answer
    <2> QED
      BY <2>1 DEF DatabaseFails
  <1>8. ~Send(c) /\ ~StartHandler(c) /\ ~CountRows(c) /\ ~OpenProbe(c) /\ ~SelectOne(c)
    BY DEF Send, StartHandler, CountRows, OpenProbe, SelectOne
  <1>9. ~Close(c)
    BY DEF Close
  <1> QED
    BY <1>3, <1>4, <1>5, <1>6, <1>7, <1>8, <1>9 DEF Step, TakeThread, Run

\* get_db_session and get_system_status: a connection is refused only while
\* enough other requests are open to hold the pool, for any pool and threads.
THEOREM RefusedInACrowd == Spec => RefusedOnlyInACrowd
  <1> DEFINE Crowd ==
        \A c \in Clients :
            reply[c] = "none" /\ reply'[c] \in Refused
            => PoolSize =< 1 + 2 * Cardinality({d \in Clients \ {c} : pc[d] # "idle"})
  <1>1. ASSUME Inv, [Next]_vars PROVE [Crowd]_vars
    <2> SUFFICES ASSUME Next, NEW c \in Clients, reply[c] = "none", reply'[c] \in Refused
                 PROVE  PoolSize =< 1 + 2 * Cardinality({d \in Clients \ {c} : pc[d] # "idle"})
      BY <1>1
    <2>1. TypeOK
      BY <1>1 DEF Inv, TypeInv
    <2>2. reply'[c] # reply[c]
      BY DEF Refused
    <2>3. Step(c)
      <3>1. ASSUME NEW d \in Clients, Step(d) PROVE d = c
        BY <2>1, <2>2, <3>1, OthersKeep
      <3>2. ~InsertRow /\ ~ClockTicks /\ \A user \in Users : ~EditUser(user)
        BY <2>2 DEF InsertRow, ClockTicks, EditUser
      <3> QED
        BY <3>1, <3>2 DEF Next, Step
    <2>4. ConnectionTimeout(c)
      BY <2>1, <2>3, OnlyTimeoutRefuses
    <2>5. ~PoolFree /\ pc[c] # "select"
      BY <2>4 DEF ConnectionTimeout
    <2>6. <<c, "probe">> \notin conns
      BY <1>1, <2>5 DEF Inv, Routed
    <2> QED
      BY <1>1, <2>5, <2>6, PoolHolders
  <1> QED
    BY <1>1, Invariant, PTL DEF Spec, RefusedOnlyInACrowd
=============================================================================
