-------------------------------- MODULE Access --------------------------------
(***************************************************************************)
(* Who a request speaks for: the rows of the users table, the signed bearer *)
(* tokens that carry a user's name until they expire, and the API keys that *)
(* stand in for a user when there is none.  A token the server did not sign *)
(* does not decode; it is the same as sending none.                         *)
(***************************************************************************)
EXTENDS Integers, FiniteSets

CONSTANTS
    Users,        \* the seeded users; nothing removes one
    None,
    AdminKey, OperatorKey, TraderKey,  \* Settings; two of them may be equal
    TokenSeconds  \* the lifetime of a token, in ticks of the clock

ASSUME LifetimeAssumption == TokenSeconds \in Nat

Roles == {"TRADER", "OPERATOR", "ADMIN"}
Account == [role: Roles, active: BOOLEAN]
Token == [sub: Users, role: Roles, exp: Nat]

ASSUME NoneIsNoOne ==
    None \notin Users \cup Account \cup Token \cup Roles \cup {AdminKey, OperatorKey, TraderKey}

VARIABLES
    accounts,  \* the row of each user: role and is_active
    clock

\* Mutant: the lifetime is taken off the time of issue.
IssueExpired(user) ==
    [sub |-> user, role |-> accounts[user].role, exp |-> clock - TokenSeconds]

\* create_access_token: the role is written into the token as it is now.
IssueToken(user) ==
    [sub |-> user, role |-> accounts[user].role, exp |-> clock + TokenSeconds]

\* decode_access_token: the last second of the lifetime is still inside it.
Decodes(token) == token # None /\ ~(token.exp < clock)

\* _resolve_role_from_api_key: the strongest key is compared first.
RoleOfKey(key) ==
    IF key = AdminKey THEN "ADMIN"
    ELSE IF key = OperatorKey THEN "OPERATOR"
    ELSE IF key = TraderKey THEN "TRADER"
    ELSE None

\* The user row the lookup returns, None when it is not there or not active.
ActiveAccount(user) ==
    IF user \in Users /\ accounts[user].active THEN accounts[user] ELSE None

\* Mutant: the role claim of the token decides, not the row.
RoleOfClaim(token, account) == IF account = None THEN None ELSE token.role

\* The role of a bearer whose user is active.
RoleOfBearer(token, account) == IF account = None THEN None ELSE account.role

\* Mutant: a key that fits decides before the bearer.
GrantKeyFirst(bearerRole, key) ==
    IF key # None /\ RoleOfKey(key) # None THEN [role |-> RoleOfKey(key), by |-> "key"]
    ELSE [role |-> bearerRole, by |-> "user"]

\* require_role: the bearer's role, or the key's when there is no such user.
Grant(bearerRole, key) ==
    IF bearerRole # None THEN [role |-> bearerRole, by |-> "user"]
    ELSE [role |-> IF key = None THEN None ELSE RoleOfKey(key), by |-> "key"]

-----------------------------------------------------------------------------

\* Someone with access to the database changes a role or deactivates a user.
EditAccount(user) ==
    /\ \/ \E role \in Roles \ {accounts[user].role} :
              accounts' = [accounts EXCEPT ![user].role = role]
       \/ accounts' = [accounts EXCEPT ![user].active = ~@]
    /\ UNCHANGED clock

Tick == clock' = clock + 1 /\ UNCHANGED accounts
=============================================================================
