---------------------------- MODULE TokenGrants ----------------------------
(***************************************************************************)
(* The OAuth grants of the authorization server: authorization codes,      *)
(* opaque access tokens and rotating refresh-token families, and every     *)
(* transaction that issues, spends or revokes them.                        *)
(*                                                                         *)
(* HTTP handlers run concurrently against one PostgreSQL database at       *)
(* READ COMMITTED.  A step is one statement, or a group of statements of   *)
(* which only the last can be observed or delayed by another transaction:  *)
(*   - an UPDATE fixes the rows it will touch from the snapshot taken when *)
(*     it starts (TakeSnapshot), waits for the row locks of the others,    *)
(*     and re-evaluates its WHERE clause on the rows it has waited for     *)
(*     (UpdateRows); a row inserted meanwhile is not in the snapshot;      *)
(*   - SELECT ... FOR UPDATE on a user or a client conflicts with the      *)
(*     FOR KEY SHARE lock that inserting a row that references it takes;   *)
(*   - effects are visible when the transaction commits, and a transaction *)
(*     that ends in any other way (Crash) leaves none.                     *)
(***************************************************************************)
EXTENDS Naturals, FiniteSets, Sequences

CONSTANTS
    Users, Clients, Sessions, Grants, Codes,
    Issues,         \* successful token responses: an access token and, for
                    \* offline_access, a refresh token; the first Issue of a
                    \* refresh family names the family
    SessionUser,    \* the user of each browser session
    Workers,        \* request slots that run concurrently
    Ops,            \* the operations the instance exercises
    None

OpNames == {"login", "consent", "authorize", "exchange", "refresh",
            "client_credentials", "revoke_token", "revoke_access",
            "revoke_session", "suspend", "reactivate", "password_change",
            "disable", "enable", "change_scopes", "change_redirects",
            "revoke_consent", "expire"}

Tables == {"users", "clients", "sessions", "grants", "codes", "access",
           "refresh"}

CodeRow  == [session : Sessions, client : Clients]
GrantRow == [user : Users, client : Clients]
TokenRow == [user : Users \cup {None}, client : Clients,
             family : Issues \cup {None}, refresh : BOOLEAN]

ASSUME SessionUserAssumption == SessionUser \in [Sessions -> Users]
ASSUME OpsAssumption == Ops \subseteq OpNames
ASSUME IdsAssumption == Codes \cap Issues = {}
ASSUME NoneAssumption ==
    None \notin Users \cup Clients \cup Codes \cup Issues \cup CodeRow
                  \cup GrantRow \cup TokenRow

VARIABLES
    userStatus,       \* users.status
    clientStatus,     \* oidc_clients.status
    sessions,         \* auth_sessions rows
    revokedSessions,  \* ... with revoked_at set
    grants,           \* consent_grants rows
    revokedGrants,    \* ... with revoked_at set
    codes,            \* authorization_codes rows
    usedCodes,        \* ... with used_at set
    tokens,           \* access_tokens and refresh_tokens rows, by Issue
    revokedAccess,    \* access_tokens with revoked_at set
    rotated,          \* refresh_tokens with rotated_at set
    revokedRefresh,   \* refresh_tokens with revoked_at set
    expired,          \* codes and refresh tokens past expires_at
    req,              \* the request each worker is serving
    source            \* history: the code or refresh token an Issue spent

rowVars == <<userStatus, clientStatus, sessions, revokedSessions, grants,
             revokedGrants, codes, usedCodes, tokens, revokedAccess, rotated,
             revokedRefresh, expired, source>>
vars == <<userStatus, clientStatus, sessions, revokedSessions, grants,
          revokedGrants, codes, usedCodes, tokens, revokedAccess, rotated,
          revokedRefresh, expired, req, source>>

NoLocks == [t \in Tables |-> {}]

\* What a worker knows of the request it serves: the operation and where it
\* is in it, the row the operation is about, the revoking statements done, the
\* rows the running one has selected, and the locks held, by table.
NewRequest(op, pc, arg, locked) ==
    [op |-> op, pc |-> pc, arg |-> arg, stage |-> 0, snap |-> {},
     locked |-> locked]

\* A worker between two requests, holding nothing.
Idle == NewRequest("none", "idle", None, NoLocks)

Init ==
    /\ userStatus = [u \in Users |-> "active"]
    /\ clientStatus = [c \in Clients |-> "active"]
    /\ sessions = {}
    /\ revokedSessions = {}
    /\ grants = [g \in Grants |-> None]
    /\ revokedGrants = {}
    /\ codes = [k \in Codes |-> None]
    /\ usedCodes = {}
    /\ tokens = [i \in Issues |-> None]
    /\ revokedAccess = {}
    /\ rotated = {}
    /\ revokedRefresh = {}
    /\ expired = {}
    /\ req = [w \in Workers |-> Idle]
    /\ source = [i \in Issues |-> None]

-----------------------------------------------------------------------------
(* Rows and row locks.                                                     *)

StoredCodes   == {k \in Codes : codes[k] # None}
StoredTokens  == {i \in Issues : tokens[i] # None}
StoredRefresh == {i \in StoredTokens : tokens[i].refresh}
StoredGrants  == {g \in Grants : grants[g] # None}

\* A refresh token a rotation still accepts, expiry aside.
LiveRefresh(i) == i \in StoredRefresh /\ i \notin rotated \cup revokedRefresh
LiveAccess(i)  == i \in StoredTokens /\ i \notin revokedAccess

CodeUser(k) == SessionUser[codes[k].session]

\* No other transaction holds a lock on a row of R in table t.
Free(w, t, R) == \A v \in Workers \ {w} : req[v].locked[t] \cap R = {}

\* No transaction holds one: for a statement outside the worker's transaction.
Unlocked(t, r) == \A v \in Workers : r \notin req[v].locked[t]

Lock(w, t, R) == [req[w].locked EXCEPT ![t] = @ \cup R]

Starts(w, op) == req[w] = Idle /\ op \in Ops

\* Bounds: a request that inserts a row starts while an identifier is left for
\* it and for the requests of its kind that are already under way.
RowsInFlight(ops) == Cardinality({v \in Workers : req[v].op \in ops})
TokenBudget ==
    Cardinality(StoredTokens)
      + RowsInFlight({"exchange", "refresh", "client_credentials"})
    < Cardinality(Issues)
CodeBudget ==
    Cardinality(StoredCodes) + RowsInFlight({"authorize"}) < Cardinality(Codes)
GrantBudget ==
    Cardinality(StoredGrants) + RowsInFlight({"consent"}) < Cardinality(Grants)
FreshSessions(u) == {s \in Sessions \ sessions : SessionUser[s] = u}
SessionBudget(u) ==
    Cardinality({v \in Workers : /\ req[v].op \in {"login", "password_change"}
                                 /\ req[v].arg = u})
    < Cardinality(FreshSessions(u))

Serve(w, op, pc, arg) ==
    req' = [req EXCEPT ![w] = NewRequest(op, pc, arg, NoLocks)]

\* A revocation that first locks row r of table t FOR UPDATE.
ServeHolding(w, op, arg, t, r) ==
    req' = [req EXCEPT ![w] =
        NewRequest(op, "snapshot", arg, [NoLocks EXCEPT ![t] = {r}])]

\* The request goes on, to the statement named by pc.
Proceed(w, pc, stage, snap, locked) ==
    req' = [req EXCEPT ![w] =
        [op |-> req[w].op, pc |-> pc, arg |-> req[w].arg, stage |-> stage,
         snap |-> snap, locked |-> locked]]

Finish(w) == req' = [req EXCEPT ![w] = Idle]

At(w, op, pc) == req[w].op = op /\ req[w].pc = pc

SessionLive(s)   == s \in sessions \ revokedSessions
SessionUsable(s) == SessionLive(s) /\ userStatus[SessionUser[s]] = "active"

-----------------------------------------------------------------------------
(* Login, consent and authorization: the checks, then one INSERT that      *)
(* takes key shares on the user and the client.  The clients here have no  *)
(* policy that asks for consent every time, so the one-use markers of that *)
(* policy are never read.                                                  *)

\* The password, and the second factor if there is one, were accepted.
LoginCheck(w, u) ==
    /\ Starts(w, "login")
    /\ SessionBudget(u)
    /\ userStatus[u] = "active"
    /\ Serve(w, "login", "insert", u)
    /\ UNCHANGED rowVars

LoginInsert(w, s) ==
    /\ At(w, "login", "insert")
    /\ s \in FreshSessions(req[w].arg)
    /\ Free(w, "users", {req[w].arg})
    /\ sessions' = sessions \cup {s}
    /\ Finish(w)
    /\ UNCHANGED <<userStatus, clientStatus, revokedSessions, grants,
                   revokedGrants, codes, usedCodes, tokens, revokedAccess,
                   rotated, revokedRefresh, expired, source>>

CreateConsentCheck(w, s, c) ==
    /\ Starts(w, "consent")
    /\ GrantBudget
    /\ SessionUsable(s)
    /\ clientStatus[c] = "active"
    /\ Serve(w, "consent", "insert", [user |-> SessionUser[s], client |-> c])
    /\ UNCHANGED rowVars

CreateConsentInsert(w, g) ==
    /\ At(w, "consent", "insert")
    /\ grants[g] = None
    /\ Free(w, "users", {req[w].arg.user})
    /\ Free(w, "clients", {req[w].arg.client})
    /\ grants' = [grants EXCEPT ![g] = req[w].arg]
    /\ Finish(w)
    /\ UNCHANGED <<userStatus, clientStatus, sessions, revokedSessions,
                   revokedGrants, codes, usedCodes, tokens, revokedAccess,
                   rotated, revokedRefresh, expired, source>>

HasActiveConsent(u, c) ==
    \E g \in StoredGrants \ revokedGrants :
        grants[g] = [user |-> u, client |-> c]

AuthorizeCheck(w, s, c) ==
    /\ Starts(w, "authorize")
    /\ CodeBudget
    /\ clientStatus[c] = "active"
    /\ SessionUsable(s)
    /\ HasActiveConsent(SessionUser[s], c)
    /\ Serve(w, "authorize", "insert", [session |-> s, client |-> c])
    /\ UNCHANGED rowVars

AuthorizeInsert(w, k) ==
    /\ At(w, "authorize", "insert")
    /\ codes[k] = None
    /\ Free(w, "users", {SessionUser[req[w].arg.session]})
    /\ Free(w, "clients", {req[w].arg.client})
    /\ codes' = [codes EXCEPT ![k] = req[w].arg]
    /\ Finish(w)
    /\ UNCHANGED <<userStatus, clientStatus, sessions, revokedSessions, grants,
                   revokedGrants, usedCodes, tokens, revokedAccess, rotated,
                   revokedRefresh, expired, source>>

-----------------------------------------------------------------------------
(* grant_type=authorization_code.                                          *)

ExchangeLoad(w, k) ==
    /\ Starts(w, "exchange")
    /\ TokenBudget
    /\ k \in StoredCodes
    /\ k \notin usedCodes \cup expired
    /\ Serve(w, "exchange", "check", k)
    /\ UNCHANGED rowVars

\* The next check passed, or the request is refused.
Check(w, passed, pc) ==
    IF passed THEN Proceed(w, pc, 0, {}, NoLocks) ELSE Finish(w)

\* Three reads: the client, the user, and the session the code is bound to.
ExchangeCheckClient(w) ==
    /\ At(w, "exchange", "check")
    /\ LET code == codes[req[w].arg]
       IN  Check(w, clientStatus[code.client] = "active", "check_user")
    /\ UNCHANGED rowVars

ExchangeCheckUser(w) ==
    /\ At(w, "exchange", "check_user")
    /\ Check(w, userStatus[CodeUser(req[w].arg)] = "active", "check_session")
    /\ UNCHANGED rowVars

ExchangeCheckSession(w) ==
    /\ At(w, "exchange", "check_session")
    /\ Check(w, SessionLive(codes[req[w].arg].session), "consume")
    /\ UNCHANGED rowVars

\* Mutant: the UPDATE no longer tests used_at.
ExchangeConsume_IgnoresUsed(w) ==
    /\ At(w, "exchange", "consume")
    /\ Free(w, "codes", {req[w].arg})
    /\ Proceed(w, "insert", 0, {}, Lock(w, "codes", {req[w].arg}))
    /\ UNCHANGED rowVars

\* Mutant: a request that lost the race tries again instead of failing.
ExchangeConsume_Retries(w) ==
    /\ At(w, "exchange", "consume")
    /\ Free(w, "codes", {req[w].arg})
    /\ req[w].arg \notin usedCodes
    /\ Proceed(w, "insert", 0, {}, Lock(w, "codes", {req[w].arg}))
    /\ UNCHANGED rowVars

\* UPDATE ... WHERE used_at IS NULL AND expires_at > $1, where $1 is the time
\* ExchangeLoad read: a code that was fresh then passes the expiry test here.
ExchangeConsume(w) ==
    /\ At(w, "exchange", "consume")
    /\ Free(w, "codes", {req[w].arg})
    /\ IF req[w].arg \notin usedCodes
       THEN Proceed(w, "insert", 0, {}, Lock(w, "codes", {req[w].arg}))
       ELSE Finish(w)
    /\ UNCHANGED rowVars

\* Mutant: the family is named after the code.
ExchangeCommit_CodeAsFamily(w, i, offline) ==
    /\ At(w, "exchange", "insert")
    /\ tokens[i] = None
    /\ LET k == req[w].arg
       IN  /\ Free(w, "users", {CodeUser(k)})
           /\ Free(w, "clients", {codes[k].client})
           /\ usedCodes' = usedCodes \cup {k}
           /\ tokens' = [tokens EXCEPT ![i] =
                  [user |-> CodeUser(k), client |-> codes[k].client,
                   family |-> k, refresh |-> offline]]
           /\ source' = [source EXCEPT ![i] = k]
    /\ Finish(w)
    /\ UNCHANGED <<userStatus, clientStatus, sessions, revokedSessions, grants,
                   revokedGrants, codes, revokedAccess, rotated,
                   revokedRefresh, expired>>

\* The two INSERTs and the COMMIT; offline: offline_access was granted to a
\* client that may use refresh tokens.
ExchangeCommit(w, i, offline) ==
    /\ At(w, "exchange", "insert")
    /\ tokens[i] = None
    /\ LET k == req[w].arg
       IN  /\ Free(w, "users", {CodeUser(k)})
           /\ Free(w, "clients", {codes[k].client})
           /\ usedCodes' = usedCodes \cup {k}
           /\ tokens' = [tokens EXCEPT ![i] =
                  [user |-> CodeUser(k), client |-> codes[k].client,
                   family |-> IF offline THEN i ELSE None,
                   refresh |-> offline]]
           /\ source' = [source EXCEPT ![i] = k]
    /\ Finish(w)
    /\ UNCHANGED <<userStatus, clientStatus, sessions, revokedSessions, grants,
                   revokedGrants, codes, revokedAccess, rotated,
                   revokedRefresh, expired>>

-----------------------------------------------------------------------------
(* grant_type=refresh_token.                                               *)

\* A token that was rotated before is a reuse; one that is revoked or expired
\* is refused.
RefreshLoad(w, i) ==
    /\ Starts(w, "refresh")
    /\ i \in StoredRefresh
    /\ IF i \in rotated
       THEN Serve(w, "family", "snapshot", tokens[i].family)
       ELSE /\ TokenBudget
            /\ i \notin revokedRefresh \cup expired
            /\ Serve(w, "refresh", "check", i)
    /\ UNCHANGED rowVars

RefreshCheckUser(w) ==
    /\ At(w, "refresh", "check")
    /\ Check(w, userStatus[tokens[req[w].arg].user] = "active", "check_client")
    /\ UNCHANGED rowVars

RefreshCheckClient(w) ==
    /\ At(w, "refresh", "check_client")
    /\ Check(w, clientStatus[tokens[req[w].arg].client] = "active", "rotate")
    /\ UNCHANGED rowVars

\* Mutant: the UPDATE no longer tests rotated_at.
RefreshRotate_IgnoresRotated(w) ==
    /\ At(w, "refresh", "rotate")
    /\ Free(w, "refresh", {req[w].arg})
    /\ req[w].arg \notin revokedRefresh
    /\ Proceed(w, "insert", 0, {}, Lock(w, "refresh", {req[w].arg}))
    /\ UNCHANGED rowVars

\* Mutant: the UPDATE no longer tests revoked_at.
RefreshRotate_IgnoresRevoked(w) ==
    /\ At(w, "refresh", "rotate")
    /\ Free(w, "refresh", {req[w].arg})
    /\ req[w].arg \notin rotated
    /\ Proceed(w, "insert", 0, {}, Lock(w, "refresh", {req[w].arg}))
    /\ UNCHANGED rowVars

\* Mutant: the token is marked rotated in a transaction of its own, as
\* mark_refresh_token_rotated would.
RefreshRotate_MarksFirst(w) ==
    /\ At(w, "refresh", "rotate")
    /\ Free(w, "refresh", {req[w].arg})
    /\ LiveRefresh(req[w].arg)
    /\ rotated' = rotated \cup {req[w].arg}
    /\ Proceed(w, "insert", 0, {}, NoLocks)
    /\ UNCHANGED <<userStatus, clientStatus, sessions, revokedSessions, grants,
                   revokedGrants, codes, usedCodes, tokens, revokedAccess,
                   revokedRefresh, expired, source>>

\* UPDATE ... WHERE rotated_at IS NULL AND revoked_at IS NULL.  No row: the
\* transaction is rolled back and the family is revoked.
RefreshRotate(w) ==
    /\ At(w, "refresh", "rotate")
    /\ Free(w, "refresh", {req[w].arg})
    /\ IF LiveRefresh(req[w].arg)
       THEN Proceed(w, "insert", 0, {}, Lock(w, "refresh", {req[w].arg}))
       ELSE Serve(w, "family", "snapshot", tokens[req[w].arg].family)
    /\ UNCHANGED rowVars

\* Mutant: the rotated token is left as it was.
RefreshCommit_KeepsOld(w, i, offline) ==
    /\ At(w, "refresh", "insert")
    /\ tokens[i] = None
    /\ LET old == req[w].arg
       IN  /\ Free(w, "users", {tokens[old].user})
           /\ Free(w, "clients", {tokens[old].client})
           /\ tokens' = [tokens EXCEPT ![i] =
                  [user |-> tokens[old].user, client |-> tokens[old].client,
                   family |-> tokens[old].family, refresh |-> offline]]
           /\ source' = [source EXCEPT ![i] = old]
    /\ Finish(w)
    /\ UNCHANGED <<userStatus, clientStatus, sessions, revokedSessions, grants,
                   revokedGrants, codes, usedCodes, revokedAccess, rotated,
                   revokedRefresh, expired>>

\* offline: the narrowed scopes keep offline_access, so a successor is issued.
RefreshCommit(w, i, offline) ==
    /\ At(w, "refresh", "insert")
    /\ tokens[i] = None
    /\ LET old == req[w].arg
       IN  /\ Free(w, "users", {tokens[old].user})
           /\ Free(w, "clients", {tokens[old].client})
           /\ rotated' = rotated \cup {old}
           /\ tokens' = [tokens EXCEPT ![i] =
                  [user |-> tokens[old].user, client |-> tokens[old].client,
                   family |-> tokens[old].family, refresh |-> offline]]
           /\ source' = [source EXCEPT ![i] = old]
    /\ Finish(w)
    /\ UNCHANGED <<userStatus, clientStatus, sessions, revokedSessions, grants,
                   revokedGrants, codes, usedCodes, revokedAccess,
                   revokedRefresh, expired>>

-----------------------------------------------------------------------------
(* grant_type=client_credentials: an access token without a user.          *)

ClientCredentialsCheck(w, c) ==
    /\ Starts(w, "client_credentials")
    /\ TokenBudget
    /\ clientStatus[c] = "active"
    /\ Serve(w, "client_credentials", "insert", c)
    /\ UNCHANGED rowVars

ClientCredentialsInsert(w, i) ==
    /\ At(w, "client_credentials", "insert")
    /\ tokens[i] = None
    /\ Free(w, "clients", {req[w].arg})
    /\ tokens' = [tokens EXCEPT ![i] =
           [user |-> None, client |-> req[w].arg, family |-> None,
            refresh |-> FALSE]]
    /\ Finish(w)
    /\ UNCHANGED <<userStatus, clientStatus, sessions, revokedSessions, grants,
                   revokedGrants, codes, usedCodes, revokedAccess, rotated,
                   revokedRefresh, expired, source>>

-----------------------------------------------------------------------------
(* Revoking transactions: an optional row locked FOR UPDATE first, then    *)
(* one UPDATE per table of the operation's plan, then COMMIT.              *)

UserOps   == {"suspend", "password_change"}
ClientOps == {"disable", "change_scopes", "change_redirects"}
Revocations == UserOps \cup ClientOps \cup {"family", "revoke_consent"}

\* Mutant: access tokens are revoked before refresh tokens.
FamilyPlan_AccessFirst == <<"access", "refresh">>

FamilyPlan == <<"refresh", "access">>

UserPlan     == <<"sessions", "access", "refresh">>
PasswordPlan == <<"sessions", "access", "refresh">>
ClientPlan   == <<"codes", "access", "refresh">>
RedirectPlan == <<"codes">>
ConsentPlan  == <<"grants", "codes", "access", "refresh">>

\* The tables each revocation updates, in the order of its statements.
Plan ==
    [family           |-> FamilyPlan,
     suspend          |-> UserPlan,
     password_change  |-> PasswordPlan,
     disable          |-> ClientPlan,
     change_scopes    |-> ClientPlan,
     change_redirects |-> RedirectPlan,
     revoke_consent   |-> ConsentPlan]

\* The WHERE clause of an operation, on a row with this user, client, family.
Hit(op, arg, user, client, family) ==
    \/ op = "family" /\ family = arg
    \/ op \in UserOps /\ user = arg
    \/ op \in ClientOps /\ client = arg
    \/ op = "revoke_consent" /\ [user |-> user, client |-> client] = arg

HitToken(op, arg, i) ==
    Hit(op, arg, tokens[i].user, tokens[i].client, tokens[i].family)

\* Suspension and family revocation also rewrite the rows that are already
\* revoked; the other UPDATEs test revoked_at IS NULL.
Skips(op, revoked) == IF op \in {"family", "suspend"} THEN {} ELSE revoked

\* The rows the operation's UPDATE selects, by table.
Matching(op, arg) ==
    [users    |-> {},
     clients  |-> {},
     sessions |-> {s \in sessions \ Skips(op, revokedSessions) :
                     Hit(op, arg, SessionUser[s], None, None)},
     grants   |-> {g \in StoredGrants \ revokedGrants :
                     Hit(op, arg, grants[g].user, grants[g].client, None)},
     codes    |-> {k \in StoredCodes \ (usedCodes \cup expired) :
                     Hit(op, arg, CodeUser(k), codes[k].client, None)},
     access   |-> {i \in StoredTokens \ Skips(op, revokedAccess) :
                     HitToken(op, arg, i)},
     refresh  |-> {i \in StoredRefresh \ Skips(op, revokedRefresh) :
                     HitToken(op, arg, i)}]

\* The table of the statement worker w is about to run, or is running.
Table(w) == Plan[req[w].op][req[w].stage + 1]

\* POST /oauth/revoke with a refresh token.
RevokeRefreshToken(w, i) ==
    /\ Starts(w, "revoke_token")
    /\ i \in StoredRefresh
    /\ clientStatus[tokens[i].client] = "active"
    /\ Serve(w, "family", "snapshot", tokens[i].family)
    /\ UNCHANGED rowVars

\* Mutant: the user is read without FOR UPDATE.
LockUser_PlainRead(w, op, u) ==
    /\ op \in UserOps
    /\ Starts(w, op)
    /\ Serve(w, op, "snapshot", u)
    /\ UNCHANGED rowVars

LockUser(w, op, u) ==
    /\ op \in UserOps
    /\ Starts(w, op)
    /\ op = "password_change" =>
           /\ SessionBudget(u)
           /\ \E s \in Sessions : SessionUser[s] = u /\ SessionUsable(s)
    /\ Free(w, "users", {u})
    /\ ServeHolding(w, op, u, "users", u)
    /\ UNCHANGED rowVars

LockClient(w, op, c) ==
    /\ op \in ClientOps
    /\ Starts(w, op)
    /\ Free(w, "clients", {c})
    /\ ServeHolding(w, op, c, "clients", c)
    /\ UNCHANGED rowVars

LockConsentGrant(w, g) ==
    /\ Starts(w, "revoke_consent")
    /\ g \in StoredGrants
    /\ Free(w, "grants", {g})
    /\ ServeHolding(w, "revoke_consent", grants[g], "grants", g)
    /\ UNCHANGED rowVars

TakeSnapshot(w) ==
    /\ req[w].op \in Revocations
    /\ req[w].pc = "snapshot"
    /\ Proceed(w, "update", req[w].stage,
               Matching(req[w].op, req[w].arg)[Table(w)], req[w].locked)
    /\ UNCHANGED rowVars

UpdateRows(w) ==
    /\ req[w].op \in Revocations
    /\ req[w].pc = "update"
    /\ Free(w, Table(w), req[w].snap)
    /\ Proceed(w, IF req[w].stage + 1 = Len(Plan[req[w].op])
                  THEN "commit" ELSE "snapshot",
               req[w].stage + 1, {},
               Lock(w, Table(w), req[w].snap
                        \cap Matching(req[w].op, req[w].arg)[Table(w)]))
    /\ UNCHANGED rowVars

RevocationCommit(w) ==
    /\ req[w].op \in Revocations
    /\ req[w].pc = "commit"
    /\ LET hit == req[w].locked
       IN  /\ revokedSessions' = revokedSessions \cup hit["sessions"]
           /\ revokedGrants'   = revokedGrants \cup hit["grants"]
           /\ usedCodes'       = usedCodes \cup hit["codes"]
           /\ revokedAccess'   = revokedAccess \cup hit["access"]
           /\ revokedRefresh'  = revokedRefresh \cup hit["refresh"]
    /\ userStatus' = [u \in Users |->
           IF At(w, "suspend", "commit") /\ u = req[w].arg
           THEN "suspended" ELSE userStatus[u]]
    /\ IF At(w, "password_change", "commit")
       THEN \E s \in FreshSessions(req[w].arg) : sessions' = sessions \cup {s}
       ELSE UNCHANGED sessions
    /\ clientStatus' = [c \in Clients |->
           IF At(w, "disable", "commit") /\ c = req[w].arg
           THEN "disabled" ELSE clientStatus[c]]
    /\ Finish(w)
    /\ UNCHANGED <<grants, codes, tokens, rotated, expired, source>>

-----------------------------------------------------------------------------
(* Transactions of one step.                                               *)

\* POST /oauth/revoke with an access token.
RevokeAccessToken(i) ==
    /\ "revoke_access" \in Ops
    /\ i \in StoredTokens
    /\ clientStatus[tokens[i].client] = "active"
    /\ Unlocked("access", i)
    /\ revokedAccess' = revokedAccess \cup {i}
    /\ UNCHANGED <<userStatus, clientStatus, sessions, revokedSessions, grants,
                   revokedGrants, codes, usedCodes, tokens, rotated,
                   revokedRefresh, expired, req, source>>

\* Logout, or a session revoked by its user or by an administrator.
RevokeSession(s) ==
    /\ "revoke_session" \in Ops
    /\ SessionLive(s)
    /\ Unlocked("sessions", s)
    /\ revokedSessions' = revokedSessions \cup {s}
    /\ UNCHANGED <<userStatus, clientStatus, sessions, grants, revokedGrants,
                   codes, usedCodes, tokens, revokedAccess, rotated,
                   revokedRefresh, expired, req, source>>

Reactivate(u) ==
    /\ "reactivate" \in Ops
    /\ userStatus[u] = "suspended"
    /\ Unlocked("users", u)
    /\ userStatus' = [userStatus EXCEPT ![u] = "active"]
    /\ UNCHANGED <<clientStatus, sessions, revokedSessions, grants,
                   revokedGrants, codes, usedCodes, tokens, revokedAccess,
                   rotated, revokedRefresh, expired, req, source>>

EnableClient(c) ==
    /\ "enable" \in Ops
    /\ clientStatus[c] = "disabled"
    /\ Unlocked("clients", c)
    /\ clientStatus' = [clientStatus EXCEPT ![c] = "active"]
    /\ UNCHANGED <<userStatus, sessions, revokedSessions, grants,
                   revokedGrants, codes, usedCodes, tokens, revokedAccess,
                   rotated, revokedRefresh, expired, req, source>>

\* Time passes the expires_at of a code or of a refresh token.
Expire(x) ==
    /\ "expire" \in Ops
    /\ x \in (StoredCodes \cup StoredRefresh) \ expired
    /\ expired' = expired \cup {x}
    /\ UNCHANGED <<userStatus, clientStatus, sessions, revokedSessions, grants,
                   revokedGrants, codes, usedCodes, tokens, revokedAccess,
                   rotated, revokedRefresh, req, source>>

\* A transaction is rolled back: the server stops, the connection is lost, or
\* PostgreSQL chooses it as the victim of a deadlock.
Crash(w) ==
    /\ req[w] # Idle
    /\ Finish(w)
    /\ UNCHANGED rowVars

-----------------------------------------------------------------------------

\* The steps a request takes by itself once it has been accepted.
Continue(w) ==
    \/ \E s \in Sessions : LoginInsert(w, s)
    \/ \E g \in Grants : CreateConsentInsert(w, g)
    \/ \E k \in Codes : AuthorizeInsert(w, k)
    \/ ExchangeCheckClient(w) \/ ExchangeCheckUser(w)
    \/ ExchangeCheckSession(w) \/ ExchangeConsume(w)
    \/ \E i \in Issues, offline \in BOOLEAN : ExchangeCommit(w, i, offline)
    \/ RefreshCheckUser(w) \/ RefreshCheckClient(w) \/ RefreshRotate(w)
    \/ \E i \in Issues, offline \in BOOLEAN : RefreshCommit(w, i, offline)
    \/ \E i \in Issues : ClientCredentialsInsert(w, i)
    \/ TakeSnapshot(w) \/ UpdateRows(w) \/ RevocationCommit(w)

Accept(w) ==
    \/ \E u \in Users : LoginCheck(w, u)
    \/ \E s \in Sessions, c \in Clients : CreateConsentCheck(w, s, c)
    \/ \E s \in Sessions, c \in Clients : AuthorizeCheck(w, s, c)
    \/ \E k \in Codes : ExchangeLoad(w, k)
    \/ \E i \in Issues : RefreshLoad(w, i)
    \/ \E c \in Clients : ClientCredentialsCheck(w, c)
    \/ \E i \in Issues : RevokeRefreshToken(w, i)
    \/ \E op \in UserOps, u \in Users : LockUser(w, op, u)
    \/ \E op \in ClientOps, c \in Clients : LockClient(w, op, c)
    \/ \E g \in Grants : LockConsentGrant(w, g)

Autocommit ==
    \/ \E i \in Issues : RevokeAccessToken(i)
    \/ \E s \in Sessions : RevokeSession(s)
    \/ \E u \in Users : Reactivate(u)
    \/ \E c \in Clients : EnableClient(c)
    \/ \E x \in Codes \cup Issues : Expire(x)

Next ==
    \/ \E w \in Workers : Accept(w) \/ Continue(w) \/ Crash(w)
    \/ Autocommit

Spec == Init /\ [][Next]_vars

-----------------------------------------------------------------------------
(* Waiting.  PostgreSQL grants a row lock to the transactions that wait    *)
(* for it in turn, and aborts a member of a cycle of waiting transactions. *)

\* The locks the next statement of w needs.
Needs(w) ==
    LET pc == req[w].pc  arg == req[w].arg
        Parents(u, c) == {<<"users", u>>, <<"clients", c>>}
    IN  CASE pc = "consume" -> {<<"codes", arg>>}
          [] pc = "rotate"  -> {<<"refresh", arg>>}
          [] pc = "update"  -> {<<Table(w), r>> : r \in req[w].snap}
          [] At(w, "exchange", "insert") ->
                 Parents(CodeUser(arg), codes[arg].client)
          [] At(w, "refresh", "insert") ->
                 Parents(tokens[arg].user, tokens[arg].client)
          [] OTHER -> {}

WaitsFor(w, v) ==
    v # w /\ \E need \in Needs(w) : need[2] \in req[v].locked[need[1]]

\* Every member of S waits for another one, and no smaller set does.
Cycle(S) ==
    LET Stuck(T) == T # {} /\ \A w \in T : \E v \in T : WaitsFor(w, v)
    IN  Stuck(S) /\ \A T \in SUBSET S : Stuck(T) => T = S

DeadlockVictim(w) ==
    /\ \E S \in SUBSET Workers : w \in S /\ Cycle(S)
    /\ Crash(w)

Fairness ==
    \A w \in Workers :
        SF_vars(Continue(w)) /\ WF_vars(DeadlockVictim(w))

FairSpec == Spec /\ Fairness

-----------------------------------------------------------------------------
(* Properties.                                                             *)

PCs == {"idle", "check", "check_user", "check_client", "check_session",
        "consume", "rotate", "insert", "snapshot", "update", "commit"}

Rows ==
    [users |-> Users, clients |-> Clients, sessions |-> Sessions,
     grants |-> Grants, codes |-> Codes, access |-> Issues, refresh |-> Issues]

RowIds == Users \cup Clients \cup Sessions \cup Grants \cup Codes \cup Issues

Request ==
    [op     : OpNames \cup {"none", "family"},
     pc     : PCs,
     arg    : RowIds \cup GrantRow \cup CodeRow \cup {None},
     stage  : Nat,
     snap   : SUBSET RowIds,
     locked : [Tables -> SUBSET RowIds]]

\* What the argument of a request is, by operation.
ArgOK(r) ==
    /\ r.op = "none" => r = Idle
    /\ r.op \in {"consent", "revoke_consent"} => r.arg \in GrantRow
    /\ r.op = "authorize" => r.arg \in CodeRow
    /\ r.op = "exchange" => r.arg \in StoredCodes
    /\ r.op = "refresh" => r.arg \in StoredRefresh
    /\ r.op = "family" => r.arg \in Issues
    /\ r.op \in UserOps \cup {"login"} => r.arg \in Users
    /\ r.op \in ClientOps \cup {"client_credentials"} => r.arg \in Clients

\* Every row is well formed, a request works on rows that exist, and what it
\* has locked in a table are rows of that table.
TypeOK ==
    /\ userStatus \in [Users -> {"active", "suspended"}]
    /\ clientStatus \in [Clients -> {"active", "disabled"}]
    /\ sessions \subseteq Sessions
    /\ revokedSessions \subseteq Sessions
    /\ grants \in [Grants -> GrantRow \cup {None}]
    /\ revokedGrants \subseteq Grants
    /\ codes \in [Codes -> CodeRow \cup {None}]
    /\ usedCodes \subseteq Codes
    /\ tokens \in [Issues -> TokenRow \cup {None}]
    /\ revokedAccess \subseteq Issues
    /\ rotated \subseteq Issues
    /\ revokedRefresh \subseteq Issues
    /\ expired \subseteq Codes \cup Issues
    /\ source \in [Issues -> Codes \cup Issues \cup {None}]
    /\ req \in [Workers -> Request]
    /\ \A w \in Workers :
           /\ ArgOK(req[w])
           /\ \A t \in Tables : req[w].locked[t] \subseteq Rows[t]

\* Two requests that present the same authorization code, or the same refresh
\* token, never both get tokens for it: consume_authorization_code_and_insert_
\* tokens and rotate_refresh_token_and_insert_tokens spend a grant once.
SingleUse ==
    \A i, j \in StoredTokens :
        source[i] = source[j] /\ source[i] # None => i = j

\* A refresh family never forks: however rotations, replays and revocations
\* interleave, at most one of its tokens can still be rotated.
OneLivePerFamily ==
    \A i, j \in StoredRefresh :
        /\ LiveRefresh(i) /\ LiveRefresh(j)
        /\ tokens[i].family = tokens[j].family
        => i = j

\* A rotation that fails half-way burns nothing: a refresh token is marked
\* rotated only together with the tokens issued for it.
RotatedMeansIssued ==
    \A i \in rotated : \E j \in StoredTokens : source[j] = i

\* Suspending a user, or changing the password, leaves no session, access token
\* or refresh token that is stored at its commit alive, except the session the
\* password change itself starts: the lock on the users row keeps every issuer
\* out between the UPDATEs of update_user_status and of
\* change_user_password_and_rotate_session.
UserRevocationComplete ==
    \A w \in Workers :
        req[w].op \in UserOps /\ RevocationCommit(w) =>
          /\ \A s \in sessions :
                SessionUser[s] = req[w].arg => s \in revokedSessions'
          /\ \A i \in StoredTokens :
                tokens[i].user = req[w].arg =>
                    i \in revokedAccess' /\ ~LiveRefresh(i)'

\* Disabling a client, or changing its scopes, leaves no live token and no
\* spendable code of the client behind at its commit
\* (update_oidc_client_status, update_oidc_client_details).
ClientRevocationComplete ==
    \A w \in Workers :
        req[w].op \in {"disable", "change_scopes"} /\ RevocationCommit(w) =>
          /\ \A k \in StoredCodes :
                codes[k].client = req[w].arg => k \in usedCodes' \cup expired
          /\ \A i \in StoredTokens :
                tokens[i].client = req[w].arg =>
                    i \in revokedAccess' /\ ~LiveRefresh(i)'

\* A revocation that commits has reached everything stored at that moment, of
\* the user or of the client, though it updates one table after another.
RevocationsComplete ==
    [][UserRevocationComplete /\ ClientRevocationComplete]_vars

\* While a user is suspended a token of the user is alive only if a code was
\* exchanged for it: authorization_code_token may commit after the suspension
\* whose status check it passed before, a rotation never does
\* (update_user_status, rotate_refresh_token).
SuspendedStragglers ==
    \A i \in StoredTokens :
        /\ tokens[i].user # None /\ userStatus[tokens[i].user] = "suspended"
        /\ LiveAccess(i) \/ LiveRefresh(i)
        => source[i] \in Codes

\* The codes that a consent revocation, or a change of a client, invalidates
\* have bought nothing: an exchange that holds the code makes the revocation
\* wait, look again and skip it (revoke_consent_grant_and_tokens,
\* update_oidc_client_status, update_oidc_client_details).
WithdrawnCodesUnspent ==
    \A w \in Workers :
        RevocationCommit(w) =>
          \A i \in StoredTokens : source[i] \notin req[w].locked["codes"]

\* What a withdrawal misses is bounded: after a suspension only tokens of a
\* late code exchange live, and a withdrawn code buys nothing afterwards.
StragglersBounded == [][SuspendedStragglers' /\ WithdrawnCodesUnspent]_vars

\* The checks refresh_token makes before its transaction may be stale when it
\* commits, but never wrong: a rotation commits only while its user and its
\* client are active, because whoever deactivates them revokes the very row
\* the rotation holds.
RotationOnlyWhileActive ==
    \A w \in Workers, i \in Issues, offline \in BOOLEAN :
        RefreshCommit(w, i, offline) =>
          /\ userStatus[tokens[req[w].arg].user] = "active"
          /\ clientStatus[tokens[req[w].arg].client] = "active"

\* The same for the client of an authorization code that has not expired since
\* it was loaded: disabling the client spends the pending code.
ExchangeOnlyWhileClientActive ==
    \A w \in Workers, i \in Issues, offline \in BOOLEAN :
        ExchangeCommit(w, i, offline) /\ req[w].arg \notin expired =>
          clientStatus[codes[req[w].arg].client] = "active"

\* No stale check of the token endpoint lets a rotation through for a user or a
\* client that has been deactivated since, or an exchange for such a client.
StaleChecksHarmless ==
    [][RotationOnlyWhileActive /\ ExchangeOnlyWhileClientActive]_vars

\* When a family revocation commits, an access token of the family can be alive
\* only if it was issued for a refresh token the revocation did not reach:
\* revoke_refresh_token_family_and_access_tokens revokes refresh tokens first,
\* so the access tokens issued for those it revoked are all visible to it.
CascadeCoversChildren ==
    [][\A w \in Workers :
          At(w, "family", "commit") /\ RevocationCommit(w) =>
            \A i \in StoredTokens :
                /\ tokens[i].family = req[w].arg
                /\ source[i] \in req[w].locked["refresh"]
                => i \in revokedAccess'
      ]_vars

\* Every accepted request ends, even when transactions lock rows in opposite
\* orders (family revocation against consent revocation, rotation against
\* deactivation).
RequestsEnd ==
    \A w \in Workers : req[w] # Idle ~> req[w] = Idle

\* The refresh tokens that can be rotated, by family.
FamilyHeads ==
    [f \in Issues |-> {i \in Issues : LiveRefresh(i) /\ tokens[i].family = f}]

Chain == INSTANCE RefreshChain
    WITH Tokens <- Issues, head <- FamilyHeads, seen <- StoredRefresh

\* The token endpoint and all the revocations together implement a chain per
\* family: no interleaving forks it or brings back a token that was spent.
ImplementsChain == Chain!Spec

\* docs/security.md: "rotation and family plus linked access-token revocation
\* on reuse".  After the revocation no token of the family can be rotated.
FamilyDeadAfterRevocation ==
    [][\A w \in Workers :
          At(w, "family", "commit") /\ RevocationCommit(w) =>
            \A i \in StoredTokens :
                tokens[i].family = req[w].arg => ~LiveRefresh(i)'
      ]_vars

=============================================================================
