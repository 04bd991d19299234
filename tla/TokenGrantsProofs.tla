------------------------- MODULE TokenGrantsProofs -------------------------
(***************************************************************************)
(* TokenGrants spends every grant once, never forks a refresh family,      *)
(* revokes all that a revocation should reach and implements RefreshChain, *)
(* for any number of users, clients, sessions, codes, tokens and           *)
(* concurrent requests.                                                    *)
(***************************************************************************)
EXTENDS TokenGrants, TLAPS

\* Two transactions never hold a lock on the same row.
LocksExclusive ==
    \A v, w \in Workers : v # w =>
        \A t \in Tables : req[v].locked[t] \cap req[w].locked[t] = {}

\* Between its guarded UPDATE and its COMMIT a request owns the row it spends,
\* and the row is still unspent.
SpenderOwnsRow ==
    \A w \in Workers :
        /\ At(w, "exchange", "insert") =>
               req[w].arg \in req[w].locked["codes"] \ usedCodes
        /\ At(w, "refresh", "insert") =>
               /\ req[w].arg \in req[w].locked["refresh"]
               /\ req[w].arg \notin rotated \cup revokedRefresh

\* A revocation that has a statement to run knows which one.
StageOK(r) ==
    r.pc \in {"snapshot", "update"} =>
        r.op \in Revocations /\ r.stage + 1 \in 1 .. Len(Plan[r.op])

\* What an Issue was given for is spent; unissued tokens have no source.
SourceSpent ==
    \A i \in Issues :
        /\ tokens[i] = None => source[i] = None
        /\ source[i] \in Codes => source[i] \in usedCodes
        /\ source[i] \in Issues => source[i] \in rotated

\* A family is named after a token that was issued.
FamilyStored ==
    \A i \in StoredRefresh : tokens[i].family \in StoredTokens

IInv ==
    /\ TypeOK
    /\ \A w \in Workers : StageOK(req[w])
    /\ LocksExclusive
    /\ SpenderOwnsRow
    /\ SourceSpent
    /\ FamilyStored
    /\ SingleUse
    /\ OneLivePerFamily
    /\ RotatedMeansIssued

-----------------------------------------------------------------------------
(* Steps that change one request and no row.                               *)

\* Every plan is a nonempty list of tables.
LEMMA PlanTables ==
    \A op \in Revocations :
        /\ Len(Plan[op]) \in Nat
        /\ 1 <= Len(Plan[op])
        /\ \A n \in 1 .. Len(Plan[op]) : Plan[op][n] \in Tables
  <1> SUFFICES ASSUME NEW op \in Revocations
               PROVE  /\ Len(Plan[op]) \in Nat
                      /\ 1 <= Len(Plan[op])
                      /\ \A n \in 1 .. Len(Plan[op]) : Plan[op][n] \in Tables
    OBVIOUS
  <1>1. CASE op = "family"
    BY <1>1 DEF Plan, FamilyPlan, Tables
  <1>2. CASE op = "suspend"
    BY <1>2 DEF Plan, UserPlan, Tables
  <1>3. CASE op = "password_change"
    BY <1>3 DEF Plan, PasswordPlan, Tables
  <1>4. CASE op = "disable"
    BY <1>4 DEF Plan, ClientPlan, Tables
  <1>5. CASE op = "change_scopes"
    BY <1>5 DEF Plan, ClientPlan, Tables
  <1>6. CASE op = "change_redirects"
    BY <1>6 DEF Plan, RedirectPlan, Tables
  <1>7. CASE op = "revoke_consent"
    BY <1>7 DEF Plan, ConsentPlan, Tables
  <1> QED
    BY <1>1, <1>2, <1>3, <1>4, <1>5, <1>6, <1>7
    DEF Revocations, UserOps, ClientOps

\* An idle request is well formed and holds nothing.
LEMMA IdleRequest ==
    /\ Idle \in Request
    /\ ArgOK(Idle)
    /\ StageOK(Idle)
    /\ Idle.op = "none"
    /\ \A t \in Tables : Idle.locked[t] = {}
  BY DEF Idle, NewRequest, Request, NoLocks, PCs, ArgOK, StageOK, UserOps,
         ClientOps

\* What request r must satisfy for worker w to go on with it.
GoodRequest(w, r) ==
    /\ r \in Request
    /\ ArgOK(r)
    /\ StageOK(r)
    /\ \A t \in Tables : r.locked[t] \subseteq Rows[t]
    /\ \A v \in Workers \ {w} : \A t \in Tables :
           req[v].locked[t] \cap r.locked[t] = {}
    /\ r.op = "exchange" /\ r.pc = "insert" =>
           r.arg \in r.locked["codes"] \ usedCodes
    /\ r.op = "refresh" /\ r.pc = "insert" =>
           /\ r.arg \in r.locked["refresh"]
           /\ r.arg \notin rotated \cup revokedRefresh

\* A step that only replaces the request of w by a good one keeps IInv.
LEMMA OnlyRequest ==
    ASSUME IInv, NEW w \in Workers, NEW STATE r, GoodRequest(w, r),
           req' = [req EXCEPT ![w] = r], UNCHANGED rowVars
    PROVE  IInv'
  <1> USE DEF IInv, rowVars
  <1>1. \A v \in Workers : req'[v] = IF v = w THEN r ELSE req[v]
    BY DEF TypeOK
  <1>2. TypeOK'
    <2>1. req' \in [Workers -> Request]
      BY DEF GoodRequest, TypeOK
    <2>2. \A v \in Workers : ArgOK(req[v])'
      BY <1>1 DEF GoodRequest, TypeOK, ArgOK, StoredCodes, StoredRefresh,
                  StoredTokens
    <2>3. \A v \in Workers : \A t \in Tables : req'[v].locked[t] \subseteq Rows[t]
      BY <1>1 DEF GoodRequest, TypeOK
    <2> QED
      BY <2>1, <2>2, <2>3 DEF TypeOK, Rows
  <1>3. LocksExclusive'
    BY <1>1 DEF LocksExclusive, GoodRequest
  <1>4. SpenderOwnsRow'
    BY <1>1 DEF SpenderOwnsRow, GoodRequest, At
  <1>5. SourceSpent' /\ FamilyStored' /\ SingleUse' /\ RotatedMeansIssued'
    BY DEF SourceSpent, FamilyStored, SingleUse, RotatedMeansIssued,
           StoredTokens, StoredRefresh
  <1>6. OneLivePerFamily'
    BY DEF OneLivePerFamily, LiveRefresh, StoredTokens, StoredRefresh
  <1>7. \A v \in Workers : StageOK(req[v])'
    BY <1>1 DEF GoodRequest, StageOK
  <1> QED
    BY <1>2, <1>3, <1>4, <1>5, <1>6, <1>7

\* A request that ends, or a transaction that is rolled back, keeps IInv.
LEMMA FinishOnly ==
    ASSUME IInv, NEW w \in Workers, Finish(w), UNCHANGED rowVars
    PROVE  IInv'
  <1>1. GoodRequest(w, Idle)
    BY IdleRequest DEF GoodRequest
  <1> QED
    BY <1>1, OnlyRequest DEF Finish

\* A request that starts without locking anything keeps IInv.
LEMMA ServeOnly ==
    ASSUME IInv, NEW w \in Workers, NEW op, NEW pc, NEW STATE arg,
           NewRequest(op, pc, arg, NoLocks) \in Request,
           ArgOK(NewRequest(op, pc, arg, NoLocks)),
           pc # "insert" \/ op \notin {"exchange", "refresh"},
           pc \in {"snapshot", "update"} => op \in Revocations,
           Serve(w, op, pc, arg), UNCHANGED rowVars
    PROVE  IInv'
  <1> DEFINE r == NewRequest(op, pc, arg, NoLocks)
  <1>1. /\ r.locked = NoLocks
        /\ r.op = op /\ r.pc = pc /\ r.stage = 0
    BY DEF NewRequest
  <1>2. \A t \in Tables : r.locked[t] = {}
    BY <1>1 DEF NoLocks
  <1>3. GoodRequest(w, r)
    BY <1>1, <1>2, PlanTables DEF GoodRequest, StageOK
  <1>4. req' = [req EXCEPT ![w] = r]
    BY DEF Serve
  <1> HIDE DEF r
  <1> QED
    BY <1>3, <1>4, OnlyRequest

\* A revocation that starts by locking a free row keeps IInv.
LEMMA ServeHoldingOnly ==
    ASSUME IInv, NEW w \in Workers, NEW op, NEW STATE arg, NEW t \in Tables,
           NEW x, x \in Rows[t], Free(w, t, {x}),
           op \in OpNames \cap Revocations,
           arg \in RowIds \cup GrantRow \cup CodeRow \cup {None},
           ArgOK(NewRequest(op, "snapshot", arg, [NoLocks EXCEPT ![t] = {x}])),
           ServeHolding(w, op, arg, t, x), UNCHANGED rowVars
    PROVE  IInv'
  <1> DEFINE locks == [NoLocks EXCEPT ![t] = {x}]
             r == NewRequest(op, "snapshot", arg, locks)
  <1>1. \A tt \in Tables : locks[tt] = IF tt = t THEN {x} ELSE {}
    BY DEF NoLocks
  <1>2. \A tt \in Tables : locks[tt] \subseteq Rows[tt] /\ Rows[tt] \subseteq RowIds
    BY <1>1 DEF Tables, Rows, RowIds
  <1>3. locks \in [Tables -> SUBSET RowIds]
    BY <1>2 DEF NoLocks
  <1> HIDE DEF locks
  <1>4. /\ r = [op |-> op, pc |-> "snapshot", arg |-> arg, stage |-> 0,
                snap |-> {}, locked |-> locks]
        /\ req' = [req EXCEPT ![w] = r]
    BY DEF ServeHolding, NewRequest, locks
  <1> HIDE DEF r
  <1>5. r \in Request /\ ArgOK(r)
    BY <1>3, <1>4 DEF Request, PCs, NewRequest, locks
  <1>6. GoodRequest(w, r)
    BY SMTT(30), <1>1, <1>2, <1>4, <1>5, PlanTables
    DEF GoodRequest, Free, StageOK, Revocations, UserOps, ClientOps
  <1> QED
    BY <1>4, <1>6, OnlyRequest

\* The checks and loads that start a request.
LEMMA AcceptStep ==
    ASSUME IInv, NEW w \in Workers, Accept(w)
    PROVE  IInv'
  <1> USE DEF IInv
  <1>0. /\ codes \in [Codes -> CodeRow \cup {None}]
        /\ grants \in [Grants -> GrantRow \cup {None}]
        /\ tokens \in [Issues -> TokenRow \cup {None}]
    BY DEF TypeOK
  <1>1. ASSUME NEW s \in Sessions, NEW c \in Clients, CreateConsentCheck(w, s, c)
        PROVE  IInv'
    <2>1. [user |-> SessionUser[s], client |-> c] \in GrantRow
      BY SessionUserAssumption DEF GrantRow
    <2> DEFINE r == NewRequest("consent", "insert",
                               [user |-> SessionUser[s], client |-> c], NoLocks)
    <2>2. r \in Request /\ ArgOK(r)
      BY <2>1 DEF NewRequest, Request, NoLocks, PCs, OpNames, ArgOK, UserOps,
                  ClientOps
    <2> QED
      BY <1>1, <2>2, ServeOnly DEF CreateConsentCheck
  <1>2. ASSUME NEW s \in Sessions, NEW c \in Clients, AuthorizeCheck(w, s, c)
        PROVE  IInv'
    <2>1. [session |-> s, client |-> c] \in CodeRow
      BY DEF CodeRow
    <2> QED
      BY <1>2, <2>1, ServeOnly
      DEF AuthorizeCheck, Idle, NewRequest, Request, NoLocks, PCs, OpNames, ArgOK,
          UserOps, ClientOps
  <1>3. ASSUME NEW k \in Codes, ExchangeLoad(w, k)
        PROVE  IInv'
    BY <1>3, ServeOnly
    DEF ExchangeLoad, Idle, NewRequest, Request, NoLocks, PCs, OpNames, ArgOK, UserOps,
        ClientOps, RowIds
  <1>4. ASSUME NEW i \in Issues, RefreshLoad(w, i)
        PROVE  IInv'
    <2>1. i \in StoredRefresh /\ tokens[i].family \in Issues
      BY <1>4 DEF RefreshLoad, FamilyStored, StoredTokens
    <2>2. CASE i \in rotated
      BY <1>4, <2>1, <2>2, ServeOnly
      DEF RefreshLoad, Revocations, Idle, NewRequest, Request, NoLocks, PCs, OpNames, ArgOK, UserOps,
          ClientOps, RowIds
    <2>3. CASE i \notin rotated
      BY <1>4, <2>1, <2>3, ServeOnly
      DEF RefreshLoad, Revocations, Idle, NewRequest, Request, NoLocks, PCs, OpNames, ArgOK, UserOps,
          ClientOps, RowIds
    <2> QED
      BY <2>2, <2>3
  <1>5. ASSUME NEW c \in Clients, ClientCredentialsCheck(w, c)
        PROVE  IInv'
    BY <1>5, ServeOnly
    DEF ClientCredentialsCheck, Idle, NewRequest, Request, NoLocks, PCs, OpNames, ArgOK,
        UserOps, ClientOps, RowIds
  <1>6. ASSUME NEW i \in Issues, RevokeRefreshToken(w, i)
        PROVE  IInv'
    <2>1. tokens[i].family \in Issues
      BY <1>6 DEF RevokeRefreshToken, FamilyStored, StoredTokens
    <2> QED
      BY <1>6, <2>1, ServeOnly
      DEF RevokeRefreshToken, Revocations, Idle, NewRequest, Request, NoLocks, PCs, OpNames, ArgOK,
          UserOps, ClientOps, RowIds
  <1>7. ASSUME NEW op \in UserOps, NEW u \in Users, LockUser(w, op, u)
        PROVE  IInv'
    BY <1>7, ServeHoldingOnly
    DEF LockUser, Request, PCs, OpNames, ArgOK, UserOps, ClientOps, RowIds,
        NewRequest, Tables, Rows, Revocations
  <1>8. ASSUME NEW op \in ClientOps, NEW c \in Clients, LockClient(w, op, c)
        PROVE  IInv'
    BY <1>8, ServeHoldingOnly
    DEF LockClient, Request, PCs, OpNames, ArgOK, UserOps, ClientOps, RowIds,
        NewRequest, Tables, Rows, Revocations
  <1>9. ASSUME NEW g \in Grants, LockConsentGrant(w, g)
        PROVE  IInv'
    <2>1. grants[g] \in GrantRow
      BY <1>0, <1>9 DEF LockConsentGrant, StoredGrants
    <2>2. ArgOK(NewRequest("revoke_consent", "snapshot", grants[g],
                           [NoLocks EXCEPT !["grants"] = {g}]))
      BY <2>1 DEF ArgOK, NewRequest, UserOps, ClientOps
    <2>3. "grants" \in Tables /\ g \in Rows["grants"]
      BY DEF Tables, Rows
    <2>4. "revoke_consent" \in OpNames \cap Revocations
      BY DEF OpNames, Revocations
    <2> QED
      BY <1>9, <2>1, <2>2, <2>3, <2>4, ServeHoldingOnly DEF LockConsentGrant
  <1>10. ASSUME NEW u \in Users, LoginCheck(w, u)
         PROVE  IInv'
    BY <1>10, ServeOnly
    DEF LoginCheck, Idle, NewRequest, Request, NoLocks, PCs, OpNames, ArgOK,
        UserOps, ClientOps, RowIds
  <1> QED
    BY <1>1, <1>2, <1>3, <1>4, <1>5, <1>6, <1>7, <1>8, <1>9, <1>10 DEF Accept

\* What TypeOK says of a request that is under way.
LEMMA RequestFields ==
    ASSUME TypeOK, NEW w \in Workers
    PROVE  /\ req[w] = [op |-> req[w].op, pc |-> req[w].pc,
                        arg |-> req[w].arg, stage |-> req[w].stage,
                        snap |-> req[w].snap, locked |-> req[w].locked]
           /\ req[w] \in Request
           /\ req[w].stage \in Nat
           /\ req[w].snap \subseteq RowIds
           /\ req[w].locked \in [Tables -> SUBSET RowIds]
           /\ ArgOK(req[w])
           /\ \A t \in Tables : req[w].locked[t] \subseteq Rows[t]
  BY DEF TypeOK, Request

\* A request that goes on with locks it may hold keeps IInv.
LEMMA ProceedOnly ==
    ASSUME IInv, NEW w \in Workers, req[w].op # "none",
           NEW STATE pc, pc \in PCs, NEW STATE stage, stage \in Nat,
           NEW STATE snap, snap \subseteq RowIds,
           NEW STATE locks, locks \in [Tables -> SUBSET RowIds],
           \A t \in Tables : locks[t] \subseteq Rows[t],
           \A v \in Workers \ {w} : \A t \in Tables :
               req[v].locked[t] \cap locks[t] = {},
           pc \in {"snapshot", "update"} =>
               /\ req[w].op \in Revocations
               /\ stage + 1 \in 1 .. Len(Plan[req[w].op]),
           req[w].op = "exchange" /\ pc = "insert" =>
               req[w].arg \in locks["codes"] \ usedCodes,
           req[w].op = "refresh" /\ pc = "insert" =>
               /\ req[w].arg \in locks["refresh"]
               /\ req[w].arg \notin rotated \cup revokedRefresh,
           Proceed(w, pc, stage, snap, locks), UNCHANGED rowVars
    PROVE  IInv'
  <1> DEFINE r == [op |-> req[w].op, pc |-> pc, arg |-> req[w].arg,
                   stage |-> stage, snap |-> snap, locked |-> locks]
  <1>1. /\ r.op = req[w].op /\ r.pc = pc /\ r.arg = req[w].arg
        /\ r.stage = stage /\ r.locked = locks
    OBVIOUS
  <1>2. req[w] \in Request /\ ArgOK(req[w])
    BY RequestFields DEF IInv
  <1>3. r \in Request
    BY <1>2 DEF Request
  <1>4. req' = [req EXCEPT ![w] = r]
    BY DEF Proceed
  <1> HIDE DEF r
  <1>5. ArgOK(r)
    BY <1>1, <1>2 DEF ArgOK
  <1>6. GoodRequest(w, r)
    BY <1>1, <1>3, <1>5 DEF GoodRequest, StageOK
  <1> QED
    BY <1>4, <1>6, OnlyRequest

\* Locking free rows leaves every row with one owner.
LEMMA LockRows ==
    ASSUME IInv, NEW w \in Workers, NEW STATE t, t \in Tables,
           NEW STATE R, R \subseteq Rows[t], Free(w, t, R)
    PROVE  /\ Lock(w, t, R) \in [Tables -> SUBSET RowIds]
           /\ Lock(w, t, R)[t] = req[w].locked[t] \cup R
           /\ \A tt \in Tables : Lock(w, t, R)[tt] \subseteq Rows[tt]
           /\ \A v \in Workers \ {w} : \A tt \in Tables :
                  req[v].locked[tt] \cap Lock(w, t, R)[tt] = {}
  <1>1. /\ req[w].locked \in [Tables -> SUBSET RowIds]
        /\ \A tt \in Tables : req[w].locked[tt] \subseteq Rows[tt]
        /\ \A v \in Workers \ {w} : \A tt \in Tables :
               req[v].locked[tt] \cap req[w].locked[tt] = {}
    BY RequestFields DEF IInv, LocksExclusive
  <1>2. Rows[t] \subseteq RowIds
    BY DEF Rows, RowIds, Tables
  <1>3. \A tt \in Tables : Lock(w, t, R)[tt] =
            IF tt = t THEN req[w].locked[tt] \cup R ELSE req[w].locked[tt]
    BY <1>1 DEF Lock
  <1>4. Lock(w, t, R) \in [Tables -> SUBSET RowIds]
    BY <1>1, <1>2 DEF Lock
  <1>5. \A tt \in Tables : Lock(w, t, R)[tt] \subseteq Rows[tt]
    BY <1>1, <1>3
  <1>6. \A v \in Workers \ {w} : \A tt \in Tables :
            req[v].locked[tt] \cap Lock(w, t, R)[tt] = {}
    BY <1>1, <1>3 DEF Free
  <1> QED
    BY <1>3, <1>4, <1>5, <1>6

\* The statement a revocation runs is about rows of the table it names.
LEMMA MatchingRows ==
    ASSUME IInv, NEW w \in Workers, req[w].op \in Revocations,
           req[w].pc \in {"snapshot", "update"}
    PROVE  /\ Table(w) \in Tables
           /\ Matching(req[w].op, req[w].arg)[Table(w)] \subseteq Rows[Table(w)]
           /\ Matching(req[w].op, req[w].arg)[Table(w)] \subseteq RowIds
           /\ req[w].op \notin {"none", "exchange", "refresh"}
           /\ req[w].stage \in Nat
           /\ req[w].stage + 1 \in 1 .. Len(Plan[req[w].op])
           /\ Len(Plan[req[w].op]) \in Nat
  <1> DEFINE op == req[w].op
             n == req[w].stage + 1
  <1>1. StageOK(req[w]) /\ req[w].stage \in Nat
    BY RequestFields DEF IInv
  <1>2. n \in 1 .. Len(Plan[op])
    BY <1>1 DEF StageOK
  <1>3. Table(w) \in Tables /\ Len(Plan[op]) \in Nat
    BY <1>2, PlanTables DEF Table
  <1>4. \A t \in Tables : /\ Matching(op, req[w].arg)[t] \subseteq Rows[t]
                          /\ Rows[t] \subseteq RowIds
    <2>1. sessions \subseteq Sessions
      BY DEF IInv, TypeOK
    <2> QED
      BY <2>1 DEF Matching, Rows, RowIds, Tables, StoredGrants, StoredCodes,
                  StoredTokens, StoredRefresh
  <1>5. op \notin {"none", "exchange", "refresh"}
    BY DEF Revocations, UserOps, ClientOps
  <1> HIDE DEF op
  <1> QED
    BY <1>1, <1>2, <1>3, <1>4, <1>5 DEF op

\* A worker that holds nothing conflicts with nobody.
LEMMA NoLocksFree ==
    ASSUME NEW w \in Workers
    PROVE  /\ NoLocks \in [Tables -> SUBSET RowIds]
           /\ \A t \in Tables : NoLocks[t] \subseteq Rows[t]
           /\ \A v \in Workers \ {w} : \A t \in Tables :
                  req[v].locked[t] \cap NoLocks[t] = {}
  BY DEF NoLocks

\* A check that passes goes on, one that fails ends the request.
LEMMA CheckOnly ==
    ASSUME IInv, NEW w \in Workers, req[w].op # "none",
           NEW STATE passed, NEW pc, pc \in PCs \ {"snapshot", "update", "insert"},
           Check(w, passed, pc), UNCHANGED rowVars
    PROVE  IInv'
  <1>1. CASE Finish(w)
    BY <1>1, FinishOnly
  <1>2. CASE Proceed(w, pc, 0, {}, NoLocks)
    BY <1>2, ProceedOnly, NoLocksFree
  <1> QED
    BY <1>1, <1>2 DEF Check

\* The statements of a request that change no row before its commit.
LEMMA StatementStep ==
    ASSUME IInv, NEW w \in Workers,
           \/ ExchangeCheckClient(w) \/ ExchangeCheckUser(w)
           \/ ExchangeCheckSession(w) \/ ExchangeConsume(w)
           \/ RefreshCheckUser(w) \/ RefreshCheckClient(w) \/ RefreshRotate(w)
           \/ TakeSnapshot(w) \/ UpdateRows(w)
    PROVE  IInv'
  <1>0. TypeOK
    BY DEF IInv
  <1>1. CASE ExchangeCheckClient(w) \/ ExchangeCheckUser(w) \/ ExchangeCheckSession(w)
    BY <1>1, CheckOnly
    DEF ExchangeCheckClient, ExchangeCheckUser, ExchangeCheckSession, At, PCs
  <1>2. CASE RefreshCheckUser(w) \/ RefreshCheckClient(w)
    BY <1>2, CheckOnly DEF RefreshCheckUser, RefreshCheckClient, At, PCs
  <1>3. CASE ExchangeConsume(w)
    <2> DEFINE row == {req[w].arg}
               locks == Lock(w, "codes", row)
    <2>1. CASE req[w].arg \in usedCodes
      BY <1>3, <2>1, FinishOnly DEF ExchangeConsume
    <2>2. CASE req[w].arg \notin usedCodes
      <3>1. req[w].op = "exchange" /\ req[w].arg \in Codes
        BY <1>0, <1>3, RequestFields DEF ExchangeConsume, At, ArgOK, StoredCodes
      <3>2. "codes" \in Tables /\ row \subseteq Rows["codes"]
        BY <3>1 DEF Tables, Rows
      <3>3. Free(w, "codes", row) /\ req[w].arg \in row
        BY <1>3 DEF ExchangeConsume
      <3>4. Proceed(w, "insert", 0, {}, locks) /\ UNCHANGED rowVars
        BY <1>3, <2>2 DEF ExchangeConsume
      <3> HIDE DEF row
      <3>5. /\ locks \in [Tables -> SUBSET RowIds]
            /\ locks["codes"] = req[w].locked["codes"] \cup row
            /\ \A t \in Tables : locks[t] \subseteq Rows[t]
            /\ \A v \in Workers \ {w} : \A t \in Tables :
                   req[v].locked[t] \cap locks[t] = {}
        BY <3>2, <3>3, LockRows
      <3> HIDE DEF locks
      <3>6. /\ "insert" \in PCs /\ {} \subseteq RowIds
            /\ req[w].arg \in locks["codes"] \ usedCodes
        BY <2>2, <3>3, <3>5 DEF PCs
      <3> QED
        BY <3>1, <3>4, <3>5, <3>6, ProceedOnly
    <2> QED
      BY <2>1, <2>2
  <1>4. CASE RefreshRotate(w)
    <2> DEFINE row == {req[w].arg}
               locks == Lock(w, "refresh", row)
    <2>0. req[w].op = "refresh" /\ req[w].arg \in StoredRefresh
      BY <1>0, <1>4, RequestFields DEF RefreshRotate, At, ArgOK
    <2>1. CASE ~LiveRefresh(req[w].arg)
      <3> DEFINE f == tokens[req[w].arg].family
                 r == NewRequest("family", "snapshot", f, NoLocks)
      <3>1. f \in Issues
        BY <2>0 DEF IInv, FamilyStored, StoredTokens
      <3> HIDE DEF f
      <3>2. r \in Request /\ ArgOK(r)
        BY <3>1 DEF NewRequest, Request, NoLocks, PCs, OpNames, ArgOK, UserOps,
                    ClientOps, RowIds
      <3>3. Serve(w, "family", "snapshot", f) /\ UNCHANGED rowVars
        BY <1>4, <2>1 DEF RefreshRotate, f
      <3> HIDE DEF r
      <3> QED
        BY <3>2, <3>3, ServeOnly DEF Revocations, r
    <2>2. CASE LiveRefresh(req[w].arg)
      <3>1. req[w].arg \in Issues
        BY <2>0 DEF StoredRefresh, StoredTokens
      <3>2. "refresh" \in Tables /\ row \subseteq Rows["refresh"]
        BY <3>1 DEF Tables, Rows
      <3>3. Free(w, "refresh", row) /\ req[w].arg \in row
        BY <1>4 DEF RefreshRotate
      <3>4. Proceed(w, "insert", 0, {}, locks) /\ UNCHANGED rowVars
        BY <1>4, <2>2 DEF RefreshRotate
      <3> HIDE DEF row
      <3>5. /\ locks \in [Tables -> SUBSET RowIds]
            /\ locks["refresh"] = req[w].locked["refresh"] \cup row
            /\ \A t \in Tables : locks[t] \subseteq Rows[t]
            /\ \A v \in Workers \ {w} : \A t \in Tables :
                   req[v].locked[t] \cap locks[t] = {}
        BY <3>2, <3>3, LockRows
      <3>6. req[w].arg \notin rotated \cup revokedRefresh
        BY <2>2 DEF LiveRefresh
      <3> HIDE DEF locks
      <3>7. /\ "insert" \in PCs /\ {} \subseteq RowIds
            /\ req[w].arg \in locks["refresh"]
        BY <3>3, <3>5 DEF PCs
      <3> QED
        BY <2>0, <3>4, <3>5, <3>6, <3>7, ProceedOnly
    <2> QED
      BY <2>1, <2>2
  <1>5. CASE TakeSnapshot(w)
    <2> DEFINE rows == Matching(req[w].op, req[w].arg)[Table(w)]
    <2>1. req[w].op \in Revocations /\ req[w].pc = "snapshot"
      BY <1>5 DEF TakeSnapshot
    <2>2. rows \subseteq RowIds
      BY <2>1, MatchingRows
    <2>3. /\ req[w].op \notin {"none", "exchange", "refresh"}
          /\ req[w].stage \in Nat
          /\ req[w].stage + 1 \in 1 .. Len(Plan[req[w].op])
      BY <2>1, MatchingRows
    <2>4. Proceed(w, "update", req[w].stage, rows, req[w].locked)
          /\ UNCHANGED rowVars
      BY <1>5 DEF TakeSnapshot
    <2>5. /\ req[w].locked \in [Tables -> SUBSET RowIds]
          /\ \A t \in Tables : req[w].locked[t] \subseteq Rows[t]
          /\ \A v \in Workers \ {w} : \A t \in Tables :
                 req[v].locked[t] \cap req[w].locked[t] = {}
      BY <1>0, RequestFields DEF IInv, LocksExclusive
    <2> HIDE DEF rows
    <2> QED
      BY <2>1, <2>2, <2>3, <2>4, <2>5, ProceedOnly DEF PCs
  <1>6. CASE UpdateRows(w)
    <2> DEFINE rows == req[w].snap \cap
                           Matching(req[w].op, req[w].arg)[Table(w)]
               pc == IF req[w].stage + 1 = Len(Plan[req[w].op])
                     THEN "commit" ELSE "snapshot"
               locks == Lock(w, Table(w), rows)
    <2>1. req[w].op \in Revocations /\ req[w].pc = "update"
      BY <1>6 DEF UpdateRows
    <2>2. Table(w) \in Tables /\ rows \subseteq Rows[Table(w)]
      BY <2>1, MatchingRows
    <2>3. /\ req[w].op \notin {"none", "exchange", "refresh"}
          /\ req[w].stage \in Nat
          /\ req[w].stage + 1 \in 1 .. Len(Plan[req[w].op])
          /\ Len(Plan[req[w].op]) \in Nat
      BY <2>1, MatchingRows
    <2>4. Proceed(w, pc, req[w].stage + 1, {}, locks) /\ UNCHANGED rowVars
      BY <1>6 DEF UpdateRows
    <2>5. Free(w, Table(w), rows)
      BY <1>6 DEF UpdateRows, Free
    <2> HIDE DEF rows
    <2>6. /\ locks \in [Tables -> SUBSET RowIds]
          /\ \A t \in Tables : locks[t] \subseteq Rows[t]
          /\ \A v \in Workers \ {w} : \A t \in Tables :
                 req[v].locked[t] \cap locks[t] = {}
      BY <2>2, <2>5, LockRows
    <2>7. /\ pc \in PCs
          /\ pc # "insert"
          /\ pc \in {"snapshot", "update"} =>
                 req[w].stage + 1 + 1 \in 1 .. Len(Plan[req[w].op])
      BY <2>3 DEF PCs
    <2> HIDE DEF pc, locks
    <2>8. req[w].stage + 1 \in Nat /\ {} \subseteq RowIds
      BY <2>3
    <2> QED
      BY <2>1, <2>3, <2>4, <2>6, <2>7, <2>8, ProceedOnly
  <1> QED
    BY <1>1, <1>2, <1>3, <1>4, <1>5, <1>6

-----------------------------------------------------------------------------
(* Commits.                                                                *)

\* The conjuncts of IInv about requests.
RequestsOK ==
    /\ req \in [Workers -> Request]
    /\ \A v \in Workers : /\ ArgOK(req[v])
                          /\ StageOK(req[v])
                          /\ \A t \in Tables : req[v].locked[t] \subseteq Rows[t]
    /\ LocksExclusive
    /\ SpenderOwnsRow

\* A commit that spends or revokes only rows its transaction has locked leaves
\* the other requests with the rows they own.
LEMMA CommitRequests ==
    ASSUME IInv, NEW w \in Workers, Finish(w),
           StoredCodes \subseteq StoredCodes',
           StoredRefresh \subseteq StoredRefresh',
           usedCodes' \subseteq usedCodes \cup req[w].locked["codes"],
           rotated' \subseteq rotated \cup req[w].locked["refresh"],
           revokedRefresh' \subseteq revokedRefresh \cup req[w].locked["refresh"]
    PROVE  RequestsOK'
  <1>1. \A v \in Workers : req'[v] = IF v = w THEN Idle ELSE req[v]
    BY DEF IInv, TypeOK, Finish
  <1>2. req' \in [Workers -> Request]
    BY IdleRequest DEF IInv, TypeOK, Finish
  <1>3. ASSUME NEW v \in Workers
        PROVE  /\ ArgOK(req[v])'
               /\ StageOK(req[v])'
               /\ \A t \in Tables : req'[v].locked[t] \subseteq Rows[t]
    <2>1. CASE v = w
      BY <1>1, <2>1, IdleRequest
      DEF ArgOK, StageOK, UserOps, ClientOps, Revocations
    <2>2. CASE v # w
      <3>1. req'[v] = req[v]
        BY <1>1, <2>2
      <3>2. ArgOK(req[v]) /\ StageOK(req[v])
        BY DEF IInv, TypeOK
      <3> QED
        BY <3>1, <3>2 DEF ArgOK, StageOK, IInv, TypeOK
    <2> QED
      BY <2>1, <2>2
  <1>4. LocksExclusive'
    BY <1>1, IdleRequest DEF IInv, LocksExclusive
  <1>5. SpenderOwnsRow'
    <2> SUFFICES ASSUME NEW v \in Workers
                 PROVE  /\ At(v, "exchange", "insert")' =>
                               (req[v].arg \in req[v].locked["codes"] \ usedCodes)'
                        /\ At(v, "refresh", "insert")' =>
                               /\ (req[v].arg \in req[v].locked["refresh"])'
                               /\ (req[v].arg \notin rotated \cup revokedRefresh)'
      BY DEF SpenderOwnsRow
    <2>1. CASE v = w
      BY <1>1, <2>1, IdleRequest DEF At
    <2>2. CASE v # w
      <3>1. req'[v] = req[v]
        BY <1>1, <2>2
      <3>2. /\ req[v].locked["codes"] \cap req[w].locked["codes"] = {}
            /\ req[v].locked["refresh"] \cap req[w].locked["refresh"] = {}
        BY <2>2 DEF IInv, LocksExclusive, Tables
      <3>3. /\ At(v, "exchange", "insert") =>
                   req[v].arg \in req[v].locked["codes"] \ usedCodes
            /\ At(v, "refresh", "insert") =>
                   /\ req[v].arg \in req[v].locked["refresh"]
                   /\ req[v].arg \notin rotated \cup revokedRefresh
        BY DEF IInv, SpenderOwnsRow
      <3> QED
        BY <3>1, <3>2, <3>3 DEF At
    <2> QED
      BY <2>1, <2>2
  <1> QED
    BY <1>2, <1>3, <1>4, <1>5 DEF RequestsOK, Rows

\* The conjuncts of IInv about rows.
RowsOK ==
    /\ userStatus \in [Users -> {"active", "suspended"}]
    /\ clientStatus \in [Clients -> {"active", "disabled"}]
    /\ sessions \subseteq Sessions
    /\ revokedSessions \subseteq Sessions
    /\ grants \in [Grants -> GrantRow \cup {None}]
    /\ revokedGrants \subseteq Grants
    /\ codes \in [Codes -> CodeRow \cup {None}]
    /\ usedCodes \subseteq Codes
    /\ tokens \in [Issues -> TokenRow \cup {None}]
    /\ revokedAccess \subseteq Issues
    /\ rotated \subseteq Issues
    /\ revokedRefresh \subseteq Issues
    /\ expired \subseteq Codes \cup Issues
    /\ source \in [Issues -> Codes \cup Issues \cup {None}]

LEMMA IInvSplit ==
    IInv <=> /\ RowsOK /\ RequestsOK
             /\ SourceSpent /\ FamilyStored
             /\ SingleUse /\ OneLivePerFamily /\ RotatedMeansIssued
  BY DEF IInv, TypeOK, RowsOK, RequestsOK

\* A browser session is inserted.
LEMMA LoginInsertStep ==
    ASSUME IInv, NEW w \in Workers, NEW s \in Sessions, LoginInsert(w, s)
    PROVE  IInv'
  <1>1. RowsOK'
    BY IInvSplit DEF RowsOK, LoginInsert
  <1>2. RequestsOK'
    BY CommitRequests
    DEF LoginInsert, StoredCodes, StoredRefresh, StoredTokens
  <1>3. SourceSpent' /\ FamilyStored' /\ SingleUse' /\ RotatedMeansIssued'
    BY DEF IInv, LoginInsert, SourceSpent, FamilyStored, SingleUse,
           RotatedMeansIssued, StoredTokens, StoredRefresh
  <1>4. OneLivePerFamily'
    BY DEF IInv, LoginInsert, OneLivePerFamily, LiveRefresh, StoredTokens,
           StoredRefresh
  <1> QED
    BY <1>1, <1>2, <1>3, <1>4 DEF IInv, TypeOK, RowsOK, RequestsOK

\* A consent grant is inserted.
LEMMA CreateConsentInsertStep ==
    ASSUME IInv, NEW w \in Workers, NEW g \in Grants, CreateConsentInsert(w, g)
    PROVE  IInv'
  <1>1. req[w].arg \in GrantRow
    BY RequestFields DEF IInv, CreateConsentInsert, At, ArgOK
  <1>2. RowsOK'
    BY <1>1, IInvSplit DEF RowsOK, CreateConsentInsert
  <1>3. RequestsOK'
    BY CommitRequests
    DEF CreateConsentInsert, StoredCodes, StoredRefresh, StoredTokens
  <1>4. SourceSpent' /\ FamilyStored' /\ SingleUse' /\ RotatedMeansIssued'
    BY DEF IInv, CreateConsentInsert, SourceSpent, FamilyStored, SingleUse,
           RotatedMeansIssued, StoredTokens, StoredRefresh
  <1>5. OneLivePerFamily'
    BY DEF IInv, CreateConsentInsert, OneLivePerFamily, LiveRefresh,
           StoredTokens, StoredRefresh
  <1> QED
    BY <1>2, <1>3, <1>4, <1>5 DEF IInv, TypeOK, RowsOK, RequestsOK

\* An authorization code is inserted.
LEMMA AuthorizeInsertStep ==
    ASSUME IInv, NEW w \in Workers, NEW k \in Codes, AuthorizeInsert(w, k)
    PROVE  IInv'
  <1>1. req[w].arg \in CodeRow
    BY RequestFields DEF IInv, AuthorizeInsert, At, ArgOK
  <1>2. RowsOK'
    BY <1>1, IInvSplit DEF RowsOK, AuthorizeInsert
  <1>3. StoredCodes \subseteq StoredCodes'
    BY IInvSplit DEF AuthorizeInsert, StoredCodes, RowsOK
  <1>4. RequestsOK'
    BY <1>3, CommitRequests DEF AuthorizeInsert, StoredRefresh, StoredTokens
  <1>5. SourceSpent' /\ FamilyStored' /\ SingleUse' /\ RotatedMeansIssued'
    BY DEF IInv, AuthorizeInsert, SourceSpent, FamilyStored, SingleUse,
           RotatedMeansIssued, StoredTokens, StoredRefresh
  <1>6. OneLivePerFamily'
    BY DEF IInv, AuthorizeInsert, OneLivePerFamily, LiveRefresh,
           StoredTokens, StoredRefresh
  <1> QED
    BY <1>2, <1>4, <1>5, <1>6 DEF IInv, TypeOK, RowsOK, RequestsOK

\* A new token row leaves the stored ones as they are.
LEMMA TokenInsert ==
    ASSUME IInv, NEW i \in Issues, tokens[i] = None,
           NEW STATE row, row \in TokenRow,
           tokens' = [tokens EXCEPT ![i] = row]
    PROVE  /\ StoredTokens' = StoredTokens \cup {i}
           /\ i \notin StoredTokens
           /\ \A j \in StoredTokens : tokens'[j] = tokens[j]
           /\ tokens'[i] = row
           /\ StoredRefresh' =
                  IF row.refresh THEN StoredRefresh \cup {i} ELSE StoredRefresh
  <1>1. \A j \in Issues : tokens'[j] = IF j = i THEN row ELSE tokens[j]
    BY DEF IInv, TypeOK
  <1>2. row # None
    BY NoneAssumption
  <1>3. StoredTokens' = StoredTokens \cup {i} /\ i \notin StoredTokens
    BY <1>1, <1>2 DEF StoredTokens
  <1>4. \A j \in StoredTokens : tokens'[j] = tokens[j]
    BY <1>1, <1>3 DEF StoredTokens
  <1>5. StoredRefresh' = IF row.refresh THEN StoredRefresh \cup {i}
                                        ELSE StoredRefresh
    BY <1>1, <1>3, <1>4 DEF StoredRefresh
  <1> QED
    BY <1>1, <1>3, <1>4, <1>5

\* A code exchange commits: the code is spent and, with offline access, a new
\* family begins.
LEMMA ExchangeCommitStep ==
    ASSUME IInv, NEW w \in Workers, NEW i \in Issues, NEW offline \in BOOLEAN,
           ExchangeCommit(w, i, offline)
    PROVE  IInv'
  <1> DEFINE k == req[w].arg
             row == [user |-> CodeUser(k), client |-> codes[k].client,
                     family |-> IF offline THEN i ELSE None,
                     refresh |-> offline]
  <1>1. /\ k \in Codes /\ codes[k] \in CodeRow
        /\ k \in req[w].locked["codes"] \ usedCodes
    <2>1. k \in StoredCodes
      BY RequestFields DEF IInv, ExchangeCommit, At, ArgOK
    <2>2. codes \in [Codes -> CodeRow \cup {None}]
      BY DEF IInv, TypeOK
    <2>3. k \in req[w].locked["codes"] \ usedCodes
      BY DEF IInv, ExchangeCommit, SpenderOwnsRow
    <2> QED
      BY <2>1, <2>2, <2>3 DEF StoredCodes
  <1>2. k \notin Issues /\ k # None
    BY <1>1, IdsAssumption, NoneAssumption
  <1>3. row \in TokenRow
    BY <1>1, SessionUserAssumption DEF TokenRow, CodeUser, CodeRow
  <1>4. /\ row.refresh = offline
        /\ row.family = IF offline THEN i ELSE None
    OBVIOUS
  <1>5. /\ tokens[i] = None
        /\ tokens' = [tokens EXCEPT ![i] = row]
        /\ usedCodes' = usedCodes \cup {k}
        /\ source' = [source EXCEPT ![i] = k]
        /\ Finish(w)
        /\ UNCHANGED <<userStatus, clientStatus, sessions, revokedSessions, grants,
                       revokedGrants, codes, revokedAccess, rotated,
                       revokedRefresh, expired>>
    BY DEF ExchangeCommit
  <1> HIDE DEF row, k
  <1>6. /\ StoredTokens' = StoredTokens \cup {i}
        /\ i \notin StoredTokens
        /\ \A j \in StoredTokens : tokens'[j] = tokens[j]
        /\ tokens'[i] = row
        /\ StoredRefresh' =
               IF offline THEN StoredRefresh \cup {i} ELSE StoredRefresh
    BY <1>3, <1>4, <1>5, TokenInsert
  <1>7. /\ source \in [Issues -> Codes \cup Issues \cup {None}]
        /\ \A j \in Issues : source'[j] = IF j = i THEN k ELSE source[j]
    BY <1>5 DEF IInv, TypeOK
  <1>8. StoredTokens \subseteq Issues /\ StoredRefresh \subseteq StoredTokens
    BY DEF StoredTokens, StoredRefresh
  <1>9. RowsOK'
    BY <1>1, <1>3, <1>5, IInvSplit DEF RowsOK
  <1>10. RequestsOK'
    <2>1. StoredCodes' = StoredCodes /\ StoredRefresh \subseteq StoredRefresh'
      BY <1>5, <1>6 DEF StoredCodes
    <2> QED
      BY <1>1, <1>5, <2>1, CommitRequests
  <1>11. SourceSpent'
    <2>1. SourceSpent
      BY DEF IInv
    <2> SUFFICES ASSUME NEW j \in Issues
                 PROVE  /\ tokens'[j] = None => source'[j] = None
                        /\ source'[j] \in Codes => source'[j] \in usedCodes'
                        /\ source'[j] \in Issues => source'[j] \in rotated'
      BY DEF SourceSpent
    <2>2. CASE j = i
      BY <1>1, <1>2, <1>3, <1>5, <1>6, <1>7, <2>2, NoneAssumption
    <2>3. CASE j # i
      <3>1. tokens'[j] = tokens[j]
        BY <1>5, <2>3 DEF IInv, TypeOK
      <3> QED
        BY <1>5, <1>7, <2>1, <2>3, <3>1 DEF SourceSpent
    <2> QED
      BY <2>2, <2>3
  <1>12. FamilyStored'
    BY <1>4, <1>6, <1>8 DEF IInv, FamilyStored
  <1>13. \A j \in StoredTokens : source[j] # k
    BY <1>1, <1>8 DEF IInv, SourceSpent
  <1>14. SingleUse'
    BY <1>6, <1>7, <1>8, <1>13 DEF IInv, SingleUse
  <1>15. OneLivePerFamily'
    <2> SUFFICES ASSUME NEW a \in StoredRefresh', NEW b \in StoredRefresh',
                        LiveRefresh(a)', LiveRefresh(b)',
                        tokens'[a].family = tokens'[b].family
                 PROVE  a = b
      BY DEF OneLivePerFamily
    <2>1. \A j \in StoredRefresh : tokens[j].family # i
      BY <1>6 DEF IInv, FamilyStored
    <2>2. \A j \in StoredRefresh : j # i /\ tokens'[j] = tokens[j]
      BY <1>6, <1>8
    <2>3. \A j \in StoredRefresh : LiveRefresh(j)' => LiveRefresh(j)
      BY <1>5 DEF LiveRefresh
    <2>4. CASE a \in StoredRefresh /\ b \in StoredRefresh
      BY <2>2, <2>3, <2>4 DEF IInv, OneLivePerFamily
    <2>5. CASE a = i \/ b = i
      <3>1. a = i => tokens'[a].family = i
        BY <1>4, <1>6, <1>8
      <3>2. b = i => tokens'[b].family = i
        BY <1>4, <1>6, <1>8
      <3> QED
        BY <1>6, <2>1, <2>2, <2>5, <3>1, <3>2
    <2> QED
      BY <1>6, <2>4, <2>5
  <1>16. RotatedMeansIssued'
    BY <1>5, <1>6, <1>7, <1>8 DEF IInv, RotatedMeansIssued
  <1> QED
    BY <1>9, <1>10, <1>11, <1>12, <1>14, <1>15, <1>16
    DEF IInv, TypeOK, RowsOK, RequestsOK

\* A rotation commits: the old token is spent together with the INSERT of its
\* successor, which takes its place in the family.
LEMMA RefreshCommitStep ==
    ASSUME IInv, NEW w \in Workers, NEW i \in Issues, NEW offline \in BOOLEAN,
           RefreshCommit(w, i, offline)
    PROVE  IInv'
  <1> DEFINE old == req[w].arg
             row == [user |-> tokens[old].user, client |-> tokens[old].client,
                     family |-> tokens[old].family, refresh |-> offline]
  <1>1. /\ old \in StoredRefresh
        /\ old \in req[w].locked["refresh"]
        /\ old \notin rotated \cup revokedRefresh
    BY RequestFields DEF IInv, RefreshCommit, At, ArgOK, SpenderOwnsRow
  <1>2. /\ old \in Issues /\ tokens[old] \in TokenRow
        /\ tokens[old].family \in StoredTokens
    <2>1. tokens \in [Issues -> TokenRow \cup {None}]
      BY DEF IInv, TypeOK
    <2> QED
      BY <1>1, <2>1 DEF IInv, FamilyStored, StoredRefresh, StoredTokens
  <1>3. row \in TokenRow
    BY <1>2 DEF TokenRow
  <1>4. row.refresh = offline /\ row.family = tokens[old].family
    OBVIOUS
  <1>5. /\ tokens[i] = None
        /\ tokens' = [tokens EXCEPT ![i] = row]
        /\ rotated' = rotated \cup {old}
        /\ source' = [source EXCEPT ![i] = old]
        /\ Finish(w)
        /\ UNCHANGED <<userStatus, clientStatus, sessions, revokedSessions, grants,
                       revokedGrants, codes, usedCodes, revokedAccess,
                       revokedRefresh, expired>>
    BY DEF RefreshCommit
  <1> HIDE DEF row, old
  <1>6. /\ StoredTokens' = StoredTokens \cup {i}
        /\ i \notin StoredTokens
        /\ \A j \in StoredTokens : tokens'[j] = tokens[j]
        /\ tokens'[i] = row
        /\ StoredRefresh' =
               IF offline THEN StoredRefresh \cup {i} ELSE StoredRefresh
    BY <1>3, <1>4, <1>5, TokenInsert
  <1>7. /\ source \in [Issues -> Codes \cup Issues \cup {None}]
        /\ \A j \in Issues : source'[j] = IF j = i THEN old ELSE source[j]
    BY <1>5 DEF IInv, TypeOK
  <1>8. StoredTokens \subseteq Issues /\ StoredRefresh \subseteq StoredTokens
    BY DEF StoredTokens, StoredRefresh
  <1>9. RowsOK'
    BY <1>2, <1>3, <1>5, IInvSplit DEF RowsOK
  <1>10. RequestsOK'
    <2>1. StoredCodes' = StoredCodes /\ StoredRefresh \subseteq StoredRefresh'
      BY <1>5, <1>6 DEF StoredCodes
    <2> QED
      BY <1>1, <1>5, <2>1, CommitRequests
  <1>11. SourceSpent'
    <2>1. SourceSpent
      BY DEF IInv
    <2> SUFFICES ASSUME NEW j \in Issues
                 PROVE  /\ tokens'[j] = None => source'[j] = None
                        /\ source'[j] \in Codes => source'[j] \in usedCodes'
                        /\ source'[j] \in Issues => source'[j] \in rotated'
      BY DEF SourceSpent
    <2>2. CASE j = i
      BY <1>2, <1>3, <1>5, <1>6, <1>7, <2>2, NoneAssumption, IdsAssumption
    <2>3. CASE j # i
      <3>1. tokens'[j] = tokens[j]
        BY <1>5, <2>3 DEF IInv, TypeOK
      <3> QED
        BY <1>5, <1>7, <2>1, <2>3, <3>1 DEF SourceSpent
    <2> QED
      BY <2>2, <2>3
  <1>12. FamilyStored'
    BY <1>2, <1>4, <1>6, <1>8 DEF IInv, FamilyStored
  <1>13. \A j \in StoredTokens : source[j] # old
    BY <1>1, <1>2, <1>8 DEF IInv, SourceSpent
  <1>14. SingleUse'
    BY <1>6, <1>7, <1>8, <1>13 DEF IInv, SingleUse
  <1>15. OneLivePerFamily'
    <2> SUFFICES ASSUME NEW a \in StoredRefresh', NEW b \in StoredRefresh',
                        LiveRefresh(a)', LiveRefresh(b)',
                        tokens'[a].family = tokens'[b].family
                 PROVE  a = b
      BY DEF OneLivePerFamily
    <2>1. LiveRefresh(old)
      BY <1>1 DEF LiveRefresh
    <2>2. \A j \in StoredRefresh : j # i /\ tokens'[j] = tokens[j]
      BY <1>6, <1>8
    <2>3. \A j \in StoredRefresh : LiveRefresh(j)' => LiveRefresh(j) /\ j # old
      BY <1>5 DEF LiveRefresh
    <2>4. \A j \in StoredRefresh :
              LiveRefresh(j)' => tokens'[j].family # tokens[old].family
      BY <1>1, <2>1, <2>2, <2>3 DEF IInv, OneLivePerFamily
    <2>5. CASE a \in StoredRefresh /\ b \in StoredRefresh
      BY <2>2, <2>3, <2>5 DEF IInv, OneLivePerFamily
    <2>6. CASE a = i \/ b = i
      BY <1>4, <1>6, <2>4, <2>6
    <2> QED
      BY <1>6, <2>5, <2>6
  <1>16. RotatedMeansIssued'
    BY <1>5, <1>6, <1>7, <1>8 DEF IInv, RotatedMeansIssued
  <1> QED
    BY <1>9, <1>10, <1>11, <1>12, <1>14, <1>15, <1>16
    DEF IInv, TypeOK, RowsOK, RequestsOK

\* An access token without a user, a family or a source.
LEMMA ClientCredentialsStep ==
    ASSUME IInv, NEW w \in Workers, NEW i \in Issues,
           ClientCredentialsInsert(w, i)
    PROVE  IInv'
  <1> DEFINE row == [user |-> None, client |-> req[w].arg, family |-> None,
                     refresh |-> FALSE]
  <1>1. req[w].arg \in Clients
    BY RequestFields DEF IInv, ClientCredentialsInsert, At, ArgOK
  <1>2. row \in TokenRow /\ row.refresh = FALSE
    BY <1>1 DEF TokenRow
  <1>3. /\ tokens[i] = None
        /\ tokens' = [tokens EXCEPT ![i] = row]
        /\ Finish(w)
        /\ UNCHANGED <<userStatus, clientStatus, sessions, revokedSessions, grants,
                       revokedGrants, codes, usedCodes, revokedAccess, rotated,
                       revokedRefresh, expired, source>>
    BY DEF ClientCredentialsInsert
  <1> HIDE DEF row
  <1>4. /\ StoredTokens' = StoredTokens \cup {i}
        /\ i \notin StoredTokens
        /\ \A j \in StoredTokens : tokens'[j] = tokens[j]
        /\ StoredRefresh' = StoredRefresh
    BY <1>2, <1>3, TokenInsert
  <1>5. StoredTokens \subseteq Issues /\ StoredRefresh \subseteq StoredTokens
    BY DEF StoredTokens, StoredRefresh
  <1>6. RowsOK'
    BY <1>2, <1>3, IInvSplit DEF RowsOK
  <1>7. RequestsOK'
    BY <1>3, <1>4, CommitRequests DEF StoredCodes
  <1>8. source[i] = None /\ source' = source
    BY <1>3 DEF IInv, SourceSpent
  <1>9. SourceSpent'
    <2>1. \A j \in Issues : tokens'[j] = None => tokens[j] = None
      BY <1>3 DEF IInv, TypeOK
    <2> QED
      BY <1>3, <2>1 DEF IInv, SourceSpent
  <1>10. FamilyStored' /\ RotatedMeansIssued'
    BY <1>3, <1>4, <1>5 DEF IInv, FamilyStored, RotatedMeansIssued
  <1>11. SingleUse'
    BY <1>4, <1>8 DEF IInv, SingleUse
  <1>12. OneLivePerFamily'
    BY <1>3, <1>4, <1>5 DEF IInv, OneLivePerFamily, LiveRefresh
  <1> QED
    BY <1>6, <1>7, <1>9, <1>10, <1>11, <1>12
    DEF IInv, TypeOK, RowsOK, RequestsOK

\* A revocation commits the rows it has locked.
LEMMA RevocationCommitStep ==
    ASSUME IInv, NEW w \in Workers, RevocationCommit(w)
    PROVE  IInv'
  <1>1. \A t \in Tables : req[w].locked[t] \subseteq Rows[t]
    BY RequestFields DEF IInv
  <1>2. /\ req[w].locked["sessions"] \subseteq Sessions
        /\ req[w].locked["grants"] \subseteq Grants
        /\ req[w].locked["codes"] \subseteq Codes
        /\ req[w].locked["access"] \subseteq Issues
        /\ req[w].locked["refresh"] \subseteq Issues
    BY <1>1 DEF Tables, Rows
  <1>3. RowsOK'
    BY <1>2, IInvSplit DEF RevocationCommit, RowsOK, FreshSessions
  <1>4. RequestsOK'
    BY CommitRequests
    DEF RevocationCommit, StoredCodes, StoredRefresh, StoredTokens
  <1>5. SourceSpent' /\ FamilyStored' /\ SingleUse' /\ RotatedMeansIssued'
    BY DEF IInv, RevocationCommit, SourceSpent, FamilyStored, SingleUse,
           RotatedMeansIssued, StoredTokens, StoredRefresh
  <1>6. OneLivePerFamily'
    BY DEF IInv, RevocationCommit, OneLivePerFamily, LiveRefresh,
           StoredTokens, StoredRefresh
  <1> QED
    BY <1>3, <1>4, <1>5, <1>6 DEF IInv, TypeOK, RowsOK, RequestsOK

\* The variables the other statements of Autocommit leave alone are all that
\* the invariants about grants and requests depend on.
LEMMA AutocommitStep ==
    ASSUME IInv, Autocommit
    PROVE  IInv'
  <1>1. UNCHANGED <<grants, revokedGrants, codes, usedCodes, tokens, rotated,
                    revokedRefresh, req, source>>
    BY DEF Autocommit, RevokeAccessToken, RevokeSession, Reactivate,
           EnableClient, Expire
  <1>2. RowsOK'
    <2>0. RowsOK
      BY IInvSplit
    <2>1. ASSUME NEW i \in Issues, RevokeAccessToken(i) PROVE RowsOK'
      BY <2>0, <2>1 DEF RowsOK, RevokeAccessToken
    <2>2. ASSUME NEW s \in Sessions, RevokeSession(s) PROVE RowsOK'
      BY <2>0, <2>2 DEF RowsOK, RevokeSession
    <2>3. ASSUME NEW u \in Users, Reactivate(u) PROVE RowsOK'
      BY <2>0, <2>3 DEF RowsOK, Reactivate
    <2>4. ASSUME NEW c \in Clients, EnableClient(c) PROVE RowsOK'
      BY <2>0, <2>4 DEF RowsOK, EnableClient
    <2>5. ASSUME NEW x \in Codes \cup Issues, Expire(x) PROVE RowsOK'
      BY <2>0, <2>5 DEF RowsOK, Expire
    <2> QED
      BY <2>1, <2>2, <2>3, <2>4, <2>5 DEF Autocommit
  <1>3. RequestsOK'
    BY <1>1 DEF IInv, TypeOK, RequestsOK, ArgOK, StageOK, LocksExclusive,
                SpenderOwnsRow, At, StoredCodes, StoredRefresh, StoredTokens
  <1>4. SourceSpent' /\ FamilyStored' /\ SingleUse' /\ RotatedMeansIssued'
    BY <1>1 DEF IInv, SourceSpent, FamilyStored, SingleUse, RotatedMeansIssued,
                StoredTokens, StoredRefresh
  <1>5. OneLivePerFamily'
    BY <1>1 DEF IInv, OneLivePerFamily, LiveRefresh, StoredTokens,
                StoredRefresh
  <1> QED
    BY <1>2, <1>3, <1>4, <1>5 DEF IInv, TypeOK, RowsOK, RequestsOK

-----------------------------------------------------------------------------
(* The invariant is inductive.                                             *)

LEMMA InitIInv == Init => IInv
  <1> SUFFICES ASSUME Init PROVE IInv
    OBVIOUS
  <1>1. RowsOK
    BY DEF Init, RowsOK
  <1>2. \A w \in Workers : req[w] = Idle
    BY DEF Init
  <1>3. RequestsOK
    BY <1>2, IdleRequest
    DEF Init, RequestsOK, LocksExclusive, SpenderOwnsRow, At
  <1>4. StoredTokens = {} /\ StoredRefresh = {}
    BY DEF Init, StoredTokens, StoredRefresh
  <1>5. SourceSpent
    BY NoneAssumption DEF Init, SourceSpent
  <1>6. FamilyStored /\ SingleUse /\ OneLivePerFamily /\ RotatedMeansIssued
    BY <1>4 DEF Init, FamilyStored, SingleUse, OneLivePerFamily,
                RotatedMeansIssued
  <1> QED
    BY <1>1, <1>3, <1>5, <1>6, IInvSplit

LEMMA NextIInv == IInv /\ [Next]_vars => IInv'
  <1> SUFFICES ASSUME IInv, [Next]_vars PROVE IInv'
    OBVIOUS
  <1>1. ASSUME NEW w \in Workers, Accept(w) PROVE IInv'
    BY <1>1, AcceptStep
  <1>2. ASSUME NEW w \in Workers, Continue(w) PROVE IInv'
    <2>1. ASSUME NEW g \in Grants, CreateConsentInsert(w, g) PROVE IInv'
      BY <2>1, CreateConsentInsertStep
    <2>2. ASSUME NEW k \in Codes, AuthorizeInsert(w, k) PROVE IInv'
      BY <2>2, AuthorizeInsertStep
    <2>3. ASSUME NEW i \in Issues, NEW offline \in BOOLEAN,
                 ExchangeCommit(w, i, offline)
          PROVE  IInv'
      BY <2>3, ExchangeCommitStep
    <2>4. ASSUME NEW i \in Issues, NEW offline \in BOOLEAN,
                 RefreshCommit(w, i, offline)
          PROVE  IInv'
      BY <2>4, RefreshCommitStep
    <2>5. ASSUME NEW i \in Issues, ClientCredentialsInsert(w, i) PROVE IInv'
      BY <2>5, ClientCredentialsStep
    <2>6. CASE RevocationCommit(w)
      BY <2>6, RevocationCommitStep
    <2>7. CASE \/ ExchangeCheckClient(w) \/ ExchangeCheckUser(w)
               \/ ExchangeCheckSession(w) \/ ExchangeConsume(w)
               \/ RefreshCheckUser(w) \/ RefreshCheckClient(w)
               \/ RefreshRotate(w)
               \/ TakeSnapshot(w) \/ UpdateRows(w)
      BY <2>7, StatementStep
    <2>8. ASSUME NEW s \in Sessions, LoginInsert(w, s) PROVE IInv'
      BY <2>8, LoginInsertStep
    <2> QED
      BY <1>2, <2>1, <2>2, <2>3, <2>4, <2>5, <2>6, <2>7, <2>8 DEF Continue
  <1>3. ASSUME NEW w \in Workers, Crash(w) PROVE IInv'
    BY <1>3, FinishOnly DEF Crash
  <1>4. CASE Autocommit
    BY <1>4, AutocommitStep
  <1>5. CASE UNCHANGED vars
    <2>1. RowsOK'
      BY <1>5, IInvSplit DEF vars, RowsOK
    <2>2. RequestsOK'
      BY <1>5
      DEF vars, IInv, TypeOK, RequestsOK, ArgOK, StageOK, LocksExclusive,
          SpenderOwnsRow, At, StoredCodes, StoredRefresh, StoredTokens
    <2>3. SourceSpent' /\ FamilyStored' /\ SingleUse' /\ RotatedMeansIssued'
      BY <1>5 DEF vars, IInv, SourceSpent, FamilyStored, SingleUse,
                  RotatedMeansIssued, StoredTokens, StoredRefresh
    <2>4. OneLivePerFamily'
      BY <1>5 DEF vars, IInv, OneLivePerFamily, LiveRefresh, StoredTokens,
                  StoredRefresh
    <2> QED
      BY <2>1, <2>2, <2>3, <2>4 DEF IInv, TypeOK, RowsOK, RequestsOK
  <1> QED
    BY <1>1, <1>2, <1>3, <1>4, <1>5 DEF Next

LEMMA Inductive == Spec => []IInv
  BY InitIInv, NextIInv, PTL DEF Spec

\* Rows and requests are always well formed.
THEOREM TypeCorrect == Spec => []TypeOK
  <1>1. IInv => TypeOK
    BY DEF IInv
  <1> QED
    BY <1>1, Inductive, PTL

\* An authorization code or a refresh token buys tokens once, whatever the
\* number of requests that present it at the same time.
THEOREM SpentOnce == Spec => []SingleUse
  <1>1. IInv => SingleUse
    BY DEF IInv
  <1> QED
    BY <1>1, Inductive, PTL

\* No interleaving of rotations, replays, revocations and rollbacks leaves two
\* refresh tokens of one family that can both be rotated.
THEOREM NoFork == Spec => []OneLivePerFamily
  <1>1. IInv => OneLivePerFamily
    BY DEF IInv
  <1> QED
    BY <1>1, Inductive, PTL

\* A refresh token is never spent without the tokens it was spent for.
THEOREM RotationAtomic == Spec => []RotatedMeansIssued
  <1>1. IInv => RotatedMeansIssued
    BY DEF IInv
  <1> QED
    BY <1>1, Inductive, PTL
-----------------------------------------------------------------------------
(* What a request may rely on when it commits.                             *)

\* Statement n of a revocation has selected its rows; they are the rows it is
\* about to update, or the rows it has updated and locked.
Begun(r, n) == r.stage >= n \/ (r.stage = n - 1 /\ r.pc = "update")
Taken(r, t, n) == IF r.stage = n - 1 THEN r.snap ELSE r.locked[t]

\* The user is locked: what a statement has selected is all there is of the
\* user, but for what is revoked already.
UserSwept(r) ==
    r.op \in UserOps =>
        /\ r.arg \in r.locked["users"]
        /\ \A s \in sessions :
               Begun(r, 1) /\ SessionUser[s] = r.arg
                   => s \in Taken(r, "sessions", 1) \cup revokedSessions
        /\ \A i \in StoredTokens :
               Begun(r, 2) /\ tokens[i].user = r.arg
                   => i \in Taken(r, "access", 2) \cup revokedAccess
        /\ \A i \in StoredRefresh :
               Begun(r, 3) /\ tokens[i].user = r.arg
                   => i \in Taken(r, "refresh", 3) \cup revokedRefresh

\* The same of a client that is locked.
ClientSwept(r) ==
    r.op \in ClientOps =>
        /\ r.arg \in r.locked["clients"]
        /\ \A k \in StoredCodes :
               Begun(r, 1) /\ codes[k].client = r.arg
                   => k \in Taken(r, "codes", 1) \cup usedCodes \cup expired
        /\ r.op # "change_redirects" =>
               /\ \A i \in StoredTokens :
                      Begun(r, 2) /\ tokens[i].client = r.arg
                          => i \in Taken(r, "access", 2) \cup revokedAccess
               /\ \A i \in StoredRefresh :
                      Begun(r, 3) /\ tokens[i].client = r.arg
                          => i \in Taken(r, "refresh", 3) \cup revokedRefresh

\* A family revocation that comes to the access tokens sees every one that was
\* issued for a refresh token it holds: nobody else can spend that token.
FamilySwept(r) ==
    r.op = "family" =>
        \A i \in StoredTokens :
            /\ Begun(r, 2) /\ tokens[i].family = r.arg
            /\ source[i] \in r.locked["refresh"]
            => i \in Taken(r, "access", 2)

\* A code that a transaction holds has not been used.
CodesHeld(r) == r.locked["codes"] \cap usedCodes = {}

\* A refresh token that a transaction holds is stored.
RefreshHeld(r) == r.locked["refresh"] \subseteq StoredRefresh

\* A revocation commits after its last statement.
PlanDone(r) == r.pc = "commit" => r.op \in Revocations /\ r.stage = Len(Plan[r.op])

\* The checks a request has passed are true as long as its grant can be spent.
ChecksHold(r) ==
    /\ r.op = "refresh" /\ LiveRefresh(r.arg) =>
           /\ r.pc \in {"check_client", "rotate", "insert"}
                  => userStatus[tokens[r.arg].user] = "active"
           /\ r.pc \in {"rotate", "insert"}
                  => clientStatus[tokens[r.arg].client] = "active"
    /\ /\ r.op = "exchange" /\ r.arg \notin usedCodes \cup expired
       /\ r.pc \in {"check_user", "check_session", "consume", "insert"}
       => clientStatus[codes[r.arg].client] = "active"

Sound(r) ==
    /\ UserSwept(r) /\ ClientSwept(r) /\ FamilySwept(r)
    /\ CodesHeld(r) /\ RefreshHeld(r) /\ PlanDone(r) /\ ChecksHold(r)

\* A refresh token is a user's, and only stored ones are rotated or revoked.
RefreshOwned ==
    /\ \A i \in StoredRefresh : tokens[i].user \in Users
    /\ rotated \cup revokedRefresh \subseteq StoredRefresh

JInv ==
    /\ IInv
    /\ \A w \in Workers : Sound(req[w])
    /\ RefreshOwned
    /\ SuspendedStragglers

\* Rows are inserted or marked, never changed otherwise.
RowsGrow ==
    /\ sessions \subseteq sessions' /\ revokedSessions \subseteq revokedSessions'
    /\ usedCodes \subseteq usedCodes' /\ expired \subseteq expired'
    /\ revokedAccess \subseteq revokedAccess' /\ rotated \subseteq rotated'
    /\ revokedRefresh \subseteq revokedRefresh'
    /\ \A k \in StoredCodes : k \in StoredCodes' /\ codes'[k] = codes[k]
    /\ \A i \in StoredTokens :
           i \in StoredTokens' /\ tokens'[i] = tokens[i] /\ source'[i] = source[i]

\* What is inserted or used is out of the reach of the locks of v.
Elsewhere(v) ==
    /\ \A s \in sessions' \ sessions : SessionUser[s] \notin req[v].locked["users"]
    /\ \A k \in StoredCodes' \ StoredCodes : codes'[k].client \notin req[v].locked["clients"]
    /\ \A i \in StoredTokens' \ StoredTokens :
           /\ tokens'[i].user \notin req[v].locked["users"]
           /\ tokens'[i].client \notin req[v].locked["clients"]
           /\ source'[i] \notin req[v].locked["refresh"]
    /\ usedCodes' \cap req[v].locked["codes"] \subseteq usedCodes

\* Who is deactivated has no refresh token left to rotate, and a client no code.
StatusSafe ==
    /\ \A u \in Users :
           userStatus[u] = "active" /\ userStatus'[u] # "active" =>
               \A i \in StoredRefresh : tokens[i].user = u => i \in revokedRefresh'
    /\ \A c \in Clients :
           clientStatus[c] = "active" /\ clientStatus'[c] # "active" =>
               /\ \A i \in StoredRefresh : tokens[i].client = c => i \in revokedRefresh'
               /\ \A k \in StoredCodes : codes[k].client = c => k \in usedCodes' \cup expired'

\* A request that stands still can rely on what it relied on.
LEMMA OthersSound ==
    ASSUME JInv, RowsGrow, StatusSafe, NEW v \in Workers, Elsewhere(v), req'[v] = req[v]
    PROVE  Sound(req[v])'
  <1>1. PICK r : r = req[v] /\ r = req'[v]
    OBVIOUS
  <1>2. /\ UserSwept(r) /\ ClientSwept(r) /\ FamilySwept(r)
        /\ CodesHeld(r) /\ RefreshHeld(r) /\ PlanDone(r) /\ ChecksHold(r) /\ ArgOK(r)
    BY <1>1 DEF JInv, Sound, IInv, TypeOK
  <1>3. /\ \A i \in StoredRefresh' : i \in StoredTokens /\ i \notin StoredRefresh => FALSE
        /\ \A i \in StoredRefresh : i \in StoredRefresh' /\ i \in StoredTokens
    BY DEF RowsGrow, StoredRefresh
  <1>4. UserSwept(r)'
    <2> SUFFICES ASSUME r.op \in UserOps PROVE UserSwept(r)'
      BY DEF UserSwept
    <2>1. r.arg \in r.locked["users"]
      BY <1>2 DEF UserSwept
    <2>2. ASSUME NEW s \in sessions', Begun(r, 1), SessionUser[s] = r.arg
          PROVE  s \in Taken(r, "sessions", 1) \cup revokedSessions'
      BY <1>1, <1>2, <2>1, <2>2 DEF UserSwept, Elsewhere, RowsGrow
    <2>3. ASSUME NEW i \in StoredTokens', Begun(r, 2), tokens'[i].user = r.arg
          PROVE  i \in Taken(r, "access", 2) \cup revokedAccess'
      BY <1>1, <1>2, <2>1, <2>3 DEF UserSwept, Elsewhere, RowsGrow
    <2>4. ASSUME NEW i \in StoredRefresh', Begun(r, 3), tokens'[i].user = r.arg
          PROVE  i \in Taken(r, "refresh", 3) \cup revokedRefresh'
      <3>1. i \in StoredTokens'
        BY DEF StoredRefresh
      <3>2. i \in StoredRefresh /\ tokens[i].user = r.arg
        BY <1>1, <1>3, <2>1, <2>4, <3>1 DEF Elsewhere, RowsGrow
      <3> QED
        BY <1>2, <2>4, <3>2 DEF UserSwept, RowsGrow
    <2> QED
      BY <2>1, <2>2, <2>3, <2>4 DEF UserSwept, Begun, Taken
  <1>5. ClientSwept(r)'
    <2> SUFFICES ASSUME r.op \in ClientOps PROVE ClientSwept(r)'
      BY DEF ClientSwept
    <2>1. r.arg \in r.locked["clients"]
      BY <1>2 DEF ClientSwept
    <2>2. ASSUME NEW k \in StoredCodes', Begun(r, 1), codes'[k].client = r.arg
          PROVE  k \in Taken(r, "codes", 1) \cup usedCodes' \cup expired'
      BY <1>1, <1>2, <2>1, <2>2 DEF ClientSwept, Elsewhere, RowsGrow
    <2>3. ASSUME NEW i \in StoredTokens', r.op # "change_redirects", Begun(r, 2),
                 tokens'[i].client = r.arg
          PROVE  i \in Taken(r, "access", 2) \cup revokedAccess'
      BY <1>1, <1>2, <2>1, <2>3 DEF ClientSwept, Elsewhere, RowsGrow
    <2>4. ASSUME NEW i \in StoredRefresh', r.op # "change_redirects", Begun(r, 3),
                 tokens'[i].client = r.arg
          PROVE  i \in Taken(r, "refresh", 3) \cup revokedRefresh'
      <3>1. i \in StoredTokens'
        BY DEF StoredRefresh
      <3>2. i \in StoredRefresh /\ tokens[i].client = r.arg
        BY <1>1, <1>3, <2>1, <2>4, <3>1 DEF Elsewhere, RowsGrow
      <3> QED
        BY <1>2, <2>4, <3>2 DEF ClientSwept, RowsGrow
    <2> QED
      BY <2>1, <2>2, <2>3, <2>4 DEF ClientSwept, Begun, Taken
  <1>6. FamilySwept(r)'
    <2> SUFFICES ASSUME r.op = "family", NEW i \in StoredTokens', Begun(r, 2),
                        tokens'[i].family = r.arg, source'[i] \in r.locked["refresh"]
                 PROVE  i \in Taken(r, "access", 2)
      BY DEF FamilySwept, Begun, Taken
    <2> QED
      BY <1>1, <1>2 DEF FamilySwept, Elsewhere, RowsGrow
  <1>7. CodesHeld(r)' /\ PlanDone(r)'
    BY <1>1, <1>2 DEF CodesHeld, PlanDone, Elsewhere
  <1>8. RefreshHeld(r)'
    BY <1>2, <1>3 DEF RefreshHeld
  <1>9. ChecksHold(r)'
    <2>1. ASSUME r.op = "refresh", LiveRefresh(r.arg)'
          PROVE  /\ r.pc \in {"check_client", "rotate", "insert"}
                        => userStatus'[tokens'[r.arg].user] = "active"
                 /\ r.pc \in {"rotate", "insert"}
                        => clientStatus'[tokens'[r.arg].client] = "active"
      <3>1. r.arg \in StoredRefresh /\ r.arg \in StoredTokens
        BY <1>2, <1>3, <2>1 DEF ArgOK
      <3>2. LiveRefresh(r.arg) /\ r.arg \notin revokedRefresh'
        BY <2>1, <3>1 DEF LiveRefresh, RowsGrow
      <3>3. tokens'[r.arg] = tokens[r.arg] /\ tokens[r.arg].user \in Users
        BY <3>1 DEF RowsGrow, JInv, RefreshOwned
      <3>4. tokens[r.arg].client \in Clients
        BY <3>1 DEF JInv, IInv, TypeOK, StoredTokens, TokenRow
      <3> QED
        BY <1>2, <2>1, <3>1, <3>2, <3>3, <3>4 DEF ChecksHold, StatusSafe
    <2>2. ASSUME r.op = "exchange", r.arg \notin usedCodes' \cup expired',
                 r.pc \in {"check_user", "check_session", "consume", "insert"}
          PROVE  clientStatus'[codes'[r.arg].client] = "active"
      <3>1. r.arg \in StoredCodes
        BY <1>2, <2>2 DEF ArgOK
      <3>2. codes'[r.arg] = codes[r.arg] /\ r.arg \notin usedCodes \cup expired
        BY <2>2, <3>1 DEF RowsGrow
      <3>3. codes[r.arg].client \in Clients
        BY <3>1 DEF JInv, IInv, TypeOK, StoredCodes, CodeRow
      <3> QED
        BY <1>2, <2>2, <3>1, <3>2, <3>3 DEF ChecksHold, StatusSafe
    <2> QED
      BY <2>1, <2>2 DEF ChecksHold
  <1>10. Sound(r)'
    BY <1>4, <1>5, <1>6, <1>7, <1>8, <1>9 DEF Sound
  <1> QED
    BY <1>1, <1>10

-----------------------------------------------------------------------------
(* Steps that change one request and no row, again.                        *)

SoundRows == (\A v \in Workers : Sound(req[v])) /\ RefreshOwned /\ SuspendedStragglers

\* The request of w is replaced and no row is touched.
LEMMA SoundRequest ==
    ASSUME JInv, NEW w \in Workers, NEW STATE r, req' = [req EXCEPT ![w] = r],
           UNCHANGED rowVars, Sound(r)
    PROVE  SoundRows'
  <1>1. req'[w] = r /\ \A v \in Workers \ {w} : req'[v] = req[v]
    BY DEF JInv, IInv, TypeOK
  <1>2. /\ UNCHANGED <<userStatus, clientStatus, sessions, revokedSessions, grants, revokedGrants>>
        /\ UNCHANGED <<codes, usedCodes, tokens, revokedAccess, rotated, revokedRefresh, expired, source>>
    BY DEF rowVars
  <1>3. RowsGrow /\ StatusSafe
    BY <1>2 DEF RowsGrow, StatusSafe, StoredCodes, StoredTokens
  <1>4. \A v \in Workers : Elsewhere(v)
    BY <1>2 DEF Elsewhere, StoredCodes, StoredTokens
  <1>5. \A v \in Workers \ {w} : Sound(req[v])'
    BY <1>1, <1>3, <1>4, OthersSound
  <1>6. Sound(req[w])'
    <2>1. PICK q : q = r /\ q = req'[w]
      BY <1>1
    <2>2. Sound(q)
      BY <2>1
    <2>3. StoredCodes' = StoredCodes /\ StoredTokens' = StoredTokens /\ StoredRefresh' = StoredRefresh
      BY <1>2 DEF StoredCodes, StoredTokens, StoredRefresh
    <2>4. UserSwept(q)' /\ ClientSwept(q)' /\ FamilySwept(q)'
      BY <1>2, <2>2, <2>3 DEF Sound, UserSwept, ClientSwept, FamilySwept, Begun, Taken
    <2>5. CodesHeld(q)' /\ RefreshHeld(q)' /\ PlanDone(q)' /\ ChecksHold(q)'
      BY <1>2, <2>2, <2>3 DEF Sound, CodesHeld, RefreshHeld, PlanDone, ChecksHold, LiveRefresh
    <2>6. Sound(q)'
      BY <2>4, <2>5 DEF Sound
    <2> QED
      BY <2>1, <2>6
  <1>7. RefreshOwned' /\ SuspendedStragglers'
    BY <1>2 DEF JInv, RefreshOwned, SuspendedStragglers, StoredTokens, StoredRefresh,
                LiveAccess, LiveRefresh
  <1> QED
    BY <1>5, <1>6, <1>7 DEF SoundRows

\* A request that holds nothing and has passed no check relies on nothing.
Modest(r) ==
    /\ r.op \notin UserOps \cup ClientOps
    /\ r.stage = 0 /\ r.locked["codes"] = {} /\ r.locked["refresh"] = {}
    /\ r.pc # "commit" /\ (r.op = "family" => r.pc = "snapshot")
    /\ r.op \in {"exchange", "refresh"} => r.pc = "check"

LEMMA ModestSound == ASSUME NEW r, Modest(r) PROVE Sound(r)
  BY DEF Modest, Sound, UserSwept, ClientSwept, FamilySwept, CodesHeld, RefreshHeld, PlanDone,
         ChecksHold, Begun

LEMMA IdleModest == Modest(Idle)
  BY DEF Modest, Idle, NewRequest, NoLocks, UserOps, ClientOps, Tables

LEMMA FinishSound ==
    ASSUME JInv, NEW w \in Workers, Finish(w), UNCHANGED rowVars PROVE SoundRows'
  <1>1. Sound(Idle)
    BY IdleModest, ModestSound
  <1> QED
    BY <1>1, SoundRequest DEF Finish

LEMMA ServeSound ==
    ASSUME JInv, NEW w \in Workers, NEW op, NEW pc, NEW STATE arg,
           Serve(w, op, pc, arg), UNCHANGED rowVars,
           op \notin UserOps \cup ClientOps, pc # "commit", op = "family" => pc = "snapshot",
           op \in {"exchange", "refresh"} => pc = "check"
    PROVE  SoundRows'
  <1> DEFINE r == NewRequest(op, pc, arg, NoLocks)
  <1>1. Modest(r)
    BY DEF Modest, NewRequest, NoLocks, Tables
  <1>2. req' = [req EXCEPT ![w] = r]
    BY DEF Serve
  <1> HIDE DEF r
  <1>3. PICK q : q = r
    OBVIOUS
  <1>4. Sound(q)
    BY <1>1, <1>3, ModestSound
  <1> QED
    BY <1>2, <1>3, <1>4, SoundRequest

LEMMA ServeHoldingSound ==
    ASSUME JInv, NEW w \in Workers, NEW op, NEW STATE arg, NEW t, NEW x,
           ServeHolding(w, op, arg, t, x), UNCHANGED rowVars, op \in Revocations \ {"family"},
           op \in UserOps => t = "users" /\ x = arg,
           op \in ClientOps => t = "clients" /\ x = arg,
           t \in {"users", "clients", "grants"}
    PROVE  SoundRows'
  <1> DEFINE locks == [NoLocks EXCEPT ![t] = {x}]
             r == NewRequest(op, "snapshot", arg, locks)
  <1>1. locks["codes"] = {} /\ locks["refresh"] = {} /\ locks[t] = {x}
    BY DEF NoLocks, Tables
  <1>2. req' = [req EXCEPT ![w] = r]
    BY DEF ServeHolding
  <1> HIDE DEF locks
  <1>3. /\ r.op = op /\ r.pc = "snapshot" /\ r.arg = arg /\ r.stage = 0 /\ r.locked = locks
    BY DEF NewRequest
  <1> HIDE DEF r
  <1>4. ~Begun(r, 1) /\ ~Begun(r, 2) /\ ~Begun(r, 3)
    BY <1>3 DEF Begun
  <1>5. UserSwept(r) /\ ClientSwept(r) /\ FamilySwept(r)
    BY <1>1, <1>3, <1>4 DEF UserSwept, ClientSwept, FamilySwept, Revocations, UserOps, ClientOps
  <1>6. CodesHeld(r) /\ RefreshHeld(r) /\ PlanDone(r) /\ ChecksHold(r)
    BY <1>1, <1>3 DEF CodesHeld, RefreshHeld, PlanDone, ChecksHold, Revocations, UserOps, ClientOps
  <1>7. Sound(r)
    BY <1>5, <1>6 DEF Sound
  <1> QED
    BY <1>2, <1>7, SoundRequest

LEMMA AcceptSound == ASSUME JInv, NEW w \in Workers, Accept(w) PROVE SoundRows'
  <1> USE DEF UserOps, ClientOps, Revocations
  <1>1. ASSUME NEW u \in Users, LoginCheck(w, u) PROVE SoundRows'
    BY <1>1, ServeSound DEF LoginCheck
  <1>2. ASSUME NEW s \in Sessions, NEW c \in Clients, CreateConsentCheck(w, s, c) PROVE SoundRows'
    BY <1>2, ServeSound DEF CreateConsentCheck
  <1>3. ASSUME NEW s \in Sessions, NEW c \in Clients, AuthorizeCheck(w, s, c) PROVE SoundRows'
    BY <1>3, ServeSound DEF AuthorizeCheck
  <1>4. ASSUME NEW k \in Codes, ExchangeLoad(w, k) PROVE SoundRows'
    BY <1>4, ServeSound DEF ExchangeLoad
  <1>5. ASSUME NEW i \in Issues, RefreshLoad(w, i) PROVE SoundRows'
    <2>1. CASE i \in rotated
      BY <1>5, <2>1, ServeSound DEF RefreshLoad
    <2>2. CASE i \notin rotated
      BY <1>5, <2>2, ServeSound DEF RefreshLoad
    <2> QED
      BY <2>1, <2>2
  <1>6. ASSUME NEW c \in Clients, ClientCredentialsCheck(w, c) PROVE SoundRows'
    BY <1>6, ServeSound DEF ClientCredentialsCheck
  <1>7. ASSUME NEW i \in Issues, RevokeRefreshToken(w, i) PROVE SoundRows'
    BY <1>7, ServeSound DEF RevokeRefreshToken
  <1>8. ASSUME NEW op \in UserOps, NEW u \in Users, LockUser(w, op, u) PROVE SoundRows'
    BY <1>8, ServeHoldingSound DEF LockUser
  <1>9. ASSUME NEW op \in ClientOps, NEW c \in Clients, LockClient(w, op, c) PROVE SoundRows'
    BY <1>9, ServeHoldingSound DEF LockClient
  <1>10. ASSUME NEW g \in Grants, LockConsentGrant(w, g) PROVE SoundRows'
    BY <1>10, ServeHoldingSound DEF LockConsentGrant
  <1> QED
    BY <1>1, <1>2, <1>3, <1>4, <1>5, <1>6, <1>7, <1>8, <1>9, <1>10 DEF Accept

LEMMA CheckSound ==
    ASSUME JInv, NEW w \in Workers, req[w].op \in {"exchange", "refresh"}, NEW STATE passed,
           NEW pc, pc \notin {"commit", "insert"}, Check(w, passed, pc), UNCHANGED rowVars,
           passed =>
               /\ req[w].op = "refresh" /\ LiveRefresh(req[w].arg) =>
                      /\ pc \in {"check_client", "rotate"}
                             => userStatus[tokens[req[w].arg].user] = "active"
                      /\ pc = "rotate" => clientStatus[tokens[req[w].arg].client] = "active"
               /\ /\ req[w].op = "exchange" /\ req[w].arg \notin usedCodes \cup expired
                  /\ pc \in {"check_user", "check_session", "consume"}
                  => clientStatus[codes[req[w].arg].client] = "active"
    PROVE  SoundRows'
  <1>1. CASE ~passed
    BY <1>1, FinishSound DEF Check
  <1>2. CASE passed
    <2> DEFINE r == [op |-> req[w].op, pc |-> pc, arg |-> req[w].arg, stage |-> 0, snap |-> {},
                     locked |-> NoLocks]
    <2>1. /\ r.op = req[w].op /\ r.pc = pc /\ r.arg = req[w].arg /\ r.stage = 0
          /\ r.locked["codes"] = {} /\ r.locked["refresh"] = {}
      BY DEF NoLocks, Tables
    <2>2. req' = [req EXCEPT ![w] = r]
      BY <1>2 DEF Check, Proceed
    <2> HIDE DEF r
    <2>3. UserSwept(r) /\ ClientSwept(r) /\ FamilySwept(r) /\ CodesHeld(r) /\ RefreshHeld(r) /\ PlanDone(r)
      BY <2>1 DEF UserSwept, ClientSwept, FamilySwept, CodesHeld, RefreshHeld, PlanDone, UserOps,
                  ClientOps
    <2>4. ChecksHold(r)
      BY <1>2, <2>1 DEF ChecksHold
    <2>5. Sound(r)
      BY <2>3, <2>4 DEF Sound
    <2> QED
      BY <2>2, <2>5, SoundRequest
  <1> QED
    BY <1>1, <1>2

LEMMA ChecksSound ==
    ASSUME JInv, NEW w \in Workers,
           \/ ExchangeCheckClient(w) \/ ExchangeCheckUser(w) \/ ExchangeCheckSession(w)
           \/ RefreshCheckUser(w) \/ RefreshCheckClient(w)
    PROVE  SoundRows'
  <1>0. ChecksHold(req[w])
    BY DEF JInv, Sound
  <1>1. CASE ExchangeCheckClient(w)
    BY <1>1, CheckSound DEF ExchangeCheckClient, At
  <1>2. CASE ExchangeCheckUser(w)
    BY <1>0, <1>2, CheckSound DEF ExchangeCheckUser, At, ChecksHold
  <1>3. CASE ExchangeCheckSession(w)
    BY <1>0, <1>3, CheckSound DEF ExchangeCheckSession, At, ChecksHold
  <1>4. CASE RefreshCheckUser(w)
    BY <1>4, CheckSound DEF RefreshCheckUser, At
  <1>5. CASE RefreshCheckClient(w)
    BY <1>0, <1>5, CheckSound DEF RefreshCheckClient, At, ChecksHold
  <1> QED
    BY <1>1, <1>2, <1>3, <1>4, <1>5

\* The grant is locked; what the request has checked is still true.
LEMMA HoldSound ==
    ASSUME JInv, NEW w \in Workers, ExchangeConsume(w) \/ RefreshRotate(w) PROVE SoundRows'
  <1>0. ChecksHold(req[w]) /\ ArgOK(req[w]) /\ CodesHeld(req[w]) /\ RefreshHeld(req[w])
        /\ req[w].locked \in [Tables -> SUBSET RowIds]
    BY RequestFields DEF JInv, Sound, IInv, TypeOK
  <1>1. CASE ExchangeConsume(w)
    <2>1. req[w].op = "exchange" /\ req[w].pc = "consume" /\ UNCHANGED rowVars
      BY <1>1 DEF ExchangeConsume, At
    <2>2. CASE req[w].arg \in usedCodes
      BY <1>1, <2>1, <2>2, FinishSound DEF ExchangeConsume
    <2>3. CASE req[w].arg \notin usedCodes
      <3> DEFINE locks == Lock(w, "codes", {req[w].arg})
                 r == [op |-> req[w].op, pc |-> "insert", arg |-> req[w].arg, stage |-> 0,
                       snap |-> {}, locked |-> locks]
      <3>1. /\ locks["codes"] = req[w].locked["codes"] \cup {req[w].arg}
            /\ locks["refresh"] = req[w].locked["refresh"]
        BY <1>0 DEF Lock, Tables
      <3>2. req' = [req EXCEPT ![w] = r]
        BY <1>1, <2>3 DEF ExchangeConsume, Proceed
      <3> HIDE DEF locks
      <3>3. r.op = "exchange" /\ r.pc = "insert" /\ r.arg = req[w].arg /\ r.locked = locks
        BY <2>1
      <3> HIDE DEF r
      <3>4. CodesHeld(r) /\ RefreshHeld(r)
        BY <1>0, <2>3, <3>1, <3>3 DEF CodesHeld, RefreshHeld
      <3>5. UserSwept(r) /\ ClientSwept(r) /\ FamilySwept(r) /\ PlanDone(r)
        BY <3>3 DEF UserSwept, ClientSwept, FamilySwept, PlanDone, UserOps, ClientOps
      <3>6. ChecksHold(r)
        BY <1>0, <2>1, <3>3 DEF ChecksHold
      <3>7. Sound(r)
        BY <3>4, <3>5, <3>6 DEF Sound
      <3> QED
        BY <2>1, <3>2, <3>7, SoundRequest
    <2> QED
      BY <2>2, <2>3
  <1>2. CASE RefreshRotate(w)
    <2>1. req[w].op = "refresh" /\ req[w].pc = "rotate" /\ UNCHANGED rowVars
      BY <1>2 DEF RefreshRotate, At
    <2>2. CASE ~LiveRefresh(req[w].arg)
      BY <1>2, <2>1, <2>2, ServeSound DEF RefreshRotate, UserOps, ClientOps
    <2>3. CASE LiveRefresh(req[w].arg)
      <3> DEFINE locks == Lock(w, "refresh", {req[w].arg})
                 r == [op |-> req[w].op, pc |-> "insert", arg |-> req[w].arg, stage |-> 0,
                       snap |-> {}, locked |-> locks]
      <3>1. /\ locks["refresh"] = req[w].locked["refresh"] \cup {req[w].arg}
            /\ locks["codes"] = req[w].locked["codes"]
        BY <1>0 DEF Lock, Tables
      <3>2. req' = [req EXCEPT ![w] = r]
        BY <1>2, <2>3 DEF RefreshRotate, Proceed
      <3> HIDE DEF locks
      <3>3. r.op = "refresh" /\ r.pc = "insert" /\ r.arg = req[w].arg /\ r.locked = locks
        BY <2>1
      <3> HIDE DEF r
      <3>4. CodesHeld(r) /\ RefreshHeld(r)
        BY <1>0, <2>3, <3>1, <3>3 DEF CodesHeld, RefreshHeld, LiveRefresh
      <3>5. UserSwept(r) /\ ClientSwept(r) /\ FamilySwept(r) /\ PlanDone(r)
        BY <3>3 DEF UserSwept, ClientSwept, FamilySwept, PlanDone, UserOps, ClientOps
      <3>6. ChecksHold(r)
        BY <1>0, <2>1, <2>3, <3>3 DEF ChecksHold
      <3>7. Sound(r)
        BY <3>4, <3>5, <3>6 DEF Sound
      <3> QED
        BY <2>1, <3>2, <3>7, SoundRequest
    <2> QED
      BY <2>2, <2>3
  <1> QED
    BY <1>1, <1>2

\* The statements of each plan, one by one.
LEMMA PlanSteps ==
    /\ \A op \in UserOps : /\ Len(Plan[op]) = 3 /\ Plan[op][1] = "sessions"
                           /\ Plan[op][2] = "access" /\ Plan[op][3] = "refresh"
    /\ \A op \in {"disable", "change_scopes"} :
           /\ Len(Plan[op]) = 3 /\ Plan[op][1] = "codes"
           /\ Plan[op][2] = "access" /\ Plan[op][3] = "refresh"
    /\ Len(Plan["change_redirects"]) = 1 /\ Plan["change_redirects"][1] = "codes"
    /\ Len(Plan["family"]) = 2 /\ Plan["family"][1] = "refresh" /\ Plan["family"][2] = "access"
  BY DEF UserOps, Plan, UserPlan, PasswordPlan, ClientPlan, RedirectPlan, FamilyPlan

\* The table of statement n + 1 of a plan.
LEMMA PlanAt ==
    ASSUME NEW op, NEW n \in Nat, n + 1 \in 1 .. Len(Plan[op])
    PROVE  /\ op \in UserOps =>
                  /\ n \in {0, 1, 2} /\ (n = 0 => Plan[op][n + 1] = "sessions")
                  /\ n = 1 => Plan[op][n + 1] = "access"
                  /\ n = 2 => Plan[op][n + 1] = "refresh"
           /\ op \in ClientOps =>
                  /\ n \in {0, 1, 2} /\ (n = 0 => Plan[op][n + 1] = "codes")
                  /\ n = 1 => op # "change_redirects" /\ Plan[op][n + 1] = "access"
                  /\ n = 2 => op # "change_redirects" /\ Plan[op][n + 1] = "refresh"
           /\ op = "family" => /\ n \in {0, 1} /\ (n = 0 => Plan[op][n + 1] = "refresh")
                               /\ n = 1 => Plan[op][n + 1] = "access"
  <1>1. CASE op \in UserOps
    <2>1. Len(Plan[op]) = 3
      BY <1>1, PlanSteps
    <2>2. n \in {0, 1, 2}
      BY <2>1
    <2>3. /\ n = 0 => Plan[op][n + 1] = Plan[op][1]
          /\ n = 1 => Plan[op][n + 1] = Plan[op][2]
          /\ n = 2 => Plan[op][n + 1] = Plan[op][3]
      OBVIOUS
    <2>4. op \notin ClientOps /\ op # "family"
      BY <1>1 DEF UserOps, ClientOps
    <2> QED
      BY <1>1, <2>2, <2>3, <2>4, PlanSteps
  <1>2. CASE op \in {"disable", "change_scopes"}
    <2>1. Len(Plan[op]) = 3
      BY <1>2, PlanSteps
    <2>2. n \in {0, 1, 2}
      BY <2>1
    <2>3. /\ n = 0 => Plan[op][n + 1] = Plan[op][1]
          /\ n = 1 => Plan[op][n + 1] = Plan[op][2]
          /\ n = 2 => Plan[op][n + 1] = Plan[op][3]
      OBVIOUS
    <2>4. op \notin UserOps /\ op # "family" /\ op # "change_redirects"
      BY <1>2 DEF UserOps
    <2> QED
      BY <1>2, <2>2, <2>3, <2>4, PlanSteps
  <1>3. CASE op = "change_redirects"
    <2>1. n = 0
      BY <1>3, PlanSteps
    <2> QED
      BY <1>3, <2>1, PlanSteps DEF UserOps
  <1>4. CASE op = "family"
    <2>1. n \in {0, 1}
      BY <1>4, PlanSteps
    <2> QED
      BY <1>4, <2>1, PlanSteps DEF UserOps, ClientOps
  <1> QED
    BY <1>1, <1>2, <1>3, <1>4 DEF ClientOps

\* A statement of a sweep selects whatever is left of the user or the client.
LEMMA SelectsAll ==
    ASSUME NEW op, NEW arg
    PROVE  /\ op \in UserOps =>
                  /\ \A s \in sessions : SessionUser[s] = arg
                         => s \in Matching(op, arg)["sessions"] \cup revokedSessions
                  /\ \A i \in StoredTokens : tokens[i].user = arg
                         => i \in Matching(op, arg)["access"] \cup revokedAccess
                  /\ \A i \in StoredRefresh : tokens[i].user = arg
                         => i \in Matching(op, arg)["refresh"] \cup revokedRefresh
           /\ op \in ClientOps =>
                  /\ \A k \in StoredCodes : codes[k].client = arg
                         => k \in Matching(op, arg)["codes"] \cup usedCodes \cup expired
                  /\ \A i \in StoredTokens : tokens[i].client = arg
                         => i \in Matching(op, arg)["access"] \cup revokedAccess
                  /\ \A i \in StoredRefresh : tokens[i].client = arg
                         => i \in Matching(op, arg)["refresh"] \cup revokedRefresh
           /\ op = "family" =>
                  \A i \in StoredTokens : tokens[i].family = arg => i \in Matching(op, arg)["access"]
           /\ Matching(op, arg)["codes"] \cap usedCodes = {}
           /\ Matching(op, arg)["refresh"] \subseteq StoredRefresh
  BY DEF Matching, Hit, HitToken, Skips, UserOps, ClientOps

LEMMA SnapshotSound == ASSUME JInv, NEW w \in Workers, TakeSnapshot(w) PROVE SoundRows'
  <1> DEFINE op == req[w].op
             arg == req[w].arg
             n == req[w].stage
             locks == req[w].locked
             snap == Matching(op, arg)[Table(w)]
             r == [op |-> op, pc |-> "update", arg |-> arg, stage |-> n, snap |-> snap,
                   locked |-> locks]
  <1>1. /\ op \in Revocations /\ req[w].pc = "snapshot" /\ req' = [req EXCEPT ![w] = r]
        /\ UNCHANGED rowVars
    BY DEF TakeSnapshot, Proceed
  <1>2. /\ n \in Nat /\ n + 1 \in 1 .. Len(Plan[op]) /\ op \notin {"none", "exchange", "refresh"}
    BY <1>1, MatchingRows DEF JInv
  <1>3. /\ UserSwept(req[w]) /\ ClientSwept(req[w]) /\ FamilySwept(req[w])
        /\ CodesHeld(req[w]) /\ RefreshHeld(req[w])
    BY DEF JInv, Sound
  <1>4. snap = Matching(op, arg)[Plan[op][n + 1]]
    BY DEF Table
  <1>5. /\ r.op = op /\ r.pc = "update" /\ r.arg = arg /\ r.stage = n /\ r.snap = snap
        /\ r.locked = locks
    OBVIOUS
  <1> HIDE DEF r, snap
  <1>6. UserSwept(r)
    <2> SUFFICES ASSUME op \in UserOps PROVE UserSwept(r)
      BY <1>5 DEF UserSwept
    <2>1. /\ n \in {0, 1, 2} /\ (n = 0 => snap = Matching(op, arg)["sessions"])
          /\ (n = 1 => snap = Matching(op, arg)["access"])
          /\ (n = 2 => snap = Matching(op, arg)["refresh"])
      BY <1>2, <1>4, PlanAt
    <2>2. /\ Begun(r, 1) => Begun(req[w], 1) \/ n = 0
          /\ Begun(r, 2) => Begun(req[w], 2) \/ n = 1
          /\ Begun(r, 3) => Begun(req[w], 3) \/ n = 2
      BY <1>5, <2>1 DEF Begun
    <2>3. /\ Taken(r, "sessions", 1) = IF n = 0 THEN snap ELSE Taken(req[w], "sessions", 1)
          /\ Taken(r, "access", 2) = IF n = 1 THEN snap ELSE Taken(req[w], "access", 2)
          /\ Taken(r, "refresh", 3) = IF n = 2 THEN snap ELSE Taken(req[w], "refresh", 3)
      BY <1>5, <2>1 DEF Taken
    <2>4. /\ \A s \in sessions : SessionUser[s] = arg
                 => s \in Matching(op, arg)["sessions"] \cup revokedSessions
          /\ \A i \in StoredTokens : tokens[i].user = arg
                 => i \in Matching(op, arg)["access"] \cup revokedAccess
          /\ \A i \in StoredRefresh : tokens[i].user = arg
                 => i \in Matching(op, arg)["refresh"] \cup revokedRefresh
      BY SelectsAll
    <2> QED
      BY <1>3, <1>5, <2>1, <2>2, <2>3, <2>4 DEF UserSwept
  <1>7. ClientSwept(r)
    <2> SUFFICES ASSUME op \in ClientOps PROVE ClientSwept(r)
      BY <1>5 DEF ClientSwept
    <2>1. /\ n \in {0, 1, 2} /\ (n = 0 => snap = Matching(op, arg)["codes"])
          /\ (n = 1 => snap = Matching(op, arg)["access"])
          /\ (n = 2 => snap = Matching(op, arg)["refresh"])
      BY SMTT(30), <1>2, <1>4, PlanAt
    <2>2. /\ Begun(r, 1) => Begun(req[w], 1) \/ n = 0
          /\ Begun(r, 2) => Begun(req[w], 2) \/ n = 1
          /\ Begun(r, 3) => Begun(req[w], 3) \/ n = 2
      BY <1>5, <2>1 DEF Begun
    <2>3. /\ Taken(r, "codes", 1) = IF n = 0 THEN snap ELSE Taken(req[w], "codes", 1)
          /\ Taken(r, "access", 2) = IF n = 1 THEN snap ELSE Taken(req[w], "access", 2)
          /\ Taken(r, "refresh", 3) = IF n = 2 THEN snap ELSE Taken(req[w], "refresh", 3)
      BY <1>5, <2>1 DEF Taken
    <2>4. /\ \A k \in StoredCodes : codes[k].client = arg
                 => k \in Matching(op, arg)["codes"] \cup usedCodes \cup expired
          /\ \A i \in StoredTokens : tokens[i].client = arg
                 => i \in Matching(op, arg)["access"] \cup revokedAccess
          /\ \A i \in StoredRefresh : tokens[i].client = arg
                 => i \in Matching(op, arg)["refresh"] \cup revokedRefresh
      BY SelectsAll
    <2> QED
      BY <1>3, <1>5, <2>1, <2>2, <2>3, <2>4 DEF ClientSwept
  <1>8. FamilySwept(r)
    <2> SUFFICES ASSUME op = "family" PROVE FamilySwept(r)
      BY <1>5 DEF FamilySwept
    <2>1. n \in {0, 1} /\ (n = 1 => snap = Matching(op, arg)["access"])
      BY <1>2, <1>4, PlanSteps
    <2>2. Begun(r, 2) => n = 1
      BY <1>5, <2>1 DEF Begun
    <2>3. n = 1 => Taken(r, "access", 2) = snap
      BY <1>5 DEF Taken
    <2>4. \A i \in StoredTokens : tokens[i].family = arg => i \in Matching(op, arg)["access"]
      BY SelectsAll
    <2> QED
      BY <1>5, <2>1, <2>2, <2>3, <2>4 DEF FamilySwept
  <1>9. CodesHeld(r) /\ RefreshHeld(r) /\ PlanDone(r) /\ ChecksHold(r)
    BY <1>2, <1>3, <1>5 DEF CodesHeld, RefreshHeld, PlanDone, ChecksHold
  <1>10. Sound(r)
    BY <1>6, <1>7, <1>8, <1>9 DEF Sound
  <1> QED
    BY <1>1, <1>10, SoundRequest

LEMMA UpdateSound == ASSUME JInv, NEW w \in Workers, UpdateRows(w) PROVE SoundRows'
  <1> DEFINE op == req[w].op
             arg == req[w].arg
             n == req[w].stage
             t == Table(w)
             rows == req[w].snap \cap Matching(op, arg)[t]
             locks == Lock(w, t, rows)
             pc == IF n + 1 = Len(Plan[op]) THEN "commit" ELSE "snapshot"
             r == [op |-> op, pc |-> pc, arg |-> arg, stage |-> n + 1, snap |-> {},
                   locked |-> locks]
  <1>1. /\ op \in Revocations /\ req[w].pc = "update" /\ req' = [req EXCEPT ![w] = r]
        /\ UNCHANGED rowVars
    BY DEF UpdateRows, Proceed
  <1>2. /\ n \in Nat /\ n + 1 \in 1 .. Len(Plan[op]) /\ op \notin {"none", "exchange", "refresh"}
        /\ t \in Tables
    BY <1>1, MatchingRows DEF JInv
  <1>3. /\ UserSwept(req[w]) /\ ClientSwept(req[w]) /\ FamilySwept(req[w])
        /\ CodesHeld(req[w]) /\ RefreshHeld(req[w]) /\ req[w].locked \in [Tables -> SUBSET RowIds]
    BY RequestFields DEF JInv, Sound, IInv
  <1>4. t = Plan[op][n + 1]
    BY DEF Table
  <1>5. \A x \in Tables : locks[x] = IF x = t THEN req[w].locked[x] \cup rows ELSE req[w].locked[x]
    BY <1>2, <1>3 DEF Lock
  <1>6. /\ r.op = op /\ r.pc = pc /\ r.arg = arg /\ r.stage = n + 1 /\ r.locked = locks
    OBVIOUS
  <1> HIDE DEF r, locks, t
  <1>7. /\ locks["users"] = IF t = "users" THEN req[w].locked["users"] \cup rows ELSE req[w].locked["users"]
        /\ locks["clients"] = IF t = "clients" THEN req[w].locked["clients"] \cup rows ELSE req[w].locked["clients"]
        /\ locks["sessions"] = IF t = "sessions" THEN req[w].locked["sessions"] \cup rows ELSE req[w].locked["sessions"]
        /\ locks["codes"] = IF t = "codes" THEN req[w].locked["codes"] \cup rows ELSE req[w].locked["codes"]
        /\ locks["access"] = IF t = "access" THEN req[w].locked["access"] \cup rows ELSE req[w].locked["access"]
        /\ locks["refresh"] = IF t = "refresh" THEN req[w].locked["refresh"] \cup rows ELSE req[w].locked["refresh"]
    BY <1>5 DEF Tables
  <1>8. /\ \A m \in 1 .. 3 : Begun(r, m) => Begun(req[w], m)
        /\ \A m \in 1 .. 3 : Begun(r, m) => m <= n + 1
    BY <1>1, <1>2, <1>6 DEF Begun
  <1>9. UserSwept(r)
    <2> SUFFICES ASSUME op \in UserOps PROVE UserSwept(r)
      BY <1>6 DEF UserSwept
    <2>1. n \in {0, 1, 2} /\ t = IF n = 0 THEN "sessions" ELSE IF n = 1 THEN "access" ELSE "refresh"
      BY <1>2, <1>4, PlanSteps
    <2>2. /\ \A s \in sessions : SessionUser[s] = arg
                 => s \in Matching(op, arg)["sessions"] \cup revokedSessions
          /\ \A i \in StoredTokens : tokens[i].user = arg
                 => i \in Matching(op, arg)["access"] \cup revokedAccess
          /\ \A i \in StoredRefresh : tokens[i].user = arg
                 => i \in Matching(op, arg)["refresh"] \cup revokedRefresh
      BY SelectsAll
    <2>3. arg \in locks["users"]
      BY <1>3, <1>7, <2>1 DEF UserSwept
    <2>4. ASSUME NEW s \in sessions, Begun(r, 1), SessionUser[s] = arg
          PROVE  s \in locks["sessions"] \cup revokedSessions
      <3>1. s \in Taken(req[w], "sessions", 1) \cup revokedSessions
        BY <1>3, <1>8, <2>4 DEF UserSwept
      <3> QED
        BY <1>7, <2>1, <2>2, <2>4, <3>1 DEF Taken
    <2>5. ASSUME NEW i \in StoredTokens, Begun(r, 2), tokens[i].user = arg
          PROVE  i \in locks["access"] \cup revokedAccess
      <3>1. i \in Taken(req[w], "access", 2) \cup revokedAccess
        BY <1>3, <1>8, <2>5 DEF UserSwept
      <3> QED
        BY <1>7, <2>1, <2>2, <2>5, <3>1 DEF Taken
    <2>6. ASSUME NEW i \in StoredRefresh, Begun(r, 3), tokens[i].user = arg
          PROVE  i \in locks["refresh"] \cup revokedRefresh
      <3>1. i \in Taken(req[w], "refresh", 3) \cup revokedRefresh
        BY <1>3, <1>8, <2>6 DEF UserSwept
      <3> QED
        BY <1>7, <2>1, <2>2, <2>6, <3>1 DEF Taken
    <2>7. /\ Begun(r, 1) => Taken(r, "sessions", 1) = locks["sessions"]
          /\ Begun(r, 2) => Taken(r, "access", 2) = locks["access"]
          /\ Begun(r, 3) => Taken(r, "refresh", 3) = locks["refresh"]
      BY <1>2, <1>6, <1>8 DEF Taken
    <2> QED
      BY <1>6, <2>3, <2>4, <2>5, <2>6, <2>7 DEF UserSwept
  <1>10. ClientSwept(r)
    <2> SUFFICES ASSUME op \in ClientOps PROVE ClientSwept(r)
      BY <1>6 DEF ClientSwept
    <2>1. /\ n \in {0, 1, 2} /\ t \in {"codes", "access", "refresh"} /\ (n = 0 => t = "codes")
          /\ op # "change_redirects" => (n = 1 => t = "access") /\ (n = 2 => t = "refresh")
      BY <1>2, <1>4, PlanAt
    <2>2. /\ \A k \in StoredCodes : codes[k].client = arg
                 => k \in Matching(op, arg)["codes"] \cup usedCodes \cup expired
          /\ \A i \in StoredTokens : tokens[i].client = arg
                 => i \in Matching(op, arg)["access"] \cup revokedAccess
          /\ \A i \in StoredRefresh : tokens[i].client = arg
                 => i \in Matching(op, arg)["refresh"] \cup revokedRefresh
      BY SelectsAll
    <2>3. arg \in locks["clients"]
      BY <1>3, <1>7, <2>1 DEF ClientSwept
    <2>4. ASSUME NEW k \in StoredCodes, Begun(r, 1), codes[k].client = arg
          PROVE  k \in locks["codes"] \cup usedCodes \cup expired
      <3>1. k \in Taken(req[w], "codes", 1) \cup usedCodes \cup expired
        BY <1>3, <1>8, <2>4 DEF ClientSwept
      <3> QED
        BY <1>7, <2>1, <2>2, <2>4, <3>1 DEF Taken
    <2>5. ASSUME op # "change_redirects", NEW i \in StoredTokens, Begun(r, 2), tokens[i].client = arg
          PROVE  i \in locks["access"] \cup revokedAccess
      <3>1. i \in Taken(req[w], "access", 2) \cup revokedAccess
        BY <1>3, <1>8, <2>5 DEF ClientSwept
      <3> QED
        BY <1>7, <2>1, <2>2, <2>5, <3>1 DEF Taken
    <2>6. ASSUME op # "change_redirects", NEW i \in StoredRefresh, Begun(r, 3), tokens[i].client = arg
          PROVE  i \in locks["refresh"] \cup revokedRefresh
      <3>1. i \in Taken(req[w], "refresh", 3) \cup revokedRefresh
        BY <1>3, <1>8, <2>6 DEF ClientSwept
      <3> QED
        BY <1>7, <2>1, <2>2, <2>6, <3>1 DEF Taken
    <2>7. /\ Begun(r, 1) => Taken(r, "codes", 1) = locks["codes"]
          /\ Begun(r, 2) => Taken(r, "access", 2) = locks["access"]
          /\ Begun(r, 3) => Taken(r, "refresh", 3) = locks["refresh"]
      BY <1>2, <1>6, <1>8 DEF Taken
    <2> QED
      BY <1>6, <2>3, <2>4, <2>5, <2>6, <2>7 DEF ClientSwept
  <1>11. FamilySwept(r)
    <2> SUFFICES ASSUME op = "family", NEW i \in StoredTokens, Begun(r, 2), tokens[i].family = arg,
                        source[i] \in locks["refresh"]
                 PROVE  i \in Taken(r, "access", 2)
      BY <1>6 DEF FamilySwept
    <2>1. n = 1 /\ t = "access"
      BY <1>2, <1>4, <1>8, PlanSteps
    <2>2. i \in Taken(req[w], "access", 2)
      BY <1>3, <1>7, <1>8, <2>1 DEF FamilySwept
    <2>3. i \in Matching(op, arg)["access"]
      BY SelectsAll
    <2> QED
      BY <1>6, <1>7, <2>1, <2>2, <2>3 DEF Taken
  <1>12. CodesHeld(r) /\ RefreshHeld(r)
    BY <1>3, <1>6, <1>7, SelectsAll DEF CodesHeld, RefreshHeld
  <1>13. PlanDone(r) /\ ChecksHold(r)
    BY <1>1, <1>2, <1>6 DEF PlanDone, ChecksHold
  <1>14. Sound(r)
    BY <1>9, <1>10, <1>11, <1>12, <1>13 DEF Sound
  <1> QED
    BY <1>1, <1>14, SoundRequest

-----------------------------------------------------------------------------
(* Commits, again.                                                         *)

LEMMA IdleSound == Sound(Idle)'
  <1>1. PICK q : q = Idle
    OBVIOUS
  <1>2. Modest(q)
    BY <1>1, IdleModest
  <1>3. Sound(q)'
    BY <1>2 DEF Modest, Sound, UserSwept, ClientSwept, FamilySwept, CodesHeld, RefreshHeld,
                PlanDone, ChecksHold, Begun
  <1> QED
    BY <1>1, <1>3

\* A commit that stays out of the reach of the others leaves all requests sound.
LEMMA CommitSound ==
    ASSUME JInv, NEW w \in Workers, Finish(w), RowsGrow, StatusSafe,
           \A v \in Workers \ {w} : Elsewhere(v)
    PROVE  \A v \in Workers : Sound(req[v])'
  <1>1. req'[w] = Idle /\ \A v \in Workers \ {w} : req'[v] = req[v]
    BY DEF JInv, IInv, TypeOK, Finish
  <1>2. Sound(req[w])'
    BY <1>1, IdleSound
  <1>3. \A v \in Workers \ {w} : Sound(req[v])'
    BY <1>1, OthersSound
  <1> QED
    BY <1>2, <1>3

LEMMA InsertSound ==
    ASSUME JInv, NEW w \in Workers,
           \/ \E s \in Sessions : LoginInsert(w, s)
           \/ \E g \in Grants : CreateConsentInsert(w, g)
           \/ \E k \in Codes : AuthorizeInsert(w, k)
    PROVE  SoundRows'
  <1>1. /\ UNCHANGED <<userStatus, clientStatus, revokedSessions, usedCodes, tokens,
                       revokedAccess, rotated, revokedRefresh, expired, source>>
        /\ Finish(w)
    BY DEF LoginInsert, CreateConsentInsert, AuthorizeInsert
  <1>2. StoredTokens' = StoredTokens /\ StoredRefresh' = StoredRefresh
    BY <1>1 DEF StoredTokens, StoredRefresh
  <1>3. StatusSafe
    BY <1>1 DEF StatusSafe
  <1>4. RowsGrow /\ \A v \in Workers \ {w} : Elsewhere(v)
    <2>1. ASSUME NEW s \in Sessions, LoginInsert(w, s)
          PROVE  RowsGrow /\ \A v \in Workers \ {w} : Elsewhere(v)
      BY <1>1, <1>2, <2>1 DEF LoginInsert, RowsGrow, Elsewhere, StoredCodes, Free, FreshSessions
    <2>2. ASSUME NEW g \in Grants, CreateConsentInsert(w, g)
          PROVE  RowsGrow /\ \A v \in Workers \ {w} : Elsewhere(v)
      BY <1>1, <1>2, <2>2 DEF CreateConsentInsert, RowsGrow, Elsewhere, StoredCodes
    <2>3. ASSUME NEW k \in Codes, AuthorizeInsert(w, k)
          PROVE  RowsGrow /\ \A v \in Workers \ {w} : Elsewhere(v)
      <3>1. \A x \in Codes : codes'[x] = IF x = k THEN req[w].arg ELSE codes[x]
        BY <2>3 DEF AuthorizeInsert, JInv, IInv, TypeOK
      <3>2. codes[k] = None /\ Free(w, "clients", {req[w].arg.client}) /\ UNCHANGED sessions
        BY <2>3 DEF AuthorizeInsert
      <3>3. \A x \in StoredCodes : x \in StoredCodes' /\ codes'[x] = codes[x]
        BY <3>1, <3>2 DEF StoredCodes
      <3>4. \A x \in StoredCodes' \ StoredCodes : codes'[x].client = req[w].arg.client
        BY <3>1, <3>2 DEF StoredCodes
      <3> QED
        BY <1>1, <1>2, <3>2, <3>3, <3>4 DEF RowsGrow, Elsewhere, Free
    <2> QED
      BY <2>1, <2>2, <2>3
  <1>5. \A v \in Workers : Sound(req[v])'
    BY <1>1, <1>3, <1>4, CommitSound
  <1>6. RefreshOwned' /\ SuspendedStragglers'
    BY <1>1, <1>2 DEF JInv, RefreshOwned, SuspendedStragglers, LiveAccess, LiveRefresh
  <1> QED
    BY <1>5, <1>6 DEF SoundRows

\* Tokens are issued to a user and a client that nobody else has locked, for a
\* grant that nobody else has locked.
LEMMA IssueSound ==
    ASSUME JInv, NEW w \in Workers, NEW i \in Issues, NEW STATE row, row \in TokenRow,
           tokens[i] = None, tokens' = [tokens EXCEPT ![i] = row], Finish(w),
           \A j \in StoredTokens : source'[j] = source[j],
           UNCHANGED <<userStatus, clientStatus, sessions, revokedSessions, codes,
                       revokedAccess, revokedRefresh, expired>>,
           usedCodes \subseteq usedCodes', rotated \subseteq rotated',
           usedCodes' \subseteq usedCodes \cup req[w].locked["codes"],
           rotated' \subseteq rotated \cup req[w].locked["refresh"],
           Free(w, "clients", {row.client}),
           row.user # None => Free(w, "users", {row.user}),
           source'[i] \in Issues => source'[i] \in req[w].locked["refresh"],
           row.refresh => row.user # None,
           row.user = None \/ source'[i] \in Codes \/ userStatus[row.user] = "active"
    PROVE  SoundRows'
  <1>1. /\ StoredTokens' = StoredTokens \cup {i} /\ i \notin StoredTokens
        /\ \A j \in StoredTokens : tokens'[j] = tokens[j]
        /\ tokens'[i] = row
        /\ StoredRefresh' = IF row.refresh THEN StoredRefresh \cup {i} ELSE StoredRefresh
    BY TokenInsert DEF JInv
  <1>2. StoredCodes' = StoredCodes /\ StoredRefresh \subseteq StoredTokens
    BY DEF StoredCodes, StoredRefresh
  <1>3. RowsGrow
    BY <1>1, <1>2 DEF RowsGrow
  <1>4. StatusSafe
    BY DEF StatusSafe
  <1>5. \A v \in Workers : req[v].locked["users"] \subseteq Users
                            /\ req[v].locked["refresh"] \subseteq Issues
    <2>1. \A v \in Workers, t \in Tables : req[v].locked[t] \subseteq Rows[t]
      BY DEF JInv, IInv, TypeOK
    <2> QED
      BY <2>1 DEF Tables, Rows
  <1>6. ASSUME NEW v \in Workers \ {w} PROVE Elsewhere(v)
    <2>1. /\ req[v].locked["codes"] \cap req[w].locked["codes"] = {}
          /\ req[v].locked["refresh"] \cap req[w].locked["refresh"] = {}
      BY DEF JInv, IInv, LocksExclusive, Tables
    <2>2. row.user \notin req[v].locked["users"]
      BY <1>5, NoneAssumption DEF Free
    <2>3. row.client \notin req[v].locked["clients"]
      BY DEF Free
    <2>4. source'[i] \notin req[v].locked["refresh"]
      BY <1>5, <2>1
    <2>5. usedCodes' \cap req[v].locked["codes"] \subseteq usedCodes
      BY <2>1
    <2> QED
      BY <1>1, <1>2, <2>2, <2>3, <2>4, <2>5 DEF Elsewhere
  <1>7. \A v \in Workers : Sound(req[v])'
    BY <1>3, <1>4, <1>6, CommitSound
  <1>8. RefreshOwned'
    <2>1. row.refresh => row.user \in Users
      BY DEF TokenRow
    <2>2. \A j \in StoredRefresh' : tokens'[j].user \in Users
      BY <1>1, <1>2, <2>1 DEF JInv, RefreshOwned
    <2>3. rotated' \cup revokedRefresh' \subseteq StoredRefresh'
      <3>1. RefreshHeld(req[w]) /\ RefreshOwned
        BY DEF JInv, Sound
      <3> QED
        BY <1>1, <3>1 DEF RefreshHeld, RefreshOwned
    <2> QED
      BY <2>2, <2>3 DEF RefreshOwned
  <1>9. SuspendedStragglers'
    <2> SUFFICES ASSUME NEW j \in StoredTokens', tokens'[j].user # None,
                        userStatus'[tokens'[j].user] = "suspended",
                        LiveAccess(j)' \/ LiveRefresh(j)'
                 PROVE  source'[j] \in Codes
      BY DEF SuspendedStragglers
    <2>1. CASE j = i
      BY <1>1, <2>1
    <2>2. CASE j \in StoredTokens
      <3>1. LiveAccess(j)' => LiveAccess(j)
        BY <2>2 DEF LiveAccess
      <3>2. LiveRefresh(j)' => LiveRefresh(j)
        BY <1>1, <2>2 DEF LiveRefresh
      <3> QED
        BY <1>1, <2>2, <3>1, <3>2 DEF JInv, SuspendedStragglers
    <2> QED
      BY <1>1, <2>1, <2>2
  <1> QED
    BY <1>7, <1>8, <1>9 DEF SoundRows

LEMMA ExchangeCommitSound ==
    ASSUME JInv, NEW w \in Workers, NEW i \in Issues, NEW offline \in BOOLEAN,
           ExchangeCommit(w, i, offline)
    PROVE  SoundRows'
  <1> DEFINE k == req[w].arg
             row == [user |-> CodeUser(k), client |-> codes[k].client,
                     family |-> IF offline THEN i ELSE None, refresh |-> offline]
  <1>1. k \in Codes /\ codes[k] \in CodeRow /\ k \in req[w].locked["codes"]
    <2>1. k \in StoredCodes /\ k \in req[w].locked["codes"]
      BY RequestFields DEF JInv, IInv, ExchangeCommit, At, ArgOK, SpenderOwnsRow
    <2> QED
      BY <2>1 DEF JInv, IInv, TypeOK, StoredCodes
  <1>2. row \in TokenRow /\ CodeUser(k) \in Users
    BY <1>1, SessionUserAssumption DEF TokenRow, CodeUser, CodeRow
  <1>3. row.user = CodeUser(k) /\ row.client = codes[k].client
    OBVIOUS
  <1>4. /\ tokens[i] = None /\ tokens' = [tokens EXCEPT ![i] = row] /\ Finish(w)
        /\ usedCodes' = usedCodes \cup {k} /\ source' = [source EXCEPT ![i] = k]
        /\ Free(w, "users", {CodeUser(k)}) /\ Free(w, "clients", {codes[k].client})
        /\ UNCHANGED <<userStatus, clientStatus, sessions, revokedSessions, codes,
                       revokedAccess, rotated, revokedRefresh, expired>>
    BY DEF ExchangeCommit
  <1> HIDE DEF row, k
  <1>5. \A j \in Issues : source'[j] = IF j = i THEN k ELSE source[j]
    BY <1>4 DEF JInv, IInv, TypeOK
  <1>6. \A j \in StoredTokens : source'[j] = source[j]
    BY <1>4, <1>5 DEF StoredTokens
  <1>7. k \notin Issues /\ CodeUser(k) # None
    BY <1>1, <1>2, IdsAssumption, NoneAssumption
  <1> QED
    BY <1>1, <1>2, <1>3, <1>4, <1>5, <1>6, <1>7, IssueSound

LEMMA RefreshCommitSound ==
    ASSUME JInv, NEW w \in Workers, NEW i \in Issues, NEW offline \in BOOLEAN,
           RefreshCommit(w, i, offline)
    PROVE  SoundRows'
  <1> DEFINE old == req[w].arg
             row == [user |-> tokens[old].user, client |-> tokens[old].client,
                     family |-> tokens[old].family, refresh |-> offline]
  <1>1. old \in StoredRefresh /\ old \in req[w].locked["refresh"] /\ LiveRefresh(old)
    BY RequestFields DEF JInv, IInv, RefreshCommit, At, ArgOK, SpenderOwnsRow, LiveRefresh
  <1>2. old \in Issues /\ tokens[old] \in TokenRow /\ tokens[old].user \in Users
    BY <1>1 DEF JInv, IInv, TypeOK, RefreshOwned, StoredRefresh, StoredTokens
  <1>3. userStatus[tokens[old].user] = "active"
    BY <1>1 DEF JInv, Sound, ChecksHold, RefreshCommit, At
  <1>4. row \in TokenRow
    BY <1>2 DEF TokenRow
  <1>5. row.user = tokens[old].user /\ row.client = tokens[old].client
    OBVIOUS
  <1>6. /\ tokens[i] = None /\ tokens' = [tokens EXCEPT ![i] = row] /\ Finish(w)
        /\ rotated' = rotated \cup {old} /\ source' = [source EXCEPT ![i] = old]
        /\ Free(w, "users", {tokens[old].user}) /\ Free(w, "clients", {tokens[old].client})
        /\ UNCHANGED <<userStatus, clientStatus, sessions, revokedSessions, codes, usedCodes,
                       revokedAccess, revokedRefresh, expired>>
    BY DEF RefreshCommit
  <1> HIDE DEF row, old
  <1>7. \A j \in Issues : source'[j] = IF j = i THEN old ELSE source[j]
    BY <1>6 DEF JInv, IInv, TypeOK
  <1>8. \A j \in StoredTokens : source'[j] = source[j]
    BY <1>6, <1>7 DEF StoredTokens
  <1>9. tokens[old].user # None
    BY <1>2, NoneAssumption
  <1> QED
    BY <1>1, <1>3, <1>4, <1>5, <1>6, <1>7, <1>8, <1>9, IssueSound

LEMMA ClientCredentialsSound ==
    ASSUME JInv, NEW w \in Workers, NEW i \in Issues, ClientCredentialsInsert(w, i)
    PROVE  SoundRows'
  <1> DEFINE row == [user |-> None, client |-> req[w].arg, family |-> None, refresh |-> FALSE]
  <1>1. req[w].arg \in Clients
    BY RequestFields DEF JInv, IInv, ClientCredentialsInsert, At, ArgOK
  <1>2. row \in TokenRow /\ row.refresh = FALSE /\ row.user = None /\ row.client = req[w].arg
    BY <1>1 DEF TokenRow
  <1>3. /\ tokens[i] = None /\ tokens' = [tokens EXCEPT ![i] = row] /\ Finish(w)
        /\ Free(w, "clients", {req[w].arg})
        /\ UNCHANGED <<userStatus, clientStatus, sessions, revokedSessions, codes, usedCodes,
                       revokedAccess, rotated, revokedRefresh, expired, source>>
    BY DEF ClientCredentialsInsert
  <1> HIDE DEF row
  <1>4. source'[i] \notin Issues
    BY <1>3, NoneAssumption DEF JInv, IInv, SourceSpent
  <1> QED
    BY <1>2, <1>3, <1>4, IssueSound

\* At its commit a revocation holds all there is to revoke.
LEMMA CommitHoldsAll ==
    ASSUME JInv, NEW w \in Workers, RevocationCommit(w)
    PROVE  /\ req[w].op \in UserOps =>
                  /\ \A s \in sessions : SessionUser[s] = req[w].arg => s \in revokedSessions'
                  /\ \A i \in StoredTokens : tokens[i].user = req[w].arg => i \in revokedAccess'
                  /\ \A i \in StoredRefresh : tokens[i].user = req[w].arg => i \in revokedRefresh'
           /\ req[w].op \in {"disable", "change_scopes"} =>
                  /\ \A k \in StoredCodes : codes[k].client = req[w].arg
                                                => k \in usedCodes' \cup expired
                  /\ \A i \in StoredTokens : tokens[i].client = req[w].arg => i \in revokedAccess'
                  /\ \A i \in StoredRefresh : tokens[i].client = req[w].arg
                                                  => i \in revokedRefresh'
           /\ req[w].op = "family" =>
                  \A i \in StoredTokens :
                      tokens[i].family = req[w].arg /\ source[i] \in req[w].locked["refresh"]
                          => i \in revokedAccess'
  <1> DEFINE r == req[w]
  <1>1. /\ UserSwept(r) /\ ClientSwept(r) /\ FamilySwept(r) /\ r.stage = Len(Plan[r.op])
    BY DEF JInv, Sound, PlanDone, RevocationCommit
  <1>2. /\ revokedSessions' = revokedSessions \cup r.locked["sessions"]
        /\ usedCodes' = usedCodes \cup r.locked["codes"]
        /\ revokedAccess' = revokedAccess \cup r.locked["access"]
        /\ revokedRefresh' = revokedRefresh \cup r.locked["refresh"]
    BY DEF RevocationCommit
  <1> HIDE DEF r
  <1>3. ASSUME r.op \in UserOps \cup {"disable", "change_scopes"}
        PROVE  /\ Begun(r, 1) /\ Begun(r, 2) /\ Begun(r, 3)
               /\ \A t : /\ Taken(r, t, 1) = r.locked[t] /\ Taken(r, t, 2) = r.locked[t]
                         /\ Taken(r, t, 3) = r.locked[t]
    <2>1. r.stage = 3
      BY <1>1, <1>3, PlanSteps
    <2> QED
      BY <2>1 DEF Begun, Taken
  <1>4. ASSUME r.op = "family" PROVE Begun(r, 2) /\ Taken(r, "access", 2) = r.locked["access"]
    <2>1. r.stage = 2
      BY <1>1, <1>4, PlanSteps
    <2> QED
      BY <2>1 DEF Begun, Taken
  <1>5. ASSUME r.op \in UserOps
        PROVE  /\ \A s \in sessions : SessionUser[s] = r.arg => s \in revokedSessions'
               /\ \A i \in StoredTokens : tokens[i].user = r.arg => i \in revokedAccess'
               /\ \A i \in StoredRefresh : tokens[i].user = r.arg => i \in revokedRefresh'
    BY <1>1, <1>2, <1>3, <1>5 DEF UserSwept
  <1>6. ASSUME r.op \in {"disable", "change_scopes"}
        PROVE  /\ \A k \in StoredCodes : codes[k].client = r.arg => k \in usedCodes' \cup expired
               /\ \A i \in StoredTokens : tokens[i].client = r.arg => i \in revokedAccess'
               /\ \A i \in StoredRefresh : tokens[i].client = r.arg => i \in revokedRefresh'
    BY <1>1, <1>2, <1>3, <1>6 DEF ClientSwept, ClientOps
  <1>7. ASSUME r.op = "family"
        PROVE  \A i \in StoredTokens :
                   tokens[i].family = r.arg /\ source[i] \in r.locked["refresh"]
                       => i \in revokedAccess'
    BY <1>1, <1>2, <1>4, <1>7 DEF FamilySwept
  <1> QED
    BY <1>5, <1>6, <1>7 DEF r

LEMMA RevocationCommitSound ==
    ASSUME JInv, NEW w \in Workers, RevocationCommit(w) PROVE SoundRows'
  <1>1. /\ revokedSessions' = revokedSessions \cup req[w].locked["sessions"]
        /\ usedCodes' = usedCodes \cup req[w].locked["codes"]
        /\ revokedAccess' = revokedAccess \cup req[w].locked["access"]
        /\ revokedRefresh' = revokedRefresh \cup req[w].locked["refresh"]
        /\ UNCHANGED <<codes, tokens, rotated, expired, source>> /\ Finish(w)
    BY DEF RevocationCommit
  <1>2. /\ StoredTokens' = StoredTokens /\ StoredRefresh' = StoredRefresh
        /\ StoredCodes' = StoredCodes /\ StoredRefresh \subseteq StoredTokens
    BY <1>1 DEF StoredTokens, StoredRefresh, StoredCodes
  <1>3. /\ sessions \subseteq sessions'
        /\ \A s \in sessions' \ sessions :
               req[w].op \in UserOps /\ SessionUser[s] = req[w].arg
    BY DEF RevocationCommit, FreshSessions, At, UserOps
  <1>4. RowsGrow
    BY <1>1, <1>2, <1>3 DEF RowsGrow
  <1>5. /\ \A u \in Users : userStatus'[u] # userStatus[u] =>
               u = req[w].arg /\ req[w].op = "suspend" /\ userStatus'[u] = "suspended"
        /\ \A c \in Clients : clientStatus'[c] # clientStatus[c] =>
               c = req[w].arg /\ req[w].op = "disable"
    BY DEF RevocationCommit, At
  <1>6. StatusSafe
    BY <1>1, <1>5, CommitHoldsAll DEF StatusSafe, UserOps
  <1>7. ASSUME NEW v \in Workers \ {w} PROVE Elsewhere(v)
    <2>1. /\ req[v].locked["codes"] \cap req[w].locked["codes"] = {}
          /\ req[v].locked["users"] \cap req[w].locked["users"] = {}
      BY DEF JInv, IInv, LocksExclusive, Tables
    <2>2. req[w].op \in UserOps => req[w].arg \in req[w].locked["users"]
      BY DEF JInv, Sound, UserSwept
    <2> QED
      BY <1>1, <1>2, <1>3, <2>1, <2>2 DEF Elsewhere
  <1>8. \A v \in Workers : Sound(req[v])'
    BY <1>1, <1>4, <1>6, <1>7, CommitSound
  <1>9. RefreshOwned'
    <2>1. RefreshHeld(req[w]) /\ RefreshOwned
      BY DEF JInv, Sound
    <2> QED
      BY <1>1, <1>2, <2>1 DEF RefreshOwned, RefreshHeld
  <1>10. SuspendedStragglers'
    <2> SUFFICES ASSUME NEW i \in StoredTokens, tokens[i].user # None,
                        userStatus'[tokens[i].user] = "suspended",
                        LiveAccess(i)' \/ LiveRefresh(i)'
                 PROVE  source[i] \in Codes
      BY <1>1, <1>2 DEF SuspendedStragglers
    <2>1. tokens[i].user \in Users
      BY DEF JInv, IInv, TypeOK, StoredTokens, TokenRow
    <2>2. LiveAccess(i) \/ LiveRefresh(i)
      BY <1>1, <1>2 DEF LiveAccess, LiveRefresh
    <2>3. CASE userStatus[tokens[i].user] = "suspended"
      BY <2>2, <2>3 DEF JInv, SuspendedStragglers
    <2>4. CASE userStatus[tokens[i].user] # "suspended"
      <3>1. req[w].op \in UserOps /\ tokens[i].user = req[w].arg
        BY <1>5, <2>1, <2>4 DEF UserOps
      <3>2. ~LiveAccess(i)' /\ ~LiveRefresh(i)'
        BY <1>2, <3>1, CommitHoldsAll DEF LiveAccess, LiveRefresh
      <3> QED
        BY <3>2
    <2> QED
      BY <2>3, <2>4
  <1> QED
    BY <1>8, <1>9, <1>10 DEF SoundRows

LEMMA AutocommitSound == ASSUME JInv, Autocommit PROVE SoundRows'
  <1>1. /\ UNCHANGED <<sessions, codes, usedCodes, tokens, rotated, revokedRefresh, req, source>>
        /\ revokedSessions \subseteq revokedSessions' /\ revokedAccess \subseteq revokedAccess'
        /\ expired \subseteq expired'
    BY DEF Autocommit, RevokeAccessToken, RevokeSession, Reactivate, EnableClient, Expire
  <1>2. /\ \A u \in Users : userStatus'[u] # userStatus[u] => userStatus'[u] = "active"
        /\ \A c \in Clients : clientStatus'[c] # clientStatus[c] => clientStatus'[c] = "active"
    BY DEF Autocommit, RevokeAccessToken, RevokeSession, Reactivate, EnableClient, Expire,
           JInv, IInv, TypeOK
  <1>3. /\ StoredTokens' = StoredTokens /\ StoredRefresh' = StoredRefresh
        /\ StoredCodes' = StoredCodes
    BY <1>1 DEF StoredTokens, StoredRefresh, StoredCodes
  <1>4. RowsGrow /\ StatusSafe /\ \A v \in Workers : Elsewhere(v)
    BY <1>1, <1>2, <1>3 DEF RowsGrow, StatusSafe, Elsewhere
  <1>5. \A v \in Workers : Sound(req[v])'
    BY <1>1, <1>4, OthersSound
  <1>6. RefreshOwned'
    BY <1>1, <1>3 DEF JInv, RefreshOwned
  <1>7. SuspendedStragglers'
    <2> SUFFICES ASSUME NEW i \in StoredTokens, tokens[i].user # None,
                        userStatus'[tokens[i].user] = "suspended",
                        LiveAccess(i)' \/ LiveRefresh(i)'
                 PROVE  source[i] \in Codes
      BY <1>1, <1>3 DEF SuspendedStragglers
    <2>1. tokens[i].user \in Users
      BY DEF JInv, IInv, TypeOK, StoredTokens, TokenRow
    <2>2. LiveAccess(i) \/ LiveRefresh(i)
      BY <1>1, <1>3 DEF LiveAccess, LiveRefresh
    <2>3. userStatus[tokens[i].user] = "suspended"
      BY <1>2, <2>1
    <2> QED
      BY <2>2, <2>3 DEF JInv, SuspendedStragglers
  <1> QED
    BY <1>5, <1>6, <1>7 DEF SoundRows

-----------------------------------------------------------------------------
(* The stronger invariant is inductive.                                    *)

LEMMA InitJInv == Init => JInv
  <1> SUFFICES ASSUME Init PROVE JInv
    OBVIOUS
  <1>1. IInv
    BY InitIInv
  <1>2. Sound(Idle)
    BY IdleModest, ModestSound
  <1>3. \A w \in Workers : Sound(req[w])
    BY <1>2 DEF Init
  <1>4. StoredTokens = {} /\ StoredRefresh = {}
    BY DEF Init, StoredTokens, StoredRefresh
  <1>5. RefreshOwned /\ SuspendedStragglers
    BY <1>4 DEF Init, RefreshOwned, SuspendedStragglers
  <1> QED
    BY <1>1, <1>3, <1>5 DEF JInv

LEMMA NextJInv == JInv /\ [Next]_vars => JInv'
  <1> SUFFICES ASSUME JInv, [Next]_vars PROVE JInv'
    OBVIOUS
  <1>1. IInv'
    BY NextIInv DEF JInv
  <1>2. SoundRows'
    <2>1. ASSUME NEW w \in Workers, Accept(w) PROVE SoundRows'
      BY <2>1, AcceptSound
    <2>2. ASSUME NEW w \in Workers, Continue(w) PROVE SoundRows'
      <3>1. ASSUME NEW i \in Issues, NEW offline \in BOOLEAN, ExchangeCommit(w, i, offline)
            PROVE  SoundRows'
        BY <3>1, ExchangeCommitSound
      <3>2. ASSUME NEW i \in Issues, NEW offline \in BOOLEAN, RefreshCommit(w, i, offline)
            PROVE  SoundRows'
        BY <3>2, RefreshCommitSound
      <3>3. ASSUME NEW i \in Issues, ClientCredentialsInsert(w, i) PROVE SoundRows'
        BY <3>3, ClientCredentialsSound
      <3>4. CASE RevocationCommit(w)
        BY <3>4, RevocationCommitSound
      <3>5. CASE \/ \E s \in Sessions : LoginInsert(w, s)
                 \/ \E g \in Grants : CreateConsentInsert(w, g)
                 \/ \E k \in Codes : AuthorizeInsert(w, k)
        BY <3>5, InsertSound
      <3>6. CASE \/ ExchangeCheckClient(w) \/ ExchangeCheckUser(w) \/ ExchangeCheckSession(w)
                 \/ RefreshCheckUser(w) \/ RefreshCheckClient(w)
        BY <3>6, ChecksSound
      <3>7. CASE ExchangeConsume(w) \/ RefreshRotate(w)
        BY <3>7, HoldSound
      <3>8. CASE TakeSnapshot(w) \/ UpdateRows(w)
        BY <3>8, SnapshotSound, UpdateSound
      <3> QED
        BY <2>2, <3>1, <3>2, <3>3, <3>4, <3>5, <3>6, <3>7, <3>8 DEF Continue
    <2>3. ASSUME NEW w \in Workers, Crash(w) PROVE SoundRows'
      BY <2>3, FinishSound DEF Crash
    <2>4. CASE Autocommit
      BY <2>4, AutocommitSound
    <2>5. CASE UNCHANGED vars
      <3>1. UNCHANGED <<userStatus, clientStatus, sessions, revokedSessions, codes, usedCodes,
                        tokens, revokedAccess, rotated, revokedRefresh, expired, source, req>>
        BY <2>5 DEF vars
      <3>2. /\ StoredTokens' = StoredTokens /\ StoredRefresh' = StoredRefresh
            /\ StoredCodes' = StoredCodes
        BY <3>1 DEF StoredTokens, StoredRefresh, StoredCodes
      <3>3. RowsGrow /\ StatusSafe /\ \A v \in Workers : Elsewhere(v)
        BY <3>1, <3>2 DEF RowsGrow, StatusSafe, Elsewhere
      <3>4. \A v \in Workers : Sound(req[v])'
        BY <3>1, <3>3, OthersSound
      <3>5. RefreshOwned' /\ SuspendedStragglers'
        BY <3>1, <3>2 DEF JInv, RefreshOwned, SuspendedStragglers, LiveAccess, LiveRefresh
      <3> QED
        BY <3>4, <3>5 DEF SoundRows
    <2> QED
      BY <2>1, <2>2, <2>3, <2>4, <2>5 DEF Next
  <1> QED
    BY <1>1, <1>2 DEF JInv, SoundRows

LEMMA InductiveJ == Spec => []JInv
  BY InitJInv, NextJInv, PTL DEF Spec

\* Suspending a user, changing a password, disabling a client or changing its
\* scopes: the commit revokes everything of the user or of the client that is
\* stored at that moment, though the rows were collected table by table while
\* other requests were issuing tokens.
THEOREM RevocationsReachAll == Spec => RevocationsComplete
  <1>1. JInv => UserRevocationComplete
    BY CommitHoldsAll DEF UserRevocationComplete, LiveRefresh, RevocationCommit,
                          StoredRefresh, StoredTokens
  <1>2. JInv => ClientRevocationComplete
    BY CommitHoldsAll DEF ClientRevocationComplete, LiveRefresh, RevocationCommit,
                          StoredRefresh, StoredTokens
  <1>3. JInv /\ [Next]_vars => [UserRevocationComplete /\ ClientRevocationComplete]_vars
    BY <1>1, <1>2
  <1> QED
    BY <1>3, InductiveJ, PTL DEF Spec, RevocationsComplete

\* The status checks of the token endpoint are made before its transaction; when
\* a rotation commits its user and its client are still active, and so is the
\* client of a code exchange unless the code has expired since it was loaded.
THEOREM StaleChecksStayHarmless == Spec => StaleChecksHarmless
  <1>1. JInv => RotationOnlyWhileActive
    <2> SUFFICES ASSUME JInv, NEW w \in Workers, NEW i \in Issues, NEW offline \in BOOLEAN,
                        RefreshCommit(w, i, offline)
                 PROVE  /\ userStatus[tokens[req[w].arg].user] = "active"
                        /\ clientStatus[tokens[req[w].arg].client] = "active"
      BY DEF RotationOnlyWhileActive
    <2>1. req[w].op = "refresh" /\ req[w].pc = "insert"
      BY DEF RefreshCommit, At
    <2>2. LiveRefresh(req[w].arg)
      BY <2>1 DEF JInv, IInv, TypeOK, ArgOK, SpenderOwnsRow, At, LiveRefresh
    <2> QED
      BY <2>1, <2>2 DEF JInv, Sound, ChecksHold
  <1>2. JInv => ExchangeOnlyWhileClientActive
    BY DEF JInv, IInv, SpenderOwnsRow, Sound, ChecksHold, ExchangeOnlyWhileClientActive,
           ExchangeCommit, At
  <1>3. JInv /\ [Next]_vars => [RotationOnlyWhileActive /\ ExchangeOnlyWhileClientActive]_vars
    BY <1>1, <1>2
  <1> QED
    BY <1>3, InductiveJ, PTL DEF Spec, StaleChecksHarmless

\* What a suspension or a withdrawn consent can miss: only tokens of a code
\* exchange that commits late outlive a suspension, and a code that a revocation
\* invalidates has bought nothing.
THEOREM StragglersStayBounded == Spec => StragglersBounded
  <1>1. JInv => WithdrawnCodesUnspent
    <2> SUFFICES ASSUME JInv, NEW w \in Workers, NEW i \in StoredTokens
                 PROVE  source[i] \notin req[w].locked["codes"]
      BY DEF WithdrawnCodesUnspent
    <2>1. req[w].locked["codes"] \subseteq Codes
      BY DEF JInv, IInv, TypeOK, Tables, Rows
    <2>2. i \in Issues /\ (source[i] \in Codes => source[i] \in usedCodes)
      BY DEF JInv, IInv, SourceSpent, StoredTokens
    <2>3. CodesHeld(req[w])
      BY DEF JInv, Sound
    <2> QED
      BY <2>1, <2>2, <2>3 DEF CodesHeld
  <1>2. JInv' => SuspendedStragglers'
    BY DEF JInv
  <1>3. JInv /\ JInv' /\ [Next]_vars => [SuspendedStragglers' /\ WithdrawnCodesUnspent]_vars
    BY <1>1, <1>2
  <1> QED
    BY <1>3, InductiveJ, PTL DEF Spec, StragglersBounded

\* A family revocation takes with it every access token that was issued for a
\* refresh token it revokes: it revokes refresh tokens first, and nobody can
\* spend one of them while it holds them.
THEOREM CascadeReachesChildren == Spec => CascadeCoversChildren
  <1> DEFINE Covers == \A w \in Workers :
                 At(w, "family", "commit") /\ RevocationCommit(w) =>
                   \A i \in StoredTokens :
                       /\ tokens[i].family = req[w].arg
                       /\ source[i] \in req[w].locked["refresh"]
                       => i \in revokedAccess'
  <1>1. JInv => Covers
    BY CommitHoldsAll DEF At
  <1>2. JInv /\ [Next]_vars => [Covers]_vars
    BY <1>1
  <1> QED
    BY <1>2, InductiveJ, PTL DEF Spec, CascadeCoversChildren

-----------------------------------------------------------------------------
(* The families are chains.                                                *)

LEMMA HeadsOf ==
    /\ FamilyHeads \in [Issues -> SUBSET Issues]
    /\ \A f \in Issues : FamilyHeads[f] = {i \in Issues : LiveRefresh(i) /\ tokens[i].family = f}
  BY DEF FamilyHeads

LEMMA HeadsOfNext ==
    /\ FamilyHeads' \in [Issues -> SUBSET Issues]
    /\ \A f \in Issues :
           FamilyHeads'[f] = {i \in Issues : LiveRefresh(i)' /\ tokens'[i].family = f}
  BY DEF FamilyHeads

\* A step that issues no refresh token ends some chains, or none.
LEMMA ChainCut ==
    ASSUME JInv, StoredRefresh' = StoredRefresh,
           \A j \in StoredRefresh : tokens'[j] = tokens[j],
           rotated \subseteq rotated', revokedRefresh \subseteq revokedRefresh'
    PROVE  Chain!Next
  <1> DEFINE F == {f \in Issues : FamilyHeads'[f] = {}}
  <1>1. ASSUME NEW f \in Issues
        PROVE  FamilyHeads'[f] = IF f \in F THEN {} ELSE FamilyHeads[f]
    <2>1. FamilyHeads'[f] \subseteq FamilyHeads[f]
      BY HeadsOf, HeadsOfNext DEF LiveRefresh
    <2>2. \A i, j \in FamilyHeads[f] : i = j
      BY HeadsOf DEF JInv, IInv, OneLivePerFamily, LiveRefresh
    <2> QED
      BY <2>1, <2>2
  <1>2. FamilyHeads' = [f \in Issues |-> IF f \in F THEN {} ELSE FamilyHeads[f]]
    BY <1>1, HeadsOfNext
  <1>3. F \in SUBSET Issues
    OBVIOUS
  <1> HIDE DEF F
  <1>4. Chain!Cut(F)
    BY <1>2 DEF Chain!Cut
  <1> QED
    BY <1>3, <1>4 DEF Chain!Next

\* An exchange with offline access starts a chain.
LEMMA ChainStart ==
    ASSUME JInv, NEW w \in Workers, NEW i \in Issues, ExchangeCommit(w, i, TRUE)
    PROVE  Chain!Next
  <1> DEFINE k == req[w].arg
             row == [user |-> CodeUser(k), client |-> codes[k].client, family |-> i,
                     refresh |-> TRUE]
  <1>1. codes[k] \in CodeRow
    <2>1. k \in StoredCodes
      BY RequestFields DEF JInv, IInv, ExchangeCommit, At, ArgOK
    <2> QED
      BY <2>1 DEF JInv, IInv, TypeOK, StoredCodes
  <1>2. row \in TokenRow /\ row.family = i /\ row.refresh
    BY <1>1, SessionUserAssumption DEF TokenRow, CodeUser, CodeRow
  <1>3. /\ tokens[i] = None /\ tokens' = [tokens EXCEPT ![i] = row]
        /\ UNCHANGED <<rotated, revokedRefresh>>
    BY DEF ExchangeCommit
  <1> HIDE DEF row
  <1>4. /\ i \notin StoredTokens /\ tokens'[i] = row
        /\ \A j \in StoredTokens : tokens'[j] = tokens[j]
        /\ StoredRefresh' = StoredRefresh \cup {i} /\ StoredRefresh \subseteq StoredTokens
    BY <1>2, <1>3, TokenInsert DEF JInv, StoredRefresh
  <1>5. LiveRefresh(i)' /\ \A j \in Issues \ {i} : LiveRefresh(j)' <=> LiveRefresh(j)
    BY <1>3, <1>4 DEF LiveRefresh, JInv, RefreshOwned
  <1>6. \A j \in StoredRefresh : tokens[j].family # i
    BY <1>4 DEF JInv, IInv, FamilyStored
  <1>7. ASSUME NEW f \in Issues
        PROVE  FamilyHeads'[f] = IF f = i THEN {i} ELSE FamilyHeads[f]
    <2>1. ASSUME NEW j \in Issues
          PROVE  LiveRefresh(j)' /\ tokens'[j].family = f <=>
                     IF f = i THEN j = i ELSE LiveRefresh(j) /\ tokens[j].family = f
      <3>1. CASE j = i
        <4>1. ~LiveRefresh(i)
          BY <1>4 DEF LiveRefresh
        <4> QED
          BY <1>2, <1>4, <1>5, <3>1, <4>1
      <3>2. CASE j # i
        <4>1. LiveRefresh(j) => j \in StoredRefresh
          BY DEF LiveRefresh
        <4> QED
          BY <1>4, <1>5, <1>6, <3>2, <4>1
      <3> QED
        BY <3>1, <3>2
    <2>2. FamilyHeads'[f] = {j \in Issues : LiveRefresh(j)' /\ tokens'[j].family = f}
      BY HeadsOfNext
    <2>3. FamilyHeads[f] = {j \in Issues : LiveRefresh(j) /\ tokens[j].family = f}
      BY HeadsOf
    <2>4. CASE f = i
      BY <2>1, <2>2, <2>4
    <2>5. CASE f # i
      BY <2>1, <2>2, <2>3, <2>5
    <2> QED
      BY <2>4, <2>5
  <1>8. FamilyHeads' = [FamilyHeads EXCEPT ![i] = {i}]
    BY <1>7, HeadsOf, HeadsOfNext
  <1>9. Chain!Start(i)
    BY <1>4, <1>8 DEF Chain!Start
  <1> QED
    BY <1>9 DEF Chain!Next

\* A rotation with a successor advances its chain.
LEMMA ChainAdvance ==
    ASSUME JInv, NEW w \in Workers, NEW i \in Issues, RefreshCommit(w, i, TRUE)
    PROVE  Chain!Next
  <1> DEFINE old == req[w].arg
             row == [user |-> tokens[old].user, client |-> tokens[old].client,
                     family |-> tokens[old].family, refresh |-> TRUE]
  <1>1. old \in StoredRefresh /\ LiveRefresh(old)
    BY RequestFields DEF JInv, IInv, RefreshCommit, At, ArgOK, SpenderOwnsRow, LiveRefresh
  <1>2. /\ old \in Issues /\ tokens[old] \in TokenRow /\ tokens[old].family \in Issues
    BY <1>1 DEF JInv, IInv, TypeOK, FamilyStored, StoredRefresh, StoredTokens
  <1>3. row \in TokenRow /\ row.family = tokens[old].family /\ row.refresh
    BY <1>2 DEF TokenRow
  <1>4. /\ tokens[i] = None /\ tokens' = [tokens EXCEPT ![i] = row]
        /\ rotated' = rotated \cup {old} /\ UNCHANGED revokedRefresh
    BY DEF RefreshCommit
  <1> HIDE DEF row, old
  <1>5. /\ i \notin StoredTokens /\ tokens'[i] = row
        /\ \A j \in StoredTokens : tokens'[j] = tokens[j]
        /\ StoredRefresh' = StoredRefresh \cup {i} /\ StoredRefresh \subseteq StoredTokens
    BY <1>3, <1>4, TokenInsert DEF JInv, StoredRefresh
  <1>6. /\ LiveRefresh(i)'
        /\ \A j \in Issues \ {i} : LiveRefresh(j)' <=> LiveRefresh(j) /\ j # old
    BY <1>1, <1>4, <1>5 DEF LiveRefresh, JInv, RefreshOwned
  <1>7. \A j \in StoredRefresh :
            LiveRefresh(j) /\ tokens[j].family = tokens[old].family => j = old
    BY <1>1 DEF JInv, IInv, OneLivePerFamily
  <1>8. ASSUME NEW f \in Issues
        PROVE  FamilyHeads'[f] = IF f = tokens[old].family THEN {i} ELSE FamilyHeads[f]
    <2>1. ASSUME NEW j \in Issues
          PROVE  LiveRefresh(j)' /\ tokens'[j].family = f <=>
                     IF f = tokens[old].family THEN j = i
                     ELSE LiveRefresh(j) /\ tokens[j].family = f
      <3>1. CASE j = i
        <4>1. ~LiveRefresh(i)
          BY <1>5 DEF LiveRefresh
        <4> QED
          BY <1>3, <1>5, <1>6, <3>1, <4>1
      <3>2. CASE j # i
        <4>1. LiveRefresh(j) => j \in StoredRefresh
          BY DEF LiveRefresh
        <4> QED
          BY <1>5, <1>6, <1>7, <3>2, <4>1
      <3> QED
        BY <3>1, <3>2
    <2>2. FamilyHeads'[f] = {j \in Issues : LiveRefresh(j)' /\ tokens'[j].family = f}
      BY HeadsOfNext
    <2>3. FamilyHeads[f] = {j \in Issues : LiveRefresh(j) /\ tokens[j].family = f}
      BY HeadsOf
    <2>4. CASE f = tokens[old].family
      BY <2>1, <2>2, <2>4
    <2>5. CASE f # tokens[old].family
      BY <2>1, <2>2, <2>3, <2>5
    <2> QED
      BY <2>4, <2>5
  <1>9. FamilyHeads' = [FamilyHeads EXCEPT ![tokens[old].family] = {i}]
    BY <1>2, <1>8, HeadsOf, HeadsOfNext
  <1>10. FamilyHeads[tokens[old].family] # {}
    BY <1>1, <1>2, HeadsOf
  <1>11. Chain!Advance(tokens[old].family, i)
    BY <1>5, <1>9, <1>10 DEF Chain!Advance
  <1> QED
    BY <1>2, <1>11 DEF Chain!Next

\* The other steps issue no refresh token.
LEMMA ChainStep == JInv /\ [Next]_vars => Chain!Next
  <1> SUFFICES ASSUME JInv, [Next]_vars PROVE Chain!Next
    OBVIOUS
  <1>1. ASSUME UNCHANGED <<tokens, rotated, revokedRefresh>> PROVE Chain!Next
    BY <1>1, ChainCut DEF StoredRefresh, StoredTokens
  <1>2. ASSUME NEW w \in Workers, NEW i \in Issues, NEW STATE row, row \in TokenRow,
               ~row.refresh, tokens[i] = None, tokens' = [tokens EXCEPT ![i] = row],
               rotated \subseteq rotated', UNCHANGED revokedRefresh
        PROVE  Chain!Next
    <2>1. /\ StoredRefresh' = StoredRefresh /\ StoredRefresh \subseteq StoredTokens
          /\ \A j \in StoredTokens : tokens'[j] = tokens[j]
      BY <1>2, TokenInsert DEF JInv, StoredRefresh
    <2> QED
      BY <1>2, <2>1, ChainCut
  <1>3. ASSUME NEW w \in Workers, NEW i \in Issues, ExchangeCommit(w, i, FALSE)
        PROVE  Chain!Next
    <2> DEFINE k == req[w].arg
               row == [user |-> CodeUser(k), client |-> codes[k].client, family |-> None,
                       refresh |-> FALSE]
    <2>1. k \in StoredCodes
      BY <1>3, RequestFields DEF JInv, IInv, ExchangeCommit, At, ArgOK
    <2>2. codes[k] \in CodeRow
      BY <2>1 DEF JInv, IInv, TypeOK, StoredCodes
    <2>3. row \in TokenRow /\ ~row.refresh
      BY <2>2, SessionUserAssumption DEF TokenRow, CodeUser, CodeRow
    <2>4. /\ tokens[i] = None /\ tokens' = [tokens EXCEPT ![i] = row]
          /\ UNCHANGED <<rotated, revokedRefresh>>
      BY <1>3 DEF ExchangeCommit
    <2> HIDE DEF row
    <2> QED
      BY <1>2, <2>3, <2>4
  <1>4. ASSUME NEW w \in Workers, NEW i \in Issues, RefreshCommit(w, i, FALSE)
        PROVE  Chain!Next
    <2> DEFINE old == req[w].arg
               row == [user |-> tokens[old].user, client |-> tokens[old].client,
                       family |-> tokens[old].family, refresh |-> FALSE]
    <2>1. old \in StoredRefresh
      BY <1>4, RequestFields DEF JInv, IInv, RefreshCommit, At, ArgOK
    <2>2. tokens[old] \in TokenRow
      BY <2>1 DEF JInv, IInv, TypeOK, StoredRefresh, StoredTokens
    <2>3. row \in TokenRow /\ ~row.refresh
      BY <2>2 DEF TokenRow
    <2>4. /\ tokens[i] = None /\ tokens' = [tokens EXCEPT ![i] = row]
          /\ rotated \subseteq rotated' /\ UNCHANGED revokedRefresh
      BY <1>4 DEF RefreshCommit
    <2> HIDE DEF row
    <2> QED
      BY <1>2, <2>3, <2>4
  <1>5. ASSUME NEW w \in Workers, NEW i \in Issues, ClientCredentialsInsert(w, i)
        PROVE  Chain!Next
    <2> DEFINE row == [user |-> None, client |-> req[w].arg, family |-> None, refresh |-> FALSE]
    <2>1. req[w].arg \in Clients
      BY <1>5, RequestFields DEF JInv, IInv, ClientCredentialsInsert, At, ArgOK
    <2>2. row \in TokenRow /\ ~row.refresh
      BY <2>1 DEF TokenRow
    <2>3. /\ tokens[i] = None /\ tokens' = [tokens EXCEPT ![i] = row]
          /\ UNCHANGED <<rotated, revokedRefresh>>
      BY <1>5 DEF ClientCredentialsInsert
    <2> HIDE DEF row
    <2> QED
      BY <1>2, <2>2, <2>3
  <1>6. ASSUME NEW w \in Workers, RevocationCommit(w) PROVE Chain!Next
    BY <1>6, ChainCut DEF RevocationCommit, StoredRefresh, StoredTokens
  <1>7. ASSUME NEW w \in Workers, Accept(w) PROVE Chain!Next
    BY <1>1, <1>7
    DEF Accept, LoginCheck, CreateConsentCheck, AuthorizeCheck, ExchangeLoad, RefreshLoad,
        ClientCredentialsCheck, RevokeRefreshToken, LockUser, LockClient, LockConsentGrant, rowVars
  <1>8. ASSUME NEW w \in Workers, Continue(w) PROVE Chain!Next
    <2>1. CASE \/ \E s \in Sessions : LoginInsert(w, s)
               \/ \E g \in Grants : CreateConsentInsert(w, g)
               \/ \E k \in Codes : AuthorizeInsert(w, k)
      BY <1>1, <2>1 DEF LoginInsert, CreateConsentInsert, AuthorizeInsert
    <2>2. CASE \/ ExchangeCheckClient(w) \/ ExchangeCheckUser(w) \/ ExchangeCheckSession(w)
               \/ ExchangeConsume(w) \/ RefreshCheckUser(w) \/ RefreshCheckClient(w)
               \/ RefreshRotate(w) \/ TakeSnapshot(w) \/ UpdateRows(w)
      BY <1>1, <2>2
      DEF ExchangeCheckClient, ExchangeCheckUser, ExchangeCheckSession, ExchangeConsume,
          RefreshCheckUser, RefreshCheckClient, RefreshRotate, TakeSnapshot, UpdateRows, rowVars
    <2>3. ASSUME NEW i \in Issues, NEW offline \in BOOLEAN, ExchangeCommit(w, i, offline)
          PROVE  Chain!Next
      <3>1. CASE offline
        BY <2>3, <3>1, ChainStart
      <3>2. CASE ~offline
        BY <1>3, <2>3, <3>2
      <3> QED
        BY <3>1, <3>2
    <2>4. ASSUME NEW i \in Issues, NEW offline \in BOOLEAN, RefreshCommit(w, i, offline)
          PROVE  Chain!Next
      <3>1. CASE offline
        BY <2>4, <3>1, ChainAdvance
      <3>2. CASE ~offline
        BY <1>4, <2>4, <3>2
      <3> QED
        BY <3>1, <3>2
    <2> QED
      BY <1>5, <1>6, <1>8, <2>1, <2>2, <2>3, <2>4 DEF Continue
  <1>9. ASSUME NEW w \in Workers, Crash(w) PROVE Chain!Next
    BY <1>1, <1>9 DEF Crash, rowVars
  <1>10. CASE Autocommit
    BY <1>1, <1>10
    DEF Autocommit, RevokeAccessToken, RevokeSession, Reactivate, EnableClient, Expire
  <1>11. CASE UNCHANGED vars
    BY <1>1, <1>11 DEF vars
  <1> QED
    BY <1>7, <1>8, <1>9, <1>10, <1>11 DEF Next

\* The token endpoint, its rollbacks and every revocation implement the abstract
\* chain: a family starts once, is handed from token to token, and whatever ends
\* it ends it for good.
THEOREM FamiliesAreChains == Spec => ImplementsChain
  <1>1. Init => Chain!Init
    <2> SUFFICES ASSUME Init PROVE Chain!Init
      OBVIOUS
    <2>1. StoredRefresh = {}
      BY DEF Init, StoredRefresh, StoredTokens
    <2>2. \A f \in Issues : FamilyHeads[f] = {}
      BY <2>1, HeadsOf DEF LiveRefresh
    <2>3. FamilyHeads = [f \in Issues |-> {}]
      BY <2>2, HeadsOf
    <2> QED
      BY <2>1, <2>3 DEF Chain!Init
  <1>2. JInv /\ [Next]_vars => [Chain!Next]_(Chain!chainVars)
    BY ChainStep
  <1> QED
    BY <1>1, <1>2, InductiveJ, PTL DEF Spec, ImplementsChain, Chain!Spec
=============================================================================
