------------------------- MODULE AccountTokensProofs -------------------------
(***************************************************************************)
(* Proofs of the safety properties of AccountTokens, for any number of     *)
(* tokens, addresses, sessions and requests at the same time.              *)
(***************************************************************************)
EXTENDS AccountTokens, TLAPS

Changes == {"password", "email", "status"}
Late == {"select", "others", "commit"}
Req == [op : Kinds \cup Changes \cup {"none", "redeem"},
        pc : Late \cup {"idle", "insert", "consume", "user"},
        token : Tokens \cup {None}, email : Emails \cup {None},
        cut : SUBSET Tokens, ends : SUBSET Sessions, rows : SUBSET Tokens,
        lock : {"no", "update", "full"}, before : SUBSET (Sessions \cup Tokens)]

\* TypeOK with the requests whole.
Typed == TypeOK /\ req \in [Workers -> Req]

\* What a request of each kind holds at each point.  A token being issued has
\* no row and no other request; a redemption holds its token from the first
\* UPDATE on; whoever is past the user row holds it.
Shape(w) ==
    /\ req[w].op = "none" => req[w] = Idle
    /\ req[w].op \in Kinds =>
         /\ req[w].pc = "insert" /\ req[w].token \in Tokens /\ req[w].email \in Emails
         /\ req[w].rows = {} /\ req[w].cut = {} /\ req[w].lock = "no"
         /\ tokens[req[w].token].status = "none"
         /\ \A v \in Workers \ {w} : req[v].token # req[w].token
    /\ req[w].op = "redeem" =>
         /\ req[w].pc \in Late \cup {"consume", "user"}
         /\ req[w].token \in Tokens /\ tokens[req[w].token].status # "none"
         /\ IF req[w].pc = "consume" THEN req[w].rows = {} ELSE req[w].token \in req[w].rows
         /\ IF req[w].pc \in Late THEN req[w].lock = "update" ELSE req[w].lock = "no"
    /\ req[w].op \in Changes =>
         /\ req[w].pc \in Late \cup {"user"} /\ req[w].token = None
         /\ IF req[w].pc \in Late THEN req[w].lock = "full"
            ELSE req[w].lock = "no" /\ req[w].rows = {}
         /\ req[w].op = "email" => req[w].email \in Emails

\* A locked token is not used yet, and only tokens with a row are chosen.
Open(w) ==
    /\ \A t \in req[w].rows : tokens[t].status \in {"live", "expired"}
    /\ \A t \in req[w].cut : tokens[t].status # "none"

\* A redemption past the user row suits the account, which nobody else can
\* change before it commits.
Fits(w) == req[w].op = "redeem" /\ req[w].pc \in Late => Suits(req[w].token)

\* What a recovery has to end is chosen before it commits.
Chosen(w) ==
    req[w].op = "redeem" =>
        /\ tokens[req[w].token].kind # "recovery" => req[w].before = {}
        /\ \A t \in req[w].before \cap Tokens :
             /\ tokens[t].status # "none" /\ tokens[t].kind = "recovery"
             /\ req[w].pc = "others" /\ Live(t) => t \in req[w].cut \cup req[w].rows
             /\ req[w].pc = "commit" /\ Live(t) => t \in req[w].rows
        /\ req[w].pc = "commit" => req[w].before \cap sessions \subseteq req[w].ends

Sound == \A w \in Workers : Shape(w) /\ Open(w) /\ Fits(w) /\ Chosen(w)

\* The user row and every token row have one holder.
LocksAlone ==
    \A w, v \in Workers : w # v =>
        /\ req[w].lock = "no" \/ req[v].lock = "no"
        /\ req[w].rows \cap req[v].rows = {}

Spent == \A t \in Tokens : redeemed[t] > 0 => redeemed[t] = 1 /\ tokens[t].status = "used"

AccountInv == Typed /\ Sound /\ LocksAlone /\ Spent

-----------------------------------------------------------------------------
(* Steps that change the request of one worker only.                       *)

LEMMA ReqStep ==
    ASSUME AccountInv, NEW w \in Workers, NEW new \in Req, req' = [req EXCEPT ![w] = new],
           UNCHANGED <<user, tokens, sessions, redeemed>>,
           Shape(w)', Open(w)', Fits(w)', Chosen(w)',
           \A v \in Workers \ {w} :
              /\ new.lock = "no" \/ req[v].lock = "no"
              /\ new.rows \cap req[v].rows = {}
              /\ req[v].op \in Kinds => req[v].token # new.token
    PROVE  AccountInv'
<1> USE DEF AccountInv
<1>1. \A v \in Workers : req'[v] = IF v = w THEN new ELSE req[v]
  BY DEF Typed
<1>2. Typed'
  <2>1. req' \in [Workers -> Req]
    BY DEF Typed
  <2> QED BY <2>1 DEF Typed, TypeOK, Req
<1>3. ASSUME NEW v \in Workers \ {w} PROVE Shape(v)' /\ Open(v)' /\ Fits(v)' /\ Chosen(v)'
  <2>1. req'[v] = req[v] /\ Shape(v) /\ Open(v) /\ Fits(v) /\ Chosen(v)
    BY <1>1, <1>3 DEF Sound
  <2>2. Shape(v)'
    BY <1>1, <1>3, <2>1 DEF Shape
  <2>3. Open(v)'
    BY <2>1 DEF Open
  <2>4. Fits(v)'
    BY <2>1 DEF Fits, Suits
  <2>5. Chosen(v)'
    BY <2>1 DEF Chosen, Live
  <2> QED BY <2>2, <2>3, <2>4, <2>5
<1>4. Sound'
  BY <1>3 DEF Sound
<1>5. LocksAlone'
  BY <1>1 DEF LocksAlone
<1>6. Spent'
  BY DEF Spent
<1> QED BY <1>2, <1>4, <1>5, <1>6

LEMMA IdleReq ==
    /\ Idle \in Req /\ Idle.op = "none" /\ Idle.pc = "idle" /\ Idle.token = None
    /\ Idle.rows = {} /\ Idle.cut = {} /\ Idle.lock = "no"
BY DEF Idle, Req, Late, Kinds, Changes

\* A request that ends without a commit: refused, killed or crashed.
LEMMA FinishSafe ==
    ASSUME AccountInv, NEW w \in Workers, Finish(w),
           UNCHANGED <<user, tokens, sessions, redeemed>>
    PROVE  AccountInv'
<1>1. req' = [req EXCEPT ![w] = Idle] /\ req'[w] = Idle
  BY DEF Finish, AccountInv, Typed
<1>2. Shape(w)' /\ Open(w)' /\ Fits(w)' /\ Chosen(w)'
  BY <1>1, IdleReq DEF Shape, Open, Fits, Chosen, Kinds, Changes
<1>3. \A v \in Workers \ {w} : req[v].op \in Kinds => req[v].token # None
  BY AccountConstants DEF AccountInv, Sound, Shape
<1> QED BY <1>1, <1>2, <1>3, IdleReq, ReqStep

LEMMA IssueCheckSafe ==
    ASSUME AccountInv, NEW w \in Workers, NEW kind \in Kinds, IssueCheck(w, kind)
    PROVE  AccountInv'
<1> DEFINE t == CHOOSE x \in Fresh : TRUE
           new == [Idle EXCEPT !.op = kind, !.pc = "insert", !.token = t, !.email = user.email]
<1>1. t \in Fresh /\ req' = [req EXCEPT ![w] = new]
      /\ UNCHANGED <<user, tokens, sessions, redeemed>>
  BY DEF IssueCheck
<1>2. t \in Tokens /\ tokens[t].status = "none" /\ \A v \in Workers : req[v].token # t
  BY <1>1 DEF Fresh
<1> HIDE DEF t
<1>3. user.email \in Emails
  BY DEF AccountInv, Typed, TypeOK
<1>4. /\ new \in Req /\ new.op = kind /\ new.pc = "insert" /\ new.token = t
      /\ new.email = user.email /\ new.rows = {} /\ new.cut = {} /\ new.lock = "no"
  BY <1>2, <1>3 DEF Idle, Req, Late
<1> HIDE DEF new
<1>5. \A v \in Workers : req'[v] = IF v = w THEN new ELSE req[v]
  BY <1>1 DEF AccountInv, Typed
<1>6. Shape(w)'
  BY <1>1, <1>2, <1>3, <1>4, <1>5 DEF Shape, Kinds, Changes
<1>7. Open(w)' /\ Fits(w)' /\ Chosen(w)'
  BY <1>4, <1>5 DEF Open, Fits, Chosen, Kinds
<1> QED BY <1>1, <1>2, <1>4, <1>6, <1>7, ReqStep

LEMMA BeginRedeemSafe ==
    ASSUME AccountInv, NEW w \in Workers, NEW t \in Tokens, BeginRedeem(w, t)
    PROVE  AccountInv'
<1> DEFINE old == IF tokens[t].kind = "recovery" THEN Cuttable ELSE {}
           new == [Idle EXCEPT !.op = "redeem", !.pc = "consume", !.token = t, !.before = old]
<1>1. Live(t) /\ req' = [req EXCEPT ![w] = new] /\ UNCHANGED <<user, tokens, sessions, redeemed>>
  BY DEF BeginRedeem
<1>2. old \subseteq Sessions \cup Tokens
  BY DEF Cuttable, AccountInv, Typed, TypeOK
<1>3. \A x \in old \cap Tokens : tokens[x].status # "none" /\ tokens[x].kind = "recovery"
  BY AccountConstants DEF Cuttable, Live, AccountInv, Typed, TypeOK
<1>4. tokens[t].kind # "recovery" => old = {}
  OBVIOUS
<1> HIDE DEF old
<1>5. /\ new \in Req /\ new.op = "redeem" /\ new.pc = "consume" /\ new.token = t
      /\ new.before = old /\ new.rows = {} /\ new.cut = {} /\ new.lock = "no"
  BY <1>2 DEF Idle, Req, Late
<1> HIDE DEF new
<1>6. \A v \in Workers : req'[v] = IF v = w THEN new ELSE req[v]
  BY <1>1 DEF AccountInv, Typed
<1>7. Shape(w)'
  BY <1>1, <1>5, <1>6 DEF Shape, Kinds, Changes, Late, Live
<1>8. Open(w)' /\ Fits(w)'
  BY <1>5, <1>6 DEF Open, Fits, Late
<1>9. Chosen(w)'
  BY <1>1, <1>3, <1>4, <1>5, <1>6 DEF Chosen
<1>10. \A v \in Workers \ {w} : req[v].op \in Kinds => req[v].token # t
  BY <1>1 DEF AccountInv, Sound, Shape, Live
<1> QED BY <1>1, <1>5, <1>7, <1>8, <1>9, <1>10, ReqStep

LEMMA BeginChangeSafe ==
    ASSUME AccountInv, NEW w \in Workers, NEW op \in Changes, NEW e \in Emails \cup {None},
           op = "email" => e \in Emails, BeginChange(w, op, e)
    PROVE  AccountInv'
<1> DEFINE new == [Idle EXCEPT !.op = op, !.pc = "user", !.email = e]
<1>1. req' = [req EXCEPT ![w] = new] /\ UNCHANGED <<user, tokens, sessions, redeemed>>
  BY DEF BeginChange
<1>2. /\ new \in Req /\ new.op = op /\ new.pc = "user" /\ new.token = None /\ new.email = e
      /\ new.rows = {} /\ new.cut = {} /\ new.lock = "no"
  BY DEF Idle, Req, Late
<1> HIDE DEF new
<1>3. \A v \in Workers : req'[v] = IF v = w THEN new ELSE req[v]
  BY <1>1 DEF AccountInv, Typed
<1>4. Shape(w)' /\ Open(w)' /\ Fits(w)' /\ Chosen(w)'
  BY <1>2, <1>3 DEF Shape, Open, Fits, Chosen, Kinds, Changes, Late
<1>5. \A v \in Workers \ {w} : req[v].op \in Kinds => req[v].token # None
  BY AccountConstants DEF AccountInv, Sound, Shape
<1> QED BY <1>1, <1>2, <1>4, <1>5, ReqStep

\* The first UPDATE takes the token's row and finds it unused.
LEMMA ConsumeTokenSafe ==
    ASSUME AccountInv, NEW w \in Workers, ConsumeToken(w) PROVE AccountInv'
<1> DEFINE t == req[w].token
           new == [req[w] EXCEPT !.pc = "user", !.rows = {t}]
<1>1. req[w].pc = "consume" /\ RowsFree(w, {t}) /\ UNCHANGED <<user, tokens, sessions, redeemed>>
  BY DEF ConsumeToken, At
<1>2. CASE Finish(w)
  BY <1>1, <1>2, FinishSafe
<1>3. CASE tokens[t].status # "used" /\ req' = [req EXCEPT ![w].pc = "user", ![w].rows = {t}]
  <2>0. req[w] \in Req /\ Shape(w) /\ Open(w) /\ Chosen(w)
    BY DEF AccountInv, Typed, Sound
  <2>1. req[w].op = "redeem" /\ t \in Tokens /\ req[w].lock = "no"
    BY <1>1, <2>0, IdleReq DEF Shape, Req, Late
  <2>2. req' = [req EXCEPT ![w] = new]
    BY <1>3, <2>0 DEF AccountInv, Typed, Req
  <2>3. /\ new \in Req /\ new.op = "redeem" /\ new.pc = "user" /\ new.token = t
        /\ new.rows = {t} /\ new.cut = req[w].cut /\ new.lock = "no" /\ new.before = req[w].before
    BY <2>0, <2>1 DEF Req
  <2>4. \A v \in Workers : req'[v] = IF v = w THEN new ELSE req[v]
    BY <2>2 DEF AccountInv, Typed
  <2> HIDE DEF new
  <2>5. Shape(w)'
    BY <1>1, <2>0, <2>1, <2>3, <2>4 DEF Shape, Kinds, Changes, Late
  <2>6. Open(w)'
    <3>1. tokens[t].status \in {"live", "expired"}
      BY <1>3, <2>0, <2>1 DEF Shape, AccountInv, Typed, TypeOK
    <3> QED BY <1>1, <2>0, <2>3, <2>4, <3>1 DEF Open
  <2>7. Fits(w)'
    BY <2>3, <2>4 DEF Fits, Late
  <2>8. Chosen(w)'
    BY <1>1, <2>0, <2>1, <2>3, <2>4 DEF Chosen
  <2>9. \A v \in Workers \ {w} : req[v].op \in Kinds => req[v].token # t
    BY DEF AccountInv, Sound, Shape
  <2>10. \A v \in Workers \ {w} : {t} \cap req[v].rows = {}
    BY <1>1 DEF RowsFree
  <2> QED BY <1>1, <2>2, <2>3, <2>5, <2>6, <2>7, <2>8, <2>9, <2>10, ReqStep
<1> QED BY <1>1, <1>2, <1>3 DEF ConsumeToken

\* A request that takes the user row is alone with it: the redeeming UPDATE and
\* SELECT ... FOR UPDATE exclude each other, and "share" is never held over a step.
LEMMA UserFreeAlone ==
    ASSUME AccountInv, NEW w \in Workers, NEW mode \in {"update", "full"}, UserFree(w, mode)
    PROVE  \A v \in Workers \ {w} : req[v].lock = "no"
BY DEF UserFree, Compatible, AccountInv, Typed, Req

LEMMA UpdateUserSafe ==
    ASSUME AccountInv, NEW w \in Workers, UpdateUser(w) PROVE AccountInv'
<1> DEFINE t == req[w].token
           pc == IF tokens[t].kind = "recovery" THEN "select" ELSE "commit"
           new == [req[w] EXCEPT !.pc = pc, !.lock = "update"]
<1>1. /\ req[w].pc = "user" /\ req[w].op = "redeem" /\ UserFree(w, "update")
      /\ UNCHANGED <<user, tokens, sessions, redeemed>>
  BY DEF UpdateUser, At
<1>2. CASE Finish(w)
  BY <1>1, <1>2, FinishSafe
<1>3. CASE Suits(t) /\ req' = [req EXCEPT ![w].pc = pc, ![w].lock = "update"]
  <2>0. req[w] \in Req /\ Shape(w) /\ Open(w) /\ Chosen(w)
    BY DEF AccountInv, Typed, Sound
  <2>1. t \in Tokens /\ t \in req[w].rows
    BY <1>1, <2>0 DEF Shape
  <2>2. req' = [req EXCEPT ![w] = new]
    BY <1>3, <2>0 DEF AccountInv, Typed, Req
  <2>3. /\ new \in Req /\ new.op = "redeem" /\ new.pc = pc /\ new.token = t
        /\ new.rows = req[w].rows /\ new.cut = req[w].cut /\ new.lock = "update"
        /\ new.before = req[w].before
    BY <1>1, <2>0 DEF Req, Late
  <2>4. \A v \in Workers : req'[v] = IF v = w THEN new ELSE req[v]
    BY <2>2 DEF AccountInv, Typed
  <2>5. pc \in {"select", "commit"} /\ (pc = "commit" => tokens[t].kind # "recovery")
    OBVIOUS
  <2> HIDE DEF new, pc
  <2>6. Shape(w)'
    BY <1>1, <2>0, <2>1, <2>3, <2>4, <2>5 DEF Shape, Kinds, Changes, Late
  <2>7. Open(w)'
    BY <1>1, <2>0, <2>3, <2>4 DEF Open
  <2>8. Fits(w)'
    BY <1>1, <1>3, <2>3, <2>4 DEF Fits, Suits
  <2>9. Chosen(w)'
    BY <1>1, <2>0, <2>3, <2>4, <2>5 DEF Chosen, Live
  <2>10. \A v \in Workers \ {w} : /\ req[v].op \in Kinds => req[v].token # t
                                  /\ req[w].rows \cap req[v].rows = {}
    BY DEF AccountInv, Sound, Shape, LocksAlone
  <2>11. \A v \in Workers \ {w} : req[v].lock = "no"
    BY <1>1, UserFreeAlone
  <2> QED BY <1>1, <2>2, <2>3, <2>6, <2>7, <2>8, <2>9, <2>10, <2>11, ReqStep
<1> QED BY <1>1, <1>2, <1>3 DEF UpdateUser

LEMMA LockUserSafe ==
    ASSUME AccountInv, NEW w \in Workers, LockUser(w) PROVE AccountInv'
<1> DEFINE pc == IF req[w].op = "status" \/ req[w].email = user.email THEN "commit" ELSE "select"
           new == [req[w] EXCEPT !.lock = "full", !.pc = pc]
<1>1. /\ req[w].pc = "user" /\ req[w].op \in Changes /\ UserFree(w, "full")
      /\ req' = [req EXCEPT ![w].lock = "full", ![w].pc = pc]
      /\ UNCHANGED <<user, tokens, sessions, redeemed>>
  BY DEF LockUser, At, Changes
<1>2. req[w] \in Req /\ Shape(w) /\ Open(w)
  BY DEF AccountInv, Typed, Sound
<1>3. req' = [req EXCEPT ![w] = new]
  BY <1>1, <1>2 DEF AccountInv, Typed, Req
<1>4. /\ new \in Req /\ new.op = req[w].op /\ new.pc = pc /\ new.token = req[w].token
      /\ new.email = req[w].email /\ new.rows = req[w].rows /\ new.cut = req[w].cut
      /\ new.lock = "full"
  BY ZenonT(60), <1>2 DEF Req, Late
<1>5. \A v \in Workers : req'[v] = IF v = w THEN new ELSE req[v]
  BY <1>3 DEF AccountInv, Typed
<1>6. pc \in {"select", "commit"}
  OBVIOUS
<1> HIDE DEF new, pc
<1>7. Shape(w)'
  BY ZenonT(60), <1>1, <1>2, <1>4, <1>5, <1>6 DEF Shape, Kinds, Changes, Late
<1>8. Open(w)' /\ Fits(w)' /\ Chosen(w)'
  BY ZenonT(60), <1>1, <1>2, <1>4, <1>5 DEF Open, Fits, Chosen, Changes
<1>9. \A v \in Workers \ {w} : /\ req[v].op \in Kinds => req[v].token # req[w].token
                               /\ req[w].rows \cap req[v].rows = {}
  BY DEF AccountInv, Sound, Shape, LocksAlone
<1>10. \A v \in Workers \ {w} : req[v].lock = "no"
  BY <1>1, UserFreeAlone
<1>11. UNCHANGED <<user, tokens, sessions, redeemed>>
  BY <1>1
<1> QED BY <1>3, <1>4, <1>7, <1>8, <1>9, <1>10, <1>11, ReqStep

\* The tokens to withdraw are chosen: for a recovery, the other open recovery
\* tokens, among them those of before that are still open.
LEMMA SelectTokensSafe ==
    ASSUME AccountInv, NEW w \in Workers, SelectTokens(w) PROVE AccountInv'
<1> DEFINE cut == Withdrawn(req[w].op) \ {req[w].token}
           new == [req[w] EXCEPT !.cut = cut, !.pc = "others"]
<1>1. /\ req[w].pc = "select" /\ req' = [req EXCEPT ![w].cut = cut, ![w].pc = "others"]
      /\ UNCHANGED <<user, tokens, sessions, redeemed>>
  BY DEF SelectTokens, At
<1>2. req[w] \in Req /\ Shape(w) /\ Open(w) /\ Fits(w) /\ Chosen(w)
  BY DEF AccountInv, Typed, Sound
<1>3. /\ cut \subseteq Tokens /\ \A t \in cut : tokens[t].status = "live"
      /\ \A t \in Tokens : Live(t) /\ tokens[t].kind = "recovery" => t \in cut \cup {req[w].token}
  BY DEF Withdrawn, Live
<1> HIDE DEF cut
<1>4. req' = [req EXCEPT ![w] = new]
  BY <1>1, <1>2 DEF AccountInv, Typed, Req
<1>5. /\ new \in Req /\ new.op = req[w].op /\ new.pc = "others" /\ new.token = req[w].token
      /\ new.email = req[w].email /\ new.rows = req[w].rows /\ new.cut = cut
      /\ new.lock = req[w].lock /\ new.before = req[w].before
  BY <1>2, <1>3 DEF Req, Late
<1>6. \A v \in Workers : req'[v] = IF v = w THEN new ELSE req[v]
  BY <1>4 DEF AccountInv, Typed
<1> HIDE DEF new
<1>7. Shape(w)'
  <2>1. req[w].op \in Changes \cup {"redeem"}
    BY <1>1, <1>2, IdleReq DEF Shape, Req
  <2> QED BY <1>1, <1>2, <1>5, <1>6, <2>1 DEF Shape, Kinds, Changes, Late
<1>8. Open(w)'
  BY <1>1, <1>2, <1>3, <1>5, <1>6 DEF Open
<1>9. Fits(w)'
  BY <1>1, <1>2, <1>5, <1>6 DEF Fits, Suits, Late
<1>10. Chosen(w)'
  <2> SUFFICES ASSUME req'[w].op = "redeem" PROVE Chosen(w)'
    BY DEF Chosen
  <2>1. req[w].op = "redeem" /\ req'[w] = new /\ req[w].token \in req[w].rows
    BY <1>1, <1>2, <1>5, <1>6 DEF Shape
  <2>2. \A t \in req[w].before \cap Tokens :
           /\ tokens[t].status # "none" /\ tokens[t].kind = "recovery"
           /\ Live(t) => t \in cut \cup req[w].rows
    BY <1>2, <1>3, <2>1 DEF Chosen
  <2> QED BY <1>1, <1>2, <1>5, <2>1, <2>2 DEF Chosen, Live
<1>11. \A v \in Workers \ {w} : /\ req[v].op \in Kinds => req[v].token # req[w].token
                                /\ req[w].rows \cap req[v].rows = {}
                                /\ req[w].lock = "no" \/ req[v].lock = "no"
  BY DEF AccountInv, Sound, Shape, LocksAlone
<1>12. UNCHANGED <<user, tokens, sessions, redeemed>>
  BY <1>1
<1> QED BY <1>4, <1>5, <1>7, <1>8, <1>9, <1>10, <1>11, <1>12, ReqStep

LEMMA WithdrawTokensSafe ==
    ASSUME AccountInv, NEW w \in Workers, WithdrawTokens(w) PROVE AccountInv'
<1> DEFINE rows == req[w].rows \cup {t \in req[w].cut : tokens[t].status # "used"}
           ends == IF req[w].op = "email" THEN {} ELSE sessions
           new == [req[w] EXCEPT !.pc = "commit", !.rows = rows, !.ends = ends]
<1>1. /\ req[w].pc = "others" /\ RowsFree(w, req[w].cut)
      /\ UNCHANGED <<user, tokens, sessions, redeemed>>
  BY DEF WithdrawTokens, At
<1>2. req[w] \in Req /\ Shape(w) /\ Open(w) /\ Fits(w) /\ Chosen(w)
  BY DEF AccountInv, Typed, Sound
<1>3. req' = [req EXCEPT ![w] = new]
  BY <1>2 DEF WithdrawTokens, AccountInv, Typed, Req
<1>4. /\ rows \subseteq Tokens /\ ends \subseteq Sessions /\ req[w].rows \subseteq rows
      /\ rows \subseteq req[w].rows \cup req[w].cut
  BY <1>2 DEF Req, AccountInv, Typed, TypeOK
<1>5. \A t \in rows : tokens[t].status \in {"live", "expired"}
  BY <1>2, <1>4 DEF Open, AccountInv, Typed, TypeOK
<1>6. \A t \in Tokens : Live(t) /\ t \in req[w].cut \cup req[w].rows => t \in rows
  BY DEF Live
<1>7. req[w].op = "redeem" => ends = sessions
  OBVIOUS
<1>8. \A v \in Workers \ {w} : rows \cap req[v].rows = {}
  BY <1>1, <1>4 DEF RowsFree, AccountInv, LocksAlone
<1> HIDE DEF rows, ends
<1>9. /\ new \in Req /\ new.op = req[w].op /\ new.pc = "commit" /\ new.token = req[w].token
      /\ new.email = req[w].email /\ new.rows = rows /\ new.cut = req[w].cut
      /\ new.lock = req[w].lock /\ new.before = req[w].before /\ new.ends = ends
  BY <1>2, <1>4 DEF Req, Late
<1>10. \A v \in Workers : req'[v] = IF v = w THEN new ELSE req[v]
  BY <1>3 DEF AccountInv, Typed
<1> HIDE DEF new
<1>11. Shape(w)'
  BY <1>1, <1>2, <1>4, <1>9, <1>10 DEF Shape, Kinds, Changes, Late, Idle
<1>12. Open(w)'
  BY <1>1, <1>2, <1>5, <1>9, <1>10 DEF Open
<1>13. Fits(w)'
  BY <1>1, <1>2, <1>9, <1>10 DEF Fits, Suits, Late
<1>14. Chosen(w)'
  <2> SUFFICES ASSUME req'[w].op = "redeem" PROVE Chosen(w)'
    BY DEF Chosen
  <2>1. req[w].op = "redeem" /\ req'[w] = new /\ ends = sessions
    BY <1>7, <1>9, <1>10
  <2>2. \A t \in req[w].before \cap Tokens :
           tokens[t].status # "none" /\ tokens[t].kind = "recovery" /\ (Live(t) => t \in rows)
    BY <1>1, <1>2, <1>6, <2>1 DEF Chosen
  <2> QED BY <1>1, <1>2, <1>9, <2>1, <2>2 DEF Chosen, Live
<1>15. \A v \in Workers \ {w} : /\ req[v].op \in Kinds => req[v].token # req[w].token
                                /\ req[w].lock = "no" \/ req[v].lock = "no"
  BY DEF AccountInv, Sound, Shape, LocksAlone
<1> QED BY <1>1, <1>3, <1>8, <1>9, <1>11, <1>12, <1>13, <1>14, <1>15, ReqStep

-----------------------------------------------------------------------------
(* Steps that change rows.                                                 *)

LEMMA ExpireSafe ==
    ASSUME AccountInv, NEW t \in Tokens, Expire(t) PROVE AccountInv'
<1> USE DEF AccountInv
<1>1. /\ tokens[t].status = "live" /\ tokens' = [tokens EXCEPT ![t].status = "expired"]
      /\ UNCHANGED <<user, sessions, req, redeemed>>
  BY DEF Expire, Live
<1>2. \A x \in Tokens : /\ tokens'[x].kind = tokens[x].kind /\ tokens'[x].email = tokens[x].email
                        /\ tokens'[x].status = IF x = t THEN "expired" ELSE tokens[x].status
  BY <1>1 DEF Typed, TypeOK
<1>3. Typed'
  <2>1. tokens' \in [Tokens -> [kind : Kinds \cup {"none"}, email : Emails \cup {None},
                                status : {"none", "live", "used", "expired"}]]
    BY <1>1 DEF Typed, TypeOK
  <2> QED BY <1>1, <2>1 DEF Typed, TypeOK
<1>4. ASSUME NEW w \in Workers PROVE Shape(w)' /\ Open(w)' /\ Fits(w)' /\ Chosen(w)'
  <2>1. req[w] \in Req /\ req'[w] = req[w] /\ Shape(w) /\ Open(w) /\ Fits(w) /\ Chosen(w)
    BY <1>1 DEF Typed, Sound
  <2>2. Shape(w)'
    BY <1>1, <1>2, <2>1 DEF Shape
  <2>3. Open(w)'
    BY <1>1, <1>2, <2>1 DEF Open, Req
  <2>4. Fits(w)'
    BY <1>1, <1>2, <2>1 DEF Fits, Suits, Shape
  <2>5. Chosen(w)'
    BY <1>1, <1>2, <2>1 DEF Chosen, Live, Shape
  <2> QED BY <2>2, <2>3, <2>4, <2>5
<1>5. LocksAlone'
  BY <1>1 DEF LocksAlone
<1>6. Spent'
  BY <1>1, <1>2 DEF Spent
<1> QED BY <1>3, <1>4, <1>5, <1>6 DEF Sound

LEMMA LoginSafe ==
    ASSUME AccountInv, NEW s \in Sessions, Login(s) PROVE AccountInv'
<1> USE DEF AccountInv
<1>1. sessions' = sessions \cup {s} /\ UNCHANGED <<user, tokens, req, redeemed>>
  BY DEF Login
<1>2. \A w \in Workers : s \notin req[w].before
  BY DEF Login
<1>3. Typed'
  BY <1>1 DEF Typed, TypeOK
<1>4. ASSUME NEW w \in Workers PROVE Shape(w)' /\ Open(w)' /\ Fits(w)' /\ Chosen(w)'
  <2>1. req'[w] = req[w] /\ Shape(w) /\ Open(w) /\ Fits(w) /\ Chosen(w)
    BY <1>1 DEF Sound
  <2>2. Shape(w)' /\ Open(w)' /\ Fits(w)'
    BY <1>1, <2>1 DEF Shape, Open, Fits, Suits
  <2>3. Chosen(w)'
    BY <1>1, <1>2, <2>1 DEF Chosen, Live
  <2> QED BY <2>2, <2>3
<1>5. LocksAlone' /\ Spent'
  BY <1>1 DEF LocksAlone, Spent
<1> QED BY <1>3, <1>4, <1>5 DEF Sound

\* Nobody else refers to the token that is inserted.
LEMMA InsertTokenSafe ==
    ASSUME AccountInv, NEW w \in Workers, InsertToken(w) PROVE AccountInv'
<1> USE DEF AccountInv
<1> DEFINE t == req[w].token
<1>1. /\ req[w].pc = "insert" /\ req' = [req EXCEPT ![w] = Idle]
      /\ tokens' = [tokens EXCEPT ![t] = [kind |-> req[w].op, email |-> req[w].email,
                                          status |-> "live"]]
      /\ UNCHANGED <<user, sessions, redeemed>>
  BY DEF InsertToken, At, Finish
<1>2. req[w] \in Req /\ Shape(w)
  BY DEF Typed, Sound
<1>3. req[w].op \in Kinds
  BY <1>1, <1>2, IdleReq DEF Shape, Late, Req
<1>4. t \in Tokens /\ req[w].email \in Emails /\ tokens[t].status = "none"
  BY <1>2, <1>3 DEF Shape
<1>5. \A x \in Tokens \ {t} : tokens'[x] = tokens[x]
  BY <1>1 DEF Typed, TypeOK
<1>6. \A v \in Workers : req'[v] = IF v = w THEN Idle ELSE req[v]
  BY <1>1 DEF Typed
<1>7. Typed'
  <2>1. tokens' \in [Tokens -> [kind : Kinds \cup {"none"}, email : Emails \cup {None},
                                status : {"none", "live", "used", "expired"}]]
    BY <1>1, <1>3, <1>4 DEF Typed, TypeOK
  <2>2. req' \in [Workers -> Req]
    BY <1>1, IdleReq DEF Typed
  <2> QED BY <1>1, <2>1, <2>2 DEF Typed, TypeOK, Req
<1>8. Shape(w)' /\ Open(w)' /\ Fits(w)' /\ Chosen(w)'
  BY <1>6, IdleReq DEF Shape, Open, Fits, Chosen, Kinds, Changes
<1>9. ASSUME NEW v \in Workers \ {w} PROVE Shape(v)' /\ Open(v)' /\ Fits(v)' /\ Chosen(v)'
  <2>1. /\ req[v] \in Req /\ req'[v] = req[v] /\ req[v].token # t
        /\ Shape(v) /\ Open(v) /\ Fits(v) /\ Chosen(v)
    BY <1>2, <1>3, <1>6 DEF Typed, Sound, Shape
  <2>2. Shape(v)'
    <3>1. req[v].op \in Kinds => req[v].token # None
      BY <2>1, AccountConstants DEF Shape
    <3> QED BY <1>5, <1>6, <2>1, <3>1, IdleReq DEF Shape
  <2>3. Open(v)'
    BY <1>4, <1>5, <2>1 DEF Open, Req
  <2>4. Fits(v)'
    BY <1>1, <1>5, <2>1 DEF Fits, Suits, Shape
  <2>5. Chosen(v)'
    BY <1>1, <1>4, <1>5, <2>1 DEF Chosen, Live, Shape
  <2> QED BY <2>2, <2>3, <2>4, <2>5
<1>10. LocksAlone'
  BY <1>6, IdleReq DEF LocksAlone
<1>11. Spent'
  BY <1>1, <1>4, <1>5 DEF Spent, Typed, TypeOK
<1> QED BY <1>7, <1>8, <1>9, <1>10, <1>11 DEF Sound

\* A request at its commit holds the user row, so no other is past it.
LEMMA CommitAlone ==
    ASSUME AccountInv, NEW w \in Workers, At(w, "commit")
    PROVE  /\ req[w].op \in Changes \cup {"redeem"}
           /\ \A v \in Workers \ {w} : req[v].pc \notin Late
<1> USE DEF AccountInv
<1>1. req[w] \in Req /\ Shape(w) /\ req[w].pc = "commit"
  BY DEF Typed, Sound, At
<1>2. req[w].op \in Changes \cup {"redeem"}
  BY <1>1, IdleReq DEF Shape, Req
<1>3. req[w].lock # "no"
  BY <1>1, <1>2 DEF Shape, Late
<1>4. ASSUME NEW v \in Workers \ {w} PROVE req[v].pc \notin Late
  <2>1. req[v].lock = "no" /\ req[v] \in Req /\ Shape(v)
    BY <1>3 DEF LocksAlone, Typed, Sound
  <2> QED BY <2>1, IdleReq DEF Shape, Req, Late
<1> QED BY <1>2, <1>4

\* What a commit makes of the account: a redemption keeps address and status and
\* verifies the address; a change of the address verifies nothing new.
LEMMA ChangedAccount ==
    ASSUME AccountInv, NEW w \in Workers, At(w, "commit")
    PROVE  /\ Changed(w, user) \in [status : {"active", "suspended"}, email : Emails,
                                    verified : BOOLEAN, password : BOOLEAN]
           /\ req[w].op = "redeem" => Changed(w, user).email = user.email
           /\ req[w].op # "redeem" /\ Changed(w, user).verified =>
                 user.verified /\ Changed(w, user).email = user.email
<1> USE DEF AccountInv
<1>1. user \in [status : {"active", "suspended"}, email : Emails,
                verified : BOOLEAN, password : BOOLEAN]
  BY DEF Typed, TypeOK
<1>2. req[w].op \in Changes \cup {"redeem"} /\ Shape(w)
  BY CommitAlone DEF Sound
<1>3. CASE req[w].op = "email"
  <2>1. Changed(w, user) = [user EXCEPT !.email = req[w].email,
                                        !.verified = user.verified /\ user.email = req[w].email]
    BY <1>3 DEF Changed
  <2>2. req[w].email \in Emails
    BY <1>2, <1>3 DEF Shape, Changes
  <2> QED BY <1>1, <1>3, <2>1, <2>2
<1>4. CASE req[w].op = "status"
  <2>1. Changed(w, user) = [user EXCEPT !.status = IF user.status = "active"
                                                   THEN "suspended" ELSE "active"]
    BY <1>4 DEF Changed
  <2> QED BY <1>1, <1>4, <2>1
<1>5. CASE req[w].op = "password"
  <2>1. Changed(w, user) = [user EXCEPT !.password = TRUE]
    BY <1>5 DEF Changed
  <2> QED BY <1>1, <1>5, <2>1
<1>6. CASE req[w].op = "redeem"
  <2>1. \/ Changed(w, user) = [user EXCEPT !.verified = TRUE]
        \/ Changed(w, user) = [user EXCEPT !.password = TRUE, !.verified = TRUE]
    BY <1>6 DEF Changed
  <2> QED BY <1>1, <1>6, <2>1
<1> QED BY <1>2, <1>3, <1>4, <1>5, <1>6 DEF Changes

\* A commit uses the rows it has locked, and a redemption counts once because
\* the row was not used before.
LEMMA CommitSafe ==
    ASSUME AccountInv, NEW w \in Workers, Commit(w) PROVE AccountInv'
<1> USE DEF AccountInv
<1> DEFINE t == req[w].token
<1>1. /\ At(w, "commit") /\ user' = Changed(w, user) /\ req' = [req EXCEPT ![w] = Idle]
      /\ tokens' = [x \in Tokens |->
                      IF x \in req[w].rows THEN [tokens[x] EXCEPT !.status = "used"]
                      ELSE tokens[x]]
      /\ sessions' = IF user'.status # "active" THEN {} ELSE sessions \ req[w].ends
      /\ redeemed' = IF req[w].op = "redeem" THEN [redeemed EXCEPT ![t] = Bump(@)]
                     ELSE redeemed
  BY DEF Commit, Finish
<1>2. /\ req[w] \in Req /\ Shape(w) /\ Open(w) /\ Fits(w) /\ req[w].pc = "commit"
      /\ req[w].op \in Changes \cup {"redeem"}
  BY <1>1, CommitAlone DEF Typed, Sound, At
<1>3. \A x \in Tokens :
         /\ tokens'[x].kind = tokens[x].kind /\ tokens'[x].email = tokens[x].email
         /\ tokens'[x].status = IF x \in req[w].rows THEN "used" ELSE tokens[x].status
         /\ x \in req[w].rows => tokens[x].status \in {"live", "expired"}
  BY <1>1, <1>2 DEF Typed, TypeOK, Open
<1>4. \A v \in Workers : req'[v] = IF v = w THEN Idle ELSE req[v]
  BY <1>1 DEF Typed
<1>5. req[w].op = "redeem" => t \in Tokens /\ t \in req[w].rows /\ Suits(t) /\ redeemed[t] = 0
  <2> SUFFICES ASSUME req[w].op = "redeem"
               PROVE  t \in Tokens /\ t \in req[w].rows /\ Suits(t) /\ redeemed[t] = 0
    OBVIOUS
  <2>1. t \in Tokens /\ t \in req[w].rows /\ Suits(t)
    BY <1>2 DEF Shape, Fits, Late
  <2>2. tokens[t].status # "used" /\ redeemed[t] \in 0..2
    BY <1>3, <2>1 DEF Typed, TypeOK
  <2> QED BY <2>1, <2>2 DEF Spent
<1>6. \A x \in Tokens : redeemed'[x] = IF req[w].op = "redeem" /\ x = t THEN 1 ELSE redeemed[x]
  BY <1>1, <1>5 DEF Typed, TypeOK, Bump
<1>7. Typed'
  <2>1. tokens' \in [Tokens -> [kind : Kinds \cup {"none"}, email : Emails \cup {None},
                                status : {"none", "live", "used", "expired"}]]
    BY SMTT(30), <1>1 DEF Typed, TypeOK
  <2>2. req' \in [Workers -> Req]
    BY <1>1, IdleReq DEF Typed
  <2>3. redeemed' \in [Tokens -> 0..2]
    BY <1>1, <1>5 DEF Typed, TypeOK, Bump
  <2>4. user' \in [status : {"active", "suspended"}, email : Emails,
                   verified : BOOLEAN, password : BOOLEAN]
    BY <1>1, ChangedAccount
  <2>5. sessions' \subseteq Sessions
    BY <1>1 DEF Typed, TypeOK
  <2> QED BY <2>1, <2>2, <2>3, <2>4, <2>5 DEF Typed, TypeOK, Req
<1>8. Shape(w)' /\ Open(w)' /\ Fits(w)' /\ Chosen(w)'
  BY <1>4, IdleReq DEF Shape, Open, Fits, Chosen, Kinds, Changes
<1>9. ASSUME NEW v \in Workers \ {w} PROVE Shape(v)' /\ Open(v)' /\ Fits(v)' /\ Chosen(v)'
  <2>1. /\ req[v] \in Req /\ req'[v] = req[v] /\ req[v].pc \notin Late
        /\ req[v].rows \cap req[w].rows = {}
        /\ Shape(v) /\ Open(v) /\ Chosen(v)
    BY <1>1, <1>4, CommitAlone DEF Typed, Sound, LocksAlone
  <2>2. Shape(v)'
    <3>1. req[v].op \in Kinds => req[v].token # None /\ req[v].token \notin req[w].rows
      BY <1>3, <2>1, AccountConstants DEF Shape
    <3> QED BY <1>3, <1>4, <2>1, <3>1, IdleReq DEF Shape
  <2>3. Open(v)'
    BY <1>3, <2>1 DEF Open, Req
  <2>4. Fits(v)'
    BY <2>1 DEF Fits
  <2>5. Chosen(v)'
    BY <1>3, <2>1 DEF Chosen, Live, Shape, Late
  <2> QED BY <2>2, <2>3, <2>4, <2>5
<1>10. LocksAlone'
  BY <1>4, IdleReq DEF LocksAlone
<1>11. Spent'
  BY <1>3, <1>5, <1>6 DEF Spent
<1> QED BY <1>7, <1>8, <1>9, <1>10, <1>11 DEF Sound

-----------------------------------------------------------------------------
(* The invariant, and what it is for.                                      *)

LEMMA AccountInitially == Init => AccountInv
<1> SUFFICES ASSUME Init PROVE AccountInv
  OBVIOUS
<1> USE DEF Init
<1>1. Typed
  <2>1. (CHOOSE e \in Emails : TRUE) \in Emails
    BY AccountConstants
  <2>2. req \in [Workers -> Req]
    BY IdleReq
  <2> QED BY <2>1, <2>2 DEF Typed, TypeOK, NoToken, Req
<1>2. ASSUME NEW w \in Workers PROVE Shape(w) /\ Open(w) /\ Fits(w) /\ Chosen(w)
  BY IdleReq DEF Shape, Open, Fits, Chosen, Kinds, Changes
<1>3. LocksAlone
  BY IdleReq DEF LocksAlone
<1>4. Spent
  BY DEF Spent
<1> QED BY <1>1, <1>2, <1>3, <1>4 DEF AccountInv, Sound

LEMMA AccountStep == AccountInv /\ [Next]_vars => AccountInv'
<1> SUFFICES ASSUME AccountInv, [Next]_vars PROVE AccountInv'
  OBVIOUS
<1>1. CASE UNCHANGED vars
  BY <1>1 DEF vars, AccountInv, Typed, TypeOK, Sound, Shape, Open, Fits, Suits, Chosen, Live,
     LocksAlone, Spent
<1>2. ASSUME NEW w \in Workers, Issue(w) PROVE AccountInv'
  <2>1. InsertToken(w) \/ \E kind \in Kinds : IssueCheck(w, kind)
    BY <1>2 DEF Issue, CreateInvitation, RequestVerification, RequestRecovery,
       AdminRequestVerification, AdminRequestRecovery, Kinds
  <2> QED BY <2>1, InsertTokenSafe, IssueCheckSafe
<1>3. ASSUME NEW w \in Workers, Redeem(w) PROVE AccountInv'
  <2>1. ConsumeToken(w) \/ UpdateUser(w) \/ \E t \in Tokens : BeginRedeem(w, t)
    BY <1>3 DEF Redeem, AcceptInvitation, ConfirmVerification, CompleteRecovery
  <2> QED BY <2>1, ConsumeTokenSafe, UpdateUserSafe, BeginRedeemSafe
<1>4. ASSUME NEW w \in Workers, Change(w) PROVE AccountInv'
  <2>1. CASE ChangePassword(w) \/ UpdateStatus(w)
    BY <2>1, BeginChangeSafe DEF ChangePassword, UpdateStatus, Changes
  <2>2. CASE ScimChangeEmail(w)
    BY <2>2, BeginChangeSafe DEF ScimChangeEmail, Changes
  <2> QED BY <1>4, <2>1, <2>2, LockUserSafe, SelectTokensSafe, WithdrawTokensSafe, CommitSafe
          DEF Change
<1>5. ASSUME NEW w \in Workers, Victim(w) \/ Crash(w) PROVE AccountInv'
  BY <1>5, FinishSafe DEF Victim, Crash
<1> QED BY <1>1, <1>2, <1>3, <1>4, <1>5, ExpireSafe, LoginSafe DEF Next

LEMMA AccountInvariant == Spec => []AccountInv
BY AccountInitially, AccountStep, PTL DEF Spec

\* The rows of users, tokens and sessions and the requests of the account routes
\* are well formed.
THEOREM AccountTypeCorrect == Spec => []TypeOK
<1>1. AccountInv => TypeOK
  BY DEF AccountInv, Typed
<1> QED BY <1>1, AccountInvariant, PTL

\* consume_account_token's row lock and its test of consumed_at: a mailed token
\* changes the account at most once, whatever waits for what.
THEOREM TokensSpentOnce == Spec => []TokenOnce
<1>1. AccountInv => TokenOnce
  BY DEF AccountInv, Spent, TokenOnce, Typed, TypeOK
<1> QED BY <1>1, AccountInvariant, PTL

-----------------------------------------------------------------------------
(* The action properties.                                                  *)

\* Only a commit changes the account or spends a token.
LEMMA OnlyCommits ==
    ASSUME Next
    PROVE  (redeemed' = redeemed /\ user' = user) \/ \E w \in Workers : Commit(w)
BY DEF Next, Issue, CreateInvitation, RequestVerification, RequestRecovery,
   AdminRequestVerification, AdminRequestRecovery, IssueCheck, InsertToken, Redeem,
   AcceptInvitation, ConfirmVerification, CompleteRecovery, BeginRedeem, ConsumeToken,
   UpdateUser, Change, ChangePassword, ScimChangeEmail, UpdateStatus, BeginChange, LockUser,
   SelectTokens, WithdrawTokens, Victim, Crash, Expire, Login

\* BecomesVerified is what VerifiedMeansOwned speaks of.
BecomesVerified == user'.verified /\ ~(user.verified /\ user'.email = user.email)
MailedToIt(t) == redeemed'[t] > redeemed[t] /\ tokens[t].email = user'.email

LEMMA VerifiedStep ==
    AccountInv /\ [Next]_vars => [BecomesVerified => \E t \in Tokens : MailedToIt(t)]_vars
<1> SUFFICES ASSUME AccountInv, Next, BecomesVerified PROVE \E t \in Tokens : MailedToIt(t)
  OBVIOUS
<1>1. PICK w \in Workers : Commit(w)
  BY OnlyCommits DEF BecomesVerified
<1> DEFINE t == req[w].token
<1>2. /\ user' = Changed(w, user) /\ At(w, "commit") /\ req[w].pc = "commit"
      /\ redeemed' = IF req[w].op = "redeem" THEN [redeemed EXCEPT ![t] = Bump(@)] ELSE redeemed
  BY <1>1 DEF Commit, At
<1>3. req[w].op = "redeem"
  BY <1>2, ChangedAccount DEF BecomesVerified
<1>4. t \in Tokens /\ Suits(t) /\ redeemed[t] = 0
  <2>1. t \in Tokens /\ t \in req[w].rows /\ Suits(t) /\ tokens[t].status # "used"
    BY <1>2, <1>3 DEF AccountInv, Sound, Shape, Fits, Late, Open
  <2>2. redeemed[t] \in 0..2
    BY <2>1 DEF AccountInv, Typed, TypeOK
  <2> QED BY <2>1, <2>2 DEF AccountInv, Spent
<1>5. redeemed'[t] = 1 /\ tokens[t].email = user.email /\ user'.email = user.email
  BY <1>2, <1>3, <1>4, ChangedAccount DEF AccountInv, Typed, TypeOK, Suits, Bump
<1> QED BY <1>4, <1>5 DEF MailedToIt

\* An address comes to be verified only by the redemption of a token mailed to
\* it, with SCIM changing the address at any moment.
THEOREM VerifiedIsOwned == Spec => VerifiedMeansOwned
<1>1. AccountInv /\ [Next]_vars =>
        [(user'.verified /\ ~(user.verified /\ user'.email = user.email)) =>
            \E t \in Tokens : redeemed'[t] > redeemed[t] /\ tokens[t].email = user'.email]_vars
  BY VerifiedStep DEF BecomesVerified, MailedToIt
<1> QED BY <1>1, AccountInvariant, PTL DEF Spec, VerifiedMeansOwned

LEMMA RedeemedStep == AccountInv /\ [Next]_vars => [RedeemedSuits /\ RecoveryCutsOff]_vars
<1> SUFFICES ASSUME AccountInv, Next PROVE RedeemedSuits /\ RecoveryCutsOff
  OBVIOUS
<1> USE DEF AccountInv
<1>1. CASE redeemed' = redeemed
  BY <1>1 DEF RedeemedSuits, RecoveryCutsOff
<1>2. ASSUME NEW w \in Workers, Commit(w), redeemed' # redeemed
      PROVE  RedeemedSuits /\ RecoveryCutsOff
  <2> DEFINE t == req[w].token
  <2>1. /\ req[w].op = "redeem" /\ redeemed' = [redeemed EXCEPT ![t] = Bump(@)]
        /\ At(w, "commit") /\ req[w].pc = "commit"
        /\ sessions' = IF user'.status # "active" THEN {} ELSE sessions \ req[w].ends
        /\ \A x \in req[w].rows \cap Tokens : tokens'[x] = [tokens[x] EXCEPT !.status = "used"]
        /\ \A x \in Tokens \ req[w].rows : tokens'[x] = tokens[x]
    BY <1>2 DEF Commit, At
  <2>2. Shape(w) /\ Fits(w) /\ Chosen(w) /\ t \in Tokens
    BY <2>1 DEF Sound, Shape
  <2>3. RedeemedSuits
    BY <2>1, <2>2 DEF RedeemedSuits, Fits, Late, Typed, TypeOK
  <2>4. req[w].before \cap sessions' = {}
    BY <2>1, <2>2 DEF Chosen
  <2>5. \A x \in req[w].before \cap Tokens : tokens'[x].status # "live"
    <3> TAKE x \in req[w].before \cap Tokens
    <3>1. CASE x \in req[w].rows
      <4>1. tokens[x] \in [kind : Kinds \cup {"none"}, email : Emails \cup {None},
                           status : {"none", "live", "used", "expired"}]
        BY DEF Typed, TypeOK
      <4>2. tokens'[x] = [tokens[x] EXCEPT !.status = "used"]
        BY <2>1, <3>1
      <4> QED BY <4>1, <4>2
    <3>2. CASE x \notin req[w].rows
      BY <2>1, <2>2, <3>2 DEF Chosen, Live
    <3> QED BY <3>1, <3>2
  <2>6. \A v \in Workers \ {w} : ~At(v, "commit")
    BY <2>1, CommitAlone DEF At, Late
  <2> QED BY <2>3, <2>4, <2>5, <2>6 DEF RecoveryCutsOff
<1> QED BY <1>1, <1>2, OnlyCommits

\* A redemption acts only on the account it was mailed for as it is at the
\* commit, and a recovery that commits leaves no session and no recovery token
\* of those there were when it began.
THEOREM RedemptionsRight == Spec => RedeemedWell
BY AccountInvariant, RedeemedStep, PTL DEF Spec, RedeemedWell
=============================================================================
