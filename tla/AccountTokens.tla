--------------------------- MODULE AccountTokens ---------------------------
(***************************************************************************)
(* The mailed one-use tokens of one user: invitations, verifications of    *)
(* the address and password recoveries, with the transactions that spend   *)
(* or withdraw them.  A redeeming transaction locks the token, then the    *)
(* user; a password change, an administrator and SCIM lock the user, then  *)
(* the tokens: the database breaks the deadlocks (Victim).                 *)
(*                                                                         *)
(* A step is a statement, split where it can wait: an UPDATE of several    *)
(* rows chooses them when it starts and then waits for their locks.  What  *)
(* a transaction writes shows when it commits.                             *)
(***************************************************************************)
EXTENDS Naturals, FiniteSets

CONSTANTS
    Emails,    \* addresses the user may have
    Tokens,    \* account_tokens rows
    Sessions,  \* auth_sessions rows
    Workers,   \* requests that run at the same time
    None

Kinds == {"invitation", "verification", "recovery"}
NoToken == [kind |-> "none", email |-> None, status |-> "none"]

ASSUME AccountConstants ==
    Emails # {} /\ None \notin Emails \cup Tokens /\ Sessions \cap Tokens = {}

VARIABLES
    user,      \* the users row: status, email, email_verified, has a password
    tokens,    \* the account_tokens rows
    sessions,  \* the auth_sessions that are live
    req,       \* what each worker does, has chosen and has locked
    redeemed   \* history: how often each token changed the account, up to 2

vars == <<user, tokens, sessions, req, redeemed>>

Idle == [op |-> "none", pc |-> "idle", token |-> None, email |-> None,
         cut |-> {}, ends |-> {}, rows |-> {}, lock |-> "no", before |-> {}]

Live(t) == tokens[t].status = "live"
Fresh == {t \in Tokens : tokens[t].status = "none" /\ \A w \in Workers : req[w].token # t}

\* A user is created unverified, with a password or without; only the
\* bootstrap administrator has a password and counts as verified at once.
Init ==
    /\ \E p, v \in BOOLEAN :
         /\ v => p
         /\ user = [status |-> "active", email |-> CHOOSE e \in Emails : TRUE,
                    verified |-> v, password |-> p]
    /\ tokens = [t \in Tokens |-> NoToken]
    /\ sessions = {}
    /\ req = [w \in Workers |-> Idle]
    /\ redeemed = [t \in Tokens |-> 0]

-----------------------------------------------------------------------------
(* Locks: inserting a token shares the user row, a redeeming UPDATE takes   *)
(* it for no-key update, SELECT ... FOR UPDATE takes it whole.             *)

Compatible == {<<"share", "share">>, <<"share", "update">>, <<"update", "share">>}
UserFree(w, mode) ==
    \A v \in Workers \ {w} : req[v].lock = "no" \/ <<mode, req[v].lock>> \in Compatible
RowsFree(w, T) == \A v \in Workers \ {w} : req[v].rows \cap T = {}

At(w, pc) == req[w].pc = pc
Finish(w) == req' = [req EXCEPT ![w] = Idle]

\* What a waiting request waits for.
Blockers(w) ==
    {v \in Workers \ {w} :
       \/ At(w, "user") /\ req[v].lock # "no"
       \/ At(w, "consume") /\ req[w].token \in req[v].rows
       \/ At(w, "others") /\ req[w].cut \cap req[v].rows # {}}

\* The deadlock detector ends one of two requests that wait for each other.
Victim(w) ==
    /\ \E v \in Blockers(w) : w \in Blockers(v)
    /\ Finish(w)
    /\ UNCHANGED <<user, tokens, sessions, redeemed>>

\* A statement fails or the server stops: the transaction leaves nothing.
Crash(w) ==
    /\ ~At(w, "idle")
    /\ Finish(w)
    /\ UNCHANGED <<user, tokens, sessions, redeemed>>

\* The clock passes expires_at.
Expire(t) ==
    /\ Live(t)
    /\ tokens' = [tokens EXCEPT ![t].status = "expired"]
    /\ UNCHANGED <<user, sessions, req, redeemed>>

-----------------------------------------------------------------------------
(* Issuing.                                                                *)

\* The reads before a token is queued: an invitation needs a user without a
\* password, a verification an address not yet verified, a recovery an active
\* user with a password.
MayIssue(kind) ==
    CASE kind = "invitation" -> ~user.password
      [] kind = "verification" -> ~user.verified /\ user.status = "active"
      [] kind = "recovery" -> user.password /\ user.status = "active"

IssueCheck(w, kind) ==
    /\ At(w, "idle") /\ MayIssue(kind) /\ Fresh # {}
    /\ req' = [req EXCEPT ![w] = [Idle EXCEPT !.op = kind, !.pc = "insert",
                 !.token = CHOOSE t \in Fresh : TRUE, !.email = user.email]]
    /\ UNCHANGED <<user, tokens, sessions, redeemed>>

CreateInvitation(w) == IssueCheck(w, "invitation")
RequestVerification(w) == IssueCheck(w, "verification")
RequestRecovery(w) == IssueCheck(w, "recovery")
\* An administrator asks for the user, under the same conditions.
AdminRequestVerification(w) == IssueCheck(w, "verification")
AdminRequestRecovery(w) == IssueCheck(w, "recovery")

\* queue_account_lifecycle_email: token and mail in one transaction, for the
\* address that was read.
InsertToken_NoAddress(w) ==
    /\ At(w, "insert") /\ UserFree(w, "share")
    /\ tokens' = [tokens EXCEPT ![req[w].token] =
         [kind |-> req[w].op, email |-> req[w].token, status |-> "live"]]
    /\ Finish(w)
    /\ UNCHANGED <<user, sessions, redeemed>>
InsertToken(w) ==
    /\ At(w, "insert") /\ UserFree(w, "share")
    /\ tokens' = [tokens EXCEPT ![req[w].token] =
         [kind |-> req[w].op, email |-> req[w].email, status |-> "live"]]
    /\ Finish(w)
    /\ UNCHANGED <<user, sessions, redeemed>>

-----------------------------------------------------------------------------
(* Redeeming.                                                              *)

\* The account a token is good for, as the two guarded UPDATEs demand it.
Suits(t) ==
    /\ user.status = "active"
    /\ user.email = tokens[t].email
    /\ tokens[t].kind = "invitation" => ~user.password
    /\ tokens[t].kind = "recovery" => user.password

\* History: what a recovery that starts now has to end.
Cuttable == sessions \cup {t \in Tokens : Live(t) /\ tokens[t].kind = "recovery"}

\* The UPDATE of the token starts: its time is now, and the user it looks up is
\* the one of its snapshot.  valid_account_token and the password hash come
\* before; the UPDATE repeats every check of theirs.
BeginRedeem(w, t) ==
    /\ At(w, "idle") /\ Live(t) /\ Suits(t)
    /\ req' = [req EXCEPT ![w] = [Idle EXCEPT !.op = "redeem", !.pc = "consume",
         !.token = t, !.before = IF tokens[t].kind = "recovery" THEN Cuttable ELSE {}]]
    /\ UNCHANGED <<user, tokens, sessions, redeemed>>

AcceptInvitation(w) ==
    \E t \in Tokens : tokens[t].kind = "invitation" /\ BeginRedeem(w, t)
ConfirmVerification(w) ==
    \E t \in Tokens : tokens[t].kind = "verification" /\ BeginRedeem(w, t)
CompleteRecovery(w) ==
    \E t \in Tokens : tokens[t].kind = "recovery" /\ BeginRedeem(w, t)

\* The token row is free: consumed_at must still be empty.
ConsumeToken_Rereads(w) ==
    /\ At(w, "consume") /\ RowsFree(w, {req[w].token})
    /\ req' = [req EXCEPT ![w].pc = "user", ![w].rows = {req[w].token}]
    /\ UNCHANGED <<user, tokens, sessions, redeemed>>
ConsumeToken(w) ==
    /\ At(w, "consume") /\ RowsFree(w, {req[w].token})
    /\ IF tokens[req[w].token].status = "used" THEN Finish(w)
       ELSE req' = [req EXCEPT ![w].pc = "user", ![w].rows = {req[w].token}]
    /\ UNCHANGED <<user, tokens, sessions, redeemed>>

\* The UPDATE of the user: the same conditions once more, on the locked row.
UpdateUser_Unguarded(w) ==
    /\ At(w, "user") /\ req[w].op = "redeem" /\ UserFree(w, "update")
    /\ req' = [req EXCEPT ![w].pc = IF tokens[req[w].token].kind = "recovery"
                                    THEN "select" ELSE "commit",
                          ![w].lock = "update"]
    /\ UNCHANGED <<user, tokens, sessions, redeemed>>
UpdateUser(w) ==
    /\ At(w, "user") /\ req[w].op = "redeem" /\ UserFree(w, "update")
    /\ IF Suits(req[w].token)
       THEN req' = [req EXCEPT ![w].pc = IF tokens[req[w].token].kind = "recovery"
                                         THEN "select" ELSE "commit",
                               ![w].lock = "update"]
       ELSE Finish(w)
    /\ UNCHANGED <<user, tokens, sessions, redeemed>>

-----------------------------------------------------------------------------
(* Changes of the account that withdraw tokens.                            *)

BeginChange(w, op, e) ==
    /\ At(w, "idle")
    /\ req' = [req EXCEPT ![w] = [Idle EXCEPT !.op = op, !.pc = "user", !.email = e]]
    /\ UNCHANGED <<user, tokens, sessions, redeemed>>

\* change_password checks the current password and the status before.
ChangePassword(w) ==
    user.password /\ user.status = "active" /\ BeginChange(w, "password", None)
ScimChangeEmail(w) == \E e \in Emails : BeginChange(w, "email", e)
UpdateStatus(w) == BeginChange(w, "status", None)

\* SELECT ... FOR UPDATE of the user.
LockUser_Waits(w) ==
    /\ At(w, "user") /\ req[w].op \in {"password", "email", "status"}
    /\ \A v \in Workers \ {w} : At(v, "idle")
    /\ req' = [req EXCEPT ![w].lock = "full",
         ![w].pc = IF req[w].op = "status" \/ req[w].email = user.email
                   THEN "commit" ELSE "select"]
    /\ UNCHANGED <<user, tokens, sessions, redeemed>>
LockUser(w) ==
    /\ At(w, "user") /\ req[w].op \in {"password", "email", "status"}
    /\ UserFree(w, "full")
    /\ req' = [req EXCEPT ![w].lock = "full",
         ![w].pc = IF req[w].op = "status" \/ req[w].email = user.email
                   THEN "commit" ELSE "select"]
    /\ UNCHANGED <<user, tokens, sessions, redeemed>>

\* The rows the withdrawing UPDATE chooses: open recovery tokens, or for a new
\* address every open token of the user.
Withdrawn(op) ==
    {t \in Tokens : Live(t) /\ (op = "email" \/ tokens[t].kind = "recovery")}

SelectTokens(w) ==
    /\ At(w, "select")
    /\ req' = [req EXCEPT ![w].cut = Withdrawn(req[w].op) \ {req[w].token},
                          ![w].pc = "others"]
    /\ UNCHANGED <<user, tokens, sessions, redeemed>>

\* All of them are free; those used meanwhile are left alone.  The sessions
\* are revoked by the next statement.
WithdrawTokens(w) ==
    /\ At(w, "others") /\ RowsFree(w, req[w].cut)
    /\ req' = [req EXCEPT ![w].pc = "commit",
         ![w].rows = @ \cup {t \in req[w].cut : tokens[t].status # "used"},
         ![w].ends = IF req[w].op = "email" THEN {} ELSE sessions]
    /\ UNCHANGED <<user, tokens, sessions, redeemed>>

\* Sessions are created by logins, which hold no lock.
Login(s) ==
    /\ user.password /\ user.status = "active"
    /\ s \notin sessions \cup UNION {req[w].ends \cup req[w].before : w \in Workers}
    /\ sessions' = sessions \cup {s}
    /\ UNCHANGED <<user, tokens, req, redeemed>>

Changed_StaysVerified(w, u) ==
    CASE req[w].op = "email" -> [u EXCEPT !.email = req[w].email]
      [] req[w].op = "status" ->
           [u EXCEPT !.status = IF @ = "active" THEN "suspended" ELSE "active"]
      [] req[w].op = "password" -> [u EXCEPT !.password = TRUE]
      [] req[w].op = "redeem" /\ tokens[req[w].token].kind = "verification" ->
           [u EXCEPT !.verified = TRUE]
      [] OTHER -> [u EXCEPT !.password = TRUE, !.verified = TRUE]
Changed(w, u) ==
    CASE req[w].op = "email" ->
           [u EXCEPT !.email = req[w].email,
                     !.verified = @ /\ u.email = req[w].email]
      [] req[w].op = "status" ->
           [u EXCEPT !.status = IF @ = "active" THEN "suspended" ELSE "active"]
      [] req[w].op = "password" -> [u EXCEPT !.password = TRUE]
      [] req[w].op = "redeem" /\ tokens[req[w].token].kind = "verification" ->
           [u EXCEPT !.verified = TRUE]
      [] OTHER -> [u EXCEPT !.password = TRUE, !.verified = TRUE]

Bump(n) == IF n = 2 THEN 2 ELSE n + 1

Commit(w) ==
    /\ At(w, "commit")
    /\ user' = Changed(w, user)
    /\ tokens' = [t \in Tokens |->
                    IF t \in req[w].rows THEN [tokens[t] EXCEPT !.status = "used"]
                    ELSE tokens[t]]
    /\ sessions' = IF user'.status # "active" THEN {} ELSE sessions \ req[w].ends
    /\ redeemed' = IF req[w].op = "redeem"
                   THEN [redeemed EXCEPT ![req[w].token] = Bump(@)] ELSE redeemed
    /\ Finish(w)

-----------------------------------------------------------------------------
Issue(w) == CreateInvitation(w) \/ RequestVerification(w) \/ RequestRecovery(w)
              \/ AdminRequestVerification(w) \/ AdminRequestRecovery(w) \/ InsertToken(w)
Redeem(w) == AcceptInvitation(w) \/ ConfirmVerification(w) \/ CompleteRecovery(w)
               \/ ConsumeToken(w) \/ UpdateUser(w)
Change(w) == ChangePassword(w) \/ ScimChangeEmail(w) \/ UpdateStatus(w)
               \/ LockUser(w) \/ SelectTokens(w) \/ WithdrawTokens(w) \/ Commit(w)

Next ==
    \/ \E w \in Workers : Issue(w) \/ Redeem(w) \/ Change(w) \/ Victim(w) \/ Crash(w)
    \/ \E t \in Tokens : Expire(t)
    \/ \E s \in Sessions : Login(s)

Spec == Init /\ [][Next]_vars

\* The scheduler runs every request that can run, and the database ends a
\* deadlock; nothing obliges a client to send a request or a server to crash.
Proceed(w) ==
    \/ InsertToken(w) \/ ConsumeToken(w) \/ UpdateUser(w)
    \/ LockUser(w) \/ SelectTokens(w) \/ WithdrawTokens(w) \/ Commit(w)
Fairness == \A w \in Workers : SF_vars(Proceed(w)) /\ WF_vars(Victim(w))
FairSpec == Spec /\ Fairness

-----------------------------------------------------------------------------
(* Properties.                                                             *)

\* Rows and requests are well formed.
TypeOK ==
    /\ user \in [status : {"active", "suspended"}, email : Emails,
                 verified : BOOLEAN, password : BOOLEAN]
    /\ tokens \in [Tokens -> [kind : Kinds \cup {"none"}, email : Emails \cup {None},
                             status : {"none", "live", "used", "expired"}]]
    /\ sessions \subseteq Sessions
    /\ redeemed \in [Tokens -> 0..2]
    /\ \A w \in Workers :
         /\ req[w].rows \subseteq Tokens /\ req[w].cut \subseteq Tokens
         /\ req[w].lock \in {"no", "update", "full"}

\* A mailed token changes the account once, however many requests present it.
TokenOnce == \A t \in Tokens : redeemed[t] < 2

\* A token acts only on the account as it is when it commits: mailed to the
\* address the user has now, an invitation only where there is no password, a
\* recovery only where there is one, though the checks were made before the
\* locks were waited for.
RedeemedSuits ==
    \A t \in Tokens : redeemed'[t] # redeemed[t] => Suits(t)

\* An address comes to count as verified only by redeeming a token that was
\* mailed to it, with SCIM changing the address while links are being followed:
\* a verification does not move to another address, and the bootstrap
\* administrator's is lost with the address given at the bootstrap.
VerifiedMeansOwned ==
    [][(user'.verified /\ ~(user.verified /\ user'.email = user.email)) =>
          \E t \in Tokens : redeemed'[t] > redeemed[t] /\ tokens[t].email = user'.email]_vars

\* A recovery that commits leaves no session live and no recovery token open of
\* those there were when it began, though the rows to end are chosen by later
\* statements and may be locked by requests that end in between.
RecoveryCutsOff ==
    \A w \in Workers :
       At(w, "commit") /\ req[w].op = "redeem" /\ redeemed' # redeemed
       => /\ req[w].before \cap sessions' = {}
          /\ \A t \in req[w].before \cap Tokens : tokens'[t].status # "live"

\* A redemption is right when it commits, for the account and for the sessions
\* and tokens of before.
RedeemedWell == [][RedeemedSuits /\ RecoveryCutsOff]_vars

\* No request waits for ever, though token and user are locked in both orders.
RequestsFinish == \A w \in Workers : ~At(w, "idle") ~> At(w, "idle")
=============================================================================
