--------------------------- MODULE SecondFactors ---------------------------
(***************************************************************************)
(* The second factors of one user: authenticator apps (TOTP), passkeys,    *)
(* recovery codes, the WebAuthn challenges, and the browser sessions they  *)
(* vouch for.  Requests of the same user run side by side; a step is one   *)
(* statement, since no handler here holds a transaction across two of      *)
(* them.  What a request has read it keeps, and uses later.                *)
(*                                                                         *)
(* Ciphertexts, labels and the ceremony messages are not modelled: a       *)
(* submitted code is right for one authenticator app or one recovery code, *)
(* an assertion is made by one passkey for one challenge.  The password    *)
(* has been checked before a sign-in starts here (module Throttle).        *)
(***************************************************************************)
EXTENDS Naturals, FiniteSets

CONSTANTS
    Totps,      \* mfa_credentials rows of kind totp
    Passkeys,   \* mfa_credentials rows of kind web_authn
    CredOf,     \* the credential_id of the authenticator behind a passkey row
    Requests,   \* requests; also the challenge, the recovery codes and the
                \* session that a request creates
    CodeCount,  \* RECOVERY_CODE_COUNT
    Ops,        \* the operations the instance exercises
    Old         \* names the codes and the session that exist at the start

Factors == Totps \cup Passkeys
Codes == (Requests \cup {Old}) \X (1..CodeCount)
SessionIds == Requests \cup {Old}

SignIns == {"login", "reauthenticate"}
OpNames == SignIns \cup {"start_totp", "confirm_totp", "start_webauthn",
            "finish_webauthn", "revoke", "regenerate"}

ASSUME FactorConstants ==
    /\ Totps \cap Passkeys = {}
    /\ DOMAIN CredOf = Passkeys
    /\ CodeCount \in Nat \ {0}
    /\ Ops \subseteq OpNames
    /\ Old \notin Requests

VARIABLES
    factor,     \* secret_metadata.status of each row; "none": no such row
    code,       \* status of each recovery code
    challenge,  \* webauthn_challenges: kind, passkeys in its state, status
    acr,        \* how each session was authenticated; "none": no such session
    live,       \* sessions neither revoked nor expired
    recent,     \* sessions younger than MFA_DESTRUCTIVE_ACTION_MAX_AGE
    req,        \* what each request does and has read
    steady,     \* history: factors active ever since a request started
    shown,      \* history: factors active at some time since then
    met,        \* history: requests that ran at the same time as a request
    broken      \* history: requests that ended with a database error

factorRows == <<factor, code, challenge, acr, live, recent>>
factorVars == <<factorRows, req, steady, shown, met, broken>>

FactorStatus == {"none", "pending", "active", "revoked"}
CodeStatus == {"none", "active", "consumed", "revoked"}
NoChallenge == [kind |-> "none", keys |-> {}, open |-> FALSE]
Acrs == {"none", "password", "totp", "recovery_code", "webauthn"}

Active == {f \in Factors : factor[f] = "active"}
ActiveCodes == {c \in Codes : code[c] = "active"}

\* The second factor submitted with a sign-in, or the row a request names.
Nothing == [is |-> "nothing"]
Wrong == [is |-> "wrong"]
Submitted ==
    {Nothing, Wrong}
      \cup [is : {"totp"}, row : Totps]
      \cup [is : {"code"}, code : Codes]
      \cup [is : {"assertion"}, row : Passkeys, challenge : SessionIds]

NoReads == [totp |-> {}, codes |-> {}, keys |-> {}]
Waiting == [op |-> "none", pc |-> "idle", by |-> Old, fresh |-> FALSE,
            sub |-> Nothing, seen |-> NoReads, method |-> "none", next |-> 1]

Running(r) == req[r].pc \notin {"idle", "end"}

\* A user with any of the factors, enrolled earlier, signed in with one of
\* them or without, and with a challenge not yet answered.
FactorsInit ==
    /\ \E F \in SUBSET Factors :
         /\ \A p, q \in F \cap Passkeys : CredOf[p] = CredOf[q] => p = q
         /\ factor = [f \in Factors |-> IF f \in F THEN "active" ELSE "none"]
         /\ code = [c \in Codes |->
                      IF c[1] = Old /\ F \cap Totps # {} THEN "active" ELSE "none"]
         /\ \E a \in {"password"} \cup {"totp" : f \in F \cap Totps}
                       \cup {"webauthn" : f \in F \cap Passkeys} :
              acr = [s \in SessionIds |-> IF s = Old THEN a ELSE "none"]
    /\ \E kind \in {"registration", "authentication"} :
         challenge = [s \in SessionIds |->
           IF s = Old
           THEN [kind |-> kind, keys |-> Active \cap Passkeys, open |-> TRUE]
           ELSE NoChallenge]
    /\ Active \cap Passkeys = {} => challenge[Old].kind # "authentication"
    /\ live = {Old}
    /\ recent = {Old}
    /\ req = [r \in Requests |-> Waiting]
    /\ steady = [r \in Requests |-> {}]
    /\ shown = [r \in Requests |-> {}]
    /\ met = [r \in Requests |-> {}]
    /\ broken = {}

-----------------------------------------------------------------------------
(* Statements on mfa_credentials.                                          *)

CreateCredential(f, status) == factor' = [factor EXCEPT ![f] = status]

\* update_mfa_credential_metadata writes the whole metadata, whatever the row
\* has become since it was read.
UpdateMetadata(f, status) == factor' = [factor EXCEPT ![f] = status]

\* revoke_mfa_credential locks the row first; no status is refused.
RevokeCredential(f) == factor' = [factor EXCEPT ![f] = "revoked"]

\* revoke_active_mfa_credentials_by_kind, for the recovery codes.
RevokeActiveCodes ==
    code' = [c \in Codes |-> IF code[c] = "active" THEN "revoked" ELSE code[c]]

\* consume_active_recovery_code: one conditional UPDATE.
ConsumeRecoveryCode_Unguarded(c) == code' = [code EXCEPT ![c] = "consumed"]
ConsumeRecoveryCode(c) ==
    code[c] = "active" /\ code' = [code EXCEPT ![c] = "consumed"]

\* find_active_webauthn_credential_by_credential_id
DuplicateOf(p) == {q \in (Active \cap Passkeys) \ {p} : CredOf[q] = CredOf[p]}

-----------------------------------------------------------------------------
(* Sessions.                                                               *)

\* session_has_mfa_proof
HasMfaProof(s) == acr[s] \in {"totp", "recovery_code", "webauthn"}
RecentMfaProof(s, fresh) == HasMfaProof(s) /\ fresh
RecentAuthentication(s, fresh) == fresh

\* The clock: a session grows older than the age limit.
Age(s) ==
    /\ s \in recent
    /\ recent' = recent \ {s}
    /\ UNCHANGED <<factor, code, challenge, acr, live, req, broken>>

-----------------------------------------------------------------------------
(* Steps of a request.                                                     *)

At(r, pc) == req[r].pc = pc

\* What a request has read ends with it.
Forget(q) == IF q.pc = "end" THEN [q EXCEPT !.seen = NoReads, !.fresh = FALSE] ELSE q
Goto(r, pc) == req' = [req EXCEPT ![r] = Forget([@ EXCEPT !.pc = pc])]

\* A statement fails, or the process ends: the handler goes no further.
Abort(r) ==
    /\ Running(r)
    /\ Goto(r, "end")
    /\ broken' = broken \cup {r}
    /\ UNCHANGED factorRows

Begin(r, op, s, sub, pc) ==
    /\ At(r, "idle") /\ op \in Ops
    /\ req' = [req EXCEPT ![r] = [Waiting EXCEPT !.op = op, !.pc = pc,
                                                 !.by = s, !.sub = sub,
                                                 !.fresh = s \in recent]]
    /\ UNCHANGED <<factorRows, broken>>

\* What a browser can submit: it knows rows, codes and challenges that exist.
Known(sub) ==
    /\ sub.is = "totp" => factor[sub.row] # "none"
    /\ sub.is = "code" => code[sub.code] # "none"
    /\ sub.is = "assertion" =>
         factor[sub.row] # "none" /\ challenge[sub.challenge].kind # "none"

\* The row a request is about to insert has an identifier of its own.
Unused(f) ==
    /\ factor[f] = "none"
    /\ \A q \in Requests :
         Running(q) /\ req[q].op \in {"start_totp", "finish_webauthn"}
           => req[q].sub.row # f

\* POST /session: the password is right, a second factor may be submitted.
Login(r) ==
    \E sub \in Submitted :
        Known(sub) /\ Begin(r, "login", Old, sub, "totp")

\* POST /session/reauthenticate, with the cookie of a live session.
Reauthenticate(r) ==
    \E s \in live, sub \in Submitted :
        Known(sub) /\ Begin(r, "reauthenticate", s, sub, "totp")

\* The enrolment requests read the user's factors first.
StartTotp(r) ==
    \E s \in live, f \in Totps :
        Unused(f) /\ Begin(r, "start_totp", s, [is |-> "totp", row |-> f], "totp")

ConfirmTotp(r) ==
    \E s \in live, f \in Totps :
        /\ factor[f] # "none"
        /\ Begin(r, "confirm_totp", s, [is |-> "totp", row |-> f], "totp")

StartWebauthn(r) ==
    \E s \in live : Begin(r, "start_webauthn", s, Nothing, "totp")

FinishWebauthn(r) ==
    \E s \in live, p \in Passkeys, q \in SessionIds :
        /\ Unused(p) /\ challenge[q].kind # "none"
        /\ Begin(r, "finish_webauthn", s,
                 [is |-> "assertion", row |-> p, challenge |-> q], "totp")

\* DELETE /session/mfa/credentials/{id}: the session must be a recent proof.
RevokeRequest(r) ==
    \E s \in live, f \in Factors :
        /\ RecentMfaProof(s, s \in recent) /\ factor[f] # "none"
        /\ Begin(r, "revoke", s,
                 IF f \in Totps THEN [is |-> "totp", row |-> f]
                 ELSE [is |-> "assertion", row |-> f, challenge |-> r],
                 "revoke")

Regenerate(r) ==
    \E s \in live :
        /\ RecentMfaProof(s, s \in recent)
        /\ Begin(r, "regenerate", s, Nothing, "totp")

\* The three lists are read by three statements.
ReadTotps(r) ==
    /\ At(r, "totp")
    /\ req' = [req EXCEPT ![r].seen.totp = Active \cap Totps,
                          ![r].pc = IF req[r].op \in SignIns THEN "codes" ELSE "keys"]
    /\ UNCHANGED <<factorRows, broken>>

ReadCodes(r) ==
    /\ At(r, "codes")
    /\ req' = [req EXCEPT ![r].seen.codes = ActiveCodes, ![r].pc = "keys"]
    /\ UNCHANGED <<factorRows, broken>>

\* require_recent_enrollment_authentication, for the factors read.
MayEnroll(s, fresh, F) ==
    IF F # {} THEN RecentMfaProof(s, fresh) ELSE RecentAuthentication(s, fresh)

RequiresMfa_TotpOnly(totp, keys) == totp # {}
RequiresMfa(totp, keys) == totp # {} \/ keys # {}

\* verify_submitted_mfa: where a sign-in goes on once it has read the factors.
AfterReading(sub, totp, codes, keys) ==
    IF ~RequiresMfa(totp, keys) THEN "session"
    ELSE CASE sub.is = "assertion" -> IF keys = {} THEN "end" ELSE "assert"
           [] sub.is = "nothing" -> IF keys = {} THEN "end" ELSE "challenge"
           [] sub.is = "totp" -> IF sub.row \in totp THEN "session" ELSE "end"
           [] sub.is = "code" -> IF sub.code \in codes THEN "spend" ELSE "end"
           [] sub.is = "wrong" -> "end"

\* What each of the other requests does with the factors it has read.
Enrolment == [start_totp |-> "pend", confirm_totp |-> "check",
              start_webauthn |-> "exclude", finish_webauthn |-> "register"]
AfterCounting(op, s, fresh, F) ==
    CASE op \in DOMAIN Enrolment ->
           IF MayEnroll(s, fresh, F) THEN Enrolment[op] ELSE "end"
      [] op = "regenerate" -> IF F # {} THEN "drop" ELSE "end"
      [] op = "revoke" -> IF F = {} THEN "drop" ELSE "end"

ReadPasskeys(r) ==
    /\ At(r, "keys")
    /\ LET keys == Active \cap Passkeys
           totp == req[r].seen.totp
       IN  req' = [req EXCEPT ![r] = Forget([@ EXCEPT
             !.seen.keys = keys,
             !.method = IF ~RequiresMfa(totp, keys) THEN "password"
                        ELSE CASE req[r].sub.is = "totp" -> "totp"
                               [] req[r].sub.is = "code" -> "recovery_code"
                               [] OTHER -> "webauthn",
             !.pc = IF req[r].op \in SignIns
                    THEN AfterReading(req[r].sub, totp, req[r].seen.codes, keys)
                    ELSE AfterCounting(req[r].op, req[r].by, req[r].fresh,
                                       totp \cup keys)])]
    /\ UNCHANGED <<factorRows, broken>>

-----------------------------------------------------------------------------
(* Challenges and the passkeys behind them.                                *)

\* The partial unique index on the credential_id of active passkeys.
IndexAllows(p) == DuplicateOf(p) = {}

\* start_webauthn_mfa lists the passkeys once more, for the options to exclude.
ReadExcluded(r) ==
    /\ At(r, "exclude")
    /\ req' = [req EXCEPT ![r].seen.keys = Active \cap Passkeys,
                          ![r].pc = "challenge"]
    /\ UNCHANGED <<factorRows, broken>>

\* start_webauthn_authentication_challenge, and the challenge of an enrolment,
\* whose options exclude the passkeys of the second reading.
InsertChallenge(r) ==
    /\ At(r, "challenge")
    /\ challenge' = [challenge EXCEPT ![r] =
         [kind |-> IF req[r].op \in SignIns THEN "authentication" ELSE "registration",
          keys |-> req[r].seen.keys, open |-> TRUE]]
    /\ Goto(r, "end")
    /\ UNCHANGED <<factor, code, acr, live, recent, broken>>

\* consume_webauthn_challenge: an open challenge of that kind is used up.
Consume(q, kind) ==
    /\ challenge[q].open /\ challenge[q].kind = kind
    /\ challenge' = [challenge EXCEPT ![q].open = FALSE]

\* The challenge is consumed, then the assertion is checked: the passkey is one
\* of the challenge's, and one of those read as active.  A challenge that has
\* been used, is of the other kind or has expired ends the request.
CheckAssertion(r) ==
    /\ At(r, "assert")
    /\ LET p == req[r].sub.row
           q == req[r].sub.challenge
       IN  \/ /\ Consume(q, "authentication")
              /\ Goto(r, IF p \in challenge[q].keys \cap req[r].seen.keys
                         THEN "touch" ELSE "end")
           \/ Goto(r, "end") /\ UNCHANGED challenge
    /\ UNCHANGED <<factor, code, acr, live, recent, broken>>

\* A changed passkey (a new counter) is written back whole, as "active"; the
\* unique index may refuse that.  An unchanged one only gets last_used_at.
Touch(r) ==
    /\ At(r, "touch")
    /\ LET p == req[r].sub.row
       IN  \/ /\ IndexAllows(p)
              /\ UpdateMetadata(p, "active")
              /\ Goto(r, "session")
           \/ ~IndexAllows(p) /\ Goto(r, "end") /\ UNCHANGED factor
           \/ Goto(r, "session") /\ UNCHANGED factor
    /\ UNCHANGED <<code, challenge, acr, live, recent, broken>>

\* finish_webauthn_mfa: the registration challenge is consumed; an
\* authenticator the challenge excluded does not register again.
Register(r) ==
    /\ At(r, "register")
    /\ LET p == req[r].sub.row
           q == req[r].sub.challenge
       IN  \/ /\ Consume(q, "registration")
              /\ Goto(r, IF \A k \in challenge[q].keys : CredOf[k] # CredOf[p]
                         THEN "unique" ELSE "end")
           \/ Goto(r, "end") /\ UNCHANGED challenge
    /\ UNCHANGED <<factor, code, acr, live, recent, broken>>

\* An authenticator that is already registered is refused.
CheckUnique(r) ==
    /\ At(r, "unique")
    /\ Goto(r, IF DuplicateOf(req[r].sub.row) = {} THEN "enrol" ELSE "end")
    /\ UNCHANGED <<factorRows, broken>>

\* The insert, which the unique index may still refuse.
Enroll(r) ==
    /\ At(r, "enrol")
    /\ LET p == req[r].sub.row
       IN  IF IndexAllows(p) THEN CreateCredential(p, "active") ELSE UNCHANGED factor
    /\ Goto(r, "end")
    /\ UNCHANGED <<code, challenge, acr, live, recent, broken>>

-----------------------------------------------------------------------------
(* Authenticator apps, revocation and recovery codes.                      *)

InsertPending(r) ==
    /\ At(r, "pend")
    /\ CreateCredential(req[r].sub.row, "pending")
    /\ Goto(r, "end")
    /\ UNCHANGED <<code, challenge, acr, live, recent, broken>>

\* The pending row is read and the submitted code is checked against it; a
\* wrong code or an expired enrolment is refused.
CheckPending(r) ==
    /\ At(r, "check")
    /\ \/ factor[req[r].sub.row] = "pending" /\ Goto(r, "activate")
       \/ Goto(r, "end")
    /\ UNCHANGED <<factorRows, broken>>

Activate(r) ==
    /\ At(r, "activate")
    /\ UpdateMetadata(req[r].sub.row, "active")
    /\ Goto(r, "drop")
    /\ UNCHANGED <<code, challenge, acr, live, recent, broken>>

\* The factor is revoked, then the remaining ones are counted.
Revoke(r) ==
    /\ At(r, "revoke")
    /\ RevokeCredential(req[r].sub.row)
    /\ Goto(r, "totp")
    /\ UNCHANGED <<code, challenge, acr, live, recent, broken>>

\* The recovery codes are revoked; only a revocation ends here.
DropCodes(r) ==
    /\ At(r, "drop")
    /\ RevokeActiveCodes
    /\ Goto(r, IF req[r].op = "revoke" THEN "end" ELSE "store")
    /\ UNCHANGED <<factor, challenge, acr, live, recent, broken>>

\* store_recovery_codes inserts them one by one.
StoreCode(r) ==
    /\ At(r, "store")
    /\ code' = [code EXCEPT ![<<r, req[r].next>>] = "active"]
    /\ req' = [req EXCEPT ![r].next = @ + 1,
                          ![r].pc = IF req[r].next = CodeCount THEN "end" ELSE @]
    /\ UNCHANGED <<factor, challenge, acr, live, recent, broken>>

\* The code was read as active; another request may have spent it since.
SpendCode(r) ==
    /\ At(r, "spend")
    /\ \/ ConsumeRecoveryCode(req[r].sub.code) /\ Goto(r, "session")
       \/ code[req[r].sub.code] # "active" /\ Goto(r, "end") /\ UNCHANGED code
    /\ UNCHANGED <<factor, challenge, acr, live, recent, broken>>

\* authenticated_session: the session says how the user was authenticated.
NewSession(r) ==
    /\ acr' = [acr EXCEPT ![r] = req[r].method]
    /\ recent' = recent \cup {r}

OpenSession(r) ==
    /\ At(r, "session") /\ req[r].op = "login"
    /\ NewSession(r)
    /\ live' = live \cup {r}
    /\ Goto(r, "end")
    /\ UNCHANGED <<factor, code, challenge, broken>>

\* rotate_auth_session: the session the request came with must still be live.
RotateSession(r) ==
    /\ At(r, "session") /\ req[r].op = "reauthenticate"
    /\ \/ /\ req[r].by \in live
          /\ NewSession(r)
          /\ live' = (live \ {req[r].by}) \cup {r}
       \/ req[r].by \notin live /\ UNCHANGED <<acr, live, recent>>
    /\ Goto(r, "end")
    /\ UNCHANGED <<factor, code, challenge, broken>>

-----------------------------------------------------------------------------
\* Bookkeeping of the history variables, the same for every step.
Observe ==
    /\ steady' = [r \in Requests |->
                    CASE At(r, "idle") -> Active' [] At(r, "end") -> steady[r]
                      [] OTHER -> steady[r] \cap Active']
    /\ shown' = [r \in Requests |->
                   CASE At(r, "idle") -> Active' [] At(r, "end") -> shown[r]
                     [] OTHER -> shown[r] \cup Active']
    /\ met' = [r \in Requests |->
                 met[r] \cup {q \in Requests \ {r} : Running(r)' /\ Running(q)'}]

SignIn(r) ==
    \/ Login(r) \/ Reauthenticate(r)
    \/ ReadTotps(r) \/ ReadCodes(r) \/ ReadPasskeys(r)
    \/ InsertChallenge(r) \/ CheckAssertion(r) \/ Touch(r) \/ SpendCode(r)
    \/ OpenSession(r) \/ RotateSession(r)

Manage(r) ==
    \/ StartTotp(r) \/ ConfirmTotp(r) \/ StartWebauthn(r) \/ FinishWebauthn(r)
    \/ RevokeRequest(r) \/ Regenerate(r)
    \/ ReadExcluded(r) \/ Register(r) \/ CheckUnique(r) \/ Enroll(r)
    \/ InsertPending(r) \/ CheckPending(r) \/ Activate(r)
    \/ Revoke(r) \/ DropCodes(r) \/ StoreCode(r)

FactorsNext ==
    /\ \/ \E r \in Requests : SignIn(r) \/ Manage(r) \/ Abort(r)
       \/ \E s \in SessionIds : Age(s)
    /\ Observe

FactorsSpec == FactorsInit /\ [][FactorsNext]_factorVars

-----------------------------------------------------------------------------
(* Properties.                                                             *)

\* Rows, sessions and requests are well formed.
FactorsTypeOK ==
    /\ factor \in [Factors -> FactorStatus]
    /\ code \in [Codes -> CodeStatus]
    /\ challenge \in [SessionIds -> [kind : {"none", "registration", "authentication"},
                                     keys : SUBSET Passkeys, open : BOOLEAN]]
    /\ acr \in [SessionIds -> Acrs]
    /\ live \subseteq {s \in SessionIds : acr[s] # "none"}
    /\ recent \subseteq {s \in SessionIds : acr[s] # "none"}
    /\ \A r \in Requests :
         /\ req[r].seen.totp \subseteq Totps
         /\ req[r].seen.keys \subseteq Passkeys
         /\ req[r].next \in 1..CodeCount + 1
    /\ steady \in [Requests -> SUBSET Factors]
    /\ shown \in [Requests -> SUBSET Factors]
    /\ met \in [Requests -> SUBSET Requests]
    /\ broken \subseteq Requests

\* A recovery code opens one session, however many requests present it at
\* once: each has read it as active, only one of them consumes it.
CodeOnce ==
    \A r, q \in Requests :
        /\ r # q
        /\ acr[r] = "recovery_code" /\ acr[q] = "recovery_code"
        => req[r].sub # req[q].sub

\* A WebAuthn challenge is good for one ceremony, finished or not.
ChallengeOnce ==
    \A r, q \in Requests :
        /\ r # q
        /\ req[r].sub.is = "assertion" /\ req[q].sub.is = "assertion"
        /\ acr[r] = "webauthn" /\ acr[q] = "webauthn"
        => req[r].sub.challenge # req[q].sub.challenge

\* What is meant to be used once is: recovery codes and WebAuthn challenges.
OneUse == CodeOnce /\ ChallengeOnce

\* A factor that stays active while a request runs cannot be got around: no
\* sign-in that saw all of it ends in a session by password alone, and no
\* session by password alone enrols another factor.
FactorDemanded ==
    \A r \in Requests :
        \/ acr[r] = "password"
        \/ req[r].pc \in {"pend", "activate", "enrol"} /\ ~HasMfaProof(req[r].by)
        => steady[r] = {}

\* A session vouches for a factor that was in force while the user signed in:
\* an app or a passkey revoked before that opens none, even with a challenge
\* issued before the revocation.
FactorInForce ==
    \A r \in Requests :
        acr[r] \in {"totp", "webauthn"} => req[r].sub.row \in shown[r]

\* Recovery codes of two sets are valid together only when the requests that
\* issued them ran at the same time.
OneCodeSet ==
    \A c, d \in ActiveCodes :
        c[1] # d[1] => c[1] # Old /\ d[1] # Old /\ c[1] \in met[d[1]]

\* When all is quiet and no second factor is left, recovery codes are valid
\* only if a revocation was cut short before it came to them, or ran beside a
\* request that issues codes.  A sign-in, an enrolment or another revocation
\* beside it is no excuse: whichever revocation takes the last factor finds
\* none left.
Issuing == {"confirm_totp", "regenerate"}
CodesNeedFactor ==
    (\A r \in Requests : ~Running(r)) /\ Active = {} /\ ActiveCodes # {}
      => \E r \in Requests :
           /\ req[r].op = "revoke"
           /\ r \in broken \/ \E q \in met[r] : req[q].op \in Issuing

\* Enrolment, revocation and sign-in at the same time, each reading and writing
\* one row after another, neither get around a factor in force, nor sign in
\* with one that was not, nor leave recovery codes that nothing excuses.
FactorsHold ==
    FactorsTypeOK /\ FactorDemanded /\ FactorInForce /\ OneCodeSet /\ CodesNeedFactor

\* What docs/mfa.md says of a revocation: the factor is never used again.
RevokedStays ==
    [][\A f \in Factors : factor[f] = "revoked" => factor'[f] = "revoked"]_factorVars
=============================================================================
