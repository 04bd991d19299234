------------------------ MODULE SecondFactorsProofs ------------------------
(***************************************************************************)
(* Proof that codes and challenges are used once and that second factors   *)
(* hold, for any factors, any number of requests and of recovery codes.    *)
(***************************************************************************)
EXTENDS SecondFactors, TLAPS

Steps == {"idle", "end", "totp", "codes", "keys", "assert", "touch", "spend", "session",
          "exclude", "challenge", "pend", "check", "activate", "register", "unique", "enrol",
          "revoke", "drop", "store"}
Reads == [totp : SUBSET Totps, codes : SUBSET Codes, keys : SUBSET Passkeys]
Request == [op : OpNames \cup {"none"}, pc : Steps, by : SessionIds, fresh : BOOLEAN,
            sub : Submitted, seen : Reads, method : Acrs, next : 1..CodeCount + 1]

Enrolling == {"pend", "check", "activate", "register", "unique", "enrol"}

\* The submitted factor is of the kind the session will name.
Proven(q) ==
    \/ q.method = "totp" /\ q.sub.is = "totp"
    \/ q.method = "recovery_code" /\ q.sub.is = "code"
    \/ q.method = "webauthn" /\ q.sub.is = "assertion"

\* Where a request is says what it is.
Shaped(q) ==
    /\ q.pc = "idle" => q = Waiting
    /\ q.pc # "idle" => q.op \in OpNames
    /\ q.pc \in {"codes", "assert", "touch", "spend", "session"} => q.op \in SignIns
    /\ q.pc = "challenge" => q.op \in SignIns \cup {"start_webauthn"}
    /\ q.pc = "exclude" => q.op = "start_webauthn"
    /\ q.pc = "pend" => q.op = "start_totp"
    /\ q.pc \in {"check", "activate"} => q.op = "confirm_totp"
    /\ q.pc \in {"register", "unique", "enrol"} => q.op = "finish_webauthn"
    /\ q.pc = "revoke" => q.op = "revoke"
    /\ q.pc = "drop" => q.op \in {"confirm_totp", "regenerate", "revoke"}
    /\ q.pc = "store" => q.op \in {"confirm_totp", "regenerate"} /\ q.next <= CodeCount
    /\ q.pc \notin {"store", "end"} => q.next = 1
    /\ q.op \in {"start_totp", "confirm_totp"} => q.sub.is = "totp"
    /\ q.op = "finish_webauthn" => q.sub.is = "assertion"
    /\ q.op = "revoke" => q.sub.is \in {"totp", "assertion"}
    /\ q.pc \in {"assert", "touch"} => q.sub.is = "assertion" /\ q.method = "webauthn"
    /\ q.pc = "spend" => q.sub.is = "code" /\ q.method = "recovery_code"
    /\ q.pc = "session" => q.method = "password" \/ Proven(q)

FactorsTyped ==
    /\ FactorsTypeOK
    /\ req \in [Requests -> Request]
    /\ \A r \in Requests : Shaped(req[r])

\* The history variables: what is steady is active, what is active has been
\* shown, and two requests that run have met.
History ==
    /\ \A r \in Requests : Running(r) => steady[r] \subseteq Active /\ Active \subseteq shown[r]
    /\ \A r, q \in Requests :
         /\ r # q /\ Running(r) /\ Running(q) => q \in met[r]
         /\ q \in met[r] <=> r \in met[q]

\* A request has seen what stayed in force, and nothing that never was.
Witness(r) ==
    /\ req[r].seen.totp \cup req[r].seen.keys \subseteq shown[r]
    /\ req[r].pc \in {"codes", "keys"} => steady[r] \cap Totps \subseteq req[r].seen.totp
    /\ req[r].method = "password" => steady[r] = {}
    /\ req[r].pc \in Enrolling => HasMfaProof(req[r].by) \/ steady[r] = {}
    /\ \/ req[r].pc = "touch"
       \/ req[r].pc = "session" /\ req[r].method \in {"totp", "webauthn"}
       => req[r].sub.row \in shown[r]
Witnessed == \A r \in Requests : Witness(r)

\* A session is the work of a sign-in that has ended.
SessionsEarned ==
    \A r \in Requests :
        acr[r] # "none" =>
           /\ req[r].pc = "end" /\ req[r].op \in SignIns /\ acr[r] = req[r].method
           /\ req[r].method = "password" \/ Proven(req[r])
           /\ req[r].method \in {"totp", "webauthn"} => req[r].sub.row \in shown[r]

\* A request has used up its recovery code, or its challenge.
Spent(r) ==
    /\ req[r].method = "recovery_code" /\ req[r].sub.is = "code"
    /\ req[r].pc = "session" \/ acr[r] # "none"
Claimed(r) ==
    /\ req[r].method = "webauthn" /\ req[r].sub.is = "assertion"
    /\ req[r].pc \in {"touch", "session"} \/ acr[r] # "none"

CodesUsed ==
    /\ \A r \in Requests, n \in 1..CodeCount : req[r].next <= n => code[<<r, n>>] = "none"
    /\ \A r \in Requests : Spent(r) => code[req[r].sub.code] = "consumed"
    /\ \A r, q \in Requests :
         r # q /\ Spent(r) /\ Spent(q) => req[r].sub.code # req[q].sub.code

ChallengesUsed ==
    /\ \A r \in Requests : challenge[r].kind # "none" => req[r].pc = "end"
    /\ \A r \in Requests : Claimed(r) => /\ ~challenge[req[r].sub.challenge].open
                                         /\ challenge[req[r].sub.challenge].kind # "none"
    /\ \A r, q \in Requests :
         r # q /\ Claimed(r) /\ Claimed(q) => req[r].sub.challenge # req[q].sub.challenge

\* Who issues codes has first taken the others away, but for those that are
\* issued beside it.
IssuedBeside ==
    /\ OneCodeSet
    /\ \A r \in Requests, c \in ActiveCodes :
         req[r].pc = "store" /\ c[1] # r => c[1] \in Requests /\ c[1] \in met[r]

\* A row that a request is about to insert is not there, and no other request
\* is about to insert it; a row that a request names is there.
Creates(r) == Running(r) /\ req[r].op \in {"start_totp", "finish_webauthn"}
RowsKnown ==
    /\ \A r \in Requests : Creates(r) => factor[req[r].sub.row] = "none"
    /\ \A r, q \in Requests :
         r # q /\ Creates(r) /\ Creates(q) => req[r].sub.row # req[q].sub.row
    /\ \A r \in Requests :
         Running(r) /\ req[r].op \in {"confirm_totp", "revoke"} => factor[req[r].sub.row] # "none"
    /\ \A r \in Requests : \A f \in shown[r] : factor[f] # "none"

\* Why there may be recovery codes and no factor.
Excused ==
    \E r \in Requests :
        req[r].op = "revoke" /\ (r \in broken \/ \E q \in met[r] : req[q].op \in Issuing)
\* A request that will issue codes because it has seen a factor.
Relies(r) ==
    \/ req[r].pc = "keys" /\ req[r].op = "regenerate" /\ req[r].seen.totp # {}
    \/ req[r].pc \in {"drop", "store"} /\ req[r].op # "revoke"
\* A revocation that will find no factor if there is none.
Counts(r) ==
    /\ req[r].op = "revoke"
    /\ \/ req[r].pc \in {"totp", "drop"}
       \/ req[r].pc = "keys" /\ req[r].seen.totp = {}
CodesExcused ==
    /\ \A r \in Requests : Relies(r) => Active # {} \/ Excused
    /\ Active = {} /\ ActiveCodes # {} => Excused \/ \E r \in Requests : Counts(r)

FactorsInv ==
    /\ FactorsTyped /\ History /\ Witnessed /\ SessionsEarned /\ CodesUsed /\ ChallengesUsed
    /\ IssuedBeside /\ RowsKnown /\ CodesExcused

-----------------------------------------------------------------------------
(* What is submitted, and how a request moves.                             *)

LEMMA SubFacts ==
    ASSUME NEW s \in Submitted
    PROVE  /\ s.is \in {"nothing", "wrong", "totp", "code", "assertion"}
           /\ s.is = "totp" => s.row \in Totps
           /\ s.is = "code" => s.code \in Codes
           /\ s.is = "assertion" => s.row \in Passkeys /\ s.challenge \in SessionIds
           /\ s.is \in {"totp", "assertion"} => s.row \in Factors
BY DEF Submitted, Nothing, Wrong, Factors

LEMMA MakeSub ==
    /\ Nothing \in Submitted /\ Nothing.is = "nothing"
    /\ \A f \in Totps : /\ [is |-> "totp", row |-> f] \in Submitted
                        /\ [is |-> "totp", row |-> f].is = "totp"
                        /\ [is |-> "totp", row |-> f].row = f
    /\ \A p \in Passkeys, q \in SessionIds :
         /\ [is |-> "assertion", row |-> p, challenge |-> q] \in Submitted
         /\ [is |-> "assertion", row |-> p, challenge |-> q].is = "assertion"
         /\ [is |-> "assertion", row |-> p, challenge |-> q].row = p
BY DEF Submitted, Nothing, Wrong

LEMMA ReqTyped ==
    ASSUME FactorsInv, NEW r \in Requests
    PROVE  /\ req[r] \in Request /\ Shaped(req[r]) /\ req[r].sub \in Submitted
           /\ req[r].pc \in Steps /\ req[r].by \in SessionIds /\ req[r].seen \in Reads
           /\ req[r].seen.totp \in SUBSET Totps /\ req[r].seen.codes \in SUBSET Codes
           /\ req[r].seen.keys \in SUBSET Passkeys /\ req[r].next \in 1..CodeCount + 1
           /\ req[r].method \in Acrs /\ req[r].op \in OpNames \cup {"none"}
<1>1. req[r] \in Request /\ Shaped(req[r])
  BY DEF FactorsInv, FactorsTyped
<1> QED BY <1>1 DEF Request, Reads

LEMMA WaitingTyped == Waiting \in Request /\ Waiting.pc = "idle" /\ Waiting.seen = NoReads
BY FactorConstants, MakeSub DEF Waiting, Request, NoReads, Reads, SessionIds, Acrs, Steps

\* The step is that of request r; the others stand still.
Acts(r) ==
    /\ req' \in [Requests -> Request] /\ \A q \in Requests \ {r} : req'[q] = req[q]
    /\ req[r].pc # "end" /\ req'[r].pc # "idle" /\ Shaped(req'[r])
    /\ req[r].pc # "idle" =>
         req'[r].op = req[r].op /\ req'[r].sub = req[r].sub /\ req'[r].by = req[r].by

\* Goto changes the step only; what has been read is forgotten in the end.
Moves(r, pc) ==
    /\ req' \in [Requests -> Request] /\ \A q \in Requests \ {r} : req'[q] = req[q]
    /\ req'[r].pc = pc /\ req'[r].op = req[r].op /\ req'[r].sub = req[r].sub
    /\ req'[r].by = req[r].by /\ req'[r].method = req[r].method /\ req'[r].next = req[r].next
    /\ req'[r].seen = IF pc = "end" THEN NoReads ELSE req[r].seen

LEMMA GotoMoves ==
    ASSUME FactorsInv, NEW r \in Requests, NEW pc \in Steps, Goto(r, pc) PROVE Moves(r, pc)
<1> DEFINE m == [req[r] EXCEPT !.pc = pc]
           n == Forget(m)
<1>1. req \in [Requests -> Request] /\ req[r] \in Request
  BY DEF FactorsInv, FactorsTyped
<1>2. m \in Request /\ m.pc = pc
  BY <1>1 DEF Request
<1>3. /\ m.op = req[r].op /\ m.sub = req[r].sub /\ m.by = req[r].by /\ m.seen = req[r].seen
      /\ m.method = req[r].method /\ m.next = req[r].next
  BY <1>1 DEF Request
<1>4. req' = [req EXCEPT ![r] = n]
  BY DEF Goto
<1> HIDE DEF m
<1>5. NoReads \in Reads
  BY DEF NoReads, Reads
<1>6. n \in Request
  BY <1>2, <1>5 DEF Forget, Request
<1>7. /\ n.pc = pc /\ n.op = m.op /\ n.sub = m.sub /\ n.by = m.by /\ n.method = m.method
      /\ n.next = m.next /\ n.seen = IF pc = "end" THEN NoReads ELSE m.seen
  BY <1>2 DEF Forget, Request
<1> HIDE DEF n
<1>8. req' \in [Requests -> Request] /\ req'[r] = n /\ \A q \in Requests \ {r} : req'[q] = req[q]
  BY <1>1, <1>4, <1>6
<1> QED BY <1>3, <1>7, <1>8 DEF Moves

\* Where a request may go to from each of its steps, besides the end.
Edge(a, b) ==
    <<a, b>> \in {<<"assert", "touch">>, <<"touch", "session">>, <<"spend", "session">>,
                  <<"register", "unique">>, <<"unique", "enrol">>, <<"check", "activate">>,
                  <<"activate", "drop">>, <<"revoke", "totp">>, <<"drop", "store">>}

LEMMA EdgeActs ==
    ASSUME FactorsInv, NEW r \in Requests, NEW pc \in Steps, Moves(r, pc), Running(r),
           pc = "end" \/ Edge(req[r].pc, pc),
           pc = "store" => req[r].op # "revoke"
    PROVE  Acts(r)
<1>1. Shaped(req[r])
  BY ReqTyped
<1>2. Shaped(req'[r])
  BY <1>1, FactorConstants DEF Shaped, Moves, Running, Edge, Proven
<1> QED BY <1>2 DEF Acts, Moves, Running, Edge

\* What Observe records.
LEMMA Observed ==
    ASSUME FactorsInv, Observe, NEW r \in Requests
    PROVE  /\ req[r].pc = "idle" => steady'[r] = Active' /\ shown'[r] = Active'
           /\ req[r].pc = "end" => steady'[r] = steady[r] /\ shown'[r] = shown[r]
           /\ Running(r) => steady'[r] = steady[r] \cap Active' /\ shown'[r] = shown[r] \cup Active'
           /\ met'[r] = met[r] \cup {q \in Requests \ {r} : Running(r)' /\ Running(q)'}
BY DEF Observe, At, Running

LEMMA ObservedTyped ==
    ASSUME FactorsInv, Observe
    PROVE  /\ steady' \in [Requests -> SUBSET Factors] /\ shown' \in [Requests -> SUBSET Factors]
           /\ met' \in [Requests -> SUBSET Requests]
<1>1. /\ steady \in [Requests -> SUBSET Factors] /\ shown \in [Requests -> SUBSET Factors]
      /\ met \in [Requests -> SUBSET Requests] /\ Active' \in SUBSET Factors
  BY DEF FactorsInv, FactorsTyped, FactorsTypeOK, Active
<1>2. /\ \A r \in Requests : steady'[r] \in SUBSET Factors /\ shown'[r] \in SUBSET Factors
      /\ \A r \in Requests : met'[r] \in SUBSET Requests
  <2> SUFFICES ASSUME NEW r \in Requests
               PROVE  /\ steady'[r] \in SUBSET Factors /\ shown'[r] \in SUBSET Factors
                      /\ met'[r] \in SUBSET Requests
    OBVIOUS
  <2>1. req[r].pc = "idle" \/ req[r].pc = "end" \/ Running(r)
    BY DEF Running
  <2> QED BY <1>1, <2>1, Observed
<1>3. /\ steady' = [r \in Requests |-> steady'[r]] /\ shown' = [r \in Requests |-> shown'[r]]
      /\ met' = [r \in Requests |-> met'[r]]
  BY DEF Observe
<1> QED BY <1>2, <1>3

\* What is final stays, whoever acts.
Stays == \A q \in Requests : req[q].pc = "end" => req'[q] = req[q]

LEMMA ActsStay == ASSUME NEW r \in Requests, Acts(r) PROVE Stays
BY DEF Acts, Stays

LEMMA HistoryKept == ASSUME FactorsInv, Observe, Stays PROVE History'
<1>1. ASSUME NEW r \in Requests, Running(r)'
      PROVE  steady'[r] \subseteq Active' /\ Active' \subseteq shown'[r]
  <2>1. req[r].pc = "idle" \/ Running(r)
    BY <1>1 DEF Running, Stays
  <2> QED BY <2>1, Observed
<1>2. \A r, q \in Requests : r # q /\ Running(r)' /\ Running(q)' => q \in met'[r]
  BY Observed
<1>3. \A r, q \in Requests : q \in met'[r] <=> r \in met'[q]
  BY Observed DEF FactorsInv, History
<1> QED BY <1>1, <1>2, <1>3 DEF History

\* A session's proof is for good.
ProofsKept == \A s \in SessionIds : acr[s] # "none" => acr'[s] = acr[s]

LEMMA WitnessStill ==
    ASSUME FactorsInv, Observe, ProofsKept, NEW q \in Requests, req'[q] = req[q]
    PROVE  Witness(q)'
<1>1. Witness(q) /\ Shaped(req[q]) /\ req[q].by \in SessionIds
  BY ReqTyped DEF FactorsInv, Witnessed
<1>2. CASE req[q].pc = "idle"
  <2>1. req'[q] = Waiting
    BY <1>1, <1>2 DEF Shaped
  <2> QED BY <2>1 DEF Witness, Waiting, NoReads, Enrolling
<1>3. CASE req[q].pc # "idle"
  <2>1. steady'[q] \subseteq steady[q] /\ shown[q] \subseteq shown'[q]
    BY <1>3, Observed DEF Running
  <2>2. HasMfaProof(req[q].by) => HasMfaProof(req[q].by)'
    BY <1>1 DEF HasMfaProof, ProofsKept
  <2> QED BY <1>1, <2>1, <2>2 DEF Witness
<1> QED BY <1>2, <1>3

LEMMA WitnessMoves ==
    ASSUME FactorsInv, Observe, ProofsKept, NEW r \in Requests, NEW pc \in Steps, Moves(r, pc),
           Running(r), pc = "end" \/ Edge(req[r].pc, pc),
           pc = "touch" => req[r].sub.row \in req[r].seen.keys
    PROVE  Witness(r)'
<1>1. Witness(r) /\ Shaped(req[r]) /\ req[r].by \in SessionIds
  BY ReqTyped DEF FactorsInv, Witnessed
<1>2. steady'[r] \subseteq steady[r] /\ shown[r] \subseteq shown'[r]
  BY Observed
<1>3. HasMfaProof(req[r].by) => HasMfaProof(req[r].by)'
  BY <1>1 DEF HasMfaProof, ProofsKept, Moves
<1>4. req'[r].seen.totp \cup req'[r].seen.keys \subseteq shown'[r]
  BY <1>1, <1>2 DEF Moves, Witness, NoReads
<1>5. pc \notin {"codes", "keys"}
  BY DEF Edge
<1>6. req'[r].method = "password" => steady'[r] = {}
  BY <1>1, <1>2 DEF Moves, Witness
<1>7. pc \in Enrolling => HasMfaProof(req[r].by)' \/ steady'[r] = {}
  BY <1>1, <1>2, <1>3 DEF Edge, Witness, Enrolling
<1>8. \/ pc = "touch"
      \/ pc = "session" /\ req[r].method \in {"totp", "webauthn"}
      => req[r].sub.row \in shown'[r]
  BY <1>1, <1>2 DEF Edge, Witness, Shaped
<1> QED BY <1>4, <1>5, <1>6, <1>7, <1>8 DEF Witness, Moves

LEMMA SessionsKept ==
    ASSUME FactorsInv, Observe, Stays, acr' = acr PROVE SessionsEarned'
<1> SUFFICES ASSUME NEW r \in Requests, acr[r] # "none"
             PROVE  /\ req'[r].pc = "end" /\ req'[r].op \in SignIns /\ acr[r] = req'[r].method
                    /\ req'[r].method = "password" \/ Proven(req'[r])
                    /\ req'[r].method \in {"totp", "webauthn"} => req'[r].sub.row \in shown'[r]
  BY DEF SessionsEarned
<1>1. /\ req[r].pc = "end" /\ req[r].op \in SignIns /\ acr[r] = req[r].method
      /\ req[r].method = "password" \/ Proven(req[r])
      /\ req[r].method \in {"totp", "webauthn"} => req[r].sub.row \in shown[r]
  BY DEF FactorsInv, SessionsEarned
<1>2. req'[r] = req[r] /\ shown'[r] = shown[r]
  BY <1>1, Observed DEF Stays
<1> QED BY <1>1, <1>2

-----------------------------------------------------------------------------
(* What a step may leave as it is, part by part of the invariant.          *)

RowsTyped ==
    /\ factor \in [Factors -> FactorStatus] /\ code \in [Codes -> CodeStatus]
    /\ challenge \in [SessionIds -> [kind : {"none", "registration", "authentication"},
                                     keys : SUBSET Passkeys, open : BOOLEAN]]
    /\ acr \in [SessionIds -> Acrs]
    /\ live \subseteq {s \in SessionIds : acr[s] # "none"}
    /\ recent \subseteq {s \in SessionIds : acr[s] # "none"}
    /\ broken \subseteq Requests

LEMMA TypedKept ==
    ASSUME FactorsInv, Observe, NEW r \in Requests, Acts(r), RowsTyped' PROVE FactorsTyped'
<1>1. \A q \in Requests : Shaped(req'[q]) /\ req'[q] \in Request
  BY ReqTyped DEF Acts
<1>2. \A q \in Requests : /\ req'[q].seen.totp \subseteq Totps /\ req'[q].seen.keys \subseteq Passkeys
                          /\ req'[q].next \in 1..CodeCount + 1
  BY <1>1 DEF Request, Reads
<1>3. FactorsTypeOK'
  BY <1>2, ObservedTyped DEF FactorsTypeOK, RowsTyped
<1>4. \A q \in Requests : Shaped(req[q])'
  BY <1>1 DEF Shaped, Proven
<1> QED BY <1>3, <1>4 DEF FactorsTyped, Acts

\* No request comes to a session, or to its claim, by this step.
NoSpend == \A q \in Requests : Spent(q)' => Spent(q) /\ req'[q].sub = req[q].sub
NoClaim == \A q \in Requests : Claimed(q)' => Claimed(q) /\ req'[q].sub = req[q].sub

LEMMA CodesStill ==
    ASSUME FactorsInv, NoSpend, code' = code, \A q \in Requests : req'[q].next = req[q].next
    PROVE  CodesUsed'
BY DEF FactorsInv, CodesUsed, NoSpend

LEMMA ChallengesStill ==
    ASSUME FactorsInv, NoClaim, Stays, challenge' = challenge PROVE ChallengesUsed'
BY DEF FactorsInv, ChallengesUsed, NoClaim, Stays

\* Nobody comes to issue codes, and none is issued.
NoIssue ==
    /\ \A q \in Requests : req'[q].pc = "store" => req[q].pc = "store"
    /\ ActiveCodes' \subseteq ActiveCodes

LEMMA IssuedStill == ASSUME FactorsInv, Observe, NoIssue PROVE IssuedBeside'
<1>1. \A r \in Requests : met[r] \subseteq met'[r]
  BY Observed
<1>2. OneCodeSet'
  <2> SUFFICES ASSUME NEW c \in ActiveCodes', NEW d \in ActiveCodes', c[1] # d[1]
               PROVE  c[1] # Old /\ d[1] # Old /\ c[1] \in met'[d[1]]
    BY DEF OneCodeSet
  <2>1. c \in ActiveCodes /\ d \in ActiveCodes
    BY DEF NoIssue
  <2>2. c[1] # Old /\ d[1] # Old /\ c[1] \in met[d[1]]
    BY <2>1 DEF FactorsInv, IssuedBeside, OneCodeSet
  <2>3. d[1] \in Requests
    BY <2>1, <2>2 DEF ActiveCodes, Codes
  <2> QED BY <1>1, <2>2, <2>3
<1> QED BY <1>1, <1>2 DEF FactorsInv, IssuedBeside, NoIssue

\* Rows stay, and those about to be inserted are still not there.
RowsStay ==
    /\ \A f \in Factors : factor[f] # "none" => factor'[f] # "none"
    /\ \A q \in Requests : Creates(q)' => factor'[req[q].sub.row] = "none"

LEMMA RowsStill ==
    ASSUME FactorsInv, Observe, NEW r \in Requests, Acts(r), Running(r), RowsStay PROVE RowsKnown'
<1>1. \A q \in Requests : /\ Running(q)' => Running(q)
                          /\ Running(q)' => req'[q].sub = req[q].sub /\ req'[q].op = req[q].op
  BY DEF Acts, Running
<1>2. \A q \in Requests : Creates(q)' => Creates(q) /\ req'[q].sub = req[q].sub
  BY <1>1 DEF Creates
<1>3. ASSUME NEW q \in Requests, NEW f \in shown'[q] PROVE factor'[f] # "none"
  <2>1. f \in shown[q] \/ f \in Active'
    BY <1>3, Observed DEF Running
  <2>2. f \in Factors
    BY <1>3, ObservedTyped
  <2>3. f \in shown[q] => factor[f] # "none"
    BY DEF FactorsInv, RowsKnown
  <2> QED BY <2>1, <2>2, <2>3 DEF RowsStay, Active
<1>4. ASSUME NEW q \in Requests, Running(q)', req'[q].op \in {"confirm_totp", "revoke"}
      PROVE  factor'[req'[q].sub.row] # "none"
  <2>1. factor[req[q].sub.row] # "none" /\ req'[q].sub = req[q].sub
    BY <1>1, <1>4 DEF FactorsInv, RowsKnown
  <2>2. req[q].sub.row \in Factors
    BY <1>1, <1>4, ReqTyped, SubFacts DEF Shaped
  <2> QED BY <2>1, <2>2 DEF RowsStay
<1>5. \A q \in Requests : Creates(q)' => factor'[req'[q].sub.row] = "none"
  BY <1>2 DEF RowsStay
<1>6. \A p, q \in Requests : p # q /\ Creates(p)' /\ Creates(q)' => req'[p].sub.row # req'[q].sub.row
  BY <1>2 DEF FactorsInv, RowsKnown
<1> QED BY <1>3, <1>4, <1>5, <1>6 DEF RowsKnown

\* What excuses codes without a factor is for good.
LEMMA ExcusedStays ==
    ASSUME FactorsInv, Observe, NEW r \in Requests, Acts(r), broken \subseteq broken', Excused
    PROVE  Excused'
<1>1. PICK q \in Requests :
            req[q].op = "revoke" /\ (q \in broken \/ \E p \in met[q] : req[p].op \in Issuing)
  BY DEF Excused
<1>2. met[q] \subseteq met'[q] /\ met[q] \subseteq Requests
  BY Observed DEF FactorsInv, FactorsTyped, FactorsTypeOK
<1>3. ASSUME NEW p \in Requests, req[p].op \in Issuing \cup {"revoke"} PROVE req'[p].op = req[p].op
  <2>1. req[p].pc # "idle"
    BY <1>3, ReqTyped DEF Shaped, Waiting, Issuing
  <2> QED BY <2>1 DEF Acts
<1> QED BY <1>1, <1>2, <1>3 DEF Excused

\* The last factor does not go, no code comes, nobody begins to rely on factors
\* that are gone and no revocation stops short.
NoLoss ==
    /\ Active' = {} => Active = {}
    /\ ActiveCodes' # {} => ActiveCodes # {}
    /\ \A q \in Requests : Relies(q)' => Relies(q) \/ Active' # {}
    /\ \A q \in Requests : Counts(q) => Counts(q)' \/ Excused' \/ Active' # {}

LEMMA ExcusesStill ==
    ASSUME FactorsInv, Observe, NEW r \in Requests, Acts(r), broken \subseteq broken', NoLoss
    PROVE  CodesExcused'
<1>1. Excused => Excused'
  BY ExcusedStays
<1>2. ASSUME NEW q \in Requests, Relies(q)' PROVE Active' # {} \/ Excused'
  <2>1. Relies(q) => Active # {} \/ Excused
    BY DEF FactorsInv, CodesExcused, Relies
  <2> QED BY <1>1, <1>2, <2>1 DEF NoLoss
<1>3. ASSUME Active' = {}, ActiveCodes' # {} PROVE Excused' \/ \E q \in Requests : Counts(q)'
  <2>1. Excused \/ \E q \in Requests : Counts(q)
    BY <1>3 DEF FactorsInv, CodesExcused, Counts, NoLoss
  <2> QED BY <1>1, <1>3, <2>1 DEF NoLoss
<1> QED BY <1>2, <1>3 DEF CodesExcused, Relies, Counts

-----------------------------------------------------------------------------
(* A running request that goes to its next step.                           *)

Walks(r, pc) ==
    /\ pc \in Steps /\ Moves(r, pc) /\ Running(r)
    /\ pc = "end" \/ Edge(req[r].pc, pc)
    /\ pc = "store" => req[r].op # "revoke"
    /\ pc = "touch" => req[r].sub.row \in req[r].seen.keys

LEMMA GotoWalks ==
    ASSUME FactorsInv, NEW r \in Requests, NEW pc \in Steps, Goto(r, pc), Running(r),
           pc = "end" \/ Edge(req[r].pc, pc),
           pc = "store" => req[r].op # "revoke",
           pc = "touch" => req[r].sub.row \in req[r].seen.keys
    PROVE  Walks(r, pc)
BY GotoMoves DEF Walks

LEMMA WalkKeeps ==
    ASSUME FactorsInv, Observe, ProofsKept, NEW r \in Requests, NEW pc, Walks(r, pc)
    PROVE  Acts(r) /\ Stays /\ History' /\ Witnessed'
<1>1. Acts(r)
  BY EdgeActs DEF Walks
<1>2. Stays
  BY <1>1, ActsStay
<1>3. History'
  BY <1>2, HistoryKept
<1>4. Witness(r)'
  BY WitnessMoves DEF Walks
<1>5. \A q \in Requests \ {r} : Witness(q)'
  BY <1>1, WitnessStill DEF Acts
<1> QED BY <1>1, <1>2, <1>3, <1>4, <1>5 DEF Witnessed

LEMMA WalkCodes ==
    ASSUME FactorsInv, NEW r \in Requests, NEW pc, Walks(r, pc), acr' = acr, code' = code,
           pc = "session" => req[r].pc = "touch"
    PROVE  CodesUsed'
<1>1. Shaped(req[r])
  BY ReqTyped
<1>2. NoSpend
  <2> SUFFICES ASSUME NEW q \in Requests, Spent(q)' PROVE Spent(q) /\ req'[q].sub = req[q].sub
    BY DEF NoSpend
  <2>1. CASE q # r
    BY <2>1 DEF Walks, Moves, Spent
  <2>2. CASE q = r
    BY <1>1, <2>2 DEF Walks, Moves, Spent, Shaped
  <2> QED BY <2>1, <2>2
<1>3. \A q \in Requests : req'[q].next = req[q].next
  BY DEF Walks, Moves
<1> QED BY <1>2, <1>3, CodesStill

LEMMA WalkClaims ==
    ASSUME FactorsInv, NEW r \in Requests, NEW pc, Walks(r, pc), acr' = acr, pc # "touch"
    PROVE  NoClaim
<1>1. Shaped(req[r])
  BY ReqTyped
<1> SUFFICES ASSUME NEW q \in Requests, Claimed(q)' PROVE Claimed(q) /\ req'[q].sub = req[q].sub
  BY DEF NoClaim
<1>2. CASE q # r
  BY <1>2 DEF Walks, Moves, Claimed
<1>3. CASE q = r
  BY <1>1, <1>3 DEF Walks, Moves, Claimed, Shaped, Edge
<1> QED BY <1>2, <1>3

LEMMA WalkIssued ==
    ASSUME FactorsInv, Observe, NEW r \in Requests, NEW pc, Walks(r, pc),
           ActiveCodes' \subseteq ActiveCodes, pc # "store"
    PROVE  IssuedBeside'
<1>1. \A q \in Requests : req'[q].pc = "store" => req[q].pc = "store"
  BY DEF Walks, Moves
<1> QED BY <1>1, IssuedStill DEF NoIssue

LEMMA WalkRows ==
    ASSUME FactorsInv, Observe, NEW r \in Requests, NEW pc, Walks(r, pc), Acts(r), factor' = factor
    PROVE  RowsKnown'
<1>1. \A q \in Requests : Creates(q)' => Creates(q)
  BY DEF Walks, Moves, Creates, Running
<1>2. RowsStay
  BY <1>1 DEF RowsStay, FactorsInv, RowsKnown
<1> QED BY <1>2, RowsStill DEF Walks

LEMMA WalkExcuses ==
    ASSUME FactorsInv, Observe, NEW r \in Requests, NEW pc, Walks(r, pc), Acts(r),
           ActiveCodes' \subseteq ActiveCodes, Active' = {} => Active = {}, broken \subseteq broken',
           pc = "drop" => Active' # {}, pc # "store", ~Counts(r) \/ r \in broken'
    PROVE  CodesExcused'
<1>1. ASSUME NEW q \in Requests, Relies(q)' PROVE Relies(q) \/ Active' # {}
  <2>1. CASE q # r
    BY <1>1, <2>1 DEF Walks, Moves, Relies
  <2>2. CASE q = r
    BY <1>1, <2>2 DEF Walks, Moves, Relies, Edge
  <2> QED BY <2>1, <2>2
<1>2. ASSUME NEW q \in Requests, Counts(q) PROVE Counts(q)' \/ Excused'
  <2>1. CASE q # r
    BY <1>2, <2>1 DEF Walks, Moves, Counts
  <2>2. CASE q = r
    BY <1>2, <2>2 DEF Walks, Moves, Counts, Excused
  <2> QED BY <2>1, <2>2
<1>3. NoLoss
  BY <1>1, <1>2 DEF NoLoss
<1> QED BY <1>3, ExcusesStill

\* Steps that leave all rows alone: an error, and the checks of an enrolment.
LEMMA QuietKeeps ==
    ASSUME FactorsInv, Observe, NEW r \in Requests, Abort(r) \/ CheckUnique(r) \/ CheckPending(r)
    PROVE  FactorsInv'
<1>1. UNCHANGED factorRows /\ broken \subseteq broken' /\ broken' \subseteq broken \cup {r} /\ Running(r)
  BY DEF Abort, CheckUnique, CheckPending, Running, At, factorRows
<1>2. PICK pc \in Steps : /\ Goto(r, pc) /\ pc \notin {"touch", "store", "session", "drop"}
                          /\ pc = "end" \/ Edge(req[r].pc, pc)
                          /\ req[r].pc \in {"unique", "check"} \/ r \in broken'
  <2>1. CASE Abort(r)
    BY <2>1 DEF Abort, Steps
  <2>2. CASE CheckUnique(r)
    <3>1. PICK pc \in {"enrol", "end"} : Goto(r, pc) /\ req[r].pc = "unique"
      BY <2>2 DEF CheckUnique, At
    <3> QED BY <3>1 DEF Steps, Edge
  <2>3. CASE CheckPending(r)
    <3>1. PICK pc \in {"activate", "end"} : Goto(r, pc) /\ req[r].pc = "check"
      BY <2>3 DEF CheckPending, At
    <3> QED BY <3>1 DEF Steps, Edge
  <2> QED BY <2>1, <2>2, <2>3
<1>3. Walks(r, pc)
  BY <1>1, <1>2, GotoWalks
<1>4. ProofsKept /\ acr' = acr /\ code' = code /\ challenge' = challenge /\ factor' = factor
  BY <1>1 DEF ProofsKept, factorRows
<1>5. Acts(r) /\ Stays /\ History' /\ Witnessed'
  BY <1>3, <1>4, WalkKeeps
<1>6. RowsTyped'
  BY <1>1 DEF factorRows, RowsTyped, FactorsInv, FactorsTyped, FactorsTypeOK
<1>7. Active' = Active /\ ActiveCodes' = ActiveCodes
  BY <1>4 DEF Active, ActiveCodes
<1>8. FactorsTyped' /\ SessionsEarned' /\ CodesUsed' /\ ChallengesUsed'
  BY <1>2, <1>3, <1>4, <1>5, <1>6, TypedKept, SessionsKept, WalkCodes, WalkClaims, ChallengesStill
<1>9. IssuedBeside' /\ RowsKnown'
  BY <1>2, <1>3, <1>4, <1>5, <1>7, WalkIssued, WalkRows
<1>10. CodesExcused'
  <2>1. ~Counts(r) \/ r \in broken'
    BY <1>2 DEF Counts
  <2> QED BY <1>1, <1>2, <1>3, <1>5, <1>7, <2>1, WalkExcuses
<1> QED BY <1>5, <1>8, <1>9, <1>10 DEF FactorsInv

-----------------------------------------------------------------------------
(* Challenges.                                                             *)

\* What a step that changes no row but challenges keeps.
LEMMA ChallengeStep ==
    ASSUME FactorsInv, Observe, NEW r \in Requests, NEW pc, Walks(r, pc),
           UNCHANGED <<factor, code, acr, live, recent, broken>>,
           pc \notin {"store", "session", "drop"}, ~Counts(r),
           challenge' \in [SessionIds -> [kind : {"none", "registration", "authentication"},
                                          keys : SUBSET Passkeys, open : BOOLEAN]],
           ChallengesUsed'
    PROVE  FactorsInv'
<1>1. ProofsKept /\ acr' = acr /\ code' = code /\ factor' = factor /\ broken' = broken
  BY DEF ProofsKept
<1>2. Acts(r) /\ Stays /\ History' /\ Witnessed'
  BY <1>1, WalkKeeps
<1>3. RowsTyped'
  BY DEF RowsTyped, FactorsInv, FactorsTyped, FactorsTypeOK
<1>4. Active' = Active /\ ActiveCodes' = ActiveCodes
  BY <1>1 DEF Active, ActiveCodes
<1>5. FactorsTyped' /\ SessionsEarned' /\ CodesUsed'
  BY <1>1, <1>2, <1>3, TypedKept, SessionsKept, WalkCodes
<1>6. IssuedBeside' /\ RowsKnown'
  BY <1>1, <1>2, <1>4, WalkIssued, WalkRows
<1>7. CodesExcused'
  BY <1>1, <1>2, <1>4, WalkExcuses
<1> QED BY <1>2, <1>5, <1>6, <1>7 DEF FactorsInv

LEMMA ChallengeTyped ==
    ASSUME FactorsInv
    PROVE  challenge \in [SessionIds -> [kind : {"none", "registration", "authentication"},
                                         keys : SUBSET Passkeys, open : BOOLEAN]]
BY DEF FactorsInv, FactorsTyped, FactorsTypeOK

LEMMA InsertChallengeKeeps ==
    ASSUME FactorsInv, Observe, NEW r \in Requests, InsertChallenge(r) PROVE FactorsInv'
<1> DEFINE n == [kind |-> IF req[r].op \in SignIns THEN "authentication" ELSE "registration",
                 keys |-> req[r].seen.keys, open |-> TRUE]
<1>1. /\ req[r].pc = "challenge" /\ Goto(r, "end") /\ challenge' = [challenge EXCEPT ![r] = n]
      /\ UNCHANGED <<factor, code, acr, live, recent, broken>>
  BY DEF InsertChallenge, At
<1>2. Walks(r, "end") /\ ~Counts(r)
  BY <1>1, GotoWalks DEF Steps, Running, Counts
<1>3. n \in [kind : {"none", "registration", "authentication"}, keys : SUBSET Passkeys, open : BOOLEAN]
  BY ReqTyped
<1> HIDE DEF n
<1>4. /\ challenge' \in [SessionIds -> [kind : {"none", "registration", "authentication"},
                                        keys : SUBSET Passkeys, open : BOOLEAN]]
      /\ \A s \in SessionIds \ {r} : challenge'[s] = challenge[s]
  BY <1>1, <1>3, ChallengeTyped DEF SessionIds
<1>5. NoClaim
  BY <1>1, <1>2, WalkClaims
<1>6. challenge[r].kind = "none"
  BY <1>1 DEF FactorsInv, ChallengesUsed
<1>7. ASSUME NEW q \in Requests, Claimed(q)
      PROVE  challenge'[req[q].sub.challenge] = challenge[req[q].sub.challenge]
  <2>1. challenge[req[q].sub.challenge].kind # "none"
    BY <1>7 DEF FactorsInv, ChallengesUsed
  <2>2. req[q].sub.challenge \in SessionIds
    BY <1>7, ReqTyped, SubFacts DEF Claimed
  <2> QED BY <1>4, <1>6, <2>1, <2>2
<1>8. \A q \in Requests : challenge'[q].kind # "none" => req'[q].pc = "end"
  BY <1>2, <1>4 DEF Walks, Moves, FactorsInv, ChallengesUsed, SessionIds
<1>9. \A q \in Requests : Claimed(q)' => /\ ~challenge'[req'[q].sub.challenge].open
                                         /\ challenge'[req'[q].sub.challenge].kind # "none"
  BY <1>5, <1>7 DEF NoClaim, FactorsInv, ChallengesUsed
<1>10. \A p, q \in Requests : p # q /\ Claimed(p)' /\ Claimed(q)' =>
                                 req'[p].sub.challenge # req'[q].sub.challenge
  BY <1>5 DEF NoClaim, FactorsInv, ChallengesUsed
<1>11. ChallengesUsed'
  BY <1>8, <1>9, <1>10 DEF ChallengesUsed
<1> QED BY <1>1, <1>2, <1>4, <1>11, ChallengeStep

\* A challenge is consumed, by the only request that claims it if that is an
\* authentication, and the request goes on or ends.
LEMMA ConsumeKeeps ==
    ASSUME FactorsInv, Observe, NEW r \in Requests, NEW pc, Walks(r, pc),
           UNCHANGED <<factor, code, acr, live, recent, broken>>,
           req[r].pc \in {"assert", "register"},
           pc \in {"end", "unique"} \/ (pc = "touch" /\ req[r].pc = "assert"),
           NEW kind \in {"registration", "authentication"}, Consume(req[r].sub.challenge, kind)
    PROVE  FactorsInv'
<1>1. PICK c \in SessionIds : c = req[r].sub.challenge
  BY ReqTyped, SubFacts DEF Shaped
<1>2. /\ challenge[c].open /\ challenge[c].kind = kind
      /\ challenge' = [challenge EXCEPT ![c].open = FALSE]
  BY <1>1 DEF Consume
<1>3. /\ challenge' \in [SessionIds -> [kind : {"none", "registration", "authentication"},
                                        keys : SUBSET Passkeys, open : BOOLEAN]]
      /\ \A s \in SessionIds : challenge'[s].kind = challenge[s].kind
      /\ \A s \in SessionIds : challenge'[s].open => challenge[s].open
      /\ ~challenge'[c].open
  BY <1>2, ChallengeTyped
<1>4. \A q \in Requests : Claimed(q) => req[q].sub.challenge \in SessionIds /\ req[q].sub.challenge # c
  BY <1>2, ReqTyped, SubFacts DEF Claimed, FactorsInv, ChallengesUsed
<1>5. ASSUME NEW q \in Requests, Claimed(q)'
      PROVE  req'[q].sub = req[q].sub /\ (Claimed(q) \/ (q = r /\ req[q].sub.challenge = c))
  <2>1. CASE q # r
    BY <1>5, <2>1 DEF Walks, Moves, Claimed
  <2>2. CASE q = r
    BY <1>1, <2>2 DEF Walks, Moves
  <2> QED BY <2>1, <2>2
<1>6. \A q \in Requests : challenge'[q].kind # "none" => req'[q].pc = "end"
  <2>1. \A q \in Requests : req[q].pc = "end" => req'[q].pc = "end"
    BY DEF Walks, Moves, Running
  <2> QED BY <1>3, <2>1 DEF FactorsInv, ChallengesUsed, SessionIds
<1>7. \A q \in Requests : Claimed(q)' => /\ ~challenge'[req'[q].sub.challenge].open
                                         /\ challenge'[req'[q].sub.challenge].kind # "none"
  BY <1>2, <1>3, <1>4, <1>5 DEF FactorsInv, ChallengesUsed
<1>8. \A p, q \in Requests : p # q /\ Claimed(p)' /\ Claimed(q)' =>
                                req'[p].sub.challenge # req'[q].sub.challenge
  BY <1>4, <1>5 DEF FactorsInv, ChallengesUsed
<1>9. ChallengesUsed' /\ ~Counts(r)
  BY <1>6, <1>7, <1>8 DEF ChallengesUsed, Counts
<1> QED BY <1>3, <1>9, ChallengeStep

LEMMA CeremonyKeeps ==
    ASSUME FactorsInv, Observe, NEW r \in Requests, CheckAssertion(r) \/ Register(r)
    PROVE  FactorsInv'
<1>1. UNCHANGED <<factor, code, acr, live, recent, broken>> /\ req[r].pc \in {"assert", "register"}
      /\ Running(r) /\ ~Counts(r)
  BY DEF CheckAssertion, Register, At, Running, Counts
<1>2. CASE Goto(r, "end") /\ UNCHANGED challenge
  <2>1. Walks(r, "end")
    BY <1>1, <1>2, GotoWalks DEF Steps
  <2>2. NoClaim /\ acr' = acr /\ Stays
    BY <1>1, <2>1, WalkClaims, WalkKeeps DEF ProofsKept
  <2>3. ChallengesUsed'
    BY <1>2, <2>2, ChallengesStill
  <2> QED BY <1>1, <1>2, <2>1, <2>3, ChallengeTyped, ChallengeStep
<1>3. CASE CheckAssertion(r) /\ ~(Goto(r, "end") /\ UNCHANGED challenge)
  <2>1. PICK pc \in {"touch", "end"} :
           /\ Goto(r, pc) /\ (pc = "touch" => req[r].sub.row \in req[r].seen.keys)
           /\ Consume(req[r].sub.challenge, "authentication") /\ req[r].pc = "assert"
    BY <1>3 DEF CheckAssertion, At
  <2>2. Walks(r, pc)
    BY <1>1, <2>1, GotoWalks DEF Steps, Edge
  <2> QED BY <1>1, <2>1, <2>2, ConsumeKeeps
<1>4. CASE Register(r) /\ ~(Goto(r, "end") /\ UNCHANGED challenge)
  <2>1. PICK pc \in {"unique", "end"} :
           Goto(r, pc) /\ Consume(req[r].sub.challenge, "registration") /\ req[r].pc = "register"
    BY <1>4 DEF Register, At
  <2>2. Walks(r, pc)
    BY <1>1, <2>1, GotoWalks DEF Steps, Edge
  <2> QED BY <1>1, <2>1, <2>2, ConsumeKeeps
<1> QED BY <1>2, <1>3, <1>4

-----------------------------------------------------------------------------
(* Rows of factors.                                                        *)

LEMMA FactorStep ==
    ASSUME FactorsInv, Observe, NEW r \in Requests, NEW pc, Walks(r, pc),
           UNCHANGED <<code, challenge, acr, live, recent, broken>>,
           pc \notin {"store", "touch"}, pc = "session" => req[r].pc = "touch",
           factor' \in [Factors -> FactorStatus], RowsStay, Acts(r) => CodesExcused'
    PROVE  FactorsInv'
<1>1. ProofsKept /\ acr' = acr /\ code' = code /\ challenge' = challenge
  BY DEF ProofsKept
<1>2. Acts(r) /\ Stays /\ History' /\ Witnessed'
  BY <1>1, WalkKeeps
<1>3. RowsTyped'
  BY DEF RowsTyped, FactorsInv, FactorsTyped, FactorsTypeOK
<1>4. ActiveCodes' = ActiveCodes
  BY <1>1 DEF ActiveCodes
<1>5. FactorsTyped' /\ SessionsEarned' /\ CodesUsed'
  BY <1>1, <1>2, <1>3, TypedKept, SessionsKept, WalkCodes
<1>6. ChallengesUsed'
  BY <1>1, <1>2, WalkClaims, ChallengesStill
<1>7. IssuedBeside' /\ RowsKnown'
  BY <1>2, <1>4, WalkIssued, RowsStill DEF Walks
<1> QED BY <1>2, <1>5, <1>6, <1>7 DEF FactorsInv

\* A row that is written is not one that another request is about to insert.
LEMMA WrittenRow ==
    ASSUME FactorsInv, NEW r \in Requests, NEW pc, Walks(r, pc), NEW f \in Factors,
           NEW status \in FactorStatus \ {"none"}, factor' = [factor EXCEPT ![f] = status],
           factor[f] # "none" \/ (f = req[r].sub.row /\ Creates(r) /\ pc = "end")
    PROVE  RowsStay /\ factor' \in [Factors -> FactorStatus]
<1>1. factor \in [Factors -> FactorStatus]
  BY DEF FactorsInv, FactorsTyped, FactorsTypeOK
<1>2. \A g \in Factors : factor[g] # "none" => factor'[g] # "none"
  BY <1>1
<1>3. ASSUME NEW q \in Requests, Creates(q)' PROVE factor'[req[q].sub.row] = "none"
  <2>1. Creates(q) /\ (pc = "end" => q # r)
    BY <1>3 DEF Creates, Running, Walks, Moves
  <2>2. factor[req[q].sub.row] = "none"
    BY <2>1 DEF FactorsInv, RowsKnown
  <2>3. req[q].sub.row \in Factors
    BY <2>1, ReqTyped, SubFacts DEF Creates, Shaped
  <2>4. req[q].sub.row # f
    BY <2>1, <2>2 DEF FactorsInv, RowsKnown
  <2> QED BY <1>1, <2>2, <2>3, <2>4
<1> QED BY <1>1, <1>2, <1>3 DEF RowsStay

LEMMA TouchKeeps ==
    ASSUME FactorsInv, Observe, NEW r \in Requests, Touch(r) PROVE FactorsInv'
<1>1. /\ req[r].pc = "touch" /\ UNCHANGED <<code, challenge, acr, live, recent, broken>>
      /\ Running(r) /\ ~Counts(r)
  BY DEF Touch, At, Running, Counts
<1>2. PICK p \in Passkeys : p = req[r].sub.row /\ p \in shown[r]
  BY <1>1, ReqTyped, SubFacts DEF Shaped, FactorsInv, Witnessed, Witness
<1>3. factor \in [Factors -> FactorStatus] /\ p \in Factors /\ factor[p] # "none"
  BY <1>2 DEF FactorsInv, RowsKnown, FactorsTyped, FactorsTypeOK, Factors
<1>4. PICK pc \in {"session", "end"} :
         Goto(r, pc) /\ (factor' = factor \/ factor' = [factor EXCEPT ![p] = "active"])
  BY <1>2 DEF Touch, UpdateMetadata
<1>5. Walks(r, pc)
  BY <1>1, <1>4, GotoWalks DEF Steps, Edge
<1>6. RowsStay /\ factor' \in [Factors -> FactorStatus]
  <2>1. CASE factor' = [factor EXCEPT ![p] = "active"]
    BY <1>3, <1>5, <2>1, WrittenRow DEF FactorStatus
  <2>2. CASE factor' = factor
    <3>1. \A q \in Requests : Creates(q)' => Creates(q)
      BY <1>5 DEF Walks, Moves, Creates, Running
    <3> QED BY <1>3, <2>2, <3>1 DEF RowsStay, FactorsInv, RowsKnown
  <2> QED BY <1>4, <2>1, <2>2
<1>7. Active \subseteq Active' /\ ActiveCodes' = ActiveCodes
  BY <1>1, <1>3, <1>4 DEF Active, ActiveCodes
<1>8. Acts(r) => CodesExcused'
  BY <1>1, <1>4, <1>5, <1>7, WalkExcuses
<1> QED BY <1>1, <1>4, <1>5, <1>6, <1>8, FactorStep

LEMMA CreateKeeps ==
    ASSUME FactorsInv, Observe, NEW r \in Requests, Enroll(r) \/ InsertPending(r) PROVE FactorsInv'
<1>1. /\ req[r].pc \in {"enrol", "pend"} /\ UNCHANGED <<code, challenge, acr, live, recent, broken>>
      /\ Running(r) /\ ~Counts(r) /\ Goto(r, "end")
  BY DEF Enroll, InsertPending, At, Running, Counts
<1>2. PICK p \in Factors : p = req[r].sub.row /\ Creates(r) /\ factor[p] = "none"
  BY <1>1, ReqTyped, SubFacts DEF Shaped, FactorsInv, RowsKnown, Creates
<1>3. factor \in [Factors -> FactorStatus]
  BY DEF FactorsInv, FactorsTyped, FactorsTypeOK
<1>4. \/ factor' = factor
      \/ \E s \in {"active", "pending"} : factor' = [factor EXCEPT ![p] = s]
  BY <1>2 DEF Enroll, InsertPending, CreateCredential
<1>5. Walks(r, "end")
  BY <1>1, GotoWalks DEF Steps
<1>6. RowsStay /\ factor' \in [Factors -> FactorStatus]
  <2>1. ASSUME NEW s \in {"active", "pending"}, factor' = [factor EXCEPT ![p] = s]
        PROVE  RowsStay /\ factor' \in [Factors -> FactorStatus]
    <3>1. s \in FactorStatus \ {"none"}
      BY DEF FactorStatus
    <3> QED BY <1>2, <1>5, <2>1, <3>1, WrittenRow
  <2>2. CASE factor' = factor
    <3>1. \A q \in Requests : Creates(q)' => Creates(q)
      BY <1>5 DEF Walks, Moves, Creates, Running
    <3> QED BY <1>3, <2>2, <3>1 DEF RowsStay, FactorsInv, RowsKnown
  <2> QED BY <1>4, <2>1, <2>2
<1>7. Active \subseteq Active' /\ ActiveCodes' = ActiveCodes
  BY <1>1, <1>2, <1>3, <1>4 DEF Active, ActiveCodes
<1>8. Acts(r) => CodesExcused'
  BY <1>1, <1>5, <1>7, WalkExcuses
<1> QED BY <1>1, <1>5, <1>6, <1>8, FactorStep

LEMMA ActivateKeeps ==
    ASSUME FactorsInv, Observe, NEW r \in Requests, Activate(r) PROVE FactorsInv'
<1>1. /\ req[r].pc = "activate" /\ UNCHANGED <<code, challenge, acr, live, recent, broken>>
      /\ Running(r) /\ ~Counts(r) /\ Goto(r, "drop")
  BY DEF Activate, At, Running, Counts
<1>2. PICK p \in Factors : p = req[r].sub.row /\ factor[p] # "none"
  BY <1>1, ReqTyped, SubFacts DEF Shaped, FactorsInv, RowsKnown
<1>3. factor \in [Factors -> FactorStatus] /\ factor' = [factor EXCEPT ![p] = "active"]
  BY <1>2 DEF Activate, UpdateMetadata, FactorsInv, FactorsTyped, FactorsTypeOK
<1>4. Walks(r, "drop")
  BY <1>1, GotoWalks DEF Steps, Edge
<1>5. RowsStay /\ factor' \in [Factors -> FactorStatus]
  BY <1>2, <1>3, <1>4, WrittenRow DEF FactorStatus
<1>6. p \in Active' /\ ActiveCodes' = ActiveCodes
  BY <1>1, <1>3 DEF Active, ActiveCodes
<1>7. Acts(r) => CodesExcused'
  BY <1>1, <1>4, <1>6, WalkExcuses
<1> QED BY <1>1, <1>4, <1>5, <1>7, FactorStep

\* A revocation may take the last factor: it goes on to count what is left, and
\* who relies on that factor runs beside it.
LEMMA RevokeKeeps ==
    ASSUME FactorsInv, Observe, NEW r \in Requests, Revoke(r) PROVE FactorsInv'
<1>1. /\ req[r].pc = "revoke" /\ UNCHANGED <<code, challenge, acr, live, recent, broken>>
      /\ Running(r) /\ Goto(r, "totp") /\ req[r].op = "revoke"
  BY ReqTyped DEF Revoke, At, Running, Shaped
<1>2. PICK p \in Factors : p = req[r].sub.row /\ factor[p] # "none"
  BY <1>1, ReqTyped, SubFacts DEF Shaped, FactorsInv, RowsKnown
<1>3. factor \in [Factors -> FactorStatus] /\ factor' = [factor EXCEPT ![p] = "revoked"]
  BY <1>2 DEF Revoke, RevokeCredential, FactorsInv, FactorsTyped, FactorsTypeOK
<1>4. Walks(r, "totp")
  BY <1>1, GotoWalks DEF Steps, Edge
<1>5. RowsStay /\ factor' \in [Factors -> FactorStatus]
  BY <1>2, <1>3, <1>4, WrittenRow DEF FactorStatus
<1>6. req'[r].op = "revoke" /\ req'[r].pc = "totp"
  BY <1>1, <1>4 DEF Walks, Moves
<1>7. ASSUME NEW q \in Requests, Relies(q)' PROVE Excused'
  <2>1. q # r /\ Running(q)' /\ Running(r)'
    BY <1>6, <1>7 DEF Relies, Running
  <2>2. q \in met'[r]
    BY <2>1, Observed
  <2>3. req'[q] = req[q] /\ Shaped(req[q])
    BY <1>4, <2>1, ReqTyped DEF Walks, Moves
  <2>4. req'[q].op \in Issuing
    BY <1>7, <2>3 DEF Relies, Shaped, Issuing
  <2> QED BY <1>6, <2>2, <2>4 DEF Excused
<1>8. Counts(r)'
  BY <1>6 DEF Counts
<1>9. CodesExcused'
  BY <1>7, <1>8 DEF CodesExcused
<1> QED BY <1>1, <1>4, <1>5, <1>9, FactorStep

-----------------------------------------------------------------------------
(* Recovery codes.                                                         *)

LEMMA CodeStep ==
    ASSUME FactorsInv, Observe, NEW r \in Requests, NEW pc, Walks(r, pc),
           UNCHANGED <<factor, challenge, acr, live, recent, broken>>, pc # "touch",
           code' \in [Codes -> CodeStatus], CodesUsed', IssuedBeside', Acts(r) => CodesExcused'
    PROVE  FactorsInv'
<1>1. ProofsKept /\ acr' = acr /\ factor' = factor /\ challenge' = challenge
  BY DEF ProofsKept
<1>2. Acts(r) /\ Stays /\ History' /\ Witnessed'
  BY <1>1, WalkKeeps
<1>3. RowsTyped'
  BY DEF RowsTyped, FactorsInv, FactorsTyped, FactorsTypeOK
<1>4. FactorsTyped' /\ SessionsEarned'
  BY <1>1, <1>2, <1>3, TypedKept, SessionsKept
<1>5. ChallengesUsed' /\ RowsKnown'
  BY <1>1, <1>2, WalkClaims, ChallengesStill, WalkRows
<1> QED BY <1>2, <1>4, <1>5 DEF FactorsInv

LEMMA DropKeeps ==
    ASSUME FactorsInv, Observe, NEW r \in Requests, DropCodes(r) PROVE FactorsInv'
<1>1. /\ req[r].pc = "drop" /\ UNCHANGED <<factor, challenge, acr, live, recent, broken>>
      /\ Running(r) /\ RevokeActiveCodes
  BY DEF DropCodes, At, Running
<1>2. PICK pc \in {"end", "store"} : Goto(r, pc) /\ (pc = "store" <=> req[r].op # "revoke")
  BY DEF DropCodes
<1>3. Walks(r, pc)
  BY <1>1, <1>2, GotoWalks DEF Steps, Edge
<1>4. code \in [Codes -> CodeStatus]
  BY DEF FactorsInv, FactorsTyped, FactorsTypeOK
<1>5. /\ code' \in [Codes -> CodeStatus] /\ ActiveCodes' = {}
      /\ \A c \in Codes : code[c] \in {"none", "consumed"} => code'[c] = code[c]
  BY <1>1, <1>4 DEF RevokeActiveCodes, CodeStatus, ActiveCodes
<1>6. \A q \in Requests : Spent(q)' => Spent(q) /\ req'[q].sub = req[q].sub
  BY <1>1, <1>2, <1>3 DEF Spent, Walks, Moves
<1>7. CodesUsed'
  <2>1. \A q \in Requests, n \in 1..CodeCount : <<q, n>> \in Codes
    BY DEF Codes
  <2>2. \A q \in Requests, n \in 1..CodeCount : req'[q].next <= n => code'[<<q, n>>] = "none"
    BY <1>3, <1>5, <2>1 DEF Walks, Moves, FactorsInv, CodesUsed
  <2>3. ASSUME NEW q \in Requests, Spent(q)' PROVE code'[req'[q].sub.code] = "consumed"
    <3>1. req[q].sub.code \in Codes /\ code[req[q].sub.code] = "consumed"
      BY <1>6, <2>3, ReqTyped, SubFacts DEF Spent, FactorsInv, CodesUsed
    <3> QED BY <1>5, <1>6, <2>3, <3>1
  <2>4. \A p, q \in Requests : p # q /\ Spent(p)' /\ Spent(q)' => req'[p].sub.code # req'[q].sub.code
    BY <1>6 DEF FactorsInv, CodesUsed
  <2> QED BY <2>2, <2>3, <2>4 DEF CodesUsed
<1>8. IssuedBeside'
  BY <1>5 DEF IssuedBeside, OneCodeSet
<1>9. ASSUME Acts(r) PROVE CodesExcused'
  <2>1. \A q \in Requests : Relies(q)' => Relies(q)
    BY <1>1, <1>2, <1>3 DEF Walks, Moves, Relies
  <2>2. Excused => Excused'
    BY <1>1, <1>9, ExcusedStays
  <2>3. \A q \in Requests : Relies(q) => Active # {} \/ Excused
    BY DEF FactorsInv, CodesExcused, Relies
  <2>4. Active' = Active
    BY <1>1 DEF Active
  <2>5. \A q \in Requests : Relies(q)' => Active' # {} \/ Excused'
    BY <2>1, <2>2, <2>3, <2>4
  <2> QED BY <1>5, <2>5 DEF CodesExcused, Relies
<1> QED BY <1>1, <1>2, <1>3, <1>5, <1>7, <1>8, <1>9, CodeStep

LEMMA SpendKeeps ==
    ASSUME FactorsInv, Observe, NEW r \in Requests, SpendCode(r) PROVE FactorsInv'
<1>1. /\ req[r].pc = "spend" /\ UNCHANGED <<factor, challenge, acr, live, recent, broken>>
      /\ Running(r) /\ ~Counts(r)
  BY DEF SpendCode, At, Running, Counts
<1>2. code \in [Codes -> CodeStatus] /\ Active' = Active
  BY <1>1 DEF FactorsInv, FactorsTyped, FactorsTypeOK, Active
<1>3. PICK c \in Codes : c = req[r].sub.code
  BY <1>1, ReqTyped, SubFacts DEF Shaped
<1>4. CASE Goto(r, "end") /\ code' = code
  <2>1. Walks(r, "end")
    BY <1>1, <1>4, GotoWalks DEF Steps
  <2>2. ActiveCodes' = ActiveCodes
    BY <1>4 DEF ActiveCodes
  <2>3. CodesUsed' /\ IssuedBeside' /\ (Acts(r) => CodesExcused')
    BY <1>1, <1>2, <1>4, <2>1, <2>2, WalkCodes, WalkIssued, WalkExcuses
  <2> QED BY <1>1, <1>2, <1>4, <2>1, <2>3, CodeStep
<1>5. CASE Goto(r, "session") /\ code[c] = "active" /\ code' = [code EXCEPT ![c] = "consumed"]
  <2>1. Walks(r, "session")
    BY <1>1, <1>5, GotoWalks DEF Steps, Edge
  <2>2. code' \in [Codes -> CodeStatus] /\ ActiveCodes' \subseteq ActiveCodes
    BY <1>2, <1>5 DEF CodeStatus, ActiveCodes
  <2>3. \A d \in Codes \ {c} : code'[d] = code[d]
    BY <1>2, <1>5
  <2>4. code'[c] = "consumed"
    BY <1>2, <1>5
  <2>5. \A q \in Requests \ {r} : /\ Spent(q)' <=> Spent(q)
                                  /\ req'[q].sub = req[q].sub /\ req'[q].next = req[q].next
    BY <1>1, <2>1 DEF Walks, Moves, Spent
  <2>6. \A q \in Requests : Spent(q) => req[q].sub.code \in Codes \ {c}
    BY <1>5, ReqTyped, SubFacts DEF Spent, FactorsInv, CodesUsed
  <2>7. \A q \in Requests, n \in 1..CodeCount : req'[q].next <= n => code'[<<q, n>>] = "none"
    <3> SUFFICES ASSUME NEW q \in Requests, NEW n \in 1..CodeCount, req'[q].next <= n
                 PROVE  code'[<<q, n>>] = "none"
      OBVIOUS
    <3>1. code[<<q, n>>] = "none" /\ <<q, n>> \in Codes
      BY <2>1 DEF Walks, Moves, FactorsInv, CodesUsed, Codes
    <3> QED BY <1>5, <2>3, <3>1
  <2>8. req'[r].sub.code = c
    BY <1>3, <2>1 DEF Walks, Moves
  <2>9. \A q \in Requests : Spent(q)' => code'[req'[q].sub.code] = "consumed"
    BY <2>3, <2>4, <2>5, <2>6, <2>8 DEF FactorsInv, CodesUsed
  <2>10. \A p, q \in Requests : p # q /\ Spent(p)' /\ Spent(q)' => req'[p].sub.code # req'[q].sub.code
    BY <2>5, <2>6, <2>8 DEF FactorsInv, CodesUsed
  <2>11. CodesUsed'
    BY <2>7, <2>9, <2>10 DEF CodesUsed
  <2>12. IssuedBeside' /\ (Acts(r) => CodesExcused')
    BY <1>1, <1>2, <2>1, <2>2, WalkIssued, WalkExcuses
  <2> QED BY <1>1, <2>1, <2>2, <2>11, <2>12, CodeStep
<1> QED BY <1>3, <1>4, <1>5 DEF SpendCode, ConsumeRecoveryCode

-----------------------------------------------------------------------------
(* Sessions.                                                               *)

LEMMA SessionKeeps ==
    ASSUME FactorsInv, Observe, NEW r \in Requests, OpenSession(r) \/ RotateSession(r)
    PROVE  FactorsInv'
<1>1. /\ req[r].pc = "session" /\ Goto(r, "end") /\ UNCHANGED <<factor, code, challenge, broken>>
      /\ Running(r) /\ ~Counts(r)
  BY DEF OpenSession, RotateSession, At, Running, Counts
<1>2. Walks(r, "end")
  BY <1>1, GotoWalks DEF Steps
<1>3. /\ acr \in [SessionIds -> Acrs] /\ r \in SessionIds /\ acr[r] = "none"
      /\ live \subseteq {s \in SessionIds : acr[s] # "none"}
      /\ recent \subseteq {s \in SessionIds : acr[s] # "none"}
  BY <1>1 DEF FactorsInv, FactorsTyped, FactorsTypeOK, SessionsEarned, SessionIds
<1>4. /\ req[r].method \in Acrs \ {"none"} /\ req[r].op \in SignIns
      /\ req[r].method = "password" \/ Proven(req[r])
      /\ req[r].method \in {"totp", "webauthn"} => req[r].sub.row \in shown[r]
  BY <1>1, ReqTyped DEF Shaped, Proven, FactorsInv, Witnessed, Witness
<1>5. \/ acr' = acr /\ live' = live /\ recent' = recent
      \/ /\ acr' = [acr EXCEPT ![r] = req[r].method] /\ recent' = recent \cup {r}
         /\ live' \subseteq live \cup {r}
  BY DEF OpenSession, RotateSession, NewSession
<1>6. /\ acr' \in [SessionIds -> Acrs] /\ acr'[r] \in {"none", req[r].method}
      /\ \A s \in SessionIds \ {r} : acr'[s] = acr[s]
      /\ live' \subseteq {s \in SessionIds : acr'[s] # "none"}
      /\ recent' \subseteq {s \in SessionIds : acr'[s] # "none"}
  BY <1>3, <1>4, <1>5
<1>7. ProofsKept
  BY <1>3, <1>6 DEF ProofsKept
<1>8. Acts(r) /\ Stays /\ History' /\ Witnessed'
  BY <1>2, <1>7, WalkKeeps
<1>9. RowsTyped'
  BY <1>1, <1>6 DEF RowsTyped, FactorsInv, FactorsTyped, FactorsTypeOK
<1>10. FactorsTyped'
  BY <1>8, <1>9, TypedKept
<1>11. SessionsEarned'
  <2> SUFFICES ASSUME NEW q \in Requests, acr'[q] # "none"
               PROVE  /\ req'[q].pc = "end" /\ req'[q].op \in SignIns /\ acr'[q] = req'[q].method
                      /\ req'[q].method = "password" \/ Proven(req'[q])
                      /\ req'[q].method \in {"totp", "webauthn"} => req'[q].sub.row \in shown'[q]
    BY DEF SessionsEarned
  <2>1. CASE q = r
    <3>1. shown[r] \subseteq shown'[r]
      BY <1>1, Observed
    <3> QED BY <1>2, <1>4, <1>6, <2>1, <3>1 DEF Walks, Moves, Proven
  <2>2. CASE q # r
    <3>1. acr[q] = acr'[q]
      BY <1>6, <2>2 DEF SessionIds
    <3>2. req'[q] = req[q] /\ req[q].pc = "end"
      BY <1>8, <2>2, <3>1 DEF Acts, FactorsInv, SessionsEarned
    <3>3. shown'[q] = shown[q]
      BY <3>2, Observed
    <3> QED BY <3>1, <3>2, <3>3 DEF FactorsInv, SessionsEarned
  <2> QED BY <2>1, <2>2
<1>12. NoSpend /\ NoClaim
  <2>1. ASSUME NEW q \in Requests
        PROVE  /\ Spent(q)' => Spent(q) /\ req'[q].sub = req[q].sub
               /\ Claimed(q)' => Claimed(q) /\ req'[q].sub = req[q].sub
    <3>1. CASE q = r
      BY <1>1, <1>2, <3>1 DEF Walks, Moves, Spent, Claimed
    <3>2. CASE q # r
      <4>1. acr[q] = acr'[q]
        BY <1>6, <3>2 DEF SessionIds
      <4> QED BY <1>2, <3>2, <4>1 DEF Walks, Moves, Spent, Claimed
    <3> QED BY <3>1, <3>2
  <2> QED BY <2>1 DEF NoSpend, NoClaim
<1>13. \A q \in Requests : req'[q].next = req[q].next
  BY <1>2 DEF Walks, Moves
<1>14. CodesUsed' /\ ChallengesUsed'
  BY <1>1, <1>8, <1>12, <1>13, CodesStill, ChallengesStill
<1>15. Active' = Active /\ ActiveCodes' = ActiveCodes
  BY <1>1 DEF Active, ActiveCodes
<1>16. IssuedBeside' /\ RowsKnown' /\ CodesExcused'
  BY <1>1, <1>2, <1>8, <1>15, WalkIssued, WalkRows, WalkExcuses
<1> QED BY <1>8, <1>10, <1>11, <1>14, <1>16 DEF FactorsInv

-----------------------------------------------------------------------------
(* Reading the factors.                                                    *)

LEMMA ReadStep ==
    ASSUME FactorsInv, Observe, NEW r \in Requests, Acts(r), Running(r),
           UNCHANGED <<factorRows, broken>>, Witness(r)',
           req'[r].next = req[r].next, req'[r].pc \notin {"store", "touch"},
           ~Spent(r)', ~Claimed(r)',
           Relies(r)' => Relies(r) \/ Active # {},
           Counts(r) => Counts(r)' \/ Relies(r) \/ Active # {}
    PROVE  FactorsInv'
<1>1. /\ factor' = factor /\ code' = code /\ challenge' = challenge /\ acr' = acr /\ broken' = broken
      /\ ProofsKept /\ RowsTyped'
  BY DEF factorRows, ProofsKept, RowsTyped, FactorsInv, FactorsTyped, FactorsTypeOK
<1>2. Stays /\ \A q \in Requests \ {r} : req'[q] = req[q]
  BY ActsStay DEF Acts
<1>3. History' /\ Witnessed'
  BY <1>1, <1>2, HistoryKept, WitnessStill DEF Witnessed
<1>4. FactorsTyped' /\ SessionsEarned'
  BY <1>1, <1>2, TypedKept, SessionsKept
<1>5. NoSpend /\ NoClaim /\ \A q \in Requests : req'[q].next = req[q].next
  BY <1>1, <1>2 DEF NoSpend, NoClaim, Spent, Claimed
<1>6. CodesUsed' /\ ChallengesUsed'
  BY <1>1, <1>2, <1>5, CodesStill, ChallengesStill
<1>7. Active' = Active /\ ActiveCodes' = ActiveCodes
  BY <1>1 DEF Active, ActiveCodes
<1>8. IssuedBeside'
  <2>1. NoIssue
    BY <1>2, <1>7 DEF NoIssue
  <2> QED BY <2>1, IssuedStill
<1>9. RowsKnown'
  <2>1. \A q \in Requests : Creates(q)' => Creates(q)
    BY <1>2 DEF Acts, Creates, Running
  <2>2. RowsStay
    BY <1>1, <2>1 DEF RowsStay, FactorsInv, RowsKnown
  <2> QED BY <2>2, RowsStill
<1>10. CodesExcused'
  <2>1. Relies(r) => Active # {} \/ Excused
    BY DEF FactorsInv, CodesExcused, Relies
  <2>2. Excused => Excused'
    BY <1>1, ExcusedStays
  <2>3. \A q \in Requests \ {r} : (Relies(q)' <=> Relies(q)) /\ (Counts(q)' <=> Counts(q))
    BY <1>2 DEF Relies, Counts
  <2>4. NoLoss
    BY <1>7, <2>1, <2>2, <2>3 DEF NoLoss
  <2> QED BY <1>1, <2>4, ExcusesStill
<1> QED BY <1>3, <1>4, <1>6, <1>8, <1>9, <1>10 DEF FactorsInv

LEMMA ReadTotpsKeeps ==
    ASSUME FactorsInv, Observe, NEW r \in Requests, ReadTotps(r) PROVE FactorsInv'
<1> DEFINE q == req[r]
           pc == IF q.op \in SignIns THEN "codes" ELSE "keys"
           n == [q EXCEPT !.seen = [@ EXCEPT !.totp = Active \cap Totps], !.pc = pc]
<1>1. /\ q.pc = "totp" /\ UNCHANGED <<factorRows, broken>> /\ Running(r)
      /\ q \in Request /\ Shaped(q) /\ Witness(r) /\ req \in [Requests -> Request]
  BY ReqTyped DEF ReadTotps, At, Running, FactorsInv, FactorsTyped, Witnessed
<1>2. req' = [req EXCEPT ![r] = n]
  BY <1>1 DEF ReadTotps
<1>3. pc \in Steps /\ Active \cap Totps \in SUBSET Totps /\ q.seen \in Reads
  BY <1>1 DEF Steps, Request
<1>4. n \in Request
  BY <1>1, <1>3 DEF Request, Reads
<1>5. /\ n.pc = pc /\ n.seen.totp = Active \cap Totps /\ n.seen.keys = q.seen.keys /\ n.op = q.op
      /\ n.sub = q.sub /\ n.by = q.by /\ n.method = q.method /\ n.next = q.next
  BY <1>1, <1>3 DEF Request, Reads
<1> HIDE DEF n
<1>6. Shaped(n)
  BY <1>1, <1>5 DEF Shaped
<1>7. Acts(r) /\ req'[r] = n
  BY <1>1, <1>2, <1>4, <1>5, <1>6 DEF Acts
<1>8. Active' = Active
  BY <1>1 DEF factorRows, Active
<1>9. Witness(r)'
  <2>1. steady'[r] = steady[r] \cap Active /\ shown'[r] = shown[r] \cup Active
    BY <1>1, <1>8, Observed
  <2>2. n.seen.totp \cup n.seen.keys \subseteq shown'[r]
    BY <1>1, <1>5, <2>1 DEF Witness
  <2>3. steady'[r] \cap Totps \subseteq n.seen.totp
    BY <1>5, <2>1
  <2>4. n.method = "password" => steady'[r] = {}
    BY <1>1, <1>5, <2>1 DEF Witness
  <2> QED BY <1>5, <1>7, <2>2, <2>3, <2>4 DEF Witness, Enrolling
<1>10. acr'[r] = "none"
  BY <1>1 DEF factorRows, FactorsInv, SessionsEarned
<1>11. ~Spent(r)' /\ ~Claimed(r)'
  BY <1>5, <1>7, <1>10 DEF Spent, Claimed
<1>12. Relies(r)' => Active # {}
  BY <1>5, <1>7 DEF Relies
<1>13. Counts(r) => Counts(r)' \/ Active # {}
  BY <1>5, <1>7 DEF Counts, SignIns
<1> QED BY <1>1, <1>5, <1>7, <1>9, <1>11, <1>12, <1>13, ReadStep

LEMMA ReadCodesKeeps ==
    ASSUME FactorsInv, Observe, NEW r \in Requests, ReadCodes(r) PROVE FactorsInv'
<1> DEFINE q == req[r]
           n == [q EXCEPT !.seen = [@ EXCEPT !.codes = ActiveCodes], !.pc = "keys"]
<1>1. /\ q.pc = "codes" /\ UNCHANGED <<factorRows, broken>> /\ Running(r)
      /\ q \in Request /\ Shaped(q) /\ Witness(r) /\ req \in [Requests -> Request]
  BY ReqTyped DEF ReadCodes, At, Running, FactorsInv, FactorsTyped, Witnessed
<1>2. req' = [req EXCEPT ![r] = n]
  BY <1>1 DEF ReadCodes
<1>3. "keys" \in Steps /\ ActiveCodes \in SUBSET Codes /\ q.seen \in Reads
  BY <1>1 DEF Steps, Request, ActiveCodes
<1>4. n \in Request
  BY <1>1, <1>3 DEF Request, Reads
<1>5. /\ n.pc = "keys" /\ n.seen.totp = q.seen.totp /\ n.seen.keys = q.seen.keys /\ n.op = q.op
      /\ n.sub = q.sub /\ n.by = q.by /\ n.method = q.method /\ n.next = q.next
  BY <1>1, <1>3 DEF Request, Reads
<1> HIDE DEF n
<1>6. Shaped(n)
  BY <1>1, <1>5 DEF Shaped
<1>7. Acts(r) /\ req'[r] = n
  BY <1>1, <1>2, <1>4, <1>5, <1>6 DEF Acts
<1>8. Active' = Active
  BY <1>1 DEF factorRows, Active
<1>9. Witness(r)'
  <2>1. steady'[r] \subseteq steady[r] /\ shown[r] \subseteq shown'[r]
    BY <1>1, Observed
  <2> QED BY <1>1, <1>5, <1>7, <2>1 DEF Witness, Enrolling
<1>10. acr'[r] = "none"
  BY <1>1 DEF factorRows, FactorsInv, SessionsEarned
<1>11. ~Spent(r)' /\ ~Claimed(r)'
  BY <1>5, <1>7, <1>10 DEF Spent, Claimed
<1>12. ~Relies(r)'
  BY <1>1, <1>5, <1>7 DEF Relies, Shaped, SignIns
<1>13. ~Counts(r)
  BY <1>1 DEF Counts
<1> QED BY <1>1, <1>5, <1>7, <1>9, <1>11, <1>12, <1>13, ReadStep

\* Where a request goes once it has read everything, and what that rests on.
MethodOf(q, keys) ==
    IF ~RequiresMfa(q.seen.totp, keys) THEN "password"
    ELSE CASE q.sub.is = "totp" -> "totp"
           [] q.sub.is = "code" -> "recovery_code"
           [] OTHER -> "webauthn"
StepAfter(q, keys) ==
    IF q.op \in SignIns THEN AfterReading(q.sub, q.seen.totp, q.seen.codes, keys)
    ELSE AfterCounting(q.op, q.by, q.fresh, q.seen.totp \cup keys)
Decided(q, keys, method, pc) ==
    /\ method \in Acrs \ {"none"}
    /\ method = "password" <=> q.seen.totp = {} /\ keys = {}
    /\ pc = "end" \/ \/ /\ q.op \in SignIns
                        /\ \/ pc = "session" /\ method = "password"
                           \/ /\ pc = "session" /\ method = "totp" /\ q.sub.is = "totp"
                              /\ q.sub.row \in q.seen.totp
                           \/ pc = "assert" /\ method = "webauthn" /\ q.sub.is = "assertion"
                           \/ pc = "spend" /\ method = "recovery_code" /\ q.sub.is = "code"
                           \/ pc = "challenge"
                     \/ /\ \/ pc = "pend" /\ q.op = "start_totp"
                           \/ pc = "check" /\ q.op = "confirm_totp"
                           \/ pc = "exclude" /\ q.op = "start_webauthn"
                           \/ pc = "register" /\ q.op = "finish_webauthn"
                        /\ HasMfaProof(q.by) \/ (q.seen.totp = {} /\ keys = {})
                     \/ pc = "drop" /\ q.op = "regenerate" /\ q.seen.totp \cup keys # {}
                     \/ pc = "drop" /\ q.op = "revoke"
    /\ q.op = "revoke" /\ pc = "end" => q.seen.totp \cup keys # {}

LEMMA AfterKeys ==
    ASSUME FactorsInv, NEW r \in Requests, req[r].pc = "keys", NEW keys
    PROVE  Decided(req[r], keys, MethodOf(req[r], keys), StepAfter(req[r], keys))
<1> DEFINE method == MethodOf(req[r], keys)
           pc == StepAfter(req[r], keys)
<1>a. method = IF ~RequiresMfa(req[r].seen.totp, keys) THEN "password"
               ELSE CASE req[r].sub.is = "totp" -> "totp"
                      [] req[r].sub.is = "code" -> "recovery_code"
                      [] OTHER -> "webauthn"
  BY DEF MethodOf
<1>b. pc = IF req[r].op \in SignIns
           THEN AfterReading(req[r].sub, req[r].seen.totp, req[r].seen.codes, keys)
           ELSE AfterCounting(req[r].op, req[r].by, req[r].fresh, req[r].seen.totp \cup keys)
  BY DEF StepAfter
<1> SUFFICES Decided(req[r], keys, method, pc)
  OBVIOUS
<1> HIDE DEF method, pc
<1>1. /\ req[r].sub \in Submitted /\ req[r].op \in OpNames
  BY ReqTyped DEF Shaped
<1>2. req[r].sub.is \in {"nothing", "wrong", "totp", "code", "assertion"}
  BY <1>1, SubFacts
<1>3. RequiresMfa(req[r].seen.totp, keys) <=> req[r].seen.totp # {} \/ keys # {}
  BY DEF RequiresMfa
<1>4. method \in Acrs \ {"none"} /\ (method = "password" <=> req[r].seen.totp = {} /\ keys = {})
  BY <1>2, <1>3, <1>a DEF Acrs
<1>5. CASE req[r].op \in SignIns
  <2>1. pc = AfterReading(req[r].sub, req[r].seen.totp, req[r].seen.codes, keys) /\ req[r].op # "revoke"
    BY <1>5, <1>b DEF SignIns
  <2>2. CASE ~RequiresMfa(req[r].seen.totp, keys)
    BY <1>3, <1>4, <1>5, <2>1, <2>2 DEF AfterReading, Decided
  <2>3. CASE RequiresMfa(req[r].seen.totp, keys)
    BY <1>2, <1>4, <1>5, <1>a, <2>1, <2>3 DEF AfterReading, Decided
  <2> QED BY <2>2, <2>3
<1>6. CASE req[r].op \notin SignIns
  <2>1. pc = AfterCounting(req[r].op, req[r].by, req[r].fresh, req[r].seen.totp \cup keys)
    BY <1>6, <1>b
  <2>2. req[r].op \in {"start_totp", "confirm_totp", "start_webauthn", "finish_webauthn", "revoke",
                       "regenerate"}
    BY <1>1, <1>6 DEF OpNames
  <2>3. MayEnroll(req[r].by, req[r].fresh, req[r].seen.totp \cup keys) =>
           HasMfaProof(req[r].by) \/ (req[r].seen.totp = {} /\ keys = {})
    BY DEF MayEnroll, RecentMfaProof
  <2> QED BY <1>4, <2>1, <2>2, <2>3 DEF AfterCounting, Enrolment, Decided, SignIns
<1> QED BY <1>5, <1>6

LEMMA ReadPasskeysKeeps ==
    ASSUME FactorsInv, Observe, NEW r \in Requests, ReadPasskeys(r) PROVE FactorsInv'
<1> DEFINE q == req[r]
           keys == Active \cap Passkeys
           method == MethodOf(q, keys)
           pc == StepAfter(q, keys)
           m == [q EXCEPT !.seen = [@ EXCEPT !.keys = keys], !.method = method, !.pc = pc]
           n == Forget(m)
<1>1. /\ q.pc = "keys" /\ UNCHANGED <<factorRows, broken>> /\ Running(r)
      /\ q \in Request /\ Shaped(q) /\ Witness(r) /\ req \in [Requests -> Request]
      /\ q.seen \in Reads /\ q.seen.totp \in SUBSET Totps /\ q.op \in OpNames
  BY ReqTyped DEF ReadPasskeys, At, Running, FactorsInv, FactorsTyped, Witnessed, Shaped
<1>2. req' = [req EXCEPT ![r] = n]
  BY <1>1 DEF ReadPasskeys, MethodOf, StepAfter
<1>d. Decided(q, keys, method, pc)
  BY <1>1, AfterKeys
<1> HIDE DEF keys, method, pc
<1>3. /\ method \in Acrs \ {"none"}
      /\ method = "password" <=> q.seen.totp = {} /\ keys = {}
      /\ pc = "end" \/ \/ /\ q.op \in SignIns
                          /\ \/ pc = "session" /\ method = "password"
                             \/ /\ pc = "session" /\ method = "totp" /\ q.sub.is = "totp"
                                /\ q.sub.row \in q.seen.totp
                             \/ pc = "assert" /\ method = "webauthn" /\ q.sub.is = "assertion"
                             \/ pc = "spend" /\ method = "recovery_code" /\ q.sub.is = "code"
                             \/ pc = "challenge"
                       \/ /\ \/ pc = "pend" /\ q.op = "start_totp"
                             \/ pc = "check" /\ q.op = "confirm_totp"
                             \/ pc = "exclude" /\ q.op = "start_webauthn"
                             \/ pc = "register" /\ q.op = "finish_webauthn"
                          /\ HasMfaProof(q.by) \/ (q.seen.totp = {} /\ keys = {})
                       \/ pc = "drop" /\ q.op = "regenerate" /\ q.seen.totp \cup keys # {}
                       \/ pc = "drop" /\ q.op = "revoke"
      /\ q.op = "revoke" /\ pc = "end" => q.seen.totp \cup keys # {}
  BY <1>d DEF Decided
<1>4. keys \in SUBSET Passkeys /\ keys \subseteq Active /\ NoReads \in Reads
  BY DEF NoReads, Reads, keys
<1>5. pc \in Steps \ {"idle", "codes", "keys", "touch", "store"}
  BY <1>3 DEF Steps
<1>6. m \in Request
  BY <1>1, <1>3, <1>4, <1>5 DEF Request, Reads
<1>7. /\ m.pc = pc /\ m.seen.totp = q.seen.totp /\ m.seen.keys = keys /\ m.op = q.op
      /\ m.sub = q.sub /\ m.by = q.by /\ m.method = method /\ m.next = q.next
  BY <1>1 DEF Request, Reads
<1> HIDE DEF m
<1>8. n \in Request
  BY <1>4, <1>6 DEF Forget, Request
<1>9. /\ n.pc = pc /\ n.op = q.op /\ n.sub = q.sub /\ n.by = q.by /\ n.method = method
      /\ n.next = q.next /\ n.seen.totp \subseteq q.seen.totp /\ n.seen.keys \subseteq keys
  BY <1>6, <1>7 DEF Forget, Request, NoReads
<1> HIDE DEF n
<1>10. Shaped(n)
  BY <1>1, <1>3, <1>5, <1>9 DEF Shaped, Proven
<1>11. Acts(r) /\ req'[r] = n
  BY <1>1, <1>2, <1>5, <1>8, <1>9, <1>10 DEF Acts
<1>12. Active' = Active /\ acr' = acr
  BY <1>1 DEF factorRows, Active
<1>13. Witness(r)'
  <2>1. /\ steady'[r] = steady[r] \cap Active /\ shown'[r] = shown[r] \cup Active
        /\ steady[r] \subseteq Factors
    BY <1>1, <1>12, Observed DEF FactorsInv, FactorsTyped, FactorsTypeOK
  <2>2. n.seen.totp \cup n.seen.keys \subseteq shown'[r] /\ q.seen.totp \subseteq shown'[r]
    BY <1>1, <1>4, <1>9, <2>1 DEF Witness
  <2>3. q.seen.totp = {} /\ keys = {} => steady'[r] = {}
    BY <1>1, <2>1 DEF Witness, keys, Factors
  <2>4. HasMfaProof(q.by) => HasMfaProof(req[r].by)'
    BY <1>9, <1>11, <1>12 DEF HasMfaProof
  <2>5. pc \in Enrolling => HasMfaProof(req[r].by)' \/ steady'[r] = {}
    BY <1>3, <2>3, <2>4 DEF Enrolling
  <2>6. pc = "session" /\ method \in {"totp", "webauthn"} => q.sub.row \in shown'[r]
    BY <1>3, <2>2
  <2> QED BY <1>3, <1>5, <1>9, <1>11, <2>2, <2>3, <2>5, <2>6 DEF Witness
<1>14. acr'[r] = "none"
  BY <1>1, <1>12 DEF FactorsInv, SessionsEarned
<1>15. ~Spent(r)' /\ ~Claimed(r)'
  BY <1>3, <1>5, <1>9, <1>11, <1>14 DEF Spent, Claimed
<1>16. q.op = "regenerate" /\ q.seen.totp \cup keys # {} => Relies(r) \/ Active # {}
  BY <1>1, <1>4 DEF Relies
<1>17. Relies(r)' => q.op = "regenerate" /\ q.seen.totp \cup keys # {}
  BY <1>3, <1>5, <1>9, <1>11 DEF Relies
<1>18. Counts(r) => Counts(r)' \/ Active # {}
  BY <1>1, <1>3, <1>4, <1>9, <1>11 DEF Counts, SignIns
<1> QED BY <1>1, <1>5, <1>9, <1>11, <1>13, <1>15, <1>16, <1>17, <1>18, ReadStep

\* The list of passkeys to exclude is read when the count is done.
LEMMA ReadExcludedKeeps ==
    ASSUME FactorsInv, Observe, NEW r \in Requests, ReadExcluded(r) PROVE FactorsInv'
<1> DEFINE q == req[r]
           n == [q EXCEPT !.seen = [@ EXCEPT !.keys = Active \cap Passkeys], !.pc = "challenge"]
<1>1. /\ q.pc = "exclude" /\ UNCHANGED <<factorRows, broken>> /\ Running(r)
      /\ q \in Request /\ Shaped(q) /\ Witness(r) /\ req \in [Requests -> Request]
  BY ReqTyped DEF ReadExcluded, At, Running, FactorsInv, FactorsTyped, Witnessed
<1>2. req' = [req EXCEPT ![r] = n]
  BY <1>1 DEF ReadExcluded
<1>3. "challenge" \in Steps /\ Active \cap Passkeys \in SUBSET Passkeys /\ q.seen \in Reads
  BY <1>1 DEF Steps, Request
<1>4. n \in Request
  BY <1>1, <1>3 DEF Request, Reads
<1>5. /\ n.pc = "challenge" /\ n.seen.totp = q.seen.totp /\ n.seen.keys = Active \cap Passkeys
      /\ n.op = q.op /\ n.sub = q.sub /\ n.by = q.by /\ n.method = q.method /\ n.next = q.next
  BY <1>1, <1>3 DEF Request, Reads
<1> HIDE DEF n
<1>6. Shaped(n)
  BY <1>1, <1>5 DEF Shaped
<1>7. Acts(r) /\ req'[r] = n
  BY <1>1, <1>2, <1>4, <1>5, <1>6 DEF Acts
<1>8. Active' = Active
  BY <1>1 DEF factorRows, Active
<1>9. Witness(r)'
  <2>1. /\ steady'[r] \subseteq steady[r] /\ shown[r] \subseteq shown'[r]
        /\ shown'[r] = shown[r] \cup Active
    BY <1>1, <1>8, Observed
  <2>2. n.seen.totp \cup n.seen.keys \subseteq shown'[r]
    BY <1>1, <1>5, <2>1 DEF Witness
  <2> QED BY <1>1, <1>5, <1>7, <2>1, <2>2 DEF Witness, Enrolling
<1>10. acr'[r] = "none"
  BY <1>1 DEF factorRows, FactorsInv, SessionsEarned
<1>11. ~Spent(r)' /\ ~Claimed(r)'
  BY <1>5, <1>7, <1>10 DEF Spent, Claimed
<1>12. ~Relies(r)' /\ ~Counts(r)
  BY <1>1, <1>5, <1>7 DEF Relies, Counts
<1> QED BY <1>1, <1>5, <1>7, <1>9, <1>11, <1>12, ReadStep

\* A code is issued: all that are valid beside it are of requests that run too.
LEMMA StoreKeeps ==
    ASSUME FactorsInv, Observe, NEW r \in Requests, StoreCode(r) PROVE FactorsInv'
<1> DEFINE q == req[r]
           pc == IF q.next = CodeCount THEN "end" ELSE q.pc
           m == [q EXCEPT !.next = q.next + 1]
           n == [m EXCEPT !.pc = pc]
           c == <<r, q.next>>
<1>1. /\ q.pc = "store" /\ UNCHANGED <<factor, challenge, acr, live, recent, broken>> /\ Running(r)
      /\ q \in Request /\ Shaped(q) /\ Witness(r) /\ req \in [Requests -> Request]
      /\ code' = [code EXCEPT ![c] = "active"] /\ code \in [Codes -> CodeStatus]
      /\ CodeCount \in Nat \ {0}
  <2>1. /\ q.pc = "store" /\ UNCHANGED <<factor, challenge, acr, live, recent, broken>> /\ Running(r)
        /\ code' = [code EXCEPT ![c] = "active"]
    BY DEF StoreCode, At, Running
  <2>2. /\ q \in Request /\ Shaped(q) /\ Witness(r) /\ req \in [Requests -> Request]
        /\ code \in [Codes -> CodeStatus] /\ CodeCount \in Nat \ {0}
    BY ReqTyped, FactorConstants DEF FactorsInv, FactorsTyped, FactorsTypeOK, Witnessed
  <2> QED BY <2>1, <2>2
<1>m. /\ m.pc = q.pc /\ m \in Request /\ m.next = q.next + 1 /\ m.seen = q.seen /\ m.op = q.op
      /\ m.sub = q.sub /\ m.by = q.by /\ m.method = q.method
  <2>1. q.next \in 1..CodeCount /\ q.next + 1 \in 1..CodeCount + 1
    BY <1>1 DEF Shaped, Request
  <2> QED BY <1>1, <2>1 DEF Request
<1>2. req' = [req EXCEPT ![r] = n]
  <2>1. req' = [req EXCEPT ![r].next = @ + 1, ![r].pc = IF req[r].next = CodeCount THEN "end" ELSE @]
    BY DEF StoreCode
  <2> QED BY <1>1, <1>m, <2>1
<1>3. pc \in Steps /\ q.next \in 1..CodeCount /\ c \in Codes
  BY <1>1 DEF Steps, Request, Shaped, Codes
<1> HIDE DEF m, pc
<1>4. n \in Request
  BY <1>m, <1>3 DEF Request
<1>5. /\ n.pc = pc /\ n.seen = q.seen /\ n.op = q.op /\ n.sub = q.sub /\ n.by = q.by
      /\ n.method = q.method /\ n.next = q.next + 1
  BY <1>m, <1>3 DEF Request
<1> USE DEF pc
<1> HIDE DEF n
<1>6. Shaped(n)
  BY <1>1, <1>3, <1>5 DEF Shaped
<1>7. Acts(r) /\ req'[r] = n
  BY <1>1, <1>2, <1>4, <1>5, <1>6 DEF Acts
<1>8. Stays /\ (\A p \in Requests \ {r} : req'[p] = req[p]) /\ ProofsKept
      /\ acr' = acr /\ factor' = factor /\ challenge' = challenge /\ broken' = broken
  BY <1>1, <1>7, ActsStay DEF Acts, ProofsKept
<1>9. Witness(r)'
  <2>1. steady'[r] \subseteq steady[r] /\ shown[r] \subseteq shown'[r]
    BY <1>1, Observed
  <2> QED BY <1>1, <1>5, <1>7, <2>1 DEF Witness, Enrolling
<1>10. History' /\ Witnessed'
  BY <1>8, <1>9, HistoryKept, WitnessStill DEF Witnessed
<1>11. /\ code' \in [Codes -> CodeStatus] /\ code'[c] = "active"
       /\ \A d \in Codes \ {c} : code'[d] = code[d]
  BY <1>1, <1>3 DEF CodeStatus
<1>12. RowsTyped'
  BY <1>1, <1>11 DEF RowsTyped, FactorsInv, FactorsTyped, FactorsTypeOK
<1>13. FactorsTyped' /\ SessionsEarned'
  BY <1>7, <1>8, <1>12, TypedKept, SessionsKept
<1>14. code[c] = "none"
  BY <1>3 DEF FactorsInv, CodesUsed
<1>15. acr[r] = "none"
  BY <1>1 DEF FactorsInv, SessionsEarned
<1>16. NoSpend /\ NoClaim
  BY <1>5, <1>7, <1>8, <1>15 DEF NoSpend, NoClaim, Spent, Claimed
<1>17. CodesUsed'
  <2>1. ASSUME NEW p \in Requests, NEW k \in 1..CodeCount, req'[p].next <= k
        PROVE  code'[<<p, k>>] = "none"
    <3>1. <<p, k>> \in Codes /\ <<p, k>> # c
      BY <1>3, <1>5, <1>7, <2>1 DEF Codes
    <3>2. req[p].next <= k
      BY <1>3, <1>5, <1>7, <1>8, <2>1
    <3> QED BY <1>11, <3>1, <3>2 DEF FactorsInv, CodesUsed
  <2>2. ASSUME NEW p \in Requests, Spent(p)' PROVE code'[req'[p].sub.code] = "consumed"
    <3>1. Spent(p) /\ req'[p].sub = req[p].sub
      BY <1>16, <2>2 DEF NoSpend
    <3>2. req[p].sub.code \in Codes /\ code[req[p].sub.code] = "consumed"
      BY <3>1, ReqTyped, SubFacts DEF Spent, FactorsInv, CodesUsed
    <3> QED BY <1>11, <1>14, <3>1, <3>2
  <2>3. \A p, s \in Requests : p # s /\ Spent(p)' /\ Spent(s)' => req'[p].sub.code # req'[s].sub.code
    BY <1>16 DEF NoSpend, FactorsInv, CodesUsed
  <2> QED BY <2>1, <2>2, <2>3 DEF CodesUsed
<1>18. ChallengesUsed'
  BY <1>8, <1>16, ChallengesStill
<1>19. IssuedBeside'
  <2>1. \A p \in Requests : met[p] \subseteq met'[p]
    BY Observed
  <2>2. \A d \in ActiveCodes' : d \in ActiveCodes \/ d = c
    BY <1>11 DEF ActiveCodes
  <2>3. ASSUME NEW d \in ActiveCodes, d[1] # r
        PROVE  d[1] \in Requests /\ d[1] \in met[r] /\ r \in met[d[1]] /\ d[1] # Old
    BY <1>1, <2>3, FactorConstants DEF FactorsInv, IssuedBeside, History
  <2>4. r # Old /\ c[1] = r
    BY FactorConstants
  <2>5. OneCodeSet'
    <3> SUFFICES ASSUME NEW d \in ActiveCodes', NEW e \in ActiveCodes', d[1] # e[1]
                 PROVE  d[1] # Old /\ e[1] # Old /\ d[1] \in met'[e[1]]
      BY DEF OneCodeSet
    <3>1. CASE d = c
      BY <2>1, <2>2, <2>3, <2>4, <3>1
    <3>2. CASE e = c
      BY <2>1, <2>2, <2>3, <2>4, <3>2
    <3>3. CASE d # c /\ e # c
      <4>1. d \in ActiveCodes /\ e \in ActiveCodes
        BY <2>2, <3>3
      <4>2. d[1] # Old /\ e[1] # Old /\ d[1] \in met[e[1]]
        BY <4>1 DEF FactorsInv, IssuedBeside, OneCodeSet
      <4>3. e[1] \in Requests
        BY <4>1, <4>2 DEF ActiveCodes, Codes
      <4> QED BY <2>1, <4>2, <4>3
    <3> QED BY <3>1, <3>2, <3>3
  <2>6. ASSUME NEW p \in Requests, NEW d \in ActiveCodes', req'[p].pc = "store", d[1] # p
        PROVE  d[1] \in Requests /\ d[1] \in met'[p]
    <3>1. req[p].pc = "store"
      BY <1>1, <1>8, <2>6
    <3>2. CASE d \in ActiveCodes
      BY <2>1, <2>6, <3>1, <3>2 DEF FactorsInv, IssuedBeside
    <3>3. CASE d = c
      <4>1. Running(p) /\ p # r
        BY <2>4, <2>6, <3>1, <3>3 DEF Running
      <4>2. r \in met[p]
        BY <1>1, <4>1 DEF FactorsInv, History
      <4> QED BY <2>1, <2>4, <3>3, <4>2
    <3> QED BY <2>2, <3>2, <3>3
  <2> QED BY <2>5, <2>6 DEF IssuedBeside
<1>20. RowsKnown'
  <2>1. \A p \in Requests : Creates(p)' => Creates(p)
    BY <1>1, <1>5, <1>7, <1>8 DEF Creates, Running
  <2>2. RowsStay
    BY <1>8, <2>1 DEF RowsStay, FactorsInv, RowsKnown
  <2> QED BY <1>1, <1>7, <2>2, RowsStill
<1>21. CodesExcused'
  <2>1. Relies(r)
    BY <1>1 DEF Relies, Shaped
  <2>2. Active # {} \/ Excused
    BY <2>1 DEF FactorsInv, CodesExcused, Relies
  <2>3. Excused => Excused'
    BY <1>7, <1>8, ExcusedStays
  <2>4. Active' = Active
    BY <1>8 DEF Active
  <2> QED BY <2>2, <2>3, <2>4 DEF CodesExcused
<1> QED BY <1>10, <1>13, <1>17, <1>18, <1>19, <1>20, <1>21 DEF FactorsInv

-----------------------------------------------------------------------------
(* A request begins.                                                       *)

Begins(r) ==
    /\ req[r].pc = "idle" /\ Acts(r) /\ UNCHANGED <<factorRows, broken>>
    /\ req'[r].pc \in {"totp", "revoke"} /\ req'[r].seen = NoReads
    /\ req'[r].method = "none" /\ req'[r].next = 1
    /\ req'[r].op \in {"start_totp", "finish_webauthn"} =>
         /\ factor[req'[r].sub.row] = "none"
         /\ \A q \in Requests : Creates(q) => req[q].sub.row # req'[r].sub.row
    /\ req'[r].op \in {"confirm_totp", "revoke"} => factor[req'[r].sub.row] # "none"

LEMMA BeginBegins ==
    ASSUME FactorsInv, NEW r \in Requests, NEW op \in OpNames, NEW s \in SessionIds,
           NEW sub \in Submitted, NEW pc \in {"totp", "revoke"}, Begin(r, op, s, sub, pc),
           pc = "revoke" => op = "revoke",
           op \in {"start_totp", "confirm_totp"} => sub.is = "totp",
           op = "finish_webauthn" => sub.is = "assertion",
           op = "revoke" => sub.is \in {"totp", "assertion"},
           op \in {"start_totp", "finish_webauthn"} => Unused(sub.row),
           op \in {"confirm_totp", "revoke"} => factor[sub.row] # "none"
    PROVE  Begins(r)
<1> DEFINE n == [Waiting EXCEPT !.op = op, !.pc = pc, !.by = s, !.sub = sub, !.fresh = s \in recent]
<1>1. req[r].pc = "idle" /\ req' = [req EXCEPT ![r] = n] /\ UNCHANGED <<factorRows, broken>>
  BY DEF Begin, At
<1>2. Waiting \in Request /\ (s \in recent) \in BOOLEAN /\ pc \in Steps
  BY WaitingTyped DEF Steps
<1>3. Waiting.seen = NoReads /\ Waiting.method = "none" /\ Waiting.next = 1
  BY DEF Waiting
<1>4. n \in Request
  <2>1. [Waiting EXCEPT !.op = op] \in Request
    BY <1>2 DEF Request
  <2> QED BY <1>2, <2>1 DEF Request, Waiting
<1>5. /\ n.op = op /\ n.pc = pc /\ n.by = s /\ n.sub = sub /\ n.seen = NoReads
      /\ n.method = "none" /\ n.next = 1
  BY <1>2, <1>3 DEF Request
<1> HIDE DEF n
<1>6. Shaped(n)
  BY <1>5, FactorConstants DEF Shaped
<1>7. req \in [Requests -> Request]
  BY DEF FactorsInv, FactorsTyped
<1>8. /\ req' \in [Requests -> Request] /\ req'[r] = n
      /\ \A q \in Requests \ {r} : req'[q] = req[q]
  BY <1>1, <1>4, <1>7
<1>9. Acts(r)
  BY <1>1, <1>5, <1>6, <1>8 DEF Acts
<1> QED BY <1>1, <1>5, <1>8, <1>9 DEF Begins, Unused, Creates

LEMMA BeginsKeeps ==
    ASSUME FactorsInv, Observe, NEW r \in Requests, Begins(r) PROVE FactorsInv'
<1>1. /\ req[r] = Waiting /\ Acts(r) /\ Stays /\ req'[r].pc \in {"totp", "revoke"}
      /\ \A q \in Requests \ {r} : req'[q] = req[q]
      /\ req'[r].seen = NoReads /\ req'[r].method = "none" /\ req'[r].next = 1
  BY ReqTyped, ActsStay DEF Begins, Shaped, Acts
<1>2. UNCHANGED <<factor, code, challenge, acr, live, recent, broken>>
  BY DEF Begins, factorRows
<1>3. ProofsKept /\ Active' = Active /\ ActiveCodes' = ActiveCodes
  BY <1>2 DEF ProofsKept, Active, ActiveCodes
<1>4. RowsTyped'
  BY <1>2 DEF RowsTyped, FactorsInv, FactorsTyped, FactorsTypeOK
<1>5. FactorsTyped' /\ History' /\ SessionsEarned'
  BY <1>1, <1>2, <1>4, TypedKept, HistoryKept, SessionsKept
<1>6. Witness(r)'
  BY <1>1 DEF Witness, NoReads, Enrolling
<1>7. Witnessed'
  BY <1>1, <1>3, <1>6, WitnessStill DEF Witnessed
<1>8. NoSpend /\ NoClaim
  BY <1>1, <1>2 DEF NoSpend, NoClaim, Spent, Claimed
<1>9. CodesUsed' /\ ChallengesUsed'
  <2>1. \A q \in Requests : req'[q].next = req[q].next
    BY <1>1 DEF Waiting
  <2> QED BY <1>1, <1>2, <1>8, <2>1, CodesStill, ChallengesStill
<1>10. IssuedBeside'
  BY <1>1, <1>3, IssuedStill DEF NoIssue
<1>11. RowsKnown'
  <2>1. ASSUME NEW q \in Requests, Creates(q)' PROVE factor'[req'[q].sub.row] = "none"
    BY <1>1, <1>2, <2>1 DEF Begins, Creates, Running, FactorsInv, RowsKnown
  <2>2. ASSUME NEW p \in Requests, NEW q \in Requests, p # q, Creates(p)', Creates(q)'
        PROVE  req'[p].sub.row # req'[q].sub.row
    <3>1. \A z \in Requests \ {r} : Creates(z)' => Creates(z)
      BY <1>1 DEF Creates, Running
    <3>2. Creates(r)' => \A z \in Requests : Creates(z) => req[z].sub.row # req'[r].sub.row
      BY DEF Begins, Creates
    <3>3. CASE p # r /\ q # r
      BY <1>1, <2>2, <3>1, <3>3 DEF FactorsInv, RowsKnown
    <3> QED BY <1>1, <2>2, <3>1, <3>2, <3>3
  <2>3. ASSUME NEW q \in Requests, Running(q)', req'[q].op \in {"confirm_totp", "revoke"}
        PROVE  factor'[req'[q].sub.row] # "none"
    BY <1>1, <1>2, <2>3 DEF Begins, Running, FactorsInv, RowsKnown
  <2>4. ASSUME NEW q \in Requests, NEW f \in shown'[q] PROVE factor'[f] # "none"
    <3>1. f \in shown[q] \/ f \in Active
      BY <1>3, <2>4, Observed DEF Running
    <3> QED BY <1>2, <3>1 DEF FactorsInv, RowsKnown, Active
  <2> QED BY <2>1, <2>2, <2>3, <2>4 DEF RowsKnown
<1>12. CodesExcused'
  <2>1. \A q \in Requests : Relies(q)' => Relies(q)
    BY <1>1 DEF Relies, Waiting
  <2>2. \A q \in Requests : Counts(q) => Counts(q)'
    BY <1>1 DEF Counts, Waiting
  <2> QED BY <1>1, <1>2, <1>3, <2>1, <2>2, ExcusesStill DEF NoLoss
<1> QED BY <1>5, <1>7, <1>9, <1>10, <1>11, <1>12 DEF FactorsInv

LEMMA BeginStepKeeps ==
    ASSUME FactorsInv, Observe, NEW r \in Requests,
           \/ Login(r) \/ Reauthenticate(r) \/ StartTotp(r) \/ ConfirmTotp(r)
           \/ StartWebauthn(r) \/ FinishWebauthn(r) \/ RevokeRequest(r) \/ Regenerate(r)
    PROVE  FactorsInv'
<1>0. Old \in SessionIds /\ r \in SessionIds /\ live \subseteq SessionIds
  BY DEF SessionIds, FactorsInv, FactorsTyped, FactorsTypeOK
<1>o. OpNames = {"login", "reauthenticate", "start_totp", "confirm_totp", "start_webauthn",
                 "finish_webauthn", "revoke", "regenerate"}
  BY DEF OpNames, SignIns
<1>1. CASE Login(r)
  BY <1>0, <1>1, <1>o, BeginBegins, BeginsKeeps DEF Login
<1>2. CASE Reauthenticate(r)
  BY <1>0, <1>2, <1>o, BeginBegins, BeginsKeeps DEF Reauthenticate
<1>3. CASE StartTotp(r)
  <2>1. PICK s \in live, f \in Totps :
           Unused(f) /\ Begin(r, "start_totp", s, [is |-> "totp", row |-> f], "totp")
    BY <1>3 DEF StartTotp
  <2>2. PICK sub \in Submitted : sub.is = "totp" /\ sub.row = f /\ Begin(r, "start_totp", s, sub, "totp")
    BY <2>1, MakeSub
  <2> QED BY <1>0, <1>o, <2>1, <2>2, BeginBegins, BeginsKeeps
<1>4. CASE ConfirmTotp(r)
  <2>1. PICK s \in live, f \in Totps :
           factor[f] # "none" /\ Begin(r, "confirm_totp", s, [is |-> "totp", row |-> f], "totp")
    BY <1>4 DEF ConfirmTotp
  <2>2. PICK sub \in Submitted :
           sub.is = "totp" /\ sub.row = f /\ Begin(r, "confirm_totp", s, sub, "totp")
    BY <2>1, MakeSub
  <2> QED BY <1>0, <1>o, <2>1, <2>2, BeginBegins, BeginsKeeps
<1>5. CASE StartWebauthn(r)
  BY <1>0, <1>5, <1>o, MakeSub, BeginBegins, BeginsKeeps DEF StartWebauthn
<1>6. CASE FinishWebauthn(r)
  <2>1. PICK s \in live, p \in Passkeys, q \in SessionIds :
           Unused(p) /\ Begin(r, "finish_webauthn", s,
                              [is |-> "assertion", row |-> p, challenge |-> q], "totp")
    BY <1>6 DEF FinishWebauthn
  <2>2. PICK sub \in Submitted :
           sub.is = "assertion" /\ sub.row = p /\ Begin(r, "finish_webauthn", s, sub, "totp")
    BY <2>1, MakeSub
  <2> QED BY <1>0, <1>o, <2>1, <2>2, BeginBegins, BeginsKeeps
<1>7. CASE RevokeRequest(r)
  <2>1. PICK s \in live, f \in Factors :
           factor[f] # "none" /\ Begin(r, "revoke", s, IF f \in Totps THEN [is |-> "totp", row |-> f]
                                  ELSE [is |-> "assertion", row |-> f, challenge |-> r], "revoke")
    BY <1>7 DEF RevokeRequest
  <2>2. PICK sub \in Submitted : /\ sub.is \in {"totp", "assertion"} /\ sub.row = f
                                 /\ Begin(r, "revoke", s, sub, "revoke")
    <3>1. CASE f \in Totps
      BY <2>1, <3>1, MakeSub
    <3>2. CASE f \notin Totps
      BY <1>0, <2>1, <3>2, MakeSub DEF Factors
    <3> QED BY <3>1, <3>2
  <2> QED BY <1>0, <1>o, <2>1, <2>2, BeginBegins, BeginsKeeps
<1>8. CASE Regenerate(r)
  BY <1>0, <1>8, <1>o, MakeSub, BeginBegins, BeginsKeeps DEF Regenerate
<1> QED BY <1>1, <1>2, <1>3, <1>4, <1>5, <1>6, <1>7, <1>8

-----------------------------------------------------------------------------
(* Nobody moves: a session grows older.                                    *)

LEMMA AgeKeeps ==
    ASSUME FactorsInv, Observe, NEW s \in SessionIds, Age(s) PROVE FactorsInv'
<1>1. /\ req' = req /\ UNCHANGED <<factor, code, challenge, acr, live, broken>>
      /\ recent' \subseteq recent
  BY DEF Age
<1>2. Stays /\ ProofsKept /\ Active' = Active /\ ActiveCodes' = ActiveCodes
  BY <1>1 DEF Stays, ProofsKept, Active, ActiveCodes
<1>3. FactorsTyped'
  <2>1. \A q \in Requests : /\ req'[q].seen.totp \subseteq Totps /\ req'[q].seen.keys \subseteq Passkeys
                            /\ req'[q].next \in 1..CodeCount + 1
    BY <1>1 DEF FactorsInv, FactorsTyped, FactorsTypeOK
  <2>2. FactorsTypeOK'
    BY <1>1, <2>1, ObservedTyped DEF FactorsInv, FactorsTyped, FactorsTypeOK
  <2>3. \A q \in Requests : Shaped(req[q])'
    BY <1>1, ReqTyped DEF Shaped, Proven
  <2> QED BY <1>1, <2>2, <2>3 DEF FactorsInv, FactorsTyped
<1>4. History' /\ SessionsEarned'
  BY <1>1, <1>2, HistoryKept, SessionsKept
<1>5. Witnessed'
  BY <1>1, <1>2, WitnessStill DEF Witnessed
<1>6. NoSpend /\ NoClaim
  BY <1>1 DEF NoSpend, NoClaim, Spent, Claimed
<1>7. CodesUsed' /\ ChallengesUsed'
  BY <1>1, <1>2, <1>6, CodesStill, ChallengesStill
<1>8. IssuedBeside'
  BY <1>1, <1>2, IssuedStill DEF NoIssue
<1>9. RowsKnown'
  <2>1. ASSUME NEW q \in Requests, NEW f \in shown'[q] PROVE factor'[f] # "none"
    <3>1. f \in shown[q] \/ f \in Active
      BY <1>2, <2>1, Observed DEF Running
    <3> QED BY <1>1, <3>1 DEF FactorsInv, RowsKnown, Active
  <2>2. \A q \in Requests : (Running(q)' <=> Running(q)) /\ (Creates(q)' <=> Creates(q))
    BY <1>1 DEF Creates, Running
  <2> QED BY <1>1, <2>1, <2>2 DEF FactorsInv, RowsKnown
<1>10. CodesExcused'
  <2>1. \A q \in Requests : met[q] \subseteq met'[q]
    BY Observed
  <2>2. Excused => Excused'
    BY <1>1, <2>1 DEF Excused
  <2> QED BY <1>1, <1>2, <2>2 DEF FactorsInv, CodesExcused, Relies, Counts
<1> QED BY <1>3, <1>4, <1>5, <1>7, <1>8, <1>9, <1>10 DEF FactorsInv

LEMMA StutterKeeps == ASSUME FactorsInv, UNCHANGED factorVars PROVE FactorsInv'
<1>1. UNCHANGED <<factor, code, challenge, acr, live, recent, req, steady, shown, met, broken>>
  BY DEF factorVars, factorRows
<1>2. Active' = Active /\ ActiveCodes' = ActiveCodes /\ (Excused' <=> Excused)
  BY <1>1 DEF Active, ActiveCodes, Excused
<1>3. \A r \in Requests : /\ Running(r)' <=> Running(r)
                          /\ Shaped(req[r])' <=> Shaped(req[r])
                          /\ Proven(req[r])' <=> Proven(req[r])
  BY <1>1 DEF Running, Shaped, Proven
<1>4. \A r \in Requests : /\ Witness(r)' <=> Witness(r)
                          /\ Spent(r)' <=> Spent(r)
                          /\ Claimed(r)' <=> Claimed(r)
                          /\ Creates(r)' <=> Creates(r)
  BY <1>1, <1>3 DEF Witness, HasMfaProof, Spent, Claimed, Creates
<1>5. FactorsTyped' /\ History' /\ Witnessed' /\ SessionsEarned'
  BY <1>1, <1>2, <1>3, <1>4
  DEF FactorsInv, FactorsTyped, FactorsTypeOK, History, Witnessed, SessionsEarned
<1>6. CodesUsed' /\ ChallengesUsed'
  BY <1>1, <1>4 DEF FactorsInv, CodesUsed, ChallengesUsed
<1>7. IssuedBeside' /\ RowsKnown'
  BY <1>1, <1>2, <1>3, <1>4 DEF FactorsInv, IssuedBeside, OneCodeSet, RowsKnown
<1>8. CodesExcused'
  BY <1>1, <1>2 DEF FactorsInv, CodesExcused, Relies, Counts
<1> QED BY <1>5, <1>6, <1>7, <1>8 DEF FactorsInv

-----------------------------------------------------------------------------
(* The start.                                                              *)

LEMMA InitFactors == FactorsInit => FactorsInv
<1> SUFFICES ASSUME FactorsInit PROVE FactorsInv
  OBVIOUS
<1>1. PICK F \in SUBSET Factors, a \in {"password", "totp", "webauthn"} :
        /\ factor = [f \in Factors |-> IF f \in F THEN "active" ELSE "none"]
        /\ code = [c \in Codes |-> IF c[1] = Old /\ F \cap Totps # {} THEN "active" ELSE "none"]
        /\ acr = [s \in SessionIds |-> IF s = Old THEN a ELSE "none"]
  BY DEF FactorsInit
<1>2. PICK kind \in {"registration", "authentication"} :
        challenge = [s \in SessionIds |->
           IF s = Old THEN [kind |-> kind, keys |-> Active \cap Passkeys, open |-> TRUE]
           ELSE NoChallenge]
  BY DEF FactorsInit
<1>3. /\ live = {Old} /\ recent = {Old} /\ broken = {} /\ req = [r \in Requests |-> Waiting]
      /\ steady = [r \in Requests |-> {}] /\ shown = [r \in Requests |-> {}]
      /\ met = [r \in Requests |-> {}]
  BY DEF FactorsInit
<1>4. a \in Acrs \ {"none"} /\ Old \in SessionIds /\ Requests \subseteq SessionIds
  BY DEF Acrs, SessionIds
<1>5. /\ Waiting.pc = "idle" /\ Waiting.seen = NoReads /\ Waiting.op = "none" /\ Waiting.next = 1
      /\ Waiting.method = "none" /\ Waiting \in Request
  BY WaitingTyped DEF Waiting
<1>6. \A r \in Requests : /\ req[r] = Waiting /\ acr[r] = "none" /\ challenge[r] = NoChallenge
                          /\ ~Running(r) /\ ~Creates(r) /\ ~Spent(r) /\ ~Claimed(r)
  BY <1>1, <1>2, <1>3, <1>4, <1>5, FactorConstants DEF Running, Creates, Spent, Claimed
<1>7. FactorsTyped
  <2>1. factor \in [Factors -> FactorStatus] /\ code \in [Codes -> CodeStatus]
    BY <1>1 DEF FactorStatus, CodeStatus
  <2>2. challenge \in [SessionIds -> [kind : {"none", "registration", "authentication"},
                                      keys : SUBSET Passkeys, open : BOOLEAN]]
    BY <1>2 DEF NoChallenge
  <2>3. /\ acr \in [SessionIds -> Acrs] /\ live \subseteq {s \in SessionIds : acr[s] # "none"}
        /\ recent \subseteq {s \in SessionIds : acr[s] # "none"}
    BY <1>1, <1>3, <1>4 DEF Acrs
  <2>4. \A r \in Requests : /\ req[r].seen.totp \subseteq Totps /\ req[r].seen.keys \subseteq Passkeys
                            /\ req[r].next \in 1..CodeCount + 1
    BY <1>5, <1>6, FactorConstants DEF NoReads
  <2>5. FactorsTypeOK
    BY <1>3, <2>1, <2>2, <2>3, <2>4 DEF FactorsTypeOK
  <2>6. Shaped(Waiting)
    BY <1>5 DEF Shaped
  <2> QED BY <1>3, <1>5, <1>6, <2>5, <2>6 DEF FactorsTyped
<1>8. History /\ SessionsEarned
  BY <1>3, <1>6 DEF History, SessionsEarned
<1>9. Witnessed
  BY <1>3, <1>5, <1>6 DEF Witnessed, Witness, NoReads, Enrolling
<1>10. CodesUsed
  <2>1. \A r \in Requests, n \in 1..CodeCount : code[<<r, n>>] = "none"
    BY <1>1, FactorConstants DEF Codes
  <2> QED BY <1>6, <2>1 DEF CodesUsed
<1>11. ChallengesUsed
  BY <1>6 DEF ChallengesUsed, NoChallenge
<1>12. IssuedBeside
  <2>1. \A c \in ActiveCodes : c[1] = Old
    BY <1>1 DEF ActiveCodes
  <2> QED BY <1>5, <1>6, <2>1 DEF IssuedBeside, OneCodeSet
<1>13. RowsKnown
  BY <1>3, <1>6 DEF RowsKnown
<1>14. CodesExcused
  <2>1. ActiveCodes # {} => Active # {}
    BY <1>1 DEF ActiveCodes, Active
  <2>2. \A r \in Requests : ~Relies(r)
    BY <1>5, <1>6 DEF Relies
  <2> QED BY <2>1, <2>2 DEF CodesExcused
<1> QED BY <1>7, <1>8, <1>9, <1>10, <1>11, <1>12, <1>13, <1>14 DEF FactorsInv

-----------------------------------------------------------------------------
(* The theorems.                                                           *)

LEMMA NextFactors == FactorsInv /\ [FactorsNext]_factorVars => FactorsInv'
<1> SUFFICES ASSUME FactorsInv, [FactorsNext]_factorVars PROVE FactorsInv'
  OBVIOUS
<1>1. CASE UNCHANGED factorVars
  BY <1>1, StutterKeeps
<1>2. ASSUME Observe, NEW s \in SessionIds, Age(s) PROVE FactorsInv'
  BY <1>2, AgeKeeps
<1>3. ASSUME Observe, NEW r \in Requests, SignIn(r) PROVE FactorsInv'
  <2>1. CASE Login(r) \/ Reauthenticate(r)
    BY <1>3, <2>1, BeginStepKeeps
  <2>2. CASE ReadTotps(r) \/ ReadCodes(r) \/ ReadPasskeys(r)
    BY <1>3, <2>2, ReadTotpsKeeps, ReadCodesKeeps, ReadPasskeysKeeps
  <2>3. CASE InsertChallenge(r) \/ CheckAssertion(r) \/ Touch(r)
    BY <1>3, <2>3, InsertChallengeKeeps, CeremonyKeeps, TouchKeeps
  <2>4. CASE SpendCode(r) \/ OpenSession(r) \/ RotateSession(r)
    BY <1>3, <2>4, SpendKeeps, SessionKeeps
  <2> QED BY <1>3, <2>1, <2>2, <2>3, <2>4 DEF SignIn
<1>4. ASSUME Observe, NEW r \in Requests, Manage(r) PROVE FactorsInv'
  <2>1. CASE \/ StartTotp(r) \/ ConfirmTotp(r) \/ StartWebauthn(r) \/ FinishWebauthn(r)
             \/ RevokeRequest(r) \/ Regenerate(r)
    BY <1>4, <2>1, BeginStepKeeps
  <2>2. CASE ReadExcluded(r) \/ Register(r) \/ CheckUnique(r) \/ CheckPending(r)
    BY <1>4, <2>2, ReadExcludedKeeps, CeremonyKeeps, QuietKeeps
  <2>3. CASE Enroll(r) \/ InsertPending(r) \/ Activate(r) \/ Revoke(r)
    BY <1>4, <2>3, CreateKeeps, ActivateKeeps, RevokeKeeps
  <2>4. CASE DropCodes(r) \/ StoreCode(r)
    BY <1>4, <2>4, DropKeeps, StoreKeeps
  <2> QED BY <1>4, <2>1, <2>2, <2>3, <2>4 DEF Manage
<1>5. ASSUME Observe, NEW r \in Requests, Abort(r) PROVE FactorsInv'
  BY <1>5, QuietKeeps
<1> QED BY <1>1, <1>2, <1>3, <1>4, <1>5 DEF FactorsNext

LEMMA FactorsAlways == FactorsSpec => []FactorsInv
BY InitFactors, NextFactors, PTL DEF FactorsSpec

LEMMA InvOneUse == FactorsInv => OneUse
<1> SUFFICES ASSUME FactorsInv PROVE OneUse
  OBVIOUS
<1>1. \A r \in Requests : acr[r] = "recovery_code" => Spent(r)
  BY DEF FactorsInv, SessionsEarned, Spent, Proven
<1>2. \A r \in Requests : acr[r] = "webauthn" => Claimed(r)
  BY DEF FactorsInv, SessionsEarned, Claimed, Proven
<1>3. CodeOnce
  BY <1>1 DEF CodeOnce, FactorsInv, CodesUsed
<1>4. ChallengeOnce
  BY <1>2 DEF ChallengeOnce, FactorsInv, ChallengesUsed
<1> QED BY <1>3, <1>4 DEF OneUse

LEMMA InvFactorsHold == FactorsInv => FactorsHold
<1> SUFFICES ASSUME FactorsInv PROVE FactorsHold
  OBVIOUS
<1>1. FactorsTypeOK /\ OneCodeSet
  BY DEF FactorsInv, FactorsTyped, IssuedBeside
<1>2. FactorDemanded
  BY DEF FactorDemanded, FactorsInv, SessionsEarned, Witnessed, Witness, Enrolling
<1>3. FactorInForce
  BY DEF FactorInForce, FactorsInv, SessionsEarned
<1>4. CodesNeedFactor
  BY DEF CodesNeedFactor, FactorsInv, CodesExcused, Counts, Excused, Running
<1> QED BY <1>1, <1>2, <1>3, <1>4 DEF FactorsHold

\* However many requests of one user present a recovery code or answer a WebAuthn
\* challenge at the same time, it opens one session: consume_active_recovery_code
\* and consume_webauthn_challenge are conditional updates, and what a request has
\* read before them does not matter.
THEOREM UsedOnce == FactorsSpec => []OneUse
BY FactorsAlways, InvOneUse, PTL

\* Enrolment, confirmation, revocation, regeneration and sign-in side by side, each
\* one statement after another, any of them cut short: no sign-in and no enrolment
\* gets around a factor in force throughout, no session vouches for a factor that
\* was never in force while the user signed in, two sets of recovery codes are
\* valid only when they were issued side by side, and codes outlive the last factor
\* only for a revocation that was cut short or ran beside a request that issues
\* codes.
THEOREM FactorsAlwaysHold == FactorsSpec => []FactorsHold
BY FactorsAlways, InvFactorsHold, PTL
=============================================================================
