--------------------------- MODULE ServicesProofs ---------------------------
(***************************************************************************)
(* What runs beside the requests: the delivery of mails, for any number of *)
(* mails and jobs; the signing keys and the key encryption key, for any    *)
(* number of keys, KEKs, mails, replicas and commands; and the buckets of  *)
(* the rate limits, for any number of attempts.                            *)
(***************************************************************************)
EXTENDS EmailOutbox, SigningKeys, Throttle, FiniteSetTheorems, TLAPS

-----------------------------------------------------------------------------
(* The email outbox.                                                       *)

Deliverable == {"queued", "retry"}

\* A row locked by a claim in progress is due: no mark can postpone it.
LockedAreDue == \A j \in Jobs : pc[j] = "claim" => batch[j] \cap waiting = {}

\* The claim statements in progress lock disjoint rows, and what they lock is
\* still claimable: a late mark waits for the lock.
LocksHeld ==
    \A j \in Jobs : pc[j] = "claim" =>
        /\ \A m \in batch[j] : status[m] \in Deliverable \/ (status[m] = "sending" /\ m \in stalled)
        /\ \A k \in Jobs \ {j} : pc[k] = "claim" => batch[j] \cap batch[k] = {}

\* While no claim of a row has become stale, the row of a job that holds it is
\* in "sending", and that job is alone.
HoldersAlone ==
    \A j \in Jobs : \A m \in Held(j) \ stalled :
        /\ status[m] = "sending"
        /\ \A k \in Jobs \ {j} : m \notin Held(k)

\* A mail that has gone out without any excuse for a second copy is out of the
\* reach of every send: its row is not deliverable, and a job that holds it has
\* already sent it.
OutOfReach ==
    \A m \in Messages : copies[m] > 0 /\ m \notin stalled \cup erred =>
        /\ status[m] \in {"sending", "sent"}
        /\ \A j \in Jobs : m \in Held(j) =>
              pc[j] = "mark" /\ cur[j] = [row |-> m, result |-> "ok"]

\* Retries come from errors, and so does a result other than "ok".
Earned ==
    /\ \A m \in Messages : status[m] = "retry" => m \in erred
    /\ \A j \in Jobs : pc[j] = "mark" =>
          IF cur[j].result = "ok" THEN copies[cur[j].row] > 0 ELSE cur[j].row \in erred
    /\ stale \subseteq stalled

\* The part of the invariant that is not typing.
Safe ==
    /\ LocksHeld
    /\ HoldersAlone
    /\ OutOfReach
    /\ Earned
    /\ ResendExcused
    /\ FateDeserved

IInv == TypeOK /\ LockedAreDue /\ Safe

-----------------------------------------------------------------------------

\* LIMIT and ORDER BY only narrow the selection of the claim.
LEMMA OldestSubset == ASSUME NEW S PROVE Oldest(S) \subseteq S
BY DEF Oldest

LEMMA InitTyped == Init => TypeOK /\ LockedAreDue
BY OutboxConstants DEF Init, TypeOK, LockedAreDue, Statuses, Terminal, NoRow

\* Every step keeps rows and jobs well formed.
LEMMA StepTyped == TypeOK /\ LockedAreDue /\ [Next]_vars => TypeOK' /\ LockedAreDue'
<1> SUFFICES ASSUME TypeOK, LockedAreDue, [Next]_vars PROVE TypeOK' /\ LockedAreDue'
  OBVIOUS
<1> USE OutboxConstants DEF TypeOK, LockedAreDue, rows, history
<1>1. ASSUME NEW j \in Jobs, Select(j) PROVE TypeOK' /\ LockedAreDue'
  <2> DEFINE S == {m \in Messages : Claimable(m) /\ Unlocked(m)}
  <2>1. Oldest(S) \subseteq S
    BY OldestSubset
  <2>2. S \cap waiting = {} /\ S \subseteq Messages
    BY DEF Claimable
  <2>3. SelectFrom(j, S)
    BY <1>1 DEF Select
  <2> HIDE DEF S
  <2> QED BY <2>1, <2>2, <2>3 DEF SelectFrom
<1>2. ASSUME NEW j \in Jobs, ClaimUpdate(j) PROVE TypeOK' /\ LockedAreDue'
  <2>1. \A m \in Messages : Bump(attempts[m]) \in 0..MaxAttempts
    BY DEF Bump
  <2>2. waiting' \subseteq {m \in Messages : status'[m] = "retry"}
    BY <1>2 DEF ClaimUpdate
  <2>3. stale' \subseteq {m \in Messages : status'[m] = "sending"}
    BY <1>2 DEF ClaimUpdate
  <2>4. attempts' \in [Messages -> 0..MaxAttempts] /\ seen' \in [Jobs -> [Messages -> 0..MaxAttempts]]
    BY <1>2, <2>1 DEF ClaimUpdate
  <2>5. status' \in [Messages -> Statuses]
    BY <1>2 DEF ClaimUpdate, Statuses
  <2> QED BY <1>2, <2>2, <2>3, <2>4, <2>5 DEF ClaimUpdate
<1>3. ASSUME NEW j \in Jobs, NEW m \in Messages, NEW result \in Results,
             NEW out \in BOOLEAN, Send(j, m, result, out)
      PROVE  TypeOK' /\ LockedAreDue'
  BY <1>3 DEF Send, Results
<1>4. ASSUME NEW j \in Jobs, Mark(j) PROVE TypeOK' /\ LockedAreDue'
  <2>1. PICK m \in Messages : m = cur[j].row /\ m \in batch[j]
    BY <1>4 DEF Mark
  <2>2. PICK new \in {"sent", "retry", "failed"} : new = Verdict(j)
    BY DEF Verdict
  <2>3. pc[j] = "mark" /\ Unlocked(m)
    BY <1>4, <2>1 DEF Mark
  <2>4. \/ status[m] = "sending" /\ WriteMark(m, new)
        \/ UNCHANGED <<status, stale, waiting>>
    BY <1>4, <2>1, <2>2 DEF Mark
  <2>5. /\ status' \in [Messages -> Statuses]
        /\ stale' \subseteq {n \in Messages : status'[n] = "sending"}
        /\ waiting' \subseteq {n \in Messages : status'[n] = "retry"}
        /\ waiting' \subseteq waiting \cup {m}
    <3>1. CASE status[m] = "sending" /\ WriteMark(m, new)
      <4>1. \A n \in Messages : status'[n] = IF n = m THEN new ELSE status[n]
        BY <3>1 DEF WriteMark
      <4> QED BY <3>1, <4>1 DEF WriteMark, Statuses, Terminal
    <3>2. CASE UNCHANGED <<status, stale, waiting>>
      BY <3>2
    <3> QED BY <2>4, <3>1, <3>2
  <2>6. /\ pc' = [pc EXCEPT ![j] = IF batch[j] = {m} THEN "idle" ELSE "send"]
        /\ batch' = [batch EXCEPT ![j] = @ \ {m}]
        /\ cur' = [cur EXCEPT ![j] = NoRow]
        /\ seen' = [seen EXCEPT ![j][m] = 0]
        /\ UNCHANGED <<attempts, crashes, copies, stalled, erred>>
    BY <1>4, <2>1 DEF Mark, NextRow
  <2>7. ASSUME NEW k \in Jobs, pc'[k] = "claim" PROVE batch'[k] \cap waiting' = {}
    <3>1. k # j /\ pc[k] = "claim" /\ batch'[k] = batch[k]
      BY <2>6, <2>7
    <3>2. m \notin batch[k]
      BY <2>3, <3>1 DEF Unlocked
    <3> QED BY <2>5, <3>1, <3>2
  <2>8. seen' \in [Jobs -> [Messages -> 0..MaxAttempts]]
    BY <2>1, <2>6
  <2> QED BY <2>1, <2>3, <2>5, <2>6, <2>7, <2>8
<1>5. ASSUME NEW j \in Jobs, Crash(j) PROVE TypeOK' /\ LockedAreDue'
  BY <1>5 DEF Crash
<1>6. ASSUME NEW m \in Messages, Enqueue(m) \/ GoStale(m) \/ RetryDue(m)
      PROVE  TypeOK' /\ LockedAreDue'
  BY <1>6 DEF Enqueue, GoStale, RetryDue, Statuses
<1>7. CASE UNCHANGED vars
  BY <1>7 DEF vars
<1> QED
  BY <1>1, <1>2, <1>3, <1>4, <1>5, <1>6, <1>7 DEF Next, Deliver

LEMMA InitSafe == Init => Safe
<1> SUFFICES ASSUME Init PROVE Safe
  OBVIOUS
<1>1. \A j \in Jobs : pc[j] = "idle" /\ Held(j) = {}
  BY DEF Init, Held
<1>2. \A m \in Messages : status[m] = "none" /\ copies[m] = 0
  BY DEF Init
<1> QED
  BY <1>1, <1>2 DEF Init, Safe, LocksHeld, HoldersAlone, OutOfReach, Earned,
                    ResendExcused, FateDeserved

\* A claim locks rows nobody else has locked.
LEMMA SelectSafe ==
    ASSUME TypeOK, LockedAreDue, Safe, NEW j \in Jobs, Select(j)
    PROVE  Safe'
<1> DEFINE S == {m \in Messages : Claimable(m) /\ Unlocked(m)}
<1>1. Oldest(S) \subseteq S
  BY OldestSubset
<1>2. SelectFrom(j, S)
  BY DEF Select
<1>3. PICK B \in SUBSET Messages : B = Oldest(S)
  BY <1>1
<1>4. \A m \in B : Claimable(m) /\ Unlocked(m)
  BY <1>1, <1>3
<1> HIDE DEF S
<1>5. /\ pc[j] = "idle" /\ pc' = [pc EXCEPT ![j] = "claim"]
      /\ batch' = [batch EXCEPT ![j] = B]
      /\ UNCHANGED <<status, stale, waiting, cur, copies, stalled, erred>>
  BY <1>2, <1>3 DEF SelectFrom, rows, history
<1>6. \A k \in Jobs : Held(k)' = Held(k)
  BY <1>5 DEF Held, TypeOK
<1>7. LocksHeld'
  <2>1. \A m \in B : status[m] \in Deliverable \/ (status[m] = "sending" /\ m \in stalled)
    BY <1>4 DEF Claimable, Safe, Earned, Deliverable
  <2>2. ASSUME NEW k \in Jobs \ {j}, pc[k] = "claim" PROVE B \cap batch[k] = {}
    BY <1>4, <2>2 DEF Unlocked
  <2> QED BY <1>5, <2>1, <2>2 DEF Safe, LocksHeld, TypeOK
<1>8. HoldersAlone'
  BY <1>5, <1>6 DEF Safe, HoldersAlone
<1>9. OutOfReach'
  BY <1>5, <1>6 DEF Safe, OutOfReach, Held, TypeOK
<1>10. Earned' /\ ResendExcused' /\ FateDeserved'
  BY <1>5 DEF Safe, Earned, ResendExcused, FateDeserved, TypeOK
<1> QED
  BY <1>7, <1>8, <1>9, <1>10 DEF Safe

\* A committed claim of a row that never went stale finds the row unheld.
LEMMA ClaimSafe ==
    ASSUME TypeOK, LockedAreDue, Safe, NEW j \in Jobs, ClaimUpdate(j)
    PROVE  Safe'
<1>1. /\ pc[j] = "claim" /\ pc' = [pc EXCEPT ![j] = "send"]
      /\ status' = [m \in Messages |-> IF m \in batch[j] THEN "sending" ELSE status[m]]
      /\ stale' = stale \ batch[j]
      /\ UNCHANGED <<waiting, batch, cur, copies, stalled, erred>>
  BY DEF ClaimUpdate, history
<1>2. Held(j)' = batch[j] /\ \A k \in Jobs \ {j} : Held(k)' = Held(k)
  BY <1>1 DEF Held, TypeOK
<1>3. batch[j] \subseteq Messages
  BY DEF TypeOK
<1>4. \A m \in batch[j] : status[m] \in Deliverable \/ (status[m] = "sending" /\ m \in stalled)
  BY <1>1 DEF Safe, LocksHeld
<1>5. ASSUME NEW m \in batch[j], m \notin stalled, NEW k \in Jobs \ {j} PROVE m \notin Held(k)
  <2>1. m \notin batch[k] \/ pc[k] # "claim"
    BY <1>1 DEF Safe, LocksHeld
  <2>2. status[m] # "sending"
    BY <1>4, <1>5 DEF Deliverable
  <2> QED BY <1>5, <2>2 DEF Safe, HoldersAlone
<1>6. LocksHeld'
  <2> SUFFICES ASSUME NEW k \in Jobs, pc'[k] = "claim"
               PROVE  /\ \A m \in batch'[k] : status'[m] \in Deliverable \/ (status'[m] = "sending" /\ m \in stalled')
                      /\ \A i \in Jobs \ {k} : pc'[i] = "claim" => batch'[k] \cap batch'[i] = {}
    BY DEF LocksHeld
  <2>1. k # j /\ pc[k] = "claim"
    BY <1>1 DEF TypeOK
  <2>2. batch[k] \cap batch[j] = {} /\ batch[k] \subseteq Messages
    BY <1>1, <2>1 DEF Safe, LocksHeld, TypeOK
  <2>3. \A m \in batch[k] : status'[m] = status[m]
    BY <1>1, <2>2
  <2> QED BY <1>1, <2>1, <2>3 DEF Safe, LocksHeld, TypeOK
<1>7. HoldersAlone'
  <2> SUFFICES ASSUME NEW k \in Jobs, NEW m \in Held(k)', m \notin stalled'
               PROVE  /\ status'[m] = "sending"
                      /\ \A i \in Jobs \ {k} : m \notin Held(i)'
    BY DEF HoldersAlone
  <2>1. m \notin stalled /\ m \in Messages
    BY <1>1, <1>2, <1>3 DEF Held, TypeOK
  <2>2. CASE k = j
    BY <1>1, <1>2, <1>5, <2>1, <2>2
  <2>3. CASE k # j
    <3>1. m \in Held(k)
      BY <1>2, <2>3
    <3>2. status[m] = "sending" /\ \A i \in Jobs \ {k} : m \notin Held(i)
      BY <2>1, <3>1 DEF Safe, HoldersAlone
    <3>3. m \notin batch[j]
      BY <1>5, <2>1, <2>3, <3>1
    <3> QED BY <1>1, <1>2, <2>1, <2>3, <3>2, <3>3
  <2> QED BY <2>2, <2>3
<1>8. OutOfReach'
  <2> SUFFICES ASSUME NEW m \in Messages, copies[m] > 0, m \notin stalled \cup erred
               PROVE  /\ status'[m] \in {"sending", "sent"}
                      /\ \A k \in Jobs : m \in Held(k)' =>
                            pc'[k] = "mark" /\ cur'[k] = [row |-> m, result |-> "ok"]
    BY <1>1 DEF OutOfReach
  <2>1. /\ status[m] \in {"sending", "sent"}
        /\ \A k \in Jobs : m \in Held(k) =>
              pc[k] = "mark" /\ cur[k] = [row |-> m, result |-> "ok"]
    BY DEF Safe, OutOfReach
  <2>2. m \notin batch[j]
    BY <1>4, <2>1 DEF Deliverable
  <2> QED BY <1>1, <1>2, <2>1, <2>2 DEF TypeOK
<1>9. ResendExcused'
  BY <1>1 DEF Safe, ResendExcused
<1>10. Earned'
  BY <1>1 DEF Safe, Earned, TypeOK
<1>11. FateDeserved'
  BY <1>1 DEF Safe, FateDeserved
<1> QED
  BY <1>6, <1>7, <1>8, <1>9, <1>10, <1>11 DEF Safe

\* A send of a mail that is already out has an excuse: the job holding the row
\* in "send" contradicts OutOfReach.
LEMMA SendSafe ==
    ASSUME TypeOK, LockedAreDue, Safe, NEW j \in Jobs, NEW m \in Messages,
           NEW result \in Results, NEW out \in BOOLEAN, Send(j, m, result, out)
    PROVE  Safe'
<1>1. /\ pc[j] = "send" /\ m \in batch[j] /\ (result = "ok" => out)
      /\ copies' = [copies EXCEPT ![m] = IF out /\ @ < 2 THEN @ + 1 ELSE @]
      /\ erred' = IF result = "ok" THEN erred ELSE erred \cup {m}
      /\ cur' = [cur EXCEPT ![j] = [row |-> m, result |-> result]]
      /\ pc' = [pc EXCEPT ![j] = "mark"]
      /\ UNCHANGED <<status, stale, waiting, batch, stalled>>
  BY DEF Send, rows
<1>2. \A k \in Jobs : Held(k)' = Held(k)
  BY <1>1 DEF Held, TypeOK
<1>3. m \in Held(j)
  BY <1>1 DEF Held
<1>4. copies[m] > 0 => m \in stalled \cup erred
  BY <1>1, <1>3 DEF Safe, OutOfReach
<1>5. /\ copies'[m] \in 0..2 /\ (out => copies'[m] > 0) /\ copies[m] \in 0..2
      /\ (copies'[m] = 2 => copies[m] > 0)
  BY <1>1 DEF TypeOK
<1>6. \A n \in Messages \ {m} : copies'[n] = copies[n] /\ (n \in erred' <=> n \in erred)
  BY <1>1 DEF TypeOK
<1>7. erred \subseteq erred'
  BY <1>1
<1>8. LocksHeld'
  BY <1>1 DEF Safe, LocksHeld, TypeOK
<1>9. HoldersAlone'
  BY <1>1, <1>2 DEF Safe, HoldersAlone
<1>10. OutOfReach'
  <2> SUFFICES ASSUME NEW n \in Messages, copies'[n] > 0, n \notin stalled' \cup erred'
               PROVE  /\ status'[n] \in {"sending", "sent"}
                      /\ \A k \in Jobs : n \in Held(k)' =>
                            pc'[k] = "mark" /\ cur'[k] = [row |-> n, result |-> "ok"]
    BY DEF OutOfReach
  <2>1. CASE n = m
    <3>1. result = "ok" /\ m \notin stalled
      BY <1>1, <2>1
    <3>2. status[m] = "sending" /\ \A k \in Jobs \ {j} : m \notin Held(k)
      BY <1>3, <3>1 DEF Safe, HoldersAlone
    <3> QED BY <1>1, <1>2, <2>1, <3>1, <3>2 DEF TypeOK
  <2>2. CASE n # m
    <3>1. copies[n] > 0 /\ n \notin stalled \cup erred
      BY <1>1, <1>6, <2>2
    <3>2. /\ status[n] \in {"sending", "sent"}
          /\ \A k \in Jobs : n \in Held(k) =>
                pc[k] = "mark" /\ cur[k] = [row |-> n, result |-> "ok"]
      BY <3>1 DEF Safe, OutOfReach
    <3> QED BY <1>1, <1>2, <3>2 DEF TypeOK
  <2> QED BY <2>1, <2>2
<1>11. Earned'
  <2>1. \A n \in Messages : status'[n] = "retry" => n \in erred'
    BY <1>1, <1>7 DEF Safe, Earned
  <2>2. ASSUME NEW k \in Jobs, pc'[k] = "mark"
        PROVE  IF cur'[k].result = "ok" THEN copies'[cur'[k].row] > 0 ELSE cur'[k].row \in erred'
    <3>1. CASE k = j
      <4>1. cur'[k].row = m /\ cur'[k].result = result
        BY <1>1, <3>1 DEF TypeOK
      <4> QED BY <1>1, <1>5, <4>1
    <3>2. CASE k # j
      <4>1. pc[k] = "mark" /\ cur'[k] = cur[k] /\ cur[k].row \in Messages
        BY <1>1, <2>2, <3>2 DEF TypeOK
      <4>2. \A n \in Messages : copies[n] > 0 => copies'[n] > 0
        BY <1>1, <1>5, <1>6 DEF TypeOK
      <4> QED BY <1>7, <4>1, <4>2 DEF Safe, Earned
    <3> QED BY <3>1, <3>2
  <2> QED BY <1>1, <2>1, <2>2 DEF Safe, Earned
<1>12. ResendExcused'
  BY <1>1, <1>4, <1>5, <1>6, <1>7 DEF Safe, ResendExcused
<1>13. FateDeserved'
  <2>1. \A n \in Messages : copies[n] > 0 => copies'[n] > 0
    BY <1>1, <1>5, <1>6 DEF TypeOK
  <2> QED BY <1>1, <1>7, <2>1 DEF Safe, FateDeserved
<1> QED
  BY <1>8, <1>9, <1>10, <1>11, <1>12, <1>13 DEF Safe

\* A mark changes one row in "sending" that no claim has locked, and gives it
\* what the job's own send has earned.
LEMMA MarkSafe ==
    ASSUME TypeOK, LockedAreDue, Safe, NEW j \in Jobs, Mark(j)
    PROVE  Safe'
<1>1. PICK m \in Messages : m = cur[j].row /\ m \in batch[j]
  BY DEF Mark, TypeOK
<1>2. PICK new \in {"sent", "retry", "failed"} : new = Verdict(j)
  BY DEF Verdict
<1>3. pc[j] = "mark" /\ Unlocked(m)
  BY <1>1 DEF Mark
<1>4. /\ new = "sent" => cur[j].result = "ok" /\ copies[m] > 0
      /\ new # "sent" => cur[j].result # "ok" /\ m \in erred
  BY <1>1, <1>2, <1>3 DEF Verdict, Safe, Earned
<1>5. /\ pc' = [pc EXCEPT ![j] = IF batch[j] = {m} THEN "idle" ELSE "send"]
      /\ batch' = [batch EXCEPT ![j] = @ \ {m}]
      /\ cur' = [cur EXCEPT ![j] = NoRow]
      /\ UNCHANGED <<copies, stalled, erred>>
  BY <1>1 DEF Mark, NextRow, history
<1>6. /\ stale' \subseteq stale
      /\ status' = [status EXCEPT ![m] = IF @ = "sending" THEN new ELSE @]
  <2>1. CASE status[m] = "sending"
    BY <1>1, <1>2, <2>1 DEF Mark, WriteMark
  <2>2. CASE status[m] # "sending"
    <3>1. UNCHANGED <<status, stale>>
      BY <1>1, <2>2 DEF Mark
    <3> QED BY <2>2, <3>1 DEF TypeOK
  <2> QED BY <2>1, <2>2
<1>7. Held(j)' = batch[j] \ {m} /\ Held(j) = batch[j] /\ \A k \in Jobs \ {j} : Held(k)' = Held(k)
  BY <1>3, <1>5 DEF Held, TypeOK
<1>8. \A n \in Messages \ {m} : status'[n] = status[n]
  BY <1>6 DEF TypeOK
<1>9. LocksHeld'
  <2> SUFFICES ASSUME NEW k \in Jobs, pc'[k] = "claim"
               PROVE  /\ \A n \in batch'[k] : status'[n] \in Deliverable \/ (status'[n] = "sending" /\ n \in stalled')
                      /\ \A i \in Jobs \ {k} : pc'[i] = "claim" => batch'[k] \cap batch'[i] = {}
    BY DEF LocksHeld
  <2>1. \A i \in Jobs : pc'[i] = "claim" => i # j /\ pc[i] = "claim" /\ batch'[i] = batch[i]
    BY <1>5 DEF TypeOK
  <2>2. m \notin batch[k] /\ batch[k] \subseteq Messages
    BY <1>3, <2>1 DEF Unlocked, TypeOK
  <2> QED BY <1>5, <1>8, <2>1, <2>2 DEF Safe, LocksHeld
<1>10. HoldersAlone'
  <2> SUFFICES ASSUME NEW k \in Jobs, NEW n \in Held(k)', n \notin stalled'
               PROVE  /\ status'[n] = "sending"
                      /\ \A i \in Jobs \ {k} : n \notin Held(i)'
    BY DEF HoldersAlone
  <2>1. n \in Held(k) /\ n \notin stalled /\ n \in Messages
    BY <1>5, <1>7 DEF Held, TypeOK
  <2>2. status[n] = "sending" /\ \A i \in Jobs \ {k} : n \notin Held(i)
    BY <2>1 DEF Safe, HoldersAlone
  <2>3. n # m
    BY <1>1, <1>7, <2>2
  <2> QED BY <1>7, <1>8, <2>1, <2>2, <2>3
<1>11. OutOfReach'
  <2> SUFFICES ASSUME NEW n \in Messages, copies[n] > 0, n \notin stalled \cup erred
               PROVE  /\ status'[n] \in {"sending", "sent"}
                      /\ \A k \in Jobs : n \in Held(k)' =>
                            pc'[k] = "mark" /\ cur'[k] = [row |-> n, result |-> "ok"]
    BY <1>5 DEF OutOfReach
  <2>1. /\ status[n] \in {"sending", "sent"}
        /\ \A k \in Jobs : n \in Held(k) =>
              pc[k] = "mark" /\ cur[k] = [row |-> n, result |-> "ok"]
    BY DEF Safe, OutOfReach
  <2>2. n = m => new = "sent"
    BY <1>4
  <2>3. status'[n] \in {"sending", "sent"}
    BY <1>6, <1>8, <2>1, <2>2 DEF TypeOK
  <2>4. n \notin Held(j)'
    BY <1>1, <1>7, <2>1
  <2> QED BY <1>5, <1>7, <2>1, <2>3, <2>4 DEF TypeOK
<1>12. Earned'
  <2>1. \A n \in Messages : status'[n] = "retry" => n \in erred
    BY <1>4, <1>6, <1>8 DEF Safe, Earned, TypeOK
  <2>2. \A k \in Jobs : pc'[k] = "mark" => pc[k] = "mark" /\ cur'[k] = cur[k]
    BY <1>5 DEF TypeOK
  <2> QED BY <1>5, <1>6, <2>1, <2>2 DEF Safe, Earned
<1>13. ResendExcused'
  BY <1>5 DEF Safe, ResendExcused
<1>14. FateDeserved'
  BY <1>4, <1>5, <1>6, <1>8 DEF Safe, FateDeserved, TypeOK
<1> QED
  BY <1>9, <1>10, <1>11, <1>12, <1>13, <1>14 DEF Safe

\* A job that dies holds less, and what it leaves in "sending" stays there
\* until the claim is stale.
LEMMA CrashSafe ==
    ASSUME TypeOK, LockedAreDue, Safe, NEW j \in Jobs, Crash(j)
    PROVE  Safe'
<1>1. /\ pc' = [pc EXCEPT ![j] = "idle"] /\ batch' = [batch EXCEPT ![j] = {}]
      /\ cur' = [cur EXCEPT ![j] = NoRow]
      /\ UNCHANGED <<status, stale, waiting, copies, stalled, erred>>
  BY DEF Crash, rows, history
<1>2. Held(j)' = {} /\ \A k \in Jobs \ {j} : Held(k)' = Held(k) /\ pc'[k] = pc[k] /\ cur'[k] = cur[k]
  BY <1>1 DEF Held, TypeOK
<1>3. LocksHeld'
  BY <1>1 DEF Safe, LocksHeld, TypeOK
<1>4. HoldersAlone'
  BY <1>1, <1>2 DEF Safe, HoldersAlone
<1>5. OutOfReach'
  BY <1>1, <1>2 DEF Safe, OutOfReach
<1>6. Earned' /\ ResendExcused' /\ FateDeserved'
  BY <1>1 DEF Safe, Earned, ResendExcused, FateDeserved, TypeOK
<1> QED
  BY <1>3, <1>4, <1>5, <1>6 DEF Safe

\* New rows and the passing of time widen nothing but stalled.
LEMMA RowSafe ==
    ASSUME TypeOK, LockedAreDue, Safe, NEW m \in Messages,
           Enqueue(m) \/ GoStale(m) \/ RetryDue(m)
    PROVE  Safe'
<1>1. UNCHANGED <<pc, batch, cur, copies, erred>> /\ stalled \subseteq stalled'
  BY DEF Enqueue, GoStale, RetryDue, history
<1>2. \A k \in Jobs : Held(k)' = Held(k) /\ Held(k) \subseteq Messages
  BY <1>1 DEF Held, TypeOK
<1>3. \A n \in Messages : \/ status'[n] = status[n]
                          \/ n = m /\ status[n] = "none" /\ status'[n] = "queued"
  BY DEF Enqueue, GoStale, RetryDue, TypeOK
<1>4. stale' \subseteq stalled'
  BY DEF Enqueue, GoStale, RetryDue, history, Safe, Earned
<1>5. LocksHeld'
  <2>1. \A k \in Jobs : batch[k] \subseteq Messages
    BY DEF TypeOK
  <2> QED BY <1>1, <1>3, <2>1 DEF Safe, LocksHeld, Deliverable
<1>6. HoldersAlone'
  BY <1>1, <1>2, <1>3 DEF Safe, HoldersAlone
<1>7. OutOfReach'
  BY <1>1, <1>2, <1>3 DEF Safe, OutOfReach
<1>8. Earned' /\ ResendExcused' /\ FateDeserved'
  BY <1>1, <1>3, <1>4 DEF Safe, Earned, ResendExcused, FateDeserved
<1> QED
  BY <1>5, <1>6, <1>7, <1>8 DEF Safe

-----------------------------------------------------------------------------

\* The invariant holds in every reachable state, for any number of mails and
\* jobs and any batch size.
THEOREM Inductive == Spec => []IInv
<1>1. Init => IInv
  BY InitTyped, InitSafe DEF IInv
<1>2. IInv /\ [Next]_vars => IInv'
  <2> SUFFICES ASSUME TypeOK, LockedAreDue, Safe, [Next]_vars PROVE IInv'
    BY DEF IInv
  <2>1. TypeOK' /\ LockedAreDue'
    BY StepTyped
  <2>2. Safe'
    <3>1. ASSUME NEW j \in Jobs, Deliver(j) \/ Crash(j) PROVE Safe'
      BY <3>1, SelectSafe, ClaimSafe, SendSafe, MarkSafe, CrashSafe DEF Deliver
    <3>2. ASSUME NEW m \in Messages, Enqueue(m) \/ GoStale(m) \/ RetryDue(m) PROVE Safe'
      BY <3>2, RowSafe
    <3>3. CASE UNCHANGED vars
      BY <3>3 DEF vars, rows, history, Safe, LocksHeld, HoldersAlone, OutOfReach, Earned,
                  ResendExcused, FateDeserved, Held
    <3> QED BY <3>1, <3>2, <3>3 DEF Next
  <2> QED BY <2>1, <2>2 DEF IInv
<1> QED
  BY <1>1, <1>2, PTL DEF Spec

\* Rows and jobs are well formed in every reachable state of deliver_once.
THEOREM OutboxTypeCorrect == Spec => []TypeOK
<1>1. IInv => TypeOK
  BY DEF IInv
<1> QED
  BY <1>1, Inductive, PTL

\* claim_email_outbox_messages gives a row to two jobs only once its claim was
\* stale, however many jobs run.
THEOREM ClaimsExclusive == Spec => []ClaimExclusive
<1>1. IInv => ClaimExclusive
  BY DEF IInv, Safe, HoldersAlone, ClaimExclusive
<1> QED
  BY <1>1, Inductive, PTL

\* deliver_once repeats a mail only after a stale claim or a reported error.
THEOREM ResendsExcused == Spec => []ResendExcused
<1>1. IInv => ResendExcused
  BY DEF IInv, Safe
<1> QED
  BY <1>1, Inductive, PTL

\* Rows marked sent went out; rows marked failed had an error.
THEOREM FatesDeserved == Spec => []FateDeserved
<1>1. IInv => FateDeserved
  BY DEF IInv, Safe
<1> QED
  BY <1>1, Inductive, PTL

\* No claim and no mark, late or not, changes a row that is sent or failed.
THEOREM TerminalForever == Spec => TerminalStays
<1> DEFINE Stays == \A m \in Messages : status[m] \in Terminal => status'[m] = status[m]
<1>1. IInv /\ [Next]_vars => [Stays]_vars
  <2> SUFFICES ASSUME TypeOK, LockedAreDue, Safe, Next PROVE Stays
    BY DEF IInv
  <2> USE DEF Terminal, TypeOK
  <2>1. ASSUME NEW j \in Jobs, Deliver(j) \/ Crash(j) PROVE Stays
    <3>1. CASE ClaimUpdate(j)
      <4>1. \A m \in batch[j] : status[m] \in Deliverable \/ (status[m] = "sending" /\ m \in stalled)
        BY <3>1 DEF ClaimUpdate, Safe, LocksHeld
      <4> QED BY <3>1, <4>1 DEF ClaimUpdate, Deliverable
    <3>2. CASE Mark(j)
      BY <3>2 DEF Mark, WriteMark
    <3>3. CASE Select(j) \/ Crash(j)
      BY <3>3 DEF Select, SelectFrom, Crash, rows
    <3>4. ASSUME NEW m \in Messages, NEW result \in Results, NEW out \in BOOLEAN,
                 Send(j, m, result, out)
          PROVE  Stays
      BY <3>4 DEF Send, rows
    <3> QED BY <2>1, <3>1, <3>2, <3>3, <3>4 DEF Deliver
  <2>2. ASSUME NEW m \in Messages, Enqueue(m) \/ GoStale(m) \/ RetryDue(m) PROVE Stays
    BY <2>2 DEF Enqueue, GoStale, RetryDue
  <2> QED BY <2>1, <2>2 DEF Next
<1>2. Spec => [][Stays]_vars
  BY <1>1, Inductive, PTL DEF Spec
<1> QED
  BY <1>2 DEF TerminalStays

-----------------------------------------------------------------------------
(* Signing keys and the key encryption key.                                *)

Storing == {"clear", "wait", "insert"}
Rotating == {"mails", "apply"}
KeyJob == [pc : {"idle"} \cup Storing \cup Rotating, kid : Kids \cup {Nobody},
           off : SUBSET Kids, keys : SUBSET Kids, mails : SUBSET Mails,
           to : Keks \cup {Nobody}]

\* The rows and the jobs, whole.
KeysTyped ==
    /\ key \in [Kids -> [status : {"none", "active", "rollover", "retired"},
                         kek : Keks \cup {Nobody}]]
    /\ sealed \in [Mails -> Keks \cup {Nobody}]
    /\ kek \in Keks \cup {Nobody} /\ window \in {"open", "paused", "doubted"}
    /\ static \in {EnvKey, Nobody} /\ production \in BOOLEAN
    /\ up \subseteq Replicas /\ signed \subseteq Kids /\ gone \subseteq Kids
    /\ pulled \in BOOLEAN /\ overtaken \in BOOLEAN /\ astray \in BOOLEAN
    /\ job \in [KeyJobs -> KeyJob]
    /\ \A k \in Kids : (key[k].status = "none") <=> (key[k].kek = Nobody)

\* The key to store: that of the environment, which other jobs may store too, or
\* one that has no row yet and no other job has; a rotate that stores the latter
\* before the import of the former is on record.
KeyChosen(j) ==
    /\ job[j].kid \in Kids
    /\ job[j].kid # static => /\ key[job[j].kid].status = "none"
                              /\ \A i \in KeyJobs \ {j} : job[i].kid # job[j].kid
                              /\ Imported \/ overtaken

\* A job that stores a key runs in service, with a KEK; a job that changes the
\* KEK runs in the window, with all rows listed.
JobsPlaced ==
    \A j \in KeyJobs :
        /\ job[j].pc \in Storing => Serving /\ kek # Nobody /\ KeyChosen(j)
        /\ job[j].pc \in Rotating =>
              /\ window = "paused" /\ j \in Commands /\ job[j].to \in Keks
              /\ job[j].keys = MaterialKeys
        /\ job[j].pc = "apply" => job[j].mails = MailsWithToken
        /\ job[j].pc \notin Storing => job[j].kid = Nobody

\* What a transaction has switched off is active for the others until it
\* commits, and locked: nobody else has switched it off.
OffLocked ==
    \A j \in KeyJobs :
        /\ job[j].off \subseteq ActiveKeys
        /\ job[j].off # {} => job[j].pc = "insert"
        /\ \A i \in KeyJobs \ {j} : job[i].off \cap job[j].off = {}

\* OneActive and OneKek, without counting.
AloneActive == \A k, l \in ActiveKeys : k = l
UnderKek(e) ==
    /\ \A k \in MaterialKeys : key[k].kek = e
    /\ \A m \in MailsWithToken : sealed[m] = e
SharedKek == ~astray => \E e \in Keks : UnderKek(e)

\* A replica that serves has what it needs, and mails need a replica.
UpSource ==
    /\ up # {} /\ production /\ kek = Nobody => static # Nobody
    /\ up # {} /\ kek # Nobody => MaterialKeys # {}
    /\ up # {} /\ kek # Nobody /\ ~pulled => ActiveKeys # {}
    /\ MaterialKeys = {} => MailsWithToken = {}

\* A key that signed has a row, or is that of the environment; and that one has a
\* row when any key has, unless a rotate came first.
SignedRows == \A k \in signed : k = static \/ key[k].status # "none"
StaticSeen == MaterialKeys = {} \/ Imported \/ overtaken
OutForGood == \A k \in gone : key[k].status = "retired" /\ k # static

\* What the rows and the histories alone decide.
RowsSafe ==
    /\ AloneActive /\ UpSource /\ SignedRows /\ StaticSeen /\ OutForGood
    /\ SharedKek /\ ServiceReads

KeysInv == KeysTyped /\ JobsPlaced /\ OffLocked /\ RowsSafe

-----------------------------------------------------------------------------
(* Sets of at most one element.                                            *)

LEMMA AtMostOne ==
    ASSUME NEW S, NEW a, S \subseteq {a} PROVE Cardinality(S) <= 1
<1>1. IsFiniteSet({a}) /\ Cardinality({a}) = 1
  BY FS_Singleton
<1> QED BY <1>1, FS_Subset

LEMMA NoPair ==
    ASSUME NEW S, IsFiniteSet(S), Cardinality(S) <= 1, NEW a \in S, NEW b \in S
    PROVE  a = b
<1> SUFFICES ASSUME a # b PROVE FALSE
  OBVIOUS
<1>1. IsFiniteSet(S \ {a}) /\ Cardinality(S \ {a}) = Cardinality(S) - 1
  BY FS_RemoveElement
<1>2. Cardinality(S) \in Nat /\ Cardinality(S \ {a}) \in Nat
  BY <1>1, FS_CardinalityType
<1>3. Cardinality(S \ {a}) = 0
  BY <1>1, <1>2
<1> QED BY <1>1, <1>3, FS_EmptySet

-----------------------------------------------------------------------------
(* Steps that leave the rows alone.                                        *)

Same == /\ ActiveKeys' = ActiveKeys /\ MaterialKeys' = MaterialKeys
        /\ MailsWithToken' = MailsWithToken /\ Imported' = Imported
LEMMA SameRows == ASSUME UNCHANGED <<key, sealed, static>> PROVE Same
BY DEF Same, ActiveKeys, Having, MaterialKeys, MailsWithToken, Imported

LEMMA RowsStay ==
    KeysInv /\ UNCHANGED <<key, sealed, kek, deployment, window, up, keysHistory>> => RowsSafe'
<1> SUFFICES ASSUME KeysInv, UNCHANGED <<key, sealed, kek, deployment, window, up, keysHistory>>
             PROVE  RowsSafe'
  OBVIOUS
<1>1. Same
  BY SameRows DEF deployment
<1>2. AloneActive' /\ UpSource' /\ SignedRows' /\ StaticSeen' /\ OutForGood'
  BY <1>1 DEF KeysInv, RowsSafe, Same, AloneActive, UpSource, SignedRows, StaticSeen, OutForGood,
     deployment, keysHistory
<1>3. SharedKek' /\ ServiceReads'
  BY <1>1 DEF KeysInv, RowsSafe, Same, SharedKek, UnderKek, ServiceReads, keysHistory
<1> QED BY <1>2, <1>3 DEF RowsSafe

\* A job that ends, or dies, holds nothing any more.
LEMMA QuitSafe ==
    ASSUME KeysInv, NEW j \in KeyJobs, Quit(j),
           UNCHANGED <<key, sealed, kek, static, window, overtaken>>
    PROVE  JobsPlaced' /\ OffLocked' /\ job' \in [KeyJobs -> KeyJob]
<1> USE DEF KeysInv, KeysTyped
<1>1. job' = [job EXCEPT ![j] = Rest] /\ Rest \in KeyJob
  BY DEF Quit, Rest, KeyJob
<1>2. Rest.pc = "idle" /\ Rest.off = {} /\ Rest.kid = Nobody
  BY DEF Rest
<1>3. \A i \in KeyJobs : job'[i] = IF i = j THEN Rest ELSE job[i]
  BY <1>1
<1>4. Same
  BY SameRows
<1>5. JobsPlaced'
  <2>1. \A i \in KeyJobs : i # j /\ KeyChosen(i) => KeyChosen(i)'
    BY <1>2, <1>3, <1>4, KeysConstants DEF KeyChosen, Same
  <2> QED BY <1>2, <1>3, <1>4, <2>1 DEF JobsPlaced, Storing, Rotating, Same, Serving
<1>6. OffLocked'
  BY <1>2, <1>3, <1>4 DEF OffLocked, Same
<1> QED BY <1>1, <1>5, <1>6

\* A job begins to store key k.
Begins(j, k) == job' = [job EXCEPT ![j] = [Rest EXCEPT !.pc = "clear", !.kid = k]]
LEMMA BeginSafe ==
    ASSUME KeysInv, NEW j \in KeyJobs, NEW k \in Kids, Begins(j, k),
           Serving, kek # Nobody, UNCHANGED <<key, sealed, kek, static, window>>,
           overtaken => overtaken',
           k # static => /\ key[k].status = "none" /\ (Imported \/ overtaken')
                         /\ \A i \in KeyJobs : job[i].kid # k
    PROVE  JobsPlaced' /\ OffLocked' /\ job' \in [KeyJobs -> KeyJob]
<1> USE DEF KeysInv, KeysTyped
<1> DEFINE new == [Rest EXCEPT !.pc = "clear", !.kid = k]
<1>1. new.pc = "clear" /\ new.kid = k /\ new.off = {} /\ new \in KeyJob
  BY DEF Rest, KeyJob, Storing
<1>2. \A i \in KeyJobs : job'[i] = IF i = j THEN new ELSE job[i]
  BY DEF Begins
<1>3. Same
  BY SameRows
<1>4. job' \in [KeyJobs -> KeyJob]
  BY <1>1 DEF Begins
<1> HIDE DEF new
<1>5. KeyChosen(j)'
  BY <1>1, <1>2, <1>3 DEF KeyChosen, Same
<1>6. \A i \in KeyJobs \ {j} : KeyChosen(i) => KeyChosen(i)'
  <2> SUFFICES ASSUME NEW i \in KeyJobs \ {j}, KeyChosen(i) PROVE KeyChosen(i)'
    OBVIOUS
  <2>1. job'[i] = job[i] /\ job'[j].kid = k
    BY <1>1, <1>2
  <2>2. job[i].kid # static => job[i].kid # k
    BY DEF KeyChosen
  <2> QED BY <1>2, <1>3, <2>1, <2>2 DEF KeyChosen, Same
<1>7. JobsPlaced'
  BY <1>1, <1>2, <1>3, <1>5, <1>6 DEF JobsPlaced, Storing, Rotating, Same, Serving
<1>8. OffLocked'
  BY <1>1, <1>2, <1>3 DEF OffLocked, Same
<1> QED BY <1>4, <1>7, <1>8

LEMMA GenerateBegins ==
    ASSUME NEW j \in KeyJobs, Generate(j)
    PROVE  \E k \in Kids : /\ Begins(j, k) /\ k # static /\ key[k].status = "none"
                            /\ \A i \in KeyJobs : job[i].kid # k
BY DEF Generate, Begins, Having

LEMMA ImportSafe ==
    ASSUME KeysInv, NEW j \in KeyJobs, ImportOrGenerate(j), Serving, kek # Nobody,
           UNCHANGED <<key, sealed, kek, static, window, overtaken>>
    PROVE  JobsPlaced' /\ OffLocked' /\ job' \in [KeyJobs -> KeyJob]
<1>1. CASE static # Nobody
  <2>1. Begins(j, static) /\ static \in Kids
    BY <1>1, KeysConstants DEF ImportOrGenerate, Begins, KeysInv, KeysTyped
  <2> QED BY <2>1, BeginSafe
<1>2. CASE static = Nobody
  <2>1. PICK k \in Kids : /\ Begins(j, k) /\ k # static /\ key[k].status = "none"
                          /\ \A i \in KeyJobs : job[i].kid # k
    BY <1>2, GenerateBegins DEF ImportOrGenerate
  <2>2. Imported
    BY <1>2 DEF Imported
  <2> QED BY <2>1, <2>2, BeginSafe
<1> QED BY <1>1, <1>2

-----------------------------------------------------------------------------
(* The steps of a job that stores a key.                                   *)

LEMMA StartReplicaSafe ==
    ASSUME KeysInv, NEW p \in Replicas, StartReplica(p) PROVE KeysInv'
<1> USE DEF KeysInv
<1>1. /\ p \in KeyJobs /\ Serving
      /\ kek = Nobody /\ static = Nobody => ~production
      /\ UNCHANGED <<key, sealed, kek, deployment, window, keysHistory>>
  BY DEF KeyJobs, StartReplica
<1>2. UNCHANGED <<static, production>> /\ UNCHANGED <<signed, pulled, gone, overtaken, astray>>
  BY <1>1 DEF deployment, keysHistory
<1>3. Same
  BY <1>1, <1>2, SameRows
<1>4. CASE (kek = Nobody \/ ActiveKeys # {}) /\ up' = up \cup {p} /\ job' = job
  <2>1. KeysTyped'
    BY <1>1, <1>2, <1>4 DEF KeysTyped
  <2>2. JobsPlaced' /\ OffLocked'
    BY <1>1, <1>2, <1>3, <1>4 DEF JobsPlaced, KeyChosen, OffLocked, Same, Serving
  <2>3. UpSource'
    <3>1. ActiveKeys # {} => MaterialKeys # {}
      BY DEF ActiveKeys, Having, MaterialKeys
    <3> QED BY <1>1, <1>2, <1>3, <1>4, <3>1 DEF RowsSafe, UpSource, Same
  <2>4. AloneActive' /\ SignedRows' /\ StaticSeen' /\ OutForGood'
    BY <1>1, <1>2, <1>3 DEF RowsSafe, AloneActive, SignedRows, StaticSeen, OutForGood, Same
  <2>5. SharedKek' /\ ServiceReads'
    BY <1>1, <1>2, <1>3 DEF RowsSafe, SharedKek, UnderKek, ServiceReads, Same
  <2> QED BY <2>1, <2>2, <2>3, <2>4, <2>5 DEF RowsSafe
<1>5. CASE kek # Nobody /\ ImportOrGenerate(p) /\ up' = up
  <2>1. RowsSafe'
    BY <1>1, <1>5, RowsStay
  <2>2. JobsPlaced' /\ OffLocked' /\ job' \in [KeyJobs -> KeyJob]
    BY <1>1, <1>2, <1>5, ImportSafe
  <2> QED BY <1>1, <1>2, <1>5, <2>1, <2>2 DEF KeysTyped
<1> QED BY <1>4, <1>5 DEF StartReplica

LEMMA EnsureCommandSafe ==
    ASSUME KeysInv, NEW c \in Commands, EnsureCommand(c) PROVE KeysInv'
<1> USE DEF KeysInv
<1>1. c \in KeyJobs /\ Serving /\ kek # Nobody /\ ImportOrGenerate(c)
      /\ UNCHANGED <<key, sealed, kek, deployment, window, up, keysHistory>>
  BY DEF KeyJobs, EnsureCommand
<1>2. UNCHANGED <<static, production>> /\ UNCHANGED <<signed, pulled, gone, overtaken, astray>>
  BY <1>1 DEF deployment, keysHistory
<1>3. RowsSafe'
  BY <1>1, RowsStay
<1>4. JobsPlaced' /\ OffLocked' /\ job' \in [KeyJobs -> KeyJob]
  BY <1>1, <1>2, ImportSafe
<1> QED BY <1>1, <1>2, <1>3, <1>4 DEF KeysTyped

LEMMA RotateCommandSafe ==
    ASSUME KeysInv, NEW c \in Commands, RotateCommand(c) PROVE KeysInv'
<1> USE DEF KeysInv
<1>1. /\ c \in KeyJobs /\ Serving /\ kek # Nobody /\ Generate(c)
      /\ overtaken' = (overtaken \/ ~Imported)
      /\ UNCHANGED <<key, sealed, kek, window, up, signed, pulled, gone, astray>>
      /\ UNCHANGED <<static, production>>
  BY DEF KeyJobs, RotateCommand, deployment
<1>2. Same
  BY <1>1, SameRows
<1>3. PICK k \in Kids : /\ Begins(c, k) /\ k # static /\ key[k].status = "none"
                        /\ \A i \in KeyJobs : job[i].kid # k
  BY <1>1, GenerateBegins
<1>4. JobsPlaced' /\ OffLocked' /\ job' \in [KeyJobs -> KeyJob]
  BY <1>1, <1>3, BeginSafe
<1>5. AloneActive' /\ UpSource' /\ SignedRows' /\ StaticSeen' /\ OutForGood'
  BY <1>1, <1>2 DEF RowsSafe, Same, AloneActive, UpSource, SignedRows, StaticSeen, OutForGood
<1>6. SharedKek' /\ ServiceReads'
  BY <1>1, <1>2 DEF RowsSafe, Same, SharedKek, UnderKek, ServiceReads
<1>7. KeysTyped'
  BY <1>1, <1>4 DEF KeysTyped
<1> QED BY <1>4, <1>5, <1>6, <1>7 DEF RowsSafe

LEMMA ChooseActiveSafe ==
    ASSUME KeysInv, NEW j \in KeyJobs, ChooseActive(j) PROVE KeysInv'
<1> USE DEF KeysInv
<1>1. RowsSafe'
  BY RowsStay DEF ChooseActive
<1>2. UNCHANGED <<key, sealed, kek, deployment, window, up, keysHistory>> /\ job[j].pc = "clear"
  BY DEF ChooseActive, JobAt
<1>3. job' = [job EXCEPT ![j] = [@ EXCEPT !.pc = "wait", !.keys = ActiveKeys]]
  BY DEF ChooseActive, KeysTyped, KeyJob
<1>4. ActiveKeys \subseteq Kids
  BY DEF ActiveKeys, Having
<1>5. KeysTyped'
  <2>1. [job[j] EXCEPT !.pc = "wait", !.keys = ActiveKeys] \in KeyJob
    BY ZenonT(60), <1>4 DEF KeysTyped, KeyJob, Storing
  <2>2. job' \in [KeyJobs -> KeyJob]
    BY <1>3, <2>1 DEF KeysTyped
  <2> QED BY <1>2, <2>2 DEF KeysTyped, deployment, keysHistory
<1>6. \A i \in KeyJobs : /\ job'[i].kid = job[i].kid /\ job'[i].off = job[i].off
                         /\ job'[i].pc = IF i = j THEN "wait" ELSE job[i].pc
                         /\ i # j => job'[i] = job[i]
  BY <1>3 DEF KeysTyped, KeyJob
<1>7. Same
  BY <1>2, SameRows DEF deployment
<1>8. JobsPlaced'
  <2>1. \A i \in KeyJobs : KeyChosen(i) => KeyChosen(i)'
    BY <1>2, <1>6, <1>7 DEF KeyChosen, Same, deployment, keysHistory
  <2> QED BY <1>2, <1>6, <1>7, <2>1 DEF JobsPlaced, Storing, Rotating, Same, Serving
<1>9. OffLocked'
  BY <1>2, <1>6, <1>7 DEF OffLocked, Same
<1> QED BY <1>1, <1>5, <1>8, <1>9

LEMMA DeactivateSafe ==
    ASSUME KeysInv, NEW j \in KeyJobs, Deactivate(j) PROVE KeysInv'
<1> USE DEF KeysInv
<1> DEFINE off == job[j].keys \cap ActiveKeys
<1>1. RowsSafe'
  BY RowsStay DEF Deactivate
<1>2. UNCHANGED <<key, sealed, kek, deployment, window, up, keysHistory>> /\ job[j].pc = "wait"
  BY DEF Deactivate, JobAt
<1>3. job' = [job EXCEPT ![j] = [@ EXCEPT !.pc = "insert", !.keys = {}, !.off = off]]
  BY DEF Deactivate, KeysTyped, KeyJob
<1>4. off \subseteq ActiveKeys /\ ActiveKeys \subseteq Kids
  BY DEF ActiveKeys, Having
<1>5. \A i \in KeyJobs \ {j} : job[i].off \cap off = {}
  BY DEF Deactivate, Locked
<1> HIDE DEF off
<1>6. KeysTyped'
  <2>1. [job[j] EXCEPT !.pc = "insert", !.keys = {}, !.off = off] \in KeyJob
    BY ZenonT(60), <1>4 DEF KeysTyped, KeyJob, Storing
  <2>2. job' \in [KeyJobs -> KeyJob]
    BY <1>3, <2>1 DEF KeysTyped
  <2> QED BY <1>2, <2>2 DEF KeysTyped, deployment, keysHistory
<1>7. \A i \in KeyJobs : /\ job'[i].kid = job[i].kid
                         /\ job'[i].off = IF i = j THEN off ELSE job[i].off
                         /\ job'[i].pc = IF i = j THEN "insert" ELSE job[i].pc
                         /\ i # j => job'[i] = job[i]
  BY <1>3 DEF KeysTyped, KeyJob
<1>8. Same
  BY <1>2, SameRows DEF deployment
<1>9. JobsPlaced'
  <2>1. \A i \in KeyJobs : KeyChosen(i) => KeyChosen(i)'
    BY <1>2, <1>7, <1>8 DEF KeyChosen, Same, deployment, keysHistory
  <2> QED BY <1>2, <1>7, <1>8, <2>1 DEF JobsPlaced, Storing, Rotating, Same, Serving
<1>10. OffLocked'
  BY <1>2, <1>4, <1>5, <1>7, <1>8 DEF OffLocked, Same
<1> QED BY <1>1, <1>6, <1>9, <1>10

\* The unique index lets the key in only if the transaction has switched off
\* every other active key, and then nobody else has switched one off.
LEMMA StoreKeySafe ==
    ASSUME KeysInv, NEW j \in KeyJobs, StoreKey(j) PROVE KeysInv'
<1> USE DEF KeysInv
<1> DEFINE k == job[j].kid
           off == job[j].off
<1>1. /\ job[j].pc = "insert" /\ k \notin Locked(j) /\ Quit(j)
      /\ UNCHANGED <<sealed, kek, static, production, window, signed, pulled, gone, overtaken>>
  BY DEF StoreKey, JobAt, Leaves, deployment
<1>2. Serving /\ kek \in Keks /\ KeyChosen(j) /\ k \in Kids
  BY <1>1 DEF JobsPlaced, Storing, KeysTyped, KeyChosen
<1>3. CASE UNCHANGED <<key, up, astray>>
  <2>1. RowsSafe'
    BY <1>1, <1>3, RowsStay DEF deployment, keysHistory
  <2>2. JobsPlaced' /\ OffLocked' /\ job' \in [KeyJobs -> KeyJob]
    BY <1>1, <1>3, QuitSafe
  <2> QED BY <1>1, <1>3, <2>1, <2>2 DEF KeysTyped
<1>4. CASE /\ IndexPermits((ActiveKeys \ off) \cup {k})
           /\ key' = [i \in Kids |->
                 IF i = k THEN [status |-> "active", kek |-> kek]
                 ELSE IF i \in off THEN [key[i] EXCEPT !.status = "rollover"]
                 ELSE key[i]]
           /\ up' = IF j \in Replicas THEN up \cup {j} ELSE up
           /\ Writes
  <2>1. off \subseteq ActiveKeys /\ ActiveKeys \subseteq off \cup {k}
    <3>1. SUFFICES ASSUME NEW a \in ActiveKeys, a \notin off, a # k PROVE FALSE
      BY DEF OffLocked
    <3>2. (ActiveKeys \ off) \cup {k} = {a, k}
      BY <3>1 DEF RowsSafe, AloneActive
    <3>3. IsFiniteSet({a, k})
      <4>1. IsFiniteSet({a}) /\ {a} \cup {k} = {a, k}
        BY FS_Singleton
      <4> QED BY <4>1, FS_AddElement
    <3>4. Cardinality({a, k}) <= 1
      BY <1>4, <3>2 DEF IndexPermits
    <3> QED BY <3>1, <3>3, <3>4, NoPair
  <2>2. /\ \A i \in Kids \ {k} : /\ key'[i].kek = key[i].kek
                                 /\ key'[i].status = IF i \in off THEN "rollover" ELSE key[i].status
        /\ key'[k] = [status |-> "active", kek |-> kek]
    BY <1>2, <1>4 DEF KeysTyped
  <2>3. \A i \in Kids \ {k} : i \in off <=> key[i].status = "active"
    BY <2>1 DEF ActiveKeys, Having
  <2>4. \A i \in Kids \ {k} : (key'[i].status = "none") <=> (key[i].status = "none")
    BY <2>2, <2>3
  <2>5. ActiveKeys' = {k}
    BY <1>2, <2>2, <2>3 DEF ActiveKeys, Having
  <2>6. MaterialKeys' = MaterialKeys \cup {k} /\ MailsWithToken' = MailsWithToken
    BY <1>1, <1>2, <2>2, <2>4 DEF MaterialKeys, MailsWithToken
  <2>7. Imported' <=> (Imported \/ k = static)
    BY <1>1, <1>2, <2>2, <2>4, KeysConstants DEF Imported, KeysTyped
  <2>8. \A i \in KeyJobs : job'[i] = IF i = j THEN Rest ELSE job[i]
    BY <1>1 DEF Quit, KeysTyped
  <2>9. Rest.pc = "idle" /\ Rest.off = {} /\ Rest.kid = Nobody /\ Rest \in KeyJob
    BY DEF Rest, KeyJob
  <2>10. KeysTyped'
    <3>1. key' \in [Kids -> [status : {"none", "active", "rollover", "retired"},
                             kek : Keks \cup {Nobody}]]
      BY <1>2, <1>4 DEF KeysTyped
    <3>2. \A i \in Kids : (key'[i].status = "none") <=> (key'[i].kek = Nobody)
      BY <1>2, <2>2, <2>4, KeysConstants DEF KeysTyped
    <3>3. job' \in [KeyJobs -> KeyJob]
      BY <1>1, <2>9 DEF Quit, KeysTyped
    <3>4. up' \subseteq Replicas
      BY <1>4 DEF KeysTyped
    <3>5. astray' \in BOOLEAN
      BY <1>4 DEF Writes
    <3> QED BY <1>1, <3>1, <3>2, <3>3, <3>4, <3>5 DEF KeysTyped
  <2>11. JobsPlaced'
    <3>1. \A i \in KeyJobs \ {j} : KeyChosen(i) => KeyChosen(i)'
      <4> SUFFICES ASSUME NEW i \in KeyJobs \ {j}, KeyChosen(i) PROVE KeyChosen(i)'
        OBVIOUS
      <4>1. job[i].kid # static => job[i].kid # k
        BY DEF KeyChosen
      <4>2. job'[i] = job[i] /\ job'[j].kid = Nobody
        BY <2>8, <2>9
      <4> QED BY <1>1, <2>4, <2>7, <2>8, <4>1, <4>2, KeysConstants DEF KeyChosen
    <3>2. \A i \in KeyJobs : job[i].pc \notin Rotating
      BY <1>2 DEF JobsPlaced, Serving
    <3> QED BY <1>1, <2>8, <2>9, <3>1, <3>2 DEF JobsPlaced, Storing, Rotating, Serving
  <2>12. OffLocked'
    <3>1. \A i \in KeyJobs \ {j} : k \notin job[i].off
      BY <1>1 DEF Locked
    <3>2. \A i \in KeyJobs \ {j} : job[i].off = {}
      BY <2>1, <3>1 DEF OffLocked
    <3> QED BY <2>8, <2>9, <3>2 DEF OffLocked
  <2>13. AloneActive' /\ UpSource'
    BY <1>1, <1>2, <2>5, <2>6, KeysConstants DEF RowsSafe, AloneActive, UpSource
  <2>14. SignedRows' /\ StaticSeen'
    <3>1. SignedRows'
      BY <1>1, <1>2, <2>2, <2>4 DEF RowsSafe, SignedRows, KeysTyped
    <3> QED BY <1>1, <1>2, <2>7, <3>1 DEF StaticSeen, KeyChosen
  <2>15. OutForGood'
    <3>1. k \notin gone
      BY <1>2 DEF RowsSafe, OutForGood, KeyChosen
    <3> QED BY <1>1, <2>2, <2>3, <3>1 DEF RowsSafe, OutForGood, KeysTyped
  <2>16. SharedKek' /\ ServiceReads'
    <3>1. CASE window = "open" /\ ~astray
      <4>1. /\ \A i \in Kids : key'[i].status # "none" => key'[i].kek = kek
            /\ \A m \in MailsWithToken : sealed[m] = kek
        BY <1>2, <2>2, <2>4, <3>1 DEF RowsSafe, ServiceReads
      <4>2. UnderKek(kek)'
        BY <1>1, <2>6, <4>1 DEF UnderKek, MaterialKeys
      <4> QED BY <1>1, <1>2, <2>6, <4>1, <4>2 DEF SharedKek, ServiceReads
    <3>2. CASE window = "doubted" \/ astray
      BY <1>4, <3>2 DEF Writes, SharedKek, ServiceReads
    <3> QED BY <1>2, <3>1, <3>2 DEF Serving, KeysTyped
  <2> QED BY <2>10, <2>11, <2>12, <2>13, <2>14, <2>15, <2>16 DEF RowsSafe
<1> QED BY <1>3, <1>4 DEF StoreKey

LEMMA RetireSafe ==
    ASSUME KeysInv, NEW k \in Kids, RetireCommand(k) PROVE KeysInv'
<1> USE DEF KeysInv
<1>1. /\ Serving /\ key[k].status \in {"active", "rollover"}
      /\ key' = [key EXCEPT ![k].status = "retired"]
      /\ pulled' = (pulled \/ key[k].status = "active") /\ gone' = gone \cup ({k} \ {static})
      /\ UNCHANGED <<sealed, kek, static, production, window, up, job, signed, overtaken, astray>>
  BY DEF RetireCommand, deployment
<1>2. \A j \in KeyJobs : k \notin job[j].off
  BY KeysConstants DEF RetireCommand, Locked, KeyJobs
<1>3. \A i \in Kids : /\ key'[i].kek = key[i].kek
                      /\ key'[i].status = IF i = k THEN "retired" ELSE key[i].status
  BY <1>1 DEF KeysTyped
<1>4. ActiveKeys' = ActiveKeys \ {k} /\ MaterialKeys' = MaterialKeys /\ MailsWithToken' = MailsWithToken
  BY <1>1, <1>3 DEF ActiveKeys, Having, MaterialKeys, MailsWithToken
<1>5. Imported' = Imported
  BY <1>1, <1>3, KeysConstants DEF Imported, KeysTyped
<1>6. KeysTyped'
  <2>1. key' \in [Kids -> [status : {"none", "active", "rollover", "retired"},
                           kek : Keks \cup {Nobody}]]
    BY <1>1 DEF KeysTyped
  <2>2. pulled' \in BOOLEAN
    BY <1>1
  <2> QED BY <1>1, <1>3, <2>1, <2>2 DEF KeysTyped
<1>7. JobsPlaced'
  <2>1. \A j \in KeyJobs : KeyChosen(j) => KeyChosen(j)'
    BY <1>1, <1>3, <1>5 DEF KeyChosen
  <2> QED BY <1>1, <1>3, <1>4, <2>1 DEF JobsPlaced, Storing, Rotating, Serving
<1>8. OffLocked'
  BY <1>1, <1>2, <1>4 DEF OffLocked
<1>9. AloneActive' /\ UpSource'
  <2>1. key[k].status # "active" => k \notin ActiveKeys
    BY DEF ActiveKeys, Having
  <2> QED BY <1>1, <1>4, <2>1 DEF RowsSafe, AloneActive, UpSource
<1>10. SignedRows' /\ StaticSeen' /\ OutForGood'
  BY <1>1, <1>3, <1>4, <1>5 DEF RowsSafe, SignedRows, StaticSeen, OutForGood, KeysTyped
<1>11. SharedKek' /\ ServiceReads'
  BY <1>1, <1>3, <1>4 DEF RowsSafe, SharedKek, UnderKek, ServiceReads, MaterialKeys
<1> QED BY <1>6, <1>7, <1>8, <1>9, <1>10, <1>11 DEF RowsSafe

-----------------------------------------------------------------------------
(* The services, and what may stop them.                                   *)

LEMMA SignTokenSafe ==
    ASSUME KeysInv, NEW p \in Replicas, SignToken(p) PROVE KeysInv'
<1> USE DEF KeysInv
<1>1. PICK k \in Signers : signed' = signed \cup {k}
  BY DEF SignToken
<1>2. UNCHANGED <<key, sealed, kek, static, production, window, up, job, pulled, gone, overtaken, astray>>
  BY DEF SignToken, deployment
<1>3. k \in Kids /\ (k = static \/ key[k].status # "none")
  BY KeysConstants DEF Signers, ActiveKeys, Having, KeysTyped
<1>4. Same
  BY <1>2, SameRows
<1>5. KeysTyped'
  BY <1>1, <1>2, <1>3 DEF KeysTyped
<1>6. JobsPlaced' /\ OffLocked'
  BY <1>2, <1>4 DEF JobsPlaced, KeyChosen, OffLocked, Same, Serving
<1>7. AloneActive' /\ UpSource' /\ StaticSeen' /\ OutForGood' /\ SharedKek' /\ ServiceReads'
  BY <1>2, <1>4 DEF RowsSafe, Same, AloneActive, UpSource, StaticSeen, OutForGood, SharedKek,
     ServiceReads, UnderKek
<1>8. SignedRows'
  BY <1>1, <1>2, <1>3 DEF RowsSafe, SignedRows
<1> QED BY <1>5, <1>6, <1>7, <1>8 DEF RowsSafe

LEMMA SealSafe ==
    ASSUME KeysInv, NEW x \in Mails, Seal(x) PROVE KeysInv'
<1> USE DEF KeysInv
<1>1. /\ Serving /\ up # {} /\ sealed' = [sealed EXCEPT ![x] = kek] /\ kek \in Keks /\ Writes
      /\ UNCHANGED <<key, kek, static, production, window, up, job, signed, pulled, gone, overtaken>>
  BY DEF Seal, KeysTyped, deployment
<1>2. ActiveKeys' = ActiveKeys /\ MaterialKeys' = MaterialKeys /\ Imported' = Imported
  BY <1>1 DEF ActiveKeys, Having, MaterialKeys, Imported
<1>3. \A m \in Mails : sealed'[m] = IF m = x THEN kek ELSE sealed[m]
  BY <1>1 DEF KeysTyped
<1>4. KeysTyped'
  <2>1. astray' \in BOOLEAN
    BY <1>1 DEF Writes
  <2> QED BY <1>1, <2>1 DEF KeysTyped
<1>5. JobsPlaced' /\ OffLocked'
  <2>1. \A j \in KeyJobs : job[j].pc \notin Rotating /\ (KeyChosen(j) => KeyChosen(j)')
    BY <1>1, <1>2 DEF JobsPlaced, KeyChosen, Serving
  <2> QED BY <1>1, <1>2, <2>1 DEF JobsPlaced, OffLocked, Storing, Rotating, Serving
<1>6. AloneActive' /\ SignedRows' /\ StaticSeen' /\ OutForGood'
  BY <1>1, <1>2 DEF RowsSafe, AloneActive, SignedRows, StaticSeen, OutForGood
<1>7. UpSource'
  BY <1>1, <1>2, KeysConstants DEF RowsSafe, UpSource
<1>8. SharedKek' /\ ServiceReads'
  <2>1. CASE window = "open" /\ ~astray
    <3>1. ServiceReads'
      BY <1>1, <1>3, <2>1 DEF RowsSafe, ServiceReads, MailsWithToken
    <3>2. ~astray'
      BY <1>1, <2>1 DEF Writes
    <3>3. UnderKek(kek)'
      BY <1>1, <2>1, <3>1, <3>2 DEF ServiceReads, UnderKek, MaterialKeys
    <3> QED BY <1>1, <3>1, <3>3 DEF SharedKek
  <2>2. CASE window = "doubted" \/ astray
    BY <1>1, <2>2 DEF Writes, SharedKek, ServiceReads
  <2> QED BY <1>1, <2>1, <2>2 DEF Serving, KeysTyped
<1> QED BY <1>4, <1>5, <1>6, <1>7, <1>8 DEF RowsSafe

LEMMA DieSafe ==
    ASSUME KeysInv, NEW j \in KeyJobs, Die(j) PROVE KeysInv'
<1> USE DEF KeysInv
<1>1. /\ up' = up \ {j} /\ Quit(j)
      /\ UNCHANGED <<key, sealed, kek, static, production, window>>
      /\ UNCHANGED <<signed, pulled, gone, overtaken, astray>>
  BY DEF Die, Leaves, deployment, keysHistory
<1>2. JobsPlaced' /\ OffLocked' /\ job' \in [KeyJobs -> KeyJob]
  BY <1>1, QuitSafe
<1>3. KeysTyped'
  BY <1>1, <1>2 DEF KeysTyped
<1>4. Same
  BY <1>1, SameRows
<1>5. UpSource'
  <2>1. up' # {} => up # {}
    BY <1>1
  <2> QED BY <1>1, <1>4, <2>1 DEF RowsSafe, UpSource, Same
<1>6. AloneActive' /\ SignedRows' /\ StaticSeen' /\ OutForGood' /\ SharedKek' /\ ServiceReads'
  BY <1>1, <1>4 DEF RowsSafe, Same, AloneActive, SignedRows, StaticSeen, OutForGood, SharedKek,
     ServiceReads, UnderKek
<1> QED BY <1>2, <1>3, <1>5, <1>6 DEF RowsSafe

-----------------------------------------------------------------------------
(* The maintenance window.                                                 *)

LEMMA PauseSafe == ASSUME KeysInv, Pause PROVE KeysInv'
<1> USE DEF KeysInv
<1>1. /\ window' = "paused" /\ \A j \in KeyJobs : job[j].pc = "idle"
      /\ UNCHANGED <<key, sealed, kek, static, production, up, job>>
      /\ UNCHANGED <<signed, pulled, gone, overtaken, astray>>
  BY DEF Pause, JobAt, deployment, keysHistory
<1>2. KeysTyped'
  BY <1>1 DEF KeysTyped
<1>3. Same
  BY <1>1, SameRows
<1>4. JobsPlaced' /\ OffLocked'
  BY <1>1, <1>3 DEF JobsPlaced, OffLocked, Same, Storing, Rotating
<1>5. AloneActive' /\ UpSource' /\ SignedRows' /\ StaticSeen' /\ OutForGood'
  BY <1>1, <1>3 DEF RowsSafe, Same, AloneActive, UpSource, SignedRows, StaticSeen, OutForGood
<1>6. SharedKek' /\ ServiceReads'
  BY <1>1, <1>3 DEF RowsSafe, Same, SharedKek, ServiceReads, UnderKek
<1> QED BY <1>2, <1>4, <1>5, <1>6 DEF RowsSafe

LEMMA ListKeysSafe ==
    ASSUME KeysInv, NEW c \in Commands, NEW e \in Keks, ListKeys(c, e) PROVE KeysInv'
<1> USE DEF KeysInv
<1> DEFINE new == [Rest EXCEPT !.pc = "mails", !.to = e, !.keys = MaterialKeys]
<1>1. c \in KeyJobs /\ window = "paused" /\ job' = [job EXCEPT ![c] = new]
      /\ UNCHANGED <<key, sealed, kek, deployment, window, up, keysHistory>>
  BY DEF ListKeys, KeyJobs
<1>2. RowsSafe'
  BY <1>1, RowsStay
<1>3. /\ new.pc = "mails" /\ new.to = e /\ new.keys = MaterialKeys
      /\ new.kid = Nobody /\ new.off = {} /\ new \in KeyJob
  BY DEF Rest, KeyJob, Rotating, MaterialKeys
<1>4. \A i \in KeyJobs : job'[i] = IF i = c THEN new ELSE job[i]
  BY <1>1 DEF KeysTyped
<1>5. KeysTyped'
  BY <1>1, <1>3 DEF KeysTyped, deployment, keysHistory
<1>6. Same
  BY <1>1, SameRows DEF deployment
<1> HIDE DEF new
<1>7. JobsPlaced'
  <2>1. \A i \in KeyJobs \ {c} : KeyChosen(i) => KeyChosen(i)'
    BY <1>1, <1>3, <1>4, <1>6, KeysConstants DEF KeyChosen, Same, deployment, keysHistory
  <2> QED BY <1>1, <1>3, <1>4, <1>6, <2>1 DEF JobsPlaced, Storing, Rotating, Same, Serving
<1>8. OffLocked'
  BY <1>3, <1>4, <1>6 DEF OffLocked, Same
<1> QED BY <1>2, <1>5, <1>7, <1>8

LEMMA ListMailsSafe ==
    ASSUME KeysInv, NEW c \in Commands, ListMails(c) PROVE KeysInv'
<1> USE DEF KeysInv
<1>1. c \in KeyJobs /\ job[c].pc = "mails"
      /\ UNCHANGED <<key, sealed, kek, deployment, window, up, keysHistory>>
  BY DEF ListMails, KeyJobs, JobAt
<1>2. RowsSafe'
  BY <1>1, RowsStay
<1>3. CASE Quit(c)
  BY <1>1, <1>2, <1>3, QuitSafe DEF KeysTyped, deployment, keysHistory
<1>4. CASE job' = [job EXCEPT ![c].pc = "apply", ![c].mails = MailsWithToken]
  <2> DEFINE new == [job[c] EXCEPT !.pc = "apply", !.mails = MailsWithToken]
  <2>1. job' = [job EXCEPT ![c] = new]
    BY <1>4 DEF KeysTyped, KeyJob
  <2>2. /\ new.pc = "apply" /\ new.mails = MailsWithToken /\ new.off = job[c].off
        /\ new.kid = job[c].kid /\ new.keys = job[c].keys /\ new.to = job[c].to
        /\ new \in KeyJob
    BY ZenonT(60), <1>1 DEF KeysTyped, KeyJob, Rotating, MailsWithToken
  <2>3. \A i \in KeyJobs : job'[i] = IF i = c THEN new ELSE job[i]
    BY <1>1, <2>1 DEF KeysTyped
  <2>4. Same
    BY <1>1, SameRows DEF deployment
  <2>5. KeysTyped'
    BY <1>1, <2>1, <2>2 DEF KeysTyped, deployment, keysHistory
  <2> HIDE DEF new
  <2>6. JobsPlaced'
    <3>1. \A i \in KeyJobs : KeyChosen(i) => KeyChosen(i)'
      BY <1>1, <2>2, <2>3, <2>4 DEF KeyChosen, Same, deployment, keysHistory
    <3> QED BY <1>1, <2>2, <2>3, <2>4, <3>1 DEF JobsPlaced, Storing, Rotating, Same, Serving
  <2>7. OffLocked'
    BY <1>1, <2>2, <2>3, <2>4 DEF OffLocked, Same
  <2> QED BY <1>2, <2>5, <2>6, <2>7
<1> QED BY <1>3, <1>4 DEF ListMails

\* All rows that hold a ciphertext are listed, so they move to one KEK at once.
LEMMA ApplySafe ==
    ASSUME KeysInv, NEW c \in Commands, Apply(c) PROVE KeysInv'
<1> USE DEF KeysInv
<1>1. /\ c \in KeyJobs /\ job[c].pc = "apply" /\ Quit(c)
      /\ key' = Reencrypted(c) /\ sealed' = Resealed(c)
      /\ UNCHANGED <<kek, static, production, window, up, signed, pulled, gone, overtaken, astray>>
  BY DEF Apply, KeyJobs, JobAt, Leaves, deployment, keysHistory
<1>2. /\ window = "paused" /\ job[c].to \in Keks
      /\ job[c].keys = MaterialKeys /\ job[c].mails = MailsWithToken
  BY <1>1 DEF JobsPlaced, Rotating
<1>3. \A k \in Kids : /\ key'[k].status = key[k].status
                      /\ key'[k].kek = IF k \in MaterialKeys THEN job[c].to ELSE key[k].kek
  BY <1>1, <1>2 DEF Reencrypted, KeysTyped
<1>4. \A m \in Mails : sealed'[m] = IF m \in MailsWithToken THEN job[c].to ELSE sealed[m]
  BY <1>1, <1>2 DEF Resealed
<1>5. ActiveKeys' = ActiveKeys /\ MaterialKeys' = MaterialKeys /\ MailsWithToken' = MailsWithToken
  BY <1>2, <1>3, <1>4, KeysConstants DEF ActiveKeys, Having, MaterialKeys, MailsWithToken
<1>6. \A i \in KeyJobs : job'[i] = IF i = c THEN Rest ELSE job[i]
  BY <1>1 DEF Quit, KeysTyped
<1>7. Rest.pc = "idle" /\ Rest.off = {} /\ Rest.kid = Nobody /\ Rest \in KeyJob
  BY DEF Rest, KeyJob
<1>8. KeysTyped'
  <2>1. key' \in [Kids -> [status : {"none", "active", "rollover", "retired"},
                           kek : Keks \cup {Nobody}]]
    BY <1>1, <1>2 DEF KeysTyped, Reencrypted
  <2>2. \A k \in Kids : (key'[k].status = "none") <=> (key'[k].kek = Nobody)
    BY <1>2, <1>3, KeysConstants DEF KeysTyped, MaterialKeys
  <2>3. sealed' \in [Mails -> Keks \cup {Nobody}]
    BY <1>1, <1>2 DEF KeysTyped, Resealed
  <2>4. job' \in [KeyJobs -> KeyJob]
    BY <1>1, <1>7 DEF Quit, KeysTyped
  <2> QED BY <1>1, <2>1, <2>2, <2>3, <2>4 DEF KeysTyped
<1>9. Imported' = Imported
  BY <1>1, <1>3, KeysConstants DEF Imported, KeysTyped
<1>10. JobsPlaced'
  BY <1>1, <1>2, <1>5, <1>6, <1>7 DEF JobsPlaced, Storing, Rotating, Serving
<1>11. OffLocked'
  BY <1>5, <1>6, <1>7 DEF OffLocked
<1>12. AloneActive' /\ UpSource'
  BY <1>1, <1>5 DEF RowsSafe, AloneActive, UpSource
<1>13. SignedRows' /\ StaticSeen' /\ OutForGood'
  BY <1>1, <1>3, <1>5, <1>9 DEF RowsSafe, SignedRows, StaticSeen, OutForGood, KeysTyped
<1>14. SharedKek' /\ ServiceReads'
  <2>1. \A k \in MaterialKeys : key'[k].kek = job[c].to
    BY <1>3 DEF MaterialKeys
  <2>2. \A m \in MailsWithToken : sealed'[m] = job[c].to
    BY <1>4 DEF MailsWithToken
  <2> QED BY <1>1, <1>2, <1>5, <2>1, <2>2 DEF SharedKek, UnderKek, ServiceReads
<1> QED BY <1>8, <1>10, <1>11, <1>12, <1>13, <1>14 DEF RowsSafe

\* Preflight tries the active key only; since all rows are under one KEK, what it
\* finds there is true of the others.
LEMMA ResumeSafe ==
    ASSUME KeysInv, NEW e \in Keks \cup {Nobody}, Resume(e) PROVE KeysInv'
<1> USE DEF KeysInv
<1>1. /\ kek' = e /\ up' = {} /\ window = "paused"
      /\ window' = IF Vouched(e) THEN "open" ELSE "doubted"
      /\ \A c \in Commands : job[c].pc = "idle"
      /\ UNCHANGED <<key, sealed, static, production, job>>
      /\ UNCHANGED <<signed, pulled, gone, overtaken, astray>>
  BY DEF Resume, JobAt, deployment, keysHistory
<1>2. ASSUME Vouched(e), ~astray
      PROVE  /\ \A k \in Kids : key[k].status # "none" => key[k].kek = e
             /\ \A m \in MailsWithToken : sealed[m] = e
  <2>1. "undecryptable" \notin PreflightFailures(e)
    BY <1>2 DEF Vouched
  <2>2. \A k \in ActiveKeys : key[k].kek = e
    BY <2>1 DEF PreflightFailures
  <2>3. ASSUME NEW k \in ActiveKeys PROVE UnderKek(e)
    BY <1>2, <2>2, <2>3 DEF RowsSafe, SharedKek, UnderKek, ActiveKeys, Having, MaterialKeys
  <2>4. CASE ActiveKeys = {}
    <3>1. MaterialKeys = {}
      BY <1>2, <2>4 DEF Vouched
    <3>2. MailsWithToken = {}
      BY <3>1 DEF RowsSafe, UpSource
    <3> QED BY <3>1, <3>2 DEF MaterialKeys
  <2> QED BY <2>3, <2>4 DEF UnderKek, MaterialKeys
<1>3. KeysTyped'
  BY <1>1 DEF KeysTyped
<1>4. Same
  BY <1>1, SameRows
<1>5. \A j \in KeyJobs : job[j].pc \notin Storing \cup Rotating
  BY <1>1 DEF JobsPlaced, Storing, Rotating, Serving
<1>6. JobsPlaced' /\ OffLocked'
  BY <1>1, <1>4, <1>5 DEF JobsPlaced, OffLocked, Same, Storing, Rotating
<1>7. AloneActive' /\ UpSource' /\ SignedRows' /\ StaticSeen' /\ OutForGood'
  BY <1>1, <1>4 DEF RowsSafe, Same, AloneActive, UpSource, SignedRows, StaticSeen, OutForGood
<1>8. SharedKek'
  BY <1>1, <1>4 DEF RowsSafe, Same, SharedKek, UnderKek
<1>9. ServiceReads'
  <2> SUFFICES ASSUME window' = "open", ~astray'
               PROVE  /\ \A k \in Kids : key'[k].status # "none" => key'[k].kek = kek'
                      /\ \A m \in MailsWithToken' : sealed'[m] = kek'
    BY DEF ServiceReads
  <2>1. Vouched(e) /\ ~astray
    BY <1>1
  <2> QED BY <1>1, <1>2, <1>4, <2>1 DEF Same
<1> QED BY <1>3, <1>6, <1>7, <1>8, <1>9 DEF RowsSafe

-----------------------------------------------------------------------------
(* The invariant, and what it is for.                                      *)

LEMMA KeysInitially == KeysInit => KeysInv
<1> SUFFICES ASSUME KeysInit PROVE KeysInv
  OBVIOUS
<1> USE DEF KeysInit
<1>1. kek \in Keks \cup {Nobody} /\ static \in {EnvKey, Nobody} /\ production \in BOOLEAN
  BY KeysConstants
<1>2. ActiveKeys = {} /\ MaterialKeys = {} /\ MailsWithToken = {}
  BY DEF ActiveKeys, Having, MaterialKeys, MailsWithToken
<1>3. Rest.pc = "idle" /\ Rest.off = {} /\ Rest.kid = Nobody /\ Rest \in KeyJob
  BY DEF Rest, KeyJob
<1>4. KeysTyped
  BY <1>1, <1>3 DEF KeysTyped
<1>5. JobsPlaced /\ OffLocked
  BY <1>3 DEF JobsPlaced, OffLocked, Storing, Rotating
<1>6. AloneActive /\ UpSource /\ SignedRows /\ StaticSeen /\ OutForGood
  BY <1>2 DEF AloneActive, UpSource, SignedRows, StaticSeen, OutForGood
<1>7. SharedKek /\ ServiceReads
  BY <1>2, KeysConstants DEF SharedKek, UnderKek, ServiceReads
<1> QED BY <1>4, <1>5, <1>6, <1>7 DEF KeysInv, RowsSafe

LEMMA KeysStep == KeysInv /\ [KeysNext]_keysVars => KeysInv'
<1> SUFFICES ASSUME KeysInv, [KeysNext]_keysVars PROVE KeysInv'
  OBVIOUS
<1>1. CASE UNCHANGED keysVars
  <2>1. RowsSafe'
    BY <1>1, RowsStay DEF keysVars
  <2>2. Same
    BY <1>1, SameRows DEF keysVars, deployment
  <2> QED BY <1>1, <2>1, <2>2 DEF keysVars, deployment, keysHistory, KeysInv, KeysTyped, JobsPlaced,
         KeyChosen, OffLocked, Same, Serving
<1>2. CASE KeysNext
  <2>1. ASSUME NEW p \in Replicas, StartReplica(p) \/ SignToken(p) PROVE KeysInv'
    BY <2>1, StartReplicaSafe, SignTokenSafe
  <2>2. ASSUME NEW c \in Commands,
               EnsureCommand(c) \/ RotateCommand(c) \/ ListMails(c) \/ Apply(c)
        PROVE  KeysInv'
    BY <2>2, EnsureCommandSafe, RotateCommandSafe, ListMailsSafe, ApplySafe
  <2>3. ASSUME NEW j \in KeyJobs, ChooseActive(j) \/ Deactivate(j) \/ StoreKey(j) \/ Die(j)
        PROVE  KeysInv'
    BY <2>3, ChooseActiveSafe, DeactivateSafe, StoreKeySafe, DieSafe
  <2>4. ASSUME NEW k \in Kids, RetireCommand(k) PROVE KeysInv'
    BY <2>4, RetireSafe
  <2>5. ASSUME NEW x \in Mails, Seal(x) PROVE KeysInv'
    BY <2>5, SealSafe
  <2>6. ASSUME NEW e \in Keks, NEW c \in Commands, ListKeys(c, e) PROVE KeysInv'
    BY <2>6, ListKeysSafe
  <2>7. CASE Pause
    BY <2>7, PauseSafe
  <2>8. ASSUME NEW e \in Keks \cup {Nobody}, Resume(e) PROVE KeysInv'
    BY <2>8, ResumeSafe
  <2> QED BY <1>2, <2>1, <2>2, <2>3, <2>4, <2>5, <2>6, <2>7, <2>8 DEF KeysNext
<1> QED BY <1>1, <1>2

LEMMA KeysInvariant == KeysSpec => []KeysInv
BY KeysInitially, KeysStep, PTL DEF KeysSpec

\* upsert_signing_key_material, however many replicas start, import or generate
\* and operators rotate or retire at once: one key signs, a production replica
\* that preflight accepts has one, what was signed verifies unless its key was
\* retired or, for the key of the environment, a rotate came before its import,
\* and no other retired key comes back.
THEOREM SigningKeysHold == KeysSpec => []KeysHold
<1>1. KeysInv => KeysHold
  <2> SUFFICES ASSUME KeysInv PROVE KeysHold
    OBVIOUS
  <2> USE DEF KeysInv
  <2>1. KeysTypeOK
    BY DEF KeysTypeOK, KeysTyped, OffLocked
  <2>2. OneActive
    <3>1. CASE ActiveKeys = {}
      BY <3>1, AtMostOne DEF OneActive
    <3>2. ASSUME NEW a \in ActiveKeys PROVE OneActive
      <4>1. ActiveKeys \subseteq {a}
        BY DEF RowsSafe, AloneActive
      <4> QED BY <4>1, AtMostOne DEF OneActive
    <3> QED BY <3>1, <3>2
  <2>3. UpMeansKey
    <3> SUFFICES ASSUME up # {}, production, window = "open", ~pulled, ~astray
                 PROVE  Signers # {}
      BY DEF UpMeansKey
    <3>1. CASE kek = Nobody
      BY <3>1 DEF RowsSafe, UpSource, Signers
    <3>2. CASE kek # Nobody
      <4>1. PICK a \in ActiveKeys : TRUE
        BY <3>2 DEF RowsSafe, UpSource
      <4>2. a \in Kids /\ key[a].status # "none"
        BY <4>1 DEF ActiveKeys, Having
      <4>3. key[a].kek = kek
        BY <4>2 DEF RowsSafe, ServiceReads
      <4> QED BY <3>2, <4>1, <4>3 DEF Signers
    <3> QED BY <3>1, <3>2
  <2>4. SignedVerifies
    <3> SUFFICES ASSUME NEW k \in signed, key[k].status # "retired"
                 PROVE  k \in Published \/ (overtaken /\ k = static /\ key[k].status = "none")
      BY DEF SignedVerifies
    <3>1. k \in Kids /\ key[k].status \in {"none", "active", "rollover"}
      BY DEF KeysTyped
    <3>2. CASE key[k].status # "none"
      BY <3>1, <3>2 DEF Published, ActiveJwks, ActiveKeys, Having
    <3>3. CASE key[k].status = "none"
      <4>1. k = static /\ ~Imported
        BY <3>1, <3>3, KeysConstants DEF RowsSafe, SignedRows, Imported
      <4>2. CASE MaterialKeys = {}
        BY <3>1, <4>1, <4>2, KeysConstants DEF Published, ActiveJwks, ActiveKeys, Having, MaterialKeys
      <4> QED BY <3>3, <4>1, <4>2 DEF RowsSafe, StaticSeen
    <3> QED BY <3>2, <3>3
  <2>5. RetiredStaysOut
    BY DEF RowsSafe, OutForGood, RetiredStaysOut
  <2> QED BY <2>1, <2>2, <2>3, <2>4, <2>5 DEF KeysHold
<1> QED BY <1>1, KeysInvariant, PTL

\* apply_key_encryption_rotation and the restart after it: signing keys and queued
\* mails are under one KEK at every moment, also when the command dies or two of
\* them run, as long as nothing is written under a KEK that preflight refuses, and
\* a KEK that it accepts opens them all.
THEOREM OneKekAlways == KeysSpec => []KekHolds
<1>1. KeysInv => KekHolds
  <2> SUFFICES ASSUME KeysInv PROVE KekHolds
    OBVIOUS
  <2>1. OneKek
    <3> SUFFICES ASSUME ~astray
                 PROVE  Cardinality({key[k].kek : k \in MaterialKeys}
                                      \cup {sealed[m] : m \in MailsWithToken}) <= 1
      BY DEF OneKek
    <3>1. PICK e \in Keks : UnderKek(e)
      BY DEF KeysInv, RowsSafe, SharedKek
    <3>2. {key[k].kek : k \in MaterialKeys} \cup {sealed[m] : m \in MailsWithToken} \subseteq {e}
      BY <3>1 DEF UnderKek
    <3> QED BY <3>2, AtMostOne
  <2> QED BY <2>1 DEF KekHolds, KeysInv, RowsSafe
<1> QED BY <1>1, KeysInvariant, PTL

-----------------------------------------------------------------------------
(* Rate limiting.                                                          *)

PCs == {"idle", "enforce", "judge", "again", "factor", "clear", "record", "store"}
Bucket == [attempts : Nat, start : Nat, until : Nat]
Attempt == [op : {"none", "reauth", "password"} \cup Surfaces, pc : PCs, src : Keys,
            keys : Seq(Keys), at : Nat, seen : Bucket, lock : BOOLEAN]

\* The keys an attempt has still to read or to charge.
Left(r) == {r.keys[i] : i \in DOMAIN r.keys}

\* The buckets a wrong guess of the attempt will be charged to.
Charged(r) ==
    IF r.pc \in {"again", "factor"} \/ r.op \in {"reauth", "password"}
    THEN {Account, r.src} ELSE {r.src}

\* The attempt has read bucket k as open and may still be judged against it.
Past(r, k) == r.pc \in {"enforce", "again", "judge", "factor"} /\ k \in Charged(r) \ Left(r)

\* A failure that is still to be recorded in bucket k; Rowless: it has looked
\* for the row of k and found none, so it holds no lock.
Pending(r, k) == r.pc \in {"record", "store"} /\ k \in Left(r)
Rowless(r, k) == r.pc = "store" /\ Head(r.keys) = k /\ ~r.lock

-----------------------------------------------------------------------------
(* The invariant.                                                          *)

ThrottleTyped ==
    /\ surface \in Surfaces /\ now \in 1..MaxTime
    /\ bucket \in [Keys -> Bucket] /\ \A k \in Keys : bucket[k].start <= now
    /\ \A k \in Keys : bucket[k].attempts = 0 => bucket[k] = NoBucket
    /\ attempt \in [Workers -> Attempt]
    /\ spent \in [Keys -> Nat] /\ late \in [Keys -> Nat]

\* What an attempt is like at each point; a locked row is the one it has seen.
Formed(r) ==
    /\ r.at <= now
    /\ r.lock => r.pc = "store"
    /\ r.pc # "idle" => r.src \in Sources
    /\ r.pc = "enforce" => r.keys \in {FirstKeys(r.op, r.src), <<r.src>>}
    /\ r.pc \in {"again", "record", "store"} => r.keys \in {<<Account, r.src>>, <<r.src>>}
    /\ r.pc \in {"idle", "judge", "factor"} => r.keys = <<>>
    /\ r.pc = "store" =>
         IF r.lock THEN r.seen = bucket[Head(r.keys)] /\ r.seen.attempts > 0
         ELSE r.seen = NoBucket

AllFormed == \A w \in Workers : Formed(attempt[w])

\* A blocked bucket has late guesses only from those that had passed it, and
\* the one that blocked it is not among them.
PassedBy(k) == {w \in Workers : Past(attempt[w], k)}
LateAt(k) ==
    IF IsBlocked(bucket[k], now)
    THEN late[k] + Cardinality(PassedBy(k)) < Cardinality(Workers)
    ELSE late[k] = 0
LateInv == \A k \in Keys : LateAt(k)

\* A pending failure that can undo a block: it found no row, or it is older
\* than the window or than such a one.  Every other worker is free.
Old(w, k) ==
    /\ Pending(attempt[w], k)
    /\ \/ attempt[w].at < bucket[k].start
       \/ Rowless(attempt[w], k)
       \/ \E v \in Workers : Rowless(attempt[v], k) /\ attempt[w].at < attempt[v].at
FreeOnes(k) == {w \in Workers : ~Old(w, k)}

\* A closed bucket is blocked until its window ends: then only what is already
\* flying can still be recorded in the window.
WindowEnd(k) == bucket[k].start + Window[surface]
Closed(k) == bucket[k].attempts >= Limit /\ bucket[k].until >= WindowEnd(k)
Flying(w, k) ==
    \/ Pending(attempt[w], k) /\ attempt[w].at < WindowEnd(k)
    \/ Past(attempt[w], k) /\ now < WindowEnd(k)
Grounded(k) == {w \in FreeOnes(k) : ~Flying(w, k)}

\* The failures that the free workers may still record in the window.
UntilClosed(k) == IF bucket[k].attempts < Limit THEN Limit - bucket[k].attempts ELSE 1
Coming(k) ==
    IF Closed(k) THEN Cardinality(FreeOnes(k)) - Cardinality(Grounded(k))
    ELSE UntilClosed(k) + Cardinality(FreeOnes(k)) - 1

\* Twice the failures that n workers can record in a window.
Room(n) == n * (2 * Limit + n - 1)

WindowAt(k) ==
    Block[surface] >= Window[surface] =>
        IF Exists(k) THEN 2 * spent[k] + 2 * Coming(k) <= Room(Cardinality(FreeOnes(k)))
        ELSE spent[k] = 0
WindowInv == \A k \in Keys : WindowAt(k)

ThrottleInv == ThrottleTyped /\ AllFormed /\ LateInv /\ WindowInv

-----------------------------------------------------------------------------
(* Arithmetic of Room.                                                     *)

LEMMA LimitTwo == Limit \in Nat /\ Limit >= 2
BY ThrottleConstants

LEMMA RoomNext ==
    ASSUME NEW n \in Nat PROVE Room(n + 1) = Room(n) + 2 * Limit + 2 * n /\ Room(n) \in Int
BY LimitTwo DEF Room

LEMMA RoomGrows ==
    ASSUME NEW a \in Nat, NEW b \in Nat, a <= b
    PROVE  Room(a) + 2 * (b - a) <= Room(b)
<1> DEFINE d == b - a
<1>1. d \in Nat /\ b = a + d
  OBVIOUS
<1>2. Room(b) - Room(a) = d * (2 * Limit + 2 * a + d - 1)
  BY <1>1, LimitTwo DEF Room
<1>3. 2 * Limit + 2 * a + d - 1 >= 2 /\ 2 * Limit + 2 * a + d - 1 \in Nat
  BY <1>1, LimitTwo
<1>4. \A x, y \in Nat : y >= 2 => x * y >= 2 * x
  OBVIOUS
<1>5. d * (2 * Limit + 2 * a + d - 1) >= 2 * d
  BY <1>1, <1>3, <1>4
<1> QED BY <1>1, <1>2, <1>5, RoomNext

LEMMA RoomOpen ==
    ASSUME NEW n \in Nat, n >= 1 PROVE 2 * Limit + 2 * n - 2 <= Room(n)
<1>1. n - 1 \in Nat /\ Room(n) = Room(n - 1) + 2 * Limit + 2 * (n - 1)
  BY RoomNext
<1>2. Room(0) = 0
  BY LimitTwo DEF Room
<1>3. Room(n - 1) >= 0 /\ Room(n - 1) \in Int
  BY <1>1, <1>2, RoomGrows, RoomNext
<1> QED BY <1>1, <1>3, LimitTwo

-----------------------------------------------------------------------------
(* Counting workers.                                                       *)

LEMMA CountType ==
    ASSUME NEW S \in SUBSET Workers
    PROVE  IsFiniteSet(S) /\ Cardinality(S) \in Nat /\ Cardinality(S) <= Cardinality(Workers)
BY ThrottleConstants, FS_Subset, FS_CardinalityType

LEMMA CountMono ==
    ASSUME NEW S \in SUBSET Workers, NEW T \in SUBSET Workers, S \subseteq T
    PROVE  Cardinality(S) <= Cardinality(T)
BY CountType, FS_Subset

LEMMA CountMore ==
    ASSUME NEW S \in SUBSET Workers, NEW T \in SUBSET Workers, NEW w \in T, w \notin S,
           S \subseteq T
    PROVE  Cardinality(S) + 1 <= Cardinality(T)
<1>1. IsFiniteSet(S) /\ Cardinality(S) \in Nat
  BY CountType
<1>2. Cardinality(S \cup {w}) = Cardinality(S) + 1
  BY <1>1, FS_AddElement
<1>3. S \cup {w} \subseteq T /\ S \cup {w} \in SUBSET Workers
  OBVIOUS
<1>4. Cardinality(S \cup {w}) <= Cardinality(T)
  BY <1>3, CountMono
<1> QED BY <1>2, <1>4

\* The numbers of Coming are what they should be.
LEMMA ComingTyped ==
    ASSUME ThrottleInv, NEW k \in Keys
    PROVE  /\ FreeOnes(k) \in SUBSET Workers /\ Grounded(k) \in SUBSET Workers
           /\ Cardinality(FreeOnes(k)) \in Nat /\ Cardinality(Grounded(k)) \in Nat
           /\ Coming(k) \in Int /\ Coming(k) >= 0 /\ UntilClosed(k) \in Nat /\ UntilClosed(k) >= 1
<1>1. FreeOnes(k) \in SUBSET Workers /\ Grounded(k) \in SUBSET Workers
      /\ Grounded(k) \subseteq FreeOnes(k)
  BY DEF FreeOnes, Grounded
<1>2. /\ Cardinality(FreeOnes(k)) \in Nat /\ Cardinality(Grounded(k)) \in Nat
      /\ Cardinality(Grounded(k)) <= Cardinality(FreeOnes(k))
  BY <1>1, CountType, CountMono
<1>3. bucket[k].attempts \in Nat
  BY DEF ThrottleInv, ThrottleTyped, Bucket
<1>4. UntilClosed(k) \in Nat /\ UntilClosed(k) >= 1
  BY <1>3, LimitTwo DEF UntilClosed
<1> QED BY <1>1, <1>2, <1>4 DEF Coming

\* A step that records nothing in bucket k keeps its bound if it makes no free
\* worker old and, once the bucket is closed, no grounded one fly.
LEMMA BoundKept ==
    ASSUME ThrottleInv, NEW k \in Keys, Block[surface] >= Window[surface],
           Exists(k), bucket'[k] = bucket[k], spent'[k] = spent[k], surface' = surface,
           FreeOnes(k) \subseteq FreeOnes(k)',
           Closed(k) => Grounded(k) \subseteq Grounded(k)'
    PROVE  2 * spent'[k] + 2 * Coming(k)' <= Room(Cardinality(FreeOnes(k)'))
<1> DEFINE a == Cardinality(FreeOnes(k))
           b == Cardinality(FreeOnes(k)')
<1>1. 2 * spent[k] + 2 * Coming(k) <= Room(a) /\ spent[k] \in Nat
  BY DEF ThrottleInv, WindowInv, WindowAt, ThrottleTyped
<1>2. FreeOnes(k)' \in SUBSET Workers /\ Grounded(k)' \in SUBSET Workers
  BY DEF FreeOnes, Grounded
<1>3. a \in Nat /\ b \in Nat /\ a <= b
  BY <1>2, ComingTyped, CountType, CountMono
<1>4. /\ Coming(k) \in Int /\ Cardinality(Grounded(k)) \in Nat /\ Cardinality(Grounded(k)') \in Nat
      /\ UntilClosed(k) \in Nat
  BY <1>2, ComingTyped, CountType
<1>5. Closed(k)' = Closed(k) /\ UntilClosed(k)' = UntilClosed(k)
  BY DEF Closed, WindowEnd, UntilClosed
<1>6. Coming(k)' - b <= Coming(k) - a /\ Coming(k)' \in Int
  <2>1. CASE Closed(k)
    <3>1. Cardinality(Grounded(k)) <= Cardinality(Grounded(k)')
      BY <1>2, <2>1, ComingTyped, CountMono
    <3>2. Coming(k) = a - Cardinality(Grounded(k)) /\ Coming(k)' = b - Cardinality(Grounded(k)')
      BY <1>5, <2>1 DEF Coming
    <3> QED BY <1>3, <1>4, <3>1, <3>2
  <2>2. CASE ~Closed(k)
    <3>1. Coming(k) = UntilClosed(k) + a - 1 /\ Coming(k)' = UntilClosed(k) + b - 1
      BY <1>5, <2>2 DEF Coming
    <3> QED BY <1>3, <1>4, <3>1
  <2> QED BY <2>1, <2>2
<1>7. Room(a) + 2 * (b - a) <= Room(b) /\ Room(a) \in Int /\ Room(b) \in Int
  BY <1>3, RoomGrows, RoomNext
<1> HIDE DEF a, b
<1>8. 2 * spent'[k] + 2 * Coming(k)' <= Room(b)
  BY <1>1, <1>3, <1>4, <1>6, <1>7
<1> QED BY <1>8 DEF b

-----------------------------------------------------------------------------
(* Steps that leave the buckets alone.                                     *)

\* How a step that turns attempt q into r may change its standing with bucket
\* k: no failure comes out of it, or one that was there before, or one that the
\* attempt was free to make, or k is not blocked.
Fate(q, r, k) ==
    \/ ~Pending(r, k) /\ ~Past(r, k)
    \/ /\ Pending(q, k) /\ Pending(r, k) /\ r.at = q.at
       /\ Rowless(r, k) => Rowless(q, k) \/ ~Exists(k)
    \/ Past(q, k) /\ Pending(r, k) /\ r.at = now /\ ~Rowless(r, k)
    \/ Past(q, k) /\ Past(r, k)
    \/ /\ ~IsBlocked(bucket[k], now)
       /\ Past(r, k) \/ (Pending(r, k) /\ r.at = now /\ ~Rowless(r, k))

\* An attempt is not both past a bucket and about to be recorded in it, and one
\* that found no row is about to be.
LEMMA Standing ==
    ASSUME NEW r \in Attempt, Formed(r), NEW k \in Keys
    PROVE  /\ Pending(r, k) => ~Past(r, k)
           /\ Rowless(r, k) => Pending(r, k)
           /\ r.keys # <<>> => Head(r.keys) \in Keys /\ Head(r.keys) \in Left(r)
<1>1. r.keys \in Seq(Keys) /\ r.pc \in PCs
  BY DEF Attempt
<1>2. r.keys # <<>> => Head(r.keys) \in Keys /\ Head(r.keys) \in Left(r)
  <2> SUFFICES ASSUME r.keys # <<>> PROVE Head(r.keys) \in Keys /\ Head(r.keys) \in Left(r)
    OBVIOUS
  <2>1. 1 \in DOMAIN r.keys /\ Head(r.keys) = r.keys[1] /\ r.keys[1] \in Keys
    BY <1>1
  <2> QED BY <2>1 DEF Left
<1>3. r.pc = "store" => r.keys # <<>>
  BY DEF Formed
<1> QED BY <1>2, <1>3 DEF Pending, Past, Rowless

LEMMA BucketTyped ==
    ASSUME ThrottleInv, NEW k \in Keys
    PROVE  /\ bucket[k] \in Bucket /\ bucket[k].attempts \in Nat /\ bucket[k].start \in Nat
           /\ bucket[k].until \in Nat /\ bucket[k].start <= now
           /\ now \in Nat /\ Window[surface] \in Nat \ {0} /\ Block[surface] \in Nat \ {0}
           /\ WindowEnd(k) \in Nat /\ spent[k] \in Nat /\ late[k] \in Nat
<1>1. surface \in Surfaces /\ now \in 1..MaxTime /\ MaxTime \in Nat
  BY ThrottleConstants DEF ThrottleInv, ThrottleTyped
<1>2. bucket[k] \in Bucket /\ bucket[k].start <= now /\ spent[k] \in Nat /\ late[k] \in Nat
  BY DEF ThrottleInv, ThrottleTyped
<1>3. now \in Nat /\ Window[surface] \in Nat \ {0} /\ Block[surface] \in Nat \ {0}
  BY <1>1, ThrottleConstants
<1> QED BY <1>2, <1>3 DEF Bucket, WindowEnd

LEMMA MovedAt ==
    ASSUME ThrottleInv, NEW w \in Workers, NEW r \in Attempt, Formed(r),
           attempt' = [attempt EXCEPT ![w] = r], UNCHANGED <<surface, now>>,
           NEW k \in Keys, bucket'[k] = bucket[k], spent'[k] = spent[k],
           Fate(attempt[w], r, k),
           \/ late'[k] = late[k]
           \/ /\ late'[k] = late[k] + 1
              /\ IsBlocked(bucket[k], now) /\ Past(attempt[w], k) /\ ~Past(r, k)
    PROVE  LateAt(k)' /\ WindowAt(k)'
<1>1. /\ attempt \in [Workers -> Attempt] /\ attempt' \in [Workers -> Attempt]
      /\ attempt'[w] = r /\ \A v \in Workers \ {w} : attempt'[v] = attempt[v]
  BY DEF ThrottleInv, ThrottleTyped
<1>2. \A v \in Workers : Formed(attempt[v])
  BY DEF ThrottleInv, AllFormed
<1>3. \A v \in Workers : attempt'[v].at \in Nat /\ attempt'[v].at <= now
  BY <1>1, <1>2 DEF Formed, Attempt
<1>4. LateAt(k)'
  <2>1. CASE ~IsBlocked(bucket[k], now)
    BY <2>1 DEF ThrottleInv, LateInv, LateAt
  <2>2. CASE IsBlocked(bucket[k], now)
    <3>1. late[k] + Cardinality(PassedBy(k)) < Cardinality(Workers) /\ late[k] \in Nat
      BY <2>2, BucketTyped DEF ThrottleInv, LateInv, LateAt
    <3>2. PassedBy(k) \in SUBSET Workers /\ PassedBy(k)' \in SUBSET Workers
      BY DEF PassedBy
    <3>3. Past(r, k) => Past(attempt[w], k)
      BY <2>2, Standing DEF Fate
    <3>4. PassedBy(k)' \subseteq PassedBy(k)
      BY <1>1, <3>3 DEF PassedBy, Past, Charged, Left
    <3>5. late'[k] + Cardinality(PassedBy(k)') < Cardinality(Workers)
      <4>1. CASE late'[k] = late[k]
        <5>1. Cardinality(PassedBy(k)') <= Cardinality(PassedBy(k))
          BY <3>2, <3>4, CountMono
        <5> QED BY <3>1, <3>2, <4>1, <5>1, CountType, ThrottleConstants, FS_CardinalityType
      <4>2. CASE late'[k] = late[k] + 1 /\ Past(attempt[w], k) /\ ~Past(r, k)
        <5>1. w \in PassedBy(k) /\ w \notin PassedBy(k)'
          BY <1>1, <4>2 DEF PassedBy, Past, Charged, Left
        <5>2. Cardinality(PassedBy(k)') + 1 <= Cardinality(PassedBy(k))
          BY <3>2, <3>4, <5>1, CountMore
        <5> QED BY <3>1, <3>2, <4>2, <5>2, CountType, ThrottleConstants, FS_CardinalityType
      <4> QED BY <4>1, <4>2
    <3> QED BY <2>2, <3>5 DEF LateAt, IsBlocked
  <2> QED BY <2>1, <2>2
<1>5. WindowAt(k)'
  <2>1. CASE ~Exists(k)
    BY <2>1 DEF ThrottleInv, WindowInv, WindowAt, Exists
  <2>2. CASE Exists(k)
    <3>1. Rowless(r, k) => Rowless(attempt[w], k) /\ r.at = attempt[w].at
      BY <2>2, Standing DEF Fate, Past, Pending, Rowless
    <3>2. ASSUME NEW v \in Workers, Old(v, k)' PROVE Old(v, k)
      <4>1. CASE v # w
        BY <1>1, <3>1, <3>2, <4>1 DEF Old, Pending, Rowless, Left
      <4>2. CASE v = w
        <5>1. Pending(r, k)
          BY <1>1, <3>2, <4>2 DEF Old, Pending, Left
        <5>2. CASE r.at = now /\ ~Rowless(r, k)
          <6>1. ~(r.at < bucket[k].start) /\ \A u \in Workers : ~(r.at < attempt'[u].at)
            BY <1>3, <5>2, BucketTyped
          <6> QED BY <1>1, <3>2, <4>2, <5>2, <6>1 DEF Old, Rowless
        <5>3. CASE Pending(attempt[w], k) /\ r.at = attempt[w].at
          BY <1>1, <3>1, <3>2, <4>2, <5>3 DEF Old, Rowless
        <5> QED BY <5>1, <5>2, <5>3, Standing DEF Fate
      <4> QED BY <4>1, <4>2
    <3>3. FreeOnes(k) \subseteq FreeOnes(k)'
      BY <3>2 DEF FreeOnes
    <3>4. WindowEnd(k)' = WindowEnd(k) /\ Closed(k)' = Closed(k)
      BY DEF WindowEnd, Closed
    <3>5. ASSUME NEW v \in Workers, Closed(k), Flying(v, k)' PROVE Flying(v, k)
      <4>1. CASE v # w
        BY <1>1, <3>4, <3>5, <4>1 DEF Flying, Pending, Past, Charged, Left
      <4>2. CASE v = w
        <5>1. (Pending(r, k) /\ r.at < WindowEnd(k)) \/ (Past(r, k) /\ now < WindowEnd(k))
          BY <1>1, <3>4, <3>5, <4>2 DEF Flying, Pending, Past, Charged, Left
        <5>2. ~IsBlocked(bucket[k], now) => ~(now < WindowEnd(k))
          BY <2>2, <3>5, BucketTyped DEF IsBlocked, Closed, Exists
        <5>3. Pending(r, k) => ~Past(r, k)
          BY Standing
        <5>4. CASE Pending(r, k) /\ r.at < WindowEnd(k)
          BY <4>2, <5>2, <5>3, <5>4 DEF Fate, Flying
        <5>5. CASE Past(r, k) /\ now < WindowEnd(k)
          BY <4>2, <5>2, <5>3, <5>5 DEF Fate, Flying
        <5> QED BY <5>1, <5>4, <5>5
      <4> QED BY <4>1, <4>2
    <3>6. Closed(k) => Grounded(k) \subseteq Grounded(k)'
      BY <3>3, <3>5 DEF Grounded, FreeOnes
    <3>7. Block[surface] >= Window[surface] =>
             2 * spent'[k] + 2 * Coming(k)' <= Room(Cardinality(FreeOnes(k)'))
      BY <2>2, <3>3, <3>6, BoundKept
    <3>8. Exists(k)'
      BY <2>2 DEF Exists
    <3> QED BY <3>7, <3>8 DEF WindowAt
  <2> QED BY <2>1, <2>2
<1> QED BY <1>4, <1>5

LEMMA Moved ==
    ASSUME ThrottleInv, NEW w \in Workers, NEW r \in Attempt, Formed(r),
           attempt' = [attempt EXCEPT ![w] = r],
           UNCHANGED <<surface, now, bucket, spent>>, late' \in [Keys -> Nat],
           \A k \in Keys : Fate(attempt[w], r, k),
           \A k \in Keys :
              \/ late'[k] = late[k]
              \/ /\ late'[k] = late[k] + 1
                 /\ IsBlocked(bucket[k], now) /\ Past(attempt[w], k) /\ ~Past(r, k)
    PROVE  ThrottleInv'
<1>1. /\ attempt \in [Workers -> Attempt] /\ attempt' \in [Workers -> Attempt]
      /\ attempt'[w] = r /\ \A v \in Workers \ {w} : attempt'[v] = attempt[v]
  BY DEF ThrottleInv, ThrottleTyped
<1>2. ThrottleTyped'
  BY <1>1 DEF ThrottleInv, ThrottleTyped
<1>3. AllFormed'
  BY <1>1 DEF ThrottleInv, AllFormed, Formed
<1>4. \A k \in Keys : LateAt(k)' /\ WindowAt(k)'
  BY MovedAt
<1> QED BY <1>2, <1>3, <1>4 DEF ThrottleInv, LateInv, WindowInv

-----------------------------------------------------------------------------
(* The steps of an attempt up to its failure.                              *)

LEMMA LeftOf ==
    ASSUME NEW r, NEW a, NEW b
    PROVE  /\ r.keys = <<>> => Left(r) = {}
           /\ r.keys = <<a>> => Left(r) = {a} /\ Head(r.keys) = a /\ Len(r.keys) = 1
           /\ r.keys = <<a, b>> => Left(r) = {a, b} /\ Head(r.keys) = a /\ Len(r.keys) = 2
                                   /\ Tail(r.keys) = <<b>>
<1>1. r.keys = <<>> => Left(r) = {}
  BY DEF Left
<1>2. r.keys = <<a>> => Left(r) = {a} /\ Head(r.keys) = a /\ Len(r.keys) = 1
  <2> SUFFICES ASSUME r.keys = <<a>> PROVE Left(r) = {a} /\ Head(r.keys) = a /\ Len(r.keys) = 1
    OBVIOUS
  <2>1. DOMAIN r.keys = {1} /\ r.keys[1] = a /\ Len(r.keys) = 1 /\ Head(r.keys) = a
    OBVIOUS
  <2> QED BY <2>1 DEF Left
<1>3. r.keys = <<a, b>> => Left(r) = {a, b} /\ Head(r.keys) = a /\ Len(r.keys) = 2
                           /\ Tail(r.keys) = <<b>>
  <2> SUFFICES ASSUME r.keys = <<a, b>>
               PROVE  Left(r) = {a, b} /\ Head(r.keys) = a /\ Len(r.keys) = 2 /\ Tail(r.keys) = <<b>>
    OBVIOUS
  <2>1. DOMAIN r.keys = {1, 2} /\ r.keys[1] = a /\ r.keys[2] = b /\ Len(r.keys) = 2 /\ Head(r.keys) = a
    OBVIOUS
  <2>2. Tail(r.keys) = <<b>>
    OBVIOUS
  <2> QED BY <2>1, <2>2 DEF Left
<1> QED BY <1>1, <1>2, <1>3

LEMMA KeySeqs ==
    ASSUME NEW s \in Sources
    PROVE  /\ <<>> \in Seq(Keys) /\ <<s>> \in Seq(Keys) /\ <<Account, s>> \in Seq(Keys)
           /\ <<Account>> \in Seq(Keys) /\ \A op : FirstKeys(op, s) \in Seq(Keys)
           /\ s \in Keys /\ Account \in Keys /\ s # Account
<1>1. s \in Keys /\ Account \in Keys /\ s # Account
  BY ThrottleConstants DEF Keys
<1> HIDE DEF Keys
<1>2. <<>> \in Seq(Keys) /\ <<s>> \in Seq(Keys) /\ <<Account, s>> \in Seq(Keys)
      /\ <<Account>> \in Seq(Keys)
  BY <1>1
<1>3. \A op : FirstKeys(op, s) \in Seq(Keys)
  BY <1>2 DEF FirstKeys
<1> QED BY <1>1, <1>2, <1>3

LEMMA QuietFormed == ThrottleInv => Quiet \in Attempt /\ Formed(Quiet)
<1> SUFFICES ASSUME ThrottleInv PROVE Quiet \in Attempt /\ Formed(Quiet)
  OBVIOUS
<1>1. NoBucket \in Bucket /\ Account \in Keys
  BY DEF NoBucket, Bucket, Keys
<1>2. Quiet \in Attempt
  BY <1>1 DEF Quiet, Attempt, PCs
<1>3. now \in Nat /\ 0 <= now
  BY ThrottleConstants DEF ThrottleInv, ThrottleTyped
<1> QED BY <1>2, <1>3 DEF Formed, Quiet

LEMMA NowTyped == ThrottleInv => now \in Nat
BY ThrottleConstants DEF ThrottleInv, ThrottleTyped

LEMMA AttemptTyped ==
    ASSUME ThrottleInv, NEW w \in Workers
    PROVE  /\ attempt[w] \in Attempt /\ Formed(attempt[w]) /\ attempt[w].at \in Nat
           /\ attempt[w].at <= now /\ (attempt[w].pc # "idle" => attempt[w].src \in Sources)
           /\ (attempt[w].pc # "store" => attempt[w].lock = FALSE)
<1>1. attempt[w] \in Attempt /\ Formed(attempt[w])
  BY DEF ThrottleInv, ThrottleTyped, AllFormed
<1> QED BY <1>1 DEF Formed, Attempt

LEMMA Answered ==
    ASSUME ThrottleInv, NEW w \in Workers, Answer(w), UNCHANGED <<surface, now, bucket, spent, late>>
    PROVE  ThrottleInv'
<1>1. Quiet \in Attempt /\ Formed(Quiet)
  BY QuietFormed
<1>2. \A k \in Keys : Fate(attempt[w], Quiet, k)
  BY DEF Fate, Pending, Past, Quiet
<1>3. late' \in [Keys -> Nat] /\ \A k \in Keys : late'[k] = late[k]
  BY DEF ThrottleInv, ThrottleTyped
<1> QED BY <1>1, <1>2, <1>3, Moved DEF Answer

\* A step of an attempt to next, with keys, and the attempt it leads to.
Goes(w, next, keys) ==
    /\ attempt[w].pc \notin {"idle", "store"} /\ next \in PCs \ {"idle", "store"}
    /\ keys \in Seq(Keys) /\ To(w, next, keys)
Gone(w, next, keys) == [attempt[w] EXCEPT !.pc = next, !.keys = keys, !.at = now]

LEMMA GoneTyped ==
    ASSUME ThrottleInv, NEW w \in Workers, NEW next, NEW keys, Goes(w, next, keys)
    PROVE  Gone(w, next, keys) \in Attempt
<1>1. attempt[w] \in Attempt /\ attempt[w].lock = FALSE /\ attempt[w].src \in Sources
  BY AttemptTyped DEF Goes
<1>2. now \in Nat
  BY ThrottleConstants DEF ThrottleInv, ThrottleTyped
<1> QED BY <1>1, <1>2 DEF Gone, Goes, Attempt

\* A step that only changes the attempt and breaks no rule of Moved.
LEMMA Going ==
    ASSUME ThrottleInv, NEW w \in Workers, NEW next, NEW keys, Goes(w, next, keys),
           Formed(Gone(w, next, keys)),
           \A k \in Keys : Fate(attempt[w], Gone(w, next, keys), k),
           UNCHANGED <<surface, now, bucket, spent, late>>
    PROVE  ThrottleInv'
<1>1. late' \in [Keys -> Nat] /\ \A k \in Keys : late'[k] = late[k]
  BY DEF ThrottleInv, ThrottleTyped
<1>2. Gone(w, next, keys) \in Attempt
  BY GoneTyped
<1>3. attempt' = [attempt EXCEPT ![w] = Gone(w, next, keys)]
  BY DEF To, Goes, Gone, ThrottleInv, ThrottleTyped
<1> QED BY <1>1, <1>2, <1>3, Moved

LEMMA ArriveKeeps ==
    ASSUME ThrottleInv, NEW w \in Workers, Arrive(w) PROVE ThrottleInv'
<1>1. PICK op \in OpsOf(surface), s \in Sources :
         attempt' = [attempt EXCEPT ![w] =
           [Quiet EXCEPT !.op = op, !.pc = "enforce", !.src = s,
                         !.keys = FirstKeys(op, s), !.at = now]]
  BY DEF Arrive
<1> DEFINE r == [Quiet EXCEPT !.op = op, !.pc = "enforce", !.src = s,
                              !.keys = FirstKeys(op, s), !.at = now]
<1>2. op \in {"none", "reauth", "password"} \cup Surfaces /\ now \in Nat
  BY ThrottleConstants DEF OpsOf, ThrottleInv, ThrottleTyped
<1>3. s \in Keys /\ Account \in Keys /\ FirstKeys(op, s) \in Seq(Keys)
  BY KeySeqs
<1>4. Quiet \in Attempt
  BY QuietFormed
<1>5. r \in Attempt
  BY <1>2, <1>3, <1>4 DEF Attempt, PCs
<1>6. /\ r.op = op /\ r.pc = "enforce" /\ r.src = s /\ r.keys = FirstKeys(op, s)
      /\ r.at = now /\ r.lock = FALSE
  BY DEF Quiet
<1> HIDE DEF r
<1>7. Formed(r)
  BY <1>2, <1>6 DEF Formed
<1>8. Charged(r) = Left(r)
  BY <1>6, LeftOf DEF Charged, FirstKeys
<1>9. \A k \in Keys : Fate(attempt[w], r, k)
  BY <1>6, <1>8 DEF Fate, Pending, Past
<1>10. late' \in [Keys -> Nat] /\ \A k \in Keys : late'[k] = late[k]
  BY DEF ThrottleInv, ThrottleTyped, Arrive
<1>11. UNCHANGED <<surface, now, bucket, spent>> /\ attempt' = [attempt EXCEPT ![w] = r]
  BY <1>1 DEF Arrive, r
<1> QED BY <1>5, <1>7, <1>9, <1>10, <1>11, Moved

LEMMA EnforceKeeps ==
    ASSUME ThrottleInv, NEW w \in Workers, Enforce(w) PROVE ThrottleInv'
<1> DEFINE q == attempt[w]
<1>1. /\ q \in Attempt /\ Formed(q) /\ q.at \in Nat /\ q.at <= now
      /\ q.pc \in {"enforce", "again"} /\ q.src \in Sources /\ q.lock = FALSE
  BY AttemptTyped DEF Enforce, Doing
<1>2. UNCHANGED <<surface, now, bucket, spent, late>>
  BY DEF Enforce
<1>3. Account \in Keys /\ q.src \in Keys /\ q.src # Account
  BY <1>1, ThrottleConstants DEF Keys
<1>4. q.keys \in {<<Account, q.src>>, <<q.src>>}
  BY <1>1 DEF Formed, FirstKeys
<1>5. \A k \in Keys : ~IsBlocked(bucket[k], q.at) => ~IsBlocked(bucket[k], now)
  BY <1>1, BucketTyped DEF IsBlocked
<1>9. now \in Nat
  BY ThrottleConstants DEF ThrottleInv, ThrottleTyped
<1>6. CASE IsBlocked(bucket[Head(q.keys)], q.at)
  BY <1>2, <1>6, Answered DEF Enforce
<1>7. CASE ~IsBlocked(bucket[Head(q.keys)], q.at) /\ Len(q.keys) > 1
  <2>1. q.keys = <<Account, q.src>> /\ Left(q) = {Account, q.src} /\ Tail(q.keys) = <<q.src>>
        /\ Head(q.keys) = Account
    BY <1>4, <1>7, LeftOf
  <2> DEFINE r == [q EXCEPT !.keys = <<q.src>>]
  <2>2. attempt' = [attempt EXCEPT ![w] = r]
    BY <1>7, <2>1 DEF Enforce, ThrottleInv, ThrottleTyped
  <2>3. r \in Attempt
    BY <1>1, KeySeqs DEF Attempt
  <2>4. /\ r.op = q.op /\ r.pc = q.pc /\ r.src = q.src /\ r.keys = <<q.src>> /\ r.at = q.at
        /\ r.lock = FALSE
    BY <1>1 DEF Attempt
  <2> HIDE DEF r
  <2>5. Formed(r)
    BY <1>1, <2>4 DEF Formed
  <2>6. Left(r) = {q.src} /\ Charged(r) \subseteq {Account, q.src}
    BY <2>4, LeftOf DEF Charged
  <2>7. \A k \in Keys : Fate(q, r, k)
    <3> SUFFICES ASSUME NEW k \in Keys PROVE Fate(q, r, k)
      OBVIOUS
    <3>1. ~Pending(r, k)
      BY <1>1, <2>4 DEF Pending
    <3>2. Past(r, k) => k = Account
      BY <2>6 DEF Past
    <3>3. ~IsBlocked(bucket[Account], now)
      BY <1>3, <1>5, <1>7, <2>1
    <3> QED BY <3>1, <3>2, <3>3 DEF Fate
  <2>8. late' \in [Keys -> Nat] /\ \A k \in Keys : late'[k] = late[k]
    BY <1>2 DEF ThrottleInv, ThrottleTyped
  <2> QED BY <1>2, <2>2, <2>3, <2>5, <2>7, <2>8, Moved
<1>8. CASE ~IsBlocked(bucket[Head(q.keys)], q.at) /\ ~(Len(q.keys) > 1)
  <2>1. q.keys = <<q.src>> /\ Left(q) = {q.src} /\ Head(q.keys) = q.src
    BY <1>4, <1>8, LeftOf
  <2>2. ~IsBlocked(bucket[q.src], now)
    BY <1>3, <1>5, <1>8, <2>1
  <2>3. CASE q.op = "recovery"
    <3> DEFINE keys == FirstKeys(q.op, q.src)
               r == Gone(w, "record", keys)
    <3>1. keys = <<q.src>> /\ keys \in Seq(Keys)
      BY <1>3, <2>3 DEF FirstKeys
    <3>2. Goes(w, "record", keys)
      BY <1>1, <1>8, <2>3, <3>1 DEF Enforce, Goes, PCs
    <3>3. /\ r.pc = "record" /\ r.keys = <<q.src>> /\ r.at = now /\ r.src = q.src /\ r.lock = FALSE
      BY <1>1, <3>1 DEF Gone, Attempt
    <3> HIDE DEF r
    <3>4. Formed(r)
      BY <1>1, <1>9, <3>3 DEF Formed
    <3>5. \A k \in Keys : Fate(q, r, k)
      BY <2>2, <3>3, LeftOf DEF Fate, Pending, Past, Rowless
    <3> QED BY <1>2, <3>2, <3>4, <3>5, Going DEF r
  <2>4. CASE q.op # "recovery"
    <3> DEFINE next == IF q.pc = "enforce" THEN "judge" ELSE "factor"
               r == Gone(w, next, <<>>)
    <3>1. Goes(w, next, <<>>)
      BY <1>1, <1>8, <2>4, KeySeqs DEF Enforce, Doing, Goes, PCs
    <3>6. next \in {"judge", "factor"} /\ (q.pc = "enforce" <=> next = "judge")
      BY <1>1
    <3> HIDE DEF next
    <3>2. /\ r.pc = next /\ r.keys = <<>> /\ r.at = now /\ r.src = q.src /\ r.op = q.op /\ r.lock = FALSE
      BY <1>1 DEF Gone, Attempt
    <3> HIDE DEF r
    <3>3. Formed(r)
      BY <1>1, <1>9, <3>2, <3>6 DEF Formed
    <3>4. Charged(r) = Charged(q) /\ Left(r) = {}
      BY <1>1, <3>2, <3>6, LeftOf DEF Charged
    <3>5. \A k \in Keys : Fate(q, r, k)
      <4> SUFFICES ASSUME NEW k \in Keys PROVE Fate(q, r, k)
        OBVIOUS
      <4>1. ~Pending(r, k)
        BY <3>4 DEF Pending
      <4>2. Past(r, k) /\ k # q.src => Past(q, k)
        BY <1>1, <2>1, <3>4 DEF Past
      <4> QED BY <2>2, <4>1, <4>2 DEF Fate
    <3> QED BY <1>2, <3>1, <3>3, <3>5, Going DEF r
  <2> QED BY <2>3, <2>4
<1> QED BY <1>6, <1>7, <1>8

LEMMA FailKeeps ==
    ASSUME ThrottleInv, NEW w \in Workers, attempt[w].pc \in {"judge", "factor"}, NEW keys,
           keys \in {<<Account, attempt[w].src>>, <<attempt[w].src>>},
           Charged(attempt[w]) = {keys[i] : i \in DOMAIN keys},
           Fail(w, keys), UNCHANGED <<surface, now, bucket, spent>>
    PROVE  ThrottleInv'
<1> DEFINE q == attempt[w]
           r == Gone(w, "record", keys)
<1>1. /\ q \in Attempt /\ Formed(q) /\ q.src \in Sources /\ q.lock = FALSE /\ now \in Nat
  BY AttemptTyped, NowTyped
<1>2. Goes(w, "record", keys)
  BY <1>1, KeySeqs DEF Goes, PCs, Fail
<1>3. r \in Attempt
  BY <1>2, GoneTyped
<1>4. attempt' = [attempt EXCEPT ![w] = r]
  BY <1>2 DEF To, Goes, Gone, ThrottleInv, ThrottleTyped
<1>5. r.pc = "record" /\ r.keys = keys /\ r.at = now /\ r.src = q.src /\ r.lock = FALSE
  BY <1>1 DEF Gone, Attempt
<1> HIDE DEF r
<1>6. Formed(r)
  BY <1>1, <1>5 DEF Formed
<1>7. q.keys = <<>> /\ Left(q) = {} /\ Left(r) = Charged(q)
  BY <1>1, <1>5, LeftOf DEF Formed, Left
<1>8. \A k \in Keys : (Pending(r, k) => Past(q, k)) /\ ~Past(r, k) /\ ~Rowless(r, k)
  BY <1>5, <1>7 DEF Pending, Past, Rowless
<1>9. \A k \in Keys : Fate(q, r, k)
  BY <1>5, <1>8 DEF Fate
<1>10. late' = [k \in Keys |-> IF k \in Left(r) /\ IsBlocked(bucket[k], now)
                               THEN late[k] + 1 ELSE late[k]]
  BY <1>5 DEF Fail, Left
<1>11. late' \in [Keys -> Nat]
  BY <1>10 DEF ThrottleInv, ThrottleTyped
<1>12. \A k \in Keys :
          \/ late'[k] = late[k]
          \/ late'[k] = late[k] + 1 /\ IsBlocked(bucket[k], now) /\ Past(q, k) /\ ~Past(r, k)
  BY <1>5, <1>8, <1>10 DEF Pending
<1> QED BY <1>3, <1>4, <1>6, <1>9, <1>11, <1>12, Moved

LEMMA RejectKeeps ==
    ASSUME ThrottleInv, NEW w \in Workers, Doing(w, "judge"), Refuse(w) PROVE ThrottleInv'
<1> DEFINE q == attempt[w]
           keys == FirstKeys(q.op, q.src)
<1>1. keys \in {<<Account, q.src>>, <<q.src>>}
  BY DEF FirstKeys
<1>2. Charged(q) = {keys[i] : i \in DOMAIN keys}
  <2>1. CASE q.op \in {"reauth", "password"}
    <3>1. keys = <<Account, q.src>> /\ DOMAIN keys = {1, 2}
      BY <2>1 DEF FirstKeys
    <3> QED BY <2>1, <3>1 DEF Charged
  <2>2. CASE q.op \notin {"reauth", "password"}
    <3>1. keys = <<q.src>> /\ DOMAIN keys = {1}
      BY <2>2 DEF FirstKeys
    <3> QED BY <2>2, <3>1 DEF Charged, Doing
  <2> QED BY <2>1, <2>2
<1>3. Fail(w, keys) /\ UNCHANGED <<surface, now, bucket, spent>> /\ q.pc = "judge"
  BY DEF Refuse, Doing
<1> HIDE DEF keys
<1> QED BY <1>1, <1>2, <1>3, FailKeeps

LEMMA RejectFactorKeeps ==
    ASSUME ThrottleInv, NEW w \in Workers, RejectFactor(w) PROVE ThrottleInv'
<1> DEFINE q == attempt[w]
           keys == VerifiedKeys(q.src)
<1>1. keys = <<Account, q.src>> /\ DOMAIN keys = {1, 2} /\ q.pc = "factor"
  BY DEF VerifiedKeys, RejectFactor, Doing
<1>2. Charged(q) = {keys[i] : i \in DOMAIN keys}
  BY <1>1 DEF Charged
<1>3. Fail(w, keys) /\ UNCHANGED <<surface, now, bucket, spent>>
  BY DEF RejectFactor
<1> HIDE DEF keys
<1> QED BY <1>1, <1>2, <1>3, FailKeeps

\* An accepted attempt is through, clears the account's bucket, or goes on with
\* its second factor; only the last may still fail, where it has read what it
\* would be charged for.
LEMMA AcceptKeeps ==
    ASSUME ThrottleInv, NEW w \in Workers,
           \/ AcceptLogin(w) \/ AcceptReauth(w) \/ AcceptPassword(w) \/ AcceptSetup(w)
           \/ AcceptFactor(w)
    PROVE  ThrottleInv'
<1> DEFINE q == attempt[w]
<1>1. UNCHANGED <<surface, now, bucket, spent, late>> /\ q.pc \in {"judge", "factor"}
  BY DEF AcceptLogin, AcceptReauth, AcceptPassword, AcceptSetup, AcceptFactor, Pass, Judging, Doing
<1>2. /\ q \in Attempt /\ Formed(q) /\ q.src \in Sources /\ q.lock = FALSE /\ now \in Nat
      /\ q.keys = <<>> /\ Left(q) = {}
  <2>1. q \in Attempt /\ Formed(q) /\ q.src \in Sources /\ q.lock = FALSE /\ now \in Nat
    BY <1>1, AttemptTyped, NowTyped
  <2>2. q.keys = <<>>
    BY <1>1, <2>1 DEF Formed
  <2> QED BY <2>1, <2>2, LeftOf
<1>3. CASE Answer(w)
  BY <1>1, <1>3, Answered
<1>4. CASE To(w, "clear", <<Account>>)
  <2> DEFINE r == Gone(w, "clear", <<Account>>)
  <2>1. Goes(w, "clear", <<Account>>)
    BY <1>1, <1>2, <1>4, KeySeqs DEF Goes, PCs
  <2>2. r.pc = "clear" /\ r.at = now /\ r.src = q.src /\ r.lock = FALSE
    BY <1>2 DEF Gone, Attempt
  <2>3. Formed(r) /\ \A k \in Keys : Fate(q, r, k)
    BY <1>2, <2>2 DEF Formed, Fate, Pending, Past
  <2> QED BY <1>1, <2>1, <2>3, Going
<1>5. CASE To(w, "again", <<Account, q.src>>)
  <2> DEFINE r == Gone(w, "again", <<Account, q.src>>)
  <2>1. Goes(w, "again", <<Account, q.src>>)
    BY <1>1, <1>2, <1>5, KeySeqs DEF Goes, PCs
  <2>2. r.pc = "again" /\ r.at = now /\ r.src = q.src /\ r.lock = FALSE /\ r.keys = <<Account, q.src>>
    BY <1>2 DEF Gone, Attempt
  <2>3. Left(r) = Charged(r)
    <3> HIDE DEF r
    <3> QED BY <2>2, LeftOf DEF Charged
  <2>4. Formed(r) /\ \A k \in Keys : Fate(q, r, k)
    BY <1>2, <2>2, <2>3 DEF Formed, Fate, Pending, Past
  <2> QED BY <1>1, <2>1, <2>4, Going
<1>6. CASE To(w, "factor", <<>>) /\ q.op = "reauth"
  <2> DEFINE r == Gone(w, "factor", <<>>)
  <2>1. Goes(w, "factor", <<>>)
    BY <1>1, <1>2, <1>6, KeySeqs DEF Goes, PCs
  <2>2. r.pc = "factor" /\ r.at = now /\ r.src = q.src /\ r.lock = FALSE /\ r.keys = <<>>
    BY <1>2 DEF Gone, Attempt
  <2>3. Charged(r) = Charged(q)
    BY <1>6, <2>2 DEF Charged
  <2>4. Formed(r) /\ \A k \in Keys : Fate(q, r, k)
    BY <1>1, <1>2, <2>2, <2>3 DEF Formed, Fate, Pending, Past
  <2> QED BY <1>1, <2>1, <2>4, Going
<1> QED
  BY <1>3, <1>4, <1>5, <1>6
  DEF AcceptLogin, AcceptReauth, AcceptPassword, AcceptSetup, AcceptFactor, Pass, Judging, VerifiedKeys

LEMMA LockKeeps ==
    ASSUME ThrottleInv, NEW w \in Workers, LockBucket(w) PROVE ThrottleInv'
<1> DEFINE q == attempt[w]
           h == Head(q.keys)
           r == [q EXCEPT !.pc = "store", !.seen = bucket[h], !.lock = Exists(h)]
<1>1. /\ q \in Attempt /\ Formed(q) /\ q.src \in Sources /\ q.at \in Nat /\ q.at <= now
      /\ q.pc = "record" /\ UNCHANGED <<surface, now, bucket, spent, late>>
  BY AttemptTyped DEF LockBucket, Doing
<1>2. q.keys \in {<<Account, q.src>>, <<q.src>>} /\ h \in Keys
  BY <1>1, LeftOf, KeySeqs DEF Formed
<1>3. Exists(h) \in BOOLEAN /\ bucket[h] \in Bucket /\ (~Exists(h) => bucket[h] = NoBucket)
  BY <1>2, BucketTyped DEF Exists, ThrottleInv, ThrottleTyped
<1>4. r \in Attempt
  BY <1>1, <1>3 DEF Attempt, PCs
<1>5. attempt' = [attempt EXCEPT ![w] = r]
  BY DEF LockBucket, ThrottleInv, ThrottleTyped
<1>6. /\ r.pc = "store" /\ r.keys = q.keys /\ r.at = q.at /\ r.src = q.src /\ r.lock = Exists(h)
      /\ r.seen = bucket[h] /\ r.op = q.op
  BY <1>1 DEF Attempt
<1> HIDE DEF r
<1>7. Formed(r)
  BY <1>1, <1>2, <1>3, <1>6 DEF Formed, Exists
<1>8. Left(r) = Left(q)
  BY <1>6 DEF Left
<1>9. \A k \in Keys : Fate(q, r, k)
  BY <1>1, <1>6, <1>8 DEF Fate, Pending, Past, Rowless
<1>10. late' \in [Keys -> Nat] /\ \A k \in Keys : late'[k] = late[k]
  BY <1>1 DEF ThrottleInv, ThrottleTyped
<1> QED BY <1>1, <1>4, <1>5, <1>7, <1>9, <1>10, Moved

LEMMA TickKeeps == ThrottleInv /\ Tick => ThrottleInv'
<1> SUFFICES ASSUME ThrottleInv, Tick PROVE ThrottleInv'
  OBVIOUS
<1>1. /\ now' = now + 1 /\ now' \in 1..MaxTime /\ now \in Nat
      /\ UNCHANGED <<surface, bucket, attempt, spent>>
  BY ThrottleConstants DEF Tick, ThrottleInv, ThrottleTyped
<1>2. ThrottleTyped'
  <2>1. late' \in [Keys -> Nat]
    BY DEF Tick, ThrottleInv, ThrottleTyped
  <2>2. \A k \in Keys : bucket[k].start <= now'
    BY <1>1, BucketTyped
  <2> QED BY <1>1, <2>1, <2>2 DEF ThrottleInv, ThrottleTyped
<1>3. AllFormed'
  <2>1. ASSUME NEW v \in Workers PROVE attempt[v].at <= now'
    <3>1. attempt[v].at \in Nat /\ attempt[v].at <= now
      BY AttemptTyped
    <3> QED BY <1>1, <3>1
  <2> QED BY <1>1, <2>1 DEF ThrottleInv, AllFormed, Formed
<1>4. \A k \in Keys : LateAt(k)'
  <2> SUFFICES ASSUME NEW k \in Keys PROVE LateAt(k)'
    OBVIOUS
  <2>1. late'[k] = IF IsBlocked(bucket[k], now') THEN late[k] ELSE 0
    BY DEF Tick
  <2>2. IsBlocked(bucket[k], now') => IsBlocked(bucket[k], now)
    BY <1>1, BucketTyped DEF IsBlocked
  <2>3. PassedBy(k)' = PassedBy(k) /\ bucket'[k] = bucket[k]
    BY <1>1 DEF PassedBy
  <2> QED BY <2>1, <2>2, <2>3 DEF LateAt, ThrottleInv, LateInv
<1>5. \A k \in Keys : WindowAt(k)'
  <2> SUFFICES ASSUME NEW k \in Keys PROVE WindowAt(k)'
    OBVIOUS
  <2>1. FreeOnes(k)' = FreeOnes(k) /\ WindowEnd(k)' = WindowEnd(k)
    BY <1>1 DEF FreeOnes, Old, WindowEnd
  <2>2. ASSUME NEW v \in Workers, Flying(v, k)' PROVE Flying(v, k)
    BY <1>1, <2>1, <2>2, BucketTyped DEF Flying
  <2>3. Grounded(k) \subseteq Grounded(k)'
    BY <2>1, <2>2 DEF Grounded, FreeOnes
  <2>4. CASE Exists(k)
    <3>1. Block[surface] >= Window[surface] =>
             2 * spent'[k] + 2 * Coming(k)' <= Room(Cardinality(FreeOnes(k)'))
      BY <1>1, <2>1, <2>3, <2>4, BoundKept
    <3> QED BY <1>1, <2>4, <3>1 DEF WindowAt, Exists
  <2>5. CASE ~Exists(k)
    BY <1>1, <2>5 DEF ThrottleInv, WindowInv, WindowAt, Exists
  <2> QED BY <2>4, <2>5
<1> QED BY <1>2, <1>3, <1>4, <1>5 DEF ThrottleInv, LateInv, WindowInv

\* A step that writes bucket h and nobody else has locked it.
LEMMA OthersFormed ==
    ASSUME ThrottleInv, NEW w \in Workers, NEW h \in Keys, Free(w, h), NEW b, NEW r,
           Formed(r), r.pc # "store", attempt' = [attempt EXCEPT ![w] = r],
           bucket' = [bucket EXCEPT ![h] = b], now' = now
    PROVE  AllFormed'
<1>1. /\ attempt'[w] = r /\ \A v \in Workers \ {w} : attempt'[v] = attempt[v]
      /\ \A k \in Keys \ {h} : bucket'[k] = bucket[k]
  BY DEF ThrottleInv, ThrottleTyped
<1> SUFFICES ASSUME NEW v \in Workers PROVE Formed(attempt[v])'
  BY DEF AllFormed
<1>2. CASE v = w
  BY <1>1, <1>2 DEF Formed
<1>3. CASE v # w
  <2>1. Formed(attempt[v]) /\ attempt[v] \in Attempt
    BY AttemptTyped
  <2>2. attempt[v].lock /\ attempt[v].pc = "store" =>
            Head(attempt[v].keys) \in Keys \ {h}
    BY <1>3, <2>1, Standing DEF Free, Formed
  <2> QED BY <1>1, <1>3, <2>1, <2>2 DEF Formed
<1> QED BY <1>2, <1>3

LEMMA ClearKeeps ==
    ASSUME ThrottleInv, NEW w \in Workers, ClearBucket(w) PROVE ThrottleInv'
<1>1. /\ Quiet \in Attempt /\ Formed(Quiet) /\ Quiet.pc = "idle"
      /\ attempt' = [attempt EXCEPT ![w] = Quiet]
      /\ bucket' = [bucket EXCEPT ![Account] = NoBucket] /\ Account \in Keys
      /\ spent' = [spent EXCEPT ![Account] = 0] /\ late' = [late EXCEPT ![Account] = 0]
      /\ surface' = surface /\ now' = now /\ Free(w, Account)
  BY QuietFormed DEF ClearBucket, Answer, Keys, Quiet
<1>2. ThrottleTyped'
  <2>1. NoBucket \in Bucket /\ NoBucket.start <= now /\ now \in Nat
    BY NowTyped DEF NoBucket, Bucket
  <2>2. attempt' \in [Workers -> Attempt] /\ spent' \in [Keys -> Nat] /\ late' \in [Keys -> Nat]
    BY <1>1 DEF ThrottleInv, ThrottleTyped
  <2> QED BY <1>1, <2>1, <2>2 DEF ThrottleInv, ThrottleTyped
<1>3. AllFormed'
  BY <1>1, OthersFormed
<1>4. ASSUME NEW k \in Keys PROVE LateAt(k)' /\ WindowAt(k)'
  <2>1. CASE k = Account
    <3>1. bucket'[k] = NoBucket /\ spent'[k] = 0 /\ late'[k] = 0
      BY <1>1, <2>1 DEF ThrottleInv, ThrottleTyped
    <3> QED BY <3>1 DEF LateAt, WindowAt, IsBlocked, Exists, NoBucket
  <2>2. CASE k # Account
    <3>1. bucket'[k] = bucket[k] /\ spent'[k] = spent[k] /\ late'[k] = late[k]
      BY <1>1, <2>2 DEF ThrottleInv, ThrottleTyped
    <3>2. Fate(attempt[w], Quiet, k)
      BY <1>1 DEF Fate, Pending, Past
    <3> QED BY <1>1, <3>1, <3>2, MovedAt
  <2> QED BY <2>1, <2>2
<1> QED BY <1>2, <1>3, <1>4 DEF ThrottleInv, LateInv, WindowInv

-----------------------------------------------------------------------------
(* Recording a failure.                                                    *)

\* The row stored: the next failure of the window, or the first of a new one;
\* it closes the bucket if the failure is within the window.
LEMMA CountedRow ==
    ASSUME ThrottleInv, NEW b \in Bucket, NEW t \in Nat
    PROVE  /\ Counted(b, t) \in Bucket
           /\ InWindow(b, t) => /\ Counted(b, t).attempts = b.attempts + 1
                                /\ Counted(b, t).start = b.start
           /\ ~InWindow(b, t) => Counted(b, t).attempts = 1 /\ Counted(b, t).start = t
           /\ Counted(b, t).attempts >= Limit => Counted(b, t).until = t + Block[surface]
<1>1. Block[surface] \in Nat
  BY ThrottleConstants DEF ThrottleInv, ThrottleTyped
<1>2. b.attempts \in Nat /\ b.start \in Nat /\ b.until \in Nat
  BY DEF Bucket
<1>3. CASE InWindow(b, t)
  <2> DEFINE c == [b EXCEPT !.attempts = @ + 1]
  <2>1. /\ c \in Bucket /\ c.attempts = b.attempts + 1 /\ c.start = b.start
    BY <1>2 DEF Bucket
  <2>2. Counted(b, t) = IF c.attempts >= Limit THEN [c EXCEPT !.until = t + Block[surface]] ELSE c
    BY <1>3 DEF Counted
  <2> HIDE DEF c
  <2> QED BY <1>1, <1>3, <2>1, <2>2 DEF Bucket
<1>4. CASE ~InWindow(b, t)
  <2> DEFINE c == [attempts |-> 1, start |-> t, until |-> 0]
  <2>1. /\ c \in Bucket /\ c.attempts = 1 /\ c.start = t
    BY DEF Bucket
  <2>2. Counted(b, t) = IF c.attempts >= Limit THEN [c EXCEPT !.until = t + Block[surface]] ELSE c
    BY <1>4 DEF Counted
  <2> HIDE DEF c
  <2> QED BY <1>1, <1>4, <2>1, <2>2 DEF Bucket
<1> QED BY <1>3, <1>4

\* What StoreBucket does, in one place: r is the attempt, h the bucket's key, n
\* the attempt afterwards.
Next1(w) ==
    LET r == attempt[w] IN
    IF Len(r.keys) = 1 THEN Quiet
    ELSE [r EXCEPT !.pc = "record", !.seen = NoBucket, !.lock = FALSE, !.keys = Tail(r.keys)]
Opens(w) ==
    LET r == attempt[w] IN
    IF r.seen.attempts = 0 THEN ~Exists(Head(r.keys)) ELSE ~InWindow(r.seen, r.at)

LEMMA StoreFacts ==
    ASSUME ThrottleInv, NEW w \in Workers, StoreBucket(w)
    PROVE  /\ attempt[w] \in Attempt /\ Formed(attempt[w]) /\ attempt[w].pc = "store"
           /\ Head(attempt[w].keys) \in Keys /\ Head(attempt[w].keys) \in Left(attempt[w])
           /\ Next1(w) \in Attempt /\ Formed(Next1(w)) /\ Next1(w).pc \in {"idle", "record"}
           /\ Left(Next1(w)) = Left(attempt[w]) \ {Head(attempt[w].keys)}
           /\ (Next1(w).pc = "record" => Next1(w).at = attempt[w].at)
           /\ attempt' = [attempt EXCEPT ![w] = Next1(w)]
<1> DEFINE r == attempt[w]
           h == Head(r.keys)
           n == Next1(w)
<1>1. /\ r \in Attempt /\ Formed(r) /\ r.src \in Sources /\ r.at \in Nat /\ r.at <= now
      /\ r.pc = "store"
  BY AttemptTyped DEF StoreBucket, Doing
<1>2. r.keys \in {<<Account, r.src>>, <<r.src>>} /\ h \in Keys /\ h \in Left(r)
  BY <1>1, LeftOf, KeySeqs DEF Formed
<1>3. CASE Len(r.keys) = 1
  <2>1. n = Quiet /\ Quiet.pc = "idle" /\ Quiet.keys = <<>>
    BY <1>3 DEF Next1, Quiet
  <2>2. Left(n) = {} /\ Left(r) = {h}
    <3>1. r.keys = <<r.src>>
      BY <1>2, <1>3
    <3>2. Left(r) = {r.src} /\ h = r.src
      BY <3>1, LeftOf
    <3>3. Left(Quiet) = {}
      BY <2>1, LeftOf
    <3> QED BY <2>1, <3>2, <3>3
  <2>3. attempt' = [attempt EXCEPT ![w] = n]
    BY <1>3, <2>1 DEF StoreBucket, Answer
  <2> QED BY <1>1, <1>2, <2>1, <2>2, <2>3, QuietFormed
<1>4. CASE Len(r.keys) # 1
  <2>1. r.keys = <<Account, r.src>> /\ Left(r) = {Account, r.src} /\ Tail(r.keys) = <<r.src>>
        /\ h = Account /\ r.src # Account /\ r.src \in Keys
    BY <1>1, <1>2, <1>4, LeftOf, KeySeqs
  <2>2. n = [r EXCEPT !.pc = "record", !.seen = NoBucket, !.lock = FALSE, !.keys = Tail(r.keys)]
    BY <1>4 DEF Next1
  <2>3. NoBucket \in Bucket /\ <<r.src>> \in Seq(Keys)
    BY <1>1, KeySeqs DEF NoBucket, Bucket
  <2>4. n \in Attempt /\ n.pc = "record" /\ n.lock = FALSE /\ n.keys = <<r.src>>
        /\ n.at = r.at /\ n.src = r.src
    BY ZenonT(60), <1>1, <2>1, <2>2, <2>3 DEF Attempt, PCs
  <2>5. Formed(n)
    BY <1>1, <2>4 DEF Formed
  <2>6. Left(n) = {r.src}
    BY <2>4, LeftOf
  <2>7. attempt' = [attempt EXCEPT ![w] = n]
    BY <1>4, <2>2 DEF StoreBucket
  <2> QED BY <1>1, <1>2, <2>1, <2>4, <2>5, <2>6, <2>7
<1> QED BY <1>3, <1>4

\* The three ways in which a recorded failure fits: it opens a window, it was
\* old and its worker is free now, or it was expected.
LEMMA StoreRoom ==
    ASSUME NEW a \in Nat, NEW b \in Nat, NEW x \in Int, NEW y \in Int, NEW s \in Nat, NEW t \in Nat,
           b >= 1, y <= Limit - 2 + b, x >= 0,
           \/ t = 1
           \/ t = s + 1 /\ 2 * s + 2 * x <= Room(a) /\ a + 1 <= b
           \/ t = s + 1 /\ 2 * s + 2 * x <= Room(a) /\ a <= b /\ y + 1 - b <= x - a
    PROVE  2 * t + 2 * y <= Room(b)
<1>1. Room(a) \in Int /\ Room(b) \in Int /\ Limit \in Nat
  BY RoomNext, LimitTwo
<1>2. CASE t = 1
  BY <1>1, <1>2, RoomOpen
<1>3. CASE t = s + 1 /\ 2 * s + 2 * x <= Room(a) /\ a + 1 <= b
  <2>1. b - 1 \in Nat /\ a <= b - 1
    BY <1>3
  <2>2. Room(a) + 2 * ((b - 1) - a) <= Room(b - 1) /\ Room(b - 1) \in Int
    BY <2>1, RoomGrows, RoomNext
  <2>3. Room(b) = Room(b - 1) + 2 * Limit + 2 * (b - 1)
    BY <2>1, RoomNext
  <2> HIDE DEF Room
  <2> QED BY <1>1, <1>3, <2>1, <2>2, <2>3
<1>4. CASE t = s + 1 /\ 2 * s + 2 * x <= Room(a) /\ a <= b /\ y + 1 - b <= x - a
  <2>1. Room(a) + 2 * (b - a) <= Room(b)
    BY <1>4, RoomGrows
  <2> QED BY <1>1, <1>4, <2>1
<1> QED BY <1>2, <1>3, <1>4

LEMMA StoreWindow ==
    ASSUME ThrottleInv, NEW w \in Workers, StoreBucket(w), Block[surface] >= Window[surface],
           NEW h \in Keys, h = Head(attempt[w].keys)
    PROVE  2 * spent'[h] + 2 * Coming(h)' <= Room(Cardinality(FreeOnes(h)'))
<1> DEFINE r == attempt[w]
           n == Next1(w)
           b == Counted(r.seen, r.at)
           f == Cardinality(FreeOnes(h))
           ff == Cardinality(FreeOnes(h)')
           g == Cardinality(Grounded(h))
           gg == Cardinality(Grounded(h)')
<1>1. /\ r \in Attempt /\ Formed(r) /\ r.pc = "store" /\ h \in Left(r)
      /\ n \in Attempt /\ Formed(n) /\ n.pc \in {"idle", "record"} /\ h \notin Left(n)
      /\ attempt' = [attempt EXCEPT ![w] = n]
  BY StoreFacts
<1>2. /\ attempt'[w] = n /\ \A v \in Workers \ {w} : attempt'[v] = attempt[v]
  BY <1>1 DEF ThrottleInv, ThrottleTyped
<1>3. /\ bucket'[h] = b /\ surface' = surface /\ now' = now
      /\ spent'[h] = IF Opens(w) THEN 1 ELSE spent[h] + 1
  BY DEF StoreBucket, Opens, ThrottleInv, ThrottleTyped
<1>4. r.seen \in Bucket /\ r.at \in Nat /\ r.at <= now /\ now \in Nat
  BY <1>1, AttemptTyped, NowTyped DEF Attempt
<1>5. b \in Bucket /\ b.attempts \in Nat /\ b.start \in Nat /\ b.until \in Nat /\ b.attempts >= 1
  <2>1. b \in Bucket
    BY <1>4, CountedRow
  <2>2. b.attempts >= 1
    <3>1. r.seen.attempts \in Nat
      BY <1>4 DEF Bucket
    <3>2. b.attempts = r.seen.attempts + 1 \/ b.attempts = 1
      BY <1>4, CountedRow
    <3> QED BY <3>1, <3>2
  <2> QED BY <2>1, <2>2 DEF Bucket
<1>6. ~Pending(n, h) /\ ~Past(n, h) /\ ~Rowless(n, h)
  BY <1>1 DEF Pending, Past, Rowless
<1>7. w \in FreeOnes(h)' /\ w \in Grounded(h)'
  BY <1>2, <1>6 DEF FreeOnes, Grounded, Old, Flying, Pending, Past, Charged, Left
<1>8. /\ FreeOnes(h) \in SUBSET Workers /\ FreeOnes(h)' \in SUBSET Workers
      /\ Grounded(h) \in SUBSET Workers /\ Grounded(h)' \in SUBSET Workers
      /\ Grounded(h)' \subseteq FreeOnes(h)'
  BY DEF FreeOnes, Grounded
<1>9. /\ f \in Nat /\ ff \in Nat /\ g \in Nat /\ gg \in Nat /\ gg <= ff
      /\ gg >= 1 /\ ff >= 1
  <2>1. f \in Nat /\ ff \in Nat /\ g \in Nat /\ gg \in Nat /\ gg <= ff
    BY <1>8, CountType, CountMono
  <2>2. Cardinality({}) + 1 <= gg
    BY <1>7, <1>8, CountMore
  <2> QED BY <2>1, <2>2, FS_EmptySet
<1>10. Coming(h)' = IF Closed(h)' THEN ff - gg ELSE UntilClosed(h)' + ff - 1
  BY DEF Coming
<1>11. UntilClosed(h)' = IF b.attempts < Limit THEN Limit - b.attempts ELSE 1
  BY <1>3 DEF UntilClosed
<1> HIDE DEF b, n, f, ff, g, gg
<1>12. Coming(h)' \in Int /\ Coming(h)' <= Limit - 2 + ff
  BY <1>5, <1>9, <1>10, <1>11, LimitTwo
<1>13. Coming(h) \in Int /\ Coming(h) >= 0 /\ spent[h] \in Nat /\ spent'[h] \in Nat
  BY <1>3, ComingTyped, BucketTyped
<1>14. CASE Opens(w)
  BY <1>3, <1>9, <1>12, <1>13, <1>14, StoreRoom DEF ff
<1>15. CASE ~Opens(w)
  <2>1. Exists(h) /\ (r.lock => InWindow(r.seen, r.at) /\ r.seen = bucket[h])
    BY <1>1, <1>15 DEF Opens, Formed, Exists, NoBucket
  <2>2. 2 * spent[h] + 2 * Coming(h) <= Room(f)
    BY <2>1 DEF ThrottleInv, WindowInv, WindowAt, f
  <2>3. b.start = bucket[h].start \/ (Rowless(r, h) /\ b.start = r.at)
    <3>1. CASE r.lock
      BY <1>4, <2>1, <3>1, CountedRow DEF b
    <3>2. CASE ~r.lock
      <4>1. r.seen = NoBucket /\ ~InWindow(r.seen, r.at)
        BY <1>1, <3>2 DEF Formed, InWindow, NoBucket
      <4> QED BY <1>1, <1>4, <3>2, <4>1, CountedRow DEF b, Rowless
    <3> QED BY <3>1, <3>2
  <2>4. ASSUME NEW v \in Workers, Old(v, h)' PROVE Old(v, h)
    <3>1. v # w
      BY <1>7, <2>4 DEF FreeOnes
    <3>2. Pending(attempt[v], h)
      BY <1>2, <2>4, <3>1 DEF Old, Pending, Left
    <3>3. \/ attempt[v].at < b.start
          \/ Rowless(attempt[v], h)
          \/ \E u \in Workers : Rowless(attempt[u], h) /\ attempt[v].at < attempt[u].at
      BY <1>2, <1>3, <1>6, <2>4, <3>1 DEF Old, Rowless
    <3> QED BY <2>3, <3>2, <3>3 DEF Old
  <2>5. FreeOnes(h) \subseteq FreeOnes(h)'
    BY <2>4 DEF FreeOnes
  <2>6. CASE Old(w, h)
    <3>1. w \notin FreeOnes(h)
      BY <2>6 DEF FreeOnes
    <3>2. f + 1 <= ff
      BY <1>7, <1>8, <2>5, <3>1, CountMore DEF f, ff
    <3> QED BY <1>3, <1>9, <1>12, <1>13, <1>15, <2>2, <3>2, StoreRoom DEF ff
  <2>7. CASE ~Old(w, h)
    <3>1. r.lock /\ Pending(r, h)
      BY <1>1, <2>7 DEF Old, Pending, Rowless
    <3>2. r.seen = bucket[h] /\ InWindow(bucket[h], r.at) /\ ~(r.at < bucket[h].start)
      BY <2>1, <2>7, <3>1 DEF Old
    <3>3. /\ bucket[h].attempts \in Nat /\ bucket[h].start \in Nat /\ Window[surface] \in Nat
          /\ Block[surface] \in Nat /\ WindowEnd(h) = bucket[h].start + Window[surface]
          /\ r.at < WindowEnd(h) /\ r.at >= bucket[h].start
      BY <1>4, <3>2, BucketTyped DEF InWindow, WindowEnd
    <3>4. /\ b.attempts = bucket[h].attempts + 1 /\ b.start = bucket[h].start
          /\ b.attempts >= Limit => b.until = r.at + Block[surface]
      <4> HIDE DEF r
      <4>1. b = Counted(bucket[h], r.at) /\ bucket[h] \in Bucket
        BY <1>4, <3>2 DEF b, r
      <4> QED BY <1>4, <3>2, <4>1, CountedRow
    <3>5. WindowEnd(h)' = WindowEnd(h)
      BY <1>3, <3>4 DEF WindowEnd
    <3>6. Closed(h)' <=> b.attempts >= Limit
      <4>1. b.attempts >= Limit => b.until >= WindowEnd(h)
        BY <1>4, <3>3, <3>4
      <4>2. Closed(h)' <=> b.attempts >= Limit /\ b.until >= WindowEnd(h)
        BY <1>3, <3>5 DEF Closed
      <4> QED BY <4>1, <4>2
    <3>7. f <= ff
      BY <1>8, <2>5, CountMono DEF f, ff
    <3>8. Coming(h)' + 1 - ff <= Coming(h) - f
      <4>1. CASE Closed(h)
        <5>1. Closed(h)'
          BY <3>3, <3>4, <3>6, <4>1, LimitTwo DEF Closed
        <5>2. w \notin Grounded(h)
          BY SMTT(30), <3>1, <3>3 DEF Grounded, Flying
        <5>3. ASSUME NEW v \in Workers, v # w, Flying(v, h)' PROVE Flying(v, h)
          BY <1>2, <1>3, <3>5, <5>3 DEF Flying, Pending, Past, Charged, Left
        <5>4. Grounded(h) \subseteq Grounded(h)'
          BY <2>5, <5>2, <5>3 DEF Grounded, FreeOnes
        <5>5. g + 1 <= gg
          BY <1>7, <1>8, <5>2, <5>4, CountMore DEF g, gg
        <5>6. Coming(h) = f - g
          BY <4>1 DEF Coming, f, g
        <5> QED BY <1>9, <1>10, <5>1, <5>5, <5>6
      <4>2. CASE ~Closed(h)
        <5>1. Coming(h) = UntilClosed(h) + f - 1 /\ UntilClosed(h) \in Nat /\ UntilClosed(h) >= 1
          BY <4>2, ComingTyped DEF Coming, f
        <5>2. UntilClosed(h) = IF bucket[h].attempts < Limit THEN Limit - bucket[h].attempts ELSE 1
          BY DEF UntilClosed
        <5> QED BY <1>9, <1>10, <1>11, <3>3, <3>4, <3>6, <5>1, <5>2, LimitTwo
      <4> QED BY <4>1, <4>2
    <3> QED BY <1>3, <1>9, <1>12, <1>13, <1>15, <2>2, <3>7, <3>8, StoreRoom DEF ff
  <2> QED BY <2>6, <2>7
<1> QED BY <1>14, <1>15

LEMMA StoreKeeps ==
    ASSUME ThrottleInv, NEW w \in Workers, StoreBucket(w) PROVE ThrottleInv'
<1>6. PICK h \in Keys : h = Head(attempt[w].keys)
  BY StoreFacts
<1> DEFINE r == attempt[w]
           n == Next1(w)
           b == Counted(r.seen, r.at)
<1>1. /\ r \in Attempt /\ Formed(r) /\ r.pc = "store" /\ h \in Keys /\ h \in Left(r)
      /\ n \in Attempt /\ Formed(n) /\ n.pc \in {"idle", "record"} /\ Left(n) = Left(r) \ {h}
      /\ (n.pc = "record" => n.at = r.at)
      /\ attempt' = [attempt EXCEPT ![w] = n]
  BY <1>6, StoreFacts
<1>2. /\ bucket' = [bucket EXCEPT ![h] = b] /\ surface' = surface /\ now' = now /\ Free(w, h)
      /\ late' = [late EXCEPT ![h] = IF IsBlocked(b, now) THEN @ ELSE 0]
      /\ spent' = [spent EXCEPT ![h] = IF Opens(w) THEN 1 ELSE @ + 1]
  BY <1>6 DEF StoreBucket, Opens
<1>3. r.seen \in Bucket /\ r.at \in Nat /\ r.at <= now /\ now \in Nat
  BY <1>1, AttemptTyped, NowTyped DEF Attempt
<1>4. b \in Bucket /\ b.attempts \in Nat /\ b.attempts >= 1 /\ b.start <= now
  <2>1. b \in Bucket /\ b.attempts \in Nat /\ b.start \in Nat
    BY <1>3, CountedRow DEF Bucket
  <2>2. CASE InWindow(r.seen, r.at)
    <3>1. r.lock
      BY <1>1, <2>2 DEF Formed, InWindow, NoBucket
    <3>2. r.seen = bucket[h]
      BY <1>1, <1>6, <3>1 DEF Formed
    <3>3. b.attempts = r.seen.attempts + 1 /\ b.start = r.seen.start
      BY <1>3, <2>2, CountedRow
    <3>4. r.seen.attempts \in Nat /\ bucket[h].start <= now
      BY <1>1, <1>3, BucketTyped DEF Bucket
    <3> HIDE DEF b, r
    <3> QED BY <2>1, <3>2, <3>3, <3>4
  <2>3. CASE ~InWindow(r.seen, r.at)
    <3>1. b.attempts = 1 /\ b.start = r.at
      BY <1>3, <2>3, CountedRow
    <3> HIDE DEF b
    <3> QED BY <1>3, <2>1, <3>1
  <2> QED BY <2>2, <2>3
<1>5. /\ bucket'[h] = b /\ \A k \in Keys \ {h} : bucket'[k] = bucket[k]
      /\ late'[h] = (IF IsBlocked(b, now) THEN late[h] ELSE 0)
      /\ \A k \in Keys \ {h} : late'[k] = late[k] /\ spent'[k] = spent[k]
  BY <1>1, <1>2 DEF ThrottleInv, ThrottleTyped
<1> HIDE DEF r, n, b
<1>7. ThrottleTyped'
  <2>1. /\ bucket' \in [Keys -> Bucket] /\ attempt' \in [Workers -> Attempt]
        /\ spent' \in [Keys -> Nat] /\ late' \in [Keys -> Nat]
    BY <1>1, <1>2, <1>4 DEF ThrottleInv, ThrottleTyped
  <2>2. \A k \in Keys : bucket'[k].start <= now /\ (bucket'[k].attempts = 0 => bucket'[k] = NoBucket)
    BY <1>4, <1>5 DEF ThrottleInv, ThrottleTyped
  <2> QED BY <1>2, <2>1, <2>2 DEF ThrottleInv, ThrottleTyped
<1>8. AllFormed'
  BY <1>1, <1>2, OthersFormed
<1>9. LateAt(h)'
  <2>1. CASE ~IsBlocked(b, now)
    BY <1>2, <1>5, <2>1 DEF LateAt
  <2>2. CASE IsBlocked(b, now)
    <3>1. PassedBy(h) \in SUBSET Workers /\ PassedBy(h)' \in SUBSET Workers
      BY DEF PassedBy
    <3>2. w \notin PassedBy(h)' /\ PassedBy(h)' \subseteq PassedBy(h)
      <4>1. attempt'[w] = n /\ ~Past(n, h) /\ \A v \in Workers \ {w} : attempt'[v] = attempt[v]
        BY <1>1 DEF Past, ThrottleInv, ThrottleTyped
      <4> QED BY <4>1 DEF PassedBy, Past, Charged, Left
    <3>3. late[h] + Cardinality(PassedBy(h)') < Cardinality(Workers)
      <4>1. CASE IsBlocked(bucket[h], now)
        <5>1. late[h] + Cardinality(PassedBy(h)) < Cardinality(Workers) /\ late[h] \in Nat
          BY <1>1, <4>1, BucketTyped DEF ThrottleInv, LateInv, LateAt
        <5>2. Cardinality(PassedBy(h)') <= Cardinality(PassedBy(h))
          BY <3>1, <3>2, CountMono
        <5> QED BY <3>1, <5>1, <5>2, CountType, ThrottleConstants, FS_CardinalityType
      <4>2. CASE ~IsBlocked(bucket[h], now)
        <5>1. late[h] = 0
          BY <1>1, <4>2 DEF ThrottleInv, LateInv, LateAt
        <5>2. Cardinality(PassedBy(h)') + 1 <= Cardinality(Workers)
          BY <3>1, <3>2, CountMore
        <5> QED BY <3>1, <5>1, <5>2, CountType, ThrottleConstants, FS_CardinalityType
      <4> QED BY <4>1, <4>2
    <3> QED BY <1>2, <1>5, <2>2, <3>3 DEF LateAt
  <2> QED BY <2>1, <2>2
<1>10. WindowAt(h)'
  <2>1. Exists(h)'
    BY <1>4, <1>5 DEF Exists
  <2>2. Block[surface] >= Window[surface] =>
           2 * spent'[h] + 2 * Coming(h)' <= Room(Cardinality(FreeOnes(h)'))
    BY <1>1, <1>6, StoreWindow
  <2> QED BY <1>2, <2>1, <2>2 DEF WindowAt
<1>11. ASSUME NEW k \in Keys, k # h PROVE LateAt(k)' /\ WindowAt(k)'
  <2>1. Pending(n, k) => Pending(r, k) /\ n.at = r.at
    BY <1>1 DEF Pending
  <2>2. ~Past(n, k) /\ ~Rowless(n, k)
    BY <1>1 DEF Past, Rowless
  <2>3. Fate(r, n, k)
    BY <2>1, <2>2 DEF Fate
  <2>4. Fate(attempt[w], n, k)
    BY <2>3 DEF r
  <2> QED BY <1>1, <1>2, <1>5, <1>11, <2>4, MovedAt
<1> QED BY <1>1, <1>7, <1>8, <1>9, <1>10, <1>11 DEF ThrottleInv, LateInv, WindowInv

-----------------------------------------------------------------------------
(* The theorem.                                                            *)

LEMMA ThrottleStarts == ThrottleInit => ThrottleInv
<1> SUFFICES ASSUME ThrottleInit PROVE ThrottleInv
  OBVIOUS
<1>1. NoBucket \in Bucket /\ Account \in Keys /\ 1 \in 1..MaxTime
  BY ThrottleConstants DEF NoBucket, Bucket, Keys
<1>2. Quiet \in Attempt
  BY <1>1 DEF Quiet, Attempt, PCs
<1>3. ThrottleTyped
  BY <1>1, <1>2 DEF ThrottleInit, ThrottleTyped, NoBucket
<1>4. AllFormed
  BY DEF ThrottleInit, AllFormed, Formed, Quiet
<1>5. LateInv /\ WindowInv
  BY DEF ThrottleInit, LateInv, LateAt, WindowInv, WindowAt, IsBlocked, Exists, NoBucket
<1> QED BY <1>3, <1>4, <1>5 DEF ThrottleInv

LEMMA ThrottleSteps == ThrottleInv /\ [ThrottleNext]_throttleVars => ThrottleInv'
<1> SUFFICES ASSUME ThrottleInv, [ThrottleNext]_throttleVars PROVE ThrottleInv'
  OBVIOUS
<1>1. CASE UNCHANGED throttleVars
  BY ZenonT(60), <1>1 DEF throttleVars, ThrottleInv, ThrottleTyped, AllFormed, Formed, LateInv, LateAt, PassedBy,
     WindowInv, WindowAt, Exists, Coming, Closed, UntilClosed, Grounded, FreeOnes, Flying, Old, WindowEnd
<1>2. CASE Tick
  BY <1>2, TickKeeps
<1>3. ASSUME NEW w \in Workers,
             \/ Arrive(w) \/ Enforce(w) \/ RejectLogin(w) \/ AcceptLogin(w)
             \/ RejectReauth(w) \/ AcceptReauth(w) \/ RejectPassword(w) \/ AcceptPassword(w)
             \/ RejectSetup(w) \/ AcceptSetup(w)
             \/ RejectFactor(w) \/ AcceptFactor(w) \/ ClearBucket(w)
             \/ LockBucket(w) \/ StoreBucket(w) \/ AttemptDies(w)
      PROVE  ThrottleInv'
  <2>1. CASE Arrive(w)
    BY <2>1, ArriveKeeps
  <2>2. CASE Enforce(w)
    BY <2>2, EnforceKeeps
  <2>3. CASE RejectLogin(w) \/ RejectReauth(w) \/ RejectPassword(w) \/ RejectSetup(w)
    BY <2>3, RejectKeeps DEF RejectLogin, RejectReauth, RejectPassword, RejectSetup, Judging
  <2>4. CASE \/ AcceptLogin(w) \/ AcceptReauth(w) \/ AcceptPassword(w) \/ AcceptSetup(w)
             \/ AcceptFactor(w)
    BY <2>4, AcceptKeeps
  <2>5. CASE RejectFactor(w)
    BY <2>5, RejectFactorKeeps
  <2>6. CASE ClearBucket(w)
    BY <2>6, ClearKeeps
  <2>7. CASE LockBucket(w)
    BY <2>7, LockKeeps
  <2>8. CASE StoreBucket(w)
    BY <2>8, StoreKeeps
  <2>9. CASE AttemptDies(w)
    BY <2>9, Answered DEF AttemptDies
  <2> QED BY <1>3, <2>1, <2>2, <2>3, <2>4, <2>5, <2>6, <2>7, <2>8, <2>9
<1> QED BY <1>1, <1>2, <1>3 DEF ThrottleNext

LEMMA ThrottleSafe == ThrottleInv => GuessesBounded
<1> SUFFICES ASSUME ThrottleInv PROVE GuessesBounded
  OBVIOUS
<1> DEFINE N == Cardinality(Workers)
<1>1. N \in Nat /\ N >= 1
  BY ThrottleConstants, FS_CardinalityType, FS_EmptySet
<1>2. BucketsOK
  <2>1. \A k \in Keys : DOMAIN bucket[k] = DOMAIN NoBucket /\ bucket[k].start <= now
    BY BucketTyped DEF Bucket, NoBucket
  <2>2. ASSUME NEW w \in Workers, attempt[w].lock
        PROVE  Doing(w, "store") /\ Exists(Head(attempt[w].keys))
    BY <2>2, AttemptTyped DEF Formed, Doing, Exists
  <2> QED BY <2>1, <2>2 DEF BucketsOK, ThrottleInv, ThrottleTyped
<1>3. LateGuesses
  <2> SUFFICES ASSUME NEW k \in Keys PROVE late[k] < N
    BY DEF LateGuesses
  <2>1. PassedBy(k) \in SUBSET Workers
    BY DEF PassedBy
  <2>2. Cardinality(PassedBy(k)) \in Nat /\ late[k] \in Nat
    BY <2>1, CountType, BucketTyped
  <2> QED BY <1>1, <2>2 DEF ThrottleInv, LateInv, LateAt
<1>4. GuessesPerWindow
  <2> SUFFICES ASSUME Block[surface] >= Window[surface], NEW k \in Keys
               PROVE  2 * spent[k] <= Room(N)
    BY DEF GuessesPerWindow, Room
  <2>1. /\ Coming(k) \in Int /\ Coming(k) >= 0 /\ spent[k] \in Nat
        /\ FreeOnes(k) \in SUBSET Workers /\ Cardinality(FreeOnes(k)) \in Nat
    BY ComingTyped, BucketTyped
  <2>2. Cardinality(FreeOnes(k)) <= N
    BY <2>1, CountType
  <2>3. /\ Room(Cardinality(FreeOnes(k))) <= Room(N) /\ Room(N) \in Int /\ Room(N) >= 0
        /\ Room(Cardinality(FreeOnes(k))) \in Int
    <3>1. /\ Room(Cardinality(FreeOnes(k))) + 2 * (N - Cardinality(FreeOnes(k))) <= Room(N)
          /\ Room(N) \in Int /\ Room(Cardinality(FreeOnes(k))) \in Int
      BY <1>1, <2>1, <2>2, RoomGrows, RoomNext
    <3>2. Room(N) >= 0
      BY <1>1, <3>1, RoomOpen, LimitTwo
    <3> QED BY <1>1, <2>1, <2>2, <3>1, <3>2
  <2>4. IF Exists(k) THEN 2 * spent[k] + 2 * Coming(k) <= Room(Cardinality(FreeOnes(k)))
        ELSE spent[k] = 0
    BY DEF ThrottleInv, WindowInv, WindowAt
  <2> QED BY <2>1, <2>3, <2>4
<1> QED BY <1>2, <1>3, <1>4 DEF GuessesBounded

\* However many requests run at once, and whatever the limit, window and block
\* of a surface: rows and locks are sound, a blocked bucket lets at most one
\* guess of each other worker through, and a window sees no more failures than
\* n * Limit + n * (n - 1) / 2 (rate_limits.rs: enforce_rate_limit,
\* record_rate_limit_failure, clear_rate_limit_bucket).
THEOREM GuessesStayBounded == ThrottleSpec => []GuessesBounded
<1>1. ThrottleInit => ThrottleInv
  BY ThrottleStarts
<1>2. ThrottleInv /\ [ThrottleNext]_throttleVars => ThrottleInv'
  BY ThrottleSteps
<1>3. ThrottleInv => GuessesBounded
  BY ThrottleSafe
<1> QED BY <1>1, <1>2, <1>3, PTL DEF ThrottleSpec
=============================================================================
