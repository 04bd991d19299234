------------------------------ MODULE EmailOutbox ------------------------------
(***************************************************************************)
(* The email outbox and the delivery jobs that empty it.  Requests insert  *)
(* rows; any number of `cairn-api email-outbox deliver-once` processes run *)
(* side by side.  A job claims a batch in one statement, hands the rows to *)
(* the provider one by one and marks each row with what the provider said. *)
(* The claim carries no token: a mark is guarded by the row's status only, *)
(* so a job that outlives its claim still writes to the row.               *)
(*                                                                         *)
(* A row's text, its encrypted link and its recipient are not modelled.    *)
(* Time is: a claim may become older than the sending timeout (GoStale),   *)
(* a retry delay may run out (RetryDue).                                   *)
(***************************************************************************)
EXTENDS Integers, FiniteSets

CONSTANTS
    Messages,     \* the rows, numbered in the order of created_at
    Jobs,         \* the delivery processes
    BatchSize,    \* CAIRN_EMAIL_BATCH_SIZE, the LIMIT of a claim
    MaxAttempts,  \* CAIRN_EMAIL_MAX_ATTEMPTS
    MaxCrashes    \* bound: how many jobs may die or lose the database

ASSUME OutboxConstants ==
    /\ Messages \subseteq Nat \ {0}
    /\ BatchSize \in Nat \ {0}
    /\ MaxAttempts \in Nat \ {0}
    /\ MaxCrashes \in Nat

VARIABLES
    status,    \* each row's status; "none" before it is inserted
    attempts,  \* each row's attempts, counted up to MaxAttempts: no code
               \* tells a higher count from that one
    stale,     \* rows in "sending" whose updated_at passed the timeout
    waiting,   \* rows in "retry" whose next_attempt_at is in the future
    pc,        \* where each job is
    batch,     \* the rows each job has claimed and not yet marked
    seen,      \* message.attempts of those rows, as the claim returned it
    cur,       \* the row a job is about to mark and its result, or NoRow
    crashes,   \* history: how many jobs have died
    copies,    \* history: how often a mail has gone out, counted up to 2
    stalled,   \* history: rows whose claim once became stale
    erred      \* history: rows for which a send once returned an error

rows == <<status, attempts, stale, waiting>>
history == <<copies, stalled, erred>>
vars == <<rows, pc, batch, seen, cur, crashes, history>>

Terminal == {"sent", "failed"}
Statuses == {"none", "queued", "retry", "sending"} \cup Terminal
Results == {"ok", "transient", "permanent"}
NoRow == [row |-> 0, result |-> "none"]

Init ==
    /\ status = [m \in Messages |-> "none"]
    /\ attempts = [m \in Messages |-> 0]
    /\ stale = {}
    /\ waiting = {}
    /\ pc = [j \in Jobs |-> "idle"]
    /\ batch = [j \in Jobs |-> {}]
    /\ seen = [j \in Jobs |-> [m \in Messages |-> 0]]
    /\ cur = [j \in Jobs |-> NoRow]
    /\ crashes = 0
    /\ copies = [m \in Messages |-> 0]
    /\ stalled = {}
    /\ erred = {}

-----------------------------------------------------------------------------
(* Rows. *)

\* A request commits a lifecycle mail or a security notification.
Enqueue(m) ==
    /\ status[m] = "none"
    /\ status' = [status EXCEPT ![m] = "queued"]
    /\ UNCHANGED <<attempts, stale, waiting, pc, batch, seen, cur, crashes, history>>

\* The claim's WHERE clause.
Claimable(m) ==
    \/ status[m] \in {"queued", "retry"} /\ m \notin waiting
    \/ status[m] = "sending" /\ m \in stale

\* ORDER BY created_at LIMIT BatchSize.
Oldest(S) == {m \in S : Cardinality({n \in S : n =< m}) =< BatchSize}

\* No claim statement holds the row's lock.
Unlocked(m) == \A k \in Jobs : pc[k] = "claim" => m \notin batch[k]

\* updated_at falls behind the sending timeout.
GoStale(m) ==
    /\ status[m] = "sending"
    /\ m \notin stale
    /\ stale' = stale \cup {m}
    /\ stalled' = stalled \cup {m}
    /\ UNCHANGED <<status, attempts, waiting, pc, batch, seen, cur, crashes, copies, erred>>

\* next_attempt_at is reached.
RetryDue(m) ==
    /\ m \in waiting
    /\ waiting' = waiting \ {m}
    /\ UNCHANGED <<status, attempts, stale, pc, batch, seen, cur, crashes, history>>

-----------------------------------------------------------------------------
(* One delivery job. *)

\* What the claim statement does with the rows it selects.
SelectFrom(j, S) ==
    /\ pc[j] = "idle"
    /\ Oldest(S) # {}
    /\ pc' = [pc EXCEPT ![j] = "claim"]
    /\ batch' = [batch EXCEPT ![j] = Oldest(S)]
    /\ UNCHANGED <<rows, seen, cur, crashes, history>>

\* The bug of a SELECT without FOR UPDATE SKIP LOCKED.
Select_NoLock(j) == SelectFrom(j, {m \in Messages : Claimable(m)})

\* The bug of reclaiming whatever is in "sending".
Select_AnySending(j) ==
    SelectFrom(j, {m \in Messages : /\ Claimable(m) \/ status[m] = "sending"
                                    /\ Unlocked(m)})

\* The bug of never reclaiming a row whose job died.
Select_NeverReclaims(j) ==
    SelectFrom(j, {m \in Messages : /\ Claimable(m) /\ status[m] # "sending"
                                    /\ Unlocked(m)})

\* The claim selects the oldest claimable rows no one else has locked, and
\* locks them.  A job that finds none reports zero and ends.
Select(j) == SelectFrom(j, {m \in Messages : Claimable(m) /\ Unlocked(m)})

Bump(n) == IF n < MaxAttempts THEN n + 1 ELSE MaxAttempts

\* The UPDATE of the claim statement, its commit and its RETURNING.
ClaimUpdate(j) ==
    /\ pc[j] = "claim"
    /\ status' = [m \in Messages |-> IF m \in batch[j] THEN "sending" ELSE status[m]]
    /\ attempts' = [m \in Messages |-> IF m \in batch[j] THEN Bump(attempts[m]) ELSE attempts[m]]
    /\ stale' = stale \ batch[j]
    /\ seen' = [seen EXCEPT ![j] = [m \in Messages |->
                   IF m \in batch[j] THEN Bump(attempts[m]) ELSE 0]]
    /\ pc' = [pc EXCEPT ![j] = "send"]
    /\ UNCHANGED <<waiting, batch, cur, crashes, history>>

\* One turn of the loop up to the answer of render_email and send_email.  The
\* rows come in the order RETURNING gives them, which is no particular one.
\* A mail has gone out when the answer is "ok"; it may have when the provider
\* failed or answered something unreadable.
Send(j, m, result, out) ==
    /\ pc[j] = "send"
    /\ m \in batch[j]
    /\ result = "ok" => out
    /\ copies' = [copies EXCEPT ![m] = IF out /\ @ < 2 THEN @ + 1 ELSE @]
    /\ erred' = IF result = "ok" THEN erred ELSE erred \cup {m}
    /\ cur' = [cur EXCEPT ![j] = [row |-> m, result |-> result]]
    /\ pc' = [pc EXCEPT ![j] = "mark"]
    /\ UNCHANGED <<rows, batch, seen, crashes, stalled>>

\* The status a job gives the row it has just tried.
Verdict_AttemptsFirst(j) ==
    IF seen[j][cur[j].row] >= MaxAttempts \/ cur[j].result = "permanent" THEN "failed"
    ELSE IF cur[j].result = "ok" THEN "sent" ELSE "retry"

Verdict(j) ==
    IF cur[j].result = "ok" THEN "sent"
    ELSE IF cur[j].result = "permanent" \/ seen[j][cur[j].row] >= MaxAttempts
         THEN "failed" ELSE "retry"

\* On to the next row, or out of the loop.
NextRow(j) ==
    /\ batch' = [batch EXCEPT ![j] = @ \ {cur[j].row}]
    /\ pc' = [pc EXCEPT ![j] = IF batch[j] = {cur[j].row} THEN "idle" ELSE "send"]
    /\ seen' = [seen EXCEPT ![j][cur[j].row] = 0]
    /\ cur' = [cur EXCEPT ![j] = NoRow]
    /\ UNCHANGED <<attempts, crashes, history>>

WriteMark(m, new) ==
    /\ status' = [status EXCEPT ![m] = new]
    /\ stale' = stale \ {m}
    /\ waiting' = IF new = "retry" THEN waiting \cup {m} ELSE waiting \ {m}

\* The bug of an UPDATE that names the row and not its status.
Mark_Unguarded(j) ==
    /\ pc[j] = "mark"
    /\ Unlocked(cur[j].row)
    /\ WriteMark(cur[j].row, Verdict(j))
    /\ NextRow(j)

\* The bug of giving a row that has failed for good a next_attempt_at.
Mark_SchedulesFailed(j) ==
    /\ pc[j] = "mark"
    /\ Unlocked(cur[j].row)
    /\ status' = [status EXCEPT ![cur[j].row] = IF @ = "sending" THEN Verdict(j) ELSE @]
    /\ stale' = stale \ {cur[j].row}
    /\ waiting' = IF Verdict(j) = "sent" THEN waiting ELSE waiting \cup {cur[j].row}
    /\ NextRow(j)

\* mark_email_outbox_sent, _retry or _failed: whatever the row's claim, it is
\* written if it is in "sending", and left alone if it is not.
Mark(j) ==
    /\ pc[j] = "mark"
    /\ Unlocked(cur[j].row)
    /\ IF status[cur[j].row] = "sending"
       THEN WriteMark(cur[j].row, Verdict(j))
       ELSE UNCHANGED <<status, stale, waiting>>
    /\ NextRow(j)

\* The process dies, or a statement fails and `?` leaves the loop: the rest of
\* the batch stays in "sending".  A claim that has not committed is undone.
Crash(j) ==
    /\ pc[j] # "idle"
    /\ crashes < MaxCrashes
    /\ crashes' = crashes + 1
    /\ pc' = [pc EXCEPT ![j] = "idle"]
    /\ batch' = [batch EXCEPT ![j] = {}]
    /\ seen' = [seen EXCEPT ![j] = [m \in Messages |-> 0]]
    /\ cur' = [cur EXCEPT ![j] = NoRow]
    /\ UNCHANGED <<rows, history>>

-----------------------------------------------------------------------------

Deliver(j) ==
    \/ Select(j)
    \/ ClaimUpdate(j)
    \/ \E m \in Messages, result \in Results, out \in BOOLEAN : Send(j, m, result, out)
    \/ Mark(j)

Next ==
    \/ \E j \in Jobs : Deliver(j) \/ Crash(j)
    \/ \E m \in Messages : Enqueue(m) \/ GoStale(m) \/ RetryDue(m)

Spec == Init /\ [][Next]_vars

\* Operators schedule deliver-once, so a job is always started again; a started
\* job goes on, which assumes that the provider command returns; time passes.
Fairness ==
    /\ \A j \in Jobs : WF_vars(Deliver(j))
    /\ \A m \in Messages : WF_vars(GoStale(m)) /\ WF_vars(RetryDue(m))

FairSpec == Spec /\ Fairness

-----------------------------------------------------------------------------
(* Properties. *)

\* The rows a job holds by a committed claim.
Held(j) == IF pc[j] \in {"send", "mark"} THEN batch[j] ELSE {}

\* Rows and jobs are well formed: only a row in "sending" is stale, only one in
\* "retry" waits for its next attempt, and a running job has a row to work on.
TypeOK ==
    /\ status \in [Messages -> Statuses]
    /\ attempts \in [Messages -> 0..MaxAttempts]
    /\ stale \subseteq {m \in Messages : status[m] = "sending"}
    /\ waiting \subseteq {m \in Messages : status[m] = "retry"}
    /\ pc \in [Jobs -> {"idle", "claim", "send", "mark"}]
    /\ batch \in [Jobs -> SUBSET Messages]
    /\ \A j \in Jobs : (pc[j] = "idle") <=> (batch[j] = {})
    /\ seen \in [Jobs -> [Messages -> 0..MaxAttempts]]
    /\ cur \in [Jobs -> [row : Messages, result : Results] \cup {NoRow}]
    /\ \A j \in Jobs : IF pc[j] = "mark" THEN cur[j].row \in batch[j] ELSE cur[j] = NoRow
    /\ crashes \in 0..MaxCrashes
    /\ copies \in [Messages -> 0..2]
    /\ stalled \subseteq Messages
    /\ erred \subseteq Messages

\* Two jobs work on one row only after a claim of it was left in "sending"
\* past the timeout: FOR UPDATE SKIP LOCKED keeps simultaneous claims apart.
ClaimExclusive ==
    \A j, k \in Jobs : j # k => Held(j) \cap Held(k) \subseteq stalled

\* A mail goes out twice only if its claim once became stale or a send of it
\* once returned an error: no crash, mark or claim alone leads to a second copy.
ResendExcused == \A m \in Messages : copies[m] = 2 => m \in stalled \cup erred

\* What deliver_once leaves behind is true: a row marked sent has gone out, and
\* a row is given up only after some send of it returned an error.
FateDeserved ==
    /\ \A m \in Messages : status[m] = "sent" => copies[m] > 0
    /\ \A m \in Messages : status[m] = "failed" => m \in erred

\* A row that was sent or given up stays so, whichever jobs still hold it: the
\* late mark of a job that lost its claim cannot reopen the row.
TerminalStays ==
    [][\A m \in Messages : status[m] \in Terminal => status'[m] = status[m]]_vars

\* Every mail put in the outbox is in the end sent or given up, jobs that die
\* between claim, send and mark notwithstanding.
Settles == \A m \in Messages : status[m] = "queued" ~> status[m] \in Terminal
=============================================================================
