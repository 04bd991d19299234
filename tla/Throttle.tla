------------------------------ MODULE Throttle ------------------------------
(***************************************************************************)
(* The attempt limits of the sign-in surfaces: login, reauthentication     *)
(* (with password change), password recovery and bootstrap.  A request     *)
(* reads its buckets (enforce_rate_limit), is judged, and records a        *)
(* failure in one transaction per bucket: SELECT ... FOR UPDATE, then an   *)
(* upsert of the whole row.  While a bucket has no row there is nothing to *)
(* lock.  Buckets of different surfaces have different keys, so a          *)
(* behaviour is about one surface.                                         *)
(***************************************************************************)
EXTENDS Naturals, Sequences, FiniteSets

CONSTANTS
    Sources,   \* client network addresses
    Workers,   \* requests that run at the same time
    Surfaces,  \* of {"login", "reauth", "recovery", "bootstrap"}
    Limit,     \* failures a window allows
    Window,    \* length of a window, per surface
    Block,     \* length of a block, per surface
    MaxTime    \* bound of the clock

Account == "account"
NoBucket == [attempts |-> 0, start |-> 0, until |-> 0]

ASSUME ThrottleConstants ==
    /\ Limit \in Nat \ {0, 1} /\ MaxTime \in Nat \ {0}
    /\ IsFiniteSet(Workers) /\ Workers # {} /\ Account \notin Sources
    /\ \A f \in Surfaces : Window[f] \in Nat \ {0} /\ Block[f] \in Nat \ {0}

VARIABLES
    surface,  \* the surface of this behaviour
    now,      \* the clock
    bucket,   \* rate_limit_buckets: NoBucket where there is no row
    attempt,  \* what each worker does
    spent,    \* history: failures recorded in the present window of a bucket
    late      \* history: wrong guesses judged since the bucket is blocked

throttleVars == <<surface, now, bucket, attempt, spent, late>>

Keys == Sources \cup {Account}
Quiet == [op |-> "none", pc |-> "idle", src |-> Account, keys |-> <<>>, at |-> 0,
          seen |-> NoBucket, lock |-> FALSE]

ThrottleInit ==
    /\ surface \in Surfaces
    /\ now = 1
    /\ bucket = [k \in Keys |-> NoBucket]
    /\ attempt = [w \in Workers |-> Quiet]
    /\ spent = [k \in Keys |-> 0] /\ late = [k \in Keys |-> 0]

-----------------------------------------------------------------------------
(* The keys of a request: login_pre_credential_, login_verified_user_,     *)
(* reauthentication_, account_recovery_ and bootstrap_rate_limit_keys.     *)

FirstKeys(op, s) ==
    IF op \in {"reauth", "password"} THEN <<Account, s>> ELSE <<s>>
VerifiedKeys(s) == <<Account, s>>

Exists(k) == bucket[k].attempts > 0
IsBlocked(b, t) == b.attempts > 0 /\ b.until > t

Doing(w, pc) == attempt[w].pc = pc
To(w, pc, keys) ==
    attempt' = [attempt EXCEPT ![w].pc = pc, ![w].keys = keys, ![w].at = now]
Answer(w) == attempt' = [attempt EXCEPT ![w] = Quiet]
Free(w, k) ==
    \A v \in Workers \ {w} : attempt[v].lock => Head(attempt[v].keys) # k

\* The operations of a surface; a login for an unknown address fails as one with
\* a wrong password does.
OpsOf(f) == IF f = "reauth" THEN {"reauth", "password"} ELSE {f}

Arrive(w) ==
    /\ Doing(w, "idle")
    /\ \E op \in OpsOf(surface), s \in Sources :
         attempt' = [attempt EXCEPT ![w] =
           [Quiet EXCEPT !.op = op, !.pc = "enforce", !.src = s,
                         !.keys = FirstKeys(op, s), !.at = now]]
    /\ UNCHANGED <<surface, now, bucket, spent, late>>

\* enforce_rate_limit, one read per bucket; a blocked one answers 429.  A
\* recovery request is counted before it is looked at.
Enforce(w) ==
    LET r == attempt[w] IN
    /\ Doing(w, "enforce") \/ Doing(w, "again")
    /\ IF IsBlocked(bucket[Head(r.keys)], r.at) THEN Answer(w)
       ELSE IF Len(r.keys) > 1 THEN attempt' = [attempt EXCEPT ![w].keys = Tail(@)]
       ELSE IF r.op = "recovery" THEN To(w, "record", FirstKeys(r.op, r.src))
       ELSE IF Doing(w, "enforce") THEN To(w, "judge", <<>>)
       ELSE To(w, "factor", <<>>)
    /\ UNCHANGED <<surface, now, bucket, spent, late>>

Fail(w, keys) ==
    /\ To(w, "record", keys)
    /\ late' = [k \in Keys |->
         IF (\E i \in DOMAIN keys : keys[i] = k) /\ IsBlocked(bucket[k], now)
         THEN late[k] + 1 ELSE late[k]]

Judging(w, op) == Doing(w, "judge") /\ attempt[w].op = op
Refuse(w) ==
    /\ Fail(w, FirstKeys(attempt[w].op, attempt[w].src))
    /\ UNCHANGED <<surface, now, bucket, spent>>
Pass(w, step) == step /\ UNCHANGED <<surface, now, bucket, spent, late>>

\* login: unknown address, no password, not active or wrong password; otherwise
\* it goes on with the verified keys.
RejectLogin(w) == Judging(w, "login") /\ Refuse(w)
AcceptLogin(w) ==
    Judging(w, "login") /\ Pass(w, To(w, "again", VerifiedKeys(attempt[w].src)))

\* reauthenticate.
RejectReauth(w) == Judging(w, "reauth") /\ Refuse(w)
AcceptReauth(w) == Judging(w, "reauth") /\ Pass(w, To(w, "factor", <<>>))

\* change_password: with the right password it may still be refused (recent
\* second factor, unchanged password).
RejectPassword(w) == Judging(w, "password") /\ Refuse(w)
AcceptPassword(w) ==
    /\ Judging(w, "password")
    /\ Pass(w, Answer(w) \/ To(w, "clear", <<Account>>))

\* bootstrap: a wrong setup secret counts, and so does a database error.
RejectSetup(w) == Judging(w, "bootstrap") /\ Refuse(w)
AcceptSetup(w) == Judging(w, "bootstrap") /\ Pass(w, Answer(w))

\* verify_submitted_mfa: a wrong factor counts against account and address, a
\* missing one is asked for.
RejectFactor(w) ==
    /\ Doing(w, "factor")
    /\ Fail(w, VerifiedKeys(attempt[w].src))
    /\ UNCHANGED <<surface, now, bucket, spent>>
AcceptFactor(w) ==
    /\ Doing(w, "factor")
    /\ Answer(w) \/ To(w, "clear", <<Account>>)
    /\ UNCHANGED <<surface, now, bucket, spent, late>>

\* clear_rate_limit_bucket of the first key: the account, never the address.
ClearBucket(w) ==
    /\ Doing(w, "clear") /\ Free(w, Account)
    /\ bucket' = [bucket EXCEPT ![Account] = NoBucket]
    /\ spent' = [spent EXCEPT ![Account] = 0]
    /\ late' = [late EXCEPT ![Account] = 0]
    /\ Answer(w)
    /\ UNCHANGED <<surface, now>>

\* SELECT ... FOR UPDATE: locks the row if there is one.
LockBucket(w) ==
    LET k == Head(attempt[w].keys) IN
    /\ Doing(w, "record") /\ (Exists(k) => Free(w, k))
    /\ attempt' = [attempt EXCEPT ![w].pc = "store", ![w].seen = bucket[k],
                                  ![w].lock = Exists(k)]
    /\ UNCHANGED <<surface, now, bucket, spent, late>>

InWindow(b, t) == b.attempts > 0 /\ b.start + Window[surface] > t

\* The row to store: one more failure of the window, or a new window.
Counted_TooLate(b, t) ==
    LET c == IF InWindow(b, t) THEN [b EXCEPT !.attempts = @ + 1]
             ELSE [attempts |-> 1, start |-> t, until |-> 0]
    IN  IF c.attempts > 2 * Limit THEN [c EXCEPT !.until = t + Block[surface]] ELSE c
Counted(b, t) ==
    LET c == IF InWindow(b, t) THEN [b EXCEPT !.attempts = @ + 1]
             ELSE [attempts |-> 1, start |-> t, until |-> 0]
    IN  IF c.attempts >= Limit THEN [c EXCEPT !.until = t + Block[surface]] ELSE c

\* INSERT ... ON CONFLICT DO UPDATE and commit: the whole row is overwritten.
StoreBucket(w) ==
    LET r == attempt[w]
        k == Head(r.keys)
        b == Counted(r.seen, r.at)
        opens == IF r.seen.attempts = 0 THEN ~Exists(k) ELSE ~InWindow(r.seen, r.at)
    IN
    /\ Doing(w, "store") /\ Free(w, k)
    /\ bucket' = [bucket EXCEPT ![k] = b]
    /\ spent' = [spent EXCEPT ![k] = IF opens THEN 1 ELSE @ + 1]
    /\ late' = [late EXCEPT ![k] = IF IsBlocked(b, now) THEN @ ELSE 0]
    /\ IF Len(r.keys) = 1 THEN Answer(w)
       ELSE attempt' = [attempt EXCEPT ![w] = [r EXCEPT !.pc = "record", !.seen = NoBucket,
                                                 !.lock = FALSE, !.keys = Tail(r.keys)]]
    /\ UNCHANGED <<surface, now>>

Tick ==
    /\ now < MaxTime
    /\ now' = now + 1
    /\ late' = [k \in Keys |-> IF IsBlocked(bucket[k], now') THEN late[k] ELSE 0]
    /\ UNCHANGED <<surface, bucket, attempt, spent>>

\* A statement fails or the server stops.
AttemptDies(w) ==
    /\ ~Doing(w, "idle") /\ Answer(w)
    /\ UNCHANGED <<surface, now, bucket, spent, late>>

ThrottleNext ==
    \/ Tick
    \/ \E w \in Workers :
         \/ Arrive(w) \/ Enforce(w) \/ RejectLogin(w) \/ AcceptLogin(w)
         \/ RejectReauth(w) \/ AcceptReauth(w) \/ RejectPassword(w) \/ AcceptPassword(w)
         \/ RejectSetup(w) \/ AcceptSetup(w)
         \/ RejectFactor(w) \/ AcceptFactor(w) \/ ClearBucket(w)
         \/ LockBucket(w) \/ StoreBucket(w) \/ AttemptDies(w)

ThrottleSpec == ThrottleInit /\ [][ThrottleNext]_throttleVars

-----------------------------------------------------------------------------
(* Properties.                                                             *)

\* Buckets and attempts are well formed.
BucketsOK ==
    /\ surface \in Surfaces /\ now \in 1..MaxTime
    /\ \A k \in Keys : DOMAIN bucket[k] = DOMAIN NoBucket /\ bucket[k].start <= now
    /\ \A w \in Workers : attempt[w].lock => Doing(w, "store") /\ Exists(Head(attempt[w].keys))

\* A blocked bucket stops guessing: only requests that had read it before are
\* still judged, at most one for each of the other workers.
LateGuesses == \A k \in Keys : late[k] < Cardinality(Workers)

\* Parallel first failures overwrite each other's count, and a late one wipes
\* out a block or dates it back.  Where a block outlasts its window (not for
\* bootstrap), every worker can do that once, and the next block comes after
\* Limit failures and one in flight for each of the others that are free: n
\* workers have n * Limit + n * (n - 1) / 2 failures in a window, and no more.
GuessesPerWindow ==
    Block[surface] >= Window[surface] =>
        \A k \in Keys :
           2 * spent[k] <= Cardinality(Workers) * (2 * Limit + Cardinality(Workers) - 1)

\* Guesses stay bounded, after a block and in a window, however many attempts
\* read a bucket before any of them is counted.
GuessesBounded == BucketsOK /\ LateGuesses /\ GuessesPerWindow
=============================================================================
