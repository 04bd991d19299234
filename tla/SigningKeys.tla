---------------------------- MODULE SigningKeys ----------------------------
(***************************************************************************)
(* The signing keys in the database, the key that encrypts them (the KEK), *)
(* and the delivery tokens of queued mails, which it encrypts as well      *)
(* (TOTP secrets too; key-encryption rotate does not touch them and they   *)
(* are left out).  API replicas start and sign; operators run              *)
(* signing-key ensure, rotate and retire, and change the KEK in a          *)
(* maintenance window (docs/operations.md, KEK Rotation): services pause,  *)
(* key-encryption rotate re-encrypts, services restart with some KEK, and  *)
(* preflight then says whether it is the right one.                        *)
(*                                                                         *)
(* A deployment may run without a KEK, and may have a signing key in its   *)
(* environment (CAIRN_SIGNING_KEY_ID and such): the first start with a     *)
(* KEK imports it, and it signs whenever the database offers no key.       *)
(*                                                                         *)
(* A ciphertext is the name of the KEK it was made with: decryption fails  *)
(* under another one.                                                      *)
(***************************************************************************)
EXTENDS Naturals, FiniteSets

CONSTANTS
    Kids,      \* signing keys that may be generated
    EnvKey,    \* the key of CAIRN_SIGNING_*, where a deployment has one
    Keks,      \* key encryption keys
    Mails,     \* outbox rows with a delivery token
    Replicas,  \* API processes
    Commands,  \* runs of the cairn-api command line
    Deployments,  \* environments: kek, static and production of each
    Nobody     \* no KEK, no key

ASSUME KeysConstants ==
    /\ Keks # {} /\ EnvKey \in Kids
    /\ Nobody \notin Kids \cup Keks \cup Replicas \cup Commands
    /\ Deployments \subseteq [kek : Keks \cup {Nobody}, static : {EnvKey, Nobody},
                              production : BOOLEAN]

VARIABLES
    key,      \* signing_keys: status ("none": no row) and KEK of each key
    sealed,   \* KEK of each mail's token; Nobody: no row
    kek,      \* CAIRN_KEY_ENCRYPTION_KEY of the services; Nobody: not set
    static,   \* config.signing: EnvKey or Nobody
    production,  \* CAIRN_ENV is production
    window,   \* "open": in service; "paused": the maintenance window;
              \* "doubted": restarted with a KEK that preflight refuses
    up,       \* replicas that serve requests
    job,      \* what each starting replica and each command does
    signed,   \* history: keys that have signed a token
    pulled,   \* history: the active key was retired by an operator
    gone,     \* history: keys an operator retired, static left out
    overtaken,   \* history: a rotate was asked for before static was imported
    astray    \* history: services wrote while window = "doubted"

deployment == <<static, production>>
keysHistory == <<signed, pulled, gone, overtaken, astray>>
keysVars == <<key, sealed, kek, deployment, window, up, job, keysHistory>>

KeyJobs == Replicas \cup Commands
Rest == [pc |-> "idle", kid |-> Nobody, off |-> {}, keys |-> {}, mails |-> {},
         to |-> Nobody]

KeysInit ==
    /\ key = [k \in Kids |-> [status |-> "none", kek |-> Nobody]]
    /\ sealed = [m \in Mails |-> Nobody]
    /\ \E d \in Deployments :
         kek = d.kek /\ static = d.static /\ production = d.production
    /\ window = "open" /\ up = {}
    /\ signed = {} /\ gone = {}
    /\ pulled = FALSE /\ overtaken = FALSE /\ astray = FALSE
    /\ job = [j \in KeyJobs |-> Rest]

-----------------------------------------------------------------------------
(* Queries.                                                                *)

Having(status) == {k \in Kids : key[k].status = status}
ActiveKeys == Having("active")

\* active_jwks: the keys that are not retired.
ActiveJwks == ActiveKeys \cup Having("rollover")

\* jwk_set_from_sources: what the JWKS endpoint publishes.  The key of the
\* environment is left out as soon as the database has a key to publish.
Published == IF ActiveJwks # {} THEN ActiveJwks ELSE {static} \ {Nobody}

\* list_encrypted_signing_key_materials: retired keys as well.
MaterialKeys == {k \in Kids : key[k].status # "none"}
MailsWithToken == {m \in Mails : sealed[m] # Nobody}

Imported == static # Nobody => key[static].status # "none"
Serving == window # "paused"

JobAt(j, pc) == job[j].pc = pc
Quit(j) == job' = [job EXCEPT ![j] = Rest]
Leaves(j, v) == Quit(j) /\ UNCHANGED v

\* operations_preflight_failures, the part about keys, for services that run
\* with e: something signs, the active key decrypts, it is published and alone,
\* and in production there is a KEK for the mails.
PreflightFailures(e) ==
    {f \in {"no_source", "undecryptable", "not_in_jwks", "several_active", "no_kek"} :
       CASE f = "no_source" -> ActiveKeys = {} /\ static = Nobody
         [] f = "undecryptable" -> \E k \in ActiveKeys : key[k].kek # e
         [] f = "not_in_jwks" -> ActiveKeys # {} /\ ActiveJwks = {}
         [] f = "several_active" -> Cardinality(ActiveKeys) > 1
         [] f = "no_kek" -> production /\ e = Nobody}

\* Preflight tries a KEK on the active key only: with none it has tried nothing.
Vouched(e) ==
    PreflightFailures(e) = {} /\ (ActiveKeys = {} => MaterialKeys = {})

-----------------------------------------------------------------------------
(* A new active key: upsert_signing_key_material.                          *)

\* The key to insert, encrypted with the KEK of the services, is a new one
\* (generate_encrypted_signing_key) ...
Generate(j) ==
    \E k \in Having("none") \ {static} :
      /\ \A i \in KeyJobs : job[i].kid # k
      /\ job' = [job EXCEPT ![j] = [Rest EXCEPT !.pc = "clear", !.kid = k]]

\* ... or, for ensure_startup_signing_key, that of the environment if there is
\* one, whatever became of it before.
ImportOrGenerate_New(j) == Generate(j)
ImportOrGenerate(j) ==
    IF static # Nobody
    THEN job' = [job EXCEPT ![j] = [Rest EXCEPT !.pc = "clear", !.kid = static]]
    ELSE Generate(j)

\* ensure_startup_signing_key: nothing to do without a KEK, but production must
\* have something to sign with; an active key is enough.
StartReplica(p) ==
    /\ Serving /\ p \notin up /\ JobAt(p, "idle")
    /\ kek = Nobody /\ static = Nobody => ~production
    /\ IF kek = Nobody \/ ActiveKeys # {} THEN up' = up \cup {p} /\ job' = job
       ELSE ImportOrGenerate(p) /\ up' = up
    /\ UNCHANGED <<key, sealed, kek, deployment, window, keysHistory>>
EnsureCommand(c) ==
    /\ Serving /\ JobAt(c, "idle") /\ kek # Nobody /\ ActiveKeys = {}
    /\ ImportOrGenerate(c)
    /\ UNCHANGED <<key, sealed, kek, deployment, window, up, keysHistory>>
RotateCommand(c) ==
    /\ Serving /\ JobAt(c, "idle") /\ kek # Nobody
    /\ Generate(c)
    /\ overtaken' = (overtaken \/ ~Imported)
    /\ UNCHANGED <<key, sealed, kek, deployment, window, up, signed, pulled, gone, astray>>

Locked(j) == UNION {job[i].off : i \in KeyJobs \ {j}}

\* UPDATE ... SET signing_active = FALSE: the rows active when it starts; it
\* waits for the locked ones and skips those another job has switched off.
ChooseActive(j) ==
    /\ JobAt(j, "clear")
    /\ job' = [job EXCEPT ![j].pc = "wait", ![j].keys = ActiveKeys]
    /\ UNCHANGED <<key, sealed, kek, deployment, window, up, keysHistory>>
Deactivate(j) ==
    /\ JobAt(j, "wait") /\ job[j].keys \cap Locked(j) = {}
    /\ job' = [job EXCEPT ![j].pc = "insert", ![j].keys = {},
                          ![j].off = job[j].keys \cap ActiveKeys]
    /\ UNCHANGED <<key, sealed, kek, deployment, window, up, keysHistory>>

\* signing_keys_single_active_idx: the rows that would be active together.
IndexPermits(K) == Cardinality(K) <= 1

Writes == astray' = (astray \/ window = "doubted")

\* INSERT ... ON CONFLICT (kid) DO UPDATE and commit, or a violation of the index
\* that undoes the transaction.  A key that was retired is in service again.  A
\* replica serves when its key is stored; otherwise it exits.
StoreKey(j) ==
    LET k == job[j].kid
        others == ActiveKeys \ job[j].off
    IN
    /\ JobAt(j, "insert") /\ k \notin Locked(j)
    /\ IF IndexPermits(others \cup {k})
       THEN /\ key' = [i \in Kids |->
                 IF i = k THEN [status |-> "active", kek |-> kek]
                 ELSE IF i \in job[j].off THEN [key[i] EXCEPT !.status = "rollover"]
                 ELSE key[i]]
            /\ up' = IF j \in Replicas THEN up \cup {j} ELSE up
            /\ Writes
       ELSE UNCHANGED <<key, up, astray>>
    /\ Leaves(j, <<sealed, kek, deployment, window, signed, pulled, gone, overtaken>>)

\* retire_signing_key.
RetireCommand(k) ==
    /\ Serving /\ key[k].status \in {"active", "rollover"}
    /\ k \notin Locked(Nobody)
    /\ key' = [key EXCEPT ![k].status = "retired"]
    /\ pulled' = (pulled \/ key[k].status = "active")
    /\ gone' = gone \cup ({k} \ {static})
    /\ UNCHANGED <<sealed, kek, deployment, window, up, job, signed, overtaken, astray>>

-----------------------------------------------------------------------------
(* The services use the KEK.                                               *)

\* resolve_signing_material: with a KEK the active key, if it decrypts; without
\* either, the key of the environment.
Signers ==
    IF kek # Nobody /\ ActiveKeys # {} THEN {k \in ActiveKeys : key[k].kek = kek}
    ELSE {static} \ {Nobody}
SignToken(p) ==
    /\ Serving /\ p \in up
    /\ \E k \in Signers : signed' = signed \cup {k}
    /\ UNCHANGED <<key, sealed, kek, deployment, window, up, job, pulled, gone,
                   overtaken, astray>>

\* queue_account_lifecycle_email: a mail's token is encrypted with the KEK.  (A
\* mail queued without a KEK has no token.)
Seal(m) ==
    /\ Serving /\ up # {} /\ kek # Nobody /\ sealed[m] = Nobody
    /\ sealed' = [sealed EXCEPT ![m] = kek]
    /\ Writes
    /\ UNCHANGED <<key, kek, deployment, window, up, job, signed, pulled, gone, overtaken>>

Die(j) ==
    /\ j \in up \/ ~JobAt(j, "idle")
    /\ up' = up \ {j}
    /\ Leaves(j, <<key, sealed, kek, deployment, window, keysHistory>>)

-----------------------------------------------------------------------------
(* The maintenance window.                                                 *)

\* Bound: a deployment that has gone astray is not followed into another window.
Pause ==
    /\ Serving /\ ~astray /\ \A j \in KeyJobs : JobAt(j, "idle")
    /\ window' = "paused"
    /\ UNCHANGED <<key, sealed, kek, deployment, up, job, keysHistory>>

\* key-encryption rotate: list the keys, list the tokens, and give up if one
\* does not decrypt with the old KEK.
ListKeys(c, e) ==
    /\ window = "paused" /\ JobAt(c, "idle") /\ kek \notin {e, Nobody}
    /\ \A k \in MaterialKeys : key[k].kek = kek
    /\ job' = [job EXCEPT ![c] = [Rest EXCEPT !.pc = "mails", !.to = e,
                                              !.keys = MaterialKeys]]
    /\ UNCHANGED <<key, sealed, kek, deployment, window, up, keysHistory>>
ListMails(c) ==
    /\ JobAt(c, "mails")
    /\ IF \A m \in MailsWithToken : sealed[m] = kek
       THEN job' = [job EXCEPT ![c].pc = "apply", ![c].mails = MailsWithToken]
       ELSE Quit(c)
    /\ UNCHANGED <<key, sealed, kek, deployment, window, up, keysHistory>>

Reencrypted(c) ==
    [k \in Kids |-> IF k \in job[c].keys THEN [key[k] EXCEPT !.kek = job[c].to]
                    ELSE key[k]]
Resealed(c) == [m \in Mails |-> IF m \in job[c].mails THEN job[c].to ELSE sealed[m]]

\* apply_key_encryption_rotation: keys and tokens in one transaction.
Apply_KeysFirst(c) ==
    /\ JobAt(c, "apply")
    /\ IF job[c].keys # {}
       THEN key' = Reencrypted(c) /\ job' = [job EXCEPT ![c].keys = {}] /\ sealed' = sealed
       ELSE sealed' = Resealed(c) /\ Quit(c) /\ key' = key
    /\ UNCHANGED <<kek, deployment, window, up, keysHistory>>
Apply(c) ==
    /\ JobAt(c, "apply")
    /\ key' = Reencrypted(c)
    /\ sealed' = Resealed(c)
    /\ Leaves(c, <<kek, deployment, window, up, keysHistory>>)

\* The services are restarted with some KEK, or without; preflight comes after.
Resume(e) ==
    /\ window = "paused" /\ \A c \in Commands : JobAt(c, "idle")
    /\ kek' = e /\ up' = {}
    /\ window' = IF Vouched(e) THEN "open" ELSE "doubted"
    /\ UNCHANGED <<key, sealed, deployment, job, keysHistory>>

KeysNext ==
    \/ \E p \in Replicas : StartReplica(p) \/ SignToken(p)
    \/ \E c \in Commands : EnsureCommand(c) \/ RotateCommand(c) \/ ListMails(c) \/ Apply(c)
    \/ \E j \in KeyJobs : ChooseActive(j) \/ Deactivate(j) \/ StoreKey(j) \/ Die(j)
    \/ \E k \in Kids : RetireCommand(k)
    \/ \E m \in Mails : Seal(m)
    \/ \E e \in Keks : \E c \in Commands : ListKeys(c, e)
    \/ \E e \in Keks \cup {Nobody} : Resume(e)
    \/ Pause

KeysSpec == KeysInit /\ [][KeysNext]_keysVars

-----------------------------------------------------------------------------
(* Properties.                                                             *)

\* Rows, jobs and histories are well formed.
KeysTypeOK ==
    /\ \A k \in Kids : (key[k].status = "none") <=> (key[k].kek = Nobody)
    /\ \A m \in Mails : sealed[m] \in Keks \cup {Nobody}
    /\ kek \in Keks \cup {Nobody} /\ static \in {EnvKey, Nobody}
    /\ window \in {"open", "paused", "doubted"} /\ up \subseteq Replicas
    /\ \A j \in KeyJobs : job[j].off \subseteq ActiveKeys

\* However many replicas start and operators rotate at once, one key signs.
OneActive == Cardinality(ActiveKeys) <= 1

\* A replica in production serves only with a key it can sign with, though the
\* job that was to make one may lose the race for the index, unless an operator
\* retired the active key or services wrote with a KEK that preflight refused.
UpMeansKey ==
    up # {} /\ production /\ window = "open" /\ ~pulled /\ ~astray => Signers # {}

\* A key that has signed stays published until it is retired.  The key of the
\* environment does so only if it is imported before any key is generated: a
\* rotate before the import hides what it has signed and goes on signing.
SignedVerifies ==
    \A k \in signed : \/ k \in Published \/ key[k].status = "retired"
                      \/ overtaken /\ k = static /\ key[k].status = "none"

\* A retired key is out for good.  Not the one of the environment: a start that
\* finds no active key puts it in service again.
RetiredStaysOut == \A k \in gone : key[k].status = "retired"

\* Starts, imports, activations and retirements at once leave one key to sign
\* with, and what was signed can be verified.
KeysHold == KeysTypeOK /\ OneActive /\ UpMeansKey /\ SignedVerifies /\ RetiredStaysOut

\* Signing keys and queued mails are under one KEK, even if the command that
\* changes it dies half way or is run twice, or services ran without writing
\* under a KEK that preflight refused.
OneKek ==
    ~astray =>
      Cardinality({key[k].kek : k \in MaterialKeys}
                    \cup {sealed[m] : m \in MailsWithToken}) <= 1

\* With a KEK that preflight accepts services open all they have sealed, keys
\* and mails, though preflight tries it on one key.
ServiceReads ==
    window = "open" /\ ~astray =>
        /\ \A k \in Kids : key[k].status # "none" => key[k].kek = kek
        /\ \A m \in MailsWithToken : sealed[m] = kek

\* A change of the KEK moves keys and mails together or not at all, and no
\* service that preflight accepts runs on what it cannot open.
KekHolds == OneKek /\ ServiceReads
=============================================================================
