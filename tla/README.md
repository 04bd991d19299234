# Cairn ID: a TLA+ verification project

Cairn ID is a self-hosted identity provider: an OpenID Connect authorization
server, a directory of users and groups with a SCIM interface, a second factor,
an email outbox, and the commands that operate them. It is written in Rust; all
shared state lives in one PostgreSQL database, which any number of server
processes and operator commands use at the same time at isolation level READ
COMMITTED.

This directory holds TLA+ models of the parts of it where concurrency, failure
or a long sequence of requests decides correctness, TLC configurations that
check them on small instances, and proofs, checked by TLAPS, that the most
important properties hold on instances of every size. `PROJECT.json` is the machine-readable side: which definition models which
lines, the runs, the mutants, the hazards, the theorems.

## 1. The system

### How the parts interact

There are no messages between components and no in-process shared state worth
the name: a request handler (`apps/api/src/http/`) calls methods of `Database`
(`crates/database/src/`), each of which is one SQL statement or one transaction.
Components interact through rows. What can go wrong follows from this:

* a handler reads in one statement and writes in a later one, and what it read
  may be stale by then;
* at READ COMMITTED each *statement* has its own snapshot. An `UPDATE` fixes the
  rows it will touch when it starts, waits for locked ones, looks at those again,
  and never sees a row inserted meanwhile;
* `SELECT ... FOR UPDATE` on a parent row conflicts with the key share that every
  insert of a referencing row takes. Much of the code relies on this, without
  saying so;
* transactions lock rows in different orders, so PostgreSQL's deadlock detector
  is part of the system;
* a process may die between any two transactions.

Beside the server stand programs that share no row with it: the SCIM smoke
client, the commands that verify a release and its evidence, and the MCP server.
Their shared state is a directory of files, which others write to meanwhile.

### Inventory

| Component | State | Operations | What is hard | What makes it correct |
|---|---|---|---|---|
| OAuth token grants (`oauth_tokens/`, `oauth_routes/token_exchange/`) | `authorization_codes`, `access_tokens`, `refresh_tokens` | authorize, exchange a code, rotate, client credentials, revoke | concurrent spends, reuse detection, checks made before the transaction, revocation cascades against inserts in flight | a grant is spent once; families do not fork; a rotation is all or nothing; revocations are complete |
| Authorization endpoint and consent (`oidc_browser_routes/`, `consent_grants/`, the login and consent pages of `apps/web`) | `consent_grants`, `consent_authorizations`, what a tab holds | authorize, log in, approve, come back, revoke, log out | several tabs with one request, a request that travels as a rewritten URL, clients edited meanwhile | one code per approval; prompts are honoured; nobody is asked again without a reason |
| Browser sessions (`auth_sessions/`) | `auth_sessions` | login, logout, revoke, rotate | login against suspension | none survives a suspension, a password change or a recovery |
| OIDC clients (`oidc_clients/`, `admin_oidc/`) | `oidc_clients`, policy templates | create, change, disable, rotate secret | disabling against issuing | a disabled client has no live credential |
| Directory (`users/`, `groups/`) | `users`, `groups`, `memberships`, `organizations` | bootstrap, status changes, memberships, break-glass | the last owner, counted by concurrent transactions; lock order | the owner group always has an active owner; bootstrap works once |
| SCIM users and groups (`scim_operations/`, `scim_input/`) | the same rows | create, replace, patch, delete | patches that read, then replace; operations that build on each other | a patch changes only what it names, all of it or nothing |
| SCIM bulk (`scim_bulk/`) | per request: pending operations, resolved bulkIds | schedule, execute, stop at `failOnErrors` | references, circles, failures | each operation is answered once, after what it refers to |
| Email outbox (`email_outbox/`, `apps/api/src/email/`) | `email_outbox` | queue, claim, send, mark | several jobs, stale claims, crashes, retries | no duplicate without an excuse; every mail ends up sent or given up |
| Account tokens (`account_tokens/`) | `account_tokens`, passwords | invite, verify, recover, change password | one use, lock order against password changes, the address changing | a token works once, for the account it was meant for |
| MFA (`mfa/`) | credentials with JSON metadata, challenges, recovery codes | enrol, assert, revoke | no transactions: reads and writes of one request interleave with others | a factor cannot be skipped; codes and challenges work once; a revoked factor stays revoked |
| Rate limiting (`rate_limit.rs`) | buckets | check, count a failure, clear | the first failures of a window, late failures | a window admits a bounded number of guesses |
| Signing keys and key encryption (`signing_keys.rs`, `key_encryption_operations.rs`) | `signing_keys`, encrypted columns | start, ensure, rotate, retire, re-encrypt | concurrent activation; a re-encryption that dies half way | one active key; what was signed verifies; what was sealed opens |
| Lists and the audit log (`admin_query/`, `scim_query/`, `audit.rs`) | cursors and offsets, `audit_events` | parse, page, export, purge | rows that come and go between pages; parameters given twice | no row twice, no staying row lost; nothing overridden unseen |
| Operations evidence (`crates/operations`, `apps/cli`) | a release directory, an evidence directory | verify, init, capture, check, plan | files opened again after they were judged | a receipt means a genuine release; ready means acceptable |
| MCP server (`apps/mcp`) | the root it was started with | resolve a path, read evidence | links and changes between check and use | nothing outside the root is read |
| SCIM smoke (`scim_smoke/`) | what the walk knows that it made | walk, clean up, report | answers that are lost | what went well leaves nothing behind |
| OIDC and cryptographic libraries, web console, HTTP layer, migrations | – | – | sequential or stateless for the most part | the parts a module needs are in it; the rest is left to unit tests |

## 2. The modules

| Module | Models |
|---|---|
| `TokenGrants` | codes, tokens, sessions, consents and client and user status: every transaction that issues, spends or revokes a credential |
| `RefreshChain` | the abstract promise of refresh-token rotation, which `TokenGrants` implements |
| `Authorize` | how a browser gets a code: the authorization endpoint, login and consent pages, one-use approvals, edits of the client, logout |
| `Directory` | users, groups and memberships: bootstrap, status changes, memberships, SCIM groups, break-glass |
| `AccountTokens` | invitation, verification and recovery links, with what redeems and withdraws them |
| `SecondFactors` | TOTP, passkeys, recovery codes, challenges, and the sessions they vouch for |
| `Throttle` | the attempt limits of login, reauthentication, recovery and bootstrap |
| `SigningKeys` | signing keys, the key encryption key (KEK) and what it encrypts |
| `EmailOutbox` | the outbox and its delivery jobs |
| `ScimBulk`, `ScimPatch` | the bulk scheduler; the PUT and PATCH interpreters |
| `Queries`, `Listings` | the readers of query strings, forms and command lines; paging |
| `ReleaseAssets`, `ReleaseEvidence`, `EvidencePaths` | `release-assets verify`; `evidence init` and `check`; the paths the MCP server may read |
| `ScimSmoke` | the smoke walk, its clean-up, and the validator of its report |
| `TokenGrantsProofs`, `DirectoryProofs`, `AccountTokensProofs`, `AuthorizeProofs`, `SecondFactorsProofs` | theorems about the module of that name, with their proofs |
| `ServicesProofs` | theorems about `EmailOutbox`, `SigningKeys` and `Throttle` |
| `RequestsProofs` | theorems about `Queries`, `Listings` and `ScimBulk` |
| `EvidenceProofs` | theorems about `ReleaseEvidence`, `ReleaseAssets`, `ScimSmoke` and `EvidencePaths` |
| `MCTokenGrants`, `MCDirectory`, `MCEmailOutbox`, `MCAccountTokens`, `MCSecondFactors`, `MCAuthorize` | instances of one module |
| `MCProgress`, `MCServices`, `MCInterfaces` | sums: a behaviour belongs to the module that the variable `area` names, and the others stand still |

`Directory` and `TokenGrants` meet in one transaction, `update_user_status`:
`Directory` models its locks and the last-owner check, `TokenGrants` the
credentials it revokes before it commits. Each leaves the other half out, and
neither half reads what the other writes except the status itself, which both
have. `Authorize` ends where the code is stored, which is where `TokenGrants`
takes over, and `AccountTokens` where the mail is queued, which is an `Enqueue`
of `EmailOutbox`. The sums interleave nothing: the modules in them share no row,
so a product of their states would show nothing that the sum does not.

### TokenGrants

*State.* One variable per table or nullable column (`userStatus`, `codes`,
`usedCodes`, `tokens`, `revokedAccess`, `rotated`, ...). An `Issue` is one
successful token response: its access token and, for `offline_access`, its
refresh token. `source` is history: what an `Issue` was given for. `req[w]` is
the request that worker `w` serves: the operation, the statement it is at, the
rows its running `UPDATE` selected and the row locks it holds.

*Actions.* One per statement that another transaction can observe or delay.
`ExchangeLoad`, `ExchangeCheckClient`, `ExchangeCheckUser`, `ExchangeCheckSession`
are the reads of `authorization_code_token`; `ExchangeConsume` and
`ExchangeCommit` the two halves of
`consume_authorization_code_and_insert_tokens`. `Refresh*` follow `refresh_token`
and `rotate_refresh_token_and_insert_tokens`, with reuse leading into a family
revocation. Each revoking transaction is a *plan*, the list of tables it
updates in the order of its statements (`FamilyPlan`, `UserPlan`,
`PasswordPlan`, `ClientPlan`, `RedirectPlan`, `ConsentPlan`), which
`TakeSnapshot`, `UpdateRows` and `RevocationCommit` execute with PostgreSQL's
semantics. `Crash` rolls a transaction back at any point.

*Abstractions.* Scopes, PKCE, redirect URIs and lifetimes are data the properties
do not tell apart: a check of the request's own parameters either passes or ends
the request with nothing changed. Expiry is an event. The last insert of a
transaction and its commit are one step, because nothing can delay the commit.
`invited` and `locked` users behave as `suspended` ones here. Clients have a
consent policy that does not ask every time.

### Directory

*State.* `status`, `groups`, `role` are the rows; `orgLock`, `userLock`,
`groupLock` the holders of `FOR UPDATE` locks; `req` the requests under way.

*Actions.* A request is accepted (`UpdateStatus`, `ScimPatchUser`,
`UpsertMembership`, ...), with the values it reads *before* its transaction: a
SCIM patch carries the status or the member list it saw. Then it goes through
its locks (`LockOrganization`, `LockUser`, `LockOwnerGroup`, `LockGroup`), its
check (`CheckDeactivation`, `CheckMembership`, `CheckScimGroup`,
`CheckBootstrap`) and its write. `Rollback` may happen at any point. User and
group creation are one step: a single insert that waits for the locks of the
rows it references.

*Abstractions.* One organization (rows of others are never touched). Membership
row locks are left out: whoever locks one holds the lock of its group. Names,
slugs other than the owner group's, and SCIM attributes are left out.

### EmailOutbox

*State.* Per row `status`, `attempts`, whether its claim is `stale` and whether a
retry is still `waiting`; per job where it is in `deliver_once`, its batch, the
attempts it was told, and the row it is about to mark. `copies`, `stalled` and
`erred` are history.

*Actions.* `Select` and `ClaimUpdate` are the two halves of the claim statement
(`FOR UPDATE SKIP LOCKED`, then the update); `Send` is one call of the provider,
which may have delivered the mail even when it reports an error; `Mark` is one of
the three `mark_email_outbox_*` statements, guarded by the row's status and not
by the claim; `Crash` is the death of the process or a failing statement, which
leaves the rest of the batch in `sending`. `GoStale` and `RetryDue` are time.

*Abstractions.* `attempts` is counted up to `MaxAttempts` and `copies` up to two:
nothing tells higher values apart. Rendering and addresses are left out. The
re-encryption command refreshes `updated_at` as well, which can only delay
`GoStale`.

### Authorize

*State.* `client`, `grants`, `markers`, `codes` and `session` are rows; a `tab`
holds the request, the page it shows and what the handler has read so far.

*Actions.* `AuthorizeLoad`, `AuthorizeSession`, `AuthorizeConsent`,
`ConsumeSelect`, `ConsumeUpdate` and `InsertCode` are the stretches of
`authorize_with_pairs` between two accesses to the database. `SubmitLogin`,
`ApproveCheck`, `CreateGrant`, `CreateMarker` and `Follow` are the two pages and
the endpoint behind the consent page; `ReturnTo` is the URL that goes through
them, less the prompt that led there. `Skip` is a browser that asks for this URL
without doing what the page is for: the server keeps no record of having sent
anybody to a page, so nothing stops it. `UpdateClient`, `RevokeConsent`,
`EndSession`, `Skip` and the clock are the upsets. A tab's `base`, `given` and
`skipped` are history: the sign-ins there were when its request came, the approval
it got, and the pages it went past.

*Abstractions.* A request is what its parameters amount to (`prompt`, `max_age`,
`acr_values`, scopes, redirect URI and one flaw that validation finds); its
canonical URL, and the hash a marker stores of it, are the request itself.
`frontEnd` is which pages the deployment has: those of `apps/web` (`bundled`), or
pages that follow `return_to` as they get it (`verbatim`).

### AccountTokens

*State.* The `user` row, the `account_tokens` rows, the live sessions, and per
worker the operation, the rows chosen and locked. `redeemed` and `before` are
history. *Actions.* Issuing reads (`IssueCheck`) and then inserts token and mail
(`InsertToken`). Redeeming locks the token (`ConsumeToken`), then the user
(`UpdateUser`); a change of password, address or status locks the user
(`LockUser`), then chooses (`SelectTokens`) and withdraws tokens
(`WithdrawTokens`). `Victim` is PostgreSQL's deadlock detector. *Abstractions.*
One user, an ordinary one or the administrator of the bootstrap, whose address
counts as verified from the start (`bootstrap.rs:56`); nothing else that creates a
user says so of an address. A token carries its kind and the address it was
mailed to.

### SecondFactors

*State.* One status per enrolled factor and recovery code, open challenges,
sessions with what they vouch for, and per request what it has read. *Actions.*
One per statement of login, reauthentication, enrolment (`StartTotp` …
`Activate`, `StartWebauthn` … `Enroll`, with `ReadExcluded` for the second listing of
the passkeys that a new one must differ from), assertion (`Consume`, `CheckAssertion`,
`Touch`), revocation and the replacement of recovery codes: the handlers use no
transaction, so anything may happen between two of them. *Abstractions.* A code
or an assertion is right for one credential; ciphertexts and ceremonies are left
out; the password was checked before.

### Throttle

*State.* One bucket per key, and per attempt where it is and what it has read.
*Actions.* `Enforce` reads the buckets, the `Reject*` and `Accept*` actions judge,
`LockBucket` and `StoreBucket` are the two statements of
`record_rate_limit_failure`, the latter an upsert of the whole row. *Abstractions.*
Limits and windows are small numbers in the proportions of the code: a block
lasts as long as a window or longer, except for bootstrap. `Limit` is at least
two; the code's limits are 5 and 3 (`http/mod.rs:52-61`).

### SigningKeys

*State.* Keys with status and KEK, mails with the KEK of their token, the
environment of the services (`kek`, which may be unset, `static`, the key of
`CAIRN_SIGNING_*`, and `production`), the replicas that run, and the jobs under
way. `window` says whether services are in service (`open`), in the maintenance
window (`paused`), or came back with a KEK that preflight refuses (`doubted`).
`signed`, `pulled`, `gone`, `overtaken` and `astray` are history.

*Actions.* `StartReplica` follows `ensure_startup_signing_key`: without a KEK it does
nothing (but production must have a static key), with an active key it does nothing
more, otherwise `ImportOrGenerate` takes the static key or makes one. `ChooseActive`,
`Deactivate` and `StoreKey` are the statements of `upsert_signing_key_material`, with
the partial unique index (`IndexPermits`) deciding; its `ON CONFLICT (kid) DO UPDATE`
puts a retired static key in service again. `Signers` is
`resolve_signing_material` with its fallback to the static key, `Published`
`jwk_set_from_sources`. `ListKeys`, `ListMails` and `Apply` are the re-encryption.

*Abstractions.* A ciphertext is the name of its KEK. The KEK is changed as
`docs/operations.md` says: services pause, the command runs, services come back with
some KEK (`Resume`, right or wrong), and preflight then says whether it is the right
one. `astray` records that services wrote under one it refuses; a deployment that has
gone astray is not followed into another window. TOTP secrets are sealed with the KEK
as well; the command does not touch them, and they are left out.

### ScimBulk, ScimPatch, Queries, Listings

`ScimBulk` runs one job: rounds (`Round`, `RunNext`) over the operations whose
references are resolved, then `GiveUp` on those left. An operation has a shape
(method and path) and a set of dependencies; whether it succeeds is free. The
operations of a round run in the order of the request: `ready` is the set of
those still to run and `RunNext` takes the least.
`ScimPatch` applies every request of up to `PatchLimit` operations to one user
and one group; the properties compare with a declarative reference, in which the
last operation that says something about a member or a name decides. Values that
the parsers refuse are one value `Bad`; an array where one member is expected is
read as the struct it is deserialized into, so its first element counts
(`SingleMember`). Storing may fail before the commit, with nothing changed, or at the
audit event behind it, with all changed and an error answered (`Audited`). `Queries` has every reader of parameters
as a walk over pairs, with values in five classes. `Listings` walks a list by
cursor (`KeysetPage`) or by offset (`CountScim`, `FetchScim`) while rows are
inserted, changed, deleted and purged. A page is the set of the rows whose `Rank`
in the statement's order is below its limit, which says the same as sorting and
cutting and can be reasoned about.

### ReleaseAssets, ReleaseEvidence, EvidencePaths, ScimSmoke

`ReleaseAssets` follows `release_assets_verification_report`: each question to a
file opens it again, and another process may write in between. A content is its
set of flaws, one per check, and its hash is itself. Beside the assets there may be
stray files, entries that are not regular files (`Folder`, which the inventory
passes over) and further lines in `SHA256SUMS.txt`. The loop over the expected
assets is a `place` in their list and the `part` (archive or SBOM) looked at.
`ReleaseEvidence` has `init`,
the operator's captures, and the check, which looks an entry up and reads it
later; the validators of the single artifacts are one verdict on their contents.
`init` opens a file (`OpenScaffold`), which follows a link and fails at a directory,
and fills it (`FillScaffold`), by when the name may belong to another file; any look
at a file may fail (`StatFails`, `InitFails`).
`cpos` and `ipos` are the positions of their loops, and `replaced` is history: the
files that somebody else wrote or removed while an `init` ran.
`EvidencePaths` resolves paths as sequences of names in a small tree with links,
which may change between the lexical check, the canonical one and the search for
links. `ScimSmoke` walks a server that may refuse a request or carry it out
without a usable answer; `at` is the step of `Walk` that comes next, `removals`
what a failed walk has yet to clean up.

## 3. What TLC checks

Deadlock checking is off where an instance may run out of identifiers, mails or
requests, which is a legitimate end; it is on in `directory_owners`.

| Run | Instance | Shows |
|---|---|---|
| `grants_rotation` | 1 user, client, session, code; 4 issues; 3 workers | `SingleUse`, `OneLivePerFamily`, `RotatedMeansIssued`; `CascadeCoversChildren`: a family revocation reaches every access token issued for a refresh token it reached; `ImplementsChain`: refinement of `RefreshChain` |
| `grants_revocations` | 1 user, client, code; 2 sessions, issues, workers; 16 operations | `RevocationsComplete`: nothing stored survives a suspension or password change (`UserRevocationComplete`), a disabling or change of scopes (`ClientRevocationComplete`) at its commit; `StaleChecksHarmless`: stale checks are never wrong where a row lock backs them (`RotationOnlyWhileActive`, `ExchangeOnlyWhileClientActive`) |
| `progress` | grants: 1 user, client, session, code, 2 issues; directory: 1 user, 2 groups, every operation; 2 workers | `EveryRequestEnds`, in both modules, although locks are taken in conflicting orders; `StragglersBounded`: what lives past a suspension comes from an exchange in flight, never from a rotation (`SuspendedStragglers`), and a code that a revocation withdrew has bought nothing (`WithdrawnCodesUnspent`) |
| `directory_owners` | 2 users, 2 groups, 3 statuses, 2 workers; every operation | `OwnerKept`; `BootstrapOnlyWhenEmpty` |
| `outbox` | 2 jobs, 2 mails, batches of 2, 2 attempts, 1 crash | `ClaimExclusive`, `ResendExcused`, `FateDeserved`, `TerminalStays`; `Settles`: every mail is sent or given up |
| `accounts` | 1 user, 2 addresses, 2 links, 1 session, 2 workers | `TokenOnce`; `VerifiedMeansOwned`; `RedeemedWell`: a link acts on the account as it is at the commit (`RedeemedSuits`), and a recovery ends what was there before (`RecoveryCutsOff`); `RequestsFinish` |
| `sign_in` | factors: a TOTP app, one authenticator enrolled twice, 2 codes, 2 requests; throttle: limit 2, 2 attempts, 2 ticks, windows and blocks of 1 and 2; keys: 3 keys, one of which may be in the environment, 2 KEKs or none, 2 replicas, 1 command; authorize: 2 tabs, 3 requests, 2 logins, 2 approvals, 1 upset | `OneUse` (`CodeOnce`, `ChallengeOnce`); `FactorsHold` (`FactorDemanded`, `FactorInForce`, `OneCodeSet`, `CodesNeedFactor`); `GuessesBounded` (`LateGuesses`, `GuessesPerWindow`); `KeysHold` (`OneActive`, `UpMeansKey`, `SignedVerifies`, `RetiredStaysOut`); `KekHolds` (`OneKek`, `ServiceReads`); `CodesDeserved` (`OneCodePerApproval`, `CodesCovered`, `PromptHonoured`, `SilentStaysSilent`, `StragglerCodes`); `AskedAgainExcused` |
| `interfaces` | bulk: 3 operations with any references, limits 0, 2 and 4 (none, in force, refused); patch: 2 operations, 3 members; queries: 3 pairs for every reader; lists: 3 rows, pages of 1; files: 1 foreign write; paths: 1 change; smoke: 2 faults | `BulkAnswers` (`StopsAtLimit`, `AllAnswered`, `ReferencesCreated`, `UnresolvedMeansCircle`), `JobEnds`; `PatchMeaning` (`MembersOnce`, `MembersLastWord`, `NameLastWord`, `RefusedChangesNothing`); `ReadAsWritten` (`NothingOverridden`, `DuplicatesRefused`, `WellformedIsRead`, `RangesNonEmpty`); `WalksHold` (`NoRowTwice`, `WalkWhole`, `ScimSlips`, `OldestGone`); `AssetsJudged` (`QuietVerdict`, `ReceiptHolds`); `EvidenceHolds` (`ReadyMeansAcceptable`, `ReadyDespiteWriters`, `EveryFailureHasACode`, `InitKeepsFiles`); `PathsConfined` (`ServedAsPermitted`, `NeverOutside`); `WalkCleansUp` (`OkLeavesNothing`, `LeftoversExcused`, `ReportAccepted`) |

A property that gathers several is their conjunction, defined after them in the
module; the parts, in parentheses, carry the statements. A type invariant is
checked as `TypeOK` or as the first part of such a conjunction.

*Why the bounds are enough.* Every race in `TokenGrants`, `Directory`,
`AccountTokens` and `SecondFactors` is between requests about the same user,
client or group, so one of each (two users where the other owner matters) meets
all of them; two workers make every pairwise interleaving, and the rotation run
has three so that a replay can meet a rotation and a revocation. Every order of
locks in the directory needs one user only. Four issues give a family of four
generations. In the outbox, two mails exercise the order and the limit of a
batch. The throttle's clock moves within a window of two ticks,
and past the end of a window or a block of one; a limit of two tells
the first failure from the one that blocks. Three signing keys let two replicas
and a command collide; `sign_in` follows a deployment until it has gone astray. Two tabs and two logins let a request come back from both
pages while another one spends the approval. Three bulk operations make circles,
chains and forks; two PATCH operations make every pair, with a member limit of
two to run into; three pairs make a duplicate with something in between. One
foreign write, edit or swap at every point shows each window between check and
use. Where a property is also proved (section 5), the bounds do not matter; for
the others the instances are the evidence.

*Symmetry* is used in runs without liveness only: workers, issues, users,
requests and tabs are interchangeable, and in `sign_in` the two passkeys of one
authenticator and the keys other than the environment's; mails and sessions are not.

### Disagreements with the documentation

Four runs check what a document says and find it violated by what the code does;
`PROJECT.json` quotes the lines.

| Run | Property | What happens |
|---|---|---|
| `grants_reuse` | `FamilyDeadAfterRevocation` | a rotation that has marked its token but not committed when the family revocation takes its snapshot commits a successor the revocation does not see; the family has a usable token |
| `directory_members` | `AddKeepsMembers` | of two SCIM patches that add members, the later replaces the list with one computed before the earlier committed |
| `factor_revival` | `RevokedStays` | a sign-in that read a passkey before its revocation writes the metadata back whole, and the passkey is active again |
| `login_return` | `LoginReturns` | the authorization endpoint gives the login page an absolute `return_to`, which the login and consent pages of `apps/web` replace by `/admin`: no sign-in through them leads back to the application |

Other sentences are narrower than the code's behaviour, and a property that holds
says how far the code goes:

* tokens stored by an exchange that passed its status check before a suspension
  outlive it and work after a reactivation (`docs/security.md:42`):
  `SuspendedStragglers`, `UserRevocationComplete`;
* a revocation of consent locks the grant only, which issuing does not touch, so
  tokens in flight survive (`docs/security.md:17`): `WithdrawnCodesUnspent`;
* a mail may go out twice when a claim outlives its timeout or a send reports an
  error (`docs/account-lifecycle.md:42`): `ResendExcused`;
* parallel first failures of a window overwrite each other's count, and a failure
  recorded after its window wipes a block out (`docs/api.md:199`):
  `GuessesPerWindow`, `LateGuesses`;
* a browser can go past the login or the consent page by asking for the `return_to`
  it was given: the URL has lost the prompt, and the session it had is enough
  (`docs/api.md:9`, "`prompt=login` forces reauthentication"): `PromptHonoured` says
  that this is the only way around, page by page;
* two confirmations or regenerations side by side leave both their sets of recovery
  codes valid (`docs/mfa.md:19`): `OneCodeSet`; and codes outlive the last factor when
  its revocation is cut short or runs beside a request that issues codes
  (`docs/mfa.md:21`): `CodesNeedFactor`;
* the administrator of a bootstrap has a verified address without having followed a
  link (`bootstrap.rs:56`): `VerifiedMeansOwned` speaks of every address that *comes*
  to count as verified, and the bootstrap's verification goes with its address;
* a rotate before the static key was imported hides from JWKS what that key has
  signed: `SignedVerifies`; and a start that finds no active key puts a static key
  that was retired in service again (`docs/operations.md:476`): `RetiredStaysOut`
  speaks of the other keys;
* the procedure for a change of the KEK restarts services before preflight
  (`docs/operations.md`, KEK Rotation): what they write with a wrong KEK in between is
  under it (`astray` in `OneKek` and `ServiceReads`). TOTP secrets are sealed with the
  KEK too, and neither the command nor the text (`docs/operations.md:482`) mentions
  them: `ServiceReads` speaks of keys and mails only;
* a filter on `externalId` is accepted twice if the first value is blank
  (`filter.rs:20-27`; `docs/scim.md:184` lists duplicate filter attributes among the
  errors), and so are the prefixes of an audit export: `DuplicatesRefused`, with
  `Forgets`;
* of an array of two given for a filtered member the first is taken and the other
  dropped (`docs/scim.md:139`, "must identify exactly one user"): `MembersLastWord`
  holds with that reading; and a PUT or PATCH whose audit event fails answers an error
  though the change is stored: `RefusedChangesNothing`;
* the verifier of a release passes over directories and links, and over lines of
  `SHA256SUMS.txt` for other names (`release_assets.rs:571-573`, `617-650`): `Genuine`
  says what it does ask for;
* a path that ends in a link followed by `.` is resolved before it is inspected, so a
  link inside the root passes (`docs/mcp.md:106`, `:174` list symlinked directories
  among the refused): `ServedAsPermitted` says that a dot is the only way, and that
  what is served stays inside the root;
* a request that read the client before an edit stores a code for what the client
  has lost: `StragglerCodes`.

## 4. Fairness

`TokenGrants` and `Directory`: `SF(Continue(w))` for every worker, since a row
lock is granted to the transactions that wait for it in turn, so a request whose
lock becomes free again and again gets it; and `WF(DeadlockVictim(w))`, since
PostgreSQL aborts a member of every cycle of waiting transactions. Nothing is
assumed about the arrival of requests, about crashes or about administrators.

`EmailOutbox`: `WF(Deliver(j))`, because operators schedule `deliver-once`
periodically and a started job goes on. This includes the assumption that the
provider command returns, since the code gives it no time limit. And
`WF(GoStale(m))`, `WF(RetryDue(m))`: time passes. Nothing is assumed about
what the provider answers.

`AccountTokens`: as `TokenGrants`, `SF(Proceed(w))` and `WF(Victim(w))`.
`ScimBulk`: `WF(BulkNext)`, since one handler runs the job to its end. No other
module states fairness: what they promise is safety.

## 5. What is proved

TLAPS proves the following for any number of users, clients, groups, tokens,
mails, factors, keys, tabs, workers and jobs, for requests, lists and releases of
any length, for any set of enabled operations and for any value of the bounds. The
assumptions are those on the constants (`SessionUserAssumption`, `IdsAssumption`,
`AdminAssumption`, `OutboxConstants`, `ThrottleConstants`, `RequestsAssumption`,
`AssetConstants`, ...): identifiers of different kinds are distinct, numbers are
positive, the workers of the throttle are finitely many and its limit is at least
two, the lists of expected assets and artifacts name none twice, and in a file system
every entry is in a directory and a link leads to something that is no link. TLC evaluates
them in the runs. Every safety property of every passing run is proved except
`PatchMeaning` of `interfaces`.

| Theorem | Statement |
|---|---|
| `TokenGrantsProofs!TypeCorrect`, `SpentOnce`, `NoFork`, `RotationAtomic` | `Spec => []TypeOK`, `[]SingleUse`, `[]OneLivePerFamily`, `[]RotatedMeansIssued` |
| `TokenGrantsProofs!RevocationsReachAll`, `StaleChecksStayHarmless`, `CascadeReachesChildren`, `StragglersStayBounded` | `Spec => RevocationsComplete`, `StaleChecksHarmless`, `CascadeCoversChildren`, `StragglersBounded` |
| `TokenGrantsProofs!FamiliesAreChains` | `Spec => ImplementsChain`: `TokenGrants` implements `RefreshChain` |
| `DirectoryProofs!DirectoryTypeCorrect`, `OwnerAlwaysKept`, `BootstrapOnce` | `Spec => []TypeOK`, `[]OwnerKept`, `BootstrapOnlyWhenEmpty` |
| `ServicesProofs!OutboxTypeCorrect`, `ClaimsExclusive`, `ResendsExcused`, `FatesDeserved`, `TerminalForever` | `Spec => []TypeOK`, `[]ClaimExclusive`, `[]ResendExcused`, `[]FateDeserved`, `TerminalStays` |
| `AccountTokensProofs!AccountTypeCorrect`, `TokensSpentOnce`, `VerifiedIsOwned`, `RedemptionsRight` | `Spec => []TypeOK`, `[]TokenOnce`, `VerifiedMeansOwned`, `RedeemedWell` |
| `AuthorizeProofs!CodesAlwaysDeserved`, `AskedAgainOnlyExcused` | `AuthorizeSpec => []CodesDeserved`, `AskedAgainExcused` |
| `SecondFactorsProofs!UsedOnce`, `FactorsAlwaysHold` | `FactorsSpec => []OneUse`, `[]FactorsHold` |
| `ServicesProofs!GuessesStayBounded` | `ThrottleSpec => []GuessesBounded` |
| `ServicesProofs!SigningKeysHold`, `OneKekAlways` | `KeysSpec => []KeysHold`, `[]KekHolds` |
| `RequestsProofs!QueriesReadAsWritten`, `WalksOverLists`, `BulkJobAnswers` | `QuerySpec => []ReadAsWritten`, `ListSpec => WalksHold`, `BulkSpec => []BulkAnswers` |
| `EvidenceProofs!EvidenceIsJudged`, `AssetsAreJudged`, `WalksCleanUp`, `PathsStayConfined` | `EvidenceSpec => EvidenceHolds`, `AssetsSpec => []AssetsJudged`, `SmokeSpec => []WalkCleansUp`, `PathsSpec => []PathsConfined` |

Every proof has the same shape: an inductive invariant, one lemma per action, and
for the action properties a second look at the few actions that can change what
they speak of.

*TokenGrants.* `SingleUse` is not inductive: it says nothing of requests that
have passed the guarded `UPDATE` and not yet committed. The invariant adds
`LocksExclusive` (no row has two lock holders), `SpenderOwnsRow` (between its
`UPDATE` and its commit a request holds the row it spends, and the row is still
unspent, because whoever could spend or revoke it waits for the lock), and
`SourceSpent` (what a stored token was given for is marked spent). A commit then
adds a token whose source was unspent, so no earlier token has that source.
`NoFork` follows in the same step: the only live token of the family is the one
being rotated. `FamilyStored` keeps the name of a new family fresh.

For the revocations `JInv` adds `Sound`, what a request at a given statement may
rely on. The heart is that its snapshots are complete: a suspension or disabling
holds the user or the client `FOR UPDATE` before its first snapshot, an insert
needs a key share on that row and waits, so after its statement number `n` has
begun every row of the tables up to `n` is among those it has taken, or was
revoked by another (`UserSwept`, `ClientSwept`; `FamilySwept` says the same of the
access tokens issued for the refresh tokens a family revocation holds). At the
commit nothing is left. `ChecksHold` says that a check is still true as long as
the grant it was made for can be spent, because what makes it false revokes the
grant in the same transaction. For the refinement, the head of a family is the
set of its live refresh tokens; a first issue is shown to be `Start`, the commit of a
rotation `Advance`, a commit of a revocation `Cut`, and every other step a
stutter or a `Cut`.

*Directory.* `OwnerKept` depends on what a transaction learnt in its check still
being true at its write. `Knows(w)` states it per operation: a deactivation about
to write holds its user and either the user has no ownership to lose or the
transaction holds the owner group and another active owner exists (`MayLeave`); a
membership change holds its group; break-glass and bootstrap hold the
organization. The argument is rely/guarantee: `Undisturbed(v)` says what a step
of anyone else spares while `v` holds its locks, every action is shown to
satisfy it for all other workers, and `StillKnows` concludes once for all that
`v`'s knowledge survives. The delicate case is a deactivation of a user who has
no membership row in the owner group: it holds no group lock worth having, and
is safe because a promotion needs a key share on the very user it has locked.

*EmailOutbox.* `LocksHeld` and `LockedAreDue` describe the claim statement in
progress, `HoldersAlone` the rows that never went stale, and `OutOfReach`, the
heart, says that a mail that went out without an excuse cannot be reached by any
further send: its row is `sending` or `sent`, and a job that still holds it is
about to mark it sent. `Earned` ties retries and verdicts to errors.

*AccountTokens.* As in `TokenGrants`, with locks taken in both orders. `Sound` says
of each worker what it can rely on: a token it has locked is not used yet
(`Open`), the account still suits the token once its row is locked (`Fits`), and
what a recovery has to end is among what it has chosen (`Chosen`). `LocksAlone`
says that no two workers hold the same row, and `Spent` that a token that was
redeemed was so once and is marked used. A deadlock victim lets go of its locks
and changes no row, so nothing of this is lost.

*SigningKeys.* `OneActive` follows from the partial unique index, which is a guard
of the insert; the invariant needs that what a transaction has switched off is
still active for the others and switched off by nobody else (`OffLocked`), and
that a job stores the static key or one that has no row yet and no other job has
(`KeyChosen`). `StaticSeen` says that once any key has a row the static one has, unless a
rotate came before the import; this is what keeps published what the static key
signed. `UpSource` is what a replica that serves can count on in each kind of
deployment. `KekHolds` rests on the jobs that change the KEK running in the window
only, when nothing else does, with every row listed: `SharedKek` names the one KEK
that everything is under, as long as services have not gone astray.

*Throttle.* `LateInv` counts the guesses judged since a block together with the
requests that have passed the check and not been judged: fewer than the workers.
`WindowInv` bounds a window: `Old(w, k)` are the pending failures that can still
undo a block (they found no row, or are older than the window), `FreeOnes` the
other workers, `Coming` what those may still record before the bucket is closed,
and `Room(n)` twice what `n` free workers can record in all. A worker that undoes
a block becomes free, which makes room for the `Limit` failures that follow and
for one in flight of each of the others. The bound is reached: in the instance
of `sign_in`, two workers record five failures in a window whose limit is two.

*SecondFactors.* The history variables `steady` and `shown` bound what a request
can have read (`Witness`); `IssuedBeside` and `CodesExcused` follow the recovery
codes: two sets trace back to two requests that issued codes side by side, and codes
without a factor to a revocation that was cut short or met such a request.
`OneUse` rests on the conditional updates: whoever is past it owns the code or
the challenge (`CodesUsed`, `ChallengesUsed`).

*Authorize.* `AuthInv` says of each tab what it may rely on (`TabOK`): its request
is what the application sent, less prompts that have been dealt with (`Faithful`:
`login` is missing only after a new sign-in, on the way to one, or after the login
page was skipped, and `consent` likewise of approvals); it was judged by the client of that time
(`Judged`: if the client has not been edited since, it still permits the
request); past the session, what the prompt asked of it is done (`Seated`); before
the code there is an approval (`Entitled`); and the marker of its last approval is
among those it tries, or cannot be spent any more (`Marked`). `SpentApart` keeps
the markers that codes and tabs have spent apart; a marker is spent by one guarded
update, and whoever has spent one finds it spent. `Grow` is what every step
guarantees (markers are only added or spent, approvals only added, the client
changes only with an edit), and `TabKept` and `CodeKept` conclude once for all
that the tabs and codes a step does not touch stay sound.

*Queries.* `ReadAsWritten` speaks of a request that has been read to its end. The
loop keeps `ForceHolds`: what is in force for a parameter is the one value that the
pairs read so far set it to, and a name that has not been seen has set nothing,
so the refusal of repetitions is what makes the value the only one. `NoneBad` says
that a value the reader cannot use ends the reading.

*Listings.* `CursorParts` cuts the rows in two at the cursor: what was listed is not
beyond it, what has matched since the walk was opened and was not listed is. The
lemmas on `Rank` and `First` say that the ranks of a finite set are distinct and
without gaps, that the last row of a page follows all others of it, and that a
statement with `LIMIT n + 1` which answers at most `n` rows has answered all.
`OffsetParts` holds in halves, because an offset does: as long as no row enters, what
was listed ranks below the offset, and as long as none leaves, what was not ranks at
or above it.

*ScimBulk.* `BulkInv` ties the books of the scheduler to the answers: pending is what
has none, the references what succeeded, the failed what did not, and `errors` their
number. The deep part is `UnresolvedMeansCircle`: the scheduler gives up when every
pending operation waits for a pending one, and then each of them leads to a circle.
`WaitingMeansCircle` takes, of the operations that one of them reaches, one that
itself reaches as little as any does; there is one because inclusion is well-founded
on finite sets. What it waits for reaches no less, hence reaches it. `Reach` is
the least set closed under references, so no induction is needed.

*ReleaseEvidence.* `EvidenceSeen` and `EvidenceBad` are the two directions of the
verdict: without a failure so far, whatever the check has passed and nobody has
touched is as it should be; while nobody writes, a failure is only counted when
something is not. `EvidenceCodes` counts the codes with the failures, and
`EvidenceKept` says that what an `init` without `--force` found is still there and is
not about to be written, unless somebody else replaced it.

*ReleaseAssets.* `HashesHold` holds whatever is written meanwhile: a verified hash is
the one of `SHA256SUMS.txt` and, without a fault, the manifest's, and a file not
written since has no flaw that has already been asked for (`ToAsk` is what remains).
`ReadsHold` and `GenuineHolds` are for the time while nobody writes: what was read is
what is there, and a genuine release has given no fault and a hash for every asset
passed (`Behind`). `LetThroughIsGenuine` then puts the single checks together, and
`GenuineAccepted` shows that the evidence contract, a second implementation of
the same rules, accepts the receipt of a genuine release.

*ScimSmoke.* `Knows` says that the client knows of every active user and every group
while the walk goes on, and that the last deactivations have worked; `Removes`
that a clean-up still has to remove whatever is left and not excused; `SmokePassed`
which checks have passed at which step, from which the verdict of the report's
validator follows.

*EvidencePaths.* The loops over the names of a path (`Real`, `RelativeBoundary`,
`LexicalKey`) are recursive functions, and what they compute is proved without an
induction theorem: `RunExists` shows that they are runs of a step (`IsRun`), and what
holds of every position of a run is shown by taking the least one where it fails
(`LeastNumber`, from the well-foundedness of inclusion on finite sets). That gives
`RelativeJudged` (the depth is the steps down less the steps up, so a path is outside
once it has stepped up more often), `KeySpells` (without a step up the key is the
path's names without the dots), `RealLands` (a path never ends at a link) and
`RealFixed` (a canonical path leads to itself). `WithinIff` puts `Within` in the
server's own terms. `PathsInv` then says what the server may rely on at each step: the
path was judged inside, and, while nothing moves, the directory it looked up and made
canonical is still what it was.

### Only model-checked

* liveness (`EveryRequestEnds`, `RequestsFinish`, `Settles`, `JobEnds`): fairness
  and `ENABLED` are out of the proof system's reach;
* the violated properties of section 3, which TLC refutes with a counterexample;
* `PatchMeaning`: the PATCH interpreter goes through the attributes of an operation
  and the operations of a request by folds over sequences, one inside the other.
  The library's facts about folds and its induction theorems take an operator as a
  parameter, which the prover cannot instantiate; the way taken for `EvidencePaths`
  needs the loops as recursive functions and has not been taken here.

## 6. Mutants

Each property of a passing run has a mutant: a definition changed the way a
plausible mistake would change the code (`FOR UPDATE` dropped, a `WHERE` condition
forgotten, statements swapped, a commit in two). A mutant stands
before the definition it replaces and is named after it with a suffix
(`LockUser_PlainRead`); TLC finds the property violated with each of them. In
particular, dropping the `FOR UPDATE` on the user, on the owner group of a status
change or on the organization breaks a property. So does using a marker, a
recovery code or a token without the condition that makes its `UPDATE` count
once, or dropping the unique index on the active key.

## 7. Not modelled, and the plan

Not modelled, with the reason:

* cryptography (password hashes, TOTP codes, PKCE, JWT signatures, WebAuthn
  ceremonies): the modules take the answer as an input;
* ID token claims, the rendering of SCIM resources, mails and the OpenAPI
  document (`api_contract.rs`): text, one function of one value;
* the validators of the single evidence artifacts
  (`operations_evidence/oidc`, `backup`, `preflight`, ...) and the normalizer of
  conformance exports: long lists of independent field checks on one JSON value
  in one process, where a model would repeat the code line by line;
* the admin pages of the web console, routing, CSRF and headers: stateless checks
  and displays of what the API decides;
* migrations: run before the server starts; their indexes and foreign keys are
  guards of the modules;
* the rotation of a client secret: one `UPDATE` of one hash.

Next: `PatchMeaning`, with the folds of the PATCH interpreter written as recursive
functions, so that they are runs as those of `EvidencePaths` are.
