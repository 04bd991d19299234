------------------------------ MODULE Authorize ------------------------------
(***************************************************************************)
(* How a browser gets an authorization code: /oauth2/authorize, the login  *)
(* and the consent page it sends the browser to, and the way back, in      *)
(* several tabs at once, while an administrator edits the client and the   *)
(* user withdraws consent or signs out.                                    *)
(*                                                                         *)
(* One organization, one user, one client; a tab serves one flow.  A step  *)
(* is what a handler does between two reads or writes of the database.  A  *)
(* request is what its parameters amount to; its canonical URL and the     *)
(* hash of that are the request itself.  An approval leaves two rows: a    *)
(* consent grant, which lasts, and a marker (consent_authorizations),      *)
(* which one later request may spend.                                      *)
(***************************************************************************)
EXTENDS Naturals, FiniteSets, Sequences

CONSTANTS
    Tabs,
    AuthorizeRequests, \* what applications ask for
    Details,           \* redirect URIs and scopes an administrator may save
    FrontEnds,         \* "bundled" is apps/web; "verbatim" follows return_to
                       \* as it stands, like the browser test of the API
    Modes,             \* ConsentGrantMode, as far as templates use it
    SessionAcrs,       \* what a session may be worth
    MarkerTtl,         \* CONSENT_AUTHORIZATION_TTL
    Null,
    \* Bounds; an upset is an edit, a revocation, a sign-out, a tick of the
    \* clock, a page gone past or a request that dies.
    MaxUpsets, MaxLogins, MaxApprovals

\* The query of the authorization endpoint; flaw names what is wrong with it.
RequestParams ==
    [uri : STRING, scopes : SUBSET STRING, prompt : SUBSET STRING,
     maxAge : Nat \cup {Null}, acrs : SUBSET STRING, flaw : STRING]

ASSUME ModesAssumption ==
    Modes \subseteq {"required_once", "always_required"}
ASSUME RequestsAssumption ==
    AuthorizeRequests \subseteq RequestParams /\ Null \notin RequestParams
ASSUME TtlAssumption == MarkerTtl \in Nat

VARIABLES
    frontEnd,    \* which pages the deployment serves
    client,      \* the row of oidc_clients, or Null
    templates,   \* the consent policy templates, one for each mode
    edits,       \* how often the client has been changed
    session,     \* what the cookie resolves to, or Null
    logins,      \* sessions so far
    grants,      \* the scope sets of the consent grants in force
    approved,    \* ... of every approval there has been (history)
    markers,     \* consent_authorizations, oldest first
    codes,       \* authorization codes, oldest first
    tab,         \* where each tab is
    ticks,
    upsets

authorizeVars == <<frontEnd, client, templates, edits, session, logins,
                   grants, approved, markers, codes, tab,
                   ticks, upsets>>

adminVars   == <<client, templates, edits>>
userVars    == <<session, logins>>
consentVars == <<grants, approved, markers, codes>>

\* request is what the tab will send or is served, first what its application
\* sent, base the last login before that, given the last approval since and
\* skipped the pages the browser has gone past (the last three are history).
\* The handler's locals: the client and session it read and when, whether a
\* grant covered the scopes, the markers left to try and the one it spent.
Blank == [at |-> "closed", request |-> Null, first |-> Null, base |-> 0,
          given |-> 0, skipped |-> {}, client |-> Null, seen |-> 0,
          session |-> Null, time |-> 0, covered |-> FALSE, tries |-> {},
          spent |-> 0]

AuthorizeInit ==
    /\ frontEnd \in FrontEnds
    /\ client = Null /\ templates = {} /\ edits = 0
    /\ session = Null /\ logins = 0
    /\ grants = {} /\ approved = {} /\ markers = <<>> /\ codes = <<>>
    /\ tab = [t \in Tabs |-> Blank]
    /\ ticks = 0 /\ upsets = 0

\* What may happen at any moment is rationed.
Upset == upsets < MaxUpsets /\ upsets' = upsets + 1

Move(t, at) == tab' = [tab EXCEPT ![t].at = at]

\* The tab follows a URL of the authorization endpoint: locals are gone.
Follow(t, request) ==
    [Blank EXCEPT !.at = "authorize", !.request = request,
                  !.first = tab[t].first, !.base = tab[t].base,
                  !.given = tab[t].given, !.skipped = tab[t].skipped]

-----------------------------------------------------------------------------
(* The request: AuthorizationRequest::validate.                            *)

\* The claims parameter adds the scope of the one claim it supports.
ScopesOf(r) ==
    r.scopes \cup (IF r.flaw = "wants_name" THEN {"profile"} ELSE {})

\* parse_prompt.
PromptOk(r) ==
    /\ r.prompt \subseteq {"none", "login", "consent"}
    /\ "none" \in r.prompt => Cardinality(r.prompt) = 1

\* The checks in the order in which they are made, and their errors.
Checks(r, c) == <<
    <<r.flaw # "response_type", "unsupported_response_type">>,
    <<"authorization_code" \in c.grants, "unauthorized_client">>,
    <<r.flaw # "scope_syntax", "invalid_scope">>,
    <<r.flaw # "request_object", "request_not_supported">>,
    <<r.flaw # "claims", "invalid_request">>,
    <<"openid" \in ScopesOf(r), "invalid_scope">>,
    <<ScopesOf(r) \subseteq c.allowed, "invalid_scope">>,
    <<"offline_access" \in ScopesOf(r) => "refresh_token" \in c.grants,
      "invalid_scope">>,
    <<PromptOk(r) /\ r.flaw \notin {"mode", "display"}, "invalid_request">>,
    <<r.flaw # "pkce", "invalid_request">> >>

\* The error of the first check that fails.
ErrorOf(r, c) ==
    LET checks == Checks(r, c)
        failed == {n \in 1 .. 10 : ~checks[n][1]}
    IN  IF failed = {} THEN "none"
        ELSE checks[CHOOSE n \in failed : \A m \in failed : n <= m][2]

\* current_authorize_url: the same request without what has been dealt with.
ReturnTo(r, done) == [r EXCEPT !.prompt = @ \ {done}]

-----------------------------------------------------------------------------
(* Administration.                                                         *)

\* What validate_allowed_client_scopes makes of the scopes.
Saved(d) == d.allowed \cup {"openid"}

\* oidc_clients, as far as the endpoint reads it.
ClientRow ==
    [uris : {d.uris : d \in Details}, logout : {d.logout : d \in Details},
     allowed : {Saved(d) : d \in Details},
     grants : {{"authorization_code", "refresh_token"}},
     policy : Modes \cup {Null}, active : BOOLEAN]

ASSUME ClientAssumption == Null \notin ClientRow

\* validate_consent_policy_template_assignment.
Assignable == {Null} \cup templates

CreateTemplate(mode) ==
    /\ mode \notin templates
    /\ templates' = templates \cup {mode}
    /\ UNCHANGED <<frontEnd, client, edits, userVars, consentVars, tab,
                   ticks, upsets>>

CreateClient(d, policy) ==
    /\ client = Null
    /\ policy \in Assignable
    /\ client' = [uris |-> d.uris, logout |-> d.logout, allowed |-> Saved(d),
                  grants |-> {"authorization_code", "refresh_token"},
                  policy |-> policy, active |-> TRUE]
    /\ UNCHANGED <<frontEnd, templates, edits, userVars, consentVars, tab,
                   ticks, upsets>>

Withdrawn(c) == [c EXCEPT !.live = FALSE]
AllWithdrawn == [i \in DOMAIN codes |-> Withdrawn(codes[i])]

\* A change of the redirect URIs or of the scopes uses up the pending codes.
UpdateClient(d, policy) ==
    /\ client # Null /\ Upset
    /\ policy \in Assignable
    /\ client' = [client EXCEPT !.uris = d.uris, !.logout = d.logout,
                                !.allowed = Saved(d), !.policy = policy]
    /\ edits' = edits + 1
    /\ codes' = IF d.uris # client.uris \/ Saved(d) # client.allowed
                THEN AllWithdrawn ELSE codes
    /\ UNCHANGED <<frontEnd, templates, userVars, grants, approved, markers,
                   tab, ticks>>

\* Disabling a client uses up its codes, enabling it brings none back.
UpdateClientStatus(active) ==
    /\ client # Null /\ Upset
    /\ client.active # active
    /\ client' = [client EXCEPT !.active = active]
    /\ edits' = edits + 1
    /\ codes' = IF active THEN codes ELSE AllWithdrawn
    /\ UNCHANGED <<frontEnd, templates, userVars, grants, approved, markers,
                   tab, ticks>>

-----------------------------------------------------------------------------
(* The authorization endpoint.                                             *)

\* An application sends the browser here.
Open(t, r) ==
    /\ tab[t].at = "closed"
    /\ tab' = [tab EXCEPT ![t] = [Blank EXCEPT
                    !.at = "authorize", !.request = r, !.first = r,
                    !.base = logins]]
    /\ UNCHANGED <<frontEnd, adminVars, userVars, consentVars, ticks, upsets>>

\* A flow ends: a local 400, an error sent to the redirect URI, or a code.
End(t) == tab' = [tab EXCEPT ![t] = [Blank EXCEPT !.at = "done"]]

\* The client is read and the request judged by it.  Before the redirect URI
\* is known to be the client's, an error is answered here; afterwards it is
\* sent there.  Either way the flow is over.
AuthorizeLoad(t) ==
    LET r == tab[t].request
    IN  /\ tab[t].at = "authorize"
        /\ IF \/ client = Null
              \/ r.flaw \in {"duplicate", "max_age"}
              \/ r.uri \notin client.uris
              \/ ~client.active
              \/ ErrorOf(r, client) # "none"
           THEN End(t)
           ELSE tab' = [tab EXCEPT ![t].at = "session", ![t].client = client,
                                   ![t].seen = edits]
        /\ UNCHANGED <<frontEnd, adminVars, userVars, consentVars, ticks,
                       upsets>>

\* login_required for prompt=none, otherwise the login page.
Demand(t, page, request) ==
    IF "none" \in tab[t].request.prompt THEN End(t)
    ELSE tab' = [tab EXCEPT ![t] = [Follow(t, request) EXCEPT !.at = page]]

\* session_exceeds_max_age and session_satisfies_requested_acr.
TooOld(r, s) == r.maxAge # Null /\ ticks - s.created > r.maxAge
TooWeak(r, s) == r.acrs # {} /\ s.acr \notin r.acrs

\* The session is read: it may be missing, or not be what was asked for.
AuthorizeSession(t) ==
    LET r == tab[t].request
    IN  /\ tab[t].at = "session"
        /\ \/ /\ session = Null \/ "login" \in r.prompt
              /\ Demand(t, "login_page", ReturnTo(r, "login"))
           \/ /\ session # Null /\ "login" \notin r.prompt
              /\ TooOld(r, session) \/ TooWeak(r, session)
              /\ Demand(t, "login_page", r)
           \/ /\ session # Null /\ "login" \notin r.prompt
              /\ ~TooOld(r, session) /\ ~TooWeak(r, session)
              /\ tab' = [tab EXCEPT ![t].at = "consent", ![t].time = ticks,
                                    ![t].session = session]
        /\ UNCHANGED <<frontEnd, adminVars, userVars, consentVars, ticks,
                       upsets>>

\* has_active_consent_grant: one grant has to cover every scope.
HasConsent(r) == \E g \in grants : ScopesOf(r) \subseteq g

\* client_consent_policy_requires_prompt, for the client that was read.
AlwaysAsks(c) == c.policy = "always_required"

\* consent_required for prompt=none, otherwise the consent page.
Ask(t) == Demand(t, "consent_page", ReturnTo(tab[t].request, "consent"))

\* The grants and the policy are read.  Under a policy that always asks only
\* a marker will do, and neither prompt=none nor prompt=consent looks for one.
AuthorizeConsent(t) ==
    LET r    == tab[t].request
        asks == AlwaysAsks(tab[t].client)
    IN  /\ tab[t].at = "consent"
        /\ \/ /\ asks /\ r.prompt = {}
              /\ tab' = [tab EXCEPT ![t].at = "select",
                                    ![t].covered = HasConsent(r)]
           \/ /\ asks => r.prompt # {}
              /\ asks \/ "consent" \in r.prompt \/ ~HasConsent(r)
              /\ Ask(t)
           \/ /\ ~asks /\ "consent" \notin r.prompt /\ HasConsent(r)
              /\ Move(t, "insert")
        /\ UNCHANGED <<frontEnd, adminVars, userVars, consentVars, ticks,
                       upsets>>

\* A bug of this kind: the hash is taken of the request as it first came.
Spendable_FirstRequest(t) ==
    {i \in DOMAIN markers :
        /\ markers[i].session = tab[t].session.id
        /\ markers[i].request = tab[t].first
        /\ ~markers[i].spent
        /\ markers[i].expires > tab[t].time
        /\ ScopesOf(tab[t].request) \subseteq markers[i].scopes}

\* The markers of this very request and session that are neither spent nor
\* expired and cover its scopes.
Spendable(t) ==
    {i \in DOMAIN markers :
        /\ markers[i].session = tab[t].session.id
        /\ markers[i].request = tab[t].request
        /\ ~markers[i].spent
        /\ markers[i].expires > tab[t].time
        /\ ScopesOf(tab[t].request) \subseteq markers[i].scopes}

ConsumeSelect(t) ==
    /\ tab[t].at = "select"
    /\ IF Spendable(t) = {} THEN Ask(t)
       ELSE tab' = [tab EXCEPT ![t].at = "consume", ![t].tries = Spendable(t)]
    /\ UNCHANGED <<frontEnd, adminVars, userVars, consentVars, ticks, upsets>>

\* A bug of this kind: the update does not look at consumed_at again.
ConsumeUpdate_Blind(t) ==
    LET tries == tab[t].tries
    IN  \E i \in tries :
        /\ tab[t].at = "consume"
        /\ \A j \in tries : markers[j].created <= markers[i].created
        /\ markers' = [markers EXCEPT ![i].spent = TRUE]
        /\ IF tab[t].covered
           THEN tab' = [tab EXCEPT ![t].at = "insert", ![t].spent = i]
           ELSE Ask(t)
        /\ UNCHANGED <<frontEnd, adminVars, userVars, grants, approved, codes,
                       ticks, upsets>>

\* The newest is tried first; one that another request has spent meanwhile is
\* passed over.  A marker is spent even if there is no grant any more.
ConsumeUpdate(t) ==
    LET tries == tab[t].tries
    IN  \E i \in tries :
        /\ tab[t].at = "consume"
        /\ \A j \in tries : markers[j].created <= markers[i].created
        /\ IF markers[i].spent
           THEN /\ UNCHANGED markers
                /\ IF tries = {i} THEN Ask(t)
                   ELSE tab' = [tab EXCEPT ![t].tries = tries \ {i}]
           ELSE /\ markers' = [markers EXCEPT ![i].spent = TRUE]
                /\ IF tab[t].covered
                   THEN tab' = [tab EXCEPT ![t].at = "insert", ![t].spent = i]
                   ELSE Ask(t)
        /\ UNCHANGED <<frontEnd, adminVars, userVars, grants, approved, codes,
                       ticks, upsets>>

\* The code is stored and sent to the redirect URI.
InsertCode(t) ==
    /\ tab[t].at = "insert"
    /\ codes' = Append(codes,
            [request |-> tab[t].request, first |-> tab[t].first,
             base |-> tab[t].base, given |-> tab[t].given,
             skipped |-> tab[t].skipped,
             session |-> tab[t].session, policy |-> tab[t].client.policy,
             spent |-> tab[t].spent, seen |-> tab[t].seen, born |-> edits,
             live |-> TRUE])
    /\ End(t)
    /\ UNCHANGED <<frontEnd, adminVars, userVars, grants, approved, markers,
                   ticks, upsets>>

\* The handler or the connection dies, or the user closes the tab.
Abandon(t) ==
    /\ tab[t].at \notin {"closed", "done"} /\ Upset
    /\ End(t)
    /\ UNCHANGED <<frontEnd, adminVars, userVars, consentVars, ticks>>

-----------------------------------------------------------------------------
(* The pages and the user.                                                 *)

\* localRedirectPath: the bundled pages go back to local paths only, and what
\* the endpoint gives them is an absolute URL of the issuer.
WayBack(t) == IF frontEnd = "bundled" THEN "/admin" ELSE "return_to"

\* A successful login replaces the session and goes back.
SubmitLogin(t, acr) ==
    /\ tab[t].at = "login_page" /\ logins < MaxLogins
    /\ session' = [id |-> logins + 1, created |-> ticks, acr |-> acr]
    /\ logins' = logins + 1
    /\ IF WayBack(t) = "return_to"
       THEN tab' = [tab EXCEPT ![t] = Follow(t, tab[t].request)]
       ELSE End(t)
    /\ UNCHANGED <<frontEnd, adminVars, consentVars, ticks, upsets>>

\* The browser asks for the return_to it was given without doing what the page
\* is for.  It has already lost the prompt that led to the page, and the server
\* keeps no record of having sent anybody there.
Skip(t) ==
    /\ tab[t].at \in {"login_page", "consent_page"} /\ Upset
    /\ tab' = [tab EXCEPT ![t] =
            [Follow(t, tab[t].request) EXCEPT
                !.skipped = tab[t].skipped \cup {tab[t].at}]]
    /\ UNCHANGED <<frontEnd, adminVars, userVars, consentVars, ticks>>

\* validate_consent_return_to.
ReturnToValid(t) ==
    /\ WayBack(t) = "return_to"
    /\ ErrorOf(tab[t].request, client) = "none"
    /\ tab[t].request.uri \in client.uris
    /\ tab[t].request.prompt \cap {"none", "consent"} = {}

\* consent_scopes_allowed.
ScopesAllowed(S) ==
    /\ S \subseteq client.allowed
    /\ "offline_access" \in S => "refresh_token" \in client.grants

\* POST /api/v1/consent.  One that is refused changes nothing and leaves the
\* browser on the page.
ApproveCheck(t) ==
    /\ tab[t].at = "consent_page"
    /\ session # Null /\ client # Null
    /\ client.active
    /\ ScopesAllowed(ScopesOf(tab[t].request))
    /\ ReturnToValid(t)
    /\ tab' = [tab EXCEPT ![t].at = "grant", ![t].session = session,
                          ![t].time = ticks]
    /\ UNCHANGED <<frontEnd, adminVars, userVars, consentVars, ticks, upsets>>

CreateGrant(t) ==
    LET S == ScopesOf(tab[t].request)
    IN  /\ tab[t].at = "grant"
        /\ grants' = grants \cup {S}
        /\ approved' = approved \cup {S}
        /\ Move(t, "marker")
        /\ UNCHANGED <<frontEnd, adminVars, userVars, markers, codes, ticks,
                       upsets>>

\* The marker is for the request that comes back, in the session of now.
CreateMarker(t) ==
    /\ tab[t].at = "marker" /\ Len(markers) < MaxApprovals
    /\ markers' = Append(markers,
            [session |-> tab[t].session.id, request |-> tab[t].request,
             scopes |-> ScopesOf(tab[t].request), created |-> tab[t].time,
             expires |-> tab[t].time + MarkerTtl, spent |-> FALSE])
    /\ tab' = [tab EXCEPT ![t] = [Follow(t, tab[t].request) EXCEPT
                                      !.given = Len(markers) + 1]]
    /\ UNCHANGED <<frontEnd, adminVars, userVars, grants, approved, codes,
                   ticks, upsets>>

\* revoke_current_user_consent_and_tokens: every grant for the client and the
\* codes that are pending.  Markers stay.
RevokeConsent ==
    /\ grants # {} /\ Upset
    /\ grants' = {}
    /\ codes' = AllWithdrawn
    /\ UNCHANGED <<frontEnd, adminVars, userVars, approved, markers, tab,
                   ticks>>

\* post_logout_redirect_target: to go to a URI of the client takes an ID token
\* that was issued to it.
LogoutTarget(target, hint) ==
    \/ target = Null
    \/ /\ client # Null
       /\ hint = "own" /\ client.active
       /\ target \in client.logout

\* end_session.  One that is refused has not touched the session.  A session
\* that expires or is revoked elsewhere looks the same to the tabs.
EndSession(target, hint) ==
    /\ session # Null /\ Upset
    /\ LogoutTarget(target, hint)
    /\ session' = Null
    /\ UNCHANGED <<frontEnd, adminVars, logins, consentVars, tab, ticks>>

AuthorizeTick ==
    /\ Upset
    /\ ticks' = ticks + 1
    /\ UNCHANGED <<frontEnd, adminVars, userVars, consentVars, tab>>

AuthorizeNext ==
    \/ \E t \in Tabs :
        \/ \E r \in AuthorizeRequests : Open(t, r)
        \/ AuthorizeLoad(t) \/ AuthorizeSession(t) \/ AuthorizeConsent(t)
        \/ ConsumeSelect(t) \/ ConsumeUpdate(t) \/ InsertCode(t)
        \/ \E acr \in SessionAcrs : SubmitLogin(t, acr)
        \/ ApproveCheck(t) \/ CreateGrant(t) \/ CreateMarker(t)
        \/ Skip(t) \/ Abandon(t)
    \/ \E mode \in Modes : CreateTemplate(mode)
    \/ \E d \in Details, policy \in Modes \cup {Null} :
        CreateClient(d, policy) \/ UpdateClient(d, policy)
    \/ \E active \in BOOLEAN : UpdateClientStatus(active)
    \/ \E target \in {Null} \cup UNION {d.logout : d \in Details} :
        \E hint \in {Null, "own", "of_another"} : EndSession(target, hint)
    \/ RevokeConsent
    \/ AuthorizeTick

AuthorizeSpec == AuthorizeInit /\ [][AuthorizeNext]_authorizeVars

-----------------------------------------------------------------------------
(* Properties.                                                             *)

\* The rows the tabs hold on to exist.
AuthorizeTypeOK ==
    /\ client = Null \/ client.policy \in Assignable
    /\ \A t \in Tabs :
        /\ tab[t].tries \subseteq DOMAIN markers
        /\ {tab[t].given, tab[t].spent} \subseteq {0} \cup DOMAIN markers
        /\ tab[t].at \in {"closed", "done"} <=> tab[t].first = Null
        /\ tab[t].at \in {"consent", "select", "consume", "insert", "marker"}
                => tab[t].session # Null

\* Under an always_required policy every code has spent an approval of its
\* own, although the same request may run in several tabs at once.
OneCodePerApproval ==
    \A i \in DOMAIN codes :
        codes[i].policy = "always_required" =>
            /\ codes[i].spent # 0
            /\ \A j \in DOMAIN codes \ {i} : codes[j].spent # codes[i].spent

\* prompt=none never shows a page, however often the tab has been around.
SilentStaysSilent ==
    \A t \in Tabs : tab[t].at \in {"login_page", "consent_page"} =>
                        "none" \notin tab[t].first.prompt

\* What the application asked for has been done before it gets a code: a new
\* sign-in for prompt=login, an approval for prompt=consent.  The only way
\* round it is to go past that very page; going past the other one, signing in
\* elsewhere or an edit of the client does not help.
PromptHonoured ==
    \A i \in DOMAIN codes :
        /\ "login" \in codes[i].first.prompt =>
                \/ codes[i].session.id > codes[i].base
                \/ "login_page" \in codes[i].skipped
        /\ "consent" \in codes[i].first.prompt =>
                codes[i].given # 0 \/ "consent_page" \in codes[i].skipped

\* No code goes beyond what the user has agreed to in a single approval.
CodesCovered ==
    \A i \in DOMAIN codes :
        \E S \in approved : ScopesOf(codes[i].request) \subseteq S

\* A pending code for a redirect URI the client has lost, or for scopes it may
\* not ask for any more, comes from a request that had read the client before
\* the change and stored its code after it.
StragglerCodes ==
    \A i \in DOMAIN codes :
        (/\ codes[i].live
         /\ \/ codes[i].request.uri \notin client.uris
            \/ ~(ScopesOf(codes[i].request) \subseteq client.allowed)
            \/ ~client.active)
        => codes[i].seen < codes[i].born

\* A code is only ever issued for a request that was approved, once for each
\* approval that is asked for every time, in the way its prompt demands (as far
\* as the browser went by the pages it was sent to) and for a client that
\* permits it, or permitted it when the request read it.
CodesDeserved ==
    /\ AuthorizeTypeOK /\ OneCodePerApproval /\ CodesCovered
    /\ PromptHonoured /\ SilentStaysSilent /\ StragglerCodes

\* A user who has approved a request is asked again on the way back only
\* because the approval is used up, outdated or withdrawn, or because the
\* session is not the one it was given in.
AskedAgainExcused ==
    [][\A t \in Tabs :
        (/\ tab[t].given # 0 /\ tab[t].at # "consent_page"
         /\ tab'[t].at = "consent_page")
        => LET m == markers'[tab[t].given]
           IN  \/ m.spent
               \/ m.expires <= tab[t].time
               \/ m.session # tab[t].session.id
               \/ tab[t].at = "consent" /\ ~HasConsent(tab[t].request)
               \/ tab[t].at = "consume" /\ ~tab[t].covered
      ]_authorizeVars

\* The login page sends the browser back to the request it came from.
LoginReturns ==
    [][\A t \in Tabs :
        tab[t].at = "login_page" /\ session' # session
        => tab'[t].at \in {"login_page", "authorize"}]_authorizeVars
=============================================================================
