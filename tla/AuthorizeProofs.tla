--------------------------- MODULE AuthorizeProofs ---------------------------
(***************************************************************************)
(* Authorize issues a code only for what the user has approved and in the  *)
(* way the application asked for it, and asks again only with a reason,    *)
(* for any number of tabs, requests and clients' forms and for any bounds. *)
(***************************************************************************)
EXTENDS Authorize, SequenceTheorems, TLAPS

-----------------------------------------------------------------------------
(* Types.                                                                  *)

SessionRow == [id : Nat, created : Nat, acr : SessionAcrs]

\* The claims parameter may add this one.
Scopes == STRING \cup {"profile"}

MarkerRow == [session : Nat, request : RequestParams, scopes : SUBSET Scopes, created : Nat,
              expires : Nat, spent : BOOLEAN]

\* The pages a browser may go past.
Pages == {"login_page", "consent_page"}

CodeRow == [request : RequestParams, first : RequestParams, base : Nat, given : Nat,
            skipped : SUBSET Pages, session : SessionRow, policy : Modes \cup {Null}, spent : Nat,
            seen : Nat,
            born : Nat, live : BOOLEAN]

Places == {"closed", "done", "authorize", "session", "consent", "select", "consume", "insert",
           "login_page", "consent_page", "grant", "marker"}

TabRow == [at : Places, request : RequestParams \cup {Null}, first : RequestParams \cup {Null},
           base : Nat, given : Nat, skipped : SUBSET Pages, client : ClientRow \cup {Null},
           seen : Nat, session : SessionRow \cup {Null}, time : Nat, covered : BOOLEAN,
           tries : SUBSET Nat, spent : Nat]

Typed ==
    /\ client \in ClientRow \cup {Null}
    /\ edits \in Nat /\ logins \in Nat /\ ticks \in Nat
    /\ session \in SessionRow \cup {Null}
    /\ markers \in Seq(MarkerRow)
    /\ codes \in Seq(CodeRow)
    /\ tab \in [Tabs -> TabRow]

-----------------------------------------------------------------------------
(* What a tab may rely on.                                                 *)

Over       == {"closed", "done"}
SeesClient == {"session", "consent", "select", "consume", "insert"}
SignedIn   == {"consent", "select", "consume", "insert"}
Asking     == {"consent_page", "grant", "marker"}

Covered(r) == \E S \in approved : ScopesOf(r) \subseteq S

\* The client, as it is, permits the request.
Permits(r) ==
    /\ r.uri \in client.uris /\ client.active
    /\ ScopesOf(r) \subseteq client.allowed

\* The request is what the application sent, less what was dealt with.
Faithful(x) ==
    x.at \notin Over =>
        /\ x.request \in RequestParams /\ x.first \in RequestParams
        /\ x.request.prompt \subseteq x.first.prompt
        /\ x.first.prompt \subseteq x.request.prompt \cup {"login", "consent"}
        /\ x.base <= logins
        /\ "login" \in x.first.prompt /\ "login" \notin x.request.prompt
               => x.at = "login_page" \/ x.base < logins \/ "login_page" \in x.skipped
        /\ "consent" \in x.first.prompt /\ "consent" \notin x.request.prompt
               => x.at \in Asking \/ x.given # 0 \/ "consent_page" \in x.skipped
        /\ x.at \in {"login_page", "consent_page"} => "none" \notin x.first.prompt

\* The request was judged by the client of that time.
Judged(x) ==
    x.at \in SeesClient =>
        /\ client # Null /\ x.client # Null
        /\ x.request.prompt \subseteq {"none", "login", "consent"}
        /\ x.seen <= edits
        /\ x.seen = edits => Permits(x.request)

\* Past the session, what the prompt asked of it is done.
Seated(x) ==
    /\ x.at \in SignedIn \cup {"grant", "marker"} => x.session # Null
    /\ x.at \in SignedIn =>
           /\ "login" \notin x.request.prompt
           /\ "login" \in x.first.prompt => x.base < x.session.id \/ "login_page" \in x.skipped
    /\ x.at \in Asking \cup {"select", "consume"} \/ x.given # 0 => x.request.prompt = {}

\* A tab that will get a code has an approval for it.
Entitled(x) ==
    /\ x.at = "insert" =>
           /\ "consent" \notin x.request.prompt
           /\ x.client.policy = "always_required" => x.spent # 0
           /\ Covered(x.request)
    /\ x.at \in {"select", "consume"} /\ x.covered => Covered(x.request)

\* The marker of the last approval cannot be spent by the tab.
Spoilt(x) ==
    \/ markers[x.given].spent
    \/ markers[x.given].expires <= x.time
    \/ markers[x.given].session # x.session.id

\* The markers a tab holds on to.
Marked(x) ==
    /\ x.tries \subseteq DOMAIN markers
    /\ x.spent # 0 => /\ x.at = "insert" /\ x.spent \in DOMAIN markers
                      /\ markers[x.spent].spent
    /\ x.given # 0 => /\ x.given \in DOMAIN markers
                      /\ markers[x.given].request = x.request
                      /\ markers[x.given].scopes = ScopesOf(x.request)
    /\ x.at = "consume" /\ x.given # 0 => x.given \in x.tries \/ Spoilt(x)

TabOK(x) ==
    /\ x.at \in Over => x.first = Null /\ x.given = 0 /\ x.spent = 0 /\ x.tries = {}
    /\ Faithful(x) /\ Judged(x) /\ Seated(x) /\ Entitled(x) /\ Marked(x)

-----------------------------------------------------------------------------
(* What holds of a code.                                                   *)

CodeOK(c) ==
    /\ c.policy = "always_required" => c.spent # 0
    /\ c.spent # 0 => c.spent \in DOMAIN markers /\ markers[c.spent].spent
    /\ "login" \in c.first.prompt => c.base < c.session.id \/ "login_page" \in c.skipped
    /\ "consent" \in c.first.prompt => c.given # 0 \/ "consent_page" \in c.skipped
    /\ Covered(c.request)
    /\ c.seen <= c.born
    /\ c.live /\ c.seen = c.born => Permits(c.request)

\* No two codes, no two tabs and no tab and code have spent the same marker.
SpentApart ==
    /\ \A i, j \in DOMAIN codes : i # j /\ codes[i].spent # 0 => codes[i].spent # codes[j].spent
    /\ \A t, u \in Tabs : t # u /\ tab[t].spent # 0 => tab[t].spent # tab[u].spent
    /\ \A t \in Tabs, i \in DOMAIN codes : tab[t].spent # 0 => tab[t].spent # codes[i].spent

Shared ==
    /\ client # Null => client.policy \in Assignable
    /\ client = Null => codes = <<>>
    /\ session # Null => session.id = logins
    /\ grants \subseteq approved

AuthInv ==
    /\ Typed /\ Shared /\ SpentApart
    /\ \A t \in Tabs : TabOK(tab[t])
    /\ \A i \in DOMAIN codes : CodeOK(codes[i])

-----------------------------------------------------------------------------
(* The request.                                                            *)

LEMMA FirstOf ==
    ASSUME NEW F \in SUBSET (1 .. 10), F # {} PROVE \E n \in F : \A m \in F : n <= m
  <1>1. \E n \in 1 .. 10 : n \in F /\ \A m \in 1 .. 10 : m < n => m \notin F
    <2>1. CASE 1 \in F
      BY <2>1
    <2>2. CASE 1 \notin F /\ 2 \in F
      BY <2>2
    <2>3. CASE {1, 2} \cap F = {} /\ 3 \in F
      BY <2>3
    <2>4. CASE {1, 2, 3} \cap F = {} /\ 4 \in F
      BY <2>4
    <2>5. CASE {1, 2, 3, 4} \cap F = {} /\ 5 \in F
      BY <2>5
    <2>6. CASE {1, 2, 3, 4, 5} \cap F = {} /\ 6 \in F
      BY <2>6
    <2>7. CASE {1, 2, 3, 4, 5, 6} \cap F = {} /\ 7 \in F
      BY <2>7
    <2>8. CASE {1, 2, 3, 4, 5, 6, 7} \cap F = {} /\ 8 \in F
      BY <2>8
    <2>9. CASE {1, 2, 3, 4, 5, 6, 7, 8} \cap F = {} /\ 9 \in F
      BY <2>9
    <2>10. CASE {1, 2, 3, 4, 5, 6, 7, 8, 9} \cap F = {}
      <3>1. PICK n \in F : TRUE
        OBVIOUS
      <3>2. n = 10
        BY <2>10, <3>1
      <3> QED
        BY <2>10, <3>1, <3>2
    <2> QED
      BY <2>1, <2>2, <2>3, <2>4, <2>5, <2>6, <2>7, <2>8, <2>9, <2>10
  <1> QED
    BY <1>1

\* A request without an error has passed every check.
LEMMA ErrorNone ==
    ASSUME NEW r \in RequestParams, NEW c \in ClientRow, ErrorOf(r, c) = "none"
    PROVE  ScopesOf(r) \subseteq c.allowed /\ r.prompt \subseteq {"none", "login", "consent"}
  <1> DEFINE checks == Checks(r, c)
             failed == {n \in 1 .. 10 : ~checks[n][1]}
             first == CHOOSE n \in failed : \A m \in failed : n <= m
  <1>1. \A n \in 1 .. 10 : checks[n][2] # "none"
    BY DEF Checks
  <1>2. (checks[7][1] <=> ScopesOf(r) \subseteq c.allowed) /\ (checks[9][1] => PromptOk(r))
    BY DEF Checks
  <1>3. ErrorOf(r, c) = IF failed = {} THEN "none" ELSE checks[first][2]
    BY DEF ErrorOf
  <1> HIDE DEF checks
  <1>4. failed = {}
    <2> SUFFICES ASSUME failed # {} PROVE FALSE
      OBVIOUS
    <2>1. \E n \in failed : \A m \in failed : n <= m
      BY FirstOf
    <2>2. first \in failed
      BY <2>1
    <2> QED
      BY <1>1, <1>3, <2>2
  <1>5. checks[7][1] /\ checks[9][1]
    BY <1>4
  <1> QED
    BY <1>2, <1>5 DEF PromptOk

LEMMA ReturnToFacts ==
    ASSUME NEW r \in RequestParams, NEW done
    PROVE  /\ ReturnTo(r, done) \in RequestParams
           /\ ReturnTo(r, done).prompt = r.prompt \ {done}
           /\ ReturnTo(r, done).uri = r.uri
           /\ ScopesOf(ReturnTo(r, done)) = ScopesOf(r)
           /\ done \notin r.prompt => ReturnTo(r, done) = r
  <1>1. ReturnTo(r, done) = [uri |-> r.uri, scopes |-> r.scopes, prompt |-> r.prompt \ {done},
                             maxAge |-> r.maxAge, acrs |-> r.acrs, flaw |-> r.flaw]
    BY DEF ReturnTo, RequestParams
  <1>2. r = [uri |-> r.uri, scopes |-> r.scopes, prompt |-> r.prompt,
             maxAge |-> r.maxAge, acrs |-> r.acrs, flaw |-> r.flaw]
    BY DEF RequestParams
  <1>3. /\ ReturnTo(r, done).prompt = r.prompt \ {done}
        /\ ReturnTo(r, done).uri = r.uri /\ ReturnTo(r, done).scopes = r.scopes
        /\ ReturnTo(r, done).flaw = r.flaw
    BY <1>1
  <1>4. ReturnTo(r, done) \in RequestParams
    BY <1>1 DEF RequestParams
  <1>5. done \notin r.prompt => r.prompt \ {done} = r.prompt
    OBVIOUS
  <1> QED
    BY <1>1, <1>2, <1>3, <1>4, <1>5 DEF ScopesOf

LEMMA ScopesAreScopes == ASSUME NEW r \in RequestParams PROVE ScopesOf(r) \in SUBSET Scopes
  BY DEF ScopesOf, Scopes, RequestParams

-----------------------------------------------------------------------------
(* Rows of a tab.                                                          *)

LEMMA TabFields ==
    ASSUME AuthInv, NEW t \in Tabs
    PROVE  /\ tab[t] \in TabRow /\ TabOK(tab[t])
           /\ tab[t].at \in Places /\ tab[t].base \in Nat /\ tab[t].given \in Nat
           /\ tab[t].seen \in Nat /\ tab[t].time \in Nat /\ tab[t].spent \in Nat
           /\ tab[t].skipped \in SUBSET Pages
           /\ tab[t].at \notin Over => tab[t].request \in RequestParams /\ tab[t].first \in RequestParams
           /\ tab[t].session # Null => tab[t].session \in SessionRow /\ tab[t].session.id \in Nat
           /\ tab[t].client # Null => tab[t].client \in ClientRow
  <1>1. tab[t] \in TabRow /\ TabOK(tab[t])
    BY DEF AuthInv, Typed
  <1> QED
    BY <1>1 DEF TabRow, TabOK, Faithful, SessionRow

LEMMA MarkerFacts ==
    ASSUME AuthInv
    PROVE  /\ Len(markers) \in Nat /\ DOMAIN markers = 1 .. Len(markers)
           /\ \A i \in DOMAIN markers :
                  /\ i \in Nat /\ i # 0 /\ markers[i] \in MarkerRow
                  /\ markers[i].expires \in Nat /\ markers[i].created \in Nat
  <1>1. markers \in Seq(MarkerRow)
    BY DEF AuthInv, Typed
  <1>2. Len(markers) \in Nat /\ DOMAIN markers = 1 .. Len(markers)
    BY <1>1
  <1>3. \A i \in 1 .. Len(markers) : i \in Nat /\ i # 0 /\ markers[i] \in MarkerRow
    BY <1>1, <1>2
  <1>4. \A m \in MarkerRow : m.expires \in Nat /\ m.created \in Nat
    BY DEF MarkerRow
  <1> QED
    BY <1>2, <1>3, <1>4

LEMMA CodeFacts ==
    ASSUME AuthInv
    PROVE  /\ Len(codes) \in Nat /\ DOMAIN codes = 1 .. Len(codes)
           /\ \A i \in DOMAIN codes : /\ codes[i] \in CodeRow /\ codes[i].spent \in Nat
                                      /\ codes[i].seen \in Nat /\ codes[i].born \in Nat
                                      /\ codes[i].request \in RequestParams
  <1>1. codes \in Seq(CodeRow)
    BY DEF AuthInv, Typed
  <1>2. Len(codes) \in Nat /\ DOMAIN codes = 1 .. Len(codes)
    BY <1>1
  <1>3. \A i \in 1 .. Len(codes) : codes[i] \in CodeRow
    BY <1>1, <1>2
  <1>4. \A c \in CodeRow : /\ c.spent \in Nat /\ c.seen \in Nat /\ c.born \in Nat
                           /\ c.request \in RequestParams
    BY DEF CodeRow
  <1> QED
    BY <1>2, <1>3, <1>4

LEMMA RowTyped ==
    ASSUME NEW x,
           x = [at |-> x.at, request |-> x.request, first |-> x.first, base |-> x.base,
                given |-> x.given, skipped |-> x.skipped, client |-> x.client,
                seen |-> x.seen, session |-> x.session,
                time |-> x.time, covered |-> x.covered, tries |-> x.tries, spent |-> x.spent],
           x.at \in Places, x.request \in RequestParams \cup {Null},
           x.first \in RequestParams \cup {Null}, x.base \in Nat, x.given \in Nat,
           x.skipped \in SUBSET Pages,
           x.client \in ClientRow \cup {Null}, x.seen \in Nat,
           x.session \in SessionRow \cup {Null}, x.time \in Nat, x.covered \in BOOLEAN,
           x.tries \in SUBSET Nat, x.spent \in Nat
    PROVE  x \in TabRow
  BY DEF TabRow

LEMMA EndedRow ==
    ASSUME NEW x, x = [Blank EXCEPT !.at = "done"] PROVE x \in TabRow /\ TabOK(x) /\ x.spent = 0
  <1>1. x = [at |-> "done", request |-> Null, first |-> Null, base |-> 0,
             given |-> 0, skipped |-> {}, client |-> Null, seen |-> 0, session |-> Null,
             time |-> 0, covered |-> FALSE, tries |-> {}, spent |-> 0]
    BY DEF Blank
  <1>3. /\ x.at = "done" /\ x.request = Null /\ x.first = Null /\ x.base = 0 /\ x.given = 0
        /\ x.skipped = {}
        /\ x.client = Null /\ x.seen = 0 /\ x.session = Null /\ x.time = 0 /\ x.covered = FALSE
        /\ x.tries = {} /\ x.spent = 0
    BY <1>1
  <1>2. x \in TabRow
    BY <1>1, <1>3, RowTyped DEF Places
  <1>4. TabOK(x)
    BY <1>3 DEF TabOK, Over, Faithful, Judged, Seated, Entitled, Marked, SeesClient, SignedIn, Asking
  <1> QED
    BY <1>2, <1>3, <1>4

\* The tab is on a page that will send it back with request r.
OnPage(t, r, page) == [Follow(t, r) EXCEPT !.at = page]

LEMMA FollowRow ==
    ASSUME AuthInv, NEW t \in Tabs, NEW r \in RequestParams, NEW page \in Places, NEW x,
           tab[t].at \notin Over, x = OnPage(t, r, page)
    PROVE  /\ x \in TabRow /\ x.at = page /\ x.request = r /\ x.first = tab[t].first
           /\ x.base = tab[t].base /\ x.given = tab[t].given /\ x.skipped = tab[t].skipped
           /\ x.spent = 0 /\ x.tries = {}
  <1>1. x = [at |-> page, request |-> r, first |-> tab[t].first, base |-> tab[t].base,
             given |-> tab[t].given, skipped |-> tab[t].skipped, client |-> Null, seen |-> 0,
             session |-> Null, time |-> 0, covered |-> FALSE, tries |-> {}, spent |-> 0]
    BY DEF OnPage, Follow, Blank
  <1>2. /\ x.at = page /\ x.request = r /\ x.first = tab[t].first /\ x.base = tab[t].base
        /\ x.given = tab[t].given /\ x.skipped = tab[t].skipped /\ x.client = Null /\ x.seen = 0
        /\ x.session = Null /\ x.time = 0 /\ x.covered = FALSE /\ x.tries = {} /\ x.spent = 0
    BY <1>1
  <1>3. /\ tab[t].first \in RequestParams /\ tab[t].base \in Nat /\ tab[t].given \in Nat
        /\ tab[t].skipped \in SUBSET Pages
    BY TabFields
  <1>4. x \in TabRow
    BY <1>1, <1>2, <1>3, RowTyped
  <1> QED
    BY <1>2, <1>4

-----------------------------------------------------------------------------
(* Steps and what they leave alone.                                        *)

\* Markers are added or spent, approvals and sign-ins are added, and the client
\* changes only with an edit.
Grow ==
    /\ logins \in Nat /\ logins' \in Nat /\ logins <= logins'
    /\ edits \in Nat /\ edits' \in Nat /\ edits <= edits'
    /\ approved \subseteq approved'
    /\ client # Null => client' # Null /\ (edits' = edits => client' = client)
    /\ DOMAIN markers \subseteq DOMAIN markers'
    /\ \A i \in DOMAIN markers :
           /\ markers'[i].request = markers[i].request /\ markers'[i].scopes = markers[i].scopes
           /\ markers'[i].session = markers[i].session /\ markers'[i].expires = markers[i].expires
           /\ markers[i].spent => markers'[i].spent

LEMMA TabKept ==
    ASSUME Grow, NEW x \in TabRow, TabOK(x) PROVE TabOK(x)'
  <1>1. /\ Faithful(x) /\ Judged(x) /\ Seated(x) /\ Entitled(x) /\ Marked(x)
        /\ x.at \in Over => x.first = Null /\ x.given = 0 /\ x.spent = 0 /\ x.tries = {}
        /\ x.base \in Nat /\ x.seen \in Nat
    BY DEF TabOK, TabRow
  <1>2. Covered(x.request) => Covered(x.request)'
    BY DEF Covered, Grow
  <1>3. Faithful(x)'
    BY <1>1 DEF Faithful, Grow
  <1>4. Judged(x)'
    <2> SUFFICES ASSUME x.at \in SeesClient
                 PROVE  /\ client' # Null /\ x.seen <= edits'
                        /\ x.seen = edits' => Permits(x.request)'
      BY <1>1 DEF Judged
    <2>1. client # Null /\ x.seen <= edits /\ (x.seen = edits => Permits(x.request))
      BY <1>1 DEF Judged
    <2>2. client' # Null /\ x.seen <= edits'
      BY <1>1, <2>1 DEF Grow
    <2>3. ASSUME x.seen = edits' PROVE Permits(x.request)'
      <3>1. x.seen = edits /\ client' = client
        BY <1>1, <2>1, <2>3 DEF Grow
      <3> QED
        BY <2>1, <3>1 DEF Permits
    <2> QED
      BY <2>2, <2>3
  <1>5. Seated(x)' /\ Entitled(x)'
    BY <1>1, <1>2 DEF Seated, Entitled
  <1>6. Marked(x)'
    BY <1>1 DEF Marked, Grow, Spoilt
  <1> QED
    BY <1>1, <1>3, <1>4, <1>5, <1>6 DEF TabOK

LEMMA CodeKept ==
    ASSUME Grow, NEW c \in CodeRow, CodeOK(c), c.live /\ Permits(c.request) => Permits(c.request)'
    PROVE  CodeOK(c)'
  BY DEF CodeOK, Grow, Covered

\* One tab moves to a row that is sound in the new state.
LEMMA TabMoves ==
    ASSUME AuthInv, Grow, NEW t \in Tabs, NEW row \in TabRow, tab' = [tab EXCEPT ![t] = row],
           TabOK(row)'
    PROVE  /\ tab' \in [Tabs -> TabRow]
           /\ \A u \in Tabs : TabOK(tab[u])'
           /\ tab'[t] = row /\ \A u \in Tabs \ {t} : tab'[u] = tab[u]
  <1>1. tab \in [Tabs -> TabRow]
    BY DEF AuthInv, Typed
  <1>2. tab' \in [Tabs -> TabRow] /\ tab'[t] = row /\ \A u \in Tabs \ {t} : tab'[u] = tab[u]
    BY <1>1
  <1>3. ASSUME NEW u \in Tabs \ {t} PROVE TabOK(tab[u])'
    <2>1. PICK x : x = tab[u]
      OBVIOUS
    <2>2. x \in TabRow /\ TabOK(x) /\ tab'[u] = x
      BY <1>1, <1>2, <2>1 DEF AuthInv
    <2>3. TabOK(x)'
      BY <2>2, TabKept
    <2> QED
      BY <2>2, <2>3
  <1>4. TabOK(tab[t])'
    BY <1>2
  <1> QED
    BY <1>2, <1>3, <1>4

\* One tab moves, to a row that has spent nothing, and nothing else changes.
LEMMA OnlyTab ==
    ASSUME AuthInv, NEW t \in Tabs, NEW row \in TabRow, tab' = [tab EXCEPT ![t] = row],
           TabOK(row), row.spent = 0,
           UNCHANGED <<client, templates, edits, session, logins, grants, approved, markers,
                       codes, ticks>>
    PROVE  AuthInv'
  <1>1. Grow
    BY DEF Grow, AuthInv, Typed
  <1>2. TabOK(row)'
    BY <1>1, TabKept
  <1>3. /\ tab' \in [Tabs -> TabRow] /\ \A u \in Tabs : TabOK(tab[u])'
        /\ tab'[t] = row /\ \A u \in Tabs \ {t} : tab'[u] = tab[u]
    BY <1>1, <1>2, TabMoves
  <1>4. Typed' /\ Shared'
    BY <1>3 DEF AuthInv, Typed, Shared, Assignable
  <1>5. SpentApart'
    BY <1>3 DEF AuthInv, SpentApart
  <1>6. \A i \in DOMAIN codes' : CodeOK(codes[i])'
    BY DEF AuthInv, CodeOK, Covered, Permits
  <1> QED
    BY <1>3, <1>4, <1>5, <1>6 DEF AuthInv

LEMMA EndRow ==
    ASSUME NEW t \in Tabs, End(t)
    PROVE  \E row \in TabRow : tab' = [tab EXCEPT ![t] = row] /\ TabOK(row) /\ row.spent = 0
  <1>1. PICK row : row = [Blank EXCEPT !.at = "done"]
    OBVIOUS
  <1>2. tab' = [tab EXCEPT ![t] = row]
    BY <1>1 DEF End
  <1>3. row \in TabRow /\ TabOK(row) /\ row.spent = 0
    BY <1>1, EndedRow
  <1> QED
    BY <1>2, <1>3

LEMMA EndStep ==
    ASSUME AuthInv, NEW t \in Tabs, End(t),
           UNCHANGED <<client, templates, edits, session, logins, grants, approved, markers,
                       codes, ticks>>
    PROVE  AuthInv'
  BY EndRow, OnlyTab

\* The way to a page, with a request that is as good as the tab's.
LEMMA DemandRow ==
    ASSUME AuthInv, NEW t \in Tabs, NEW page \in {"login_page", "consent_page"}, NEW done,
           Demand(t, page, ReturnTo(tab[t].request, done)), tab[t].at \in SeesClient,
           page = "login_page" => done = "login",
           page = "consent_page" => done = "consent" /\ tab[t].at \in SignedIn
    PROVE  \E row \in TabRow : tab' = [tab EXCEPT ![t] = row] /\ TabOK(row) /\ row.spent = 0
  <1>0. tab[t].at \notin Over /\ TabOK(tab[t]) /\ tab[t].request \in RequestParams
    BY TabFields DEF SeesClient, Over
  <1>1. CASE "none" \in tab[t].request.prompt
    BY <1>1, EndRow DEF Demand
  <1>2. CASE "none" \notin tab[t].request.prompt
    <2>1. PICK r : r = ReturnTo(tab[t].request, done)
      OBVIOUS
    <2>2. PICK row : row = OnPage(t, r, page)
      OBVIOUS
    <2>3. tab' = [tab EXCEPT ![t] = row]
      BY <1>2, <2>1, <2>2 DEF Demand, OnPage
    <2>4. /\ r \in RequestParams /\ r.prompt = tab[t].request.prompt \ {done}
          /\ ScopesOf(r) = ScopesOf(tab[t].request)
          /\ done \notin tab[t].request.prompt => r = tab[t].request
      BY <1>0, <2>1, ReturnToFacts
    <2>5. /\ row \in TabRow /\ row.at = page /\ row.request = r /\ row.first = tab[t].first
          /\ row.base = tab[t].base /\ row.given = tab[t].given /\ row.skipped = tab[t].skipped
          /\ row.spent = 0 /\ row.tries = {}
      <3>1. page \in Places
        BY DEF Places
      <3> QED
        BY <1>0, <2>2, <2>4, <3>1, FollowRow
    <2>6. /\ Faithful(tab[t]) /\ Judged(tab[t]) /\ Seated(tab[t]) /\ Marked(tab[t])
      BY <1>0 DEF TabOK
    <2>7. page = "consent_page" \/ row.given # 0 => r.prompt = {}
      <3>1. CASE row.given # 0
        BY <2>4, <2>5, <2>6, <3>1 DEF Seated
      <3>2. CASE page = "consent_page"
        <4>1. /\ tab[t].request.prompt \subseteq {"none", "login", "consent"}
              /\ "login" \notin tab[t].request.prompt
          BY <2>6, <3>2 DEF Judged, Seated
        <4> QED
          BY <1>2, <2>4, <3>2, <4>1
      <3> QED
        BY <3>1, <3>2
    <2>8. Faithful(row)
      <3>1. /\ tab[t].first \in RequestParams
            /\ tab[t].request.prompt \subseteq tab[t].first.prompt
            /\ tab[t].first.prompt \subseteq tab[t].request.prompt \cup {"login", "consent"}
            /\ tab[t].base <= logins
            /\ "login" \in tab[t].first.prompt /\ "login" \notin tab[t].request.prompt
                   => tab[t].base < logins \/ "login_page" \in tab[t].skipped
            /\ "consent" \in tab[t].first.prompt /\ "consent" \notin tab[t].request.prompt
                   => tab[t].given # 0 \/ "consent_page" \in tab[t].skipped
        BY <1>0, <2>6 DEF Faithful, SeesClient, Asking
      <3>2. "none" \notin tab[t].first.prompt
        BY <1>2, <3>1
      <3>3. page = "consent_page" => page \in Asking
        BY DEF Asking
      <3> QED
        BY <2>4, <2>5, <3>1, <3>2, <3>3 DEF Faithful
    <2>9. Judged(row) /\ Entitled(row)
      BY <2>5 DEF Judged, Entitled, SeesClient
    <2>10. Seated(row)
      BY <2>5, <2>7 DEF Seated, SignedIn, Asking
    <2>11. Marked(row)
      <3>1. ASSUME row.given # 0 PROVE r = tab[t].request
        BY <2>4, <2>5, <2>6, <3>1 DEF Seated
      <3> QED
        BY <2>5, <2>6, <3>1 DEF Marked
    <2>12. TabOK(row)
      BY <2>5, <2>8, <2>9, <2>10, <2>11 DEF TabOK, Over
    <2> QED
      BY <2>3, <2>5, <2>12
  <1> QED
    BY <1>1, <1>2

LEMMA DemandStep ==
    ASSUME AuthInv, NEW t \in Tabs, NEW page \in {"login_page", "consent_page"}, NEW done,
           Demand(t, page, ReturnTo(tab[t].request, done)), tab[t].at \in SeesClient,
           page = "login_page" => done = "login",
           page = "consent_page" => done = "consent" /\ tab[t].at \in SignedIn,
           UNCHANGED <<client, templates, edits, session, logins, grants, approved, markers,
                       codes, ticks>>
    PROVE  AuthInv'
  BY DemandRow, OnlyTab

LEMMA OpenStep ==
    ASSUME AuthInv, NEW t \in Tabs, NEW r \in AuthorizeRequests, Open(t, r) PROVE AuthInv'
  <1>1. PICK row : row = [Blank EXCEPT !.at = "authorize", !.request = r, !.first = r,
                                       !.base = logins]
    OBVIOUS
  <1>2. tab' = [tab EXCEPT ![t] = row]
    BY <1>1 DEF Open
  <1>3. /\ row.at = "authorize" /\ row.request = r /\ row.first = r /\ row.base = logins
        /\ row.given = 0 /\ row.skipped = {} /\ row.client = Null /\ row.seen = 0 /\ row.session = Null
        /\ row.time = 0 /\ row.covered = FALSE /\ row.tries = {} /\ row.spent = 0
    BY <1>1 DEF Blank
  <1>4. r \in RequestParams /\ logins \in Nat
    BY RequestsAssumption DEF AuthInv, Typed
  <1>5. row \in TabRow
    <2>1. row = [at |-> "authorize", request |-> r, first |-> r, base |-> logins, given |-> 0,
                 skipped |-> {},
                 client |-> Null, seen |-> 0, session |-> Null, time |-> 0, covered |-> FALSE,
                 tries |-> {}, spent |-> 0]
      BY <1>1 DEF Blank
    <2> QED
      BY <1>3, <1>4, <2>1, RowTyped DEF Places
  <1>6. TabOK(row)
    BY <1>3, <1>4 DEF TabOK, Over, Faithful, Judged, Seated, Entitled, Marked, SeesClient,
                      SignedIn, Asking
  <1> QED
    BY <1>2, <1>3, <1>5, <1>6, OnlyTab DEF Open, adminVars, userVars, consentVars

LEMMA AuthorizeLoadStep == ASSUME AuthInv, NEW t \in Tabs, AuthorizeLoad(t) PROVE AuthInv'
  <1> DEFINE refused == \/ client = Null
                        \/ tab[t].request.flaw \in {"duplicate", "max_age"}
                        \/ tab[t].request.uri \notin client.uris
                        \/ ~client.active
                        \/ ErrorOf(tab[t].request, client) # "none"
  <1>1. /\ tab[t].at = "authorize"
        /\ UNCHANGED <<client, templates, edits, session, logins, grants, approved, markers,
                       codes, ticks>>
    BY DEF AuthorizeLoad, adminVars, userVars, consentVars
  <1>2. CASE refused
    BY <1>1, <1>2, EndStep DEF AuthorizeLoad
  <1>3. CASE ~refused
    <2>1. PICK x : x = tab[t]
      OBVIOUS
    <2>2. /\ x \in TabRow /\ TabOK(x) /\ x.at = "authorize" /\ x.request \in RequestParams
          /\ client \in ClientRow /\ edits \in Nat
      BY <1>1, <1>3, <2>1, TabFields DEF Over, AuthInv, Typed
    <2>3. Permits(x.request) /\ x.request.prompt \subseteq {"none", "login", "consent"}
      BY <1>3, <2>1, <2>2, ErrorNone DEF Permits
    <2>4. PICK row : row = [x EXCEPT !.at = "session", !.client = client, !.seen = edits]
      OBVIOUS
    <2>5. /\ row \in TabRow /\ row.at = "session" /\ row.client = client /\ row.seen = edits
          /\ row.request = x.request /\ row.first = x.first /\ row.base = x.base
          /\ row.given = x.given /\ row.skipped = x.skipped /\ row.tries = x.tries
          /\ row.spent = x.spent
      BY <2>2, <2>4 DEF TabRow, Places
    <2>6. tab' = [tab EXCEPT ![t] = row]
      BY <1>1, <1>3, <2>1, <2>4 DEF AuthorizeLoad, AuthInv, Typed
    <2>7. x.spent = 0 /\ client # Null
      BY <1>3, <2>2 DEF TabOK, Marked
    <2>8. TabOK(row)
      BY <2>2, <2>3, <2>5, <2>7 DEF TabOK, Over, Faithful, Judged, Seated, Entitled, Marked,
                                   SeesClient, SignedIn, Asking
    <2> QED
      BY <1>1, <2>5, <2>6, <2>7, <2>8, OnlyTab
  <1> QED
    BY <1>2, <1>3

LEMMA AuthorizeSessionStep == ASSUME AuthInv, NEW t \in Tabs, AuthorizeSession(t) PROVE AuthInv'
  <1>1. /\ tab[t].at = "session"
        /\ UNCHANGED <<client, templates, edits, session, logins, grants, approved, markers,
                       codes, ticks>>
    BY DEF AuthorizeSession, adminVars, userVars, consentVars
  <1>2. PICK x : x = tab[t]
    OBVIOUS
  <1>3. /\ x \in TabRow /\ TabOK(x) /\ x.at = "session" /\ x.request \in RequestParams
        /\ x.at \in SeesClient /\ logins \in Nat /\ ticks \in Nat /\ x.base \in Nat
    BY <1>1, <1>2, TabFields DEF Over, SeesClient, AuthInv, Typed
  <1>4. CASE Demand(t, "login_page", ReturnTo(tab[t].request, "login"))
    BY <1>1, <1>2, <1>3, <1>4, DemandStep
  <1>5. CASE "login" \notin tab[t].request.prompt /\ Demand(t, "login_page", tab[t].request)
    <2>1. ReturnTo(tab[t].request, "login") = tab[t].request
      BY <1>2, <1>3, <1>5, ReturnToFacts
    <2> QED
      BY <1>4, <1>5, <2>1
  <1>6. CASE /\ session # Null /\ "login" \notin tab[t].request.prompt
             /\ tab' = [tab EXCEPT ![t].at = "consent", ![t].time = ticks, ![t].session = session]
    <2>1. PICK row : row = [x EXCEPT !.at = "consent", !.time = ticks, !.session = session]
      OBVIOUS
    <2>2. session \in SessionRow /\ session.id = logins
      BY <1>6 DEF AuthInv, Typed, Shared
    <2>3. /\ row \in TabRow /\ row.at = "consent" /\ row.client = x.client /\ row.seen = x.seen
          /\ row.request = x.request /\ row.first = x.first /\ row.base = x.base
          /\ row.session = session
          /\ row.given = x.given /\ row.skipped = x.skipped /\ row.tries = x.tries
          /\ row.spent = x.spent
      BY <1>3, <2>1, <2>2 DEF TabRow, Places
    <2>4. tab' = [tab EXCEPT ![t] = row]
      BY <1>2, <1>6, <2>1 DEF AuthInv, Typed
    <2>5. x.spent = 0
      BY <1>3 DEF TabOK, Marked
    <2>6. "login" \in x.first.prompt => x.base < logins \/ "login_page" \in x.skipped
      BY <1>2, <1>3, <1>6 DEF TabOK, Faithful, Over
    <2>7. TabOK(row)
      BY <1>2, <1>3, <1>6, <2>2, <2>3, <2>5, <2>6
      DEF TabOK, Over, Faithful, Judged, Seated, Entitled, Marked, SeesClient, SignedIn, Asking
    <2> QED
      BY <1>1, <2>3, <2>4, <2>5, <2>7, OnlyTab
  <1> QED
    BY <1>4, <1>5, <1>6 DEF AuthorizeSession

LEMMA AuthorizeConsentStep == ASSUME AuthInv, NEW t \in Tabs, AuthorizeConsent(t) PROVE AuthInv'
  <1>1. /\ tab[t].at = "consent"
        /\ UNCHANGED <<client, templates, edits, session, logins, grants, approved, markers,
                       codes, ticks>>
    BY DEF AuthorizeConsent, adminVars, userVars, consentVars
  <1>2. PICK x : x = tab[t]
    OBVIOUS
  <1>3. /\ x \in TabRow /\ TabOK(x) /\ x.at = "consent" /\ x.request \in RequestParams
        /\ x.at \in SeesClient /\ x.at \in SignedIn
    BY <1>1, <1>2, TabFields DEF Over, SeesClient, SignedIn
  <1>4. HasConsent(x.request) => Covered(x.request)
    BY DEF HasConsent, Covered, AuthInv, Shared
  <1>5. x.spent = 0
    BY <1>3 DEF TabOK, Marked
  <1>6. CASE tab[t].request.prompt = {} /\ tab' = [tab EXCEPT ![t].at = "select",
                                                    ![t].covered = HasConsent(tab[t].request)]
    <2>0. PICK has \in BOOLEAN : has = HasConsent(x.request)
      BY DEF HasConsent
    <2>1. PICK row : row = [x EXCEPT !.at = "select", !.covered = has]
      OBVIOUS
    <2>3. /\ row \in TabRow /\ row.at = "select" /\ row.client = x.client /\ row.seen = x.seen
          /\ row.request = x.request /\ row.first = x.first /\ row.base = x.base
          /\ row.session = x.session /\ (row.covered <=> has)
          /\ row.given = x.given /\ row.skipped = x.skipped /\ row.tries = x.tries
          /\ row.spent = x.spent
      BY <1>3, <2>1 DEF TabRow, Places
    <2>4. tab' = [tab EXCEPT ![t] = row]
      BY <1>2, <1>6, <2>0, <2>1 DEF AuthInv, Typed
    <2>5. row.covered => Covered(row.request)
      BY <1>4, <2>0, <2>3
    <2>7. TabOK(row)
      BY <1>2, <1>3, <1>5, <1>6, <2>3, <2>5
      DEF TabOK, Over, Faithful, Judged, Seated, Entitled, Marked, SeesClient, SignedIn, Asking
    <2> QED
      BY <1>1, <1>5, <2>3, <2>4, <2>7, OnlyTab
  <1>7. CASE Ask(t)
    BY <1>1, <1>2, <1>3, <1>7, DemandStep DEF Ask
  <1>8. CASE /\ ~AlwaysAsks(tab[t].client) /\ "consent" \notin tab[t].request.prompt
             /\ HasConsent(tab[t].request) /\ Move(t, "insert")
    <2>1. PICK row : row = [x EXCEPT !.at = "insert"]
      OBVIOUS
    <2>3. /\ row \in TabRow /\ row.at = "insert" /\ row.client = x.client /\ row.seen = x.seen
          /\ row.request = x.request /\ row.first = x.first /\ row.base = x.base
          /\ row.session = x.session
          /\ row.given = x.given /\ row.skipped = x.skipped /\ row.tries = x.tries
          /\ row.spent = x.spent
      BY <1>3, <2>1 DEF TabRow, Places
    <2>4. tab' = [tab EXCEPT ![t] = row]
      BY <1>2, <1>8, <2>1 DEF AuthInv, Typed, Move
    <2>5. x.client.policy # "always_required" /\ Covered(x.request)
      BY <1>2, <1>4, <1>8 DEF AlwaysAsks
    <2>7. TabOK(row)
      BY <1>2, <1>3, <1>5, <1>8, <2>3, <2>5
      DEF TabOK, Over, Faithful, Judged, Seated, Entitled, Marked, SeesClient, SignedIn, Asking
    <2> QED
      BY <1>1, <1>5, <2>3, <2>4, <2>7, OnlyTab
  <1> QED
    BY <1>6, <1>7, <1>8 DEF AuthorizeConsent

LEMMA ConsumeSelectStep == ASSUME AuthInv, NEW t \in Tabs, ConsumeSelect(t) PROVE AuthInv'
  <1>1. /\ tab[t].at = "select"
        /\ UNCHANGED <<client, templates, edits, session, logins, grants, approved, markers,
                       codes, ticks>>
    BY DEF ConsumeSelect, adminVars, userVars, consentVars
  <1>2. PICK x : x = tab[t]
    OBVIOUS
  <1>3. /\ x \in TabRow /\ TabOK(x) /\ x.at = "select" /\ x.request \in RequestParams
        /\ x.at \in SeesClient /\ x.at \in SignedIn /\ x.time \in Nat
    BY <1>1, <1>2, TabFields DEF Over, SeesClient, SignedIn
  <1>4. x.spent = 0
    BY <1>3 DEF TabOK, Marked
  <1>5. CASE Spendable(t) = {}
    BY <1>1, <1>2, <1>3, <1>5, DemandStep DEF Ask, ConsumeSelect
  <1>6. CASE Spendable(t) # {}
    <2>0. PICK some : some = Spendable(t)
      OBVIOUS
    <2>1. PICK row : row = [x EXCEPT !.at = "consume", !.tries = some]
      OBVIOUS
    <2>2. some \subseteq DOMAIN markers /\ some \subseteq Nat
      BY <2>0, MarkerFacts DEF Spendable
    <2>3. /\ row \in TabRow /\ row.at = "consume" /\ row.client = x.client /\ row.seen = x.seen
          /\ row.request = x.request /\ row.first = x.first /\ row.base = x.base
          /\ row.session = x.session /\ row.covered = x.covered /\ row.time = x.time
          /\ row.given = x.given /\ row.skipped = x.skipped /\ row.tries = some /\ row.spent = x.spent
      BY <1>3, <2>1, <2>2 DEF TabRow, Places
    <2>4. tab' = [tab EXCEPT ![t] = row]
      BY <1>2, <1>6, <2>0, <2>1 DEF AuthInv, Typed, ConsumeSelect
    <2>5. ASSUME x.given # 0 PROVE x.given \in some \/ Spoilt(x)
      <3>1. /\ x.given \in DOMAIN markers /\ markers[x.given].request = x.request
            /\ markers[x.given].scopes = ScopesOf(x.request)
        BY <1>3, <2>5 DEF TabOK, Marked
      <3>2. markers[x.given].expires \in Nat
        BY <3>1, MarkerFacts
      <3> QED
        BY <1>2, <1>3, <2>0, <3>1, <3>2 DEF Spendable, Spoilt
    <2>6. Marked(row)
      BY <1>3, <1>4, <2>2, <2>3, <2>5 DEF TabOK, Marked, Spoilt
    <2>7. TabOK(row)
      BY <1>3, <1>4, <2>3, <2>6
      DEF TabOK, Over, Faithful, Judged, Seated, Entitled, SeesClient, SignedIn, Asking
    <2> QED
      BY <1>1, <1>4, <2>3, <2>4, <2>7, OnlyTab
  <1> QED
    BY <1>5, <1>6

\* One tab moves, to a row that has spent nothing, and no code is touched.
LEMMA OneTab ==
    ASSUME AuthInv, Grow, NEW t \in Tabs, NEW row \in TabRow, tab' = [tab EXCEPT ![t] = row],
           TabOK(row)', row.spent = 0, markers' \in Seq(MarkerRow),
           session' \in SessionRow \cup {Null}, session' # Null => session'.id = logins',
           grants' \subseteq approved', UNCHANGED <<client, templates, edits, codes, ticks>>
    PROVE  AuthInv'
  <1>1. /\ tab' \in [Tabs -> TabRow] /\ \A u \in Tabs : TabOK(tab[u])'
        /\ tab'[t] = row /\ \A u \in Tabs \ {t} : tab'[u] = tab[u]
    BY TabMoves
  <1>2. Typed' /\ Shared'
    BY <1>1 DEF AuthInv, Typed, Shared, Assignable, Grow
  <1>3. SpentApart'
    BY <1>1 DEF AuthInv, SpentApart
  <1>4. \A i \in DOMAIN codes' : CodeOK(codes[i])'
    <2> SUFFICES ASSUME NEW i \in DOMAIN codes PROVE CodeOK(codes[i])'
      OBVIOUS
    <2>1. PICK c : c = codes[i]
      OBVIOUS
    <2>2. c \in CodeRow /\ CodeOK(c) /\ codes'[i] = c
      BY <2>1, CodeFacts DEF AuthInv
    <2>3. Permits(c.request) => Permits(c.request)'
      BY DEF Permits
    <2>4. CodeOK(c)'
      BY <2>2, <2>3, CodeKept
    <2> QED
      BY <2>2, <2>4
  <1> QED
    BY <1>1, <1>2, <1>3, <1>4 DEF AuthInv

LEMMA IsSeq == ASSUME NEW S, NEW n \in Nat, NEW f \in [1 .. n -> S] PROVE f \in Seq(S)
  BY SeqDef

\* A marker is spent.
LEMMA MarkerSpent ==
    ASSUME AuthInv, NEW i \in DOMAIN markers, markers' = [markers EXCEPT ![i].spent = TRUE],
           UNCHANGED <<client, edits, logins, approved>>
    PROVE  /\ Grow /\ markers' \in Seq(MarkerRow) /\ DOMAIN markers' = DOMAIN markers
           /\ markers'[i].spent /\ \A j \in DOMAIN markers \ {i} : markers'[j] = markers[j]
  <1>1. /\ markers \in Seq(MarkerRow) /\ markers[i] \in MarkerRow
        /\ logins \in Nat /\ edits \in Nat
    BY MarkerFacts DEF AuthInv, Typed
  <1>2. PICK m : m = [markers[i] EXCEPT !.spent = TRUE]
    OBVIOUS
  <1>3. /\ m \in MarkerRow /\ m.spent /\ m.request = markers[i].request
        /\ m.scopes = markers[i].scopes /\ m.session = markers[i].session
        /\ m.expires = markers[i].expires
    BY <1>1, <1>2 DEF MarkerRow
  <1>4. markers' = [markers EXCEPT ![i] = m]
    BY <1>2
  <1>5. /\ markers' \in Seq(MarkerRow) /\ DOMAIN markers' = DOMAIN markers /\ markers'[i] = m
        /\ \A j \in DOMAIN markers \ {i} : markers'[j] = markers[j]
    <2>1. /\ DOMAIN markers' = DOMAIN markers /\ markers'[i] = m
          /\ \A j \in DOMAIN markers \ {i} : markers'[j] = markers[j]
      BY <1>1, <1>4
    <2>2. \A j \in 1 .. Len(markers) : markers'[j] \in MarkerRow
      BY <1>3, <2>1, MarkerFacts
    <2>3. markers' = [j \in 1 .. Len(markers) |-> markers'[j]] /\ Len(markers) \in Nat
      BY <1>4, MarkerFacts
    <2>4. markers' \in Seq(MarkerRow)
      <3>1. markers' \in [1 .. Len(markers) -> MarkerRow]
        BY <2>2, <2>3
      <3> QED
        BY <2>3, <3>1, IsSeq
    <2> QED
      BY <2>1, <2>4
  <1>6. Grow
    BY <1>1, <1>3, <1>5 DEF Grow
  <1> QED
    BY <1>3, <1>5, <1>6

LEMMA ConsumeUpdateStep == ASSUME AuthInv, NEW t \in Tabs, ConsumeUpdate(t) PROVE AuthInv'
  <1>1. PICK i \in tab[t].tries :
            /\ tab[t].at = "consume"
            /\ IF markers[i].spent
               THEN /\ UNCHANGED markers
                    /\ IF tab[t].tries = {i} THEN Ask(t)
                       ELSE tab' = [tab EXCEPT ![t].tries = tab[t].tries \ {i}]
               ELSE /\ markers' = [markers EXCEPT ![i].spent = TRUE]
                    /\ IF tab[t].covered
                       THEN tab' = [tab EXCEPT ![t].at = "insert", ![t].spent = i]
                       ELSE Ask(t)
            /\ UNCHANGED <<client, templates, edits, session, logins, grants, approved, codes,
                           ticks>>
    BY DEF ConsumeUpdate, adminVars, userVars
  <1>2. PICK x : x = tab[t]
    OBVIOUS
  <1>3. /\ x \in TabRow /\ TabOK(x) /\ x.at = "consume" /\ x.request \in RequestParams
        /\ x.at \in SeesClient /\ x.at \in SignedIn
    BY <1>1, <1>2, TabFields DEF Over, SeesClient, SignedIn
  <1>4. x.spent = 0 /\ i \in DOMAIN markers /\ i \in Nat /\ i # 0
    BY <1>1, <1>2, <1>3, MarkerFacts DEF TabOK, Marked
  <1>5. CASE markers[i].spent /\ tab[t].tries = {i}
    BY <1>1, <1>2, <1>3, <1>5, DemandStep DEF Ask
  <1>6. CASE markers[i].spent /\ tab[t].tries # {i}
    <2>1. PICK row : row = [x EXCEPT !.tries = x.tries \ {i}]
      OBVIOUS
    <2>2. /\ row \in TabRow /\ row.at = x.at /\ row.client = x.client /\ row.seen = x.seen
          /\ row.request = x.request /\ row.first = x.first /\ row.base = x.base
          /\ row.session = x.session /\ row.covered = x.covered /\ row.time = x.time
          /\ row.given = x.given /\ row.skipped = x.skipped /\ row.tries = x.tries \ {i}
          /\ row.spent = x.spent
      BY <1>3, <2>1 DEF TabRow, Places
    <2>3. tab' = [tab EXCEPT ![t] = row]
      BY <1>1, <1>2, <1>6, <2>1 DEF AuthInv, Typed
    <2>4. Marked(row)
      BY <1>3, <1>4, <1>6, <2>2 DEF TabOK, Marked, Spoilt
    <2>5. TabOK(row)
      BY <1>3, <1>4, <2>2, <2>4
      DEF TabOK, Over, Faithful, Judged, Seated, Entitled, SeesClient, SignedIn, Asking
    <2> QED
      BY <1>1, <1>4, <1>6, <2>2, <2>3, <2>5, OnlyTab
  <1>7. ASSUME ~markers[i].spent
        PROVE  /\ Grow /\ markers' \in Seq(MarkerRow) /\ DOMAIN markers' = DOMAIN markers
               /\ markers'[i].spent /\ \A j \in DOMAIN markers \ {i} : markers'[j] = markers[j]
    BY <1>1, <1>4, <1>7, MarkerSpent
  <1>8. CASE ~markers[i].spent /\ ~tab[t].covered
    <2>1. PICK row \in TabRow : tab' = [tab EXCEPT ![t] = row] /\ TabOK(row) /\ row.spent = 0
      BY <1>1, <1>2, <1>3, <1>8, DemandRow DEF Ask
    <2>2. TabOK(row)'
      BY <1>7, <1>8, <2>1, TabKept
    <2>3. /\ session' \in SessionRow \cup {Null} /\ (session' # Null => session'.id = logins')
          /\ grants' \subseteq approved'
      BY <1>1 DEF AuthInv, Typed, Shared
    <2> QED
      BY <1>1, <1>7, <1>8, <2>1, <2>2, <2>3, OneTab
  <1>9. CASE ~markers[i].spent /\ tab[t].covered
    <2>1. PICK row : row = [x EXCEPT !.at = "insert", !.spent = i]
      OBVIOUS
    <2>2. /\ row \in TabRow /\ row.at = "insert" /\ row.client = x.client /\ row.seen = x.seen
          /\ row.request = x.request /\ row.first = x.first /\ row.base = x.base
          /\ row.session = x.session /\ row.time = x.time
          /\ row.given = x.given /\ row.skipped = x.skipped /\ row.tries = x.tries /\ row.spent = i
      BY <1>3, <1>4, <2>1 DEF TabRow, Places
    <2>3. tab' = [tab EXCEPT ![t] = row]
      BY <1>1, <1>2, <1>9, <2>1 DEF AuthInv, Typed
    <2>4. TabOK(x)'
      BY <1>3, <1>7, <1>9, TabKept
    <2>5. x.covered
      BY <1>2, <1>9
    <2>6. Marked(row)'
      BY <1>3, <1>4, <1>7, <1>9, <2>2, <2>4 DEF TabOK, Marked
    <2>7. TabOK(row)'
      BY <1>3, <1>4, <2>2, <2>4, <2>5, <2>6
      DEF TabOK, Over, Faithful, Judged, Seated, Entitled, SeesClient, SignedIn, Asking
    <2>8. /\ tab' \in [Tabs -> TabRow] /\ \A u \in Tabs : TabOK(tab[u])'
          /\ tab'[t] = row /\ \A u \in Tabs \ {t} : tab'[u] = tab[u]
      BY <1>7, <1>9, <2>2, <2>3, <2>7, TabMoves
    <2>9. Typed' /\ Shared'
      BY <1>1, <1>7, <1>9, <2>8 DEF AuthInv, Typed, Shared, Assignable
    <2>10. SpentApart'
      <3>1. \A u \in Tabs : tab[u].spent # i
        BY <1>4, <1>9 DEF AuthInv, TabOK, Marked
      <3>2. \A j \in DOMAIN codes : codes[j].spent # i
        BY <1>4, <1>9 DEF AuthInv, CodeOK
      <3> QED
        BY <1>1, <2>2, <2>8, <3>1, <3>2 DEF AuthInv, SpentApart
    <2>11. \A j \in DOMAIN codes' : CodeOK(codes[j])'
      <3> SUFFICES ASSUME NEW j \in DOMAIN codes PROVE CodeOK(codes[j])'
        BY <1>1
      <3>1. PICK c : c = codes[j]
        OBVIOUS
      <3>2. c \in CodeRow /\ CodeOK(c) /\ codes'[j] = c
        BY <1>1, <3>1, CodeFacts DEF AuthInv
      <3>3. Permits(c.request) => Permits(c.request)'
        BY <1>1 DEF Permits
      <3>4. CodeOK(c)'
        BY <1>7, <1>9, <3>2, <3>3, CodeKept
      <3> QED
        BY <3>2, <3>4
    <2> QED
      BY <2>8, <2>9, <2>10, <2>11 DEF AuthInv
  <1> QED
    BY <1>5, <1>6, <1>8, <1>9

LEMMA InsertCodeStep == ASSUME AuthInv, NEW t \in Tabs, InsertCode(t) PROVE AuthInv'
  <1>1. /\ tab[t].at = "insert" /\ End(t)
        /\ UNCHANGED <<client, templates, edits, session, logins, grants, approved, markers,
                       ticks>>
    BY DEF InsertCode, adminVars, userVars
  <1>2. PICK x : x = tab[t]
    OBVIOUS
  <1>3. /\ x \in TabRow /\ TabOK(x) /\ x.at = "insert" /\ x.request \in RequestParams
        /\ x.first \in RequestParams /\ x.base \in Nat /\ x.given \in Nat /\ x.spent \in Nat
        /\ x.seen \in Nat /\ x.skipped \in SUBSET Pages
    BY <1>1, <1>2, TabFields DEF Over
  <1>4. x.session \in SessionRow /\ x.client \in ClientRow /\ client # Null
    BY <1>2, <1>3, TabFields DEF TabOK, Seated, Judged, SignedIn, SeesClient
  <1>5. x.client.policy \in Modes \cup {Null} /\ edits \in Nat
    BY <1>4 DEF ClientRow, AuthInv, Typed
  <1>6. PICK c : c = [request |-> x.request, first |-> x.first, base |-> x.base,
                      given |-> x.given, skipped |-> x.skipped, session |-> x.session,
                      policy |-> x.client.policy, spent |-> x.spent, seen |-> x.seen, born |-> edits, live |-> TRUE]
    OBVIOUS
  <1>7. codes' = Append(codes, c)
    BY <1>2, <1>6 DEF InsertCode
  <1>8. c \in CodeRow
    BY <1>3, <1>4, <1>5, <1>6 DEF CodeRow
  <1>9. /\ c.request = x.request /\ c.first = x.first /\ c.base = x.base /\ c.given = x.given
        /\ c.skipped = x.skipped
        /\ c.session = x.session /\ c.policy = x.client.policy /\ c.spent = x.spent
        /\ c.seen = x.seen /\ c.born = edits
    BY <1>6
  <1>10. CodeOK(c)
    <2>1. /\ "login" \in x.first.prompt => x.base < x.session.id \/ "login_page" \in x.skipped
          /\ x.client.policy = "always_required" => x.spent # 0
          /\ Covered(x.request) /\ x.seen <= edits
          /\ x.seen = edits => Permits(x.request)
          /\ x.spent # 0 => x.spent \in DOMAIN markers /\ markers[x.spent].spent
      BY <1>3 DEF TabOK, Seated, Judged, Entitled, Marked, SignedIn, SeesClient
    <2>2. "consent" \in x.first.prompt => x.given # 0 \/ "consent_page" \in x.skipped
      BY <1>3 DEF TabOK, Faithful, Entitled, Over, Asking
    <2> QED
      BY <1>9, <2>1, <2>2 DEF CodeOK
  <1>11. Grow
    BY <1>1 DEF Grow, AuthInv, Typed
  <1>12. PICK row \in TabRow : tab' = [tab EXCEPT ![t] = row] /\ TabOK(row) /\ row.spent = 0
    BY <1>1, EndRow
  <1>13. /\ tab' \in [Tabs -> TabRow] /\ \A u \in Tabs : TabOK(tab[u])'
         /\ tab'[t] = row /\ \A u \in Tabs \ {t} : tab'[u] = tab[u]
    <2>1. TabOK(row)'
      BY <1>11, <1>12, TabKept
    <2> QED
      BY <1>11, <1>12, <2>1, TabMoves
  <1>14. /\ codes' \in Seq(CodeRow) /\ Len(codes) \in Nat
         /\ DOMAIN codes = 1 .. Len(codes) /\ DOMAIN codes' = 1 .. Len(codes) + 1
         /\ codes'[Len(codes) + 1] = c
         /\ \A i \in DOMAIN codes : codes'[i] = codes[i] /\ codes[i] \in CodeRow
    BY <1>7, <1>8, CodeFacts, AppendProperties DEF AuthInv, Typed
  <1>15. Typed' /\ Shared'
    BY <1>1, <1>4, <1>13, <1>14 DEF AuthInv, Typed, Shared, Assignable
  <1>16. SpentApart'
    <2> DEFINE n == Len(codes) + 1
    <2>1. n \notin DOMAIN codes /\ DOMAIN codes' = DOMAIN codes \cup {n} /\ codes'[n] = c
      BY <1>14
    <2> HIDE DEF n
    <2>2. /\ \A i, j \in DOMAIN codes :
                 i # j /\ codes[i].spent # 0 => codes[i].spent # codes[j].spent
          /\ \A u, v \in Tabs : u # v /\ tab[u].spent # 0 => tab[u].spent # tab[v].spent
          /\ \A u \in Tabs, i \in DOMAIN codes : tab[u].spent # 0 => tab[u].spent # codes[i].spent
      BY DEF AuthInv, SpentApart
    <2>3. \A i, j \in DOMAIN codes' :
              i # j /\ codes'[i].spent # 0 => codes'[i].spent # codes'[j].spent
      BY <1>2, <1>9, <1>14, <2>1, <2>2
    <2>4. /\ \A u, v \in Tabs : u # v /\ tab'[u].spent # 0 => tab'[u].spent # tab'[v].spent
          /\ \A u \in Tabs, i \in DOMAIN codes' :
                 tab'[u].spent # 0 => tab'[u].spent # codes'[i].spent
      BY <1>2, <1>9, <1>12, <1>13, <1>14, <2>1, <2>2
    <2> QED
      BY <2>3, <2>4 DEF SpentApart
  <1>17. \A i \in DOMAIN codes' : CodeOK(codes[i])'
    <2>1. ASSUME NEW i \in DOMAIN codes' PROVE CodeOK(codes[i])'
      <3>1. PICK d : d = codes'[i]
        OBVIOUS
      <3>2. d \in CodeRow /\ CodeOK(d)
        <4>1. i = Len(codes) + 1 \/ i \in DOMAIN codes
          BY <1>14, <2>1
        <4> QED
          BY <1>8, <1>10, <1>14, <3>1, <4>1 DEF AuthInv
      <3>3. Permits(d.request) => Permits(d.request)'
        BY <1>1 DEF Permits
      <3>4. CodeOK(d)'
        BY <1>11, <3>2, <3>3, CodeKept
      <3> QED
        BY <3>1, <3>4
    <2> QED
      BY <2>1
  <1> QED
    BY <1>13, <1>15, <1>16, <1>17 DEF AuthInv

LEMMA AbandonStep == ASSUME AuthInv, NEW t \in Tabs, Abandon(t) PROVE AuthInv'
  BY EndStep DEF Abandon, adminVars, userVars, consentVars

LEMMA SubmitLoginStep ==
    ASSUME AuthInv, NEW t \in Tabs, NEW acr \in SessionAcrs, SubmitLogin(t, acr) PROVE AuthInv'
  <1>1. /\ tab[t].at = "login_page" /\ logins' = logins + 1
        /\ session' = [id |-> logins + 1, created |-> ticks, acr |-> acr]
        /\ UNCHANGED <<client, templates, edits, grants, approved, markers, codes, ticks>>
    BY DEF SubmitLogin, adminVars, consentVars
  <1>2. logins \in Nat /\ ticks \in Nat
    BY DEF AuthInv, Typed
  <1>3. Grow
    BY <1>1, <1>2 DEF Grow, AuthInv, Typed
  <1>4. /\ session' \in SessionRow \cup {Null} /\ (session' # Null => session'.id = logins')
        /\ grants' \subseteq approved' /\ markers' \in Seq(MarkerRow)
    BY <1>1, <1>2 DEF AuthInv, Typed, Shared, SessionRow
  <1>5. CASE End(t)
    <2>1. PICK row \in TabRow : tab' = [tab EXCEPT ![t] = row] /\ TabOK(row) /\ row.spent = 0
      BY <1>5, EndRow
    <2>2. TabOK(row)'
      BY <1>3, <2>1, TabKept
    <2> QED
      BY <1>1, <1>3, <1>4, <2>1, <2>2, OneTab
  <1>6. CASE tab' = [tab EXCEPT ![t] = Follow(t, tab[t].request)]
    <2>1. PICK x : x = tab[t]
      OBVIOUS
    <2>2. /\ x \in TabRow /\ TabOK(x) /\ x.at = "login_page" /\ x.request \in RequestParams
          /\ x.base \in Nat /\ tab[t].at \notin Over
      BY <1>1, <2>1, TabFields DEF Over
    <2>3. PICK row : row = OnPage(t, x.request, "authorize")
      OBVIOUS
    <2>4. tab' = [tab EXCEPT ![t] = row]
      <3>1. OnPage(t, x.request, "authorize") = Follow(t, x.request)
        BY DEF OnPage, Follow, Blank
      <3> QED
        BY <1>6, <2>1, <2>3, <3>1
    <2>5. /\ row \in TabRow /\ row.at = "authorize" /\ row.request = x.request
          /\ row.first = x.first /\ row.base = x.base /\ row.given = x.given
          /\ row.skipped = x.skipped /\ row.spent = 0
          /\ row.tries = {}
      BY <2>1, <2>2, <2>3, FollowRow DEF Places
    <2>6. TabOK(x)' /\ x.base < logins'
      BY <1>1, <1>2, <1>3, <2>2, TabKept DEF TabOK, Faithful, Over
    <2>7. TabOK(row)'
      BY <2>2, <2>5, <2>6
      DEF TabOK, Over, Faithful, Judged, Seated, Entitled, Marked, SeesClient, SignedIn, Asking
    <2> QED
      BY <1>1, <1>3, <1>4, <2>4, <2>5, <2>7, OneTab
  <1> QED
    BY <1>5, <1>6 DEF SubmitLogin

LEMMA SkipStep == ASSUME AuthInv, NEW t \in Tabs, Skip(t) PROVE AuthInv'
  <1>1. /\ tab[t].at \in Pages
        /\ UNCHANGED <<client, templates, edits, session, logins, grants, approved, markers,
                       codes, ticks>>
    BY DEF Skip, Pages, adminVars, userVars, consentVars
  <1>2. PICK x : x = tab[t]
    OBVIOUS
  <1>3. /\ x \in TabRow /\ TabOK(x) /\ x.at \in Pages /\ x.at \notin Over
        /\ x.request \in RequestParams /\ x.first \in RequestParams
    BY <1>1, <1>2, TabFields DEF Over, Pages
  <1>4. x.base \in Nat /\ x.given \in Nat /\ x.skipped \in SUBSET Pages
    BY <1>2, TabFields
  <1>5. PICK row : row = [Follow(t, tab[t].request) EXCEPT
                              !.skipped = tab[t].skipped \cup {tab[t].at}]
    OBVIOUS
  <1>6. row = [at |-> "authorize", request |-> x.request, first |-> x.first, base |-> x.base,
               given |-> x.given, skipped |-> x.skipped \cup {x.at}, client |-> Null, seen |-> 0,
               session |-> Null, time |-> 0, covered |-> FALSE, tries |-> {}, spent |-> 0]
    BY <1>2, <1>5 DEF Follow, Blank
  <1>7. /\ row.at = "authorize" /\ row.request = x.request /\ row.first = x.first
        /\ row.base = x.base /\ row.given = x.given /\ row.skipped = x.skipped \cup {x.at}
        /\ row.client = Null /\ row.seen = 0 /\ row.session = Null /\ row.time = 0
        /\ row.covered = FALSE /\ row.tries = {} /\ row.spent = 0
    BY <1>6
  <1>8. row \in TabRow
    BY <1>3, <1>4, <1>6, <1>7, RowTyped DEF Places
  <1>9. TabOK(row)
    BY <1>3, <1>7
    DEF TabOK, Over, Faithful, Judged, Seated, Entitled, Marked, SeesClient, SignedIn, Asking,
        Pages
  <1>10. tab' = [tab EXCEPT ![t] = row]
    BY <1>5 DEF Skip
  <1> QED
    BY <1>1, <1>7, <1>8, <1>9, <1>10, OnlyTab

LEMMA ApproveCheckStep == ASSUME AuthInv, NEW t \in Tabs, ApproveCheck(t) PROVE AuthInv'
  <1>1. /\ tab[t].at = "consent_page" /\ session # Null
        /\ tab' = [tab EXCEPT ![t].at = "grant", ![t].session = session, ![t].time = ticks]
        /\ UNCHANGED <<client, templates, edits, session, logins, grants, approved, markers,
                       codes, ticks>>
    BY DEF ApproveCheck, adminVars, userVars, consentVars
  <1>2. PICK x : x = tab[t]
    OBVIOUS
  <1>3. /\ x \in TabRow /\ TabOK(x) /\ x.at = "consent_page"
        /\ session \in SessionRow /\ ticks \in Nat
    BY <1>1, <1>2, TabFields DEF AuthInv, Typed
  <1>4. PICK row : row = [x EXCEPT !.at = "grant", !.session = session, !.time = ticks]
    OBVIOUS
  <1>5. /\ row \in TabRow /\ row.at = "grant" /\ row.client = x.client /\ row.seen = x.seen
        /\ row.request = x.request /\ row.first = x.first /\ row.base = x.base
        /\ row.session = session /\ row.given = x.given /\ row.skipped = x.skipped
        /\ row.tries = x.tries
        /\ row.spent = x.spent
    BY <1>3, <1>4 DEF TabRow, Places
  <1>6. tab' = [tab EXCEPT ![t] = row]
    BY <1>1, <1>2, <1>4 DEF AuthInv, Typed
  <1>7. x.spent = 0
    BY <1>3 DEF TabOK, Marked
  <1>8. TabOK(row)
    BY <1>1, <1>3, <1>5, <1>7
    DEF TabOK, Over, Faithful, Judged, Seated, Entitled, Marked, SeesClient, SignedIn, Asking
  <1> QED
    BY <1>1, <1>5, <1>6, <1>7, <1>8, OnlyTab

LEMMA CreateGrantStep == ASSUME AuthInv, NEW t \in Tabs, CreateGrant(t) PROVE AuthInv'
  <1>1. /\ tab[t].at = "grant" /\ Move(t, "marker")
        /\ grants' = grants \cup {ScopesOf(tab[t].request)}
        /\ approved' = approved \cup {ScopesOf(tab[t].request)}
        /\ UNCHANGED <<client, templates, edits, session, logins, markers, codes, ticks>>
    BY DEF CreateGrant, adminVars, userVars
  <1>2. PICK x : x = tab[t]
    OBVIOUS
  <1>3. x \in TabRow /\ TabOK(x) /\ x.at = "grant"
    BY <1>1, <1>2, TabFields
  <1>4. PICK row : row = [x EXCEPT !.at = "marker"]
    OBVIOUS
  <1>5. /\ row \in TabRow /\ row.at = "marker" /\ row.client = x.client /\ row.seen = x.seen
        /\ row.request = x.request /\ row.first = x.first /\ row.base = x.base
        /\ row.session = x.session /\ row.given = x.given /\ row.skipped = x.skipped
        /\ row.tries = x.tries
        /\ row.spent = x.spent
    BY <1>3, <1>4 DEF TabRow, Places
  <1>6. tab' = [tab EXCEPT ![t] = row]
    BY <1>1, <1>2, <1>4 DEF AuthInv, Typed, Move
  <1>7. x.spent = 0
    BY <1>3 DEF TabOK, Marked
  <1>8. TabOK(row)
    BY <1>3, <1>5, <1>7
    DEF TabOK, Over, Faithful, Judged, Seated, Entitled, Marked, SeesClient, SignedIn, Asking
  <1>9. Grow
    BY <1>1 DEF Grow, AuthInv, Typed
  <1>10. TabOK(row)'
    BY <1>5, <1>8, <1>9, TabKept
  <1>11. /\ session' \in SessionRow \cup {Null} /\ (session' # Null => session'.id = logins')
         /\ grants' \subseteq approved' /\ markers' \in Seq(MarkerRow)
    BY <1>1 DEF AuthInv, Typed, Shared
  <1> QED
    BY <1>1, <1>5, <1>6, <1>7, <1>9, <1>10, <1>11, OneTab

LEMMA CreateMarkerStep == ASSUME AuthInv, NEW t \in Tabs, CreateMarker(t) PROVE AuthInv'
  <1>1. /\ tab[t].at = "marker"
        /\ tab' = [tab EXCEPT ![t] = [Follow(t, tab[t].request) EXCEPT
                                          !.given = Len(markers) + 1]]
        /\ UNCHANGED <<client, templates, edits, session, logins, grants, approved, codes, ticks>>
    BY DEF CreateMarker, adminVars, userVars
  <1>2. PICK x : x = tab[t]
    OBVIOUS
  <1>3. /\ x \in TabRow /\ TabOK(x) /\ x.at = "marker" /\ x.request \in RequestParams
        /\ x.first \in RequestParams /\ x.base \in Nat /\ x.time \in Nat
        /\ x.session \in SessionRow /\ x.session.id \in Nat /\ x.skipped \in SUBSET Pages
    BY <1>1, <1>2, TabFields DEF Over, TabOK, Seated
  <1>4. PICK m : m = [session |-> x.session.id, request |-> x.request,
                      scopes |-> ScopesOf(x.request), created |-> x.time,
                      expires |-> x.time + MarkerTtl, spent |-> FALSE]
    OBVIOUS
  <1>5. m \in MarkerRow /\ m.request = x.request /\ m.scopes = ScopesOf(x.request)
    BY <1>3, <1>4, ScopesAreScopes, TtlAssumption DEF MarkerRow
  <1>6. markers' = Append(markers, m)
    BY <1>2, <1>4 DEF CreateMarker
  <1>7. PICK n : n = Len(markers) + 1
    OBVIOUS
  <1>8. /\ markers' \in Seq(MarkerRow) /\ n \in Nat /\ n # 0 /\ n \in DOMAIN markers'
        /\ DOMAIN markers \subseteq DOMAIN markers' /\ markers'[n] = m
        /\ \A i \in DOMAIN markers : markers'[i] = markers[i]
    <2>1. Len(markers) \in Nat /\ DOMAIN markers = 1 .. Len(markers) /\ markers \in Seq(MarkerRow)
      BY MarkerFacts DEF AuthInv, Typed
    <2> QED
      BY <1>5, <1>6, <1>7, <2>1, AppendProperties
  <1>9. Grow
    BY <1>1, <1>8 DEF Grow, AuthInv, Typed
  <1>10. PICK row : row = [Follow(t, tab[t].request) EXCEPT !.given = Len(markers) + 1]
    OBVIOUS
  <1>11. row = [at |-> "authorize", request |-> x.request, first |-> x.first, base |-> x.base,
                given |-> n, skipped |-> x.skipped, client |-> Null, seen |-> 0, session |-> Null,
                time |-> 0, covered |-> FALSE, tries |-> {}, spent |-> 0]
    BY <1>2, <1>7, <1>10 DEF Follow, Blank
  <1>12. /\ row.at = "authorize" /\ row.request = x.request /\ row.first = x.first
         /\ row.base = x.base /\ row.given = n /\ row.skipped = x.skipped /\ row.client = Null
         /\ row.seen = 0 /\ row.session = Null /\ row.time = 0 /\ row.covered = FALSE /\ row.tries = {}
         /\ row.spent = 0
    BY <1>11
  <1>13. row \in TabRow
    BY <1>3, <1>8, <1>11, <1>12, RowTyped DEF Places
  <1>14. tab' = [tab EXCEPT ![t] = row]
    BY <1>1, <1>10
  <1>15. TabOK(x)'
    BY <1>3, <1>9, TabKept
  <1>16. Marked(row)'
    BY <1>5, <1>8, <1>12 DEF Marked
  <1>17. TabOK(row)'
    BY <1>3, <1>8, <1>12, <1>15, <1>16
    DEF TabOK, Over, Faithful, Judged, Seated, Entitled, SeesClient, SignedIn, Asking
  <1>18. /\ session' \in SessionRow \cup {Null} /\ (session' # Null => session'.id = logins')
         /\ grants' \subseteq approved'
    BY <1>1 DEF AuthInv, Typed, Shared
  <1> QED
    BY <1>1, <1>8, <1>9, <1>12, <1>13, <1>14, <1>17, <1>18, OneTab

-----------------------------------------------------------------------------
(* Steps of the administrator, the user and the clock.                     *)

\* The codes are the same as far as the tabs can tell, and sound.
CodesSound ==
    /\ codes' \in Seq(CodeRow) /\ DOMAIN codes' = DOMAIN codes
    /\ \A i \in DOMAIN codes : codes'[i].spent = codes[i].spent
    /\ \A i \in DOMAIN codes : CodeOK(codes[i])'

\* No tab moves and the codes stay sound.
LEMMA NoTab ==
    ASSUME AuthInv, Grow, CodesSound, UNCHANGED <<tab, markers>>,
           client' \in ClientRow \cup {Null}, ticks' \in Nat,
           session' \in SessionRow \cup {Null}, Shared'
    PROVE  AuthInv'
  <1>1. Typed'
    BY DEF AuthInv, Typed, CodesSound, Grow
  <1>2. SpentApart'
    BY DEF AuthInv, SpentApart, CodesSound
  <1>3. ASSUME NEW u \in Tabs PROVE TabOK(tab[u])'
    <2>1. PICK x : x = tab[u]
      OBVIOUS
    <2>2. x \in TabRow /\ TabOK(x) /\ tab'[u] = x
      BY <2>1, TabFields
    <2>3. TabOK(x)'
      BY <2>2, TabKept
    <2> QED
      BY <2>2, <2>3
  <1> QED
    BY <1>1, <1>2, <1>3 DEF AuthInv, CodesSound

LEMMA CodesStay ==
    ASSUME AuthInv, Grow, codes' = codes,
           \A i \in DOMAIN codes : Permits(codes[i].request) => Permits(codes[i].request)'
    PROVE  CodesSound
  <1>1. codes \in Seq(CodeRow)
    BY DEF AuthInv, Typed
  <1>2. ASSUME NEW i \in DOMAIN codes PROVE CodeOK(codes[i])'
    <2>1. PICK c : c = codes[i]
      OBVIOUS
    <2>2. c \in CodeRow /\ CodeOK(c) /\ codes'[i] = c
      BY <2>1, CodeFacts DEF AuthInv
    <2>3. Permits(c.request) => Permits(c.request)'
      BY <2>1, <2>2
    <2>4. CodeOK(c)'
      BY <2>2, <2>3, CodeKept
    <2> QED
      BY <2>2, <2>4
  <1> QED
    BY <1>1, <1>2 DEF CodesSound

LEMMA CodesWithdrawn == ASSUME AuthInv, Grow, codes' = AllWithdrawn PROVE CodesSound
  <1>1. Len(codes) \in Nat /\ DOMAIN codes = 1 .. Len(codes)
    BY CodeFacts
  <1>2. ASSUME NEW i \in DOMAIN codes
        PROVE  codes'[i] \in CodeRow /\ codes'[i].spent = codes[i].spent /\ CodeOK(codes[i])'
    <2>1. PICK c : c = codes[i]
      OBVIOUS
    <2>2. c \in CodeRow /\ CodeOK(c)
      BY <2>1, CodeFacts DEF AuthInv
    <2>3. PICK d : d = [c EXCEPT !.live = FALSE]
      OBVIOUS
    <2>4. /\ d \in CodeRow /\ ~d.live /\ d.request = c.request /\ d.first = c.first
          /\ d.base = c.base /\ d.given = c.given /\ d.skipped = c.skipped /\ d.session = c.session
          /\ d.policy = c.policy /\ d.spent = c.spent /\ d.seen = c.seen /\ d.born = c.born
      BY <2>2, <2>3 DEF CodeRow
    <2>5. codes'[i] = d
      BY <2>1, <2>3 DEF AllWithdrawn, Withdrawn
    <2>6. CodeOK(d)
      BY <2>2, <2>4 DEF CodeOK
    <2>7. CodeOK(d)'
      BY <2>4, <2>6, CodeKept
    <2> QED
      BY <2>1, <2>4, <2>5, <2>7
  <1>3. codes' = [i \in DOMAIN codes |-> codes'[i]] /\ DOMAIN codes' = DOMAIN codes
    BY DEF AllWithdrawn
  <1>4. codes' \in [1 .. Len(codes) -> CodeRow]
    BY <1>1, <1>2, <1>3
  <1>5. codes' \in Seq(CodeRow)
    BY <1>1, <1>4, IsSeq
  <1> QED
    BY <1>2, <1>3, <1>5 DEF CodesSound

LEMMA QuietStep ==
    ASSUME AuthInv,
           \/ \E mode \in Modes : CreateTemplate(mode)
           \/ \E target, hint : EndSession(target, hint)
           \/ AuthorizeTick
           \/ UNCHANGED authorizeVars
    PROVE  AuthInv'
  <1>1. /\ UNCHANGED <<client, edits, logins, grants, approved, markers, codes, tab>>
        /\ templates \subseteq templates' /\ (session' = session \/ session' = Null)
        /\ ticks' \in {ticks, ticks + 1}
    BY DEF CreateTemplate, EndSession, AuthorizeTick, authorizeVars, adminVars, userVars, consentVars
  <1>2. Grow
    BY <1>1 DEF Grow, AuthInv, Typed
  <1>3. CodesSound
    BY <1>1, <1>2, CodesStay DEF Permits
  <1>4. Shared'
    BY <1>1 DEF AuthInv, Shared, Assignable
  <1>5. /\ client' \in ClientRow \cup {Null} /\ ticks' \in Nat
        /\ session' \in SessionRow \cup {Null}
    BY <1>1 DEF AuthInv, Typed
  <1> QED
    BY <1>1, <1>2, <1>3, <1>4, <1>5, NoTab

LEMMA CreateClientStep ==
    ASSUME AuthInv, NEW d \in Details, NEW policy \in Modes \cup {Null}, CreateClient(d, policy)
    PROVE  AuthInv'
  <1>1. /\ client = Null /\ policy \in Assignable
        /\ client' = [uris |-> d.uris, logout |-> d.logout, allowed |-> Saved(d),
                      grants |-> {"authorization_code", "refresh_token"},
                      policy |-> policy, active |-> TRUE]
        /\ UNCHANGED <<templates, edits, session, logins, grants, approved, markers, codes, tab,
                       ticks>>
    BY DEF CreateClient, userVars, consentVars
  <1>2. client' \in ClientRow /\ client'.policy = policy
    BY <1>1 DEF ClientRow
  <1>3. Grow
    BY <1>1 DEF Grow, AuthInv, Typed
  <1>4. codes = <<>>
    BY <1>1 DEF AuthInv, Shared
  <1>5. CodesSound
    BY <1>1, <1>3, <1>4, CodesStay
  <1>6. Shared'
    BY <1>1, <1>2, <1>4 DEF AuthInv, Shared, Assignable
  <1>7. ticks' \in Nat /\ session' \in SessionRow \cup {Null}
    BY <1>1 DEF AuthInv, Typed
  <1> QED
    BY <1>1, <1>2, <1>3, <1>5, <1>6, <1>7, NoTab

LEMMA UpdateClientStep ==
    ASSUME AuthInv, NEW d \in Details, NEW policy \in Modes \cup {Null}, UpdateClient(d, policy)
    PROVE  AuthInv'
  <1>1. /\ client # Null /\ policy \in Assignable /\ edits' = edits + 1
        /\ client' = [client EXCEPT !.uris = d.uris, !.logout = d.logout,
                                    !.allowed = Saved(d), !.policy = policy]
        /\ codes' = IF d.uris # client.uris \/ Saved(d) # client.allowed
                    THEN AllWithdrawn ELSE codes
        /\ UNCHANGED <<templates, session, logins, grants, approved, markers, tab, ticks>>
    BY DEF UpdateClient, userVars
  <1>2. client \in ClientRow /\ edits \in Nat /\ logins \in Nat
    BY <1>1 DEF AuthInv, Typed
  <1>3. /\ client' \in ClientRow /\ client'.policy = policy /\ client'.uris = d.uris
        /\ client'.allowed = Saved(d) /\ client'.active = client.active
    BY <1>1, <1>2 DEF ClientRow
  <1>4. client' # Null
    BY <1>3, ClientAssumption
  <1>5. Grow
    BY <1>1, <1>2, <1>4 DEF Grow
  <1>6. CodesSound
    <2>1. CASE codes' = AllWithdrawn
      BY <1>5, <2>1, CodesWithdrawn
    <2>2. CASE codes' = codes /\ d.uris = client.uris /\ Saved(d) = client.allowed
      BY <1>3, <1>5, <2>2, CodesStay DEF Permits
    <2> QED
      BY <1>1, <2>1, <2>2
  <1>7. Shared'
    BY <1>1, <1>3, <1>4 DEF AuthInv, Shared, Assignable
  <1>8. ticks' \in Nat /\ session' \in SessionRow \cup {Null}
    BY <1>1 DEF AuthInv, Typed
  <1> QED
    BY <1>1, <1>3, <1>5, <1>6, <1>7, <1>8, NoTab

LEMMA UpdateClientStatusStep ==
    ASSUME AuthInv, NEW active \in BOOLEAN, UpdateClientStatus(active) PROVE AuthInv'
  <1>1. /\ client # Null /\ edits' = edits + 1
        /\ client' = [client EXCEPT !.active = active]
        /\ codes' = IF active THEN codes ELSE AllWithdrawn
        /\ UNCHANGED <<templates, session, logins, grants, approved, markers, tab, ticks>>
    BY DEF UpdateClientStatus, userVars
  <1>2. client \in ClientRow /\ edits \in Nat /\ logins \in Nat
    BY <1>1 DEF AuthInv, Typed
  <1>3. /\ client' \in ClientRow /\ client'.policy = client.policy /\ client'.uris = client.uris
        /\ client'.allowed = client.allowed /\ (client'.active <=> active)
    BY <1>1, <1>2 DEF ClientRow
  <1>4. client' # Null
    BY <1>3, ClientAssumption
  <1>5. Grow
    BY <1>1, <1>2, <1>4 DEF Grow
  <1>6. CodesSound
    <2>1. CASE ~active
      BY <1>1, <1>5, <2>1, CodesWithdrawn
    <2>2. CASE active
      BY <1>1, <1>3, <1>5, <2>2, CodesStay DEF Permits
    <2> QED
      BY <2>1, <2>2
  <1>7. Shared'
    BY <1>1, <1>3, <1>4 DEF AuthInv, Shared, Assignable
  <1>8. ticks' \in Nat /\ session' \in SessionRow \cup {Null}
    BY <1>1 DEF AuthInv, Typed
  <1> QED
    BY <1>1, <1>3, <1>5, <1>6, <1>7, <1>8, NoTab

LEMMA RevokeConsentStep == ASSUME AuthInv, RevokeConsent PROVE AuthInv'
  <1>1. /\ grants' = {} /\ codes' = AllWithdrawn
        /\ UNCHANGED <<client, templates, edits, session, logins, approved, markers, tab, ticks>>
    BY DEF RevokeConsent, adminVars, userVars
  <1>2. Grow
    BY <1>1 DEF Grow, AuthInv, Typed
  <1>3. CodesSound
    BY <1>1, <1>2, CodesWithdrawn
  <1>4. Shared'
    <2>1. codes = <<>> => codes' = <<>>
      BY <1>1 DEF AllWithdrawn
    <2> QED
      BY <1>1, <2>1 DEF AuthInv, Shared, Assignable
  <1>5. /\ client' \in ClientRow \cup {Null} /\ ticks' \in Nat
        /\ session' \in SessionRow \cup {Null}
    BY <1>1 DEF AuthInv, Typed
  <1> QED
    BY <1>1, <1>2, <1>3, <1>4, <1>5, NoTab

-----------------------------------------------------------------------------
(* The invariant.                                                          *)

LEMMA InitAuthInv == AuthorizeInit => AuthInv
  <1> SUFFICES ASSUME AuthorizeInit PROVE AuthInv
    OBVIOUS
  <1>1. /\ client = Null /\ templates = {} /\ edits = 0 /\ session = Null /\ logins = 0
        /\ grants = {} /\ approved = {} /\ markers = <<>> /\ codes = <<>>
        /\ tab = [t \in Tabs |-> Blank] /\ ticks = 0
    BY DEF AuthorizeInit
  <1>2. PICK x : x = Blank
    OBVIOUS
  <1>3. /\ x.at = "closed" /\ x.request = Null /\ x.first = Null /\ x.base = 0 /\ x.given = 0
        /\ x.skipped = {}
        /\ x.client = Null /\ x.seen = 0 /\ x.session = Null /\ x.time = 0 /\ x.covered = FALSE
        /\ x.tries = {} /\ x.spent = 0
    BY <1>2 DEF Blank
  <1>4. x \in TabRow
    <2>1. x = [at |-> "closed", request |-> Null, first |-> Null, base |-> 0, given |-> 0,
               skipped |-> {},
               client |-> Null, seen |-> 0, session |-> Null, time |-> 0, covered |-> FALSE,
               tries |-> {}, spent |-> 0]
      BY <1>2 DEF Blank
    <2> QED
      BY <1>3, <2>1, RowTyped DEF Places
  <1>5. TabOK(x)
    BY <1>3 DEF TabOK, Over, Faithful, Judged, Seated, Entitled, Marked, SeesClient, SignedIn, Asking
  <1>6. markers \in Seq(MarkerRow) /\ codes \in Seq(CodeRow)
    BY <1>1, EmptySeq
  <1>7. Typed /\ Shared
    BY <1>1, <1>2, <1>4, <1>6 DEF Typed, Shared
  <1>8. SpentApart
    BY <1>1, <1>2, <1>3 DEF SpentApart
  <1> QED
    BY <1>1, <1>2, <1>5, <1>7, <1>8 DEF AuthInv

LEMMA NextAuthInv == ASSUME AuthInv, [AuthorizeNext]_authorizeVars PROVE AuthInv'
  <1>1. ASSUME NEW t \in Tabs, NEW r \in AuthorizeRequests, Open(t, r) PROVE AuthInv'
    BY <1>1, OpenStep
  <1>2. ASSUME NEW t \in Tabs,
               \/ AuthorizeLoad(t) \/ AuthorizeSession(t) \/ AuthorizeConsent(t)
               \/ ConsumeSelect(t) \/ ConsumeUpdate(t) \/ InsertCode(t)
        PROVE  AuthInv'
    BY <1>2, AuthorizeLoadStep, AuthorizeSessionStep, AuthorizeConsentStep, ConsumeSelectStep,
       ConsumeUpdateStep, InsertCodeStep
  <1>3. ASSUME NEW t \in Tabs, NEW acr \in SessionAcrs, SubmitLogin(t, acr) PROVE AuthInv'
    BY <1>3, SubmitLoginStep
  <1>4. ASSUME NEW t \in Tabs,
               \/ ApproveCheck(t) \/ CreateGrant(t) \/ CreateMarker(t)
               \/ Skip(t) \/ Abandon(t)
        PROVE  AuthInv'
    BY <1>4, ApproveCheckStep, CreateGrantStep, CreateMarkerStep, SkipStep, AbandonStep
  <1>5. ASSUME \/ \E mode \in Modes : CreateTemplate(mode)
               \/ \E target, hint : EndSession(target, hint)
               \/ AuthorizeTick
               \/ UNCHANGED authorizeVars
        PROVE  AuthInv'
    BY <1>5, QuietStep
  <1>6. ASSUME NEW d \in Details, NEW policy \in Modes \cup {Null},
               CreateClient(d, policy) \/ UpdateClient(d, policy)
        PROVE  AuthInv'
    BY <1>6, CreateClientStep, UpdateClientStep
  <1>7. ASSUME NEW active \in BOOLEAN, UpdateClientStatus(active) PROVE AuthInv'
    BY <1>7, UpdateClientStatusStep
  <1>8. ASSUME RevokeConsent PROVE AuthInv'
    BY <1>8, RevokeConsentStep
  <1> QED
    BY <1>1, <1>2, <1>3, <1>4, <1>5, <1>6, <1>7, <1>8 DEF AuthorizeNext

LEMMA AlwaysAuthInv == AuthorizeSpec => []AuthInv
  BY InitAuthInv, NextAuthInv, PTL DEF AuthorizeSpec

LEMMA AuthInvDeserves == AuthInv => CodesDeserved
  <1> SUFFICES ASSUME AuthInv PROVE CodesDeserved
    OBVIOUS
  <1>1. AuthorizeTypeOK
    <2>1. client = Null \/ client.policy \in Assignable
      BY DEF AuthInv, Shared
    <2>2. ASSUME NEW t \in Tabs
          PROVE  /\ tab[t].tries \subseteq DOMAIN markers
                 /\ {tab[t].given, tab[t].spent} \subseteq {0} \cup DOMAIN markers
                 /\ tab[t].at \in {"closed", "done"} <=> tab[t].first = Null
                 /\ tab[t].at \in {"consent", "select", "consume", "insert", "marker"}
                        => tab[t].session # Null
      <3>1. TabOK(tab[t]) /\ (tab[t].at \notin Over => tab[t].first \in RequestParams)
        BY TabFields
      <3> QED
        BY <3>1, RequestsAssumption DEF TabOK, Marked, Seated, Over, SignedIn
    <2> QED
      BY <2>1, <2>2 DEF AuthorizeTypeOK
  <1>2. OneCodePerApproval
    BY DEF AuthInv, CodeOK, SpentApart, OneCodePerApproval
  <1>3. CodesCovered
    BY DEF AuthInv, CodeOK, Covered, CodesCovered
  <1>4. PromptHonoured
    <2>1. \A i \in DOMAIN codes : codes[i].base \in Nat /\ codes[i].session.id \in Nat
      BY CodeFacts DEF CodeRow, SessionRow
    <2> QED
      BY <2>1 DEF AuthInv, CodeOK, PromptHonoured
  <1>5. SilentStaysSilent
    BY DEF AuthInv, TabOK, Faithful, Over, SilentStaysSilent
  <1>6. StragglerCodes
    <2> SUFFICES ASSUME NEW i \in DOMAIN codes, codes[i].live, ~Permits(codes[i].request)
                 PROVE  codes[i].seen < codes[i].born
      BY DEF StragglerCodes, Permits
    <2>1. /\ codes[i].seen \in Nat /\ codes[i].born \in Nat /\ codes[i].seen <= codes[i].born
          /\ codes[i].seen # codes[i].born
      BY CodeFacts DEF AuthInv, CodeOK
    <2> QED
      BY <2>1
  <1> QED
    BY <1>1, <1>2, <1>3, <1>4, <1>5, <1>6 DEF CodesDeserved

\* /oauth2/authorize stores a code only for scopes one approval of the user has
\* covered, after the sign-in and the approval its prompt asked for unless the
\* browser asked for the return_to of that very page without it (which nothing
\* on the server prevents), without a page for prompt=none; under an
\* always_required policy every code has spent a marker of its own, however many
\* tabs race for it; and a pending code the client no longer permits was stored
\* by a request that had read the client before the change.
THEOREM CodesAlwaysDeserved == AuthorizeSpec => []CodesDeserved
  BY AlwaysAuthInv, AuthInvDeserves, PTL

-----------------------------------------------------------------------------
(* Being asked again.                                                      *)

\* A reason to ask a user again who has approved the request of the tab.
Excuse(t) ==
    \/ markers'[tab[t].given].spent
    \/ markers'[tab[t].given].expires <= tab[t].time
    \/ markers'[tab[t].given].session # tab[t].session.id
    \/ tab[t].at = "consent" /\ ~HasConsent(tab[t].request)
    \/ tab[t].at = "consume" /\ ~tab[t].covered

\* No other step leads to the consent page.
LEMMA NotAsked ==
    ASSUME AuthInv, NEW t \in Tabs, tab[t].at # "consent_page",
           \/ \E u \in Tabs :
                \/ \E r \in AuthorizeRequests : Open(u, r)
                \/ AuthorizeLoad(u) \/ AuthorizeSession(u) \/ InsertCode(u)
                \/ \E acr \in SessionAcrs : SubmitLogin(u, acr)
                \/ ApproveCheck(u) \/ CreateGrant(u) \/ CreateMarker(u)
                \/ Skip(u) \/ Abandon(u)
           \/ UNCHANGED tab
    PROVE  tab'[t].at # "consent_page"
  <1>1. tab \in [Tabs -> TabRow]
    BY DEF AuthInv, Typed
  <1>3. ASSUME NEW u \in Tabs, End(u) PROVE tab'[t].at # "consent_page"
    <2>1. [Blank EXCEPT !.at = "done"].at = "done"
      BY DEF Blank
    <2> QED
      BY <1>1, <1>3, <2>1 DEF End
  <1>4. ASSUME NEW u \in Tabs, NEW request, Demand(u, "login_page", request)
        PROVE  tab'[t].at # "consent_page"
    <2>1. [Follow(u, request) EXCEPT !.at = "login_page"].at = "login_page"
      BY DEF Follow, Blank
    <2> QED
      BY <1>1, <1>3, <1>4, <2>1 DEF Demand
  <1>5. ASSUME NEW u \in Tabs, NEW r, Open(u, r) PROVE tab'[t].at # "consent_page"
    <2>1. [Blank EXCEPT !.at = "authorize", !.request = r, !.first = r, !.base = logins].at
              = "authorize"
      BY SMTT(30) DEF Blank
    <2> QED
      BY <1>1, <1>5, <2>1 DEF Open
  <1>6. ASSUME NEW u \in Tabs, AuthorizeLoad(u) PROVE tab'[t].at # "consent_page"
    <2>1. CASE End(u)
      BY <1>3, <2>1
    <2>2. CASE tab' = [tab EXCEPT ![u].at = "session", ![u].client = client, ![u].seen = edits]
      <3>1. [tab[u] EXCEPT !.at = "session", !.client = client, !.seen = edits].at = "session"
        BY SMTT(30), <1>1 DEF TabRow
      <3> QED
        BY <1>1, <2>2, <3>1
    <2> QED
      BY <1>6, <2>1, <2>2 DEF AuthorizeLoad
  <1>7. ASSUME NEW u \in Tabs, AuthorizeSession(u) PROVE tab'[t].at # "consent_page"
    <2>1. CASE \E request : Demand(u, "login_page", request)
      BY <1>4, <2>1
    <2>2. CASE tab' = [tab EXCEPT ![u].at = "consent", ![u].time = ticks, ![u].session = session]
      <3>1. [tab[u] EXCEPT !.at = "consent", !.time = ticks, !.session = session].at = "consent"
        BY <1>1 DEF TabRow
      <3> QED
        BY <1>1, <2>2, <3>1
    <2> QED
      BY <1>7, <2>1, <2>2 DEF AuthorizeSession
  <1>8. ASSUME NEW u \in Tabs, NEW acr, SubmitLogin(u, acr) PROVE tab'[t].at # "consent_page"
    <2>1. CASE End(u)
      BY <1>3, <2>1
    <2>2. CASE tab' = [tab EXCEPT ![u] = Follow(u, tab[u].request)]
      <3>1. Follow(u, tab[u].request).at = "authorize"
        BY DEF Follow, Blank
      <3> QED
        BY <1>1, <2>2, <3>1
    <2> QED
      BY <1>8, <2>1, <2>2 DEF SubmitLogin
  <1>9. ASSUME NEW u \in Tabs, ApproveCheck(u) PROVE tab'[t].at # "consent_page"
    <2>1. [tab[u] EXCEPT !.at = "grant", !.session = session, !.time = ticks].at = "grant"
      BY <1>1 DEF TabRow
    <2> QED
      BY <1>1, <1>9, <2>1 DEF ApproveCheck
  <1>10. ASSUME NEW u \in Tabs, CreateGrant(u) PROVE tab'[t].at # "consent_page"
    <2>1. [tab[u] EXCEPT !.at = "marker"].at = "marker"
      BY <1>1 DEF TabRow
    <2> QED
      BY <1>1, <1>10, <2>1 DEF CreateGrant, Move
  <1>11. ASSUME NEW u \in Tabs, CreateMarker(u) PROVE tab'[t].at # "consent_page"
    <2>1. [Follow(u, tab[u].request) EXCEPT !.given = Len(markers) + 1].at = "authorize"
      BY DEF Follow, Blank
    <2> QED
      BY <1>1, <1>11, <2>1 DEF CreateMarker
  <1>12. ASSUME NEW u \in Tabs, Skip(u) PROVE tab'[t].at # "consent_page"
    <2>1. [Follow(u, tab[u].request) EXCEPT
               !.skipped = tab[u].skipped \cup {tab[u].at}].at = "authorize"
      BY DEF Follow, Blank
    <2> QED
      BY <1>1, <1>12, <2>1 DEF Skip
  <1> QED
    BY <1>3, <1>5, <1>6, <1>7, <1>8, <1>9, <1>10, <1>11, <1>12 DEF InsertCode, Abandon

\* Only the tab that moves is asked.
LEMMA OthersNotAsked ==
    ASSUME AuthInv, NEW t \in Tabs, NEW u \in Tabs,
           AuthorizeConsent(u) \/ ConsumeSelect(u) \/ ConsumeUpdate(u),
           tab'[t].at # tab[t].at
    PROVE  t = u
  <1>1. tab \in [Tabs -> TabRow]
    BY DEF AuthInv, Typed
  <1> SUFFICES ASSUME t # u PROVE tab'[t] = tab[t]
    OBVIOUS
  <1>2. ASSUME NEW request, NEW page, Demand(u, page, request) PROVE tab'[t] = tab[t]
    BY <1>1, <1>2 DEF Demand, End
  <1>3. CASE AuthorizeConsent(u)
    BY <1>1, <1>2, <1>3 DEF AuthorizeConsent, Ask, Move
  <1>4. CASE ConsumeSelect(u)
    BY <1>1, <1>2, <1>4 DEF ConsumeSelect, Ask
  <1>5. CASE ConsumeUpdate(u)
    BY <1>1, <1>2, <1>5 DEF ConsumeUpdate, Ask
  <1> QED
    BY <1>3, <1>4, <1>5

LEMMA AskedWithExcuse ==
    ASSUME AuthInv, NEW t \in Tabs, tab[t].given # 0,
           AuthorizeConsent(t) \/ ConsumeSelect(t) \/ ConsumeUpdate(t),
           tab'[t].at = "consent_page"
    PROVE  Excuse(t)
  <1>1. /\ tab \in [Tabs -> TabRow] /\ tab[t] \in TabRow /\ TabOK(tab[t]) /\ tab[t].time \in Nat
    BY TabFields DEF AuthInv, Typed
  <1>2. /\ tab[t].request.prompt = {} /\ tab[t].given \in DOMAIN markers
        /\ markers[tab[t].given].request = tab[t].request
        /\ markers[tab[t].given].scopes = ScopesOf(tab[t].request)
        /\ markers[tab[t].given].expires \in Nat
    BY <1>1, MarkerFacts DEF TabOK, Seated, Marked
  <1>3. CASE AuthorizeConsent(t)
    <2>1. tab[t].at = "consent"
      BY <1>3 DEF AuthorizeConsent
    <2>2. ASSUME HasConsent(tab[t].request) PROVE FALSE
      <3>1. CASE tab' = [tab EXCEPT ![t].at = "select", ![t].covered = HasConsent(tab[t].request)]
        <4>1. [tab[t] EXCEPT !.at = "select", !.covered = HasConsent(tab[t].request)].at = "select"
          BY <1>1 DEF TabRow
        <4> QED
          BY <1>1, <3>1, <4>1
      <3>2. CASE Move(t, "insert")
        <4>1. [tab[t] EXCEPT !.at = "insert"].at = "insert"
          BY <1>1 DEF TabRow
        <4> QED
          BY <1>1, <3>2, <4>1 DEF Move
      <3> QED
        BY <1>2, <1>3, <2>2, <3>1, <3>2 DEF AuthorizeConsent
    <2> QED
      BY <2>1, <2>2 DEF Excuse
  <1>4. CASE ConsumeSelect(t)
    <2>1. CASE Spendable(t) = {}
      <3>1. markers' = markers
        BY <1>4 DEF ConsumeSelect, consentVars
      <3> QED
        BY <1>1, <1>2, <2>1, <3>1 DEF Spendable, Excuse
    <2>2. CASE Spendable(t) # {}
      <3>1. [tab[t] EXCEPT !.at = "consume", !.tries = Spendable(t)].at = "consume"
        BY <1>1 DEF TabRow
      <3> QED
        BY <1>1, <1>4, <2>2, <3>1 DEF ConsumeSelect
    <2> QED
      BY <2>1, <2>2
  <1>5. CASE ConsumeUpdate(t)
    <2>1. PICK i \in tab[t].tries :
              /\ tab[t].at = "consume"
              /\ IF markers[i].spent
                 THEN /\ UNCHANGED markers
                      /\ IF tab[t].tries = {i} THEN Ask(t)
                         ELSE tab' = [tab EXCEPT ![t].tries = tab[t].tries \ {i}]
                 ELSE /\ markers' = [markers EXCEPT ![i].spent = TRUE]
                      /\ IF tab[t].covered
                         THEN tab' = [tab EXCEPT ![t].at = "insert", ![t].spent = i]
                         ELSE Ask(t)
      BY <1>5 DEF ConsumeUpdate
    <2>2. tab[t].given \in tab[t].tries \/ Spoilt(tab[t])
      BY <1>1, <2>1 DEF TabOK, Marked
    <2>3. CASE markers[i].spent /\ tab[t].tries = {i}
      BY <2>1, <2>2, <2>3 DEF Excuse, Spoilt
    <2>4. CASE markers[i].spent /\ tab[t].tries # {i}
      <3>1. [tab[t] EXCEPT !.tries = tab[t].tries \ {i}].at = "consume"
        BY <1>1, <2>1 DEF TabRow
      <3> QED
        BY <1>1, <2>1, <2>4, <3>1
    <2>5. CASE ~markers[i].spent /\ tab[t].covered
      <3>1. [tab[t] EXCEPT !.at = "insert", !.spent = i].at = "insert"
        BY <1>1 DEF TabRow
      <3> QED
        BY <1>1, <2>1, <2>5, <3>1
    <2>6. CASE ~markers[i].spent /\ ~tab[t].covered
      BY <2>1, <2>6 DEF Excuse
    <2> QED
      BY <2>3, <2>4, <2>5, <2>6
  <1> QED
    BY <1>3, <1>4, <1>5

\* A user who comes back from the consent page with an approval is sent there
\* again only if the marker is spent, expired or of another session, or the
\* grant is gone: the endpoint never loses an approval to a race of tabs.
THEOREM AskedAgainOnlyExcused == AuthorizeSpec => AskedAgainExcused
  <1>1. ASSUME AuthInv, AuthorizeNext, NEW t \in Tabs, tab[t].given # 0,
               tab[t].at # "consent_page", tab'[t].at = "consent_page"
        PROVE  Excuse(t)
    <2>1. PICK u \in Tabs : AuthorizeConsent(u) \/ ConsumeSelect(u) \/ ConsumeUpdate(u)
      <3>1. \/ \E u \in Tabs : AuthorizeConsent(u) \/ ConsumeSelect(u) \/ ConsumeUpdate(u)
            \/ \E u \in Tabs :
                 \/ \E r \in AuthorizeRequests : Open(u, r)
                 \/ AuthorizeLoad(u) \/ AuthorizeSession(u) \/ InsertCode(u)
                 \/ \E acr \in SessionAcrs : SubmitLogin(u, acr)
                 \/ ApproveCheck(u) \/ CreateGrant(u) \/ CreateMarker(u)
                 \/ Skip(u) \/ Abandon(u)
            \/ UNCHANGED tab
        BY <1>1 DEF AuthorizeNext, CreateTemplate, CreateClient, UpdateClient,
                    UpdateClientStatus, EndSession, RevokeConsent, AuthorizeTick
      <3> QED
        BY <1>1, <3>1, NotAsked
    <2>2. t = u
      BY <1>1, <2>1, OthersNotAsked
    <2> QED
      BY <1>1, <2>1, <2>2, AskedWithExcuse
  <1>2. ASSUME AuthInv, [AuthorizeNext]_authorizeVars
        PROVE  [\A t \in Tabs :
                (/\ tab[t].given # 0 /\ tab[t].at # "consent_page"
                 /\ tab'[t].at = "consent_page")
                => LET m == markers'[tab[t].given]
                   IN  \/ m.spent
                       \/ m.expires <= tab[t].time
                       \/ m.session # tab[t].session.id
                       \/ tab[t].at = "consent" /\ ~HasConsent(tab[t].request)
                       \/ tab[t].at = "consume" /\ ~tab[t].covered
               ]_authorizeVars
    BY <1>1, <1>2 DEF Excuse
  <1> QED
    BY <1>2, AlwaysAuthInv, PTL DEF AuthorizeSpec, AskedAgainExcused
=============================================================================
