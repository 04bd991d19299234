------------------------------ MODULE Queries ------------------------------
(***************************************************************************)
(* The readers of query strings, forms and command lines.  Each walks over *)
(* a list of (name, value) pairs and either refuses the request or returns *)
(* the parameters in force.  Admin and SCIM readers decide on one pair at  *)
(* a time, with what they have set so far as the only memory of what came  *)
(* before; the OAuth readers look for duplicates in a pass of its own.     *)
(*                                                                         *)
(* A value is one of five classes: "v" and "w", two well-formed ones (v    *)
(* before w as timestamps), "blank", "bad" (malformed) and "big" (too long *)
(* or out of range).                                                       *)
(***************************************************************************)
EXTENDS Naturals, Sequences, FiniteSets

CONSTANTS
    Sampled,   \* [reader -> parameter names sent to it]
    MaxPairs   \* bound on the pairs of a request

Values == {"v", "w", "blank", "bad", "big"}

(***************************************************************************)
(* A kind of parameter: the values that are refused, those that leave the  *)
(* parameter unset, those whose error is kept until the end, and whether a *)
(* value that set nothing is remembered when the name comes again.         *)
(***************************************************************************)
Kind(bad, none, late, seen) == [bad |-> bad, none |-> none, late |-> late, seen |-> seen]
Exact == Kind({"blank", "bad", "big"}, {}, {}, TRUE)
Text == Kind({}, {}, {}, TRUE)

\* admin_audit_prefix_filter and the searches: trimmed, any text, none if blank.
Prefix == Kind({"big"}, {"blank"}, {}, TRUE)

\* decode_list_cursor and i64::parse with its range.
PageNames == {"limit", "cursor"}
Page == [n \in PageNames |-> Exact]

\* admin_audit_event_list_query
AuditEvents ==
    [n \in PageNames \cup {"action", "target", "actor_kind", "actor_id", "from", "to"} |->
        IF n \in {"action", "target"} THEN Prefix ELSE Exact]

\* admin_user_list_query
Users == [n \in PageNames \cup {"q", "status"} |-> IF n = "q" THEN Prefix ELSE Exact]

\* parse_consent_grant_list_parts; "all" (here w) sets no filter and is remembered.
ConsentGrants ==
    [n \in PageNames \cup {"status"} |->
        IF n = "status" THEN Kind({"blank", "bad", "big"}, {"w"}, {}, TRUE) ELSE Exact]

\* admin_oidc_client_scope_filter
Scope == Kind({"bad", "big"}, {"blank"}, {}, TRUE)

\* admin_oidc_client_list_query
OidcClients ==
    [n \in PageNames \cup {"q", "scope", "client_type", "status", "grant_type"} |->
        IF n = "q" THEN Prefix ELSE IF n = "scope" THEN Scope ELSE Exact]

\* scim_resource_projection_query
ProjectionNames == {"attributes", "excludedAttributes"}
Projection == [n \in ProjectionNames |-> Exact]

\* scim_user_list_query and scim_group_list_query
ScimUserList == [n \in ProjectionNames \cup {"startIndex", "count", "filter"} |-> Exact]
ScimGroupList == [n \in ProjectionNames \cup {"startIndex", "count", "filter"} |-> Exact]

\* scim_user_search_query and scim_group_search_query: the same members, from JSON.
ScimUserSearch == ScimUserList
ScimGroupSearch == ScimGroupList

\* scim_user_filter: an empty externalId is no condition, and is not remembered.
ScimUserFilter ==
    [n \in {"userName", "active", "externalId"} |->
        IF n = "externalId" THEN Kind({"bad", "big"}, {"blank"}, {}, FALSE) ELSE Exact]

\* scim_group_filter: empty values are refused.
ScimGroupFilter == [n \in {"displayName", "externalId"} |-> Exact]

\* audit_export_options: a blank prefix is not remembered.
AuditExport ==
    [n \in {"--action", "--target", "--limit", "--actor-kind", "--actor-id", "--from", "--to",
            "--after-created-at", "--after-id"} |->
        IF n \in {"--action", "--target"} THEN Kind({"big"}, {"blank"}, {}, FALSE) ELSE Exact]

\* authorization_request_parameter_name
AuthorizationNames ==
    {"response_type", "client_id", "redirect_uri", "scope", "state", "nonce", "max_age",
     "response_mode", "prompt", "display", "acr_values", "ui_locales", "claims_locales",
     "login_hint", "claims", "request", "request_uri", "code_challenge",
     "code_challenge_method"}

\* authorization_request_from_query_pairs: a max_age that is no number is
\* reported with the request, so that the answer can go to its redirect URI.
Authorization ==
    [n \in AuthorizationNames |->
        IF n = "max_age" THEN Kind({}, {"blank", "bad", "big"}, {"blank", "bad", "big"}, TRUE)
        ELSE Text]

\* end_session_request_parameter_name
EndSessionNames ==
    {"id_token_hint", "logout_hint", "client_id", "post_logout_redirect_uri", "state",
     "ui_locales"}

\* end_session_request_from_pairs
EndSession == [n \in EndSessionNames |-> Text]

\* token_request_from_oauth_form
TokenForm == [n \in {"grant_type", "code", "redirect_uri", "client_id", "client_secret",
                     "code_verifier", "refresh_token", "scope"} |-> Text]

\* introspection_request_from_oauth_form and revocation_request_from_oauth_form
IntrospectionForm == [n \in {"token", "token_type_hint", "client_id", "client_secret"} |-> Text]
RevocationForm == [n \in {"token", "token_type_hint", "client_id", "client_secret"} |-> Text]

\* userinfo_request_from_form_body
UserInfoForm == [n \in {"access_token"} |-> Text]

Readers ==
    [audit_events |-> AuditEvents, users |-> Users, consent_grants |-> ConsentGrants,
     oidc_clients |-> OidcClients, plain_list |-> Page, projection |-> Projection,
     scim_users |-> ScimUserList, scim_groups |-> ScimGroupList,
     scim_user_search |-> ScimUserSearch, scim_group_search |-> ScimGroupSearch,
     scim_user_filter |-> ScimUserFilter, scim_group_filter |-> ScimGroupFilter,
     audit_export |-> AuditExport, authorization |-> Authorization,
     end_session |-> EndSession, token |-> TokenForm,
     introspection |-> IntrospectionForm, revocation |-> RevocationForm,
     userinfo |-> UserInfoForm]

\* Those that look for duplicates first, and those that let an unknown name
\* pass; the form readers refuse a repeated name even if it is unknown.
Forms == {"token", "introspection", "revocation", "userinfo"}
TwoPass == Forms \cup {"authorization", "end_session"}

ASSUME QueryConstants ==
    /\ MaxPairs \in Nat
    /\ DOMAIN Sampled = DOMAIN Readers

VARIABLES
    reader,   \* which reader
    pairs,    \* the request, decoded
    position,     \* the pair to read; 0 before the request is decoded
    inForce,  \* what the reader has set so far
    seen,     \* names it would refuse a second time
    verdict   \* "reading", "late" (an error is kept), "refused", "accepted"

queryVars == <<reader, pairs, position, inForce, seen, verdict>>

Unset == "unset"

QueryInit ==
    /\ reader \in DOMAIN Readers
    /\ \E n \in 0..MaxPairs : pairs \in [1..n -> Sampled[reader] \X Values]
    /\ position = 0 /\ seen = {} /\ verdict = "reading"
    /\ inForce = [n \in DOMAIN Readers[reader] |-> Unset]

KnownTo(n) == n \in DOMAIN Readers[reader]
Name(i) == pairs[i][1]
Value(i) == pairs[i][2]
Refuse == verdict' = "refused"

\* parse_url_encoded_pairs, the size limit and the content type come before
\* any parameter.
Decode ==
    /\ position = 0 /\ verdict = "reading"
    /\ \/ Refuse /\ UNCHANGED position
       \/ position' = 1 /\ UNCHANGED verdict
    /\ UNCHANGED <<reader, pairs, inForce, seen>>

\* duplicate_authorization_request_parameter and its likes.
Duplicated ==
    \E i, j \in DOMAIN pairs : /\ i < j /\ Name(i) = Name(j)
                               /\ reader \in Forms \/ KnownTo(Name(i))

\* The Options and the *_seen flags: what the next pairs are checked against.
Remember_Never(n, v) == seen
Remember(n, v) ==
    IF v \notin Readers[reader][n].none \/ Readers[reader][n].seen
    THEN seen \cup {n} ELSE seen

\* One turn of the loop.
ReadPair ==
    LET n == Name(position)  v == Value(position)  k == Readers[reader][n] IN
    /\ position \in DOMAIN pairs /\ verdict \in {"reading", "late"}
    /\ position = 1 /\ reader \in TwoPass => ~Duplicated
    /\ \/ /\ ~KnownTo(n)
          /\ IF reader \in TwoPass THEN UNCHANGED verdict ELSE Refuse
          /\ UNCHANGED <<inForce, seen>>
       \/ /\ KnownTo(n) /\ (n \in seen \/ v \in k.bad)
          /\ Refuse /\ UNCHANGED <<inForce, seen>>
       \/ /\ KnownTo(n) /\ n \notin seen /\ v \notin k.bad
          /\ inForce' = [inForce EXCEPT ![n] = IF v \in k.none THEN Unset ELSE v]
          /\ seen' = Remember(n, v)
          /\ verdict' = IF v \in k.late THEN "late" ELSE verdict
    /\ position' = position + 1
    /\ UNCHANGED <<reader, pairs>>

\* The first pass of the two-pass readers refuses.
RefuseDuplicate ==
    /\ position = 1 /\ verdict = "reading" /\ reader \in TwoPass /\ Duplicated
    /\ Refuse /\ UNCHANGED <<reader, pairs, position, inForce, seen>>

\* from < to, where both are given.
RangeHolds(from, to) == ~(inForce[from] \in {"v", "w"} /\ inForce[from] = inForce[to])
                          /\ ~(inForce[from] = "w" /\ inForce[to] = "v")

\* audit_export_options: a cursor is both halves or none.
CursorWhole == (inForce["--after-created-at"] = Unset) = (inForce["--after-id"] = Unset)

\* scim_projection_from_query
OneProjection == Unset \in {inForce["attributes"], inForce["excludedAttributes"]}

\* required_oauth_form_parameter
TokenGiven == inForce["token"] \notin {Unset, "blank"}

\* What a reader checks when it has read all pairs.
Complete ==
    /\ reader = "audit_events" => RangeHolds("from", "to")
    /\ reader = "audit_export" => RangeHolds("--from", "--to") /\ CursorWhole
    /\ reader \in {"scim_users", "scim_groups", "scim_user_search", "scim_group_search",
                   "projection"} => OneProjection
    /\ reader \in {"introspection", "revocation"} => TokenGiven

Finish ==
    /\ position = Len(pairs) + 1 /\ verdict \in {"reading", "late"}
    /\ verdict' = IF verdict = "reading" /\ Complete THEN "accepted" ELSE "refused"
    /\ UNCHANGED <<reader, pairs, position, inForce, seen>>

QueryNext == Decode \/ RefuseDuplicate \/ ReadPair \/ Finish
QuerySpec == QueryInit /\ [][QueryNext]_queryVars

-----------------------------------------------------------------------------
\* What a request asks for, whatever the order of its pairs.
Asked(n) == {Value(i) : i \in {j \in DOMAIN pairs : Name(j) = n}}

\* An accepted request has in force exactly what it asked for: no parameter
\* sent with a value is dropped or overridden by a later pair, and none is in
\* force that was not sent (the readers' loops and their *_seen flags).  A value
\* that sets nothing (a blank search, status=all) asks for nothing here; which
\* of them may be followed by the same name is DuplicatesRefused.
NothingOverridden ==
    verdict = "accepted" =>
        \A n \in DOMAIN inForce :
            LET wanted == Asked(n) \ Readers[reader][n].none IN
            IF wanted = {} THEN inForce[n] = Unset ELSE wanted = {inForce[n]}

\* The parameters of which a blank value is not remembered: scim_user_filter
\* takes an empty externalId for no condition and keeps None, audit_export_options
\* a blank prefix, and both find None when the name comes again.
Forgotten == {<<"scim_user_filter", "externalId">>, <<"audit_export", "--action">>,
              <<"audit_export", "--target">>}
Forgets(i) == <<reader, Name(i)>> \in Forgotten /\ Value(i) = "blank"

\* A name that comes twice is refused, by the flags of the one-pass readers and
\* by the first pass of the others, with two exceptions: a name that only the
\* authorization and end-session readers let pass, and the three parameters
\* above after a blank value, so that `externalId eq "" and externalId eq "x"`
\* is accepted.  (docs/scim.md:184 lists duplicate filter attributes among the
\* errors and does not name the exception.)
DuplicatesRefused ==
    verdict = "accepted" =>
        \A i, j \in DOMAIN pairs :
            i < j /\ Name(i) = Name(j) =>
                \/ reader \in TwoPass \ Forms /\ ~KnownTo(Name(i))
                \/ Forgets(i)

\* No accepted range is empty: the later of the two bounds comes last, in
\* whichever order the request gave them (admin_audit_event_list_query and
\* audit_export_options check after the loop, on what ended up in force).
RangesNonEmpty ==
    \A p \in {<<"from", "to">>, <<"--from", "--to">>} :
        verdict = "accepted" /\ {p[1], p[2]} \subseteq DOMAIN inForce
          /\ Asked(p[1]) # {} /\ Asked(p[2]) # {}
            => Asked(p[1]) = {"v"} /\ Asked(p[2]) = {"w"}

\* A well-formed request is not refused: all pairs known (or tolerated), no
\* name twice, no value its reader refuses.
Wellformed ==
    /\ \A i \in DOMAIN pairs :
         /\ KnownTo(Name(i)) \/ reader \in TwoPass
         /\ KnownTo(Name(i)) => Value(i) \notin Readers[reader][Name(i)].bad
                                                \cup Readers[reader][Name(i)].late
    /\ \A i, j \in DOMAIN pairs : i # j => Name(i) # Name(j)

\* In any order its parameters come, a well-formed request is read to its end
\* and refused only for what it asks as a whole.
WellformedIsRead ==
    verdict = "refused" /\ position > 0 /\ Wellformed => position = Len(pairs) + 1 /\ ~Complete

\* A request is read as it was written, wherever in it a parameter stands.
ReadAsWritten ==
    NothingOverridden /\ DuplicatesRefused /\ RangesNonEmpty /\ WellformedIsRead
=============================================================================
