---------------------------- MODULE MCInterfaces ----------------------------
(* One run for the programs that are written against the server and the    *)
(* request readers in front of it: a behaviour is one of ScimBulk,         *)
(* ScimPatch, Queries, Listings, ReleaseAssets, ReleaseEvidence,           *)
(* EvidencePaths or ScimSmoke.  They share no state; the ones that stand   *)
(* still are pinned to one start.                                          *)
EXTENDS ScimBulk, ScimPatch, Queries, Listings, ReleaseAssets, ReleaseEvidence,
        EvidencePaths, ScimSmoke, TLC

CONSTANTS m1, m2, m3, u1, u2, u3, x1, g1, f1, n1

-----------------------------------------------------------------------------
(* ScimBulk: methods and paths. *)
Shape(m, o, n) == [method |-> m, on |-> o, named |-> n]
SomeShapes == {Shape("POST", "collection", TRUE), Shape("POST", "collection", FALSE),
               Shape("PATCH", "resource", TRUE)}

-----------------------------------------------------------------------------
(* ScimPatch: operations and PUT bodies. *)
PatchOp(op, path, sel, value) == [op |-> op, path |-> path, sel |-> sel, value |-> value]
Replace(path, value) == PatchOp("replace", path, Nil, value)
NameOf(f, g, h) == [formatted |-> f, given |-> g, family |-> h]
MailOf(m, p) == [mail |-> m, primary |-> p]

SomeUserOps ==
    {Replace("userName", m) : m \in {m1, m2, m3}}
      \cup {Replace("displayName", n1), Replace("name.givenName", g1), Replace("name.familyName", f1),
            Replace("name", NameOf(Nil, Nil, Nil)), Replace("name", NameOf(n1, g1, Nil)),
            Replace("name", NameOf(Nil, g1, f1)), Replace("active", FALSE), Replace("externalId", x1),
            Replace("externalId", "taken"), Replace("schemas", Bad), Replace("id", n1), Replace("nickName", n1),
            PatchOp("replace", "emails", "home", <<MailOf(m2, TRUE)>>),
            PatchOp("add", "emails", Nil, <<MailOf(m2, FALSE), MailOf(m2, TRUE)>>),
            PatchOp("add", "emails", Nil, <<MailOf(m1, FALSE), MailOf(m2, TRUE)>>),
            PatchOp("replace", "emails.value", m1, m2), PatchOp("replace", "emails.type", "work", "work"),
            PatchOp("remove", "externalId", Nil, Nil), PatchOp("remove", "displayName", Nil, Nil),
            PatchOp("remove", "emails", m1, Nil), PatchOp("remove", Nil, Nil, Nil),
            PatchOp("add", Nil, Nil, <<Replace("displayName", n1), Replace("name.givenName", g1)>>),
            PatchOp("add", Nil, Nil, <<>>), PatchOp("move", "active", Nil, TRUE)}
SomeGroupOps ==
    {PatchOp(op, "members", Nil, v) : op \in {"add", "replace"}, v \in {<<u1>>, <<u2, u3>>, <<u1, u1>>}}
      \cup {PatchOp("replace", "members", a, <<b>>) : a, b \in {u1, u2}}
      \cup {PatchOp("remove", "members", a, Nil) : a \in {u1, u2, Nil}}
      \cup {PatchOp("add", "members", u1, <<u2>>), PatchOp("add", "members", u3, <<u3>>),
            PatchOp("replace", "members", u1, <<u1, u2>>), PatchOp("replace", "members", u1, <<u2, u3>>),
            PatchOp("add", "members", u2, <<u2, u1>>), PatchOp("replace", "members.value", u1, <<u2, u3>>),
            PatchOp("replace", "members.value", u1, <<u3>>), PatchOp("add", "members.value", Nil, <<u2, u3>>),
            PatchOp("add", Nil, Nil, <<Replace("displayName", n1), Replace("members", <<u2>>)>>),
            PatchOp("add", "members", Nil, <<m1>>), PatchOp("remove", "schemas", Nil, Nil),
            Replace("members.display", n1), Replace("externalId", "taken"), Replace("members[", n1)}
SomeUserPuts ==
    {[email |-> m, emails |-> l, ext |-> x, display |-> d, name |-> NameOf(Nil, g1, Nil), active |-> a] :
       m \in {m1, Bad}, l \in {<<>>, <<MailOf(m2, TRUE)>>}, x \in {Nil, x1}, d \in {n1, Nil}, a \in {Nil, FALSE}}
SomeGroupPuts ==
    {[name |-> n, ext |-> x, members |-> l] : n \in {n1, Nil}, x \in {Nil, x1, "taken"}, l \in {<<u1>>, <<u2, u1>>, <<u1, u1>>}}

-----------------------------------------------------------------------------
(* Queries: the parameters tried of each reader. *)
Sample ==
    [r \in DOMAIN Readers |->
        CASE r = "audit_events" -> {"action", "from", "to"}
          [] r = "audit_export" -> {"--action", "--from", "--to"}
          [] r = "users" -> {"q", "status", "other"}
          [] r = "consent_grants" -> {"limit", "status", "other"}
          [] r = "oidc_clients" -> {"q", "scope"}
          [] r = "authorization" -> {"client_id", "max_age", "other"}
          [] r = "end_session" -> {"client_id", "other"}
          [] r = "token" -> {"grant_type", "other"}
          [] r \in {"introspection", "revocation"} -> {"token", "other"}
          [] r \in {"scim_users", "scim_groups", "scim_user_search", "scim_group_search"} ->
               {"attributes", "excludedAttributes"}
          [] r = "scim_user_filter" -> {"userName", "externalId", "other"}
          [] OTHER -> DOMAIN Readers[r] \cup {"other"}]

-----------------------------------------------------------------------------
(* ReleaseAssets and ReleaseEvidence. *)
OneOfEach == <<[binary |-> "cairnid", format |-> "tar.gz"],
               [binary |-> "cairnid-mcp", format |-> "zip"]>>

TwoArtifacts == <<"operations_preflight", "openid_static_config">>
\* A signing source is the database's or the configured key.
SomeRequirements ==
    [a \in {"operations_preflight", "openid_static_config"} |->
        IF a = "operations_preflight" THEN {{{"kek"}, {"key id", "key"}}, {{"issuer"}}}
        ELSE {{{"issuer"}}}]

-----------------------------------------------------------------------------
(* EvidencePaths: file systems and arguments. *)
Repo == <<"srv", "repo">>
Alias == <<"alias", "repo">>
Dir == [type |-> "dir", to |-> <<>>]
File == [type |-> "file", to |-> <<>>]
Link(path) == [type |-> "link", to |-> path]

Fixed == (<<"srv">> :> Dir) @@ (Repo :> Dir) @@ (<<"alias">> :> Link(<<"srv">>)) @@
         (<<"srv", "other">> :> Dir) @@ (<<"srv", "other", "e">> :> Dir) @@
         (<<"srv", "repo", "f">> :> Dir) @@ (<<"srv", "repo", "f", "e">> :> Dir)

E == <<"srv", "repo", "e">>
D == <<"srv", "repo", "d">>
Evidence == {<<>>, E :> Dir, E :> File, E :> Link(<<"srv", "other", "e">>),
             E :> Link(<<"srv", "repo", "f", "e">>),
             (E :> Dir) @@ (Append(E, "x") :> File), (E :> Dir) @@ (Append(E, "x") :> Link(E))}
Parent == {D :> Link(<<"srv", "other">>), D :> Link(<<"srv", "repo", "f">>),
           (D :> Dir) @@ (Append(D, "e") :> Dir)}
SomeTrees == {Fixed @@ e @@ d : e \in Evidence, d \in Parent}

Names == {"e", "d", "f", "..", "."}
Short == UNION {[1..n -> Names] : n \in 1..3}
SomeArguments ==
    {[form |-> f, absolute |-> FALSE, path |-> <<"e">>] : f \in {"unknown", "number", "age", "empty"}} \cup
    {[form |-> "string", absolute |-> FALSE, path |-> p] : p \in Short} \cup
    {[form |-> "string", absolute |-> TRUE, path |-> b \o p] :
        b \in {Repo, Alias, <<"srv", "other">>, <<"srv">>, <<>>},
        p \in UNION {[1..n -> Names] : n \in 1..2}}

-----------------------------------------------------------------------------
VARIABLE area

\* A bulk request that was refused for its failOnErrors.
BulkRefused ==
    /\ operations = [i \in Indices |-> [shape |-> Shape("POST", "collection", FALSE), deps |-> {}]]
    /\ limit = MaxOps + 1 /\ phase = "done" /\ ready = {}
    /\ pending = Indices /\ references = {} /\ failed = {} /\ errors = 0
    /\ responses = [i \in Indices |-> "none"]

Pinned ==
    /\ area # "patch" => person = [email |-> m1, ext |-> Nil, verified |-> TRUE, name |-> <<m1>>, active |-> TRUE] /\ kind = "User"
    /\ area # "queries" => reader = "token" /\ pairs = <<>>
    /\ area # "listings" => list = "users" /\ size = 1
    /\ area # "assets" => opts = [Proper EXCEPT !.sboms = FALSE] /\ files = Published(Clean)
    /\ area # "evidence" => dirThere = FALSE /\ entries = <<>> /\ viaMcp = FALSE
    /\ area # "paths" => tree = Fixed @@ (D :> Link(<<"srv", "other">>)) /\ call = [form |-> "empty", absolute |-> FALSE, path |-> <<"e">>]
    /\ area # "smoke" => inputs = [base |-> "bad", primary |-> "unset", secondary |-> "unset", rejected |-> "unset"]

InterfacesInit ==
    /\ area \in {"bulk", "patch", "queries", "listings", "assets", "evidence", "paths", "smoke"}
    /\ Pinned
    /\ AssetsInit /\ EvidenceInit /\ PatchInit /\ ListInit /\ SmokeInit /\ PathsInit /\ QueryInit
    /\ IF area = "bulk" THEN BulkInit ELSE BulkRefused

\* A step of one part leaves the others alone.
Moves(a, A) ==
    /\ area = a /\ A
    /\ a # "bulk" => UNCHANGED bulkVars
    /\ a # "patch" => UNCHANGED patchVars
    /\ a # "queries" => UNCHANGED queryVars
    /\ a # "listings" => UNCHANGED listVars
    /\ a # "assets" => UNCHANGED assetVars
    /\ a # "evidence" => UNCHANGED evidenceVars
    /\ a # "paths" => UNCHANGED pathVars
    /\ a # "smoke" => UNCHANGED smokeVars
    /\ UNCHANGED area

InterfacesNext ==
    \/ Moves("bulk", BulkNext) \/ Moves("patch", PatchNext) \/ Moves("queries", QueryNext)
    \/ Moves("listings", ListNext) \/ Moves("assets", AssetsNext)
    \/ Moves("evidence", EvidenceNext) \/ Moves("paths", PathsNext) \/ Moves("smoke", SmokeNext)

InterfacesSpec ==
    /\ InterfacesInit
    /\ [][InterfacesNext]_<<area, bulkVars, patchVars, queryVars, listVars, assetVars,
                            evidenceVars, pathVars, smokeVars>>
    /\ WF_bulkVars(BulkNext)
=============================================================================
