------------------------------ MODULE ScimSmoke ------------------------------
(***************************************************************************)
(* `cairn-api scim smoke`: a client that walks a live server through users,*)
(* groups and a bulk job, removes what it made, and reports; and the       *)
(* validator that `cairnid evidence check` runs on that report.            *)
(*                                                                         *)
(* A request may be refused, or carried out without an answer that the     *)
(* client can use.  Any of that ends the walk; what the client knows that  *)
(* it made is then removed, with requests whose failures are ignored.      *)
(***************************************************************************)
EXTENDS Naturals, Sequences, FiniteSets

CONSTANT MaxFaults   \* bound on requests that go wrong

ASSUME SmokeConstants == MaxFaults \in Nat

SmokeUsers == {"one", "two", "bulk_user"}
SmokeGroups == {"group", "bulk_group"}
ServerTokens == {"current", "next"}   \* the hashes the server is configured with

VARIABLES
    inputs,        \* [base, primary, secondary, rejected]
    users,         \* on the server: user -> "absent", "active", "inactive"
    groups,        \* on the server: the groups that exist
    at,            \* the step of the walk that comes next, or 0 before its start
    removals,      \* what the cleanup has yet to remove
    passed,        \* checks: the names that passed
    createdUsers,  \* created_user_ids
    createdGroup,  \* created_group_id, or "none"
    result,        \* "none", "cleaning", "ok", "failed", "rejected"
    mishaps,       \* requests that went wrong
    blamed         \* what a lost answer or a refused removal excuses

smokeVars == <<inputs, users, groups, at, removals, passed, createdUsers, createdGroup, result, mishaps, blamed>>

serverVars == <<users, groups>>

SmokeInit ==
    /\ inputs \in [base : {"https", "http", "bad"}, primary : {"unset", "current", "retired"},
                   secondary : {"unset", "current", "next", "retired"},
                   rejected : {"unset", "current", "next", "retired"}]
    /\ users = [u \in SmokeUsers |-> "absent"] /\ groups = {}
    /\ at = 0 /\ removals = <<>> /\ passed = {} /\ createdUsers = <<>> /\ createdGroup = "none"
    /\ result = "none" /\ mishaps = 0 /\ blamed = {}

-----------------------------------------------------------------------------
(* The walk: what each step asks for, and the check that it passes.        *)

Step(what, on, check) == [what |-> what, on |-> on, check |-> check]

TokenSteps == <<Step("secondary", "none", "secondary_token"), Step("rejected", "none", "rejected_token")>>

MetadataSteps == << Step("read", "none", "service_provider_config"),
                    Step("read", "none", "schemas"), Step("read", "none", "resource_types") >>

CreateUsers == <<Step("create", "one", "user_create"), Step("create", "two", "user_create")>>

UserSteps == << Step("read", "one", "user_filter"), Step("read", "one", "user_search_request"),
                Step("read", "one", "user_projection"), Step("change", "one", "user_patch"),
                Step("change", "one", "user_replace") >>

CreateGroup == <<Step("create", "group", "group_create")>>

GroupSteps == << Step("read", "group", "group_filter"), Step("read", "group", "group_search_request"),
                 Step("read", "group", "group_projection"), Step("change", "group", "group_patch"),
                 Step("change", "group", "group_replace") >>

DeleteGroup == <<Step("delete", "group", "group_delete")>>

BulkSteps == <<Step("bulk_create", "none", "none"), Step("bulk_clean", "none", "bulk_mutations")>>

DeleteUsers == <<Step("delete", "one", "user_delete"), Step("delete", "two", "user_delete")>>

SoftDeleted == << Step("gone", "one", "user_soft_delete"), Step("gone", "two", "user_soft_delete"),
                  Step("gone", "bulk_user", "user_soft_delete") >>

Walk == TokenSteps \o MetadataSteps \o CreateUsers \o UserSteps \o CreateGroup \o GroupSteps
        \o DeleteGroup \o BulkSteps \o DeleteUsers \o SoftDeleted

Here == Walk[at]

-----------------------------------------------------------------------------
(* The inputs.                                                             *)

ValidRotationTokens ==
    /\ inputs.secondary # inputs.primary /\ inputs.rejected # inputs.primary
    /\ inputs.secondary = "unset" \/ inputs.secondary # inputs.rejected

Start ==
    /\ result = "none" /\ at = 0
    /\ IF inputs.base = "bad" \/ inputs.primary = "unset" \/ ~ValidRotationTokens
       THEN result' = "rejected" /\ UNCHANGED at
       ELSE at' = 1 /\ UNCHANGED result
    /\ UNCHANGED <<inputs, serverVars, removals, passed, createdUsers, createdGroup, mishaps, blamed>>

-----------------------------------------------------------------------------
(* Requests.                                                               *)

\* scim_request: "answered" as expected, "unanswered" though carried out
\* (no answer, or one that a check on it refuses), or "refused".
Outcomes == {o \in {"answered", "unanswered", "refused"} : o = "answered" \/ mishaps < MaxFaults}

Counted(o) == mishaps' = IF o = "answered" THEN mishaps ELSE mishaps + 1

\* With a token the server does not know, every request is refused.
Authorized == inputs.primary \in ServerTokens

\* pass
Pass(check) == passed' = passed \cup ({check} \ {"none"})

\* The last step of the walk ends it.
Advance ==
    /\ at' = at + 1
    /\ result' = IF at = Len(Walk) THEN "ok" ELSE result
    /\ UNCHANGED removals

\* cleanup_after_failure: the group first, then the users as they came.
CleanUp_NeedsGroup(theUsers, theGroup) ==
    /\ removals' = IF theGroup = "none" THEN <<>> ELSE <<theGroup>> \o theUsers
    /\ result' = IF removals' = <<>> THEN "failed" ELSE "cleaning"
    /\ UNCHANGED at
CleanUp(theUsers, theGroup) ==
    /\ removals' = (IF theGroup = "none" THEN <<>> ELSE <<theGroup>>) \o theUsers
    /\ result' = IF removals' = <<>> THEN "failed" ELSE "cleaning"
    /\ UNCHANGED at

Fail == CleanUp(createdUsers, createdGroup) /\ UNCHANGED <<passed, createdUsers, createdGroup>>

Go(what) == result = "none" /\ at # 0 /\ Here.what = what

\* A token that is not configured is not checked.
CheckToken(token, accepted) ==
    /\ IF token = "unset" THEN Advance /\ UNCHANGED <<passed, createdUsers, createdGroup, mishaps>>
       ELSE \E o \in Outcomes :
              /\ Counted(o)
              /\ IF o = "answered" /\ accepted
                 THEN Advance /\ Pass(Here.check) /\ UNCHANGED <<createdUsers, createdGroup>>
                 ELSE Fail
    /\ UNCHANGED <<inputs, serverVars, blamed>>

CheckSecondary == Go("secondary") /\ CheckToken(inputs.secondary, inputs.secondary \in ServerTokens)

CheckRejected == Go("rejected") /\ CheckToken(inputs.rejected, inputs.rejected \notin ServerTokens)

\* Reads, and changes that neither make nor remove anything.
ReadOrChange ==
    /\ Go("read") \/ Go("change")
    /\ \E o \in Outcomes :
         /\ Counted(o)
         /\ IF o = "answered" /\ Authorized
            THEN Advance /\ Pass(Here.check) /\ UNCHANGED <<createdUsers, createdGroup>>
            ELSE Fail
    /\ UNCHANGED <<inputs, serverVars, blamed>>

Made(r) == IF r \in SmokeUsers THEN users' = [users EXCEPT ![r] = "active"] /\ UNCHANGED groups
           ELSE groups' = groups \cup {r} /\ UNCHANGED users

\* A user who was never made is not found; a DELETE makes one inactive.
Removed(r) == IF r \in SmokeUsers
              THEN users' = [users EXCEPT ![r] = IF @ = "absent" THEN @ ELSE "inactive"] /\ UNCHANGED groups
              ELSE groups' = groups \ {r} /\ UNCHANGED users

Create ==
    /\ Go("create")
    /\ LET r == Here.on IN
       \E o \in Outcomes :
         /\ Counted(o)
         /\ CASE o = "refused" -> UNCHANGED serverVars /\ Fail /\ UNCHANGED blamed
              [] o = "unanswered" -> Made(r) /\ Fail /\ blamed' = blamed \cup {r}
              [] o = "answered" ->
                   /\ Made(r) /\ Advance /\ Pass(Here.check) /\ UNCHANGED blamed
                   /\ IF r \in SmokeUsers
                      THEN createdUsers' = Append(createdUsers, r) /\ UNCHANGED createdGroup
                      ELSE createdGroup' = r /\ UNCHANGED createdUsers
    /\ UNCHANGED inputs

Delete ==
    /\ Go("delete")
    /\ LET r == Here.on IN
       \E o \in Outcomes :
         /\ Counted(o)
         /\ IF o = "refused" THEN UNCHANGED serverVars ELSE Removed(r)
         /\ IF o # "answered" THEN Fail
            ELSE /\ Advance /\ Pass(Here.check) /\ UNCHANGED createdUsers
                 /\ createdGroup' = IF r \in SmokeGroups THEN "none" ELSE createdGroup
    /\ UNCHANGED <<inputs, blamed>>

Gone ==
    /\ Go("gone")
    /\ \E o \in Outcomes :
         /\ Counted(o)
         /\ IF o = "answered" /\ users[Here.on] = "inactive"
            THEN Advance /\ Pass(Here.check) /\ UNCHANGED <<createdUsers, createdGroup>>
            ELSE Fail
    /\ UNCHANGED <<inputs, serverVars, blamed>>

-----------------------------------------------------------------------------
(* The bulk job.  failOnErrors is 1: the server stops at the first         *)
(* operation that fails.  An operation is "good", carried out with an      *)
(* answer that a check refuses ("off"), or "failed".                       *)

Operation == {"good", "off", "failed"}

\* The group refers to the user, who is made first.  The client looks at the
\* user's answer, notes the user, then at the group's, notes the group, and
\* then at the patch.
BulkCreate ==
    /\ Go("bulk_create")
    /\ \E o \in Outcomes : \E user, patch, group \in Operation :
         /\ {user, patch, group} # {"good"} => (mishaps < MaxFaults /\ o = "answered")
         /\ mishaps' = IF o = "answered" /\ {user, patch, group} = {"good"} THEN mishaps ELSE mishaps + 1
         /\ LET userDone == o # "refused" /\ user # "failed"
                groupDone == userDone /\ patch # "failed" /\ group # "failed"
                userNoted == o = "answered" /\ user = "good"
                groupNoted == userNoted /\ groupDone /\ group = "good"
            IN  /\ users' = [users EXCEPT !["bulk_user"] = IF userDone THEN "active" ELSE @]
                /\ groups' = groups \cup (IF groupDone THEN {"bulk_group"} ELSE {})
                /\ createdUsers' = IF userNoted THEN Append(createdUsers, "bulk_user") ELSE createdUsers
                /\ createdGroup' = IF groupNoted THEN "bulk_group" ELSE createdGroup
                /\ blamed' = blamed \cup (IF userNoted THEN {} ELSE {"bulk_user", "bulk_group"})
                                    \cup (IF groupNoted THEN {} ELSE {"bulk_group"})
                /\ IF groupNoted /\ patch = "good" THEN Advance ELSE CleanUp(createdUsers', createdGroup')
    /\ UNCHANGED <<inputs, passed>>

BulkClean ==
    /\ Go("bulk_clean")
    /\ \E o \in Outcomes : \E patch, group, user \in Operation :
         /\ {patch, group, user} # {"good"} => (mishaps < MaxFaults /\ o = "answered")
         /\ mishaps' = IF o = "answered" /\ {patch, group, user} = {"good"} THEN mishaps ELSE mishaps + 1
         /\ LET patchDone == o # "refused" /\ patch # "failed"
                groupDone == patchDone /\ group # "failed"
            IN  /\ users' = [users EXCEPT !["bulk_user"] = IF patchDone THEN "inactive" ELSE @]
                /\ groups' = groups \ (IF groupDone THEN {"bulk_group"} ELSE {})
                /\ IF o = "answered" /\ {patch, group, user} = {"good"}
                   THEN Advance /\ Pass(Here.check) /\ createdGroup' = "none" /\ UNCHANGED createdUsers
                   ELSE Fail
    /\ UNCHANGED <<inputs, blamed>>

\* A removal of the cleanup, whatever its outcome.
CleanUpNext ==
    /\ result = "cleaning"
    /\ LET r == Head(removals) IN
       \E o \in Outcomes :
         /\ Counted(o)
         /\ IF o = "refused" THEN UNCHANGED serverVars /\ blamed' = blamed \cup {r}
            ELSE Removed(r) /\ UNCHANGED blamed
    /\ removals' = Tail(removals)
    /\ result' = IF Len(removals) = 1 THEN "failed" ELSE result
    /\ UNCHANGED <<inputs, at, passed, createdUsers, createdGroup>>

SmokeNext == Start \/ CheckSecondary \/ CheckRejected \/ ReadOrChange \/ Create \/ Delete \/ Gone
             \/ BulkCreate \/ BulkClean \/ CleanUpNext

SmokeSpec == SmokeInit /\ [][SmokeNext]_smokeVars

-----------------------------------------------------------------------------
(* The report and its validator.                                           *)

Report == [base |-> inputs.base, checks |-> passed,
           secondary_token_checked |-> inputs.secondary # "unset",
           rejected_token_checked |-> inputs.rejected # "unset",
           created |-> <<"one", "two", "bulk_user">>, soft_deleted |-> <<"one", "two", "bulk_user">>]

RequiredChecks ==
    {"secondary_token", "rejected_token", "service_provider_config", "schemas", "resource_types",
     "user_create", "user_filter", "user_search_request", "user_projection", "user_patch", "user_replace",
     "group_create", "group_filter", "group_search_request", "group_projection", "group_patch",
     "group_replace", "group_delete", "bulk_mutations", "user_delete", "user_soft_delete"}

IdsIn(ids) == {ids[i] : i \in DOMAIN ids}

\* require_uuid_array_exact_len
DistinctIds(ids, n) == Len(ids) = n /\ Cardinality(IdsIn(ids)) = n

\* validate_scim_smoke
Validates(r) ==
    /\ r.base = "https" /\ r.secondary_token_checked /\ r.rejected_token_checked
    /\ DistinctIds(r.created, 3) /\ DistinctIds(r.soft_deleted, 3)
    /\ IdsIn(r.created) = IdsIn(r.soft_deleted)
    /\ r.checks \subseteq RequiredChecks /\ RequiredChecks \subseteq r.checks

-----------------------------------------------------------------------------
(* Properties.                                                             *)

Left == {u \in SmokeUsers : users[u] = "active"} \cup groups

\* ScimSmokeRun::run: a report that everything passed means that the server
\* has no active user and no group of the walk left, the bulk job's
\* included, although parts of its second job may have failed.
OkLeavesNothing == result = "ok" => Left = {}

\* run and cleanup_after_failure: after a failure the server keeps only what
\* the client could not know that it had made, because the answer that told
\* it so was lost or refused, and what it was refused to remove.
LeftoversExcused == result = "failed" => Left \subseteq blamed

\* ScimSmokeReport and validate_scim_smoke, which live in two crates: a walk
\* that went well is accepted as release evidence exactly if both rotation
\* tokens were given and the server was reached by https.
ReportAccepted ==
    result = "ok" => (Validates(Report) <=> /\ inputs.base = "https"
                                            /\ inputs.secondary # "unset" /\ inputs.rejected # "unset")

\* A walk cleans up after itself as far as it can know, and its report is
\* evidence exactly when the walk was complete.
WalkCleansUp == OkLeavesNothing /\ LeftoversExcused /\ ReportAccepted
=============================================================================
