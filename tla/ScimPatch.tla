----------------------------- MODULE ScimPatch -----------------------------
(***************************************************************************)
(* PUT and PATCH of one SCIM user and one SCIM group.  A PATCH request is  *)
(* a list of operations that are applied one after the other to a copy of  *)
(* the resource; the copy is stored when all of them were accepted.        *)
(* Other writers between read and store are in Directory.                  *)
(*                                                                         *)
(* A display name is the tuple of the parts it is joined from.  A value    *)
(* that the parsers refuse (wrong JSON type, blank, too long) is Bad.      *)
(***************************************************************************)
EXTENDS Naturals, Sequences, FiniteSets, SequencesExt

CONSTANTS
    Mails,       \* addresses
    TakenMails,  \* addresses of other users
    TakenIds,    \* externalIds of other users and groups
    Known,       \* users of the organization
    MemberLimit, \* SCIM_GROUP_MAX_MEMBERS
    PatchLimit,  \* SCIM_PATCH_MAX_OPERATIONS
    UserOps, GroupOps,    \* operations clients send: [op, path, sel, value]
    UserPuts, GroupPuts,  \* bodies of PUT requests
    Bad, Nil

ASSUME PatchConstants ==
    /\ {Bad, Nil} \cap (Mails \cup Known) = {} /\ TakenMails \subseteq Mails
    /\ MemberLimit \in Nat /\ PatchLimit \in Nat

VARIABLES
    person,   \* the stored user
    club,     \* the stored group; members in the order of the request
    kind,     \* the resource the client works on: "User" or "Group"
    request,  \* the request being handled
    next,     \* the operation to apply next
    work,     \* the copy the operations work on
    stage,    \* "idle", "patch", "store"
    answer    \* scimType of the last answer; "ok": stored

patchVars == <<person, club, kind, request, next, work, stage, answer>>

NoRequest == [body |-> Nil, ops |-> <<>>]

PatchInit ==
    /\ \E m \in Mails \ TakenMails, v \in BOOLEAN :
         person = [email |-> m, ext |-> Nil, verified |-> v, name |-> <<m>>, active |-> TRUE]
    /\ club = [name |-> <<"club">>, ext |-> Nil, members |-> <<>>]
    /\ kind \in {"User", "Group"}
    /\ request = NoRequest /\ next = 1 /\ work = Nil
    /\ stage = "idle" /\ answer = "none"

-----------------------------------------------------------------------------
(* Outcomes: the state after an operation, or the error that ends it.      *)

Ok(s) == [s EXCEPT !.err = "ok"]
Fails(s, code) == [s EXCEPT !.err = code]
Given(s, value, t) == IF value = Bad THEN Fails(s, "invalidValue") ELSE Ok(t)

\* scim_display_name: displayName, else name.formatted, else its parts, else
\* the address.
Optional(part) == IF part = Nil THEN <<>> ELSE <<part>>
DisplayName(email, display, name) ==
    CASE display # Nil -> <<display>>
      [] display = Nil /\ name.formatted # Nil -> <<name.formatted>>
      [] OTHER -> LET parts == Optional(name.given) \o Optional(name.family)
                  IN  IF parts = <<>> THEN <<email>> ELSE parts

-----------------------------------------------------------------------------
(* Users.                                                                  *)

ReadOnlyPaths == {"id", "meta"}
UserPaths == {"userName", "externalId", "displayName", "active", "name", "name.formatted",
              "name.givenName", "name.familyName", "emails", "emails.value",
              "emails.type", "emails.primary", "schemas"}
EmailPaths == {"emails", "emails.value", "emails.type", "emails.primary"}

\* scim_patch_email_path, scim_email_filter: a user has one address, of type
\* work and primary; no other can be filtered for.
FilterError(path, sel) ==
    IF path \in EmailPaths /\ sel \in {"home", "secondary"} THEN "noTarget" ELSE "ok"

\* scim_patch_path: what is wrong with a path, if anything.
UserPathError(path, sel) ==
    CASE path \in ReadOnlyPaths -> "mutability"
      [] path \notin UserPaths \cup ReadOnlyPaths -> "invalidPath"
      [] OTHER -> FilterError(path, sel)

\* matches_email, with the address as the operations before left it.
EmailMatches(s, sel) == sel \in {Nil, "work", "primary", s.email}

SetUserName(s, email) ==
    [s EXCEPT !.email = email, !.verified = @ /\ email = s.email]
SetDisplayName(s, name) == [s EXCEPT !.name = name, !.given = Nil, !.family = Nil]
\* set_given_name, set_family_name: the name is rebuilt from the parts that
\* this request has set.
Rebuild(s) == [s EXCEPT !.name = Optional(s.given) \o Optional(s.family)]

\* validate_scim_email_values: all entries name one address, at most one is
\* marked primary.
EmailsAgree(email, list) ==
    /\ \A i \in DOMAIN list : list[i].mail = email
    /\ Cardinality({i \in DOMAIN list : list[i].primary}) <= 1

\* scim_email_from_patch_value: the entry marked primary, else the first.
SelectedEmail(list) ==
    LET primary == SelectSeq(list, LAMBDA e : e.primary)
    IN  IF primary = <<>> THEN list[1].mail ELSE primary[1].mail
EmailFrom(value) ==
    IF value \in {Bad, <<>>} THEN Bad
    ELSE IF EmailsAgree(SelectedEmail(value), value) THEN SelectedEmail(value) ELSE Bad

\* apply_scim_patch_path_value
ApplyUserValue(s, o) ==
    LET v == o.value IN
    CASE UserPathError(o.path, o.sel) # "ok" -> Fails(s, UserPathError(o.path, o.sel))
      [] o.path \in EmailPaths /\ ~EmailMatches(s, o.sel) -> Fails(s, "noTarget")
      [] o.path \in {"userName", "emails.value"} -> Given(s, v, SetUserName(s, v))
      [] o.path = "emails" -> Given(s, EmailFrom(v), SetUserName(s, EmailFrom(v)))
      [] o.path = "externalId" -> Given(s, v, [s EXCEPT !.ext = v])
      [] o.path \in {"displayName", "name.formatted"} ->
           Given(s, v, SetDisplayName(s, <<v>>))
      [] o.path = "name" -> Given(s, v, SetDisplayName(s, DisplayName(s.email, Nil, v)))
      [] o.path = "name.givenName" -> Given(s, v, Rebuild([s EXCEPT !.given = v]))
      [] o.path = "name.familyName" -> Given(s, v, Rebuild([s EXCEPT !.family = v]))
      [] o.path = "active" -> Given(s, v, [s EXCEPT !.active = v])
      [] OTHER -> Given(s, v, s)   \* emails.type, emails.primary, schemas

\* remove_scim_patch_path: only externalId can be removed.
RemoveUserPath(s, o) ==
    CASE UserPathError(o.path, o.sel) # "ok" -> Fails(s, UserPathError(o.path, o.sel))
      [] o.path = "externalId" -> Ok([s EXCEPT !.ext = Nil])
      [] o.path \in EmailPaths /\ ~EmailMatches(s, o.sel) -> Fails(s, "noTarget")
      [] OTHER -> Fails(s, "mutability")

\* apply_scim_patch_resource_value: a value without a path is an object, its
\* attributes apply in order until one is refused.
ApplyUserResource(s, list) ==
    FoldLeft(LAMBDA t, a : IF t.err = "ok" THEN ApplyUserValue(t, a) ELSE t, Ok(s), list)

\* apply_scim_patch_operation
ApplyUser(s, o) ==
    CASE o.op = "remove" /\ o.path = Nil -> Fails(s, "invalidPath")
      [] o.op = "remove" /\ o.path # Nil -> RemoveUserPath(s, o)
      [] o.op \in {"add", "replace"} /\ o.path = Nil ->
           IF o.value \in {Bad, <<>>} THEN Fails(s, "invalidValue")
           ELSE ApplyUserResource(s, o.value)
      [] o.op \in {"add", "replace"} /\ o.path # Nil -> ApplyUserValue(s, o)
      [] OTHER -> Fails(s, "invalidValue")

-----------------------------------------------------------------------------
(* Groups.                                                                 *)

\* With a filter in brackets or without one.
MemberPaths == {"members", "members.value"}

\* scim_group_patch_member_path: $ref, display and type are generated.
MemberPathError(path) ==
    CASE path \in MemberPaths -> "ok"
      [] path = "members.display" -> "mutability"
      [] OTHER -> "invalidPath"

\* scim_group_patch_path
GroupPathError(path) ==
    CASE path \in ReadOnlyPaths -> "mutability"
      [] path \in {"displayName", "externalId", "schemas"} -> "ok"
      [] OTHER -> MemberPathError(path)

\* unique_scim_group_member_user_ids
MembersError(ids) ==
    ids = Bad \/ Len(ids) > MemberLimit \/ Cardinality(ToSet(ids)) # Len(ids)

\* add_member_user_ids: those not there yet, in order, within the limit.
AddMembers(s, ids) ==
    LET added == s.members \o SelectSeq(ids, LAMBDA m : m \notin ToSet(s.members))
    IN  IF Len(added) > MemberLimit THEN Fails(s, "invalidValue")
        ELSE Ok([s EXCEPT !.members = added])

\* replace_filtered_member_user_id: one member takes the place of another.
ReplaceMember(s, old, new) ==
    CASE old \notin ToSet(s.members) -> Fails(s, "noTarget")
      [] old = new -> Ok(s)
      [] old # new /\ old \in ToSet(s.members) /\ new \in ToSet(s.members) ->
           Ok([s EXCEPT !.members = SelectSeq(@, LAMBDA m : m # old)])
      [] OTHER -> Ok([s EXCEPT !.members = [i \in DOMAIN @ |-> IF @[i] = old THEN new ELSE @[i]]])

\* scim_group_single_member_user_id_from_patch_value: after .value a string and
\* nothing else; else a string, an object, or an array, which is taken for the
\* object's fields in their order: value, $ref (ignored), type.  Of <<a, b>> the
\* member is a, and a third id is no type.  <<a>> stands for the string as well.
SingleMember(path, value) ==
    IF value \in {Bad, <<>>} \/ Len(value) > (IF path = "members.value" THEN 1 ELSE 2)
    THEN Bad ELSE value[1]

\* A filtered path takes one member; an addition must name the one it filters.
FilteredMember(s, o) ==
    LET m == SingleMember(o.path, o.value) IN
    CASE m = Bad \/ (o.op = "add" /\ m # o.sel) -> Fails(s, "invalidValue")
      [] m # Bad /\ o.op = "add" /\ m = o.sel -> AddMembers(s, <<m>>)
      [] m # Bad /\ o.op # "add" -> ReplaceMember(s, o.sel, m)

\* apply_scim_group_patch_path_value
ApplyGroupValue(s, o) ==
    CASE GroupPathError(o.path) # "ok" -> Fails(s, GroupPathError(o.path))
      [] o.path = "displayName" -> Given(s, o.value, [s EXCEPT !.name = <<o.value>>])
      [] o.path = "externalId" -> Given(s, o.value, [s EXCEPT !.ext = o.value])
      [] o.path = "schemas" -> Given(s, o.value, s)
      [] o.path \in MemberPaths /\ o.sel # Nil -> FilteredMember(s, o)
      [] o.path \in MemberPaths /\ o.sel = Nil ->
           IF MembersError(o.value) THEN Fails(s, "invalidValue")
           ELSE IF o.op = "add" THEN AddMembers(s, o.value)
           ELSE Ok([s EXCEPT !.members = o.value])

\* remove_scim_group_patch_path: removing a member that is not there is no error.
RemoveGroupPath_AllMembers(s, o) ==
    CASE GroupPathError(o.path) # "ok" -> Fails(s, GroupPathError(o.path))
      [] o.path = "externalId" -> Ok([s EXCEPT !.ext = Nil])
      [] o.path \in MemberPaths -> Ok([s EXCEPT !.members = <<>>])
      [] OTHER -> Fails(s, "mutability")
RemoveGroupPath(s, o) ==
    CASE GroupPathError(o.path) # "ok" -> Fails(s, GroupPathError(o.path))
      [] o.path = "externalId" -> Ok([s EXCEPT !.ext = Nil])
      [] o.path \in MemberPaths ->
           Ok([s EXCEPT !.members = SelectSeq(@, LAMBDA m : o.sel # Nil /\ m # o.sel)])
      [] OTHER -> Fails(s, "mutability")

\* apply_scim_group_patch_resource_value
ApplyGroupResource(s, op, list) ==
    FoldLeft(LAMBDA t, a : IF t.err = "ok" THEN ApplyGroupValue(t, [a EXCEPT !.op = op])
                           ELSE t, Ok(s), list)

\* apply_scim_group_patch_operation
ApplyGroup(s, o) ==
    CASE o.op = "remove" /\ o.path = Nil -> Fails(s, "invalidPath")
      [] o.op = "remove" /\ o.path # Nil -> RemoveGroupPath(s, o)
      [] o.op \in {"add", "replace"} /\ o.path = Nil ->
           IF o.value \in {Bad, <<>>} THEN Fails(s, "invalidValue")
           ELSE ApplyGroupResource(s, o.op, o.value)
      [] o.op \in {"add", "replace"} /\ o.path # Nil -> ApplyGroupValue(s, o)
      [] OTHER -> Fails(s, "invalidValue")

-----------------------------------------------------------------------------
(* Requests.                                                               *)

Answer(code) ==
    stage' = "idle" /\ answer' = code /\ work' = Nil /\ next' = 1 /\ request' = NoRequest

UserState == [email |-> person.email, ext |-> person.ext, verified |-> person.verified,
              name |-> person.name, active |-> person.active,
              given |-> Nil, family |-> Nil, err |-> "ok"]
GroupState == [name |-> club.name, ext |-> club.ext, members |-> club.members, err |-> "ok"]

\* into_validated_operations: there are operations, and not too many.
Begin(r, copy) ==
    /\ IF r.ops = <<>> \/ Len(r.ops) > PatchLimit THEN Answer("invalidValue")
       ELSE /\ stage' = "patch" /\ next' = 1 /\ answer' = "none"
            /\ request' = r /\ work' = copy
    /\ UNCHANGED <<person, club, kind>>
PatchUser(r) == stage = "idle" /\ kind = "User" /\ Begin(r, UserState)
PatchGroup(r) == stage = "idle" /\ kind = "Group" /\ Begin(r, GroupState)

\* scim_patch_user_input, scim_patch_group_input: one operation; the first
\* refused one ends the request.
ApplyOne ==
    /\ stage = "patch"
    /\ LET o == request.ops[next]
           s == IF kind = "User" THEN ApplyUser(work, o) ELSE ApplyGroup(work, o)
       IN  IF s.err # "ok" THEN Answer(s.err)
           ELSE /\ work' = s /\ UNCHANGED <<answer, request>>
                /\ IF next < Len(request.ops) THEN next' = next + 1 /\ UNCHANGED stage
                   ELSE stage' = "store" /\ UNCHANGED next
    /\ UNCHANGED <<person, club, kind>>

\* scim_user_input: PUT without active means active; the address counts as
\* unverified.
UserInput(body) ==
    [email |-> body.email, ext |-> body.ext, verified |-> FALSE,
     name |-> DisplayName(body.email, body.display, body.name), active |-> body.active # FALSE,
     given |-> Nil, family |-> Nil, err |-> "ok"]

PutUser(body) ==
    /\ stage = "idle" /\ kind = "User"
    /\ IF Bad \in {body.email, body.ext} \/ ~EmailsAgree(body.email, body.emails)
       THEN Answer("invalidValue")
       ELSE /\ work' = UserInput(body) /\ stage' = "store" /\ answer' = "none" /\ next' = 1
            /\ request' = [body |-> body, ops |-> <<>>]
    /\ UNCHANGED <<person, club, kind>>

\* scim_group_input
PutGroup(body) ==
    /\ stage = "idle" /\ kind = "Group"
    /\ IF Bad \in {body.name, body.ext} \/ body.name = Nil \/ MembersError(body.members)
       THEN Answer("invalidValue")
       ELSE /\ work' = [name |-> <<body.name>>, ext |-> body.ext, members |-> body.members,
                        err |-> "ok"]
            /\ stage' = "store" /\ answer' = "none" /\ next' = 1
            /\ request' = [body |-> body, ops |-> <<>>]
    /\ UNCHANGED <<person, club, kind>>

\* update_user_from_scim: whether the address stays verified is decided on the
\* stored row, not by the input.
Stored(p, w) == [email |-> w.email, ext |-> w.ext, verified |-> p.verified /\ p.email = w.email,
                 name |-> w.name, active |-> w.active]

\* The audit event is inserted after the commit, by a statement of its own; if
\* it fails the request is answered with an error and the change stays.
Audited == Answer("ok") \/ Answer("serverError")

\* A database error before the commit undoes the transaction.  Whether the
\* resource has gone, is the administrators group or its last active owner is
\* decided on rows that are in Directory.
NotStored(protected) ==
    \/ Answer("serverError")
    \/ Answer("notFound")
    \/ protected /\ Answer("mutability")

StoreUser ==
    /\ stage = "store" /\ kind = "User"
    /\ \/ NotStored(person.active /\ ~work.active) /\ UNCHANGED person
       \/ /\ work.email \in TakenMails \/ work.ext \in TakenIds
          /\ Answer("uniqueness") /\ UNCHANGED person
       \/ /\ work.email \notin TakenMails /\ work.ext \notin TakenIds
          /\ person' = Stored(person, work) /\ Audited
    /\ UNCHANGED <<club, kind>>

\* replace_scim_group: members must be users of the organization.
StoreGroup ==
    /\ stage = "store" /\ kind = "Group"
    /\ \/ NotStored(TRUE) /\ UNCHANGED club
       \/ work.ext \in TakenIds /\ Answer("uniqueness") /\ UNCHANGED club
       \/ /\ work.ext \notin TakenIds /\ ~(ToSet(work.members) \subseteq Known)
          /\ Answer("invalidValue") /\ UNCHANGED club
       \/ /\ work.ext \notin TakenIds /\ ToSet(work.members) \subseteq Known
          /\ club' = [name |-> work.name, ext |-> work.ext, members |-> work.members]
          /\ Audited
    /\ UNCHANGED <<person, kind>>

Lists(S) == UNION {[1..n -> S] : n \in 0..2} \cup {<<a, a, a>> : a \in S}
UserRequests == {[body |-> Nil, ops |-> l] : l \in Lists(UserOps)}
GroupRequests == {[body |-> Nil, ops |-> l] : l \in Lists(GroupOps)}

PatchNext ==
    \/ \E r \in UserRequests : PatchUser(r)
    \/ \E r \in GroupRequests : PatchGroup(r)
    \/ \E b \in UserPuts : PutUser(b)
    \/ \E b \in GroupPuts : PutGroup(b)
    \/ ApplyOne \/ StoreUser \/ StoreGroup

PatchSpec == PatchInit /\ [][PatchNext]_patchVars

-----------------------------------------------------------------------------
(* Properties.                                                             *)

\* The stored resources are well formed; a member list is within the limit.
PatchTypeOK ==
    /\ person.email \in Mails \ TakenMails /\ person.name # <<>>
    /\ person.ext \notin TakenIds /\ club.ext \notin TakenIds
    /\ person.verified \in BOOLEAN /\ person.active \in BOOLEAN
    /\ ToSet(club.members) \subseteq Known /\ Len(club.members) <= MemberLimit
    /\ stage \in {"idle", "patch", "store"}

\* No sequence of additions and replacements lists a member twice.
MembersOnce == Cardinality(ToSet(club.members)) = Len(club.members)

\* The single values a request sets, objects taken apart.
Flat(ops) ==
    FoldLeft(LAMBDA l, o : l \o IF o.path = Nil
                                THEN [i \in DOMAIN o.value |-> [o.value[i] EXCEPT !.op = o.op]]
                                ELSE <<o>>, <<>>, ops)

LastOf(S) == IF S = {} THEN 0 ELSE CHOOSE i \in S : \A j \in S : j <= i

\* The members an operation names; under a filter only the first of an array
\* (docs/scim.md:139 asks for exactly one, and the rest is dropped unread).
NamedBy(o) == IF o.sel = Nil THEN ToSet(o.value) ELSE {o.value[1]}

\* The reference for a member: the last operation that says anything about it
\* decides, whatever the operations before did.
SaysIn(o, m) == o.op # "remove" /\ o.path \in MemberPaths /\ m \in NamedBy(o)
SaysOut(o, m) ==
    /\ o.path \in MemberPaths
    /\ CASE o.op = "remove" -> o.sel \in {Nil, m}
         [] o.op = "replace" -> o.sel \in {Nil, m} /\ m \notin NamedBy(o)
         [] OTHER -> FALSE
BelongsAfter(m, ops, before) ==
    LET l == Flat(ops)
        word == LastOf({i \in DOMAIN l : SaysIn(l[i], m) \/ SaysOut(l[i], m)})
    IN  IF word = 0 THEN m \in before ELSE SaysIn(l[word], m)

\* A group PATCH that is accepted leaves exactly the members the reference names.
MembersLastWord ==
    stage = "store" /\ kind = "Group" /\ request.body = Nil =>
        \A m \in UNION {Known, ToSet(work.members)} :
            m \in ToSet(work.members) <=> BelongsAfter(m, request.ops, ToSet(club.members))

\* The reference for the name: the last whole name, or the parts given since.
WholeNames == {"displayName", "name.formatted", "name"}
NameAfter(ops, p) ==
    LET l == Flat(ops)
        At(P, from) == LastOf({i \in DOMAIN l : i > from /\ l[i].path \in P})
        whole == At(WholeNames, 0)
        given == At({"name.givenName"}, whole)
        family == At({"name.familyName"}, whole)
        Part(i) == IF i = 0 THEN <<>> ELSE <<l[i].value>>
        setter == LastOf({i \in 1..whole : l[i].path \in {"userName", "emails", "emails.value"}})
        email == IF setter = 0 THEN p.email
                 ELSE IF l[setter].path = "emails" THEN SelectedEmail(l[setter].value)
                 ELSE l[setter].value
    IN  IF given + family > 0 THEN Part(given) \o Part(family)
        ELSE IF whole = 0 THEN p.name
        ELSE IF l[whole].path = "name" THEN DisplayName(email, Nil, l[whole].value)
        ELSE <<l[whole].value>>

\* Given and family name may come in any order, in one operation or several,
\* mixed with whole names: the name stored is the reference's.
NameLastWord ==
    stage = "store" /\ kind = "User" /\ request.body = Nil =>
        work.name = NameAfter(request.ops, person)

\* A refused request changes nothing, whichever of its operations was refused;
\* one that failed with a server error was stored whole or not at all, and only
\* after all its operations were accepted (the audit event is inserted behind
\* the commit); and an address stays verified exactly while it is the same.
RefusedChangesNothing ==
    /\ answer' \notin {"ok", "serverError"} => person' = person /\ club' = club
    /\ answer' = "serverError" =>
         /\ person' = person \/ (stage = "store" /\ person' = Stored(person, work))
         /\ club' = club \/ (stage = "store" /\ club'.members = work.members
                               /\ club'.name = work.name /\ club'.ext = work.ext)
    /\ person'.verified = (person.verified /\ person'.email = person.email)

\* A request means what its operations mean one after the other, or it is
\* refused and means nothing; an error of the server leaves it open which.
PatchMeaning ==
    /\ [](PatchTypeOK /\ MembersOnce /\ MembersLastWord /\ NameLastWord)
    /\ [][RefusedChangesNothing]_patchVars
=============================================================================
