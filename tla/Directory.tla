----------------------------- MODULE Directory -----------------------------
(***************************************************************************)
(* Users, groups and memberships of an organization, and the transactions  *)
(* that change them: first-owner bootstrap, status changes (console, SCIM  *)
(* and the deprovisioning DELETE), memberships, SCIM groups and the        *)
(* break-glass recovery of an owner.                                       *)
(*                                                                         *)
(* A step is one statement of a READ COMMITTED transaction, or several of  *)
(* which only the first can wait.  SELECT ... FOR UPDATE on the            *)
(* organization, a user or a group is a lock with one holder.  An INSERT   *)
(* that references a row takes a key share on it, which waits for that     *)
(* holder.  Every transaction that touches a membership row holds the lock *)
(* of its group first, so membership locks are never contended.            *)
(***************************************************************************)
EXTENDS Naturals, FiniteSets

CONSTANTS
    Users, Groups,
    Admin,          \* the group with slug ADMINISTRATORS_GROUP_SLUG
    Statuses,       \* UserStatus
    Workers,        \* request slots that run concurrently
    Ops,            \* the operations the instance exercises
    None

OpNames == {"status", "scim_patch", "upsert", "remove", "scim_replace",
            "scim_add", "scim_delete", "break_glass", "bootstrap",
            "create_user", "create_group", "scim_create"}

StatusOps     == {"status", "scim_patch"}
MembershipOps == {"upsert", "remove"}
ScimGroupOps  == {"scim_replace", "scim_add", "scim_delete"}
OrgOps        == {"break_glass", "bootstrap"}

ASSUME AdminAssumption == Admin \in Groups
ASSUME StatusAssumption == "active" \in Statuses /\ "absent" \notin Statuses
ASSUME DirectoryOpsAssumption == Ops \subseteq OpNames
ASSUME DirectoryNoneAssumption ==
    None \notin Users \cup Groups \cup Workers \cup Statuses

VARIABLES
    status,      \* users.status; "absent" while there is no such row
    groups,      \* "absent", "stored" or "deleted"; identifiers are not reused
    role,        \* memberships.role, by group and user; "none" without a row
    orgLock,     \* the worker that holds the organization FOR UPDATE, or None
    userLock,    \* ... each user
    groupLock,   \* ... each group
    req          \* the request each worker is serving

rowVars  == <<status, groups, role>>
lockVars == <<orgLock, userLock, groupLock>>
vars     == <<status, groups, role, orgLock, userLock, groupLock, req>>

\* The operation and the statement it is at, the user and the group it is
\* about, the status or role it writes, and the members a SCIM group gets.
Request(op, pc, u, g, next, M) ==
    [op |-> op, pc |-> pc, user |-> u, group |-> g, next |-> next,
     members |-> M]

Idle == Request("none", "idle", None, None, None, {})

Init ==
    /\ status = [u \in Users |-> "absent"]
    /\ groups = [g \in Groups |-> "absent"]
    /\ role = [g \in Groups |-> [u \in Users |-> "none"]]
    /\ orgLock = None
    /\ userLock = [u \in Users |-> None]
    /\ groupLock = [g \in Groups |-> None]
    /\ req = [w \in Workers |-> Idle]

-----------------------------------------------------------------------------

Owners == {u \in Users : groups[Admin] = "stored" /\ role[Admin][u] = "owner"}

ActiveOwners == {u \in Owners : status[u] = "active"}

OtherActiveOwners(u) == ActiveOwners \ {u}

Members(g) == {u \in Users : role[g][u] # "none"}

\* The console asks for an owner's session before it starts a mutation, in a
\* transaction of its own: the owner may be demoted before the mutation ends.
Authorized == ActiveOwners # {}

Accept(w, op, request) ==
    /\ req[w] = Idle
    /\ op \in Ops
    /\ req' = [req EXCEPT ![w] = request]
    /\ UNCHANGED <<rowVars, lockVars>>

\* The transaction ends: its locks are released.
Finish(w) ==
    /\ req' = [req EXCEPT ![w] = Idle]
    /\ orgLock' = IF orgLock = w THEN None ELSE orgLock
    /\ userLock' = [u \in Users |-> IF userLock[u] = w THEN None
                                    ELSE userLock[u]]
    /\ groupLock' = [g \in Groups |-> IF groupLock[g] = w THEN None
                                      ELSE groupLock[g]]

\* The transaction is refused and changes nothing.
Refuse(w) == Finish(w) /\ UNCHANGED rowVars

Goto(w, pc) ==
    LET r == req[w]
    IN  req' = [req EXCEPT ![w] =
                    Request(r.op, pc, r.user, r.group, r.next, r.members)]

At(w, ops, pc) == req[w].op \in ops /\ req[w].pc = pc

-----------------------------------------------------------------------------
(* Requests.                                                               *)

\* PUT .../status, and PUT and DELETE of a SCIM user; a PATCH that sets active.
UpdateStatus(w, u, next) ==
    Accept(w, "status", Request("status", "lock_user", u, None, next, {}))

\* PATCH of a SCIM user that leaves active alone: the status is read here and
\* written back by the transaction.
ScimPatchUser(w, u) ==
    /\ status[u] # "absent"
    /\ Accept(w, "scim_patch",
              Request("scim_patch", "lock_user", u, None, status[u], {}))

UpsertMembership(w, g, u, r) ==
    /\ Authorized
    /\ Accept(w, "upsert", Request("upsert", "lock_group", u, g, r, {}))

DeleteMembership(w, g, u) ==
    /\ Authorized
    /\ Accept(w, "remove", Request("remove", "lock_group", u, g, None, {}))

ScimReplaceGroup(w, g, M) ==
    Accept(w, "scim_replace",
           Request("scim_replace", "lock_group", None, g, None, M))

\* PATCH add members: the members are read here, and the list they make with
\* the new one replaces the members of the group later.
ScimAddMember(w, g, u) ==
    /\ groups[g] = "stored"
    /\ Accept(w, "scim_add",
              Request("scim_add", "lock_group", None, g, None,
                      Members(g) \cup {u}))

ScimDeleteGroup(w, g) ==
    Accept(w, "scim_delete",
           Request("scim_delete", "lock_group", None, g, None, {}))

BreakGlass(w, u) ==
    Accept(w, "break_glass",
           Request("break_glass", "lock_org", u, Admin, None, {}))

Bootstrap(w) ==
    Accept(w, "bootstrap",
           Request("bootstrap", "lock_org", None, Admin, None, {}))

-----------------------------------------------------------------------------
(* Locks.                                                                  *)

\* Mutant: the organization is read without FOR UPDATE.
LockOrganization_PlainRead(w) ==
    /\ At(w, OrgOps, "lock_org")
    /\ Goto(w, IF req[w].op = "bootstrap" THEN "check" ELSE "lock_user")
    /\ UNCHANGED <<rowVars, lockVars>>

LockOrganization(w) ==
    /\ At(w, OrgOps, "lock_org")
    /\ orgLock = None
    /\ orgLock' = w
    /\ Goto(w, IF req[w].op = "bootstrap" THEN "check" ELSE "lock_user")
    /\ UNCHANGED <<rowVars, userLock, groupLock>>

\* Only a change from active to another status looks at the owners.
LockUser(w) ==
    LET u == req[w].user
        leaving == status[u] = "active" /\ req[w].next # "active"
    IN  /\ At(w, StatusOps \cup {"break_glass"}, "lock_user")
        /\ IF status[u] = "absent" THEN Refuse(w)
           ELSE /\ userLock[u] = None
                /\ userLock' = [userLock EXCEPT ![u] = w]
                /\ Goto(w, IF req[w].op = "break_glass" \/ leaving
                           THEN "lock_owners" ELSE "write")
                /\ UNCHANGED <<rowVars, orgLock, groupLock>>

\* Mutant: the owner group is read without FOR UPDATE.
LockOwnerGroup_PlainRead(w) ==
    /\ At(w, StatusOps \cup {"break_glass"}, "lock_owners")
    /\ Goto(w, IF req[w].op \in StatusOps /\ groups[Admin] = "stored"
               THEN "check" ELSE "write")
    /\ UNCHANGED <<rowVars, lockVars>>

\* A status change without an owner group needs no check; break-glass creates
\* the group when it commits.
LockOwnerGroup(w) ==
    /\ At(w, StatusOps \cup {"break_glass"}, "lock_owners")
    /\ IF groups[Admin] # "stored"
       THEN Goto(w, "write") /\ UNCHANGED groupLock
       ELSE /\ groupLock[Admin] = None
            /\ groupLock' = [groupLock EXCEPT ![Admin] = w]
            /\ Goto(w, IF req[w].op \in StatusOps THEN "check" ELSE "write")
    /\ UNCHANGED <<rowVars, orgLock, userLock>>

LockGroup(w) ==
    LET g == req[w].group
    IN  /\ At(w, MembershipOps \cup ScimGroupOps, "lock_group")
        /\ IF groups[g] # "stored" THEN Refuse(w)
           ELSE /\ groupLock[g] = None
                /\ groupLock' = [groupLock EXCEPT ![g] = w]
                /\ Goto(w, "check")
                /\ UNCHANGED <<rowVars, orgLock, userLock>>

-----------------------------------------------------------------------------
(* Status changes.                                                         *)

CheckDeactivation(w) ==
    /\ At(w, StatusOps, "check")
    /\ IF req[w].user \in Owners /\ OtherActiveOwners(req[w].user) = {}
       THEN Refuse(w)
       ELSE Goto(w, "write") /\ UNCHANGED <<rowVars, lockVars>>

\* The credentials this revokes when the status is not active are the subject
\* of TokenGrants.
WriteStatus(w) ==
    /\ At(w, StatusOps, "write")
    /\ status' = [status EXCEPT ![req[w].user] = req[w].next]
    /\ Finish(w)
    /\ UNCHANGED <<groups, role>>

-----------------------------------------------------------------------------
(* Memberships.                                                            *)

\* The owner group would be left without the user's ownership.
LosesOwner(r) ==
    /\ r.group = Admin
    /\ r.op = "remove" \/ r.next # "owner"
    /\ role[r.group][r.user] = "owner"

CheckMembership(w) ==
    LET r == req[w]
        missing == IF r.op = "upsert" THEN status[r.user] = "absent"
                   ELSE role[r.group][r.user] = "none"
        last == /\ LosesOwner(r)
                /\ status[r.user] = "active"
                /\ OtherActiveOwners(r.user) = {}
    IN  /\ At(w, MembershipOps, "check")
        /\ IF missing \/ last THEN Refuse(w)
           ELSE Goto(w, "write") /\ UNCHANGED <<rowVars, lockVars>>

\* Mutant: a removed membership keeps a row without a role.
WriteMembership_KeepsRow(w) ==
    LET r == req[w]
        inserts == r.op = "upsert" /\ role[r.group][r.user] = "none"
    IN  /\ At(w, MembershipOps, "write")
        /\ inserts => userLock[r.user] = None /\ orgLock = None
        /\ role' = [role EXCEPT ![r.group][r.user] = r.next]
        /\ Finish(w)
        /\ UNCHANGED <<status, groups>>

\* An INSERT that finds a row updates its role; one that does not takes key
\* shares on the user and the organization.
WriteMembership(w) ==
    LET r == req[w]
        inserts == r.op = "upsert" /\ role[r.group][r.user] = "none"
    IN  /\ At(w, MembershipOps, "write")
        /\ inserts => userLock[r.user] = None /\ orgLock = None
        /\ role' = [role EXCEPT ![r.group][r.user] =
                        IF r.op = "upsert" THEN r.next ELSE "none"]
        /\ Finish(w)
        /\ UNCHANGED <<status, groups>>

-----------------------------------------------------------------------------
(* SCIM groups.                                                            *)

CheckScimGroup(w) ==
    LET r == req[w]
    IN  /\ At(w, ScimGroupOps, "check")
        /\ IF r.group = Admin \/ \E u \in r.members : status[u] = "absent"
           THEN Refuse(w)
           ELSE Goto(w, "write") /\ UNCHANGED <<rowVars, lockVars>>

\* Members that are not listed are deleted, and the listed ones upserted as
\* plain members.
WriteScimMembers(w) ==
    LET r == req[w]
        added == r.members \ Members(r.group)
    IN  /\ At(w, {"scim_replace", "scim_add"}, "write")
        /\ added # {} => orgLock = None
        /\ \A u \in added : userLock[u] = None
        /\ role' = [role EXCEPT ![r.group] =
               [u \in Users |-> IF u \in r.members THEN "member" ELSE "none"]]
        /\ Finish(w)
        /\ UNCHANGED <<status, groups>>

WriteScimDelete(w) ==
    /\ At(w, {"scim_delete"}, "write")
    /\ groups' = [groups EXCEPT ![req[w].group] = "deleted"]
    /\ role' = [role EXCEPT ![req[w].group] = [u \in Users |-> "none"]]
    /\ Finish(w)
    /\ UNCHANGED status

-----------------------------------------------------------------------------
(* The first owner, and the recovery of one.                               *)

CheckBootstrap(w) ==
    /\ At(w, {"bootstrap"}, "check")
    /\ IF \E u \in Users : status[u] # "absent"
       THEN Refuse(w)
       ELSE Goto(w, "write") /\ UNCHANGED <<rowVars, lockVars>>

\* u makes a new row; a second owner group violates the unique slug.
WriteBootstrap(w, u) ==
    /\ At(w, {"bootstrap"}, "write")
    /\ status[u] = "absent"
    /\ IF groups[Admin] = "stored" THEN Refuse(w)
       ELSE /\ status' = [status EXCEPT ![u] = "active"]
            /\ groups' = [groups EXCEPT ![Admin] = "stored"]
            /\ role' = [role EXCEPT ![Admin][u] = "owner"]
            /\ Finish(w)

WriteBreakGlass(w) ==
    /\ At(w, {"break_glass"}, "write")
    /\ status' = [status EXCEPT ![req[w].user] = "active"]
    /\ groups' = [groups EXCEPT ![Admin] = "stored"]
    /\ role' = [role EXCEPT ![Admin][req[w].user] = "owner"]
    /\ Finish(w)

-----------------------------------------------------------------------------
(* Transactions of one step.                                               *)

\* By the console or by SCIM.
CreateUser(u, st) ==
    /\ "create_user" \in Ops
    /\ status[u] = "absent"
    /\ orgLock = None
    /\ status' = [status EXCEPT ![u] = st]
    /\ UNCHANGED <<groups, role, lockVars, req>>

CreateGroup(g) ==
    /\ "create_group" \in Ops
    /\ Authorized
    /\ groups[g] = "absent"
    /\ orgLock = None
    /\ groups' = [groups EXCEPT ![g] = "stored"]
    /\ UNCHANGED <<status, role, lockVars, req>>

\* The slug of a SCIM group has a prefix: it is never the owner group.
CreateScimGroup(g, M) ==
    /\ "scim_create" \in Ops
    /\ g # Admin
    /\ groups[g] = "absent"
    /\ orgLock = None
    /\ \A u \in M : status[u] # "absent" /\ userLock[u] = None
    /\ groups' = [groups EXCEPT ![g] = "stored"]
    /\ role' = [role EXCEPT ![g] =
           [u \in Users |-> IF u \in M THEN "member" ELSE "none"]]
    /\ UNCHANGED <<status, lockVars, req>>

\* The server stops, the connection is lost, or PostgreSQL chooses the
\* transaction as the victim of a deadlock.
Rollback(w) == req[w] # Idle /\ Refuse(w)

-----------------------------------------------------------------------------

Start(w) ==
    \/ \E u \in Users, next \in Statuses : UpdateStatus(w, u, next)
    \/ \E u \in Users : ScimPatchUser(w, u)
    \/ \E g \in Groups, u \in Users, r \in {"member", "owner"} :
           UpsertMembership(w, g, u, r)
    \/ \E g \in Groups, u \in Users : DeleteMembership(w, g, u)
    \/ \E g \in Groups, M \in SUBSET Users : ScimReplaceGroup(w, g, M)
    \/ \E g \in Groups, u \in Users : ScimAddMember(w, g, u)
    \/ \E g \in Groups : ScimDeleteGroup(w, g)
    \/ \E u \in Users : BreakGlass(w, u)
    \/ Bootstrap(w)

Continue(w) ==
    \/ LockOrganization(w) \/ LockUser(w) \/ LockOwnerGroup(w) \/ LockGroup(w)
    \/ CheckDeactivation(w) \/ WriteStatus(w)
    \/ CheckMembership(w) \/ WriteMembership(w)
    \/ CheckScimGroup(w) \/ WriteScimMembers(w) \/ WriteScimDelete(w)
    \/ CheckBootstrap(w) \/ \E u \in Users : WriteBootstrap(w, u)
    \/ WriteBreakGlass(w)

Autocommit ==
    \/ \E u \in Users, st \in Statuses : CreateUser(u, st)
    \/ \E g \in Groups : CreateGroup(g)
    \/ \E g \in Groups, M \in SUBSET Users : CreateScimGroup(g, M)

Next ==
    \/ \E w \in Workers : Start(w) \/ Continue(w) \/ Rollback(w)
    \/ Autocommit

Spec == Init /\ [][Next]_vars

-----------------------------------------------------------------------------
(* Waiting.  A lock is granted to the transactions that wait for it in     *)
(* turn, and a member of a cycle of waiting transactions is aborted.       *)

\* The holders of the locks the next statement of w needs.
Holders(w) ==
    LET r == req[w]
        added == IF r.op = "upsert"
                 THEN {u \in {r.user} : role[r.group][u] = "none"}
                 ELSE r.members \ Members(r.group)
        inserts == At(w, {"upsert", "scim_replace", "scim_add"}, "write")
                   /\ added # {}
    IN  (IF r.pc = "lock_org" \/ inserts THEN {orgLock} ELSE {})
        \cup (IF r.pc = "lock_user" THEN {userLock[r.user]} ELSE {})
        \cup (IF inserts THEN {userLock[u] : u \in added} ELSE {})
        \cup (IF r.pc = "lock_owners" THEN {groupLock[Admin]} ELSE {})
        \cup (IF r.pc = "lock_group" THEN {groupLock[r.group]} ELSE {})

\* Every member of S waits for another one, and no smaller set does.
Cycle(S) ==
    LET Stuck(T) == /\ T # {}
                    /\ \A w \in T : (Holders(w) \ {w}) \cap T # {}
    IN  Stuck(S) /\ \A T \in SUBSET S : Stuck(T) => T = S

DeadlockVictim(w) ==
    /\ \E S \in SUBSET Workers : w \in S /\ Cycle(S)
    /\ Rollback(w)

Fairness ==
    \A w \in Workers : SF_vars(Continue(w)) /\ WF_vars(DeadlockVictim(w))

FairSpec == Spec /\ Fairness

-----------------------------------------------------------------------------
(* Properties.                                                             *)

PCs == {"idle", "lock_org", "lock_user", "lock_owners", "lock_group", "check",
        "write"}

Roles == {"none", "member", "owner"}

Requests ==
    [op : OpNames \cup {"none"}, pc : PCs, user : Users \cup {None},
     group : Groups \cup {None}, next : Statuses \cup Roles \cup {None},
     members : SUBSET Users]

\* What the arguments of a request are, by operation.
ArgsOK(r) ==
    /\ r.op = "none" => r = Idle
    /\ r.op \in StatusOps => r.user \in Users /\ r.next \in Statuses
    /\ r.op \in MembershipOps => r.user \in Users /\ r.group \in Groups
    /\ r.op = "upsert" => r.next \in Roles
    /\ r.op \in ScimGroupOps => r.group \in Groups
    /\ r.op = "break_glass" => r.user \in Users

\* Rows, locks and requests are well formed.
TypeOK ==
    /\ status \in [Users -> Statuses \cup {"absent"}]
    /\ groups \in [Groups -> {"absent", "stored", "deleted"}]
    /\ role \in [Groups -> [Users -> Roles]]
    /\ orgLock \in Workers \cup {None}
    /\ userLock \in [Users -> Workers \cup {None}]
    /\ groupLock \in [Groups -> Workers \cup {None}]
    /\ req \in [Workers -> Requests]
    /\ \A w \in Workers : ArgsOK(req[w])

\* The refusals WouldDeactivateLastOwner and WouldRemoveLastOwner do their work:
\* however status changes, demotions, removals, SCIM updates and break-glass
\* recoveries interleave, an organization with an owner group has an active
\* owner.
OwnerKept == groups[Admin] = "stored" => ActiveOwners # {}

\* create_bootstrap_admin makes an owner without any authentication: it commits
\* only in an organization without users, even when users are created while it
\* runs.
BootstrapOnlyWhenEmpty ==
    [][\A w \in Workers, u \in Users :
          WriteBootstrap(w, u) => \A v \in Users : status[v] = "absent"]_vars

\* Every request ends, though status changes lock the user before the group and
\* memberships the group before the user, and break-glass the organization
\* before both.
RequestsEnd == \A w \in Workers : req[w] # Idle ~> req[w] = Idle

\* docs/api.md: "add members appends new user members and leaves existing
\* members in place".
AddKeepsMembers ==
    [][\A w \in Workers, g \in Groups :
          /\ req[w].op = "scim_add" /\ req[w].group = g
          /\ WriteScimMembers(w)
          => Members(g) \subseteq Members(g)']_vars

=============================================================================
