-------------------------- MODULE DirectoryProofs --------------------------
(***************************************************************************)
(* The owner group of Directory keeps an active owner, and bootstrap makes *)
(* an owner only in an empty organization, for any number of users,        *)
(* groups and concurrent requests.                                         *)
(***************************************************************************)
EXTENDS Directory, TLAPS

\* Worker w may take the active user u out of service: u has no ownership to
\* lose, or w holds the owner group and there is another active owner.
MayLeave(w, u) ==
    \/ status[u] # "active"
    \/ role[Admin][u] = "none"
    \/ /\ groupLock[Admin] = w /\ groups[Admin] = "stored"
       /\ role[Admin][u] = "owner" => OtherActiveOwners(u) # {}

\* What a status change knows after it locked its user.
KnowsStatus(w) ==
    LET r == req[w]
    IN  r.op \in StatusOps /\ r.pc \in {"lock_owners", "check", "write"} =>
            /\ userLock[r.user] = w /\ status[r.user] # "absent"
            /\ r.pc = "check" =>
                   groupLock[Admin] = w /\ groups[Admin] = "stored"
            /\ r.pc = "write" => r.next = "active" \/ MayLeave(w, r.user)

\* What a mutation of a group knows after it locked the group.
KnowsGroup(w) ==
    LET r == req[w]
    IN  /\ /\ r.op \in MembershipOps \cup ScimGroupOps
           /\ r.pc \in {"check", "write"}
           => groupLock[r.group] = w /\ groups[r.group] = "stored"
        /\ r.op \in MembershipOps /\ r.pc = "write" /\ LosesOwner(r) =>
               OtherActiveOwners(r.user) # {}
        /\ r.op \in ScimGroupOps /\ r.pc = "write" => r.group # Admin

\* What the two operations that lock the organization know.
KnowsOrg(w) ==
    LET r == req[w]
    IN  /\ r.op \in OrgOps /\ r.pc # "lock_org" => orgLock = w
        /\ r.op = "break_glass" /\ r.pc \in {"lock_owners", "write"} =>
               userLock[r.user] = w /\ status[r.user] # "absent"
        /\ r.op = "break_glass" /\ r.pc = "write" =>
               groupLock[Admin] = w \/ groups[Admin] # "stored"
        /\ r.op = "bootstrap" /\ r.pc = "write" =>
               \A u \in Users : status[u] = "absent"

Knows(w) == KnowsStatus(w) /\ KnowsGroup(w) /\ KnowsOrg(w)

\* Nobody is a member of an owner group that was never created.
NoOrphanOwners ==
    groups[Admin] # "stored" => \A u \in Users : role[Admin][u] = "none"

IInv ==
    /\ TypeOK
    /\ OwnerKept
    /\ NoOrphanOwners
    /\ \A w \in Workers : Knows(w)

-----------------------------------------------------------------------------
(* What the steps of the others leave alone.                               *)

\* The step is not one of v, and spares what the locks of v protect.
Undisturbed(v) ==
    /\ req'[v] = req[v]
    /\ orgLock = v =>
           /\ orgLock' = v
           /\ groups'[Admin] = "stored" => groups[Admin] = "stored"
           /\ \A u \in Users : status[u] = "absent" => status'[u] = "absent"
    /\ \A u \in Users : userLock[u] = v /\ status[u] # "absent" =>
           /\ userLock'[u] = v
           /\ status'[u] = status[u]
           /\ role[Admin][u] = "none" => role'[Admin][u] = "none"
    /\ \A g \in Groups : groupLock[g] = v /\ groups[g] = "stored" =>
           groupLock'[g] = v /\ groups'[g] = "stored"
    /\ groupLock[Admin] = v /\ groups[Admin] = "stored" =>
           /\ role'[Admin] = role[Admin]
           /\ ActiveOwners \subseteq ActiveOwners'

\* What v knows stays true.
LEMMA StillKnows ==
    ASSUME NEW v \in Workers, TypeOK, Knows(v), Undisturbed(v)
    PROVE  Knows(v)'
  <1>a. PICK r \in Requests : r = req[v]
    BY DEF TypeOK
  <1>0. r = req[v] /\ req'[v] = r /\ ArgsOK(r)
    BY <1>a DEF TypeOK, Undisturbed
  <1> USE <1>0, AdminAssumption
  <1>1. ASSUME groupLock[Admin] = v, groups[Admin] = "stored"
        PROVE  \A u \in Users :
                   OtherActiveOwners(u) # {} => (OtherActiveOwners(u) # {})'
    BY <1>1 DEF OtherActiveOwners, Undisturbed
  <1>2. KnowsStatus(v)'
    <2> SUFFICES ASSUME r.op \in StatusOps,
                        r.pc \in {"lock_owners", "check", "write"}
                 PROVE  /\ userLock'[r.user] = v /\ status'[r.user] # "absent"
                        /\ r.pc = "check" =>
                             groupLock'[Admin] = v /\ groups'[Admin] = "stored"
                        /\ r.pc = "write" =>
                             r.next = "active" \/ MayLeave(v, r.user)'
      BY DEF KnowsStatus
    <2>1. /\ r.user \in Users
          /\ userLock[r.user] = v /\ status[r.user] # "absent"
          /\ r.pc = "check" => groupLock[Admin] = v /\ groups[Admin] = "stored"
          /\ r.pc = "write" => r.next = "active" \/ MayLeave(v, r.user)
      BY DEF Knows, KnowsStatus, ArgsOK
    <2>2. /\ userLock'[r.user] = v /\ status'[r.user] = status[r.user]
          /\ role[Admin][r.user] = "none" => role'[Admin][r.user] = "none"
      BY <2>1 DEF Undisturbed
    <2>3. groupLock[Admin] = v /\ groups[Admin] = "stored" =>
             /\ groupLock'[Admin] = v /\ groups'[Admin] = "stored"
             /\ role'[Admin] = role[Admin]
      BY DEF Undisturbed
    <2>4. MayLeave(v, r.user) => MayLeave(v, r.user)'
      BY <1>1, <2>1, <2>2, <2>3 DEF MayLeave
    <2> QED
      BY <2>1, <2>2, <2>3, <2>4
  <1>3. KnowsGroup(v)'
    <2>1. ASSUME r.op \in MembershipOps \cup ScimGroupOps,
                 r.pc \in {"check", "write"}
          PROVE  /\ r.group \in Groups
                 /\ groupLock[r.group] = v /\ groups[r.group] = "stored"
                 /\ groupLock'[r.group] = v /\ groups'[r.group] = "stored"
      BY <2>1 DEF Knows, KnowsGroup, Undisturbed, ArgsOK
    <2>2. ASSUME r.op \in MembershipOps, r.pc = "write", LosesOwner(r)'
          PROVE  (OtherActiveOwners(r.user) # {})'
      <3>1. r.group = Admin /\ r.user \in Users
        BY <2>2 DEF LosesOwner, ArgsOK
      <3>2. role'[Admin] = role[Admin]
        BY <2>1, <2>2, <3>1 DEF Undisturbed
      <3>3. LosesOwner(r)
        BY <2>2, <3>1, <3>2 DEF LosesOwner
      <3>4. OtherActiveOwners(r.user) # {}
        BY <2>2, <3>3 DEF Knows, KnowsGroup
      <3> QED
        BY <1>1, <2>1, <2>2, <3>1, <3>4
    <2>3. r.op \in ScimGroupOps /\ r.pc = "write" => r.group # Admin
      BY DEF Knows, KnowsGroup
    <2> QED
      BY <2>1, <2>2, <2>3 DEF KnowsGroup
  <1>4. KnowsOrg(v)'
    BY DEF Knows, KnowsOrg, Undisturbed, ArgsOK, OrgOps
  <1> QED
    BY <1>2, <1>3, <1>4 DEF Knows

-----------------------------------------------------------------------------
(* Steps that change requests and locks only.                              *)

\* The step belongs to w: the others keep their requests and their locks.
OthersKeep(w) ==
    \A v \in Workers \ {w} :
        /\ req'[v] = req[v]
        /\ orgLock = v => orgLock' = v
        /\ \A u \in Users : userLock[u] = v => userLock'[u] = v
        /\ \A g \in Groups : groupLock[g] = v => groupLock'[g] = v

\* The locks and the requests after the step are well formed.
NextRequestsOK ==
    /\ orgLock' \in Workers \cup {None}
    /\ userLock' \in [Users -> Workers \cup {None}]
    /\ groupLock' \in [Groups -> Workers \cup {None}]
    /\ req' \in [Workers -> Requests]
    /\ \A v \in Workers : ArgsOK(req'[v])

\* A worker that is idle knows nothing.
LEMMA IdleKnows ==
    /\ Idle \in Requests
    /\ ArgsOK(Idle)
    /\ \A w \in Workers : req'[w] = Idle => Knows(w)'
  <1>1. Idle \in Requests /\ ArgsOK(Idle) /\ Idle.op = "none"
    BY DEF Idle, Request, Requests, PCs, ArgsOK, StatusOps, MembershipOps,
           ScimGroupOps
  <1>2. ASSUME NEW w \in Workers, req'[w] = Idle
        PROVE  Knows(w)'
    BY <1>1, <1>2 DEF Knows, KnowsStatus, KnowsGroup, KnowsOrg, StatusOps,
                      MembershipOps, ScimGroupOps, OrgOps
  <1> QED
    BY <1>1, <1>2

\* Ending a transaction releases its locks and no others.
LEMMA FinishReleases ==
    ASSUME NEW w \in Workers, TypeOK, Finish(w)
    PROVE  /\ OthersKeep(w)
           /\ NextRequestsOK
           /\ Knows(w)'
  <1>1. req'[w] = Idle /\ \A v \in Workers \ {w} : req'[v] = req[v]
    BY DEF Finish, TypeOK
  <1>2. OthersKeep(w)
    BY <1>1 DEF OthersKeep, Finish, TypeOK
  <1>3. NextRequestsOK
    <2>1. req' \in [Workers -> Requests]
      BY IdleKnows DEF Finish, TypeOK
    <2>2. \A v \in Workers : ArgsOK(req'[v])
      BY <1>1, IdleKnows DEF TypeOK
    <2> QED
      BY <2>1, <2>2 DEF NextRequestsOK, Finish, TypeOK
  <1> QED
    BY <1>1, <1>2, <1>3, IdleKnows

\* Going to the next statement keeps the request well formed.
LEMMA GotoRequest ==
    ASSUME NEW w \in Workers, NEW pc \in PCs \ {"idle"}, TypeOK, Goto(w, pc),
           req[w].op # "none"
    PROVE  /\ req' \in [Workers -> Requests]
           /\ \A v \in Workers : ArgsOK(req'[v])
           /\ \A v \in Workers \ {w} : req'[v] = req[v]
           /\ req'[w] = Request(req[w].op, pc, req[w].user, req[w].group,
                                req[w].next, req[w].members)
  <1>1. req[w] \in Requests /\ ArgsOK(req[w])
    BY DEF TypeOK
  <1>2. PICK r : r = Request(req[w].op, pc, req[w].user, req[w].group,
                             req[w].next, req[w].members)
    OBVIOUS
  <1>3. r \in Requests /\ ArgsOK(r)
    BY <1>1, <1>2 DEF Request, Requests, ArgsOK
  <1>4. req' = [req EXCEPT ![w] = r]
    BY <1>2 DEF Goto
  <1> QED
    BY <1>2, <1>3, <1>4 DEF TypeOK

\* A step of w that changes no row keeps IInv if w knows what it should.
LEMMA RowsUntouched ==
    ASSUME NEW w \in Workers, IInv, UNCHANGED rowVars, OthersKeep(w),
           NextRequestsOK, Knows(w)'
    PROVE  IInv'
  <1>1. status' = status /\ groups' = groups /\ role' = role
    BY DEF rowVars
  <1>2. TypeOK'
    BY <1>1 DEF IInv, TypeOK, NextRequestsOK
  <1>3. OwnerKept' /\ NoOrphanOwners'
    BY <1>1 DEF IInv, OwnerKept, NoOrphanOwners, ActiveOwners, Owners
  <1>4. ASSUME NEW v \in Workers \ {w}
        PROVE  Knows(v)'
    <2>1. Undisturbed(v)
      BY <1>1 DEF OthersKeep, Undisturbed, ActiveOwners, Owners
    <2> QED
      BY <2>1, StillKnows DEF IInv
  <1> QED
    BY <1>2, <1>3, <1>4 DEF IInv

\* A refused or rolled back transaction keeps IInv.
LEMMA Refused ==
    ASSUME NEW w \in Workers, IInv, Refuse(w)
    PROVE  IInv'
  BY FinishReleases, RowsUntouched DEF Refuse, IInv

\* Accepting a request keeps IInv: it is at a statement that needs no lock yet.
LEMMA Accepted ==
    ASSUME NEW w \in Workers, NEW op, NEW STATE r, IInv, Accept(w, op, r),
           r \in Requests, ArgsOK(r),
           r.pc \in {"lock_org", "lock_user", "lock_group"},
           r.op \in OrgOps => r.pc = "lock_org",
           r.op \in StatusOps => r.pc = "lock_user",
           r.op \in MembershipOps \cup ScimGroupOps => r.pc = "lock_group"
    PROVE  IInv'
  <1>1. req'[w] = r /\ \A v \in Workers \ {w} : req'[v] = req[v]
    BY DEF Accept, IInv, TypeOK
  <1>2. OthersKeep(w) /\ UNCHANGED rowVars
    BY <1>1 DEF OthersKeep, Accept, lockVars
  <1>3. NextRequestsOK
    BY <1>1 DEF NextRequestsOK, Accept, lockVars, IInv, TypeOK
  <1>4. Knows(w)'
    BY <1>1 DEF Knows, KnowsStatus, KnowsGroup, KnowsOrg, OrgOps
  <1> QED
    BY <1>2, <1>3, <1>4, RowsUntouched

-----------------------------------------------------------------------------
(* One lemma per group of actions.                                         *)

LEMMA StartKeeps ==
    ASSUME NEW w \in Workers, IInv, Start(w)
    PROVE  IInv'
  <1> USE DEF Request, Requests, ArgsOK, PCs, OpNames, StatusOps,
              MembershipOps, ScimGroupOps, OrgOps, Roles
  <1>1. ASSUME NEW u \in Users, NEW next \in Statuses, UpdateStatus(w, u, next)
        PROVE  IInv'
    BY <1>1, Accepted DEF UpdateStatus
  <1>2. ASSUME NEW u \in Users, ScimPatchUser(w, u)
        PROVE  IInv'
    <2>1. status[u] \in Statuses
      BY <1>2 DEF ScimPatchUser, IInv, TypeOK
    <2> QED
      BY <1>2, <2>1, Accepted DEF ScimPatchUser
  <1>3. ASSUME NEW g \in Groups, NEW u \in Users, NEW r \in {"member", "owner"},
               UpsertMembership(w, g, u, r)
        PROVE  IInv'
    BY <1>3, Accepted DEF UpsertMembership
  <1>4. ASSUME NEW g \in Groups, NEW u \in Users, DeleteMembership(w, g, u)
        PROVE  IInv'
    BY <1>4, Accepted DEF DeleteMembership
  <1>5. ASSUME NEW g \in Groups, NEW M \in SUBSET Users,
               ScimReplaceGroup(w, g, M)
        PROVE  IInv'
    BY <1>5, Accepted DEF ScimReplaceGroup
  <1>6. ASSUME NEW g \in Groups, NEW u \in Users, ScimAddMember(w, g, u)
        PROVE  IInv'
    <2>1. Members(g) \cup {u} \in SUBSET Users
      BY DEF Members
    <2> QED
      BY <1>6, <2>1, Accepted DEF ScimAddMember
  <1>7. ASSUME NEW g \in Groups, ScimDeleteGroup(w, g)
        PROVE  IInv'
    BY <1>7, Accepted DEF ScimDeleteGroup
  <1>8. ASSUME NEW u \in Users, BreakGlass(w, u)
        PROVE  IInv'
    BY <1>8, Accepted, AdminAssumption DEF BreakGlass
  <1>9. CASE Bootstrap(w)
    BY <1>9, Accepted, AdminAssumption DEF Bootstrap
  <1> QED
    BY <1>1, <1>2, <1>3, <1>4, <1>5, <1>6, <1>7, <1>8, <1>9 DEF Start

LEMMA LocksKeep ==
    ASSUME NEW w \in Workers, IInv,
           \/ LockOrganization(w) \/ LockUser(w) \/ LockOwnerGroup(w)
           \/ LockGroup(w)
    PROVE  IInv'
  <1>0. /\ TypeOK /\ None \notin Workers /\ Admin \in Groups
        /\ req[w] \in Requests /\ ArgsOK(req[w]) /\ Knows(w)
    BY AdminAssumption, DirectoryNoneAssumption DEF IInv, TypeOK
  <1> USE <1>0
  <1>1. CASE LockOrganization(w)
    <2>1. PICK pc \in {"check", "lock_user"} :
             /\ Goto(w, pc) /\ orgLock = None /\ orgLock' = w
             /\ UNCHANGED <<rowVars, userLock, groupLock>>
             /\ req[w].op \in OrgOps
      BY <1>1 DEF LockOrganization, At
    <2>2. req[w].op # "none" /\ pc \in PCs \ {"idle"}
      BY <2>1 DEF OrgOps, PCs
    <2>3. /\ req' \in [Workers -> Requests]
          /\ \A v \in Workers : ArgsOK(req'[v])
          /\ \A v \in Workers \ {w} : req'[v] = req[v]
          /\ req'[w] = Request(req[w].op, pc, req[w].user, req[w].group,
                               req[w].next, req[w].members)
      BY <2>1, <2>2, GotoRequest
    <2>4. OthersKeep(w) /\ NextRequestsOK
      BY <2>1, <2>3 DEF OthersKeep, NextRequestsOK, TypeOK
    <2>5. Knows(w)'
      BY <2>1, <2>3 DEF Knows, KnowsStatus, KnowsGroup, KnowsOrg, Request,
           StatusOps, MembershipOps, ScimGroupOps, OrgOps
    <2> QED
      BY <2>1, <2>4, <2>5, RowsUntouched
  <1>2. CASE LockUser(w)
    <2> DEFINE u == req[w].user
    <2>1. CASE status[u] = "absent"
      BY <1>2, <2>1, Refused DEF LockUser
    <2>2. CASE status[u] # "absent"
      <3>1. PICK pc \in {"lock_owners", "write"} :
               /\ Goto(w, pc) /\ userLock[u] = None
               /\ userLock' = [userLock EXCEPT ![u] = w]
               /\ UNCHANGED <<rowVars, orgLock, groupLock>>
               /\ req[w].op \in StatusOps \cup {"break_glass"}
               /\ req[w].pc = "lock_user"
               /\ req[w].op = "break_glass" => pc = "lock_owners"
               /\ pc = "write" => status[u] # "active" \/ req[w].next = "active"
        BY <1>2, <2>2 DEF LockUser, At
      <3>2. /\ req[w].op # "none" /\ pc \in PCs \ {"idle"}
            /\ u \in Users
        BY <3>1 DEF StatusOps, PCs, ArgsOK
      <3>3. /\ req' \in [Workers -> Requests]
            /\ \A v \in Workers : ArgsOK(req'[v])
            /\ \A v \in Workers \ {w} : req'[v] = req[v]
            /\ req'[w] = Request(req[w].op, pc, req[w].user, req[w].group,
                                 req[w].next, req[w].members)
        BY <3>1, <3>2, GotoRequest
      <3>4. OthersKeep(w) /\ NextRequestsOK
        BY <3>1, <3>2, <3>3 DEF OthersKeep, NextRequestsOK, TypeOK
      <3>5. userLock'[u] = w /\ status' = status /\ orgLock' = orgLock
        BY <3>1, <3>2 DEF rowVars, TypeOK
      <3>6. Knows(w)'
        BY <2>2, <3>1, <3>2, <3>3, <3>5
        DEF Knows, KnowsStatus, KnowsGroup, KnowsOrg, Request, MayLeave,
            StatusOps, MembershipOps, ScimGroupOps, OrgOps
      <3> QED
        BY <3>1, <3>4, <3>6, RowsUntouched
    <2> QED
      BY <2>1, <2>2
  <1>3. CASE LockOwnerGroup(w)
    <2>1. PICK pc \in {"check", "write"} :
             /\ Goto(w, pc)
             /\ UNCHANGED <<rowVars, orgLock, userLock>>
             /\ req[w].op \in StatusOps \cup {"break_glass"}
             /\ req[w].pc = "lock_owners"
             /\ \/ /\ groups[Admin] # "stored" /\ pc = "write"
                   /\ groupLock' = groupLock
                \/ /\ groups[Admin] = "stored"
                   /\ groupLock[Admin] = None
                   /\ groupLock' = [groupLock EXCEPT ![Admin] = w]
                   /\ pc = (IF req[w].op \in StatusOps THEN "check"
                            ELSE "write")
      BY <1>3 DEF LockOwnerGroup, At
    <2>2. /\ req[w].op # "none" /\ pc \in PCs \ {"idle"}
          /\ req[w].user \in Users
      BY <2>1 DEF StatusOps, PCs, ArgsOK
    <2>3. /\ req' \in [Workers -> Requests]
          /\ \A v \in Workers : ArgsOK(req'[v])
          /\ \A v \in Workers \ {w} : req'[v] = req[v]
          /\ req'[w] = Request(req[w].op, pc, req[w].user, req[w].group,
                               req[w].next, req[w].members)
      BY <2>1, <2>2, GotoRequest
    <2>4. OthersKeep(w) /\ NextRequestsOK
      BY <2>1, <2>3 DEF OthersKeep, NextRequestsOK, TypeOK
    <2>5. /\ groups[Admin] = "stored" => groupLock'[Admin] = w
          /\ groups[Admin] # "stored" => role[Admin][req[w].user] = "none"
          /\ status' = status /\ groups' = groups /\ role' = role
          /\ orgLock' = orgLock /\ userLock' = userLock
      BY <2>1, <2>2 DEF rowVars, TypeOK, IInv, NoOrphanOwners
    <2>6. KnowsStatus(w)'
      BY <2>1, <2>2, <2>3, <2>5
      DEF Knows, KnowsStatus, Request, MayLeave, StatusOps
    <2>7. KnowsGroup(w)' /\ KnowsOrg(w)'
      BY <2>1, <2>2, <2>3, <2>5
      DEF Knows, KnowsGroup, KnowsOrg, Request, StatusOps, MembershipOps,
          ScimGroupOps, OrgOps
    <2> QED
      BY <2>1, <2>4, <2>6, <2>7, RowsUntouched DEF Knows
  <1>4. CASE LockGroup(w)
    <2> DEFINE g == req[w].group
    <2>1. CASE groups[g] # "stored"
      BY <1>4, <2>1, Refused DEF LockGroup
    <2>2. CASE groups[g] = "stored"
      <3>1. /\ Goto(w, "check") /\ groupLock[g] = None
            /\ groupLock' = [groupLock EXCEPT ![g] = w]
            /\ UNCHANGED <<rowVars, orgLock, userLock>>
            /\ req[w].op \in MembershipOps \cup ScimGroupOps
        BY <1>4, <2>2 DEF LockGroup, At
      <3>2. /\ req[w].op # "none" /\ "check" \in PCs \ {"idle"}
            /\ g \in Groups
        BY <3>1 DEF MembershipOps, ScimGroupOps, PCs, ArgsOK
      <3>3. /\ req' \in [Workers -> Requests]
            /\ \A v \in Workers : ArgsOK(req'[v])
            /\ \A v \in Workers \ {w} : req'[v] = req[v]
            /\ req'[w] = Request(req[w].op, "check", req[w].user, req[w].group,
                                 req[w].next, req[w].members)
        BY <3>1, <3>2, GotoRequest
      <3>4. OthersKeep(w) /\ NextRequestsOK
        BY <3>1, <3>2, <3>3 DEF OthersKeep, NextRequestsOK, TypeOK
      <3>5. groupLock'[g] = w /\ groups' = groups
        BY <3>1, <3>2 DEF rowVars, TypeOK
      <3>6. Knows(w)'
        BY <2>2, <3>1, <3>3, <3>5
        DEF Knows, KnowsStatus, KnowsGroup, KnowsOrg, Request, StatusOps,
            MembershipOps, ScimGroupOps, OrgOps
      <3> QED
        BY <3>1, <3>4, <3>6, RowsUntouched
    <2> QED
      BY <2>1, <2>2
  <1> QED
    BY <1>1, <1>2, <1>3, <1>4

\* A check that passed: the request goes on to its write.
LEMMA Passed ==
    ASSUME NEW w \in Workers, IInv, Goto(w, "write"),
           UNCHANGED <<rowVars, lockVars>>, req[w].op # "none",
           KnowsStatus(w)', KnowsGroup(w)', KnowsOrg(w)'
    PROVE  IInv'
  <1>1. /\ req' \in [Workers -> Requests]
        /\ \A v \in Workers : ArgsOK(req'[v])
        /\ \A v \in Workers \ {w} : req'[v] = req[v]
    BY GotoRequest DEF IInv, PCs
  <1>2. OthersKeep(w) /\ NextRequestsOK
    BY <1>1 DEF OthersKeep, NextRequestsOK, lockVars, IInv, TypeOK
  <1> QED
    BY <1>2, RowsUntouched DEF Knows

LEMMA ChecksKeep ==
    ASSUME NEW w \in Workers, IInv,
           \/ CheckDeactivation(w) \/ CheckMembership(w)
           \/ CheckScimGroup(w) \/ CheckBootstrap(w)
    PROVE  IInv'
  <1>a. PICK r \in Requests : r = req[w]
    BY DEF IInv, TypeOK
  <1>0. /\ TypeOK /\ Admin \in Groups /\ r = req[w] /\ ArgsOK(r) /\ Knows(w)
    BY <1>a, AdminAssumption DEF IInv, TypeOK
  <1>1. ASSUME Goto(w, "write"), r.op # "none", UNCHANGED <<rowVars, lockVars>>
        PROVE  /\ req'[w] = Request(r.op, "write", r.user, r.group, r.next,
                                    r.members)
               /\ status' = status /\ groups' = groups /\ role' = role
               /\ orgLock' = orgLock /\ userLock' = userLock
               /\ groupLock' = groupLock
    BY <1>0, <1>1, GotoRequest DEF rowVars, lockVars, PCs
  <1>2. CASE CheckDeactivation(w)
    <2>1. CASE Refuse(w)
      BY <2>1, Refused
    <2>2. CASE ~Refuse(w)
      <3>1. /\ Goto(w, "write") /\ UNCHANGED <<rowVars, lockVars>>
            /\ r.op \in StatusOps /\ r.pc = "check"
            /\ r.user \in Owners => OtherActiveOwners(r.user) # {}
        BY <1>0, <1>2, <2>2 DEF CheckDeactivation, At
      <3>2. r.op # "none" /\ r.user \in Users
        BY <1>0, <3>1 DEF StatusOps, ArgsOK
      <3>3. MayLeave(w, r.user)
        BY <1>0, <3>1, <3>2 DEF MayLeave, Owners, Knows, KnowsStatus
      <3>4. MayLeave(w, r.user)'
        BY <1>0, <1>1, <3>1, <3>2, <3>3
        DEF MayLeave, OtherActiveOwners, ActiveOwners, Owners
      <3>5. KnowsStatus(w)'
        BY <1>0, <1>1, <3>1, <3>2, <3>4 DEF Knows, KnowsStatus, Request
      <3>6. KnowsGroup(w)' /\ KnowsOrg(w)'
        BY <1>0, <1>1, <3>1, <3>2
        DEF KnowsGroup, KnowsOrg, Request, StatusOps, MembershipOps,
            ScimGroupOps, OrgOps
      <3> QED
        BY <1>0, <3>1, <3>2, <3>5, <3>6, Passed
    <2> QED
      BY <2>1, <2>2
  <1>3. CASE CheckMembership(w)
    <2>1. CASE Refuse(w)
      BY <2>1, Refused
    <2>2. CASE ~Refuse(w)
      <3>1. /\ Goto(w, "write") /\ UNCHANGED <<rowVars, lockVars>>
            /\ r.op \in MembershipOps /\ r.pc = "check"
            /\ ~(/\ LosesOwner(r) /\ status[r.user] = "active"
                 /\ OtherActiveOwners(r.user) = {})
        BY <1>0, <1>3, <2>2 DEF CheckMembership, At
      <3>2. r.op # "none" /\ r.user \in Users /\ r.group \in Groups
        BY <1>0, <3>1 DEF MembershipOps, ArgsOK
      <3>3. groupLock[r.group] = w /\ groups[r.group] = "stored"
        BY <1>0, <3>1 DEF Knows, KnowsGroup
      <3>4. LosesOwner(r) => OtherActiveOwners(r.user) # {}
        BY <3>1, <3>3 DEF LosesOwner, IInv, OwnerKept, OtherActiveOwners,
                          ActiveOwners
      <3>5. KnowsGroup(w)'
        <4>1. LosesOwner(r)' => (OtherActiveOwners(r.user) # {})'
          BY <1>0, <1>1, <3>1, <3>2, <3>4
          DEF LosesOwner, OtherActiveOwners, ActiveOwners, Owners
        <4>2. LosesOwner(req[w])' => LosesOwner(r)'
          BY <1>0, <1>1, <3>1, <3>2 DEF LosesOwner, Request
        <4> QED
          BY <1>0, <1>1, <3>1, <3>2, <3>3, <4>1, <4>2
          DEF KnowsGroup, Request, MembershipOps, ScimGroupOps
      <3>6. KnowsStatus(w)' /\ KnowsOrg(w)'
        BY <1>0, <1>1, <3>1, <3>2
        DEF KnowsStatus, KnowsOrg, Request, StatusOps, MembershipOps, OrgOps
      <3> QED
        BY <1>0, <3>1, <3>2, <3>5, <3>6, Passed
    <2> QED
      BY <2>1, <2>2
  <1>4. CASE CheckScimGroup(w)
    <2>1. CASE Refuse(w)
      BY <2>1, Refused
    <2>2. CASE ~Refuse(w)
      <3>1. /\ Goto(w, "write") /\ UNCHANGED <<rowVars, lockVars>>
            /\ r.op \in ScimGroupOps /\ r.pc = "check"
            /\ r.group # Admin
        BY <1>0, <1>4, <2>2 DEF CheckScimGroup, At
      <3>2. r.op # "none"
        BY <3>1 DEF ScimGroupOps
      <3>3. KnowsStatus(w)' /\ KnowsGroup(w)' /\ KnowsOrg(w)'
        BY <1>0, <1>1, <3>1, <3>2
        DEF Knows, KnowsStatus, KnowsGroup, KnowsOrg, Request, StatusOps,
            MembershipOps, ScimGroupOps, OrgOps
      <3> QED
        BY <1>0, <3>1, <3>2, <3>3, Passed
    <2> QED
      BY <2>1, <2>2
  <1>5. CASE CheckBootstrap(w)
    <2>1. CASE Refuse(w)
      BY <2>1, Refused
    <2>2. CASE ~Refuse(w)
      <3>1. /\ Goto(w, "write") /\ UNCHANGED <<rowVars, lockVars>>
            /\ r.op = "bootstrap" /\ r.pc = "check"
            /\ \A u \in Users : status[u] = "absent"
        BY <1>0, <1>5, <2>2 DEF CheckBootstrap, At
      <3>2. KnowsStatus(w)' /\ KnowsGroup(w)' /\ KnowsOrg(w)'
        BY <1>0, <1>1, <3>1
        DEF Knows, KnowsStatus, KnowsGroup, KnowsOrg, Request, StatusOps,
            MembershipOps, ScimGroupOps, OrgOps
      <3> QED
        BY <1>0, <3>1, <3>2, Passed
    <2> QED
      BY <2>1, <2>2
  <1> QED
    BY <1>2, <1>3, <1>4, <1>5

-----------------------------------------------------------------------------
(* Steps that change rows.                                                 *)

\* The transaction of w commits: the others are undisturbed and w is idle.
LEMMA Committed ==
    ASSUME NEW w \in Workers, IInv, Finish(w),
           \A v \in Workers \ {w} : OthersKeep(w) => Undisturbed(v),
           status' \in [Users -> Statuses \cup {"absent"}],
           groups' \in [Groups -> {"absent", "stored", "deleted"}],
           role' \in [Groups -> [Users -> Roles]],
           OwnerKept', NoOrphanOwners'
    PROVE  IInv'
  <1>1. OthersKeep(w) /\ NextRequestsOK /\ Knows(w)'
    BY FinishReleases DEF IInv
  <1>2. \A v \in Workers \ {w} : Knows(v)'
    BY <1>1, StillKnows DEF IInv
  <1>3. TypeOK'
    BY <1>1 DEF TypeOK, NextRequestsOK
  <1> QED
    BY <1>1, <1>2, <1>3 DEF IInv

LEMMA WriteStatusKeeps ==
    ASSUME NEW w \in Workers, IInv, WriteStatus(w)
    PROVE  IInv'
  <1>a. PICK r \in Requests : r = req[w]
    BY DEF IInv, TypeOK
  <1>0. /\ TypeOK /\ Admin \in Groups /\ r = req[w] /\ ArgsOK(r) /\ Knows(w)
        /\ r.op \in StatusOps /\ r.pc = "write"
    BY <1>a, AdminAssumption DEF IInv, TypeOK, WriteStatus, At
  <1>1. /\ r.user \in Users /\ r.next \in Statuses
        /\ status' = [status EXCEPT ![r.user] = r.next]
        /\ Finish(w) /\ groups' = groups /\ role' = role
    BY <1>0 DEF WriteStatus, ArgsOK
  <1>2. /\ userLock[r.user] = w /\ status[r.user] # "absent"
        /\ r.next = "active" \/ MayLeave(w, r.user)
    BY <1>0 DEF Knows, KnowsStatus
  <1>3. \A u \in Users : status'[u] = IF u = r.user THEN r.next ELSE status[u]
    BY <1>0, <1>1 DEF TypeOK
  <1>4. r.next # "absent"
    BY <1>1, StatusAssumption
  \* An active owner is lost only under the lock on the owner group.
  <1>5. groupLock[Admin] = w \/ ActiveOwners \subseteq ActiveOwners'
    BY <1>1, <1>2, <1>3 DEF MayLeave, ActiveOwners, Owners
  <1>6. ASSUME NEW v \in Workers \ {w}, OthersKeep(w)
        PROVE  Undisturbed(v)
    BY <1>1, <1>2, <1>3, <1>4, <1>5, <1>6 DEF Undisturbed, OthersKeep
  <1>7. OwnerKept'
    BY <1>1, <1>2, <1>3 DEF MayLeave, IInv, OwnerKept, OtherActiveOwners,
                            ActiveOwners, Owners
  <1>8. NoOrphanOwners'
    BY <1>1 DEF IInv, NoOrphanOwners
  <1> QED
    BY <1>0, <1>1, <1>6, <1>7, <1>8, Committed DEF TypeOK

LEMMA WriteMembershipKeeps ==
    ASSUME NEW w \in Workers, IInv, WriteMembership(w)
    PROVE  IInv'
  <1>a. PICK r \in Requests : r = req[w]
    BY DEF IInv, TypeOK
  <1>0. /\ TypeOK /\ Admin \in Groups /\ r = req[w] /\ ArgsOK(r) /\ Knows(w)
        /\ r.op \in MembershipOps /\ r.pc = "write" /\ None \notin Workers
    BY <1>a, AdminAssumption, DirectoryNoneAssumption
    DEF IInv, TypeOK, WriteMembership, At
  <1>b. PICK new : new = (IF r.op = "upsert" THEN r.next ELSE "none")
    OBVIOUS
  <1>1. /\ r.user \in Users /\ r.group \in Groups /\ new \in Roles
        /\ r.op = "upsert" /\ role[r.group][r.user] = "none" =>
               userLock[r.user] = None
        /\ role' = [role EXCEPT ![r.group][r.user] = new]
        /\ Finish(w) /\ groups' = groups /\ status' = status
    BY <1>0, <1>b DEF WriteMembership, ArgsOK, MembershipOps, Roles
  <1>2. /\ groupLock[r.group] = w /\ groups[r.group] = "stored"
        /\ LosesOwner(r) => OtherActiveOwners(r.user) # {}
    BY <1>0 DEF Knows, KnowsGroup
  <1>3. \A g \in Groups, u \in Users :
           role'[g][u] = IF g = r.group /\ u = r.user THEN new ELSE role[g][u]
    BY <1>0, <1>1 DEF TypeOK
  <1>4. r.group # Admin => role'[Admin] = role[Admin]
    BY <1>0, <1>1 DEF TypeOK
  <1>5. ASSUME NEW v \in Workers \ {w}, OthersKeep(w)
        PROVE  Undisturbed(v)
    <2>1. \A u \in Users : userLock[u] = v /\ role[Admin][u] = "none" =>
             role'[Admin][u] = "none"
      BY <1>0, <1>1, <1>3, <1>b, <1>5 DEF MembershipOps
    <2>2. groupLock[Admin] = v => ActiveOwners \subseteq ActiveOwners'
      BY <1>1, <1>2, <1>4, <1>5 DEF ActiveOwners, Owners
    <2> QED
      BY <1>1, <1>2, <1>4, <1>5, <2>1, <2>2 DEF Undisturbed, OthersKeep
  <1>6. OwnerKept'
    <2>1. CASE LosesOwner(r)
      BY <1>0, <1>1, <1>2, <1>3, <2>1
      DEF OwnerKept, OtherActiveOwners, ActiveOwners, Owners
    <2>2. CASE ~LosesOwner(r)
      <3>1. ActiveOwners \subseteq ActiveOwners'
        BY <1>0, <1>1, <1>3, <1>b, <2>2
        DEF LosesOwner, ActiveOwners, Owners, MembershipOps
      <3> QED
        BY <1>1, <3>1 DEF IInv, OwnerKept
    <2> QED
      BY <2>1, <2>2
  <1>7. NoOrphanOwners'
    BY <1>0, <1>1, <1>2, <1>3 DEF IInv, NoOrphanOwners
  <1>8. role' \in [Groups -> [Users -> Roles]]
    BY <1>0, <1>1 DEF TypeOK
  <1> QED
    BY <1>0, <1>1, <1>5, <1>6, <1>7, <1>8, Committed DEF TypeOK

\* SCIM never writes the owner group.
LEMMA WriteScimKeeps ==
    ASSUME NEW w \in Workers, IInv, WriteScimMembers(w) \/ WriteScimDelete(w)
    PROVE  IInv'
  <1>a. PICK r \in Requests : r = req[w]
    BY DEF IInv, TypeOK
  <1>0. /\ TypeOK /\ Admin \in Groups /\ r = req[w] /\ ArgsOK(r) /\ Knows(w)
        /\ r.op \in ScimGroupOps /\ r.pc = "write"
    BY <1>a, AdminAssumption
    DEF IInv, TypeOK, WriteScimMembers, WriteScimDelete, At, ScimGroupOps
  <1>1. /\ r.group \in Groups \ {Admin}
        /\ groupLock[r.group] = w
    BY <1>0 DEF ArgsOK, Knows, KnowsGroup
  <1>b. PICK M \in [Users -> Roles] :
           /\ Finish(w) /\ status' = status
           /\ role' = [role EXCEPT ![r.group] = M]
           /\ \/ groups' = groups
              \/ groups' = [groups EXCEPT ![r.group] = "deleted"]
    <2> USE DEF Roles
    <2>1. CASE WriteScimMembers(w)
      <3> WITNESS [u \in Users |-> IF u \in r.members THEN "member" ELSE "none"]
                  \in [Users -> Roles]
      <3> QED
        BY <1>0, <2>1 DEF WriteScimMembers
    <2>2. CASE WriteScimDelete(w)
      <3> WITNESS [u \in Users |-> "none"] \in [Users -> Roles]
      <3> QED
        BY <1>0, <2>2 DEF WriteScimDelete
    <2> QED
      BY <2>1, <2>2
  <1>2. /\ Finish(w) /\ status' = status
        /\ groups' \in [Groups -> {"absent", "stored", "deleted"}]
        /\ role' \in [Groups -> [Users -> Roles]]
        /\ \A g \in Groups \ {r.group} :
               groups'[g] = groups[g] /\ role'[g] = role[g]
    BY <1>0, <1>1, <1>b DEF TypeOK
  <1>3. ActiveOwners' = ActiveOwners
    BY <1>0, <1>1, <1>2 DEF ActiveOwners, Owners
  <1>4. ASSUME NEW v \in Workers \ {w}, OthersKeep(w)
        PROVE  Undisturbed(v)
    BY <1>0, <1>1, <1>2, <1>3, <1>4 DEF Undisturbed, OthersKeep
  <1>5. OwnerKept' /\ NoOrphanOwners'
    BY <1>0, <1>1, <1>2, <1>3 DEF IInv, OwnerKept, NoOrphanOwners
  <1> QED
    BY <1>0, <1>2, <1>4, <1>5, Committed DEF TypeOK

\* Bootstrap commits while nobody exists.
LEMMA BootstrapEmpty ==
    ASSUME IInv, NEW w \in Workers, NEW u \in Users, WriteBootstrap(w, u)
    PROVE  orgLock = w /\ \A v \in Users : status[v] = "absent"
  BY DEF IInv, Knows, KnowsOrg, WriteBootstrap, At, OrgOps

LEMMA WriteBootstrapKeeps ==
    ASSUME NEW w \in Workers, NEW u \in Users, IInv, WriteBootstrap(w, u)
    PROVE  IInv'
  <1>1. CASE Refuse(w)
    BY <1>1, Refused
  <1>2. CASE ~Refuse(w)
    <2>0. TypeOK /\ Admin \in Groups /\ "active" \in Statuses
      BY AdminAssumption, StatusAssumption DEF IInv
    <2>1. /\ groups[Admin] # "stored"
          /\ status' = [status EXCEPT ![u] = "active"]
          /\ groups' = [groups EXCEPT ![Admin] = "stored"]
          /\ role' = [role EXCEPT ![Admin][u] = "owner"]
          /\ Finish(w)
      BY <1>2 DEF WriteBootstrap
    <2>2. orgLock = w /\ \A v \in Users : status[v] = "absent"
      BY BootstrapEmpty
    <2>3. /\ status'[u] = "active" /\ groups'[Admin] = "stored"
          /\ role'[Admin][u] = "owner"
          /\ role' \in [Groups -> [Users -> Roles]]
          /\ \A g \in Groups : groups[g] = "stored" => groups'[g] = "stored"
      BY <2>0, <2>1 DEF TypeOK, Roles
    <2>4. ASSUME NEW v \in Workers \ {w}, OthersKeep(w)
          PROVE  Undisturbed(v)
      BY <2>1, <2>2, <2>3, <2>4 DEF Undisturbed, OthersKeep
    <2>5. OwnerKept' /\ NoOrphanOwners'
      BY <2>3 DEF OwnerKept, NoOrphanOwners, ActiveOwners, Owners
    <2> QED
      BY <2>0, <2>1, <2>3, <2>4, <2>5, Committed DEF TypeOK
  <1> QED
    BY <1>1, <1>2

LEMMA WriteBreakGlassKeeps ==
    ASSUME NEW w \in Workers, IInv, WriteBreakGlass(w)
    PROVE  IInv'
  <1>a. PICK u : u = req[w].user
    OBVIOUS
  <1>0. /\ TypeOK /\ Admin \in Groups /\ "active" \in Statuses /\ u \in Users
        /\ "active" # "absent" /\ u = req[w].user
    BY <1>a, AdminAssumption, StatusAssumption
    DEF IInv, TypeOK, WriteBreakGlass, At, ArgsOK
  <1>1. /\ status' = [status EXCEPT ![u] = "active"]
        /\ groups' = [groups EXCEPT ![Admin] = "stored"]
        /\ role' = [role EXCEPT ![Admin][u] = "owner"]
        /\ Finish(w)
    BY <1>0 DEF WriteBreakGlass
  <1>2. /\ orgLock = w /\ userLock[u] = w
        /\ groupLock[Admin] = w \/ groups[Admin] # "stored"
    BY <1>0 DEF IInv, Knows, KnowsOrg, WriteBreakGlass, At, OrgOps
  <1>3. /\ status'[u] = "active" /\ groups'[Admin] = "stored"
        /\ role'[Admin][u] = "owner"
        /\ role' \in [Groups -> [Users -> Roles]]
        /\ \A v \in Users \ {u} :
               status'[v] = status[v] /\ role'[Admin][v] = role[Admin][v]
        /\ \A g \in Groups : groups[g] = "stored" => groups'[g] = "stored"
    BY <1>0, <1>1 DEF TypeOK, Roles
  <1>4. ASSUME NEW v \in Workers \ {w}, OthersKeep(w)
        PROVE  Undisturbed(v)
    <2>1. v # w /\ ~(groupLock[Admin] = v /\ groups[Admin] = "stored")
      BY <1>2, <1>4
    <2>2. \A x \in Users : userLock[x] = v => x # u
      BY <1>2, <1>4
    <2> QED
      BY <1>2, <1>3, <1>4, <2>1, <2>2 DEF Undisturbed, OthersKeep
  <1>5. OwnerKept' /\ NoOrphanOwners'
    BY <1>0, <1>3 DEF OwnerKept, NoOrphanOwners, ActiveOwners, Owners
  <1> QED
    BY <1>0, <1>1, <1>3, <1>4, <1>5, Committed DEF TypeOK

\* What creating a user or a group leaves alone.
Spared ==
    /\ UNCHANGED <<lockVars, req>> /\ orgLock = None
    /\ status' \in [Users -> Statuses \cup {"absent"}]
    /\ groups' \in [Groups -> {"absent", "stored", "deleted"}]
    /\ role' \in [Groups -> [Users -> Roles]]
    /\ \A u \in Users : status[u] # "absent" => status'[u] = status[u]
    /\ \A g \in Groups : groups[g] = "stored" => groups'[g] = "stored"
    /\ groups'[Admin] = groups[Admin] /\ role'[Admin] = role[Admin]

\* Creating users and groups disturbs nobody.
LEMMA AutocommitKeeps ==
    ASSUME IInv, Autocommit
    PROVE  IInv'
  <1>0. TypeOK /\ Admin \in Groups /\ None \notin Workers
    BY AdminAssumption, DirectoryNoneAssumption DEF IInv
  <1>1. Spared
    <2>1. ASSUME NEW u \in Users, NEW st \in Statuses, CreateUser(u, st)
          PROVE  Spared
      BY <1>0, <2>1 DEF CreateUser, TypeOK, Spared
    <2>2. ASSUME NEW g \in Groups, CreateGroup(g)
          PROVE  Spared
      <3>1. g # Admin
        BY <2>2 DEF CreateGroup, Authorized, ActiveOwners, Owners
      <3> QED
        BY <1>0, <2>2, <3>1 DEF CreateGroup, TypeOK, Spared
    <2>3. ASSUME NEW g \in Groups, NEW M \in SUBSET Users, CreateScimGroup(g, M)
          PROVE  Spared
      BY <1>0, <2>3 DEF CreateScimGroup, TypeOK, Roles, Spared
    <2> QED
      BY <2>1, <2>2, <2>3 DEF Autocommit
  <1>2. ActiveOwners \subseteq ActiveOwners'
    BY <1>1 DEF Spared, ActiveOwners, Owners
  <1>3. \A v \in Workers : Undisturbed(v)
    BY <1>0, <1>1, <1>2 DEF Spared, Undisturbed, lockVars
  <1>4. \A v \in Workers : Knows(v)'
    BY <1>3, StillKnows DEF IInv
  <1>5. TypeOK'
    BY <1>0, <1>1 DEF Spared, TypeOK, lockVars
  <1>6. OwnerKept' /\ NoOrphanOwners'
    BY <1>1, <1>2 DEF Spared, IInv, OwnerKept, NoOrphanOwners
  <1> QED
    BY <1>4, <1>5, <1>6 DEF IInv

-----------------------------------------------------------------------------
(* The theorems.                                                           *)

\* IInv is inductive.
THEOREM Inductive == Spec => []IInv
  <1>1. Init => IInv
    <2> SUFFICES ASSUME Init PROVE IInv
      OBVIOUS
    <2>1. TypeOK
      BY AdminAssumption, IdleKnows DEF Init, TypeOK, Roles
    <2>2. OwnerKept /\ NoOrphanOwners
      BY AdminAssumption DEF Init, OwnerKept, NoOrphanOwners
    <2>3. \A w \in Workers : Knows(w)
      BY DEF Init, Idle, Request, Knows, KnowsStatus, KnowsGroup, KnowsOrg,
             StatusOps, MembershipOps, ScimGroupOps, OrgOps
    <2> QED
      BY <2>1, <2>2, <2>3 DEF IInv
  <1>2. IInv /\ [Next]_vars => IInv'
    <2> SUFFICES ASSUME IInv, [Next]_vars PROVE IInv'
      OBVIOUS
    <2>1. ASSUME NEW w \in Workers, Start(w)
          PROVE  IInv'
      BY <2>1, StartKeeps
    <2>2. ASSUME NEW w \in Workers, Continue(w)
          PROVE  IInv'
      BY <2>2, LocksKeep, ChecksKeep, WriteStatusKeeps, WriteMembershipKeeps,
         WriteScimKeeps, WriteBootstrapKeeps, WriteBreakGlassKeeps
      DEF Continue
    <2>3. ASSUME NEW w \in Workers, Rollback(w)
          PROVE  IInv'
      BY <2>3, Refused DEF Rollback
    <2>4. CASE Autocommit
      BY <2>4, AutocommitKeeps
    <2>5. CASE UNCHANGED vars
      BY <2>5 DEF vars, IInv, TypeOK, OwnerKept, NoOrphanOwners, ActiveOwners,
         Owners, OtherActiveOwners, Knows, KnowsStatus, KnowsGroup, KnowsOrg,
         MayLeave, LosesOwner
    <2> QED
      BY <2>1, <2>2, <2>3, <2>4, <2>5 DEF Next
  <1> QED
    BY <1>1, <1>2, PTL DEF Spec

\* Rows, locks and requests are well formed, for any instance.
THEOREM DirectoryTypeCorrect == Spec => []TypeOK
  <1>1. IInv => TypeOK
    BY DEF IInv
  <1> QED
    BY <1>1, Inductive, PTL

\* update_user_status, update_user_from_scim, upsert_group_membership,
\* delete_group_membership and the recovery of an owner never leave the owner
\* group without an active owner, however many of them run at once.
THEOREM OwnerAlwaysKept == Spec => []OwnerKept
  <1>1. IInv => OwnerKept
    BY DEF IInv
  <1> QED
    BY <1>1, Inductive, PTL

\* create_bootstrap_admin commits only in an organization without users.
THEOREM BootstrapOnce == Spec => BootstrapOnlyWhenEmpty
  <1>1. IInv /\ [Next]_vars =>
           [\A w \in Workers, u \in Users :
               WriteBootstrap(w, u) => \A v \in Users : status[v] = "absent"]_vars
    BY BootstrapEmpty
  <1> QED
    BY <1>1, Inductive, PTL DEF Spec, BootstrapOnlyWhenEmpty

=============================================================================
