----------------------------- MODULE MCProgress -----------------------------
(* One run for requests that wait for each other's rows: a behaviour is    *)
(* one of TokenGrants or of Directory, and the other one stands still.     *)
(* Liveness is checked, so symmetry is not used.                           *)
EXTENDS MCTokenGrants

CONSTANTS Groups, Admin, Statuses, DirectoryOps

VARIABLES area, status, groups, role, orgLock, userLock, groupLock, slot

directoryVars == <<status, groups, role, orgLock, userLock, groupLock, slot>>

D == INSTANCE Directory WITH Ops <- DirectoryOps, req <- slot

ProgressInit ==
    /\ area \in {"grants", "directory"}
    /\ Init /\ D!Init

ProgressNext ==
    /\ UNCHANGED area
    /\ \/ area = "grants" /\ Next /\ UNCHANGED directoryVars
       \/ area = "directory" /\ D!Next /\ UNCHANGED vars

ProgressSpec ==
    /\ ProgressInit
    /\ [][ProgressNext]_<<area, vars, directoryVars>>
    /\ Fairness
    /\ D!Fairness

\* Every request ends: at the token endpoint, where family and consent
\* revocations, rotations and deactivations lock rows in opposite orders, and
\* in the directory, where status changes, memberships and break-glass lock
\* users, groups and the organization in conflicting orders.
EveryRequestEnds == RequestsEnd /\ D!RequestsEnd
=============================================================================
