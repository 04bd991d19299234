------------------------------ MODULE Listings ------------------------------
(***************************************************************************)
(* Reading a list page by page while rows come, go and change.  The admin  *)
(* lists, the audit export and the session pages continue from a cursor:   *)
(* the (created_at, id) of the last row of the page before.  SCIM pages    *)
(* continue from an offset, counted by one statement and fetched by        *)
(* another.  One client walks one list; the writers are everybody else.    *)
(***************************************************************************)
EXTENDS Naturals, FiniteSets

CONSTANTS
    MaxRow,     \* rows have the ids 1..MaxRow, each used at most once
    MaxTime,    \* bound on the clock
    PageSizes,  \* limits and counts tried
    Retention,  \* audit.retention_days, in ticks
    Batch,      \* audit.purge_batch_size
    Paths       \* output paths of the audit export

ASSUME ListConstants ==
    /\ MaxRow \in Nat /\ MaxTime \in Nat /\ Retention \in Nat /\ Batch \in Nat
    /\ PageSizes \subseteq Nat \ {0}

RowIds == 1..MaxRow
Audit == {"audit_events", "security_events", "audit_archive"}
Keyset == Audit \cup {"users", "groups", "memberships", "oidc_clients", "client_grants",
                      "user_grants"}
Offset == {"scim_users", "scim_groups"}

VARIABLES
    list,      \* the list that is walked
    size,      \* the page size asked for
    rows,      \* row id -> [at, matches]: the table, with the walk's filter applied
    used,      \* ids that were ever inserted
    now,
    walk,      \* "closed", "open", "counted" (SCIM, between its statements), "done"
    cursor,    \* keyset: the last row listed, as a record; <<>> at the start
    start,     \* SCIM: start_index - 1
    total,     \* SCIM: total_results of the page in progress
    listed,    \* row id -> how often it was answered so far
    exportFiles,     \* path -> "absent", "partial", "complete"
    stayed,    \* rows that have matched ever since the walk was opened
    entered, left,  \* whether any row began, or ceased, to match since then
    raced      \* SCIM: whether one began to match after the last COUNT(*)

listVars == <<list, size, rows, used, now, walk, cursor, start, total, listed, exportFiles,
              stayed, entered, left, raced>>

Matching == {r \in DOMAIN rows : rows[r].matches}
Key(r) == [at |-> rows[r].at, id |-> r]

\* ORDER BY created_at DESC, id DESC
Precedes(a, b) == a.at > b.at \/ (a.at = b.at /\ a.id > b.id)

ListInit ==
    /\ list \in Keyset \cup Offset /\ size \in PageSizes
    /\ rows = <<>> /\ used = {} /\ now = 0
    /\ walk = "closed" /\ cursor = <<>> /\ start = 0 /\ total = 0
    /\ listed = [r \in RowIds |-> 0]
    /\ exportFiles = [p \in Paths |-> "absent"]
    /\ stayed = {} /\ entered = FALSE /\ left = FALSE /\ raced = FALSE

-----------------------------------------------------------------------------
(* The writers.                                                            *)

Write(new) ==
    /\ rows' = new
    /\ LET match == {r \in DOMAIN new : new[r].matches} IN
       /\ stayed' = stayed \cap match
       /\ entered' = (entered \/ (walk \in {"open", "counted"} /\ ~(match \subseteq Matching)))
       /\ raced' = (raced \/ ~(match \subseteq Matching))
       /\ left' = (left \/ (walk \in {"open", "counted"} /\ ~(Matching \subseteq match)))
    /\ UNCHANGED <<list, size, now, walk, cursor, start, total, listed, exportFiles>>

\* A row is stamped before it is inserted: it may appear behind rows that
\* were stamped later.
InsertRow(r) ==
    /\ r \notin used
    /\ \E t \in {now, now - 1} \cap 0..now, m \in BOOLEAN :
         Write([q \in DOMAIN rows \cup {r} |->
                  IF q = r THEN [at |-> t, matches |-> m] ELSE rows[q]])
    /\ used' = used \cup {r}

\* An update changes what the filter sees, never created_at.
UpdateRow(r) ==
    /\ list \notin Audit /\ r \in DOMAIN rows
    /\ Write([rows EXCEPT ![r].matches = ~@])
    /\ UNCHANGED used

DeleteRow(r) ==
    /\ list \notin Audit /\ r \in DOMAIN rows
    /\ Write([q \in DOMAIN rows \ {r} |-> rows[q]])
    /\ UNCHANGED used

\* audit purge-expired: a batch of the oldest rows before the cutoff.
PurgeExpired ==
    LET expired == {r \in DOMAIN rows : rows[r].at + Retention < now}
        batch == {r \in expired : Cardinality({q \in expired : Precedes(Key(r), Key(q))}) < Batch} IN
    /\ list \in Audit /\ batch # {}
    /\ Write([q \in DOMAIN rows \ batch |-> rows[q]])
    /\ UNCHANGED used

Tick ==
    /\ now < MaxTime /\ now' = now + 1
    /\ UNCHANGED <<list, size, rows, used, walk, cursor, start, total, listed, exportFiles,
                   stayed, entered, left, raced>>

-----------------------------------------------------------------------------
(* The walk.                                                               *)

OpenWalk ==
    /\ walk = "closed" /\ walk' = "open" /\ stayed' = Matching
    /\ UNCHANGED <<list, size, rows, used, now, cursor, start, total, listed, exportFiles,
                   entered, left, raced>>

\* created_at < $2 OR (created_at = $2 AND id < $3)
Beyond_Inclusive(r) == cursor = <<>> \/ rows[r].at <= cursor.at
Beyond(r) == cursor = <<>> \/ Precedes(cursor, Key(r))

\* How many rows of S the statement's order puts before r, the first n rows
\* of S, and the last of them all.
Rank(S, r) == Cardinality({q \in S : Precedes(Key(q), Key(r))})
First(S, n) == {r \in S : Rank(S, r) < n}
FinalRow(S) == CHOOSE r \in S : \A q \in S \ {r} : Precedes(Key(q), Key(r))

\* The statement, LIMIT fetch_limit.
Fetch(fetchLimit) == First({r \in Matching : Beyond(r)}, fetchLimit)

ShowRows(page) == listed' = [r \in RowIds |-> IF r \in page THEN listed[r] + 1 ELSE listed[r]]

\* list_page: one row more than the page was asked for; it says whether there
\* is a next page and is dropped.
ListPage(fetched) ==
    LET more == Cardinality(fetched) > size
        items == IF more THEN First(fetched, size) ELSE fetched IN
    /\ ShowRows(items)
    /\ cursor' = IF more THEN Key(FinalRow(items)) ELSE cursor
    /\ walk' = IF more THEN "open" ELSE "done"

KeysetPage(name) ==
    /\ list = name /\ walk = "open"
    /\ ListPage(Fetch(size + 1))
    /\ UNCHANGED <<list, size, rows, used, now, start, total, exportFiles, stayed, entered, left,
                   raced>>

ListAuditEvents == KeysetPage("audit_events")
ListSecurityEvents == KeysetPage("security_events")
ListUsers == KeysetPage("users")
ListGroups == KeysetPage("groups")
ListMemberships == KeysetPage("memberships")
ListOidcClients == KeysetPage("oidc_clients")
ListClientGrants == KeysetPage("client_grants")
ListUserGrants == KeysetPage("user_grants")

\* audit export-ndjson: the file must be new.  A failed write leaves a partial
\* file behind and prints no receipt, so the operator has the old cursor.
ExportArchive(p) ==
    /\ list = "audit_archive" /\ walk = "open" /\ exportFiles[p] = "absent"
    /\ \/ exportFiles' = [exportFiles EXCEPT ![p] = "complete"] /\ ListPage(Fetch(size + 1))
       \/ exportFiles' = [exportFiles EXCEPT ![p] = "partial"] /\ UNCHANGED <<listed, cursor, walk>>
    /\ UNCHANGED <<list, size, rows, used, now, start, total, stayed, entered, left,
                   raced>>

\* list_scim_*_page_filtered: COUNT(*), then OFFSET and LIMIT.
CountScim(name) ==
    /\ list = name /\ walk = "open"
    /\ total' = Cardinality(Matching) /\ walk' = "counted" /\ raced' = FALSE
    /\ UNCHANGED <<list, size, rows, used, now, cursor, start, listed, exportFiles, stayed,
                   entered, left>>

\* OFFSET start_index - 1
OffsetOf == start

\* A SCIM client asks for the next page until it is past totalResults.
FetchScim(name) ==
    /\ list = name /\ walk = "counted"
    /\ ShowRows(First(Matching, OffsetOf + size) \ First(Matching, OffsetOf))
    /\ start' = start + size
    /\ walk' = IF start + size >= total THEN "done" ELSE "open"
    /\ UNCHANGED <<list, size, rows, used, now, cursor, total, exportFiles, stayed, entered, left,
                   raced>>

ListScimUsers == CountScim("scim_users") \/ FetchScim("scim_users")
ListScimGroups == CountScim("scim_groups") \/ FetchScim("scim_groups")

Reading ==
    \/ ListAuditEvents \/ ListSecurityEvents \/ ListUsers \/ ListGroups \/ ListMemberships
    \/ ListOidcClients \/ ListClientGrants \/ ListUserGrants
    \/ \E p \in Paths : ExportArchive(p)
    \/ ListScimUsers \/ ListScimGroups

ListNext ==
    \/ \E r \in RowIds : InsertRow(r) \/ UpdateRow(r) \/ DeleteRow(r)
    \/ PurgeExpired \/ Tick \/ OpenWalk \/ Reading

ListSpec == ListInit /\ [][ListNext]_listVars

-----------------------------------------------------------------------------
Listed == {r \in RowIds : listed[r] > 0}
NoneTwice == \A r \in RowIds : listed[r] <= 1

\* A walk with a cursor lists no row twice, whatever is inserted, changed or
\* purged between its pages (list_page, created_at < $2 OR ...).
NoRowTwice == list \in Keyset => NoneTwice

\* When a walk with a cursor ends it has listed every row that was there, and
\* matched, all the while; an audit archive made of several exports is whole.
WalkWhole == list \in Keyset /\ walk = "done" => stayed \subseteq Listed

\* A SCIM walk misses a row that was there all the while only if another one
\* left the list meanwhile, or entered it between the two statements of the
\* last page (total_results is older than the page); it repeats one only if
\* another one entered.
ScimSlips ==
    list \in Offset =>
        /\ walk = "done" /\ ~left /\ ~raced => stayed \subseteq Listed
        /\ ~entered => NoneTwice

\* The purge removes no row younger than any it keeps, and none within the
\* retention window (delete_audit_events_before).
OldestGone ==
    list \in Audit =>
        \A r \in DOMAIN rows \ DOMAIN rows' :
            /\ rows[r].at + Retention < now
            /\ \A q \in DOMAIN rows' \cap DOMAIN rows : Precedes(Key(q), Key(r))

\* A walk over a list shows every row that stays exactly once, except where
\* paging by offset cannot, and a purge takes the oldest rows first.
WalksHold ==
    /\ [](NoRowTwice /\ WalkWhole /\ ScimSlips)
    /\ [][OldestGone]_listVars
=============================================================================
