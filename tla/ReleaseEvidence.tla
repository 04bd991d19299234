--------------------------- MODULE ReleaseEvidence ---------------------------
(***************************************************************************)
(* The release evidence directory: `cairnid evidence init` writes its      *)
(* scaffold, operators capture artifacts into it, `cairnid evidence check` *)
(* and the MCP server's evidence tools read it entry by entry and say      *)
(* whether the release is ready.  An entry's type and age are looked up    *)
(* first and its contents are read afterwards, and nothing stops an        *)
(* operator, or a second init, from writing in between.                    *)
(***************************************************************************)
EXTENDS Naturals, Sequences, FiniteSets

CONSTANTS
    Artifacts,    \* EVIDENCE_SPECS: the names, in order
    Secret,       \* the ones with contains_secrets
    Manual,       \* the ones that an operator captures outside
    Requirements, \* artifact -> set of requirements, each a set of alternatives
    EnvNames,     \* environment variables they mention
    MaxEdits     \* bound on edits by others, inits included

Specs == {Artifacts[i] : i \in DOMAIN Artifacts}
ScaffoldFiles == <<"release-evidence-manifest.json", "README.md", ".gitignore">>
Scaffold == {ScaffoldFiles[i] : i \in DOMAIN ScaffoldFiles}
TheManifest == ScaffoldFiles[1]
AllowedFiles == Specs \cup Scaffold

\* Every artifact has a file of its own, and none has one of the scaffold's.
ASSUME EvidenceConstants ==
    /\ MaxEdits \in Nat /\ Artifacts \in Seq(STRING) /\ Secret \subseteq Specs
    /\ \A i, j \in DOMAIN Artifacts : Artifacts[i] = Artifacts[j] => i = j
    /\ Specs \cap Scaffold = {}

\* The check looks at the scaffold, at the directory, and at the artifacts.
InventoryAt == Len(ScaffoldFiles) + 1
LastAt == InventoryAt + Len(Artifacts)

VARIABLES
    dirThere, entries,   \* the directory: name -> [kind, modified, content]
    viaMcp,              \* whether the MCP server asks, or the command line
    cpc, cpos,           \* where the check is, and what it looks at
    failures, codes,     \* how many failures, and the failure codes
    here, hereCodes,     \* the same, of the artifact being checked
    status,              \* artifact -> "passed", "missing", "failed"
    finalReport,         \* "none", "ready", "incomplete", or an error
    plan,                \* the last answer of `evidence plan`
    ipc, ipos, force,    \* a running `evidence init`, and the file it is at
    existed,             \* scaffold files that were there when it began
    replaced,            \* names that others wrote or removed since then
    edits, touched       \* edits by others; names written since the check began

evidenceVars == <<dirThere, entries, viaMcp, cpc, cpos, failures, codes, here, hereCodes,
                  status, finalReport, plan, ipc, ipos, force, existed, replaced, edits, touched>>

checkVars == <<viaMcp, cpc, cpos, failures, codes, here, hereCodes, status, finalReport, plan>>
initVars == <<ipc, ipos, force, existed, replaced>>

-----------------------------------------------------------------------------
(* Entries.  A content is described by what the checks look for in it.     *)

Sound == [form |-> "object", stamp |-> "recent", forbidden |-> 0, contract |-> 0]
Regular(c) == [kind |-> "file", modified |-> "recent", content |-> c]

Contents ==
    {[Sound EXCEPT !.form = f] : f \in {"array", "text", "unreadable"}} \cup
    {[Sound EXCEPT !.stamp = t] : t \in {"none", "unparsed", "old", "future"}} \cup
    [form : {"object"}, stamp : {"recent"}, forbidden : {0, 2}, contract : {0, 1}]

Entries ==
    {Regular(c) : c \in Contents} \cup
    {[Regular(Sound) EXCEPT !.modified = "old"],
     [Regular([Sound EXCEPT !.contract = 1]) EXCEPT !.modified = "old"]} \cup
    {[Regular(Sound) EXCEPT !.kind = k] : k \in {"symlink", "directory", "other"}}

CompleteSet == [n \in AllowedFiles |-> Regular(Sound)]

\* One thing may be wrong from the start, or everything still to be done.
EvidenceInit ==
    /\ \/ dirThere = FALSE /\ entries = <<>>
       \/ dirThere = TRUE /\ entries = <<>>
       \/ /\ dirThere = TRUE
          /\ \/ \E n \in AllowedFiles : \E e \in Entries : entries = [CompleteSet EXCEPT ![n] = e]
             \/ \E n \in AllowedFiles : entries = [x \in AllowedFiles \ {n} |-> Regular(Sound)]
             \/ \E e \in {Regular(Sound), [Regular(Sound) EXCEPT !.kind = "symlink"]} :
                  entries = [x \in AllowedFiles \cup {"stray"} |-> IF x = "stray" THEN e ELSE Regular(Sound)]
    /\ viaMcp \in BOOLEAN
    /\ cpc = "idle" /\ cpos = 1 /\ failures = 0 /\ codes = <<>> /\ here = 0 /\ hereCodes = <<>>
    /\ status = <<>> /\ finalReport = "none" /\ plan = "none"
    /\ ipc = "idle" /\ ipos = 1 /\ force = FALSE /\ existed = {} /\ replaced = {}
    /\ edits = 0 /\ touched = {}

\* release_evidence_path_kind
PathKind(n) == IF n \in DOMAIN entries THEN entries[n].kind ELSE "missing"

Store(n, e) ==
    /\ entries' = [x \in DOMAIN entries \cup {n} |-> IF x = n THEN e ELSE entries[x]]
    /\ touched' = touched \cup {n}

Capture(n) ==
    /\ dirThere /\ edits < MaxEdits /\ finalReport = "none" /\ plan = "none"
    /\ \E e \in Entries : Store(n, e)
    /\ edits' = edits + 1 /\ replaced' = replaced \cup {n}
    /\ UNCHANGED <<dirThere, checkVars, ipc, ipos, force, existed>>

Discard(n) ==
    /\ n \in DOMAIN entries /\ edits < MaxEdits /\ finalReport = "none" /\ plan = "none"
    /\ entries' = [x \in DOMAIN entries \ {n} |-> entries[x]]
    /\ touched' = touched \cup {n} /\ edits' = edits + 1 /\ replaced' = replaced \cup {n}
    /\ UNCHANGED <<dirThere, checkVars, ipc, ipos, force, existed>>

-----------------------------------------------------------------------------
(* `evidence init`: all three files are looked at before any is written,   *)
(* and each once more before it is.                                        *)

BeginInit ==
    /\ ipc = "idle" /\ edits < MaxEdits /\ finalReport = "none" /\ plan = "none"
    /\ dirThere' = TRUE /\ edits' = edits + 1
    /\ force' \in BOOLEAN /\ ipc' = "look" /\ ipos' = 1
    /\ existed' = Scaffold \cap DOMAIN entries /\ replaced' = {}
    /\ UNCHANGED <<entries, checkVars, touched>>

\* ensure_scaffold_file_can_be_written
MayWrite(n) == PathKind(n) = "missing" \/ (PathKind(n) = "file" /\ force)

\* A file that may not be written ends the command.
InitEnds == ipc' = "idle" /\ ipos' = 1

LookFirst ==
    /\ ipc = "look"
    /\ IF ~MayWrite(ScaffoldFiles[ipos]) THEN InitEnds
       ELSE IF ipos = Len(ScaffoldFiles) THEN ipc' = "ensure" /\ ipos' = 1
       ELSE ipos' = ipos + 1 /\ UNCHANGED ipc
    /\ UNCHANGED <<dirThere, entries, checkVars, force, existed, replaced, edits, touched>>

EnsureAgain ==
    /\ ipc = "ensure"
    /\ IF MayWrite(ScaffoldFiles[ipos]) THEN ipc' = "truncate" /\ UNCHANGED ipos ELSE InitEnds
    /\ UNCHANGED <<dirThere, entries, checkVars, force, existed, replaced, edits, touched>>

\* fs::write opens the name, creating or truncating the file, and then fills
\* what it opened.  It follows a link, and cannot open a directory.
Blank == [Sound EXCEPT !.form = "text", !.contract = 1]

Holding(n, c) == [Regular(c) EXCEPT !.kind = IF PathKind(n) = "symlink" THEN "symlink" ELSE "file"]

OpenScaffold ==
    /\ ipc = "truncate" /\ PathKind(ScaffoldFiles[ipos]) # "directory"
    /\ IF PathKind(ScaffoldFiles[ipos]) = "other" THEN UNCHANGED <<entries, touched>>
       ELSE Store(ScaffoldFiles[ipos], Holding(ScaffoldFiles[ipos], Blank))
    /\ ipc' = "fill"
    /\ UNCHANGED <<dirThere, checkVars, ipos, force, existed, replaced, edits>>

\* The name may be gone by then, or another file's.
Displaced(n) == n \in DOMAIN entries => entries[n].content # Blank

FillScaffold ==
    /\ ipc = "fill"
    /\ LET n == ScaffoldFiles[ipos] IN
       \/ PathKind(n) \in {"file", "symlink"} /\ Store(n, Holding(n, Sound))
       \/ Displaced(n) /\ UNCHANGED <<entries, touched>>
    /\ IF ipos = Len(ScaffoldFiles) THEN InitEnds ELSE ipc' = "ensure" /\ ipos' = ipos + 1
    /\ UNCHANGED <<dirThere, checkVars, force, existed, replaced, edits>>

\* Whatever it asks of the file system may fail, which ends the command too.
InitFails ==
    /\ ipc # "idle" /\ InitEnds
    /\ UNCHANGED <<dirThere, entries, checkVars, force, existed, replaced, edits, touched>>

-----------------------------------------------------------------------------
(* `evidence plan`.                                                        *)

\* environment_requirement_satisfied
Satisfied(requirement, env) == \E alternative \in requirement : alternative \subseteq env

PlanStep(a, env) ==
    IF \E r \in Requirements[a] : ~Satisfied(r, env) THEN "missing_environment"
    ELSE IF a \in Manual THEN "manual_external" ELSE "ready"

RunPlan ==
    /\ cpc = "idle" /\ plan = "none"
    /\ \E env \in SUBSET EnvNames :
         plan' = IF \E a \in Specs : PlanStep(a, env) = "missing_environment"
                 THEN "missing_environment" ELSE "ready"
    /\ UNCHANGED <<dirThere, entries, viaMcp, cpc, cpos, failures, codes, here, hereCodes, status,
                   finalReport, initVars, edits, touched>>

-----------------------------------------------------------------------------
(* The check.                                                              *)

Frame == UNCHANGED <<dirThere, entries, viaMcp, plan, initVars, edits, touched>>

End(outcome) ==
    /\ finalReport' = outcome /\ cpc' = "done"
    /\ UNCHANGED <<cpos, failures, codes, here, hereCodes, status>>

\* The server resolves the directory and refuses one with a symlink in it
\* before it starts the same check.  The age limit is checked first by both.
BeginCheck ==
    /\ cpc = "idle" /\ plan = "none"
    /\ \E maxAgeValid \in BOOLEAN :
         IF ~maxAgeValid THEN End("invalid_max_age") /\ UNCHANGED touched
         ELSE IF ~dirThere THEN End("not_a_directory") /\ UNCHANGED touched
         ELSE /\ cpc' = IF viaMcp THEN "resolved" ELSE "stat"
              /\ touched' = {}
              /\ UNCHANGED <<cpos, failures, codes, here, hereCodes, status, finalReport>>
    /\ UNCHANGED <<dirThere, entries, viaMcp, plan, initVars, edits>>

RejectSymlinks ==
    /\ cpc = "resolved"
    /\ IF \E n \in DOMAIN entries : entries[n].kind = "symlink" THEN End("symlink_entry")
       ELSE cpc' = "stat" /\ UNCHANGED <<cpos, failures, codes, here, hereCodes, status, finalReport>>
    /\ Frame

Reported(n, newCodes) == failures' = failures + n /\ codes' = codes \o newCodes

\* Go on with what comes after the current entry, or after the scaffold.
GoOn(next) == cpos' = next /\ cpc' = IF next > LastAt THEN "report" ELSE "stat"

StatScaffold ==
    /\ cpc = "stat" /\ cpos < InventoryAt
    /\ LET kind == PathKind(ScaffoldFiles[cpos]) IN
       IF kind = "file" THEN cpc' = "read" /\ UNCHANGED <<cpos, failures, codes>>
       ELSE /\ Reported(1, <<IF kind = "missing" THEN "missing_evidence" ELSE "artifact_path_failure">>)
            /\ GoOn(cpos + 1)
    /\ UNCHANGED <<here, hereCodes, status, finalReport>> /\ Frame

\* What is read may no longer be what was looked at: a link is followed, a
\* directory cannot be read.
Readable(n) == PathKind(n) \in {"file", "symlink"} /\ entries[n].content.form # "unreadable"

ScaffoldFaults(n) ==
    LET c == entries[n].content IN
    IF n # TheManifest THEN c.contract
    ELSE IF c.form # "object" THEN 1
    ELSE (IF c.stamp \in {"old", "future"} THEN 1 ELSE 0) + c.contract

\* A manifest that is JSON without a timestamp ends the scaffold checks.
Undated(n) ==
    LET c == entries[n].content IN
    n = TheManifest /\ \/ c.form = "array"
                       \/ c.form = "object" /\ c.stamp \in {"none", "unparsed"}

ReadScaffold ==
    /\ cpc = "read" /\ cpos < InventoryAt
    /\ LET n == ScaffoldFiles[cpos] IN
       IF PathKind(n) = "missing"
       THEN Reported(1, <<"missing_evidence">>) /\ GoOn(cpos + 1) /\ UNCHANGED finalReport
       ELSE IF ~Readable(n) THEN cpc' = "done" /\ finalReport' = "filesystem_error" /\ UNCHANGED <<cpos, failures, codes>>
       ELSE IF Undated(n)
       THEN Reported(1, <<"stale_or_invalid_scaffold">>) /\ GoOn(InventoryAt) /\ UNCHANGED finalReport
       ELSE /\ Reported(ScaffoldFaults(n), [i \in 1..ScaffoldFaults(n) |-> "stale_or_invalid_scaffold"])
            /\ GoOn(cpos + 1) /\ UNCHANGED finalReport
    /\ UNCHANGED <<here, hereCodes, status>> /\ Frame

\* An entry that does not belong here is a failure, one that is no regular
\* file is another.
InventoryFaults ==
    Cardinality(DOMAIN entries \ AllowedFiles) +
    Cardinality({n \in DOMAIN entries : entries[n].kind # "file"})

ReadDirectory ==
    /\ cpc = "stat" /\ cpos = InventoryAt
    /\ Reported(InventoryFaults, [i \in 1..InventoryFaults |-> "artifact_path_failure"])
    /\ GoOn(cpos + 1)
    /\ UNCHANGED <<here, hereCodes, status, finalReport>> /\ Frame

\* symlink_metadata and read_dir: an error other than a missing file is
\* nobody's failure, and ends the check.
StatFails ==
    /\ cpc \in {"resolved", "stat"}
    /\ End("stat_failed")
    /\ Frame

\* An artifact's report joins the others.
Filed(a, found, foundCodes, verdict) ==
    /\ Reported(found, foundCodes)
    /\ status' = [x \in DOMAIN status \cup {a} |-> IF x = a THEN verdict ELSE status[x]]
    /\ here' = 0 /\ hereCodes' = <<>>
    /\ GoOn(cpos + 1)

StatArtifact ==
    /\ cpc = "stat" /\ cpos > InventoryAt
    /\ LET a == Artifacts[cpos - InventoryAt] IN
       CASE PathKind(a) = "missing" -> Filed(a, 1, <<"missing_evidence">>, "missing")
         [] PathKind(a) \in {"symlink", "directory", "other"} ->
              Filed(a, 1, <<"artifact_path_failure">>, "failed")
         [] PathKind(a) = "file" ->
              /\ cpc' = "read"
              /\ here' = IF entries[a].modified = "old" THEN 1 ELSE 0
              /\ hereCodes' = [i \in 1..here' |-> "stale_or_invalid_timestamp"]
              /\ UNCHANGED <<cpos, failures, codes, status>>
    /\ UNCHANGED finalReport /\ Frame

\* push_code_for_new_failures
NewCodes(before, after, code) == [i \in 1..(after - before) |-> code]

\* reject_forbidden_token_free_release_evidence_fields
ForbiddenFields(a, c) == IF a \in Secret THEN 0 ELSE c.forbidden

\* validate_artifact_root_timestamp_freshness: no timestamp, or one that
\* does not parse, is left to the contract.
TimestampFaults(c) == IF c.stamp \in {"old", "future"} THEN 1 ELSE 0

UnreadCode(a) ==
    IF ~Readable(a) THEN "artifact_path_failure"
    ELSE IF entries[a].content.form = "text" THEN "invalid_json" ELSE "invalid_json_root"

StatusOf(found) == IF found = 0 THEN "passed" ELSE "failed"

ReadArtifact ==
    /\ cpc = "read" /\ cpos > InventoryAt
    /\ LET a == Artifacts[cpos - InventoryAt] IN
       IF ~Readable(a) \/ entries[a].content.form # "object"
       THEN Filed(a, here + 1, Append(hereCodes, UnreadCode(a)), "failed")
       ELSE LET c == entries[a].content
                forbidden == here + ForbiddenFields(a, c)
                stamped == forbidden + TimestampFaults(c)
                total == stamped + c.contract
            IN  Filed(a, total,
                      hereCodes \o NewCodes(here, forbidden, "forbidden_field")
                                \o NewCodes(forbidden, stamped, "stale_or_invalid_timestamp")
                                \o NewCodes(stamped, total, "contract_mismatch"),
                      StatusOf(total))
    /\ UNCHANGED finalReport /\ Frame

ReportVerdict_ArtifactsOnly ==
    /\ cpc = "report"
    /\ End(IF \A a \in Specs : status[a] = "passed" THEN "ready" ELSE "incomplete")
    /\ Frame

ReportVerdict ==
    /\ cpc = "report"
    /\ End(IF failures = 0 THEN "ready" ELSE "incomplete")
    /\ Frame

EvidenceNext ==
    \/ BeginCheck \/ RejectSymlinks \/ StatScaffold \/ ReadScaffold \/ ReadDirectory
    \/ StatArtifact \/ ReadArtifact \/ StatFails \/ ReportVerdict
    \/ RunPlan
    \/ BeginInit \/ LookFirst \/ EnsureAgain \/ OpenScaffold \/ FillScaffold \/ InitFails
    \/ \E n \in AllowedFiles \cup {"stray"} : Capture(n) \/ Discard(n)

EvidenceSpec == EvidenceInit /\ [][EvidenceNext]_evidenceVars

-----------------------------------------------------------------------------
(* What the two front ends say.                                            *)

CountOf(s) == Cardinality({a \in DOMAIN status : status[a] = s})

\* The command line exits with 0 only for a ready release.
ExitCode ==
    CASE finalReport = "ready" -> 0
      [] finalReport = "incomplete" -> 3
      [] finalReport \in {"invalid_max_age", "not_a_directory"} -> 4
      [] OTHER -> 1

\* dominant_failure_code
Priority == <<"missing_evidence", "stale_or_invalid_scaffold", "artifact_path_failure",
              "invalid_json", "invalid_json_root", "stale_or_invalid_timestamp",
              "forbidden_field", "contract_mismatch">>

DominantCode ==
    LET found == {i \in DOMAIN Priority : \E j \in DOMAIN codes : codes[j] = Priority[i]} IN
    IF found = {} THEN "validation_failed"
    ELSE Priority[CHOOSE i \in found : \A k \in found : i <= k]

\* evidence_check answers with an error, and the dominant code, whatever is
\* not ready; evidence_status only what it could not look into.
CheckTool ==
    CASE finalReport = "ready" -> "ready"
      [] finalReport = "incomplete" -> DominantCode
      [] finalReport = "invalid_max_age" -> "invalid_max_age_days"
      [] finalReport = "not_a_directory" -> "non_directory_evidence_dir"
      [] finalReport = "symlink_entry" -> "symlink_entry"
      [] OTHER -> "evidence_read_failed"

\* next_actions of both front ends
NextActions == {a \in DOMAIN status : status[a] # "passed"}

-----------------------------------------------------------------------------
(* Properties.                                                             *)

AcceptableArtifact(a, e) ==
    /\ e.kind = "file" /\ e.modified = "recent" /\ e.content.form = "object"
    /\ e.content.stamp \notin {"old", "future"} /\ e.content.contract = 0
    /\ a \in Secret \/ e.content.forbidden = 0

AcceptableScaffold(n, e) ==
    /\ e.kind = "file" /\ e.content.form # "unreadable" /\ e.content.contract = 0
    /\ n = TheManifest => e.content.form = "object" /\ e.content.stamp = "recent"

Acceptable(n, e) == IF n \in Specs THEN AcceptableArtifact(n, e) ELSE AcceptableScaffold(n, e)

\* check_release_evidence, from the command line or through the server:
\* while nobody edits, and unless the file system fails it, a release is
\* reported ready exactly when the directory holds the scaffold, the required
\* artifacts and nothing else, each of them acceptable.
ReadyMeansAcceptable ==
    (finalReport \notin {"none", "invalid_max_age", "stat_failed"} /\ touched = {}) =>
        (finalReport = "ready" <=>
            /\ dirThere /\ DOMAIN entries = AllowedFiles
            /\ \A n \in AllowedFiles : Acceptable(n, entries[n]))

\* The same check while others write: a release reported ready has nothing
\* unacceptable in any place that was left alone meanwhile.
ReadyDespiteWriters ==
    finalReport = "ready" =>
        /\ \A n \in (AllowedFiles \ touched) : n \in DOMAIN entries /\ Acceptable(n, entries[n])
        /\ DOMAIN entries \subseteq AllowedFiles \cup touched

\* push_code_for_new_failures, release_evidence_cli_error and
\* mcp_release_evidence_error: every failure has one code, so what the server
\* counts is what the command line lists; the command line succeeds exactly
\* when the server's check does; nothing is left to be done in a ready
\* release, and an incomplete one never gets the code for no known reason.
EveryFailureHasACode ==
    /\ failures = Len(codes) /\ here = Len(hereCodes)
    /\ finalReport # "none" => (ExitCode = 0 <=> CheckTool = "ready") /\ CheckTool # "validation_failed"
    /\ finalReport = "ready" => NextActions = {}
    /\ finalReport \in {"ready", "incomplete"} =>
         CountOf("passed") + Cardinality(NextActions) = Len(Artifacts)

\* init_release_evidence_directory: without --force every file that was there
\* when the command began, and that nobody else has written or removed since,
\* stays there as it was, whatever the command goes on to write.
InitKeepsFiles ==
    ipc # "idle" /\ ~force =>
        \A n \in existed \ replaced' : n \in DOMAIN entries' /\ entries'[n] = entries[n]

\* The evidence directory is reported ready only as far as it is, every failure
\* can be told by its code, and no command destroys what it did not make.
EvidenceHolds ==
    /\ [](ReadyMeansAcceptable /\ ReadyDespiteWriters /\ EveryFailureHasACode)
    /\ [][InitKeepsFiles]_evidenceVars
=============================================================================
