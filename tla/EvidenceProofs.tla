--------------------------- MODULE EvidenceProofs ---------------------------
(***************************************************************************)
(* What the operator's commands report: the evidence directory, a          *)
(* downloaded release and the SCIM walk are judged rightly, and the MCP    *)
(* server reads only where it may, whatever else writes, fails or moves    *)
(* meanwhile.                                                              *)
(***************************************************************************)
EXTENDS ReleaseEvidence, ReleaseAssets, ScimSmoke, EvidencePaths, SequenceTheorems,
        FiniteSetTheorems, WellFoundedInduction, TLAPS

-----------------------------------------------------------------------------
(* ReleaseEvidence: what an entry is, and what the check is looking at.    *)

EntryType ==
    [kind : {"file", "symlink", "directory", "other"}, modified : {"recent", "old"},
     content : [form : {"object", "array", "text", "unreadable"},
                stamp : {"recent", "none", "unparsed", "old", "future"},
                forbidden : Nat, contract : Nat]]

FailureCodes == {Priority[i] : i \in DOMAIN Priority}

\* The file at a position of the check, other than the inventory's.
NameAt(p) == IF p < InventoryAt THEN ScaffoldFiles[p] ELSE Artifacts[p - InventoryAt]

Fine(n) == n \in DOMAIN entries /\ Acceptable(n, entries[n])

AllFine ==
    /\ dirThere /\ DOMAIN entries = AllowedFiles
    /\ \A n \in AllowedFiles : Acceptable(n, entries[n])

-----------------------------------------------------------------------------
(* The inductive invariant.                                                *)

EvidenceFiles ==
    /\ dirThere \in BOOLEAN /\ DOMAIN entries \subseteq AllowedFiles \cup {"stray"}
    /\ \A n \in DOMAIN entries : entries[n] \in EntryType

EvidenceControl ==
    /\ cpc \in {"idle", "resolved", "stat", "read", "report", "done"}
    /\ cpos \in 1..(LastAt + 1) /\ failures \in Nat /\ here \in Nat
    /\ cpc \in {"idle", "resolved"} => cpos = 1 /\ failures = 0 /\ status = <<>>
    /\ cpc = "stat" => cpos <= LastAt
    /\ cpc = "read" => cpos <= LastAt /\ cpos # InventoryAt
    /\ cpc = "report" => cpos = LastAt + 1
    /\ cpc # "read" \/ cpos < InventoryAt => here = 0
    /\ cpc = "done" <=> finalReport # "none"
    /\ finalReport \in {"none", "ready", "incomplete", "invalid_max_age", "not_a_directory",
                        "symlink_entry", "filesystem_error", "stat_failed"}
    /\ finalReport \in {"ready", "incomplete"} => cpos = LastAt + 1
    /\ finalReport = "ready" => failures = 0
    /\ finalReport = "incomplete" => failures > 0
    /\ cpc # "idle" /\ finalReport \notin {"invalid_max_age", "not_a_directory"} => dirThere = TRUE

\* Every failure was given its code when it was counted.
EvidenceCodes ==
    /\ codes \in Seq(FailureCodes) /\ failures = Len(codes)
    /\ hereCodes \in Seq(FailureCodes) /\ here = Len(hereCodes)

\* The artifacts before the current one have a status, and one that did not
\* pass has been counted.
EvidenceStatus ==
    /\ DOMAIN status = {Artifacts[i] : i \in {k \in DOMAIN Artifacts : InventoryAt + k < cpos}}
    /\ failures = 0 => \A a \in DOMAIN status : status[a] = "passed"

\* Without a failure so far, what was looked at and left alone is as it
\* should be.
EvidenceSeen ==
    /\ failures = 0 =>
         /\ \A p \in 1..LastAt : p < cpos /\ p # InventoryAt => NameAt(p) \in touched \/ Fine(NameAt(p))
         /\ cpos > InventoryAt => DOMAIN entries \subseteq AllowedFiles \cup touched
    /\ cpc = "read" /\ NameAt(cpos) \notin touched =>
         /\ NameAt(cpos) \in DOMAIN entries /\ entries[NameAt(cpos)].kind = "file"
         /\ here = 0 /\ cpos > InventoryAt => entries[NameAt(cpos)].modified = "recent"

\* While nobody writes, a failure is never counted of what is as it should be.
EvidenceBad ==
    touched = {} =>
        /\ failures > 0 \/ here > 0 => ~AllFine
        /\ finalReport \in {"not_a_directory", "symlink_entry", "filesystem_error"} => ~AllFine

\* What was there when the init began is there, and is not about to be
\* written, unless somebody else has written or removed it.
EvidenceKept ==
    /\ ipc \in {"idle", "look", "ensure", "truncate", "fill"}
    /\ ipos \in 1..Len(ScaffoldFiles) /\ force \in BOOLEAN
    /\ existed \subseteq Scaffold
    /\ ipc # "idle" /\ ~force =>
         /\ existed \ replaced \subseteq DOMAIN entries
         /\ ipc \in {"truncate", "fill"} => ScaffoldFiles[ipos] \notin existed \ replaced

EvidenceInv ==
    /\ EvidenceFiles /\ EvidenceControl /\ EvidenceCodes /\ EvidenceStatus
    /\ EvidenceSeen /\ EvidenceBad /\ EvidenceKept
-----------------------------------------------------------------------------
(* Constants and sequences.                                                *)

\* ScaffoldFiles, Artifacts: three files of the scaffold, then the directory,
\* then the artifacts, each with a file of its own.
LEMMA Positions ==
    /\ Len(ScaffoldFiles) = 3 /\ DOMAIN ScaffoldFiles = 1..3
    /\ InventoryAt = 4 /\ LastAt = 4 + Len(Artifacts)
    /\ Len(Artifacts) \in Nat /\ DOMAIN Artifacts = 1..Len(Artifacts)
    /\ \A p \in 1..3 : NameAt(p) = ScaffoldFiles[p] /\ NameAt(p) \in Scaffold /\ NameAt(p) \notin Specs
    /\ \A p \in 5..LastAt : /\ NameAt(p) = Artifacts[p - 4] /\ p - 4 \in DOMAIN Artifacts
                            /\ NameAt(p) \in Specs
    /\ \A n \in AllowedFiles : \E p \in 1..LastAt : p # 4 /\ NameAt(p) = n
<1>1. Len(ScaffoldFiles) = 3 /\ DOMAIN ScaffoldFiles = 1..3
  BY DEF ScaffoldFiles
<1>2. InventoryAt = 4 /\ LastAt = 4 + Len(Artifacts)
  BY <1>1 DEF InventoryAt, LastAt
<1>3. Len(Artifacts) \in Nat /\ DOMAIN Artifacts = 1..Len(Artifacts)
  BY EvidenceConstants, LenProperties
<1>4. Specs \cap Scaffold = {}
  BY EvidenceConstants
<1>5. ASSUME NEW p \in 1..3
      PROVE  NameAt(p) = ScaffoldFiles[p] /\ NameAt(p) \in Scaffold /\ NameAt(p) \notin Specs
  <2>1. NameAt(p) = ScaffoldFiles[p]
    BY <1>2 DEF NameAt
  <2>2. NameAt(p) \in Scaffold
    BY <2>1, <1>1 DEF Scaffold
  <2> QED
    BY <2>1, <2>2, <1>4
<1>6. ASSUME NEW p \in 5..LastAt
      PROVE  NameAt(p) = Artifacts[p - 4] /\ p - 4 \in DOMAIN Artifacts /\ NameAt(p) \in Specs
  <2>1. NameAt(p) = Artifacts[p - 4] /\ p - 4 \in DOMAIN Artifacts
    BY <1>2, <1>3 DEF NameAt
  <2> QED
    BY <2>1 DEF Specs
<1>7. ASSUME NEW n \in AllowedFiles
      PROVE  \E p \in 1..LastAt : p # 4 /\ NameAt(p) = n
  <2>1. CASE n \in Specs
    <3>1. PICK i \in DOMAIN Artifacts : Artifacts[i] = n
      BY <2>1 DEF Specs
    <3>2. i + 4 \in 5..LastAt /\ (i + 4) - 4 = i
      BY <1>2, <1>3
    <3> QED
      BY <3>1, <3>2, <1>6, <1>2, <1>3
  <2>2. CASE n \in Scaffold
    <3>1. PICK i \in 1..3 : ScaffoldFiles[i] = n
      BY <2>2, <1>1 DEF Scaffold
    <3>2. i \in 1..LastAt /\ i # 4
      BY <1>2, <1>3
    <3> QED
      BY <3>1, <3>2, <1>5
  <2> QED
    BY <2>1, <2>2 DEF AllowedFiles
<1> QED
  BY <1>1, <1>2, <1>3, <1>5, <1>6, <1>7

\* push_code_for_new_failures: as many codes as failures.
LEMMA Filled ==
    ASSUME NEW S, NEW k \in Nat, NEW c \in S
    PROVE  [i \in 1..k |-> c] \in Seq(S) /\ Len([i \in 1..k |-> c]) = k
OBVIOUS

\* Reported: the failures and their codes stay as many.
LEMMA Together ==
    ASSUME NEW S, NEW s \in Seq(S), NEW t \in Seq(S)
    PROVE  s \o t \in Seq(S) /\ Len(s \o t) = Len(s) + Len(t)
BY ConcatProperties

\* EVIDENCE_SPECS: as many artifacts as positions.
LEMMA ArtifactsCounted == IsFiniteSet(Specs) /\ Cardinality(Specs) = Len(Artifacts)
<1> DEFINE named == [i \in 1..Len(Artifacts) |-> Artifacts[i]]
<1>1. Len(Artifacts) \in Nat /\ DOMAIN Artifacts = 1..Len(Artifacts)
  BY Positions
<1>2. named \in Bijection(1..Len(Artifacts), Specs)
  <2>1. \A i, j \in DOMAIN Artifacts : Artifacts[i] = Artifacts[j] => i = j
    BY EvidenceConstants
  <2>2. named \in [1..Len(Artifacts) -> Specs]
    <3>1. \A i \in 1..Len(Artifacts) : Artifacts[i] \in Specs
      BY <1>1 DEF Specs
    <3> QED
      BY <3>1
  <2>3. \A i, j \in 1..Len(Artifacts) : named[i] = named[j] => i = j
    BY <2>1, <1>1
  <2>4. \A n \in Specs : \E i \in 1..Len(Artifacts) : named[i] = n
    <3>1. \A n \in Specs : \E i \in 1..Len(Artifacts) : Artifacts[i] = n
      BY <1>1, Zenon DEF Specs
    <3> QED
      BY <3>1
  <2> HIDE DEF named
  <2> QED
    BY <2>2, <2>3, <2>4 DEF Bijection, Injection, Surjection, IsInjective
<1>3. IsFiniteSet(1..Len(Artifacts)) /\ Cardinality(1..Len(Artifacts)) = Len(Artifacts)
  <2>1. Len(Artifacts) \in Int /\ 1 \in Int
    BY <1>1
  <2>2. /\ IsFiniteSet(1..Len(Artifacts))
        /\ Cardinality(1..Len(Artifacts)) = IF 1 > Len(Artifacts) THEN 0 ELSE Len(Artifacts) - 1 + 1
    BY <2>1, FS_Interval
  <2> QED
    BY <2>2, <1>1
<1> HIDE DEF named
<1> QED
  BY <1>2, <1>3, FS_Bijection, <1>1 DEF ExistsBijection

LEMMA ScaffoldFinite == IsFiniteSet(Scaffold)
<1>1. Scaffold = {"release-evidence-manifest.json", "README.md", ".gitignore"}
  BY DEF Scaffold, ScaffoldFiles
<1>3. IsFiniteSet({"README.md"} \cup {".gitignore"})
  BY FS_Singleton, FS_Union
<1>4. IsFiniteSet({"release-evidence-manifest.json"} \cup ({"README.md"} \cup {".gitignore"}))
  BY <1>3, FS_Singleton, FS_Union
<1>5. Scaffold = {"release-evidence-manifest.json"} \cup ({"README.md"} \cup {".gitignore"})
  BY <1>1
<1> QED
  BY <1>4, <1>5

\* ensure_..., read_dir: a directory is listed in full.
LEMMA DirectoryFinite ==
    ASSUME EvidenceFiles PROVE IsFiniteSet(DOMAIN entries)
<1>1. IsFiniteSet(AllowedFiles)
  BY ArtifactsCounted, ScaffoldFinite, FS_Union DEF AllowedFiles
<1>2. IsFiniteSet(AllowedFiles \cup {"stray"})
  BY <1>1, FS_Singleton, FS_Union
<1> QED
  BY <1>2, FS_Subset DEF EvidenceFiles
-----------------------------------------------------------------------------
(* What the faults of an entry say about it.                               *)

LEMMA EntryFields ==
    ASSUME NEW e \in EntryType
    PROVE  /\ e.kind \in {"file", "symlink", "directory", "other"} /\ e.modified \in {"recent", "old"}
           /\ e.content.form \in {"object", "array", "text", "unreadable"}
           /\ e.content.stamp \in {"recent", "none", "unparsed", "old", "future"}
           /\ e.content.forbidden \in Nat /\ e.content.contract \in Nat
BY DEF EntryType

\* read_scaffold_file, validate_release_evidence_scaffold: an entry that can
\* be read and is dated has no fault exactly if it is acceptable.
LEMMA ScaffoldJudged ==
    ASSUME EvidenceFiles, NEW n \in Scaffold, n \notin Specs, n \in DOMAIN entries,
           entries[n].kind = "file"
    PROVE  /\ ScaffoldFaults(n) \in Nat
           /\ Readable(n) /\ ~Undated(n) => (ScaffoldFaults(n) = 0 <=> Acceptable(n, entries[n]))
           /\ ~Readable(n) \/ Undated(n) => ~Acceptable(n, entries[n])
<1>1. entries[n] \in EntryType
  BY DEF EvidenceFiles
<1>2. /\ entries[n].content.form \in {"object", "array", "text", "unreadable"}
      /\ entries[n].content.stamp \in {"recent", "none", "unparsed", "old", "future"}
      /\ entries[n].content.contract \in Nat
  BY <1>1, EntryFields
<1>3. Acceptable(n, entries[n]) <=> AcceptableScaffold(n, entries[n])
  BY DEF Acceptable
<1> QED
  BY <1>2, <1>3 DEF AcceptableScaffold, ScaffoldFaults, Readable, Undated, PathKind

LEMMA FaultsAreNumbers ==
    ASSUME EvidenceFiles, NEW n \in DOMAIN entries
    PROVE  ScaffoldFaults(n) \in Nat
<1>1. entries[n] \in EntryType
  BY DEF EvidenceFiles
<1>2. entries[n].content.contract \in Nat
  BY <1>1, EntryFields
<1> QED
  BY <1>2 DEF ScaffoldFaults

\* check_artifact: the same of an artifact, whose age was looked at before.
LEMMA ArtifactJudged ==
    ASSUME EvidenceFiles, NEW a \in Specs, a \in DOMAIN entries
    PROVE  /\ ForbiddenFields(a, entries[a].content) \in Nat
           /\ TimestampFaults(entries[a].content) \in Nat /\ entries[a].content.contract \in Nat
           /\ Acceptable(a, entries[a]) <=>
                /\ entries[a].kind = "file" /\ entries[a].modified # "old"
                /\ Readable(a) /\ entries[a].content.form = "object"
                /\ ForbiddenFields(a, entries[a].content) = 0
                /\ TimestampFaults(entries[a].content) = 0 /\ entries[a].content.contract = 0
<1>1. entries[a] \in EntryType
  BY DEF EvidenceFiles
<1>2. /\ entries[a].modified \in {"recent", "old"}
      /\ entries[a].content.form \in {"object", "array", "text", "unreadable"}
      /\ entries[a].content.stamp \in {"recent", "none", "unparsed", "old", "future"}
      /\ entries[a].content.forbidden \in Nat /\ entries[a].content.contract \in Nat
  BY <1>1, EntryFields
<1>3. Acceptable(a, entries[a]) <=> AcceptableArtifact(a, entries[a])
  BY DEF Acceptable
<1> QED
  BY <1>2, <1>3 DEF AcceptableArtifact, ForbiddenFields, TimestampFaults, Readable, PathKind

\* validate_release_evidence_file_inventory: no fault means that nothing is
\* there that does not belong, and a fault that something is.
LEMMA InventoryJudged ==
    ASSUME EvidenceFiles
    PROVE  /\ InventoryFaults \in Nat
           /\ InventoryFaults = 0 => DOMAIN entries \subseteq AllowedFiles
           /\ InventoryFaults > 0 => ~AllFine
<1> DEFINE strays == DOMAIN entries \ AllowedFiles
           odd == {n \in DOMAIN entries : entries[n].kind # "file"}
<1>1. IsFiniteSet(strays) /\ IsFiniteSet(odd)
  BY DirectoryFinite, FS_Subset
<1>2. Cardinality(strays) \in Nat /\ Cardinality(odd) \in Nat
  BY <1>1, FS_CardinalityType
<1>3. Cardinality(strays) = 0 <=> strays = {}
  BY <1>1, FS_EmptySet
<1>4. Cardinality(odd) = 0 <=> odd = {}
  BY <1>1, FS_EmptySet
<1>5. AllFine => strays = {} /\ odd = {}
  BY DEF AllFine, Acceptable, AcceptableArtifact, AcceptableScaffold
<1>6. InventoryFaults = Cardinality(strays) + Cardinality(odd)
  BY DEF InventoryFaults
<1>7. strays = {} => DOMAIN entries \subseteq AllowedFiles
  OBVIOUS
<1> HIDE DEF strays, odd
<1> QED
  BY <1>2, <1>3, <1>4, <1>5, <1>6, <1>7
-----------------------------------------------------------------------------
(* Others write while the check runs.                                      *)

\* One name is written or removed, and everything else stays.
Changing(n) ==
    /\ touched' = touched \cup {n}
    /\ DOMAIN entries' \subseteq DOMAIN entries \cup {n}
    /\ DOMAIN entries \ {n} \subseteq DOMAIN entries'
    /\ \A x \in DOMAIN entries' : x # n => entries'[x] = entries[x]

LEMMA ChangeKeepsCheck ==
    ASSUME EvidenceInv, NEW n, Changing(n), UNCHANGED checkVars, UNCHANGED dirThere
    PROVE  EvidenceControl' /\ EvidenceCodes' /\ EvidenceStatus' /\ EvidenceSeen' /\ EvidenceBad'
<1>1. /\ UNCHANGED <<cpc, cpos, failures, codes, here, hereCodes, status, finalReport>>
  BY DEF checkVars
<1>2. EvidenceControl'
  BY <1>1 DEF EvidenceInv, EvidenceControl, LastAt, InventoryAt
<1>3. EvidenceCodes'
  BY <1>1 DEF EvidenceInv, EvidenceCodes, FailureCodes, Priority
<1>4. EvidenceStatus'
  BY <1>1 DEF EvidenceInv, EvidenceStatus, InventoryAt
<1>5. \A x : Fine(x) /\ x # n => Fine(x)'
  BY DEF Fine, Changing
<1>6. \A x : x \notin touched' => x # n /\ x \notin touched
  BY DEF Changing
<1>7. EvidenceSeen'
  <2>1. ASSUME failures' = 0
        PROVE  /\ \A p \in 1..LastAt : p < cpos' /\ p # InventoryAt =>
                    NameAt(p) \in touched' \/ Fine(NameAt(p))'
               /\ cpos' > InventoryAt => DOMAIN entries' \subseteq AllowedFiles \cup touched'
    <3>1. /\ \A p \in 1..LastAt : p < cpos /\ p # InventoryAt => NameAt(p) \in touched \/ Fine(NameAt(p))
          /\ cpos > InventoryAt => DOMAIN entries \subseteq AllowedFiles \cup touched
      BY <2>1, <1>1 DEF EvidenceInv, EvidenceSeen
    <3>2. \A p \in 1..LastAt : p < cpos' /\ p # InventoryAt => NameAt(p) \in touched' \/ Fine(NameAt(p))'
      BY <3>1, <1>1, <1>5, <1>6
    <3>3. cpos' > InventoryAt => DOMAIN entries' \subseteq AllowedFiles \cup touched'
      BY <3>1, <1>1 DEF Changing
    <3> QED
      BY <3>2, <3>3
  <2>2. ASSUME cpc' = "read", NameAt(cpos') \notin touched'
        PROVE  /\ NameAt(cpos') \in DOMAIN entries' /\ entries'[NameAt(cpos')].kind = "file"
               /\ here' = 0 /\ cpos' > InventoryAt => entries'[NameAt(cpos')].modified = "recent"
    <3>1. NameAt(cpos) \notin touched /\ NameAt(cpos) # n /\ NameAt(cpos') = NameAt(cpos)
      BY <2>2, <1>1, <1>6
    <3>2. /\ NameAt(cpos) \in DOMAIN entries /\ entries[NameAt(cpos)].kind = "file"
          /\ here = 0 /\ cpos > InventoryAt => entries[NameAt(cpos)].modified = "recent"
      BY <3>1, <2>2, <1>1 DEF EvidenceInv, EvidenceSeen
    <3>3. NameAt(cpos) \in DOMAIN entries' /\ entries'[NameAt(cpos)] = entries[NameAt(cpos)]
      BY <3>1, <3>2 DEF Changing
    <3> QED
      BY <3>1, <3>2, <3>3, <1>1
  <2>3. (\A p : NameAt(p)' = NameAt(p)) /\ InventoryAt' = InventoryAt /\ LastAt' = LastAt /\ AllowedFiles' = AllowedFiles
    BY DEF NameAt, InventoryAt, LastAt, AllowedFiles, Specs, Scaffold, ScaffoldFiles
  <2> QED
    BY <2>1, <2>2, <2>3 DEF EvidenceSeen
<1>8. EvidenceBad'
  <2>1. touched' # {}
    BY DEF Changing
  <2> QED
    BY <2>1 DEF EvidenceBad
<1> QED
  BY <1>2, <1>3, <1>4, <1>7, <1>8

LEMMA StillKeepsCheck ==
    ASSUME EvidenceInv, UNCHANGED <<checkVars, entries, touched>>,
           dirThere' = dirThere \/ (dirThere' = TRUE /\ finalReport = "none")
    PROVE  /\ EvidenceFiles' /\ EvidenceControl' /\ EvidenceCodes' /\ EvidenceStatus'
           /\ EvidenceSeen' /\ EvidenceBad'
<1>1. /\ UNCHANGED <<cpc, cpos, failures, codes, here, hereCodes, status, finalReport>>
      /\ UNCHANGED <<entries, touched>>
  BY DEF checkVars
<1>2. EvidenceFiles'
  BY <1>1 DEF EvidenceInv, EvidenceFiles
<1>3. EvidenceControl'
  BY <1>1 DEF EvidenceInv, EvidenceControl
<1>4. EvidenceCodes'
  BY <1>1 DEF EvidenceInv, EvidenceCodes
<1>5. EvidenceStatus'
  BY <1>1 DEF EvidenceInv, EvidenceStatus
<1>6. EvidenceSeen'
  BY <1>1 DEF EvidenceInv, EvidenceSeen, Fine
<1>7. EvidenceBad'
  <2>1. CASE dirThere' = dirThere
    BY <1>1, <2>1 DEF EvidenceInv, EvidenceBad, AllFine
  <2>2. CASE ~dirThere /\ finalReport = "none"
    <3>1. cpc = "idle" /\ failures = 0 /\ here = 0
      <4>1. dirThere # TRUE
        BY <2>2
      <4> QED
        BY <4>1, <2>2 DEF EvidenceInv, EvidenceControl
    <3> QED
      BY <3>1, <2>2, <1>1 DEF EvidenceBad
  <2> QED
    BY <2>1, <2>2 DEF EvidenceInv, EvidenceFiles
<1> QED
  BY <1>2, <1>3, <1>4, <1>5, <1>6, <1>7
-----------------------------------------------------------------------------
(* The writers: operators, and `evidence init`.                            *)

ContentType ==
    [form : {"object", "array", "text", "unreadable"},
     stamp : {"recent", "none", "unparsed", "old", "future"}, forbidden : Nat, contract : Nat]

LEMMA EntriesTyped == Entries \subseteq EntryType
<1>1. Sound \in ContentType
  BY DEF Sound, ContentType
<1>2. \A c \in Contents : c \in ContentType
  <2>1. \A f \in {"array", "text", "unreadable"} : [Sound EXCEPT !.form = f] \in ContentType
    BY DEF Sound, ContentType
  <2>2. \A t \in {"none", "unparsed", "old", "future"} : [Sound EXCEPT !.stamp = t] \in ContentType
    <3> TAKE t \in {"none", "unparsed", "old", "future"}
    <3>1. [Sound EXCEPT !.stamp = t] = [form |-> "object", stamp |-> t, forbidden |-> 0, contract |-> 0]
      BY DEF Sound
    <3>2. t \in {"recent", "none", "unparsed", "old", "future"}
      OBVIOUS
    <3> QED
      BY <3>1, <3>2 DEF ContentType
  <2>3. \A c \in [form : {"object"}, stamp : {"recent"}, forbidden : {0, 2}, contract : {0, 1}] : c \in ContentType
    BY DEF ContentType
  <2> QED
    BY <2>1, <2>2, <2>3, Zenon DEF Contents
<1>3. \A c \in Contents : Regular(c) \in EntryType
  BY <1>2 DEF Regular, EntryType, ContentType
<1>4. \A m \in {"recent", "old"}, x \in {0, 1} :
        [Regular([Sound EXCEPT !.contract = x]) EXCEPT !.modified = m] \in EntryType
  BY DEF Regular, Sound, EntryType
<1>5. [Regular(Sound) EXCEPT !.modified = "old"] \in EntryType
  BY DEF Regular, Sound, EntryType
<1>6. \A k \in {"symlink", "directory", "other"} : [Regular(Sound) EXCEPT !.kind = k] \in EntryType
  BY DEF Regular, Sound, EntryType
<1> QED
  BY <1>3, <1>4, <1>5, <1>6 DEF Entries

LEMMA WrittenTyped ==
    /\ Regular(Sound) \in EntryType
    /\ [Regular(Sound) EXCEPT !.kind = "symlink"] \in EntryType
    /\ \A n : Holding(n, Sound) \in EntryType /\ Holding(n, Blank) \in EntryType
BY DEF Regular, Sound, Blank, Holding, EntryType

LEMMA StoreChanges ==
    ASSUME EvidenceFiles, NEW n \in AllowedFiles \cup {"stray"}, NEW e \in EntryType, Store(n, e), UNCHANGED dirThere
    PROVE  Changing(n) /\ EvidenceFiles' /\ DOMAIN entries' = DOMAIN entries \cup {n}
BY DEF Store, Changing, EvidenceFiles, AllowedFiles, Specs, Scaffold, ScaffoldFiles

LEMMA CaptureKeeps ==
    ASSUME EvidenceInv, NEW n \in AllowedFiles \cup {"stray"}, Capture(n)
    PROVE  EvidenceInv'
<1>1. PICK e \in Entries : Store(n, e)
  BY DEF Capture
<1>2. e \in EntryType /\ UNCHANGED dirThere /\ EvidenceFiles
  BY EntriesTyped DEF Capture, EvidenceInv
<1>3. Changing(n) /\ EvidenceFiles' /\ DOMAIN entries' = DOMAIN entries \cup {n}
  BY <1>1, <1>2, StoreChanges
<1>4. EvidenceControl' /\ EvidenceCodes' /\ EvidenceStatus' /\ EvidenceSeen' /\ EvidenceBad'
  BY <1>3, ChangeKeepsCheck DEF Capture
<1>5. EvidenceKept'
  BY <1>3 DEF Capture, EvidenceInv, EvidenceKept, Scaffold, ScaffoldFiles
<1> QED
  BY <1>3, <1>4, <1>5 DEF EvidenceInv

LEMMA DiscardKeeps ==
    ASSUME EvidenceInv, NEW n \in AllowedFiles \cup {"stray"}, Discard(n)
    PROVE  EvidenceInv'
<1>1. /\ entries' = [x \in DOMAIN entries \ {n} |-> entries[x]]
      /\ touched' = touched \cup {n} /\ UNCHANGED dirThere /\ UNCHANGED checkVars
      /\ replaced' = replaced \cup {n} /\ UNCHANGED <<ipc, ipos, force, existed>>
  BY DEF Discard
<1>2. DOMAIN entries' = DOMAIN entries \ {n}
  BY <1>1
<1>3. Changing(n)
  BY <1>1, <1>2 DEF Changing
<1>4. EvidenceFiles'
  BY <1>1, <1>2 DEF EvidenceInv, EvidenceFiles, AllowedFiles, Specs, Scaffold, ScaffoldFiles
<1>5. EvidenceControl' /\ EvidenceCodes' /\ EvidenceStatus' /\ EvidenceSeen' /\ EvidenceBad'
  BY <1>1, <1>3, ChangeKeepsCheck
<1>6. EvidenceKept'
  BY <1>1, <1>2 DEF EvidenceInv, EvidenceKept, Scaffold, ScaffoldFiles
<1> QED
  BY <1>4, <1>5, <1>6 DEF EvidenceInv

LEMMA BeginInitKeeps ==
    ASSUME EvidenceInv, BeginInit
    PROVE  EvidenceInv'
<1>1. UNCHANGED <<checkVars, entries, touched>> /\ dirThere' = TRUE /\ finalReport = "none"
  BY DEF BeginInit
<1>2. /\ EvidenceFiles' /\ EvidenceControl' /\ EvidenceCodes' /\ EvidenceStatus'
      /\ EvidenceSeen' /\ EvidenceBad'
  BY <1>1, StillKeepsCheck
<1>3. EvidenceKept'
  BY Positions DEF BeginInit, EvidenceInv, EvidenceKept, Scaffold
<1> QED
  BY <1>2, <1>3 DEF EvidenceInv

\* ensure_scaffold_file_can_be_written: without --force a file that is there
\* is refused, at the first look and at the second.
LEMMA LookFirstKeeps ==
    ASSUME EvidenceInv, LookFirst
    PROVE  EvidenceInv'
<1>1. UNCHANGED <<checkVars, entries, touched>> /\ UNCHANGED dirThere
  BY DEF LookFirst
<1>2. /\ EvidenceFiles' /\ EvidenceControl' /\ EvidenceCodes' /\ EvidenceStatus'
      /\ EvidenceSeen' /\ EvidenceBad'
  BY <1>1, StillKeepsCheck
<1>3. EvidenceKept'
  BY Positions DEF LookFirst, InitEnds, EvidenceInv, EvidenceKept, Scaffold, ScaffoldFiles
<1> QED
  BY <1>2, <1>3 DEF EvidenceInv

LEMMA EnsureAgainKeeps ==
    ASSUME EvidenceInv, EnsureAgain
    PROVE  EvidenceInv'
<1>1. UNCHANGED <<checkVars, entries, touched>> /\ UNCHANGED <<dirThere, force, existed, replaced>>
  BY DEF EnsureAgain
<1>2. /\ EvidenceFiles' /\ EvidenceControl' /\ EvidenceCodes' /\ EvidenceStatus'
      /\ EvidenceSeen' /\ EvidenceBad'
  BY <1>1, StillKeepsCheck
<1>3. EvidenceKept'
  <2>1. CASE MayWrite(ScaffoldFiles[ipos])
    <3>1. ipc' = "truncate" /\ ipos' = ipos
      BY <2>1 DEF EnsureAgain
    <3>2. ~force => ScaffoldFiles[ipos] \notin DOMAIN entries
      <4>1. ASSUME ~force, ScaffoldFiles[ipos] \in DOMAIN entries
            PROVE  FALSE
        <5>1. entries[ScaffoldFiles[ipos]].kind \in {"file", "symlink", "directory", "other"}
          BY <4>1, EntryFields DEF EvidenceInv, EvidenceFiles
        <5> QED
          BY <4>1, <5>1, <2>1 DEF MayWrite, PathKind
      <4> QED
        BY <4>1
    <3>3. ipc = "ensure"
      BY DEF EnsureAgain
    <3> QED
      BY <3>1, <3>2, <3>3, <1>1 DEF EvidenceInv, EvidenceKept, Scaffold, ScaffoldFiles
  <2>2. CASE ~MayWrite(ScaffoldFiles[ipos])
    BY <2>2, Positions, <1>1 DEF EnsureAgain, InitEnds, EvidenceInv, EvidenceKept, Scaffold, ScaffoldFiles
  <2> QED
    BY <2>1, <2>2
<1> QED
  BY <1>2, <1>3 DEF EvidenceInv

\* What an init writes, or leaves, beside a check that goes on.
LEMMA WritingKeeps ==
    ASSUME EvidenceInv, ipc \in {"truncate", "fill"}, UNCHANGED <<dirThere, checkVars, force, existed, replaced>>,
           \/ \E e \in EntryType : Store(ScaffoldFiles[ipos], e)
           \/ UNCHANGED <<entries, touched>>,
           ipc' \in {"idle", "ensure", "truncate", "fill"}, ipos' \in 1..Len(ScaffoldFiles),
           ipc' \in {"truncate", "fill"} => ipos' = ipos
    PROVE  EvidenceInv'
<1> DEFINE n == ScaffoldFiles[ipos]
<1>1. n \in AllowedFiles /\ n \in Scaffold
  BY Positions DEF EvidenceInv, EvidenceKept, Scaffold, AllowedFiles
<1>2. CASE \E e \in EntryType : Store(n, e)
  <2>1. Changing(n) /\ EvidenceFiles' /\ DOMAIN entries' = DOMAIN entries \cup {n}
    BY <1>1, <1>2, StoreChanges DEF EvidenceInv
  <2>2. EvidenceControl' /\ EvidenceCodes' /\ EvidenceStatus' /\ EvidenceSeen' /\ EvidenceBad'
    BY <2>1, ChangeKeepsCheck
  <2>3. EvidenceKept'
    BY <2>1 DEF EvidenceInv, EvidenceKept, Scaffold, ScaffoldFiles
  <2> QED
    BY <2>1, <2>2, <2>3 DEF EvidenceInv
<1>3. CASE UNCHANGED <<entries, touched>>
  <2>1. /\ EvidenceFiles' /\ EvidenceControl' /\ EvidenceCodes' /\ EvidenceStatus'
        /\ EvidenceSeen' /\ EvidenceBad'
    BY <1>3, StillKeepsCheck
  <2>2. EvidenceKept'
    BY <1>3 DEF EvidenceInv, EvidenceKept, Scaffold, ScaffoldFiles
  <2> QED
    BY <2>1, <2>2 DEF EvidenceInv
<1> QED
  BY <1>2, <1>3

LEMMA WriteScaffoldKeeps ==
    ASSUME EvidenceInv, OpenScaffold \/ FillScaffold
    PROVE  EvidenceInv'
<1>1. UNCHANGED <<dirThere, checkVars, force, existed, replaced>> /\ ipc \in {"truncate", "fill"}
  BY DEF OpenScaffold, FillScaffold
<1>2. \/ \E e \in EntryType : Store(ScaffoldFiles[ipos], e)
      \/ UNCHANGED <<entries, touched>>
  BY WrittenTyped DEF OpenScaffold, FillScaffold
<1>3. /\ ipc' \in {"idle", "ensure", "truncate", "fill"} /\ ipos' \in 1..Len(ScaffoldFiles)
      /\ ipc' \in {"truncate", "fill"} => ipos' = ipos
  BY Positions DEF OpenScaffold, FillScaffold, InitEnds, EvidenceInv, EvidenceKept
<1> QED
  BY <1>1, <1>2, <1>3, WritingKeeps

LEMMA InitFailsKeeps ==
    ASSUME EvidenceInv, InitFails
    PROVE  EvidenceInv'
<1>1. UNCHANGED <<checkVars, entries, touched>> /\ UNCHANGED dirThere
  BY DEF InitFails
<1>2. /\ EvidenceFiles' /\ EvidenceControl' /\ EvidenceCodes' /\ EvidenceStatus'
      /\ EvidenceSeen' /\ EvidenceBad'
  BY <1>1, StillKeepsCheck
<1>3. EvidenceKept'
  BY Positions DEF InitFails, InitEnds, EvidenceInv, EvidenceKept
<1> QED
  BY <1>2, <1>3 DEF EvidenceInv
-----------------------------------------------------------------------------
(* The check goes on.                                                      *)

\* A step of the check leaves the directory and a running init alone.
LEMMA FrameKeeps ==
    ASSUME EvidenceInv, Frame
    PROVE  /\ EvidenceFiles' /\ EvidenceKept' /\ touched' = touched /\ entries' = entries
           /\ AllFine' = AllFine /\ dirThere' = dirThere /\ \A n : Fine(n)' = Fine(n)
<1>1. UNCHANGED <<dirThere, entries, touched, ipc, ipos, force, existed, replaced>>
  BY DEF Frame, initVars
<1>2. EvidenceFiles'
  BY <1>1 DEF EvidenceInv, EvidenceFiles
<1>3. EvidenceKept'
  BY <1>1 DEF EvidenceInv, EvidenceKept
<1>4. AllFine' = AllFine /\ \A n : Fine(n)' = Fine(n)
  BY <1>1 DEF AllFine, Fine
<1> QED
  BY <1>1, <1>2, <1>3, <1>4

\* A check that looks at something has not reported.
LEMMA ReaderTyped ==
    ASSUME EvidenceInv, cpc \in {"stat", "read"}
    PROVE  /\ cpos \in 1..LastAt /\ failures \in Nat /\ here \in Nat /\ finalReport = "none"
           /\ InventoryAt = 4 /\ LastAt = 4 + Len(Artifacts) /\ Len(Artifacts) \in Nat
<1>1. InventoryAt = 4 /\ LastAt = 4 + Len(Artifacts) /\ Len(Artifacts) \in Nat
  BY Positions
<1>2. EvidenceControl
  BY DEF EvidenceInv
<1>3. cpos \in 1..(LastAt + 1) /\ cpos <= LastAt
  BY <1>2 DEF EvidenceControl
<1>4. failures \in Nat /\ here \in Nat /\ finalReport = "none"
  BY <1>2 DEF EvidenceControl
<1> QED
  BY <1>1, <1>3, <1>4

\* The failures of one place are counted, and the check goes on behind it:
\* none where the place is as it should be, some only where it is not.
Judging(k, found) ==
    /\ Frame /\ UNCHANGED finalReport /\ cpc \in {"stat", "read"}
    /\ k \in Nat /\ found \in Seq(FailureCodes) /\ Len(found) = k
    /\ Reported(k, found) /\ GoOn(cpos + 1)
    /\ \/ here' = 0 /\ hereCodes' = <<>>
       \/ here' = here /\ hereCodes' = hereCodes /\ here = 0
    /\ k = 0 /\ cpos # InventoryAt => NameAt(cpos) \in touched \/ Fine(NameAt(cpos))
    /\ k = 0 /\ cpos = InventoryAt => DOMAIN entries \subseteq AllowedFiles
    /\ k > 0 /\ touched = {} => ~AllFine

LEMMA JudgingKeeps ==
    ASSUME EvidenceInv, NEW k, NEW found, Judging(k, found)
    PROVE  EvidenceControl' /\ EvidenceCodes' /\ EvidenceSeen' /\ EvidenceBad'
<1>0. /\ Frame /\ UNCHANGED finalReport /\ cpc \in {"stat", "read"}
      /\ k \in Nat /\ found \in Seq(FailureCodes) /\ Len(found) = k
      /\ Reported(k, found) /\ GoOn(cpos + 1)
  BY DEF Judging
<1>1. failures' = failures + k /\ codes' = codes \o found /\ cpos' = cpos + 1
  BY <1>0 DEF Reported, GoOn
<1>2. /\ cpos \in 1..LastAt /\ failures \in Nat /\ here \in Nat /\ finalReport = "none"
      /\ InventoryAt = 4 /\ LastAt = 4 + Len(Artifacts) /\ Len(Artifacts) \in Nat
  BY <1>0, ReaderTyped
<1>3. cpc' \in {"stat", "report"} /\ (cpc' = "stat" <=> cpos' <= LastAt)
  BY <1>0, <1>1, <1>2 DEF GoOn
<1>4. here' = 0
  BY DEF Judging
<1>5. EvidenceControl'
  <2>1. dirThere' = TRUE
    BY <1>0, FrameKeeps, <1>2 DEF EvidenceInv, EvidenceControl
  <2>2. LastAt' = LastAt /\ InventoryAt' = InventoryAt
    BY DEF LastAt, InventoryAt
  <2> QED
    BY <1>0, <1>1, <1>2, <1>3, <1>4, <2>1, <2>2 DEF EvidenceControl
<1>6. EvidenceCodes'
  <2>1. codes' \in Seq(FailureCodes) /\ failures' = Len(codes')
    BY <1>0, <1>1, Together DEF EvidenceInv, EvidenceCodes
  <2>2. hereCodes' \in Seq(FailureCodes) /\ here' = Len(hereCodes')
    <3>1. CASE here' = 0 /\ hereCodes' = <<>>
      BY <3>1, EmptySeq
    <3>2. CASE here' = here /\ hereCodes' = hereCodes
      BY <3>2 DEF EvidenceInv, EvidenceCodes
    <3> QED
      BY <3>1, <3>2 DEF Judging
  <2>3. FailureCodes' = FailureCodes
    BY DEF FailureCodes, Priority
  <2> QED
    BY <2>1, <2>2, <2>3 DEF EvidenceCodes
<1>7. EvidenceSeen'
  <2>1. ASSUME failures' = 0
        PROVE  /\ \A p \in 1..LastAt : p < cpos' /\ p # InventoryAt =>
                    NameAt(p) \in touched \/ Fine(NameAt(p))
               /\ cpos' > InventoryAt => DOMAIN entries \subseteq AllowedFiles \cup touched
    <3>1. failures = 0 /\ k = 0
      BY <2>1, <1>0, <1>1, <1>2
    <3>2. /\ \A p \in 1..LastAt : p < cpos /\ p # InventoryAt => NameAt(p) \in touched \/ Fine(NameAt(p))
          /\ cpos > InventoryAt => DOMAIN entries \subseteq AllowedFiles \cup touched
      BY <3>1 DEF EvidenceInv, EvidenceSeen
    <3>3. \A p \in 1..LastAt : p < cpos' => p < cpos \/ p = cpos
      BY <1>1, <1>2
    <3>4. cpos' > InventoryAt => cpos > InventoryAt \/ cpos = InventoryAt
      BY <1>1, <1>2
    <3>5. /\ cpos # InventoryAt => NameAt(cpos) \in touched \/ Fine(NameAt(cpos))
          /\ cpos = InventoryAt => DOMAIN entries \subseteq AllowedFiles
      BY <3>1 DEF Judging
    <3> QED
      BY <3>2, <3>3, <3>4, <3>5
  <2>2. touched' = touched /\ entries' = entries /\ \A n : Fine(n)' = Fine(n)
    BY <1>0, FrameKeeps
  <2>3. (\A p : NameAt(p)' = NameAt(p)) /\ InventoryAt' = InventoryAt /\ LastAt' = LastAt /\ AllowedFiles' = AllowedFiles
    BY DEF NameAt, InventoryAt, LastAt, AllowedFiles, Specs, Scaffold, ScaffoldFiles
  <2>4. cpc' # "read"
    BY <1>3
  <2> QED
    BY <2>1, <2>2, <2>3, <2>4 DEF EvidenceSeen
<1>8. EvidenceBad'
  <2>1. touched' = touched /\ AllFine' = AllFine
    BY <1>0, FrameKeeps
  <2>2. touched = {} /\ failures' > 0 => ~AllFine
    <3>1. failures' > 0 => failures > 0 \/ k > 0
      BY <1>0, <1>1, <1>2
    <3> QED
      BY <3>1 DEF EvidenceInv, EvidenceBad, Judging
  <2> QED
    BY <2>1, <2>2, <1>0, <1>2, <1>4 DEF EvidenceBad
<1> QED
  BY <1>5, <1>6, <1>7, <1>8

\* Before the artifacts there is no status.
LEMMA NoStatusYet ==
    ASSUME EvidenceInv, UNCHANGED status, cpos \in 1..4, cpos' \in 1..5, failures' \in Nat
    PROVE  EvidenceStatus'
<1>1. InventoryAt = 4 /\ DOMAIN Artifacts = 1..Len(Artifacts)
  BY Positions
<1>2. DOMAIN status = {}
  BY <1>1 DEF EvidenceInv, EvidenceStatus
<1>3. {k \in DOMAIN Artifacts : InventoryAt + k < cpos'} = {}
  BY <1>1
<1>4. InventoryAt' = InventoryAt
  BY DEF InventoryAt
<1> QED
  BY <1>2, <1>3, <1>4 DEF EvidenceStatus

\* An artifact's report joins the others.
LEMMA FiledStatus ==
    ASSUME EvidenceInv, cpos \in 5..LastAt, NEW k \in Nat, NEW found, NEW verdict,
           Filed(Artifacts[cpos - 4], k, found, verdict), k = 0 => verdict = "passed"
    PROVE  EvidenceStatus'
<1> DEFINE a == Artifacts[cpos - 4]
           Before(p) == {Artifacts[i] : i \in {j \in DOMAIN Artifacts : 4 + j < p}}
<1>1. InventoryAt = 4 /\ DOMAIN Artifacts = 1..Len(Artifacts) /\ LastAt = 4 + Len(Artifacts) /\ Len(Artifacts) \in Nat
  BY Positions
<1>2. cpos' = cpos + 1 /\ failures' = failures + k /\ failures \in Nat
  BY DEF Filed, GoOn, Reported, EvidenceInv, EvidenceControl
<1>3. status' = [x \in DOMAIN status \cup {a} |-> IF x = a THEN verdict ELSE status[x]]
  BY DEF Filed
<1>4. DOMAIN status = Before(cpos)
  BY <1>1 DEF EvidenceInv, EvidenceStatus
<1>5. Before(cpos + 1) = Before(cpos) \cup {a}
  <2>1. {j \in DOMAIN Artifacts : 4 + j < cpos + 1} = {j \in DOMAIN Artifacts : 4 + j < cpos} \cup {cpos - 4}
    BY <1>1
  <2>2. {Artifacts[i] : i \in {j \in DOMAIN Artifacts : 4 + j < cpos} \cup {cpos - 4}}
          = {Artifacts[i] : i \in {j \in DOMAIN Artifacts : 4 + j < cpos}} \cup {Artifacts[cpos - 4]}
    BY Zenon
  <2> QED
    BY <2>1, <2>2, Zenon
<1>6. DOMAIN status' = Before(cpos')
  <2> HIDE DEF Before
  <2> QED
    BY <1>2, <1>3, <1>4, <1>5
<1>7. failures' = 0 => \A x \in DOMAIN status' : status'[x] = "passed"
  <2>0. ASSUME failures' = 0 PROVE failures = 0 /\ k = 0
    <3>1. failures + k = 0
      BY <2>0, <1>2
    <3>2. \A m, n \in Nat : m + n = 0 => m = 0 /\ n = 0
      OBVIOUS
    <3> QED
      BY <1>2, <3>1, <3>2
  <2>1. failures' = 0 => failures = 0 /\ verdict = "passed"
    BY <2>0, Zenon
  <2>2. failures = 0 => \A x \in DOMAIN status : status[x] = "passed"
    BY DEF EvidenceInv, EvidenceStatus
  <2> HIDE DEF a
  <2> QED
    BY <2>1, <2>2, <1>3
<1>8. InventoryAt' = 4
  BY <1>1 DEF InventoryAt
<1> QED
  BY <1>6, <1>7, <1>8, <1>1 DEF EvidenceStatus
-----------------------------------------------------------------------------
(* The check, action by action.                                            *)

LEMMA ConstantsStay ==
    /\ LastAt' = LastAt /\ InventoryAt' = InventoryAt /\ AllowedFiles' = AllowedFiles
    /\ \A p : NameAt(p)' = NameAt(p)
BY DEF NameAt, InventoryAt, LastAt, AllowedFiles, Specs, Scaffold, ScaffoldFiles

LEMMA BeginCheckKeeps ==
    ASSUME EvidenceInv, BeginCheck
    PROVE  EvidenceInv'
<1>1. /\ cpc = "idle" /\ UNCHANGED <<dirThere, entries, ipc, ipos, force, existed, replaced>>
      /\ UNCHANGED <<cpos, failures, codes, here, hereCodes, status>>
      /\ \/ cpc' = "done" /\ finalReport' = "invalid_max_age" /\ UNCHANGED touched
         \/ cpc' = "done" /\ finalReport' = "not_a_directory" /\ UNCHANGED touched /\ dirThere # TRUE
         \/ cpc' \in {"resolved", "stat"} /\ UNCHANGED finalReport /\ touched' = {} /\ dirThere = TRUE
  BY DEF BeginCheck, End, initVars, EvidenceInv, EvidenceFiles
<1>2. /\ cpos = 1 /\ failures = 0 /\ here = 0 /\ status = <<>> /\ finalReport = "none"
      /\ InventoryAt = 4 /\ LastAt = 4 + Len(Artifacts) /\ Len(Artifacts) \in Nat
  BY <1>1, Positions DEF EvidenceInv, EvidenceControl
<1>3. EvidenceFiles'
  BY <1>1 DEF EvidenceInv, EvidenceFiles
<1>4. EvidenceKept'
  BY <1>1 DEF EvidenceInv, EvidenceKept
<1>5. EvidenceControl'
  <2>1. /\ cpos' = 1 /\ failures' = 0 /\ here' = 0 /\ status' = <<>>
        /\ LastAt' = LastAt /\ InventoryAt' = 4 /\ cpos' \in 1..(LastAt + 1) /\ cpos' <= LastAt
    BY <1>1, <1>2, ConstantsStay
  <2>2. /\ \/ cpc' = "done" /\ finalReport' \in {"invalid_max_age", "not_a_directory"}
           \/ cpc' \in {"resolved", "stat"} /\ finalReport' = "none"
        /\ finalReport' \notin {"invalid_max_age", "not_a_directory"} => dirThere' = TRUE
    BY <1>1, <1>2, Zenon
  <2> QED
    BY <2>1, <2>2 DEF EvidenceControl
<1>6. EvidenceCodes'
  BY <1>1 DEF EvidenceInv, EvidenceCodes
<1>7. EvidenceStatus'
  BY <1>1 DEF EvidenceInv, EvidenceStatus
<1>8. EvidenceSeen'
  <2>1. cpos' = 1 /\ InventoryAt' = 4 /\ cpc' # "read"
    BY <1>1, <1>2, ConstantsStay
  <2> QED
    BY <2>1 DEF EvidenceSeen
<1>9. EvidenceBad'
  <2>1. failures' = 0 /\ here' = 0
    BY <1>1, <1>2
  <2>2. finalReport' \in {"not_a_directory", "symlink_entry", "filesystem_error"} => dirThere' # TRUE
    BY <1>1, <1>2
  <2>3. dirThere' # TRUE => ~AllFine'
    BY <1>3 DEF AllFine, EvidenceFiles
  <2>4. finalReport' \in {"not_a_directory", "symlink_entry", "filesystem_error"} => ~AllFine'
    BY <2>2, <2>3, Zenon
  <2> QED
    BY <2>1, <2>4 DEF EvidenceBad
<1> QED
  BY <1>3, <1>4, <1>5, <1>6, <1>7, <1>8, <1>9 DEF EvidenceInv

\* reject_symlink_entries: a directory with a symbolic link in it is not the
\* directory of a release.
LEMMA RejectSymlinksKeeps ==
    ASSUME EvidenceInv, RejectSymlinks
    PROVE  EvidenceInv'
<1>1. cpc = "resolved" /\ Frame /\ UNCHANGED <<cpos, failures, codes, here, hereCodes, status>>
  BY DEF RejectSymlinks, End
<1>2. /\ EvidenceFiles' /\ EvidenceKept' /\ touched' = touched /\ entries' = entries
      /\ AllFine' = AllFine /\ dirThere' = dirThere
  BY <1>1, FrameKeeps
<1>3. /\ cpos = 1 /\ failures = 0 /\ here = 0 /\ finalReport = "none" /\ dirThere = TRUE
      /\ InventoryAt = 4 /\ LastAt = 4 + Len(Artifacts) /\ Len(Artifacts) \in Nat
  BY <1>1, Positions DEF EvidenceInv, EvidenceControl
<1>4. \/ /\ cpc' = "done" /\ finalReport' = "symlink_entry"
         /\ \E n \in DOMAIN entries : entries[n].kind = "symlink"
      \/ cpc' = "stat" /\ UNCHANGED finalReport
  BY DEF RejectSymlinks, End
<1>5. EvidenceControl'
  <2>1. /\ cpos' = 1 /\ failures' = 0 /\ here' = 0 /\ dirThere' = TRUE
        /\ LastAt' = LastAt /\ InventoryAt' = 4 /\ cpos' \in 1..(LastAt + 1) /\ cpos' <= LastAt
    BY <1>1, <1>2, <1>3, ConstantsStay
  <2> QED
    BY <1>3, <1>4, <2>1 DEF EvidenceControl
<1>6. EvidenceCodes'
  BY <1>1 DEF EvidenceInv, EvidenceCodes
<1>7. EvidenceStatus'
  BY <1>1 DEF EvidenceInv, EvidenceStatus
<1>8. EvidenceSeen'
  <2>1. cpos' = 1 /\ InventoryAt' = 4 /\ cpc' # "read"
    BY <1>1, <1>3, <1>4, ConstantsStay
  <2> QED
    BY <2>1 DEF EvidenceSeen
<1>9. EvidenceBad'
  <2>1. (\E n \in DOMAIN entries : entries[n].kind = "symlink") => ~AllFine
    BY DEF AllFine, Acceptable, AcceptableArtifact, AcceptableScaffold
  <2>2. failures' = 0 /\ here' = 0
    BY <1>1, <1>3
  <2>3. finalReport' \in {"not_a_directory", "symlink_entry", "filesystem_error"} => ~AllFine'
    BY <1>2, <1>3, <1>4, <2>1
  <2> QED
    BY <2>2, <2>3 DEF EvidenceBad
<1> QED
  BY <1>2, <1>5, <1>6, <1>7, <1>8, <1>9 DEF EvidenceInv

\* symlink_metadata and read_dir failing.
LEMMA StatFailsKeeps ==
    ASSUME EvidenceInv, StatFails
    PROVE  EvidenceInv'
<1>1. /\ cpc \in {"resolved", "stat"} /\ Frame /\ UNCHANGED <<cpos, failures, codes, here, hereCodes, status>>
      /\ cpc' = "done" /\ finalReport' = "stat_failed"
  BY DEF StatFails, End
<1>2. /\ EvidenceFiles' /\ EvidenceKept' /\ touched' = touched /\ entries' = entries
      /\ AllFine' = AllFine /\ dirThere' = dirThere /\ \A n : Fine(n)' = Fine(n)
  BY <1>1, FrameKeeps
<1>3. EvidenceControl'
  <2>1. /\ cpos \in 1..(LastAt + 1) /\ failures \in Nat /\ here = 0 /\ dirThere = TRUE
        /\ LastAt' = LastAt /\ InventoryAt' = InventoryAt
    BY <1>1, ConstantsStay DEF EvidenceInv, EvidenceControl
  <2>2. here' = 0 /\ here \in Nat /\ dirThere' = TRUE
    BY <1>1, <1>2, <2>1
  <2> QED
    BY <1>1, <2>1, <2>2 DEF EvidenceControl
<1>4. EvidenceCodes'
  BY <1>1 DEF EvidenceInv, EvidenceCodes
<1>5. EvidenceStatus'
  BY <1>1 DEF EvidenceInv, EvidenceStatus
<1>6. EvidenceSeen'
  BY <1>1, <1>2 DEF EvidenceInv, EvidenceSeen
<1>7. EvidenceBad'
  BY <1>1, <1>2 DEF EvidenceInv, EvidenceBad
<1> QED
  BY <1>2, <1>3, <1>4, <1>5, <1>6, <1>7 DEF EvidenceInv

LEMMA CodesKnown ==
    {"missing_evidence", "stale_or_invalid_scaffold", "artifact_path_failure", "invalid_json",
     "invalid_json_root", "stale_or_invalid_timestamp", "forbidden_field", "contract_mismatch"}
      = FailureCodes
<1>1. DOMAIN Priority = 1..8
  BY DEF Priority
<1>2. /\ Priority[1] = "missing_evidence" /\ Priority[2] = "stale_or_invalid_scaffold"
      /\ Priority[3] = "artifact_path_failure" /\ Priority[4] = "invalid_json"
      /\ Priority[5] = "invalid_json_root" /\ Priority[6] = "stale_or_invalid_timestamp"
      /\ Priority[7] = "forbidden_field" /\ Priority[8] = "contract_mismatch"
  BY DEF Priority
<1>3. \A i \in 1..8 : i = 1 \/ i = 2 \/ i = 3 \/ i = 4 \/ i = 5 \/ i = 6 \/ i = 7 \/ i = 8
  OBVIOUS
<1>4. 1 \in 1..8 /\ 2 \in 1..8 /\ 3 \in 1..8 /\ 4 \in 1..8 /\ 5 \in 1..8 /\ 6 \in 1..8 /\ 7 \in 1..8 /\ 8 \in 1..8
  OBVIOUS
<1> HIDE DEF Priority
<1> QED
  BY <1>1, <1>2, <1>3, <1>4 DEF FailureCodes

\* A place that is not acceptable spoils the whole.
LEMMA OneSpoils ==
    ASSUME NEW n \in AllowedFiles, ~Fine(n)
    PROVE  ~AllFine
BY DEF Fine, AllFine

LEMMA StatScaffoldKeeps ==
    ASSUME EvidenceInv, StatScaffold
    PROVE  EvidenceInv'
<1> DEFINE n == ScaffoldFiles[cpos]
<1>1. /\ cpc = "stat" /\ cpos < InventoryAt /\ Frame
      /\ UNCHANGED <<here, hereCodes, status, finalReport>>
  BY DEF StatScaffold
<1>2. /\ cpos \in 1..LastAt /\ failures \in Nat /\ here \in Nat /\ finalReport = "none"
      /\ InventoryAt = 4 /\ LastAt = 4 + Len(Artifacts) /\ Len(Artifacts) \in Nat
  BY <1>1, ReaderTyped
<1>3. NameAt(cpos) = n /\ n \in Scaffold /\ n \notin Specs /\ n \in AllowedFiles /\ here = 0
  BY <1>1, <1>2, Positions DEF AllowedFiles, EvidenceInv, EvidenceControl
<1>4. /\ EvidenceFiles' /\ EvidenceKept' /\ touched' = touched /\ entries' = entries
      /\ AllFine' = AllFine /\ dirThere' = dirThere /\ \A x : Fine(x)' = Fine(x)
  BY <1>1, FrameKeeps
<1>5. CASE PathKind(n) = "file"
  <2>1. cpc' = "read" /\ UNCHANGED <<cpos, failures, codes>>
    BY <1>5 DEF StatScaffold
  <2>2. n \in DOMAIN entries /\ entries[n].kind = "file"
    BY <1>5 DEF PathKind
  <2>3. EvidenceControl'
    BY <1>1, <1>2, <1>3, <1>4, <2>1 DEF EvidenceInv, EvidenceControl
  <2>4. EvidenceCodes' /\ EvidenceStatus'
    BY <1>1, <2>1 DEF EvidenceInv, EvidenceCodes, EvidenceStatus
  <2>5. EvidenceSeen'
    BY <1>1, <1>2, <1>3, <1>4, <2>1, <2>2 DEF EvidenceInv, EvidenceSeen
  <2>6. EvidenceBad'
    BY <1>1, <1>4, <2>1 DEF EvidenceInv, EvidenceBad
  <2> QED
    BY <1>4, <2>3, <2>4, <2>5, <2>6 DEF EvidenceInv
<1>6. CASE PathKind(n) # "file"
  <2>1. PICK c \in {"missing_evidence", "artifact_path_failure"} : Reported(1, <<c>>) /\ GoOn(cpos + 1)
    BY <1>6 DEF StatScaffold
  <2>2. <<c>> \in Seq(FailureCodes) /\ Len(<<c>>) = 1
    BY CodesKnown
  <2>3. ~Fine(n)
    BY <1>6, <1>3 DEF Fine, PathKind, Acceptable, AcceptableScaffold
  <2>4. ~AllFine
    BY <2>3, <1>3, OneSpoils
  <2>5. EvidenceControl' /\ EvidenceCodes' /\ EvidenceSeen' /\ EvidenceBad'
    <3>1. here' = here /\ hereCodes' = hereCodes /\ here = 0 /\ UNCHANGED finalReport
      BY <1>1, <1>3
    <3>2. Judging(1, <<c>>)
      BY <1>1, <3>1, <2>1, <2>2, <2>4 DEF Judging
    <3> QED
      BY <3>2, JudgingKeeps
  <2>6. EvidenceStatus'
    <3>1. cpos' = cpos + 1 /\ failures' = failures + 1
      BY <2>1 DEF GoOn, Reported
    <3> QED
      BY <1>1, <1>2, <3>1, NoStatusYet
  <2> QED
    BY <1>4, <2>5, <2>6 DEF EvidenceInv
<1> QED
  BY <1>5, <1>6
LEMMA ReadScaffoldKeeps ==
    ASSUME EvidenceInv, ReadScaffold
    PROVE  EvidenceInv'
<1> DEFINE n == ScaffoldFiles[cpos]
<1>1. /\ cpc = "read" /\ cpos < InventoryAt /\ Frame
      /\ UNCHANGED <<here, hereCodes, status>>
  BY DEF ReadScaffold
<1>2. /\ cpos \in 1..LastAt /\ failures \in Nat /\ here \in Nat /\ finalReport = "none"
      /\ InventoryAt = 4 /\ LastAt = 4 + Len(Artifacts) /\ Len(Artifacts) \in Nat
  BY <1>1, ReaderTyped
<1>3. NameAt(cpos) = n /\ n \in Scaffold /\ n \notin Specs /\ n \in AllowedFiles /\ here = 0
  BY <1>1, <1>2, Positions DEF AllowedFiles, EvidenceInv, EvidenceControl
<1>4. /\ EvidenceFiles' /\ EvidenceKept' /\ touched' = touched /\ entries' = entries
      /\ AllFine' = AllFine /\ dirThere' = dirThere /\ \A x : Fine(x)' = Fine(x)
  BY <1>1, FrameKeeps
<1>5. n \notin touched => n \in DOMAIN entries /\ entries[n].kind = "file"
  BY <1>1, <1>3 DEF EvidenceInv, EvidenceSeen
<1>6. n \notin touched => /\ Readable(n) /\ ~Undated(n) => (ScaffoldFaults(n) = 0 <=> Acceptable(n, entries[n]))
                          /\ ~Readable(n) \/ Undated(n) => ~Acceptable(n, entries[n])
  BY <1>3, <1>5, ScaffoldJudged DEF EvidenceInv
<1>7. EvidenceFiles /\ here' = here /\ hereCodes' = hereCodes /\ dirThere = TRUE
  BY <1>1, <1>2 DEF EvidenceInv, EvidenceControl
<1> HIDE DEF n
<1>8. CASE PathKind(n) = "missing"
  <2>1. Reported(1, <<"missing_evidence">>) /\ GoOn(cpos + 1) /\ UNCHANGED finalReport
    BY <1>8 DEF ReadScaffold, n
  <2>2. <<"missing_evidence">> \in Seq(FailureCodes) /\ Len(<<"missing_evidence">>) = 1
    BY CodesKnown
  <2>3. ~Fine(n)
    BY <1>8, <1>3 DEF Fine, PathKind, Acceptable, AcceptableScaffold
  <2>4. ~AllFine
    BY <2>3, <1>3, OneSpoils
  <2>5. Judging(1, <<"missing_evidence">>)
    BY <1>1, <1>3, <1>7, <2>1, <2>2, <2>4 DEF Judging
  <2>6. EvidenceControl' /\ EvidenceCodes' /\ EvidenceSeen' /\ EvidenceBad'
    BY <2>5, JudgingKeeps
  <2>7. EvidenceStatus'
    <3>1. cpos' = cpos + 1 /\ failures' = failures + 1
      BY <2>1 DEF GoOn, Reported
    <3> QED
      BY <1>1, <1>2, <3>1, NoStatusYet
  <2> QED
    BY <1>4, <2>6, <2>7 DEF EvidenceInv
<1>9. CASE PathKind(n) # "missing" /\ ~Readable(n)
  <2>1. cpc' = "done" /\ finalReport' = "filesystem_error" /\ UNCHANGED <<cpos, failures, codes>>
    BY <1>9 DEF ReadScaffold, n
  <2>2. EvidenceControl'
    <3>1. /\ cpos' \in 1..(LastAt + 1) /\ failures' \in Nat /\ here' = 0 /\ LastAt' = LastAt
          /\ InventoryAt' = InventoryAt /\ dirThere' = TRUE
      BY <1>2, <1>3, <1>4, <1>7, <2>1, ConstantsStay
    <3> QED
      BY <2>1, <3>1 DEF EvidenceControl
  <2>3. EvidenceCodes' /\ EvidenceStatus'
    BY <1>1, <2>1 DEF EvidenceInv, EvidenceCodes, EvidenceStatus
  <2>4. EvidenceSeen'
    BY <1>4, <2>1, ConstantsStay DEF EvidenceInv, EvidenceSeen
  <2>5. touched = {} => ~AllFine
    <3>1. touched = {} => ~Fine(n)
      BY <1>6, <1>9 DEF Fine
    <3> QED
      BY <3>1, <1>3, OneSpoils
  <2>6. EvidenceBad'
    BY <1>4, <2>5 DEF EvidenceBad
  <2> QED
    BY <1>4, <2>2, <2>3, <2>4, <2>6 DEF EvidenceInv
<1>10. CASE PathKind(n) # "missing" /\ Readable(n) /\ Undated(n)
  <2>1. Reported(1, <<"stale_or_invalid_scaffold">>) /\ GoOn(InventoryAt) /\ UNCHANGED finalReport
    BY <1>10 DEF ReadScaffold, n
  <2>2. /\ failures' = failures + 1 /\ codes' = codes \o <<"stale_or_invalid_scaffold">>
        /\ cpos' = 4 /\ cpc' = "stat"
    BY <2>1, <1>2 DEF Reported, GoOn
  <2>3. EvidenceControl'
    <3>1. /\ cpos' \in 1..(LastAt + 1) /\ cpos' <= LastAt /\ failures' \in Nat /\ here' = 0 /\ LastAt' = LastAt
          /\ InventoryAt' = InventoryAt /\ dirThere' = TRUE /\ finalReport' = "none"
      BY <1>2, <1>3, <1>4, <1>7, <2>1, <2>2, ConstantsStay
    <3> QED
      BY <2>2, <3>1 DEF EvidenceControl
  <2>4. EvidenceCodes'
    <3>1. <<"stale_or_invalid_scaffold">> \in Seq(FailureCodes) /\ Len(<<"stale_or_invalid_scaffold">>) = 1
      BY CodesKnown
    <3>2. codes' \in Seq(FailureCodes) /\ failures' = Len(codes')
      BY <3>1, <2>2, Together DEF EvidenceInv, EvidenceCodes
    <3>3. FailureCodes' = FailureCodes
      BY DEF FailureCodes, Priority
    <3> QED
      BY <3>2, <3>3, <1>7 DEF EvidenceInv, EvidenceCodes
  <2>5. EvidenceStatus'
    BY <1>1, <1>2, <2>2, NoStatusYet
  <2>6. EvidenceSeen'
    BY <1>2, <2>2 DEF EvidenceSeen
  <2>7. touched = {} => ~AllFine
    <3>1. touched = {} => ~Fine(n)
      BY <1>6, <1>10 DEF Fine
    <3> QED
      BY <3>1, <1>3, OneSpoils
  <2>8. EvidenceBad'
    BY <1>4, <2>7 DEF EvidenceBad
  <2> QED
    BY <1>4, <2>3, <2>4, <2>5, <2>6, <2>8 DEF EvidenceInv
<1>11. CASE PathKind(n) # "missing" /\ Readable(n) /\ ~Undated(n)
  <2> DEFINE k == ScaffoldFaults(n)
             found == [i \in 1..k |-> "stale_or_invalid_scaffold"]
  <2>1. Reported(k, found) /\ GoOn(cpos + 1) /\ UNCHANGED finalReport
    BY <1>11 DEF ReadScaffold, n
  <2>2. n \in DOMAIN entries
    BY <1>11 DEF Readable, PathKind
  <2>3. k \in Nat
    BY <2>2, <1>7, FaultsAreNumbers
  <2>4. found \in Seq(FailureCodes) /\ Len(found) = k
    <3>1. "stale_or_invalid_scaffold" \in FailureCodes
      BY CodesKnown
    <3> HIDE DEF k
    <3> QED
      BY <2>3, <3>1, Filled
  <2>5. k = 0 => n \in touched \/ Fine(n)
    BY <1>6, <1>11, <2>2 DEF Fine
  <2>6. k > 0 /\ touched = {} => ~AllFine
    <3>1. k > 0 /\ touched = {} => ~Fine(n)
      BY <1>6, <1>11, <2>3 DEF Fine
    <3> QED
      BY <3>1, <1>3, OneSpoils
  <2> HIDE DEF k, found
  <2>7. Judging(k, found)
    BY <1>1, <1>2, <1>3, <1>7, <2>1, <2>3, <2>4, <2>5, <2>6 DEF Judging
  <2>8. EvidenceControl' /\ EvidenceCodes' /\ EvidenceSeen' /\ EvidenceBad'
    BY <2>7, JudgingKeeps
  <2>9. EvidenceStatus'
    <3>1. cpos' = cpos + 1 /\ failures' = failures + k
      BY <2>1 DEF GoOn, Reported
    <3> QED
      BY <1>1, <1>2, <2>3, <3>1, NoStatusYet
  <2> QED
    BY <1>4, <2>8, <2>9 DEF EvidenceInv
<1> QED
  BY <1>8, <1>9, <1>10, <1>11

LEMMA ReadDirectoryKeeps ==
    ASSUME EvidenceInv, ReadDirectory
    PROVE  EvidenceInv'
<1> DEFINE found == [i \in 1..InventoryFaults |-> "artifact_path_failure"]
<1>1. /\ cpc = "stat" /\ cpos = InventoryAt /\ Frame /\ Reported(InventoryFaults, found) /\ GoOn(cpos + 1)
      /\ here' = here /\ hereCodes' = hereCodes /\ UNCHANGED status /\ UNCHANGED finalReport
  BY DEF ReadDirectory
<1>2. /\ cpos \in 1..LastAt /\ failures \in Nat /\ here \in Nat
      /\ InventoryAt = 4 /\ LastAt = 4 + Len(Artifacts) /\ Len(Artifacts) \in Nat
  BY <1>1, ReaderTyped
<1>3. here = 0
  BY <1>1 DEF EvidenceInv, EvidenceControl
<1>4. /\ InventoryFaults \in Nat
      /\ InventoryFaults = 0 => DOMAIN entries \subseteq AllowedFiles
      /\ InventoryFaults > 0 => ~AllFine
  BY InventoryJudged DEF EvidenceInv
<1>5. found \in Seq(FailureCodes) /\ Len(found) = InventoryFaults
  BY <1>4, Filled, CodesKnown
<1> HIDE DEF found
<1>6. Judging(InventoryFaults, found)
  BY <1>1, <1>3, <1>4, <1>5 DEF Judging
<1>7. EvidenceControl' /\ EvidenceCodes' /\ EvidenceSeen' /\ EvidenceBad'
  BY <1>6, JudgingKeeps
<1>8. EvidenceStatus'
  <2>1. cpos' = cpos + 1 /\ failures' = failures + InventoryFaults
    BY <1>1 DEF GoOn, Reported
  <2> QED
    BY <1>1, <1>2, <1>4, <2>1, NoStatusYet
<1>9. EvidenceFiles' /\ EvidenceKept'
  BY <1>1, FrameKeeps
<1> QED
  BY <1>7, <1>8, <1>9 DEF EvidenceInv
LEMMA StatArtifactKeeps ==
    ASSUME EvidenceInv, StatArtifact
    PROVE  EvidenceInv'
<1> DEFINE a == Artifacts[cpos - InventoryAt]
<1>1. cpc = "stat" /\ cpos > InventoryAt /\ Frame /\ UNCHANGED finalReport
  BY DEF StatArtifact
<1>2. /\ cpos \in 5..LastAt /\ failures \in Nat /\ here = 0 /\ finalReport = "none"
      /\ InventoryAt = 4 /\ LastAt = 4 + Len(Artifacts) /\ Len(Artifacts) \in Nat
  BY <1>1, ReaderTyped DEF EvidenceInv, EvidenceControl
<1>3. NameAt(cpos) = a /\ a = Artifacts[cpos - 4] /\ a \in Specs /\ a \in AllowedFiles
  BY <1>2, Positions DEF AllowedFiles
<1>4. /\ EvidenceFiles' /\ EvidenceKept' /\ touched' = touched /\ entries' = entries
      /\ AllFine' = AllFine /\ dirThere' = dirThere /\ \A x : Fine(x)' = Fine(x)
  BY <1>1, FrameKeeps
<1>5. EvidenceFiles /\ dirThere = TRUE
  BY <1>1, <1>2 DEF EvidenceInv, EvidenceControl
<1>6. PathKind(a) \in {"missing", "file", "symlink", "directory", "other"}
  BY <1>5, EntryFields DEF PathKind, EvidenceFiles
<1> HIDE DEF a
<1>7. CASE PathKind(a) # "file"
  <2>1. PICK c \in {"missing_evidence", "artifact_path_failure"}, v \in {"missing", "failed"} :
          Filed(a, 1, <<c>>, v)
    BY <1>6, <1>7 DEF StatArtifact, a
  <2>2. /\ Reported(1, <<c>>) /\ GoOn(cpos + 1) /\ here' = 0 /\ hereCodes' = <<>>
    BY <2>1 DEF Filed
  <2>3. <<c>> \in Seq(FailureCodes) /\ Len(<<c>>) = 1
    BY CodesKnown
  <2>4. ~Fine(a)
    BY <1>7, <1>3 DEF Fine, PathKind, Acceptable, AcceptableArtifact
  <2>5. ~AllFine
    BY <2>4, <1>3, OneSpoils
  <2>6. Judging(1, <<c>>)
    BY <1>1, <2>2, <2>3, <2>5 DEF Judging
  <2>7. EvidenceControl' /\ EvidenceCodes' /\ EvidenceSeen' /\ EvidenceBad'
    BY <2>6, JudgingKeeps
  <2>8. EvidenceStatus'
    BY <1>2, <1>3, <2>1, FiledStatus
  <2> QED
    BY <1>4, <2>7, <2>8 DEF EvidenceInv
<1>8. CASE PathKind(a) = "file"
  <2>1. /\ cpc' = "read" /\ UNCHANGED <<cpos, failures, codes, status>>
        /\ here' = IF entries[a].modified = "old" THEN 1 ELSE 0
        /\ hereCodes' = [i \in 1..here' |-> "stale_or_invalid_timestamp"]
    BY <1>8 DEF StatArtifact, a
  <2>2. a \in DOMAIN entries /\ entries[a].kind = "file"
    BY <1>8 DEF PathKind
  <2>3. entries[a].modified \in {"recent", "old"}
    BY <2>2, <1>5, EntryFields DEF EvidenceFiles
  <2>4. here' \in Nat /\ (here' = 0 => entries[a].modified = "recent") /\ (here' > 0 => entries[a].modified = "old")
    BY <2>1, <2>3
  <2>5. EvidenceControl'
    <3>1. /\ cpos' = cpos /\ LastAt' = LastAt /\ InventoryAt' = InventoryAt /\ dirThere' = TRUE
          /\ finalReport' = "none" /\ failures' \in Nat
      BY <1>1, <1>2, <1>4, <1>5, <2>1, ConstantsStay
    <3>2. cpos \in 1..(LastAt + 1) /\ cpos <= LastAt /\ cpos # InventoryAt /\ ~(cpos < InventoryAt)
      BY <1>2
    <3> QED
      BY <2>1, <2>4, <3>1, <3>2 DEF EvidenceControl
  <2>6. EvidenceCodes'
    <3>1. "stale_or_invalid_timestamp" \in FailureCodes
      BY CodesKnown
    <3>2. hereCodes' \in Seq(FailureCodes) /\ here' = Len(hereCodes')
      <4> DEFINE h == here'
      <4>1. h \in Nat /\ hereCodes' = [i \in 1..h |-> "stale_or_invalid_timestamp"]
        BY <2>1, <2>4
      <4> HIDE DEF h
      <4>2. hereCodes' \in Seq(FailureCodes) /\ Len(hereCodes') = h
        BY <4>1, <3>1, Filled
      <4> QED
        BY <4>2 DEF h
    <3>3. FailureCodes' = FailureCodes
      BY DEF FailureCodes, Priority
    <3>4. codes' \in Seq(FailureCodes) /\ failures' = Len(codes')
      BY <2>1 DEF EvidenceInv, EvidenceCodes
    <3> QED
      BY <3>2, <3>3, <3>4 DEF EvidenceCodes
  <2>7. EvidenceStatus'
    BY <2>1, ConstantsStay DEF EvidenceInv, EvidenceStatus
  <2>8. EvidenceSeen'
    <3>1. cpos' = cpos /\ failures' = failures
      BY <2>1
    <3>2. failures' = 0 =>
            /\ \A p \in 1..LastAt : p < cpos' /\ p # InventoryAt => NameAt(p) \in touched' \/ Fine(NameAt(p))'
            /\ cpos' > InventoryAt => DOMAIN entries' \subseteq AllowedFiles \cup touched'
      BY <1>4, <3>1 DEF EvidenceInv, EvidenceSeen
    <3>3. /\ NameAt(cpos) \in DOMAIN entries' /\ entries'[NameAt(cpos)].kind = "file"
          /\ here' = 0 => entries'[NameAt(cpos)].modified = "recent"
      BY <1>3, <1>4, <2>2, <2>4
    <3>4. NameAt(cpos)' = NameAt(cpos) /\ (\A p : NameAt(p)' = NameAt(p))
          /\ LastAt' = LastAt /\ InventoryAt' = InventoryAt /\ AllowedFiles' = AllowedFiles
      BY <1>3, <2>1, <3>1, ConstantsStay DEF NameAt
    <3> QED
      BY <3>2, <3>3, <3>4 DEF EvidenceSeen
  <2>9. EvidenceBad'
    <3>1. entries[a].modified = "old" => ~AllFine
      <4>1. entries[a].modified = "old" => ~Fine(a)
        BY <1>3, <1>5, ArtifactJudged DEF Fine
      <4> QED
        BY <4>1, <1>3, OneSpoils
    <3>2. here' > 0 => ~AllFine
      BY <3>1, <2>4
    <3>3. failures' = failures /\ finalReport' = "none"
      BY <2>1, <1>1, <1>2
    <3> QED
      BY <1>4, <3>2, <3>3 DEF EvidenceInv, EvidenceBad
  <2> QED
    BY <1>4, <2>5, <2>6, <2>7, <2>8, <2>9 DEF EvidenceInv
<1> QED
  BY <1>7, <1>8

LEMMA ReadArtifactKeeps ==
    ASSUME EvidenceInv, ReadArtifact
    PROVE  EvidenceInv'
<1> DEFINE a == Artifacts[cpos - InventoryAt]
           c == entries[a].content
<1>1. cpc = "read" /\ cpos > InventoryAt /\ Frame /\ UNCHANGED finalReport
  BY DEF ReadArtifact
<1>2. /\ cpos \in 5..LastAt /\ failures \in Nat /\ here \in Nat
      /\ InventoryAt = 4 /\ LastAt = 4 + Len(Artifacts) /\ Len(Artifacts) \in Nat
  BY <1>1, ReaderTyped
<1>3. NameAt(cpos) = a /\ a = Artifacts[cpos - 4] /\ a \in Specs /\ a \in AllowedFiles
  BY <1>2, Positions DEF AllowedFiles
<1>4. EvidenceFiles' /\ EvidenceKept'
  BY <1>1, FrameKeeps
<1>5. EvidenceFiles /\ hereCodes \in Seq(FailureCodes) /\ Len(hereCodes) = here
  BY DEF EvidenceInv, EvidenceCodes
<1>6. a \notin touched => /\ a \in DOMAIN entries /\ entries[a].kind = "file"
                          /\ here = 0 => entries[a].modified = "recent"
  BY <1>1, <1>3 DEF EvidenceInv, EvidenceSeen
<1>7. touched = {} /\ here > 0 => ~AllFine
  BY DEF EvidenceInv, EvidenceBad
<1>8. ASSUME NEW k \in Nat, NEW found \in Seq(FailureCodes), Len(found) = k, NEW v, Filed(a, k, found, v),
             k = 0 => v = "passed", k = 0 => a \in touched \/ Fine(a), k > 0 /\ touched = {} => ~AllFine
      PROVE  EvidenceInv'
  <2>1. Reported(k, found) /\ GoOn(cpos + 1) /\ here' = 0 /\ hereCodes' = <<>>
    BY <1>8 DEF Filed
  <2>2. Judging(k, found)
    <3> HIDE DEF a
    <3> QED
      BY <1>1, <1>2, <1>3, <1>8, <2>1 DEF Judging
  <2>3. EvidenceControl' /\ EvidenceCodes' /\ EvidenceSeen' /\ EvidenceBad'
    BY <2>2, JudgingKeeps
  <2>4. EvidenceStatus'
    BY <1>2, <1>3, <1>8, FiledStatus
  <2> QED
    BY <1>4, <2>3, <2>4 DEF EvidenceInv
<1>9. CASE ~Readable(a) \/ c.form # "object"
  <2>1. Filed(a, here + 1, Append(hereCodes, UnreadCode(a)), "failed")
    BY <1>9 DEF ReadArtifact
  <2>2. UnreadCode(a) \in FailureCodes
    BY CodesKnown DEF UnreadCode
  <2>3. Append(hereCodes, UnreadCode(a)) \in Seq(FailureCodes) /\ Len(Append(hereCodes, UnreadCode(a))) = here + 1
    BY <1>5, <2>2, AppendProperties
  <2>4. touched = {} => ~AllFine
    <3>1. touched = {} => ~Fine(a)
      BY <1>3, <1>5, <1>9, ArtifactJudged DEF Fine
    <3> QED
      BY <3>1, <1>3, OneSpoils
  <2>5. here + 1 \in Nat /\ here + 1 # 0
    BY <1>2
  <2> HIDE DEF a, c
  <2> QED
    BY <1>8, <2>1, <2>3, <2>4, <2>5
<1>10. CASE Readable(a) /\ c.form = "object"
  <2> DEFINE f == ForbiddenFields(a, c)
             t == TimestampFaults(c)
             found == hereCodes \o NewCodes(here, here + f, "forbidden_field")
                                \o NewCodes(here + f, here + f + t, "stale_or_invalid_timestamp")
                                \o NewCodes(here + f + t, here + f + t + c.contract, "contract_mismatch")
             k == here + f + t + c.contract
  <2>1. Filed(a, k, found, StatusOf(k))
    BY <1>10 DEF ReadArtifact
  <2>2. a \in DOMAIN entries
    BY <1>10 DEF Readable, PathKind
  <2>3. /\ f \in Nat /\ t \in Nat /\ c.contract \in Nat
        /\ Acceptable(a, entries[a]) <=>
             /\ entries[a].kind = "file" /\ entries[a].modified # "old"
             /\ f = 0 /\ t = 0 /\ c.contract = 0
    BY <1>3, <1>5, <1>10, <2>2, ArtifactJudged
  <2>4. found \in Seq(FailureCodes) /\ Len(found) = k
    <3> DEFINE m == c.contract
    <3>1. m \in Nat /\ f \in Nat /\ t \in Nat
      BY <2>3
    <3> HIDE DEF a, c, f, t, m
    <3>2. /\ NewCodes(here, here + f, "forbidden_field") \in Seq(FailureCodes)
          /\ Len(NewCodes(here, here + f, "forbidden_field")) = f
      <4>1. (here + f) - here = f
        BY <1>2, <3>1
      <4> QED
        BY <4>1, <3>1, CodesKnown, Filled DEF NewCodes
    <3>3. /\ NewCodes(here + f, here + f + t, "stale_or_invalid_timestamp") \in Seq(FailureCodes)
          /\ Len(NewCodes(here + f, here + f + t, "stale_or_invalid_timestamp")) = t
      <4>1. (here + f + t) - (here + f) = t
        BY <1>2, <3>1
      <4> QED
        BY <4>1, <3>1, CodesKnown, Filled DEF NewCodes
    <3>4. /\ NewCodes(here + f + t, here + f + t + m, "contract_mismatch") \in Seq(FailureCodes)
          /\ Len(NewCodes(here + f + t, here + f + t + m, "contract_mismatch")) = m
      <4>1. (here + f + t + m) - (here + f + t) = m
        BY <1>2, <3>1
      <4> QED
        BY <4>1, <3>1, CodesKnown, Filled DEF NewCodes
    <3> DEFINE p == NewCodes(here, here + f, "forbidden_field")
               q == NewCodes(here + f, here + f + t, "stale_or_invalid_timestamp")
               r == NewCodes(here + f + t, here + f + t + m, "contract_mismatch")
    <3>5. found = ((hereCodes \o p) \o q) \o r /\ k = ((here + f) + t) + m
      BY DEF m
    <3>6. p \in Seq(FailureCodes) /\ q \in Seq(FailureCodes) /\ r \in Seq(FailureCodes)
          /\ Len(p) = f /\ Len(q) = t /\ Len(r) = m
      BY <3>2, <3>3, <3>4
    <3> HIDE DEF p, q, r, found, k
    <3>7. hereCodes \o p \in Seq(FailureCodes) /\ Len(hereCodes \o p) = here + f
      BY <1>5, <3>6, Together
    <3>8. (hereCodes \o p) \o q \in Seq(FailureCodes) /\ Len((hereCodes \o p) \o q) = (here + f) + t
      BY <3>6, <3>7, Together
    <3>9. ((hereCodes \o p) \o q) \o r \in Seq(FailureCodes) /\ Len(((hereCodes \o p) \o q) \o r) = ((here + f) + t) + m
      BY SMTT(30), <3>6, <3>8, Together
    <3> QED
      BY <3>5, <3>9
  <2>5. k = 0 => StatusOf(k) = "passed"
    BY DEF StatusOf
  <2>6. k \in Nat /\ (k = 0 => here = 0 /\ f = 0 /\ t = 0 /\ c.contract = 0)
        /\ (k > 0 => here > 0 \/ f > 0 \/ t > 0 \/ c.contract > 0)
    <3> DEFINE m == c.contract
    <3>1. m \in Nat /\ f \in Nat /\ t \in Nat
      BY <2>3
    <3> HIDE DEF a, c, f, t, m
    <3> QED
      BY <1>2, <3>1 DEF m
  <2> HIDE DEF k, found, f, t
  <2>7. k = 0 => a \in touched \/ Fine(a)
    BY <2>2, <2>3, <2>6, <1>6 DEF Fine
  <2>8. k > 0 /\ touched = {} => ~AllFine
    <3>1. CASE here > 0
      BY <3>1, <1>7
    <3>2. CASE f > 0 \/ t > 0 \/ c.contract > 0
      <4>1. ~Fine(a)
        BY <3>2, <2>3 DEF Fine
      <4> QED
        BY <4>1, <1>3, OneSpoils
    <3> QED
      BY <3>1, <3>2, <2>6
  <2> HIDE DEF a, c
  <2> QED
    BY <1>8, <2>1, <2>4, <2>5, <2>6, <2>7, <2>8
<1> QED
  BY <1>9, <1>10
LEMMA ReportVerdictKeeps ==
    ASSUME EvidenceInv, ReportVerdict
    PROVE  EvidenceInv'
<1>1. /\ cpc = "report" /\ Frame /\ cpc' = "done"
      /\ finalReport' = IF failures = 0 THEN "ready" ELSE "incomplete"
      /\ UNCHANGED <<cpos, failures, codes, here, hereCodes, status>>
  BY DEF ReportVerdict, End
<1>2. /\ EvidenceFiles' /\ EvidenceKept' /\ touched' = touched /\ entries' = entries
      /\ AllFine' = AllFine /\ dirThere' = dirThere /\ \A x : Fine(x)' = Fine(x)
  BY <1>1, FrameKeeps
<1>3. /\ cpos = LastAt + 1 /\ failures \in Nat /\ here = 0 /\ dirThere = TRUE /\ cpos \in 1..(LastAt + 1)
      /\ finalReport = "none"
  BY <1>1 DEF EvidenceInv, EvidenceControl
<1>4. EvidenceControl'
  BY <1>1, <1>2, <1>3, ConstantsStay DEF EvidenceControl
<1>5. EvidenceCodes' /\ EvidenceStatus'
  BY <1>1 DEF EvidenceInv, EvidenceCodes, EvidenceStatus
<1>6. EvidenceSeen'
  BY <1>1, <1>2, ConstantsStay DEF EvidenceInv, EvidenceSeen
<1>7. EvidenceBad'
  <2>1. finalReport' \notin {"not_a_directory", "symlink_entry", "filesystem_error"}
    BY <1>1
  <2> QED
    BY <1>1, <1>2, <2>1 DEF EvidenceInv, EvidenceBad
<1> QED
  BY <1>2, <1>4, <1>5, <1>6, <1>7 DEF EvidenceInv

\* RunPlan, and nothing at all.
LEMMA PlanKeeps ==
    ASSUME EvidenceInv,
           UNCHANGED <<dirThere, entries, cpc, cpos, failures, codes, here, hereCodes, status,
                       finalReport, ipc, ipos, force, existed, replaced, touched>>
    PROVE  EvidenceInv'
<1>1. EvidenceFiles' /\ EvidenceKept'
  BY DEF EvidenceInv, EvidenceFiles, EvidenceKept
<1>2. EvidenceControl' /\ EvidenceCodes' /\ EvidenceStatus'
  BY DEF EvidenceInv, EvidenceControl, EvidenceCodes, EvidenceStatus
<1>3. EvidenceSeen'
  BY DEF EvidenceInv, EvidenceSeen, Fine
<1>4. EvidenceBad'
  BY DEF EvidenceInv, EvidenceBad, AllFine
<1> QED
  BY <1>1, <1>2, <1>3, <1>4 DEF EvidenceInv

LEMMA EvidenceInitHolds == EvidenceInit => EvidenceInv
<1> SUFFICES ASSUME EvidenceInit PROVE EvidenceInv
  OBVIOUS
<1>1. /\ cpc = "idle" /\ cpos = 1 /\ failures = 0 /\ codes = <<>> /\ here = 0 /\ hereCodes = <<>>
      /\ status = <<>> /\ finalReport = "none" /\ ipc = "idle" /\ ipos = 1 /\ force = FALSE
      /\ existed = {} /\ replaced = {} /\ touched = {} /\ dirThere \in BOOLEAN
  BY DEF EvidenceInit
<1>2. /\ InventoryAt = 4 /\ LastAt = 4 + Len(Artifacts) /\ Len(Artifacts) \in Nat
      /\ DOMAIN Artifacts = 1..Len(Artifacts) /\ Len(ScaffoldFiles) = 3
  BY Positions
<1>3. EvidenceFiles
  <2>1. CASE entries = <<>>
    BY <1>1, <2>1 DEF EvidenceFiles
  <2>2. CASE \E n \in AllowedFiles : \E e \in Entries : entries = [CompleteSet EXCEPT ![n] = e]
    BY <1>1, <2>2, EntriesTyped, WrittenTyped DEF EvidenceFiles, CompleteSet
  <2>3. CASE \E n \in AllowedFiles : entries = [x \in AllowedFiles \ {n} |-> Regular(Sound)]
    BY <1>1, <2>3, WrittenTyped DEF EvidenceFiles
  <2>4. CASE \E e \in {Regular(Sound), [Regular(Sound) EXCEPT !.kind = "symlink"]} :
               entries = [x \in AllowedFiles \cup {"stray"} |-> IF x = "stray" THEN e ELSE Regular(Sound)]
    BY <1>1, <2>4, WrittenTyped DEF EvidenceFiles
  <2> QED
    BY <2>1, <2>2, <2>3, <2>4 DEF EvidenceInit
<1>4. EvidenceControl
  BY <1>1, <1>2 DEF EvidenceControl
<1>5. EvidenceCodes
  BY <1>1, EmptySeq DEF EvidenceCodes
<1>6. EvidenceStatus
  <2>1. {k \in DOMAIN Artifacts : InventoryAt + k < cpos} = {}
    BY <1>1, <1>2
  <2>2. DOMAIN status = {}
    BY <1>1
  <2> QED
    BY <2>1, <2>2 DEF EvidenceStatus
<1>7. EvidenceSeen
  BY <1>1, <1>2 DEF EvidenceSeen
<1>8. EvidenceBad
  BY <1>1 DEF EvidenceBad
<1>9. EvidenceKept
  <2>1. ipos \in 1..Len(ScaffoldFiles)
    BY <1>1, <1>2
  <2>2. force \in BOOLEAN /\ existed \subseteq Scaffold /\ ipc = "idle"
    BY <1>1
  <2> QED
    BY <2>1, <2>2, Zenon DEF EvidenceKept
<1> QED
  BY <1>3, <1>4, <1>5, <1>6, <1>7, <1>8, <1>9 DEF EvidenceInv

LEMMA EvidenceNextHolds == EvidenceInv /\ [EvidenceNext]_evidenceVars => EvidenceInv'
<1> SUFFICES ASSUME EvidenceInv, [EvidenceNext]_evidenceVars PROVE EvidenceInv'
  OBVIOUS
<1>1. CASE UNCHANGED evidenceVars
  BY <1>1, PlanKeeps DEF evidenceVars
<1>2. CASE RunPlan
  BY <1>2, PlanKeeps DEF RunPlan, initVars
<1>3. CASE BeginCheck \/ RejectSymlinks \/ StatScaffold \/ ReadScaffold \/ ReadDirectory
  BY <1>3, BeginCheckKeeps, RejectSymlinksKeeps, StatScaffoldKeeps, ReadScaffoldKeeps, ReadDirectoryKeeps
<1>4. CASE StatArtifact \/ ReadArtifact \/ StatFails \/ ReportVerdict
  BY <1>4, StatArtifactKeeps, ReadArtifactKeeps, StatFailsKeeps, ReportVerdictKeeps
<1>5. CASE BeginInit \/ LookFirst \/ EnsureAgain \/ OpenScaffold \/ FillScaffold \/ InitFails
  BY <1>5, BeginInitKeeps, LookFirstKeeps, EnsureAgainKeeps, WriteScaffoldKeeps, InitFailsKeeps
<1>6. CASE \E n \in AllowedFiles \cup {"stray"} : Capture(n) \/ Discard(n)
  BY <1>6, CaptureKeeps, DiscardKeeps
<1> QED
  BY <1>1, <1>2, <1>3, <1>4, <1>5, <1>6 DEF EvidenceNext

-----------------------------------------------------------------------------
(* What the invariant gives.                                               *)

\* A ready release: every name was looked at and found fine, or written since.
LEMMA ReadySeen ==
    ASSUME EvidenceInv, finalReport = "ready"
    PROVE  /\ \A n \in AllowedFiles : n \in touched \/ Fine(n)
           /\ DOMAIN entries \subseteq AllowedFiles \cup touched
<1>1. failures = 0 /\ cpos = LastAt + 1
  BY DEF EvidenceInv, EvidenceControl
<1>2. InventoryAt = 4 /\ LastAt = 4 + Len(Artifacts) /\ Len(Artifacts) \in Nat
  BY Positions
<1>3. /\ \A p \in 1..LastAt : p # InventoryAt => NameAt(p) \in touched \/ Fine(NameAt(p))
      /\ DOMAIN entries \subseteq AllowedFiles \cup touched
  BY <1>1, <1>2 DEF EvidenceInv, EvidenceSeen
<1> QED
  BY <1>2, <1>3, Positions

LEMMA InvReadyMeans == EvidenceInv => ReadyMeansAcceptable
<1> SUFFICES ASSUME EvidenceInv, finalReport \notin {"none", "invalid_max_age", "stat_failed"}, touched = {}
             PROVE  finalReport = "ready" <=> AllFine
  BY DEF ReadyMeansAcceptable, AllFine
<1>1. CASE finalReport = "ready"
  <2>1. /\ \A n \in AllowedFiles : Fine(n)
        /\ DOMAIN entries \subseteq AllowedFiles
    BY <1>1, ReadySeen
  <2>2. dirThere
    BY <1>1 DEF EvidenceInv, EvidenceControl
  <2> QED
    BY <1>1, <2>1, <2>2 DEF AllFine, Fine
<1>2. CASE finalReport = "incomplete"
  <2>1. failures > 0
    BY <1>2 DEF EvidenceInv, EvidenceControl
  <2> QED
    BY <1>2, <2>1 DEF EvidenceInv, EvidenceBad
<1>3. CASE finalReport \in {"not_a_directory", "symlink_entry", "filesystem_error"}
  BY <1>3 DEF EvidenceInv, EvidenceBad
<1> QED
  BY <1>1, <1>2, <1>3 DEF EvidenceInv, EvidenceControl

LEMMA InvReadyDespite == EvidenceInv => ReadyDespiteWriters
BY ReadySeen DEF ReadyDespiteWriters, Fine

\* dominant_failure_code: an incomplete release has a failure, the failure
\* has a code, and the first of those in the order of priority is answered.
LEMMA DominantKnown ==
    ASSUME EvidenceInv, failures > 0
    PROVE  DominantCode \in FailureCodes
<1> DEFINE found == {i \in DOMAIN Priority : \E j \in DOMAIN codes : codes[j] = Priority[i]}
<1>1. codes \in Seq(FailureCodes) /\ Len(codes) > 0
  BY DEF EvidenceInv, EvidenceCodes
<1>2. 1 \in DOMAIN codes /\ codes[1] \in FailureCodes
  BY <1>1
<1>3. found # {}
  BY <1>2 DEF FailureCodes
<1>4. found \in SUBSET Nat
  <2>1. DOMAIN Priority = 1..8
    BY DEF Priority
  <2> QED
    BY <2>1
<1> HIDE DEF found
<1>5. \E i \in found : \A k \in found : i <= k
  <2>1. PICK i \in found : \A k \in found : ~(<<k, i>> \in OpToRel(<, Nat))
    BY <1>3, <1>4, NatLessThanWellFounded, WFMin
  <2>2. \A k \in found : ~(k < i)
    BY <2>1, <1>4 DEF OpToRel
  <2> QED
    BY <2>2, <1>4
<1>6. (CHOOSE i \in found : \A k \in found : i <= k) \in found
  BY <1>5
<1>7. DominantCode = Priority[CHOOSE i \in found : \A k \in found : i <= k]
  BY <1>3 DEF DominantCode, found
<1>8. \A i \in found : Priority[i] \in FailureCodes
  BY DEF found, FailureCodes
<1> QED
  BY <1>6, <1>7, <1>8

LEMMA InvFailureCodes == EvidenceInv => EveryFailureHasACode
<1> SUFFICES ASSUME EvidenceInv PROVE EveryFailureHasACode
  OBVIOUS
<1>1. failures = Len(codes) /\ here = Len(hereCodes)
  BY DEF EvidenceInv, EvidenceCodes
<1>2. finalReport \in {"none", "ready", "incomplete", "invalid_max_age", "not_a_directory",
                       "symlink_entry", "filesystem_error", "stat_failed"}
  BY DEF EvidenceInv, EvidenceControl
<1>3. finalReport = "incomplete" => DominantCode \in FailureCodes
  BY DominantKnown DEF EvidenceInv, EvidenceControl
<1>4. "ready" \notin FailureCodes /\ "validation_failed" \notin FailureCodes
  BY CodesKnown
<1>5. finalReport # "none" => (ExitCode = 0 <=> CheckTool = "ready") /\ CheckTool # "validation_failed"
  <2>1. CASE finalReport = "incomplete"
    BY <2>1, <1>3, <1>4 DEF ExitCode, CheckTool
  <2>2. CASE finalReport # "incomplete"
    BY <2>2, <1>2 DEF ExitCode, CheckTool
  <2> QED
    BY <2>1, <2>2
<1>6. finalReport = "ready" => NextActions = {}
  BY DEF EvidenceInv, EvidenceControl, EvidenceStatus, NextActions
<1>7. ASSUME finalReport \in {"ready", "incomplete"}
      PROVE  CountOf("passed") + Cardinality(NextActions) = Len(Artifacts)
  <2> DEFINE good == {a \in DOMAIN status : status[a] = "passed"}
  <2>1. InventoryAt = 4 /\ LastAt = 4 + Len(Artifacts) /\ DOMAIN Artifacts = 1..Len(Artifacts) /\ Len(Artifacts) \in Nat
    BY Positions
  <2>2. cpos = LastAt + 1
    BY <1>7 DEF EvidenceInv, EvidenceControl
  <2>3. {k \in DOMAIN Artifacts : InventoryAt + k < cpos} = DOMAIN Artifacts
    BY <2>1, <2>2
  <2>4. DOMAIN status = Specs
    BY <2>3 DEF EvidenceInv, EvidenceStatus, Specs
  <2>5. IsFiniteSet(Specs) /\ Cardinality(Specs) = Len(Artifacts)
    BY ArtifactsCounted
  <2>6. good \cup NextActions = Specs /\ good \cap NextActions = {}
    BY <2>4 DEF NextActions
  <2>7. IsFiniteSet(good) /\ IsFiniteSet(NextActions)
    BY <2>5, <2>6, FS_Subset
  <2> HIDE DEF good
  <2>8. Cardinality(good \cup NextActions) = Cardinality(good) + Cardinality(NextActions) - Cardinality(good \cap NextActions)
    BY <2>7, FS_Union
  <2>9. Cardinality({}) = 0 /\ Cardinality(good) \in Nat /\ Cardinality(NextActions) \in Nat
    BY <2>7, FS_EmptySet, FS_CardinalityType
  <2>10. CountOf("passed") = Cardinality(good)
    BY DEF CountOf, good
  <2>11. Len(Artifacts) = Cardinality(good) + Cardinality(NextActions) - 0
    BY <2>5, <2>6, <2>8, <2>9
  <2> QED
    BY <2>9, <2>10, <2>11
<1> QED
  BY <1>1, <1>5, <1>6, <1>7 DEF EveryFailureHasACode

\* init_release_evidence_directory beside everybody else.
LEMMA StepKeepsFiles ==
    ASSUME EvidenceInv, [EvidenceNext]_evidenceVars
    PROVE  InitKeepsFiles
<1> SUFFICES ASSUME ipc # "idle", ~force, NEW n \in existed \ replaced'
             PROVE  n \in DOMAIN entries' /\ entries'[n] = entries[n]
  BY DEF InitKeepsFiles
<1>1. /\ existed \ replaced \subseteq DOMAIN entries
      /\ ipc \in {"truncate", "fill"} => ScaffoldFiles[ipos] \notin existed \ replaced
  BY DEF EvidenceInv, EvidenceKept
<1>2. CASE UNCHANGED <<entries, replaced>>
  BY <1>1, <1>2
<1>3. CASE \E m \in AllowedFiles \cup {"stray"} : Capture(m) \/ Discard(m)
  <2>1. PICK m : Capture(m) \/ Discard(m)
    BY <1>3
  <2>2. CASE Capture(m)
    <3>1. PICK e : Store(m, e)
      BY <2>2 DEF Capture
    <3>2. n # m /\ n \in DOMAIN entries
      BY <1>1, <2>2 DEF Capture
    <3> QED
      BY <3>1, <3>2 DEF Store
  <2>3. CASE Discard(m)
    BY <1>1, <2>3 DEF Discard
  <2> QED
    BY <2>1, <2>2, <2>3
<1>4. CASE OpenScaffold \/ FillScaffold
  <2>1. n # ScaffoldFiles[ipos] /\ n \in DOMAIN entries
    BY <1>1, <1>4 DEF OpenScaffold, FillScaffold
  <2>2. CASE \E e : Store(ScaffoldFiles[ipos], e)
    BY <2>1, <2>2 DEF Store
  <2>3. CASE UNCHANGED entries
    BY <2>1, <2>3
  <2> QED
    BY <1>4, <2>2, <2>3 DEF OpenScaffold, FillScaffold
<1>5. BeginInit => FALSE
  BY DEF BeginInit
<1>6. CASE LookFirst \/ EnsureAgain \/ InitFails \/ RunPlan \/ BeginCheck
  <2>1. UNCHANGED <<entries, replaced>>
    BY <1>6 DEF LookFirst, EnsureAgain, InitFails, RunPlan, BeginCheck, initVars
  <2> QED
    BY <1>2, <2>1
<1>7. CASE Frame
  <2>1. UNCHANGED <<entries, replaced>>
    BY <1>7 DEF Frame, initVars
  <2> QED
    BY <1>2, <2>1
<1>8. RejectSymlinks \/ StatScaffold \/ ReadScaffold \/ ReadDirectory \/ StatArtifact \/ ReadArtifact
        \/ StatFails \/ ReportVerdict => Frame
  BY DEF RejectSymlinks, StatFails, StatScaffold, ReadScaffold, ReadDirectory, StatArtifact, ReadArtifact, ReportVerdict
<1>9. CASE UNCHANGED evidenceVars
  BY <1>2, <1>9 DEF evidenceVars
<1> QED
  BY <1>3, <1>4, <1>5, <1>6, <1>7, <1>8, <1>9 DEF EvidenceNext

\* check_release_evidence, init_release_evidence_directory and both front
\* ends: for any set of artifacts and any number of writers beside them, a
\* release is reported ready only as far as it is, every failure can be told
\* by its code, and an init destroys nothing that it did not make.
THEOREM EvidenceIsJudged == EvidenceSpec => EvidenceHolds
<1>1. EvidenceInv => ReadyMeansAcceptable /\ ReadyDespiteWriters /\ EveryFailureHasACode
  BY InvReadyMeans, InvReadyDespite, InvFailureCodes
<1>2. EvidenceInv /\ [EvidenceNext]_evidenceVars => [InitKeepsFiles]_evidenceVars
  BY StepKeepsFiles
<1> QED
  BY <1>1, <1>2, EvidenceInitHolds, EvidenceNextHolds, PTL DEF EvidenceSpec, EvidenceHolds

-----------------------------------------------------------------------------
(* ReleaseAssets: the inductive invariant.                                 *)

AllFlaws == {"denied", "garbled", "format", "members", "header", "metadata"}
AssetBytes == [build : {1, 2}, flaws : SUBSET AllFlaws]

IsContent(n, c) == c \in AssetBytes /\ c.flaws \subseteq AssetFlaws(n)

IsEntry(n, e) ==
    /\ e \in [hash : AssetBytes, fields : {"right", "kind", "other"}, auxiliary : {"none", "listed", "wrong"}]
    /\ n.kind = "sbom" => e.auxiliary = "none"

IsManifest(m) ==
    /\ m = [flaws |-> m.flaws, entries |-> m.entries] /\ m.flaws \subseteq ManifestFlaws
    /\ m.entries = [n \in DOMAIN m.entries |-> m.entries[n]] /\ DOMAIN m.entries \subseteq Assets
    /\ \A n \in DOMAIN m.entries : IsEntry(n, m.entries[n])

IsSums(t) ==
    /\ t = [flaws |-> t.flaws, entries |-> t.entries] /\ t.flaws \subseteq SumsFlaws
    /\ t.entries = [n \in DOMAIN t.entries |-> t.entries[n]]
    /\ DOMAIN t.entries \subseteq Assets \cup {Manifest, Stray}

IsDirectory(f) ==
    /\ DOMAIN f \subseteq ExpectedNames \cup {Stray, Folder}
    /\ \A n \in Assets \cap DOMAIN f : IsContent(n, f[n])
    /\ Manifest \in DOMAIN f => IsManifest(f[Manifest])
    /\ Sums \in DOMAIN f => IsSums(f[Sums])

Looking == {"find", "hash", "members", "header", "metadata", "format"}
Inspecting == {"members", "header", "metadata", "format"}

AssetTypes ==
    /\ opts \in Options /\ IsDirectory(files) /\ isDir \in BOOLEAN /\ quiet \in BOOLEAN
    /\ apc \in {"idle", "inventory", "checksums", "manifest", "manifest_hash", "receipt", "done"} \cup Looking
    /\ part \in {"archive", "sbom"} /\ place \in 1..(Len(Expected) + 1)
    /\ apc \notin {"receipt", "done"} => place \in 1..Len(Expected)
    /\ apc \in {"members", "header", "metadata"} => part = "archive"
    /\ apc = "format" => part = "sbom"
    /\ apc = "header" => Expected[place].format = "tar.gz"
    /\ exitCode # <<>> <=> apc = "done"

\* What is still to be asked of the asset that the verifier looks at.
ToAsk ==
    CASE apc = "members" -> {"garbled", "members", "header", "metadata"}
      [] apc = "header" -> {"header", "metadata"}
      [] apc = "metadata" -> {"metadata"}
      [] apc = "format" -> {"garbled", "format"}
      [] OTHER -> {}

\* Whatever is written meanwhile: a verified hash is the one of
\* SHA256SUMS.txt, of a content that was a release asset's, and unless a
\* fault was found it is the manifest's too, and that content has no flaw
\* that has been asked for.
HashesHold ==
    /\ DOMAIN hashes \subseteq Assets
    /\ apc \in Inspecting => Current \in DOMAIN hashes
    /\ apc \in {"idle", "inventory", "checksums", "manifest", "manifest_hash"} => DOMAIN hashes = {}
    /\ \A n \in DOMAIN hashes :
         /\ IsContent(n, hashes[n])
         /\ n \in DOMAIN sums /\ hashes[n] = sums[n]
         /\ n \notin late => n \in DOMAIN files /\ files[n] = hashes[n]
         /\ faults = {} => ManifestEntry(n, hashes[n]) = {}
         /\ faults = {} /\ n \notin late =>
               hashes[n].flaws \subseteq (IF apc \in Inspecting /\ n = Current THEN ToAsk ELSE {})

\* After the manifest was read there is one, or a fault.
ManifestThere ==
    apc \in {"manifest_hash", "receipt"} \cup Looking => (faults = {} => manifest # <<>>)

\* While nobody writes, what was read is what is there, and without a fault
\* it was as it should be.
ReadsHold ==
    (quiet = TRUE /\ apc \notin {"idle", "done"}) =>
        /\ isDir = TRUE /\ late = {}
        /\ opts.input = "valid" /\ (faults = {} => OptionFaults(opts) = {})
        /\ apc # "inventory" => (faults = {} => Inventory = {})
        /\ apc \notin {"inventory", "checksums"} =>
             sums = ChecksumEntries /\ (faults = {} => ChecksumFaults = {})
        /\ apc \notin {"inventory", "checksums", "manifest"} => manifest = ReadJson(Manifest)
        /\ apc \in {"receipt"} \cup Looking =>
             (faults = {} => VerifiedHash(Manifest) # {} /\ ManifestMetadata(opts) = {})

\* The assets that the verifier has done with.
Before(i, k) == apc = "receipt" \/ i < place \/ (i = place /\ k = "archive" /\ part = "sbom")
Behind == {Archive(Expected[i]) : i \in {j \in DOMAIN Expected : Before(j, "archive")}} \cup
          {Sbom(Expected[i]) : i \in {j \in DOMAIN Expected : Before(j, "sbom")}}

\* A genuine release gives no fault, and each of its assets a hash.
GenuineHolds ==
    (quiet = TRUE /\ apc \notin {"idle", "done"} /\ Genuine) =>
        /\ faults = {}
        /\ apc \in {"receipt"} \cup Looking => covered = TRUE /\ Behind \subseteq DOMAIN hashes

\* What the exit code says.
VerdictHolds ==
    apc = "done" =>
        /\ QuietVerdict
        /\ exitCode = <<0>> => faults = {} /\ manifest # <<>> /\ Assets \subseteq DOMAIN hashes

\* Nothing is late before anything is hashed.
QuietStart == apc = "idle" => late = {}

StartsAtFirst ==
    apc \in {"idle", "inventory", "checksums", "manifest", "manifest_hash"} => place = 1 /\ part = "archive"

AssetsInv == AssetTypes /\ HashesHold /\ QuietStart /\ StartsAtFirst /\ ManifestThere /\ ReadsHold /\ GenuineHolds /\ VerdictHolds

-----------------------------------------------------------------------------
(* Names.                                                                  *)

LEMMA PairsTyped ==
    /\ Len(Expected) \in Nat \ {0} /\ DOMAIN Expected = 1..Len(Expected)
    /\ \A e \in Pairs : e.binary \in {"cairnid", "cairnid-mcp"} /\ e.format \in {"tar.gz", "zip"}
    /\ \A i \in 1..Len(Expected) : Expected[i] \in Pairs
<1> DEFINE P == [binary : {"cairnid", "cairnid-mcp"}, format : {"tar.gz", "zip"}]
<1>1. Len(Expected) \in Nat \ {0} /\ DOMAIN Expected = 1..Len(Expected)
  BY AssetConstants, EmptySeq
<1>2. \A i \in 1..Len(Expected) : Expected[i] \in P
  <2>1. Expected \in Seq(P)
    BY AssetConstants
  <2> HIDE DEF P
  <2> QED
    BY <2>1
<1>3. Pairs = {Expected[i] : i \in 1..Len(Expected)}
  BY <1>1 DEF Pairs
<1>4. \A e \in Pairs : e \in [binary : {"cairnid", "cairnid-mcp"}, format : {"tar.gz", "zip"}]
  BY <1>2, <1>3
<1>5. \A e \in Pairs : e.binary \in {"cairnid", "cairnid-mcp"} /\ e.format \in {"tar.gz", "zip"}
  BY <1>4
<1> QED
  BY <1>1, <1>3, <1>5

LEMMA NamesApart ==
    /\ Manifest \notin Assets /\ Sums \notin Assets /\ Manifest # Sums
    /\ Stray \notin Assets /\ Stray # Manifest /\ Stray # Sums
    /\ Folder \notin Assets /\ Folder # Manifest /\ Folder # Sums /\ Folder # Stray
    /\ \A e, f \in Pairs : Archive(e) # Sbom(f)
<1> DEFINE names == Assets \cup {Manifest, Sums, Stray, Folder}
<1>1. \A n \in Assets : n.kind \in {"archive", "sbom"}
  BY DEF Assets, Archive, Sbom
<1>2. /\ Manifest.kind = "release-manifest.json" /\ Sums.kind = "SHA256SUMS.txt" /\ Stray.kind = "stray"
      /\ Folder.kind = "folder"
  BY DEF Manifest, Sums, Stray, Folder
<1>3. \A e : Archive(e).kind = "archive" /\ Sbom(e).kind = "sbom"
  BY DEF Archive, Sbom
<1> QED
  BY <1>1, <1>2, <1>3, Zenon

LEMMA AssetNames ==
    ASSUME NEW n \in Assets
    PROVE  /\ n.of \in Pairs /\ n.kind \in {"archive", "sbom"}
           /\ n = IF n.kind = "archive" THEN Archive(n.of) ELSE Sbom(n.of)
PROOF BY DEF Assets, Archive, Sbom

LEMMA CurrentIsAsset ==
    ASSUME part \in {"archive", "sbom"}, place \in 1..Len(Expected)
    PROVE  Current \in Assets /\ Current.kind = part /\ Current.of = Expected[place]
<1>1. Expected[place] \in Pairs
  BY PairsTyped
<1> QED
  BY <1>1 DEF Current, Assets, Archive, Sbom

LEMMA FlawsOfAssets ==
    ASSUME NEW n \in Assets
    PROVE  /\ AssetFlaws(n) \subseteq AllFlaws
           /\ n.kind = "sbom" => AssetFlaws(n) = {"denied", "garbled", "format"}
           /\ n.kind = "archive" /\ n.of.format = "zip" =>
                AssetFlaws(n) = {"denied", "garbled", "members", "metadata"}
           /\ n.kind = "archive" /\ n.of.format = "tar.gz" =>
                AssetFlaws(n) = {"denied", "garbled", "members", "header", "metadata"}
PROOF BY AssetNames DEF AssetFlaws, AllFlaws

-----------------------------------------------------------------------------
(* Directories.                                                            *)

LEMMA ManifestOfContents ==
    ASSUME NEW c, DOMAIN c = Assets, \A n \in Assets : c[n] \in AssetBytes
    PROVE  IsManifest(ManifestFor(c))
<1> DEFINE entry(n) == [hash |-> c[n], fields |-> "right", auxiliary |-> AuxiliaryFor(n)]
           m == ManifestFor(c)
<1>1. m = [flaws |-> {}, entries |-> [n \in Assets |-> entry(n)]]
  BY DEF ManifestFor
<1>2. ASSUME NEW n \in Assets
      PROVE  IsEntry(n, entry(n))
  BY DEF IsEntry, AuxiliaryFor
<1> HIDE DEF entry, m
<1>3. m.flaws = {} /\ m.entries = [n \in Assets |-> entry(n)]
  BY <1>1
<1> QED
  BY <1>1, <1>2, <1>3 DEF IsManifest, m

\* A manifest that differs in one respect is still a manifest.
LEMMA VariantsAreManifests ==
    ASSUME NEW m, IsManifest(m), NEW v \in ManifestVariants(m)
    PROVE  IsManifest(v)
<1>0. /\ m = [flaws |-> m.flaws, entries |-> m.entries] /\ m.flaws \subseteq ManifestFlaws
      /\ m.entries = [n \in DOMAIN m.entries |-> m.entries[n]] /\ DOMAIN m.entries \subseteq Assets
      /\ \A n \in DOMAIN m.entries : IsEntry(n, m.entries[n])
  BY DEF IsManifest
<1> DEFINE D == DOMAIN m.entries
<1>1. ASSUME NEW f \in ManifestFlaws, v = [m EXCEPT !.flaws = {f}]
      PROVE  IsManifest(v)
  <2>1. v = [flaws |-> {f}, entries |-> m.entries]
    BY <1>0, <1>1
  <2>2. v.flaws = {f} /\ v.entries = m.entries
    BY <2>1
  <2> QED
    BY <1>0, <2>1, <2>2 DEF IsManifest
<1>2. ASSUME NEW n \in D, v = [m EXCEPT !.entries = [x \in D \ {n} |-> m.entries[x]]]
      PROVE  IsManifest(v)
  <2>1. v = [flaws |-> m.flaws, entries |-> [x \in D \ {n} |-> m.entries[x]]]
    BY <1>0, <1>2
  <2>2. v.flaws = m.flaws /\ v.entries = [x \in D \ {n} |-> m.entries[x]]
    BY <2>1
  <2> QED
    BY <1>0, <2>1, <2>2 DEF IsManifest
<1>3. ASSUME NEW n \in D, NEW e, IsEntry(n, e), v = [m EXCEPT !.entries[n] = e]
      PROVE  IsManifest(v)
  <2>1. v = [flaws |-> m.flaws, entries |-> [x \in D |-> IF x = n THEN e ELSE m.entries[x]]]
    BY <1>0, <1>3
  <2>2. v.flaws = m.flaws /\ v.entries = [x \in D |-> IF x = n THEN e ELSE m.entries[x]]
    BY <2>1
  <2> QED
    BY <1>0, <1>3, <2>1, <2>2 DEF IsManifest
<1>4. ASSUME NEW n \in D, v = [m EXCEPT !.entries[n].hash.build = 3 - @]
      PROVE  IsManifest(v)
  <2> DEFINE old == m.entries[n]
             e == [old EXCEPT !.hash = [old.hash EXCEPT !.build = 3 - old.hash.build]]
  <2>1. IsEntry(n, old)
    BY <1>0
  <2>2. [old.hash EXCEPT !.build = 3 - old.hash.build] \in AssetBytes
    BY <2>1 DEF IsEntry, AssetBytes
  <2>3. IsEntry(n, e)
    BY <2>1, <2>2 DEF IsEntry
  <2>4. v = [m EXCEPT !.entries[n] = e]
    BY <1>4, <1>0
  <2> HIDE DEF e
  <2> QED
    BY <1>3, <2>3, <2>4
<1>5. ASSUME NEW n \in D, NEW w \in {"kind", "other"}, v = [m EXCEPT !.entries[n].fields = w]
      PROVE  IsManifest(v)
  <2> DEFINE old == m.entries[n]
             e == [old EXCEPT !.fields = w]
  <2>1. IsEntry(n, e)
    BY <1>0 DEF IsEntry
  <2>2. v = [m EXCEPT !.entries[n] = e]
    BY <1>5, <1>0
  <2> HIDE DEF e
  <2> QED
    BY <1>3, <2>1, <2>2
<1>6. ASSUME NEW n \in D, n.kind = "archive", NEW a \in {"none", "listed", "wrong"},
             v = [m EXCEPT !.entries[n].auxiliary = a]
      PROVE  IsManifest(v)
  <2> DEFINE old == m.entries[n]
             e == [old EXCEPT !.auxiliary = a]
  <2>1. IsEntry(n, e)
    BY SMTT(30), <1>0, <1>6 DEF IsEntry
  <2>2. v = [m EXCEPT !.entries[n] = e]
    BY <1>6, <1>0
  <2> HIDE DEF e
  <2> QED
    BY <1>3, <2>1, <2>2
<1> DEFINE A1 == {[m EXCEPT !.flaws = {f}] : f \in ManifestFlaws}
           A2 == {[m EXCEPT !.entries = [x \in D \ {n} |-> m.entries[x]]] : n \in D}
           A3 == {[m EXCEPT !.entries[n].hash.build = 3 - @] : n \in D}
           A4 == {{[m EXCEPT !.entries[n].fields = w] : w \in {"kind", "other"}} : n \in D}
           A5 == {{[m EXCEPT !.entries[n].auxiliary = a] : a \in {"none", "listed", "wrong"}} :
                    n \in {x \in D : x.kind = "archive"}}
<1>7. v \in A1 \cup A2 \cup A3 \cup (UNION A4) \cup (UNION A5)
  BY DEF ManifestVariants
<1>8. v \in A1 => IsManifest(v)
  BY <1>1, Zenon
<1>9. v \in A2 => IsManifest(v)
  BY <1>2, Zenon
<1>10. v \in A3 => IsManifest(v)
  BY <1>4
<1>11. v \in UNION A4 => IsManifest(v)
  BY <1>5
<1>12. v \in UNION A5 => IsManifest(v)
  <2> SUFFICES ASSUME v \in UNION A5 PROVE IsManifest(v)
    OBVIOUS
  <2>1. PICK n \in {x \in D : x.kind = "archive"} :
          v \in {[m EXCEPT !.entries[n].auxiliary = a] : a \in {"none", "listed", "wrong"}}
    OBVIOUS
  <2>2. PICK a \in {"none", "listed", "wrong"} : v = [m EXCEPT !.entries[n].auxiliary = a]
    BY <2>1
  <2> HIDE DEF A5
  <2> QED
    BY <1>6, <2>1, <2>2
<1> HIDE DEF A1, A2, A3, A4, A5
<1> QED
  BY <1>7, <1>8, <1>9, <1>10, <1>11, <1>12

LEMMA DirectoryWith ==
    ASSUME NEW f, IsDirectory(f), NEW n \in ExpectedNames \cup {Stray, Folder}, NEW c,
           n \in Assets => IsContent(n, c),
           n = Manifest => IsManifest(c),
           n = Sums => IsSums(c)
    PROVE  IsDirectory(With(n, c, f))
<1>1. /\ DOMAIN With(n, c, f) = DOMAIN f \cup {n}
      /\ \A x \in DOMAIN f \cup {n} : With(n, c, f)[x] = IF x = n THEN c ELSE f[x]
  BY DEF With
<1> QED
  BY <1>1 DEF IsDirectory

LEMMA DirectoryWithout ==
    ASSUME NEW f, IsDirectory(f), NEW n
    PROVE  IsDirectory([x \in DOMAIN f \ {n} |-> f[x]])
PROOF BY DEF IsDirectory

LEMMA CoveredIsDirectory ==
    ASSUME NEW c, DOMAIN c = Assets, \A n \in Assets : IsContent(n, c[n]), NEW m, IsManifest(m)
    PROVE  IsDirectory(Covered(c, m))
<1> DEFINE listed == With(Manifest, m, c)
<1>1. IsDirectory(c)
  BY NamesApart DEF IsDirectory, ExpectedNames
<1>2. IsDirectory(listed) /\ DOMAIN listed = Assets \cup {Manifest}
  <2>1. DOMAIN listed = Assets \cup {Manifest}
    BY DEF With
  <2> QED
    BY <1>1, <2>1, NamesApart, DirectoryWith DEF ExpectedNames
<1>3. listed = [n \in DOMAIN listed |-> listed[n]]
  BY DEF With
<1> HIDE DEF listed
<1>4. IsSums(SumsFor(listed))
  BY <1>2, <1>3 DEF SumsFor, IsSums
<1>5. IsDirectory(With(Sums, SumsFor(listed), listed))
  BY <1>2, <1>4, NamesApart, DirectoryWith DEF ExpectedNames
<1> QED
  BY <1>5 DEF Covered, listed

LEMMA PublishedIsDirectory ==
    ASSUME NEW c, DOMAIN c = Assets, \A n \in Assets : IsContent(n, c[n])
    PROVE  IsDirectory(Published(c))
PROOF BY ManifestOfContents, CoveredIsDirectory DEF Published, IsContent

-----------------------------------------------------------------------------
(* The start, and the writes of others.                                    *)

LEMMA SmallContents ==
    ASSUME NEW n \in Assets, NEW c \in AssetContents(n)
    PROVE  IsContent(n, c)
<1>1. CASE \E b \in 1..2 : c = [build |-> b, flaws |-> {}]
  <2>1. PICK b \in 1..2 : c = [build |-> b, flaws |-> {}]
    BY <1>1
  <2>2. b \in {1, 2}
    OBVIOUS
  <2> QED
    BY <2>1, <2>2 DEF IsContent, AssetBytes
<1>2. CASE \E f \in AssetFlaws(n) : c = [build |-> 1, flaws |-> {f}]
  BY <1>2, FlawsOfAssets DEF IsContent, AssetBytes
<1> QED
  BY <1>1, <1>2 DEF AssetContents

LEMMA CleanContents ==
    /\ DOMAIN Clean = Assets /\ \A n \in Assets : IsContent(n, Clean[n])
    /\ DOMAIN Rebuilt = Assets /\ \A n \in Assets : IsContent(n, Rebuilt[n])
PROOF BY DEF Clean, Rebuilt, IsContent, AssetBytes

LEMMA AssetsStart == AssetsInit => AssetsInv
<1> SUFFICES ASSUME AssetsInit PROVE AssetsInv
  OBVIOUS
<1>1. opts \in Options
  BY Zenon DEF AssetsInit, Options
<1>2. IsDirectory(files)
  <2>1. CASE files = Published(Clean)
    BY <2>1, CleanContents, PublishedIsDirectory
  <2>2. CASE \E m \in ManifestVariants(ManifestFor(Clean)) : files = Covered(Clean, m)
    <3>1. IsManifest(ManifestFor(Clean))
      BY CleanContents, ManifestOfContents DEF IsContent
    <3> QED
      BY <2>2, <3>1, CleanContents, VariantsAreManifests, CoveredIsDirectory
  <2>3. CASE \E n \in Assets : \E c \in AssetContents(n) : files = Published([Clean EXCEPT ![n] = c])
    <3>0. PICK n \in Assets : \E c \in AssetContents(n) : files = Published([Clean EXCEPT ![n] = c])
      BY <2>3
    <3>1. PICK c \in AssetContents(n) : files = Published([Clean EXCEPT ![n] = c])
      BY <3>0
    <3> DEFINE d == [Clean EXCEPT ![n] = c]
    <3>2. DOMAIN d = Assets /\ \A x \in Assets : IsContent(x, d[x])
      <4>1. DOMAIN d = Assets /\ \A x \in Assets : d[x] = IF x = n THEN c ELSE Clean[x]
        BY CleanContents
      <4> HIDE DEF d
      <4> QED
        BY <4>1, CleanContents, SmallContents
    <3> HIDE DEF d
    <3>3. IsDirectory(Published(d))
      BY <3>2, PublishedIsDirectory
    <3> QED
      BY <3>1, <3>3 DEF d
  <2> QED
    BY <2>1, <2>2, <2>3 DEF AssetsInit
<1>3. AssetTypes
  BY <1>1, <1>2, PairsTyped DEF AssetsInit, AssetTypes, Looking
<1>4. HashesHold
  BY DEF AssetsInit, HashesHold, Inspecting
<1> QED
  BY <1>3, <1>4 DEF AssetsInit, AssetsInv, QuietStart, StartsAtFirst, ManifestThere, ReadsHold, GenuineHolds, VerdictHolds, Looking

\* A write leaves a directory, and what it does not name as it was.
LEMMA TouchKeeps ==
    ASSUME AssetsInv, NEW new, NEW names, Touch(new, names), isDir' \in BOOLEAN, IsDirectory(new),
           \A x \in DOMAIN files \ names : x \in DOMAIN new /\ new[x] = files[x]
    PROVE  AssetsInv'
<1>1. /\ exitCode = <<>> /\ files' = new /\ late' = late \cup (names \cap DOMAIN hashes)
      /\ opts' = opts /\ apc' = apc /\ place' = place /\ part' = part /\ sums' = sums
      /\ manifest' = manifest /\ covered' = covered /\ hashes' = hashes /\ faults' = faults
      /\ exitCode' = exitCode
  BY DEF Touch
<1>2. quiet' \in BOOLEAN /\ (apc # "idle" => quiet' = FALSE)
  BY DEF Touch
<1>3. AssetTypes'
  BY <1>1, <1>2 DEF AssetsInv, AssetTypes
<1>4. ASSUME NEW n \in DOMAIN hashes, n \notin late'
      PROVE  n \in DOMAIN new /\ new[n] = hashes[n] /\ n \notin late
  BY <1>1, <1>4 DEF AssetsInv, HashesHold
<1>5. HashesHold'
  <2>1. Current' = Current /\ ToAsk' = ToAsk
    BY <1>1 DEF Current, ToAsk
  <2>2. \A n, h : ManifestEntry(n, h)' = ManifestEntry(n, h)
    BY <1>1 DEF ManifestEntry
  <2> QED
    BY <1>1, <1>4, <2>1, <2>2 DEF AssetsInv, HashesHold
<1>6. ManifestThere'
  BY <1>1 DEF AssetsInv, ManifestThere
<1>7. apc # "done"
  BY <1>1 DEF AssetsInv, AssetTypes
<1>8. ReadsHold' /\ GenuineHolds'
  BY <1>1, <1>2 DEF ReadsHold, GenuineHolds
<1>9. QuietStart'
  BY <1>1 DEF AssetsInv, QuietStart, HashesHold
<1> QED
  BY <1>1, <1>3, <1>5, <1>6, <1>7, <1>8, <1>9 DEF AssetsInv, VerdictHolds, StartsAtFirst

LEMMA PutKeeps ==
    ASSUME AssetsInv, NEW n \in ExpectedNames \cup {Stray, Folder}, NEW c, Put(n, c),
           n \in Assets => IsContent(n, c),
           n = Manifest => IsManifest(c),
           n = Sums => IsSums(c)
    PROVE  AssetsInv'
<1>1. IsDirectory(With(n, c, files))
  BY DirectoryWith DEF AssetsInv, AssetTypes
<1>2. isDir' \in BOOLEAN
  BY DEF Put, AssetsInv, AssetTypes
<1>3. \A x \in DOMAIN files \ {n} : x \in DOMAIN With(n, c, files) /\ With(n, c, files)[x] = files[x]
  BY DEF With
<1>4. Touch(With(n, c, files), {n})
  BY DEF Put
<1> QED
  BY <1>1, <1>2, <1>3, <1>4, TouchKeeps

LEMMA PublisherKeeps == AssetsInv /\ Publisher => AssetsInv'
<1> SUFFICES ASSUME AssetsInv, Publisher PROVE AssetsInv'
  OBVIOUS
<1>0. IsDirectory(files) /\ isDir \in BOOLEAN
  BY DEF AssetsInv, AssetTypes
<1>1. ASSUME NEW n \in Assets, ReplaceAsset(n) PROVE AssetsInv'
  <2>1. PICK c \in AssetContents(n) : Put(n, c)
    BY <1>1 DEF ReplaceAsset
  <2> QED
    BY <2>1, SmallContents, NamesApart, PutKeeps DEF ExpectedNames
<1>2. ASSUME NEW n \in ExpectedNames, RemoveFile(n) PROVE AssetsInv'
  <2> DEFINE new == [x \in DOMAIN files \ {n} |-> files[x]]
  <2>1. Touch(new, {n}) /\ isDir' \in BOOLEAN
    BY <1>0, <1>2 DEF RemoveFile
  <2>2. IsDirectory(new)
    BY <1>0, DirectoryWithout
  <2>3. \A x \in DOMAIN files \ {n} : x \in DOMAIN new /\ new[x] = files[x]
    OBVIOUS
  <2> HIDE DEF new
  <2> QED
    BY <2>1, <2>2, <2>3, TouchKeeps
<1>3. ASSUME NEW n \in {Stray, Folder}, AddStray(n) PROVE AssetsInv'
  BY <1>3, NamesApart, PutKeeps DEF AddStray, ExpectedNames
<1>4. CASE RewriteManifest
  <2>1. PICK m \in ManifestVariants(files[Manifest]) : Put(Manifest, m) /\ IsManifest(files[Manifest])
    BY <1>0, <1>4 DEF RewriteManifest, IsDirectory
  <2> QED
    BY <2>1, NamesApart, VariantsAreManifests, PutKeeps DEF ExpectedNames
<1>5. CASE RewriteSums
  <2> DEFINE t == files[Sums]
  <2>1. /\ t = [flaws |-> t.flaws, entries |-> t.entries] /\ t.flaws \subseteq SumsFlaws
        /\ t.entries = [n \in DOMAIN t.entries |-> t.entries[n]]
        /\ DOMAIN t.entries \subseteq Assets \cup {Manifest, Stray}
    BY <1>0, <1>5 DEF RewriteSums, IsDirectory, IsSums
  <2>2. PICK c : Put(Sums, c) /\ IsSums(c)
    <3>1. CASE \E f \in SumsFlaws : Put(Sums, [t EXCEPT !.flaws = {f}])
      <4>1. PICK f \in SumsFlaws : Put(Sums, [t EXCEPT !.flaws = {f}])
        BY <3>1
      <4>2. [t EXCEPT !.flaws = {f}] = [flaws |-> {f}, entries |-> t.entries]
        BY <2>1
      <4>3. IsSums([flaws |-> {f}, entries |-> t.entries])
        BY <2>1 DEF IsSums
      <4> QED
        BY <4>1, <4>2, <4>3
    <3>2. CASE \E n \in DOMAIN t.entries :
                 Put(Sums, [t EXCEPT !.entries = [x \in DOMAIN t.entries \ {n} |-> t.entries[x]]])
      <4>1. PICK n \in DOMAIN t.entries :
                 Put(Sums, [t EXCEPT !.entries = [x \in DOMAIN t.entries \ {n} |-> t.entries[x]]])
        BY <3>2
      <4> DEFINE e == [x \in DOMAIN t.entries \ {n} |-> t.entries[x]]
      <4>2. [t EXCEPT !.entries = e] = [flaws |-> t.flaws, entries |-> e]
        BY <2>1
      <4>3. e = [x \in DOMAIN e |-> e[x]] /\ DOMAIN e \subseteq Assets \cup {Manifest, Stray}
        BY <2>1
      <4> HIDE DEF e
      <4>4. IsSums([flaws |-> t.flaws, entries |-> e])
        BY <2>1, <4>3 DEF IsSums
      <4> QED
        BY <4>1, <4>2, <4>4 DEF e
    <3>3. CASE Put(Sums, [t EXCEPT !.entries = <<>>])
      <4>1. [t EXCEPT !.entries = <<>>] = [flaws |-> t.flaws, entries |-> <<>>]
        BY <2>1
      <4>2. DOMAIN <<>> = {} /\ <<>> = [n \in DOMAIN <<>> |-> <<>>[n]]
        OBVIOUS
      <4>3. IsSums([flaws |-> t.flaws, entries |-> <<>>])
        BY <2>1, <4>2 DEF IsSums
      <4> QED
        BY <3>3, <4>1, <4>3
    <3>4. CASE Put(Sums, SumsFor([n \in DOMAIN files \ {Sums, Folder} |-> files[n]]))
      <4> DEFINE e == [n \in DOMAIN files \ {Sums, Folder} |-> files[n]]
      <4>1. e = [n \in DOMAIN e |-> e[n]] /\ DOMAIN e \subseteq Assets \cup {Manifest, Stray}
        BY <1>0 DEF IsDirectory, ExpectedNames
      <4> HIDE DEF e
      <4>2. IsSums(SumsFor(e))
        BY <4>1 DEF SumsFor, IsSums
      <4> QED
        BY <3>4, <4>2 DEF e
    <3>5. CASE Put(Sums, [t EXCEPT !.entries = With(Stray, [build |-> 1, flaws |-> {}], t.entries)])
      <4> DEFINE e == With(Stray, [build |-> 1, flaws |-> {}], t.entries)
      <4>1. [t EXCEPT !.entries = e] = [flaws |-> t.flaws, entries |-> e]
        BY <2>1
      <4>2. e = [x \in DOMAIN e |-> e[x]] /\ DOMAIN e \subseteq Assets \cup {Manifest, Stray}
        BY <2>1 DEF With
      <4> HIDE DEF e
      <4>3. IsSums([flaws |-> t.flaws, entries |-> e])
        BY <2>1, <4>2 DEF IsSums
      <4> QED
        BY <3>5, <4>1, <4>3 DEF e
    <3> QED
      BY <1>5, <3>1, <3>2, <3>3, <3>4, <3>5 DEF RewriteSums
  <2> QED
    BY <2>2, NamesApart, PutKeeps DEF ExpectedNames
<1>6. CASE MoveAway
  <2>1. IsDirectory(<<>>)
    BY DEF IsDirectory
  <2>2. Touch(<<>>, DOMAIN files) /\ isDir' \in BOOLEAN
    BY <1>6 DEF MoveAway
  <2> QED
    BY <2>1, <2>2, TouchKeeps
<1>7. CASE Republish
  <2>1. IsDirectory(Published(Rebuilt))
    BY CleanContents, PublishedIsDirectory
  <2>2. Touch(Published(Rebuilt), DOMAIN files) /\ isDir' \in BOOLEAN
    BY <1>0, <1>7 DEF Republish
  <2> QED
    BY <2>1, <2>2, TouchKeeps
<1> QED
  BY <1>1, <1>2, <1>3, <1>4, <1>5, <1>6, <1>7 DEF Publisher

-----------------------------------------------------------------------------
(* Genuine releases.                                                       *)

LEMMA ProperOptions ==
    ASSUME opts \in Options
    PROVE  opts = Proper <=> opts.input = "valid" /\ OptionFaults(opts) = {}
<1> USE DEF OptionFaults, AttestationConfirmations, ImmutabilityConfirmation, PublicReleaseUrl, Fault
<1>1. CASE opts = Proper
  <2>1. /\ opts.input = "valid" /\ opts.provenance = TRUE /\ opts.sboms = TRUE /\ opts.immutable = TRUE
        /\ opts.release_url = "tag"
    BY <1>1 DEF Proper
  <2> QED
    BY <1>1, <2>1
<1>2. CASE opts = [Proper EXCEPT !.provenance = FALSE]
  <2>1. opts.provenance = FALSE
    BY <1>2 DEF Proper
  <2>2. Proper.provenance = TRUE
    BY DEF Proper
  <2> QED
    BY <2>1, <2>2
<1>3. CASE opts = [Proper EXCEPT !.sboms = FALSE]
  <2>1. opts.sboms = FALSE
    BY <1>3 DEF Proper
  <2>2. Proper.sboms = TRUE
    BY DEF Proper
  <2> QED
    BY <2>1, <2>2
<1>4. CASE opts = [Proper EXCEPT !.immutable = FALSE]
  <2>1. opts.immutable = FALSE /\ opts.release_url = "tag"
    BY <1>4 DEF Proper
  <2>2. Proper.immutable = TRUE
    BY DEF Proper
  <2> QED
    BY <2>1, <2>2
<1>5. CASE opts = [Proper EXCEPT !.input = "invalid"]
  BY <1>5 DEF Proper
<1>6. CASE \E u \in {"blank", "other"} : opts = [Proper EXCEPT !.release_url = u]
  <2>1. opts.release_url # "tag" /\ Proper.release_url = "tag"
    BY <1>6 DEF Proper
  <2> QED
    BY <2>1
<1>7. CASE \E u \in {"same", "other"} : opts = [Proper EXCEPT !.release_url = "none", !.run_url = u]
  <2>1. opts.release_url # "tag" /\ Proper.release_url = "tag"
    BY <1>7 DEF Proper
  <2> QED
    BY <2>1
<1> QED
  BY <1>1, <1>2, <1>3, <1>4, <1>5, <1>6, <1>7 DEF Options

\* As many archives and as many sboms as pairs.
LEMMA AssetCardinality ==
    /\ IsFiniteSet(Assets)
    /\ Cardinality({n \in Assets : n.kind = "archive"}) = Len(Expected)
    /\ Cardinality({n \in Assets : n.kind = "sbom"}) = Len(Expected)
    /\ Cardinality(Assets) = 2 * Len(Expected)
<1> DEFINE L == Len(Expected)
           A == {n \in Assets : n.kind = "archive"}
           S == {n \in Assets : n.kind = "sbom"}
<1>0. L \in Nat /\ DOMAIN Expected = 1..L /\ \A i \in 1..L : Expected[i] \in Pairs
  BY PairsTyped
<1>00. \A e \in Pairs : \E i \in 1..L : e = Expected[i]
  BY <1>0 DEF Pairs
<1>1. IsFiniteSet(1..L) /\ Cardinality(1..L) = L
  <2>1. 1 \in Int /\ L \in Int
    BY <1>0
  <2>2. IsFiniteSet(1..L) /\ Cardinality(1..L) = IF 1 > L THEN 0 ELSE L - 1 + 1
    BY <2>1, FS_Interval
  <2> QED
    BY <1>0, <2>2
<1>2. IsFiniteSet(A) /\ Cardinality(A) = L
  <2> DEFINE f == [i \in 1..L |-> Archive(Expected[i])]
  <2>1. f \in [1..L -> A]
    BY <1>0 DEF Assets, Archive
  <2>2. \A i, j \in 1..L : f[i] = f[j] => i = j
    <3>1. \A i \in 1..L : f[i].of = Expected[i]
      BY DEF Archive
    <3> HIDE DEF f
    <3> QED
      BY <1>0, <3>1, AssetConstants
  <2>3. \A n \in A : \E i \in 1..L : f[i] = n
    <3> SUFFICES ASSUME NEW n \in A PROVE \E i \in 1..L : f[i] = n
      OBVIOUS
    <3>1. n.of \in Pairs /\ n = Archive(n.of)
      BY AssetNames
    <3>2. PICK i \in 1..L : n.of = Expected[i]
      BY <1>00, <3>1
    <3> QED
      BY <3>1, <3>2
  <2>4. f \in Bijection(1..L, A)
    BY <2>1, <2>2, <2>3 DEF Bijection, Injection, Surjection, IsInjective
  <2>5. ExistsBijection(1..L, A)
    BY <2>4 DEF ExistsBijection
  <2> HIDE DEF f, L, A, S
  <2> QED
    BY <1>1, <2>5, FS_Bijection
<1>3. IsFiniteSet(S) /\ Cardinality(S) = L
  <2> DEFINE f == [i \in 1..L |-> Sbom(Expected[i])]
  <2>1. f \in [1..L -> S]
    BY <1>0 DEF Assets, Sbom
  <2>2. \A i, j \in 1..L : f[i] = f[j] => i = j
    <3>1. \A i \in 1..L : f[i].of = Expected[i]
      BY DEF Sbom
    <3> HIDE DEF f
    <3> QED
      BY <1>0, <3>1, AssetConstants
  <2>3. \A n \in S : \E i \in 1..L : f[i] = n
    <3> SUFFICES ASSUME NEW n \in S PROVE \E i \in 1..L : f[i] = n
      OBVIOUS
    <3>1. n.of \in Pairs /\ n = Sbom(n.of)
      BY AssetNames
    <3>2. PICK i \in 1..L : n.of = Expected[i]
      BY <1>00, <3>1
    <3> QED
      BY <3>1, <3>2
  <2>4. f \in Bijection(1..L, S)
    BY <2>1, <2>2, <2>3 DEF Bijection, Injection, Surjection, IsInjective
  <2>5. ExistsBijection(1..L, S)
    BY <2>4 DEF ExistsBijection
  <2> HIDE DEF f, L, A, S
  <2> QED
    BY <1>1, <2>5, FS_Bijection
<1>4. Assets = A \cup S /\ A \cap S = {}
  BY AssetNames
<1> HIDE DEF A, S, L
<1>5. IsFiniteSet(A \cup S) /\ Cardinality(A \cup S) = Cardinality(A) + Cardinality(S) - Cardinality(A \cap S)
  BY <1>2, <1>3, FS_Union
<1>6. Cardinality({}) = 0
  BY FS_EmptySet
<1>7. IsFiniteSet(Assets) /\ Cardinality(Assets) = 2 * L
  <2>1. Cardinality(A \cap S) = 0
    BY <1>4, <1>6
  <2>2. Cardinality(A \cup S) = L + L - 0
    BY <1>2, <1>3, <1>5, <2>1
  <2>3. L + L - 0 = 2 * L
    BY <1>0
  <2> QED
    BY <1>4, <1>5, <2>2, <2>3
<1> QED
  BY <1>2, <1>3, <1>7 DEF A, S, L

\* What a genuine directory holds.
LEMMA GenuineDirectory ==
    ASSUME AssetTypes, Genuine
    PROVE  /\ opts = Proper /\ DOMAIN files \ {Folder} = ExpectedNames
           /\ \A n \in Assets : n \in DOMAIN files /\ files[n].flaws = {}
           /\ Manifest \in DOMAIN files /\ files[Manifest].flaws \subseteq {"run_url"}
           /\ DOMAIN files[Manifest].entries = Assets
           /\ \A n \in Assets : files[Manifest].entries[n] =
                [hash |-> files[n], fields |-> "right", auxiliary |-> AuxiliaryFor(n)]
           /\ Sums \in DOMAIN files /\ files[Sums].flaws = {}
           /\ Assets \cup {Manifest} \subseteq DOMAIN files[Sums].entries
           /\ \A n \in Assets \cup {Manifest} : files[Sums].entries[n] = files[n]
<1>1. opts = Proper /\ DOMAIN files \ {Folder} = ExpectedNames /\ \A n \in Assets : files[n].flaws = {}
  BY DEF Genuine
<1>2. Manifest \in DOMAIN files /\ Sums \in DOMAIN files /\ \A n \in Assets : n \in DOMAIN files
  BY <1>1 DEF ExpectedNames
<1>3. PICK f \in SUBSET {"run_url"} :
        files[Manifest] = [flaws |-> f, entries |-> [n \in Assets |->
                             [hash |-> files[n], fields |-> "right", auxiliary |-> AuxiliaryFor(n)]]]
  BY DEF Genuine, ManifestFor
<1>4. /\ files[Sums].flaws = {} /\ Assets \cup {Manifest} \subseteq DOMAIN files[Sums].entries
      /\ \A n \in Assets \cup {Manifest} : files[Sums].entries[n] = files[n]
  BY DEF Genuine
<1>5. /\ files[Manifest].flaws \subseteq {"run_url"} /\ DOMAIN files[Manifest].entries = Assets
      /\ \A n \in Assets : files[Manifest].entries[n] =
           [hash |-> files[n], fields |-> "right", auxiliary |-> AuxiliaryFor(n)]
  BY <1>3
<1> QED
  BY <1>1, <1>2, <1>4, <1>5

LEMMA GenuineReads ==
    ASSUME AssetTypes, Genuine
    PROVE  /\ opts.input = "valid" /\ OptionFaults(opts) = {} /\ Inventory = {} /\ ChecksumFaults = {}
           /\ Decodes(Manifest) /\ Opens(Manifest) /\ Opens(Sums)
           /\ \A n \in Assets : IsFile(n) /\ Opens(n) /\ Decodes(n)
<1>1. opts.input = "valid" /\ OptionFaults(opts) = {}
  BY GenuineDirectory, ProperOptions DEF AssetTypes
<1>2. Inventory = {}
  BY GenuineDirectory DEF Inventory, Fault
<1>3. Opens(Sums) /\ Opens(Manifest) /\ Decodes(Manifest)
  BY GenuineDirectory DEF Opens, Decodes, IsFile
<1>4. \A n \in Assets : IsFile(n) /\ Opens(n) /\ Decodes(n)
  BY GenuineDirectory DEF Opens, Decodes, IsFile
<1>5. ChecksumFaults = {}
  <2>1. files[Sums].flaws = {} /\ Manifest \in DOMAIN files[Sums].entries
    BY GenuineDirectory
  <2>2. files[Sums].entries # <<>>
    BY <2>1
  <2> QED
    BY <1>3, <2>1, <2>2 DEF ChecksumFaults, Fault
<1> QED
  BY <1>1, <1>2, <1>3, <1>4, <1>5

\* The manifest of a genuine release says what the verifier asks of it.
LEMMA GenuineManifest ==
    ASSUME AssetTypes, Genuine, sums = ChecksumEntries, manifest = ReadJson(Manifest)
    PROVE  /\ VerifiedHash(Manifest) # {} /\ ManifestMetadata(opts) = {} /\ manifest # <<>>
           /\ \A n \in Assets : VerifiedHash(n) # {} /\ ManifestEntry(n, files[n]) = {}
<1> DEFINE m == files[Manifest]
<1>1. sums = files[Sums].entries /\ manifest = <<m>> /\ manifest # <<>> /\ manifest[1] = m
  BY GenuineReads DEF ChecksumEntries, ReadJson
<1>2. VerifiedHash(Manifest) # {} /\ \A n \in Assets : VerifiedHash(n) # {}
  BY <1>1, GenuineDirectory, GenuineReads DEF VerifiedHash
<1>3. \A n \in Assets : ManifestEntry(n, files[n]) = {}
  <2> SUFFICES ASSUME NEW n \in Assets PROVE ManifestEntry(n, files[n]) = {}
    OBVIOUS
  <2> DEFINE e == m.entries[n]
  <2>1. n \in DOMAIN m.entries /\ e = [hash |-> files[n], fields |-> "right", auxiliary |-> AuxiliaryFor(n)]
    BY GenuineDirectory
  <2>2. e.hash = files[n] /\ e.fields = "right" /\ e.auxiliary = AuxiliaryFor(n)
    BY <2>1
  <2> HIDE DEF e
  <2>3. ManifestAsset(n, e, files[n]) = {}
    BY <2>2 DEF ManifestAsset, AuxiliaryFiles, Fault
  <2> QED
    BY <1>1, <2>1, <2>3 DEF ManifestEntry, e
<1>4. ManifestMetadata(opts) = {}
  <2>1. m.flaws \subseteq {"run_url"} /\ opts = Proper /\ DOMAIN m.entries = Assets
        /\ \A n \in Assets : m.entries[n].fields = "right"
    <3>1. m.flaws \subseteq {"run_url"} /\ opts = Proper /\ DOMAIN m.entries = Assets
      BY GenuineDirectory
    <3>2. ASSUME NEW n \in Assets
          PROVE  m.entries[n].fields = "right"
      <4>1. m.entries[n] = [hash |-> files[n], fields |-> "right", auxiliary |-> AuxiliaryFor(n)]
        BY GenuineDirectory
      <4> QED
        BY <4>1
    <3> QED
      BY <3>1, <3>2
  <2>2. opts.run_url = "none"
    BY <2>1 DEF Proper
  <2> HIDE DEF m
  <2>3. CommitAndIdentity(m) = {} /\ WorkflowRef(m, opts) = {}
    BY <2>1 DEF CommitAndIdentity, WorkflowRef, Fault
  <2>4. RunMetadata(m, opts) = {}
    BY <2>1, <2>2 DEF RunMetadata, Fault
  <2>5. AssetCounts(m) = {}
    <3> DEFINE Kind(n) == IF m.entries[n].fields = "kind" THEN "other" ELSE n.kind
               Of(k) == {n \in DOMAIN m.entries : Kind(n) = k}
    <3>1. \A n \in Assets : Kind(n) = n.kind
      BY <2>1
    <3> HIDE DEF Kind
    <3>2. Of("archive") = {n \in Assets : n.kind = "archive"} /\ Of("sbom") = {n \in Assets : n.kind = "sbom"}
      BY <2>1, <3>1
    <3> HIDE DEF Of
    <3>3. /\ Cardinality(DOMAIN m.entries) = 2 * Len(Expected)
          /\ Cardinality(Of("archive")) = Len(Expected) /\ Cardinality(Of("sbom")) = Len(Expected)
      BY <2>1, <3>2, AssetCardinality
    <3>4. "extra_entry" \notin m.flaws
      BY <2>1
    <3>5. AssetCounts(m) = Fault(\/ "extra_entry" \in m.flaws
                                 \/ Cardinality(DOMAIN m.entries) # 2 * Len(Expected)
                                 \/ Cardinality(Of("archive")) # Len(Expected)
                                 \/ Cardinality(Of("sbom")) # Len(Expected), "asset_counts")
      BY DEF AssetCounts, Of, Kind
    <3> QED
      BY <3>3, <3>4, <3>5 DEF Fault
  <2> QED
    BY <1>1, <2>3, <2>4, <2>5 DEF ManifestMetadata
<1> QED
  BY <1>1, <1>2, <1>3, <1>4

\* What the verifier lets through is genuine.
LEMMA LetThroughIsGenuine ==
    ASSUME AssetTypes, opts.input = "valid", OptionFaults(opts) = {}, Inventory = {}, ChecksumFaults = {},
           sums = ChecksumEntries, manifest = ReadJson(Manifest), manifest # <<>>,
           VerifiedHash(Manifest) # {}, ManifestMetadata(opts) = {},
           \A n \in Assets : /\ n \in DOMAIN files /\ IsContent(n, files[n]) /\ files[n].flaws = {}
                             /\ n \in DOMAIN sums /\ sums[n] = files[n]
                             /\ ManifestEntry(n, files[n]) = {}
    PROVE  Genuine
<1> DEFINE m == files[Manifest]
           t == files[Sums]
<1>1. opts = Proper
  BY ProperOptions DEF AssetTypes
<1>2. Manifest \in DOMAIN files /\ Decodes(Manifest) /\ manifest = <<m>> /\ manifest[1] = m
  <2>1. Decodes(Manifest)
    BY DEF ReadJson
  <2> QED
    BY <2>1 DEF ReadJson, Decodes, Opens, IsFile
<1>3. Sums \in DOMAIN files /\ t.flaws = {} /\ sums = t.entries
  BY DEF ChecksumFaults, ChecksumEntries, Fault, Opens, IsFile
<1>4. DOMAIN files \ {Folder} = ExpectedNames
  BY <1>2, <1>3, NamesApart DEF Inventory, Fault, ExpectedNames
<1>5. IsManifest(m) /\ IsSums(t)
  BY <1>2, <1>3 DEF AssetTypes, IsDirectory
<1>6. \A n \in Assets \cup {Manifest} : n \in DOMAIN t.entries /\ t.entries[n] = files[n]
  <2>1. Manifest \in DOMAIN sums /\ sums[Manifest] = m
    BY DEF VerifiedHash
  <2> QED
    BY <1>3, <2>1
<1>7. ASSUME NEW n \in Assets
      PROVE  /\ n \in DOMAIN m.entries
             /\ m.entries[n] = [hash |-> files[n], fields |-> "right", auxiliary |-> AuxiliaryFor(n)]
  <2>1. n \in DOMAIN m.entries /\ ManifestAsset(n, m.entries[n], files[n]) = {}
    BY <1>2 DEF ManifestEntry
  <2> DEFINE e == m.entries[n]
  <2>2. IsEntry(n, e)
    BY <1>5, <2>1 DEF IsManifest
  <2> HIDE DEF e, m
  <2>3. e.fields = "right" /\ e.hash = files[n] /\ (n.kind = "archive" => e.auxiliary = AuxiliaryFor(n))
    BY <2>1 DEF ManifestAsset, AuxiliaryFiles, Fault, e
  <2>4. e.auxiliary = AuxiliaryFor(n)
    BY <2>2, <2>3, AssetNames DEF IsEntry, AuxiliaryFor
  <2>5. e = [hash |-> e.hash, fields |-> e.fields, auxiliary |-> e.auxiliary]
    BY <2>2 DEF IsEntry
  <2> QED
    BY <2>1, <2>3, <2>4, <2>5 DEF e
<1>8. m.flaws \subseteq {"run_url"}
  <2>1. "denied" \notin m.flaws /\ "garbled" \notin m.flaws
    BY <1>2 DEF Decodes, Opens
  <2>2. opts.release_url = "tag"
    BY <1>1 DEF Proper
  <2> HIDE DEF m
  <2>3. /\ CommitAndIdentity(m) = {} /\ WorkflowRef(m, opts) = {} /\ RunMetadata(m, opts) = {}
        /\ AssetCounts(m) = {}
    BY <1>2 DEF ManifestMetadata
  <2>4. "fields" \notin m.flaws /\ "no_ref" \notin m.flaws /\ "branch_ref" \notin m.flaws
    BY <2>2, <2>3 DEF CommitAndIdentity, WorkflowRef, Fault
  <2>5. "run" \notin m.flaws /\ "no_ci_run" \notin m.flaws
    BY <2>2, <2>3 DEF RunMetadata, Fault
  <2>6. "extra_entry" \notin m.flaws
    BY <2>3 DEF AssetCounts, Fault
  <2>7. m.flaws \subseteq ManifestFlaws
    BY <1>5 DEF IsManifest
  <2> QED
    BY <2>1, <2>4, <2>5, <2>6, <2>7 DEF ManifestFlaws
<1>9. m = [ManifestFor([n \in Assets |-> files[n]]) EXCEPT !.flaws = m.flaws]
  <2> DEFINE entry(n) == [hash |-> files[n], fields |-> "right", auxiliary |-> AuxiliaryFor(n)]
  <2>1. m = [flaws |-> m.flaws, entries |-> m.entries] /\ m.entries = [n \in DOMAIN m.entries |-> m.entries[n]]
        /\ DOMAIN m.entries \subseteq Assets
    BY <1>5 DEF IsManifest
  <2>2. DOMAIN m.entries = Assets
    BY <1>7, <2>1
  <2> HIDE DEF m
  <2>3. m.entries = [n \in Assets |-> entry(n)]
    BY <1>7, <2>1, <2>2 DEF m
  <2>4. ManifestFor([n \in Assets |-> files[n]]) = [flaws |-> {}, entries |-> [n \in Assets |-> entry(n)]]
    BY DEF ManifestFor
  <2> HIDE DEF entry
  <2> QED
    BY <2>1, <2>3, <2>4
<1> QED
  BY <1>1, <1>3, <1>4, <1>6, <1>8, <1>9 DEF Genuine

-----------------------------------------------------------------------------
(* The verifier reads the directory, the sums and the manifest.            *)

\* What the verifier leaves alone in every step.
Steady ==
    /\ files' = files /\ isDir' = isDir /\ opts' = opts /\ quiet' = quiet /\ late' = late

LEMMA ReadingsStay ==
    ASSUME files' = files, opts' = opts
    PROVE  /\ Inventory' = Inventory /\ ChecksumEntries' = ChecksumEntries /\ ChecksumFaults' = ChecksumFaults
           /\ ReadJson(Manifest)' = ReadJson(Manifest) /\ OptionFaults(opts)' = OptionFaults(opts)
           /\ Decodes(Manifest)' <=> Decodes(Manifest)
           /\ Genuine' <=> Genuine
PROOF BY DEF Inventory, ChecksumEntries, ChecksumFaults, ReadJson, OptionFaults, Decodes, Opens, IsFile, Genuine

LEMMA RunVerifyKeeps == AssetsInv /\ RunVerify => AssetsInv'
<1> SUFFICES ASSUME AssetsInv, RunVerify PROVE AssetsInv'
  OBVIOUS
<1>1. /\ apc = "idle" /\ Steady /\ place' = place /\ part' = part /\ sums' = sums /\ manifest' = manifest
      /\ covered' = covered /\ hashes' = hashes
  BY DEF RunVerify, Steady
<1>2. DOMAIN hashes = {} /\ AssetTypes
  BY <1>1 DEF AssetsInv, HashesHold
<1>3. CASE ValidOperatorInputs(opts) /\ isDir
  <2>1. apc' = "inventory" /\ faults' = OptionFaults(opts) /\ exitCode' = exitCode
    BY <1>3 DEF RunVerify
  <2>2. AssetTypes'
    BY <1>1, <1>2, <2>1 DEF AssetTypes, Looking, Steady
  <2>3. HashesHold'
    BY <1>1, <1>2, <2>1 DEF HashesHold, Inspecting
  <2>4. quiet = TRUE => late = {}
    BY <1>1 DEF AssetsInv, QuietStart
  <2>5. isDir' = TRUE /\ opts'.input = "valid" /\ OptionFaults(opts)' = OptionFaults(opts)
    BY <1>1, <1>2, <1>3, ReadingsStay DEF ValidOperatorInputs, Steady, AssetTypes
  <2>6. ReadsHold'
    BY <1>1, <2>1, <2>4, <2>5 DEF ReadsHold, Looking, Steady
  <2>7. GenuineHolds'
    <3>1. Genuine' => OptionFaults(opts) = {}
      BY <1>1, <1>2, ReadingsStay, GenuineReads DEF Steady
    <3> QED
      BY <2>1, <3>1 DEF GenuineHolds, Looking
  <2> QED
    BY <1>1, <2>1, <2>2, <2>3, <2>6, <2>7 DEF AssetsInv, ManifestThere, VerdictHolds, Looking, QuietStart, StartsAtFirst
<1>4. CASE ~(ValidOperatorInputs(opts) /\ isDir)
  <2>1. apc' = "done" /\ exitCode' = <<4>> /\ faults' = faults
    BY <1>4 DEF RunVerify, Ended
  <2>2. AssetTypes'
    BY <1>1, <1>2, <2>1 DEF AssetTypes, Looking, Steady
  <2>3. HashesHold'
    BY <1>1, <1>2, <2>1 DEF HashesHold, Inspecting
  <2>4. <<4>> # <<0>>
    OBVIOUS
  <2>5. QuietVerdict'
    <3>1. ~(isDir' /\ Genuine')
      BY <1>1, <1>2, <1>4, ReadingsStay, GenuineReads DEF Steady, ValidOperatorInputs
    <3> QED
      BY <2>1, <2>4, <3>1 DEF QuietVerdict
  <2> QED
    BY <2>1, <2>2, <2>3, <2>4, <2>5 DEF AssetsInv, ManifestThere, ReadsHold, GenuineHolds, VerdictHolds,
       Looking, QuietStart, StartsAtFirst
<1> QED
  BY <1>3, <1>4

LEMMA ReadInventoryKeeps == AssetsInv /\ ReadInventory => AssetsInv'
<1> SUFFICES ASSUME AssetsInv, ReadInventory PROVE AssetsInv'
  OBVIOUS
<1>1. /\ apc = "inventory" /\ Steady /\ place' = place /\ part' = part /\ sums' = sums /\ manifest' = manifest
      /\ covered' = covered /\ hashes' = hashes
  BY DEF ReadInventory, Steady
<1>2. DOMAIN hashes = {} /\ AssetTypes
  BY <1>1 DEF AssetsInv, HashesHold
<1>3. CASE isDir
  <2>1. apc' = "checksums" /\ faults' = faults \cup Inventory /\ exitCode' = exitCode
    BY <1>3 DEF ReadInventory
  <2>2. AssetTypes'
    BY <1>1, <1>2, <2>1 DEF AssetTypes, Looking, Steady
  <2>3. HashesHold'
    BY <1>1, <1>2, <2>1 DEF HashesHold, Inspecting
  <2>4. Inventory' = Inventory /\ OptionFaults(opts)' = OptionFaults(opts) /\ (Genuine' <=> Genuine)
    BY <1>1, ReadingsStay DEF Steady
  <2>5. ReadsHold'
    BY <1>1, <2>1, <2>4 DEF AssetsInv, ReadsHold, Looking, Steady
  <2>6. GenuineHolds'
    <3>1. Genuine => Inventory = {}
      BY <1>2, GenuineReads
    <3> QED
      BY <1>1, <2>1, <2>4, <3>1 DEF AssetsInv, GenuineHolds, Looking, Steady
  <2> QED
    BY <1>1, <2>1, <2>2, <2>3, <2>5, <2>6 DEF AssetsInv, ManifestThere, VerdictHolds, Looking, QuietStart, StartsAtFirst
<1>4. CASE ~isDir
  <2>1. apc' = "done" /\ exitCode' = <<1>>
    BY <1>4 DEF ReadInventory, Ended
  <2>2. AssetTypes'
    BY <1>1, <1>2, <2>1 DEF AssetTypes, Looking, Steady
  <2>3. HashesHold'
    BY <1>1, <1>2, <2>1 DEF HashesHold, Inspecting
  <2>4. quiet' # TRUE
    BY <1>1, <1>4 DEF AssetsInv, ReadsHold, Steady
  <2>5. quiet' = FALSE
    BY <2>2, <2>4 DEF AssetTypes
  <2>6. <<1>> # <<0>>
    OBVIOUS
  <2> QED
    BY <2>1, <2>2, <2>3, <2>5, <2>6 DEF AssetsInv, ManifestThere, ReadsHold, GenuineHolds, VerdictHolds,
       QuietVerdict, Looking, QuietStart, StartsAtFirst
<1> QED
  BY <1>3, <1>4

LEMMA ReadChecksumsKeeps == AssetsInv /\ ReadChecksums => AssetsInv'
<1> SUFFICES ASSUME AssetsInv, ReadChecksums PROVE AssetsInv'
  OBVIOUS
<1>1. /\ apc = "checksums" /\ apc' = "manifest" /\ Steady /\ place' = place /\ part' = part
      /\ manifest' = manifest /\ covered' = covered /\ hashes' = hashes /\ exitCode' = exitCode
      /\ sums' = ChecksumEntries /\ faults' = faults \cup ChecksumFaults
  BY DEF ReadChecksums, Steady
<1>2. DOMAIN hashes = {} /\ AssetTypes
  BY <1>1 DEF AssetsInv, HashesHold
<1>3. AssetTypes'
  BY <1>1, <1>2 DEF AssetTypes, Looking, Steady
<1>4. HashesHold'
  BY <1>1, <1>2 DEF HashesHold, Inspecting
<1>5. /\ Inventory' = Inventory /\ OptionFaults(opts)' = OptionFaults(opts) /\ (Genuine' <=> Genuine)
      /\ ChecksumEntries' = ChecksumEntries /\ ChecksumFaults' = ChecksumFaults
  BY <1>1, ReadingsStay DEF Steady
<1>6. ReadsHold'
  BY <1>1, <1>5 DEF AssetsInv, ReadsHold, Looking, Steady
<1>7. GenuineHolds'
  <2>1. Genuine => ChecksumFaults = {}
    BY <1>2, GenuineReads
  <2> QED
    BY <1>1, <1>5, <2>1 DEF AssetsInv, GenuineHolds, Looking, Steady
<1> QED
  BY <1>1, <1>3, <1>4, <1>6, <1>7 DEF AssetsInv, ManifestThere, VerdictHolds, Looking, QuietStart, StartsAtFirst

LEMMA ReadManifestKeeps == AssetsInv /\ ReadManifest => AssetsInv'
<1> SUFFICES ASSUME AssetsInv, ReadManifest PROVE AssetsInv'
  OBVIOUS
<1>1. /\ apc = "manifest" /\ apc' = "manifest_hash" /\ Steady /\ place' = place /\ part' = part
      /\ sums' = sums /\ covered' = covered /\ hashes' = hashes /\ exitCode' = exitCode
      /\ manifest' = ReadJson(Manifest) /\ faults' = faults \cup Fault(~Decodes(Manifest), "manifest")
  BY DEF ReadManifest, Steady
<1>2. DOMAIN hashes = {} /\ AssetTypes
  BY <1>1 DEF AssetsInv, HashesHold
<1>3. AssetTypes'
  BY <1>1, <1>2 DEF AssetTypes, Looking, Steady
<1>4. HashesHold'
  BY <1>1, <1>2 DEF HashesHold, Inspecting
<1>5. /\ Inventory' = Inventory /\ OptionFaults(opts)' = OptionFaults(opts) /\ (Genuine' <=> Genuine)
      /\ ChecksumEntries' = ChecksumEntries /\ ChecksumFaults' = ChecksumFaults
      /\ ReadJson(Manifest)' = ReadJson(Manifest)
  BY <1>1, ReadingsStay DEF Steady
<1>6. ReadsHold'
  BY <1>1, <1>5 DEF AssetsInv, ReadsHold, Looking, Steady
<1>7. GenuineHolds'
  <2>1. Genuine => Fault(~Decodes(Manifest), "manifest") = {}
    BY <1>2, GenuineReads DEF Fault
  <2> QED
    BY <1>1, <1>5, <2>1 DEF AssetsInv, GenuineHolds, Looking, Steady
<1>8. ManifestThere'
  <2>1. faults' = {} => Decodes(Manifest)
    BY <1>1 DEF Fault
  <2>2. Decodes(Manifest) => manifest' = <<files[Manifest]>>
    BY <1>1 DEF ReadJson
  <2> QED
    BY <2>1, <2>2 DEF ManifestThere
<1> QED
  BY <1>1, <1>3, <1>4, <1>6, <1>7, <1>8 DEF AssetsInv, VerdictHolds, QuietStart, StartsAtFirst

\* The verifier starts on the assets.
LEMMA HashManifestKeeps == AssetsInv /\ HashManifest => AssetsInv'
<1> SUFFICES ASSUME AssetsInv, HashManifest PROVE AssetsInv'
  OBVIOUS
<1>1. /\ apc = "manifest_hash" /\ apc' = "find" /\ Steady /\ place' = place /\ part' = part
      /\ sums' = sums /\ manifest' = manifest /\ hashes' = hashes /\ exitCode' = exitCode
  BY DEF HashManifest, Steady
<1>2. /\ covered' \in BOOLEAN /\ (covered' = TRUE <=> VerifiedHash(Manifest) # {})
      /\ faults' = faults \cup Fault(VerifiedHash(Manifest) = {}, "manifest_not_covered")
                          \cup ManifestMetadata(opts)
  <2>1. /\ covered' = (VerifiedHash(Manifest) # {})
        /\ faults' = faults \cup Fault(~covered', "manifest_not_covered") \cup ManifestMetadata(opts)
    BY DEF HashManifest
  <2>2. CASE VerifiedHash(Manifest) = {}
    BY <2>1, <2>2 DEF Fault
  <2>3. CASE VerifiedHash(Manifest) # {}
    BY <2>1, <2>3 DEF Fault
  <2> QED
    BY <2>2, <2>3
<1>3. DOMAIN hashes = {} /\ AssetTypes
  BY <1>1 DEF AssetsInv, HashesHold
<1>4. place' = 1 /\ part' = "archive"
  BY <1>1 DEF AssetsInv, StartsAtFirst
<1>5. AssetTypes'
  BY <1>1, <1>3 DEF AssetTypes, Looking, Steady
<1>6. HashesHold'
  BY <1>1, <1>3 DEF HashesHold, Inspecting
<1>7. /\ Inventory' = Inventory /\ OptionFaults(opts)' = OptionFaults(opts) /\ (Genuine' <=> Genuine)
      /\ ChecksumEntries' = ChecksumEntries /\ ChecksumFaults' = ChecksumFaults
      /\ ReadJson(Manifest)' = ReadJson(Manifest)
  BY <1>1, ReadingsStay DEF Steady
<1>8. VerifiedHash(Manifest)' = VerifiedHash(Manifest) /\ ManifestMetadata(opts)' = ManifestMetadata(opts)
  BY <1>1 DEF VerifiedHash, Opens, IsFile, ManifestMetadata, Steady
<1>9. faults' = {} => faults = {} /\ VerifiedHash(Manifest) # {} /\ ManifestMetadata(opts) = {}
  BY <1>2 DEF Fault
<1>10. ReadsHold'
  BY <1>1, <1>7, <1>8, <1>9 DEF AssetsInv, ReadsHold, Looking, Steady
<1>11. GenuineHolds'
  <2> SUFFICES ASSUME quiet' = TRUE, Genuine' PROVE faults' = {} /\ covered' = TRUE /\ Behind' \subseteq DOMAIN hashes'
    BY DEF GenuineHolds
  <2>1. quiet = TRUE /\ Genuine
    BY <1>1, <1>7 DEF Steady
  <2>2. sums = ChecksumEntries /\ manifest = ReadJson(Manifest) /\ faults = {}
    BY <1>1, <2>1 DEF AssetsInv, ReadsHold, GenuineHolds
  <2>3. VerifiedHash(Manifest) # {} /\ ManifestMetadata(opts) = {}
    BY <1>3, <2>1, <2>2, GenuineManifest
  <2>4. Behind' = {}
    BY <1>1, <1>4, PairsTyped DEF Behind, Before
  <2> QED
    BY <1>2, <2>2, <2>3, <2>4 DEF Fault
<1>12. ManifestThere'
  BY <1>1, <1>9 DEF AssetsInv, ManifestThere, Looking
<1> QED
  BY <1>1, <1>4, <1>5, <1>6, <1>10, <1>11, <1>12 DEF AssetsInv, VerdictHolds, QuietStart, StartsAtFirst

-----------------------------------------------------------------------------
(* The verifier looks at the assets.                                       *)

\* What looking at an asset leaves alone.
LooksOn ==
    /\ Steady /\ sums' = sums /\ manifest' = manifest /\ covered' = covered /\ exitCode' = exitCode
    /\ faults \subseteq faults'

LEMMA OnwardMoves ==
    ASSUME AssetsInv, apc \in Looking, Onward
    PROVE  /\ apc' \in {"find", "receipt"} /\ part' \in {"archive", "sbom"}
           /\ place' \in 1..(Len(Expected) + 1) /\ (apc' = "find" => place' \in 1..Len(Expected))
           /\ Behind' \subseteq Behind \cup {Current}
<1>1. /\ part \in {"archive", "sbom"} /\ place \in 1..Len(Expected)
      /\ Len(Expected) \in Nat \ {0} /\ DOMAIN Expected = 1..Len(Expected) /\ apc # "receipt"
  BY PairsTyped DEF AssetsInv, AssetTypes, Looking
<1> DEFINE L == Len(Expected)
<1>6. \/ part = "archive" /\ apc' = "find" /\ part' = "sbom" /\ place' = place
      \/ part = "sbom" /\ place = L /\ apc' = "receipt" /\ part' = "archive" /\ place' = place + 1
      \/ part = "sbom" /\ place # L /\ apc' = "find" /\ part' = "archive" /\ place' = place + 1
  <2>1. part = "archive" => apc' = "find" /\ part' = "sbom" /\ place' = place
    BY Zenon DEF Onward
  <2>2. part = "sbom" => part' = "archive" /\ place' = place + 1
    BY Zenon DEF Onward
  <2>3. part = "sbom" => IF place = L THEN apc' = "receipt" ELSE apc' = "find"
    BY Zenon DEF Onward
  <2> QED
    BY <1>1, <2>1, <2>2, <2>3, Zenon
<1>7. L \in Nat \ {0} /\ DOMAIN Expected = 1..L /\ place \in 1..L
  BY <1>1
<1>2. /\ apc' \in {"find", "receipt"} /\ part' \in {"archive", "sbom"}
      /\ place' \in 1..(Len(Expected) + 1) /\ (apc' = "find" => place' \in 1..Len(Expected))
  <2>1. /\ apc' \in {"find", "receipt"} /\ part' \in {"archive", "sbom"}
        /\ place' \in 1..(L + 1) /\ (apc' = "find" => place' \in 1..L)
    <3> HIDE DEF L
    <3> QED
      BY <1>6, <1>7
  <2> QED
    BY <2>1
<1> HIDE DEF L
<1>3. ASSUME NEW i \in DOMAIN Expected, Before(i, "archive")'
      PROVE  Before(i, "archive") \/ (i = place /\ part = "archive")
  BY <1>1, <1>3, <1>6, <1>7 DEF Before
<1>4. ASSUME NEW i \in DOMAIN Expected, Before(i, "sbom")'
      PROVE  Before(i, "sbom") \/ (i = place /\ part = "sbom")
  BY <1>1, <1>4, <1>6, <1>7 DEF Before
<1>5. ASSUME NEW n \in Behind'
      PROVE  n \in Behind \cup {Current}
  <2>1. CASE \E i \in DOMAIN Expected : Before(i, "archive")' /\ n = Archive(Expected[i])
    BY <1>3, <2>1 DEF Behind, Current
  <2>2. CASE \E i \in DOMAIN Expected : Before(i, "sbom")' /\ n = Sbom(Expected[i])
    BY <1>1, <1>4, <2>2 DEF Behind, Current
  <2> QED
    BY <1>5, <2>1, <2>2 DEF Behind
<1> QED
  BY <1>2, <1>5

LEMMA StayMoves ==
    ASSUME AssetsInv, apc \in Looking, place' = place, part' = part, apc' \in Looking
    PROVE  Current' = Current /\ Behind' = Behind
<1>1. \A i, k : Before(i, k)' <=> Before(i, k)
  BY DEF Before, Looking
<1> QED
  BY <1>1 DEF Current, Behind

\* A step of the loop keeps the invariant if it keeps the hashes, and gives
\* a genuine release no fault.
LEMMA LookKeeps ==
    ASSUME AssetsInv, apc \in Looking, apc' \in Looking \cup {"receipt"}, LooksOn, AssetTypes', HashesHold',
           quiet = TRUE /\ Genuine => faults' = {} /\ Behind' \subseteq DOMAIN hashes'
    PROVE  AssetsInv'
<1>1. /\ apc \notin {"idle", "inventory", "checksums", "manifest", "manifest_hash", "receipt", "done"}
      /\ apc' \notin {"idle", "inventory", "checksums", "manifest", "manifest_hash", "done"}
  BY DEF Looking
<1>2. faults' = {} => faults = {}
  BY DEF LooksOn
<1>3. /\ Inventory' = Inventory /\ OptionFaults(opts)' = OptionFaults(opts) /\ (Genuine' <=> Genuine)
      /\ ChecksumEntries' = ChecksumEntries /\ ChecksumFaults' = ChecksumFaults
      /\ ReadJson(Manifest)' = ReadJson(Manifest)
  BY ReadingsStay DEF LooksOn, Steady
<1>4. VerifiedHash(Manifest)' = VerifiedHash(Manifest) /\ ManifestMetadata(opts)' = ManifestMetadata(opts)
  BY DEF VerifiedHash, Opens, IsFile, ManifestMetadata, Steady, LooksOn
<1>5. ReadsHold'
  BY <1>1, <1>2, <1>3, <1>4 DEF AssetsInv, ReadsHold, Steady, LooksOn
<1>6. GenuineHolds'
  BY <1>1, <1>3 DEF AssetsInv, GenuineHolds, Steady, LooksOn
<1>7. ManifestThere'
  BY <1>2 DEF AssetsInv, ManifestThere, LooksOn
<1> QED
  BY <1>1, <1>5, <1>6, <1>7 DEF AssetsInv, QuietStart, StartsAtFirst, VerdictHolds

\* The hashes stand when no hash is added and the flaws asked for were
\* absent.
LEMMA HashesStay ==
    ASSUME AssetsInv, LooksOn, hashes' = hashes, apc' \in Looking \cup {"receipt"},
           apc' \in Inspecting => Current' \in DOMAIN hashes,
           \A n \in DOMAIN hashes : faults' = {} /\ n \notin late =>
               hashes[n].flaws \subseteq (IF apc' \in Inspecting /\ n = Current' THEN ToAsk' ELSE {})
    PROVE  HashesHold'
<1>1. apc' \notin {"idle", "inventory", "checksums", "manifest", "manifest_hash"}
  BY DEF Looking
<1>2. faults' = {} => faults = {}
  BY DEF LooksOn
<1>3. \A n, h : ManifestEntry(n, h)' = ManifestEntry(n, h)
  BY DEF ManifestEntry, LooksOn
<1> QED
  BY <1>1, <1>2, <1>3 DEF AssetsInv, HashesHold, LooksOn, Steady

\* Facts about the asset in hand.
LEMMA InHand ==
    ASSUME AssetsInv, apc \in Looking
    PROVE  /\ Current \in Assets /\ Current.kind = part /\ Current.of = Expected[place]
           /\ part \in {"archive", "sbom"} /\ place \in 1..Len(Expected)
           /\ IsFile(Current) => IsContent(Current, files[Current])
           /\ quiet = TRUE /\ Genuine =>
                /\ faults = {} /\ Behind \subseteq DOMAIN hashes
                /\ IsFile(Current) /\ Opens(Current) /\ Decodes(Current) /\ VerifiedHash(Current) # {}
                /\ ManifestEntry(Current, files[Current]) = {} /\ files[Current].flaws = {}
<1>0. AssetTypes /\ apc \notin {"idle", "inventory", "checksums", "manifest", "receipt", "done"}
  BY DEF AssetsInv, Looking
<1>1. part \in {"archive", "sbom"} /\ place \in 1..Len(Expected)
  BY <1>0 DEF AssetTypes
<1>2. Current \in Assets /\ Current.kind = part /\ Current.of = Expected[place]
  BY <1>1, CurrentIsAsset
<1>3. IsFile(Current) => IsContent(Current, files[Current])
  BY <1>0, <1>2 DEF AssetTypes, IsDirectory, IsFile
<1>4. ASSUME quiet = TRUE, Genuine
      PROVE  /\ faults = {} /\ Behind \subseteq DOMAIN hashes
             /\ IsFile(Current) /\ Opens(Current) /\ Decodes(Current) /\ VerifiedHash(Current) # {}
             /\ ManifestEntry(Current, files[Current]) = {} /\ files[Current].flaws = {}
  <2>1. faults = {} /\ Behind \subseteq DOMAIN hashes
    BY <1>0, <1>4 DEF AssetsInv, GenuineHolds
  <2>2. sums = ChecksumEntries /\ manifest = ReadJson(Manifest)
    BY <1>0, <1>4 DEF AssetsInv, ReadsHold
  <2> QED
    BY <1>0, <1>2, <1>4, <2>1, <2>2, GenuineReads, GenuineManifest, GenuineDirectory
<1> QED
  BY <1>1, <1>2, <1>3, <1>4

\* Typing after a step of the loop.
LEMMA LookTypes ==
    ASSUME AssetsInv, LooksOn, apc \in Looking,
           \/ Onward
           \/ /\ place' = place /\ part' = part /\ apc' \in Looking
              /\ apc' \in {"members", "header", "metadata"} => part = "archive"
              /\ apc' = "format" => part = "sbom"
              /\ apc' = "header" => Expected[place].format = "tar.gz"
    PROVE  AssetTypes' /\ apc' \in Looking \cup {"receipt"}
<1>1. AssetTypes /\ apc # "done" /\ apc # "receipt"
  BY DEF AssetsInv, Looking
<1>2. CASE Onward
  BY <1>1, <1>2, OnwardMoves DEF AssetTypes, Looking, LooksOn, Steady
<1>3. CASE ~Onward
  BY <1>1, <1>3 DEF AssetTypes, Looking, LooksOn, Steady
<1> QED
  BY <1>2, <1>3

LEMMA FindAssetKeeps == AssetsInv /\ FindAsset => AssetsInv'
<1> SUFFICES ASSUME AssetsInv, FindAsset PROVE AssetsInv'
  OBVIOUS
<1>1. apc = "find" /\ apc \in Looking /\ apc \notin Inspecting /\ LooksOn /\ hashes' = hashes
  BY DEF FindAsset, LooksOn, Steady, Looking, Inspecting, Stay
<1>2. \A n \in DOMAIN hashes : faults = {} /\ n \notin late => hashes[n].flaws \subseteq {}
  BY <1>1 DEF AssetsInv, HashesHold
<1>3. CASE IsFile(Current)
  <2>1. apc' = "hash" /\ place' = place /\ part' = part /\ faults' = faults
    BY <1>3 DEF FindAsset, Stay
  <2>2. AssetTypes' /\ apc' \in Looking /\ apc' \notin Inspecting
    BY <1>1, <2>1, LookTypes DEF Looking, Inspecting
  <2>3. HashesHold'
    BY <1>1, <1>2, <2>1, <2>2, HashesStay
  <2>4. quiet = TRUE /\ Genuine => faults' = {} /\ Behind' \subseteq DOMAIN hashes'
    BY <1>1, <2>1, <2>2, InHand, StayMoves
  <2> QED
    BY <1>1, <2>2, <2>3, <2>4, LookKeeps
<1>4. CASE ~IsFile(Current)
  <2>1. Onward /\ faults' # {}
    BY <1>4 DEF FindAsset
  <2>2. AssetTypes' /\ apc' \in Looking \cup {"receipt"} /\ apc' \notin Inspecting
    BY <1>1, <2>1, LookTypes, OnwardMoves DEF Looking, Inspecting
  <2>3. HashesHold'
    BY <1>1, <2>1, <2>2, HashesStay
  <2>4. ~(quiet = TRUE /\ Genuine)
    BY <1>1, <1>4, InHand
  <2> QED
    BY <1>1, <2>2, <2>3, <2>4, LookKeeps
<1> QED
  BY <1>3, <1>4

\* The hash of the asset in hand joins the receipt.
LEMMA HashAssetKeeps == AssetsInv /\ HashAsset => AssetsInv'
<1> SUFFICES ASSUME AssetsInv, HashAsset PROVE AssetsInv'
  OBVIOUS
<1> DEFINE n == Current
<1>1. apc = "hash" /\ apc \in Looking /\ apc \notin Inspecting /\ LooksOn
  BY DEF HashAsset, LooksOn, Steady, Looking, Inspecting
<1>2. \A x \in DOMAIN hashes : faults = {} /\ x \notin late => hashes[x].flaws \subseteq {}
  BY <1>1 DEF AssetsInv, HashesHold
<1>3. CASE VerifiedHash(n) = {}
  <2>1. Onward /\ hashes' = hashes
    BY <1>3 DEF HashAsset
  <2>2. AssetTypes' /\ apc' \in Looking \cup {"receipt"} /\ apc' \notin Inspecting
    BY <1>1, <2>1, LookTypes, OnwardMoves DEF Looking, Inspecting
  <2>3. faults' = {} => faults = {}
    BY <1>1 DEF LooksOn
  <2>4. HashesHold'
    BY <1>1, <1>2, <2>1, <2>2, <2>3, HashesStay
  <2>5. ~(quiet = TRUE /\ Genuine)
    BY <1>1, <1>3, InHand
  <2> QED
    BY <1>1, <2>2, <2>4, <2>5, LookKeeps
<1>4. CASE VerifiedHash(n) # {}
  <2>1. /\ apc' = (IF n.kind = "archive" THEN "members" ELSE "format") /\ place' = place /\ part' = part
        /\ hashes' = With(n, files[n], hashes) /\ faults' = faults \cup ManifestEntry(n, files[n])
    BY <1>4 DEF HashAsset, Stay
  <2>2. Opens(n) /\ n \in DOMAIN files /\ "denied" \notin files[n].flaws /\ n \in DOMAIN sums /\ sums[n] = files[n]
    BY <1>4 DEF VerifiedHash, Opens, IsFile
  <2>3. /\ n \in Assets /\ n.kind = part /\ part \in {"archive", "sbom"} /\ IsContent(n, files[n])
        /\ n.of = Expected[place] /\ place \in 1..Len(Expected)
    BY <1>1, <2>2, InHand DEF IsFile
  <2>4. /\ apc' \in Looking /\ apc' \in Inspecting
        /\ part = "archive" => apc' = "members"
        /\ part = "sbom" => apc' = "format"
    BY <2>1, <2>3 DEF Looking, Inspecting
  <2>5. AssetTypes'
    BY <1>1, <2>1, <2>3, <2>4, LookTypes
  <2>6. Current' = n /\ Behind' = Behind
    BY <1>1, <2>1, <2>4, StayMoves
  <2>7. files[n].flaws \subseteq ToAsk'
    <3>1. files[n].flaws \subseteq AssetFlaws(n) \ {"denied"}
      BY <2>2, <2>3 DEF IsContent
    <3>2. CASE part = "archive"
      <4>1. n.of.format \in {"tar.gz", "zip"}
        BY <2>3, PairsTyped
      <4>2. AssetFlaws(n) \subseteq {"denied", "garbled", "members", "header", "metadata"}
        BY <2>3, <3>2, <4>1, FlawsOfAssets
      <4>3. ToAsk' = {"garbled", "members", "header", "metadata"}
        BY <2>4, <3>2 DEF ToAsk
      <4> QED
        BY <3>1, <4>2, <4>3
    <3>3. CASE part = "sbom"
      <4>1. AssetFlaws(n) = {"denied", "garbled", "format"}
        BY <2>3, <3>3, FlawsOfAssets
      <4>2. ToAsk' = {"garbled", "format"}
        BY <2>4, <3>3 DEF ToAsk
      <4> QED
        BY <3>1, <4>1, <4>2
    <3> QED
      BY <2>3, <3>2, <3>3
  <2> HIDE DEF n
  <2>8. /\ DOMAIN hashes' = DOMAIN hashes \cup {n} /\ hashes'[n] = files[n]
        /\ \A x \in DOMAIN hashes : x # n => hashes'[x] = hashes[x]
    BY <2>1 DEF With
  <2>9. /\ apc' \notin {"idle", "inventory", "checksums", "manifest", "manifest_hash"}
        /\ faults' = {} => faults = {} /\ ManifestEntry(n, files[n]) = {}
    BY <2>1, <2>4 DEF Looking
  <2>10. \A x, h : ManifestEntry(x, h)' = ManifestEntry(x, h)
    BY <1>1 DEF ManifestEntry, LooksOn
  <2>11. ASSUME NEW x \in DOMAIN hashes'
         PROVE  /\ IsContent(x, hashes'[x])
                /\ x \in DOMAIN sums' /\ hashes'[x] = sums'[x]
                /\ x \notin late' => x \in DOMAIN files' /\ files'[x] = hashes'[x]
                /\ faults' = {} => ManifestEntry(x, hashes[x])' = {}
                /\ faults' = {} /\ x \notin late' =>
                     hashes'[x].flaws \subseteq (IF apc' \in Inspecting /\ x = Current' THEN ToAsk' ELSE {})
    <3>1. CASE x = n
      BY <1>1, <2>2, <2>3, <2>4, <2>6, <2>7, <2>8, <2>9, <2>10, <3>1 DEF LooksOn, Steady
    <3>2. CASE x # n
      <4>1. x \in DOMAIN hashes /\ hashes'[x] = hashes[x]
        BY <2>8, <2>11, <3>2
      <4>2. /\ IsContent(x, hashes[x]) /\ x \in DOMAIN sums /\ hashes[x] = sums[x]
            /\ x \notin late => x \in DOMAIN files /\ files[x] = hashes[x]
            /\ faults = {} => ManifestEntry(x, hashes[x]) = {}
        BY <4>1 DEF AssetsInv, HashesHold
      <4> QED
        BY <1>1, <1>2, <2>6, <2>9, <2>10, <3>2, <4>1, <4>2 DEF LooksOn, Steady
    <3> QED
      BY <3>1, <3>2
  <2>12. HashesHold'
    <3>1. DOMAIN hashes' \subseteq Assets
      BY <2>3, <2>8 DEF AssetsInv, HashesHold
    <3> QED
      BY <2>6, <2>8, <2>9, <2>11, <3>1 DEF HashesHold
  <2>13. quiet = TRUE /\ Genuine => faults' = {} /\ Behind' \subseteq DOMAIN hashes'
    BY <1>1, <2>1, <2>6, <2>8, InHand DEF n
  <2> QED
    BY <1>1, <2>4, <2>5, <2>12, <2>13, LookKeeps
<1> QED
  BY <1>3, <1>4

\* One more look at an asset that was hashed finds it gone or undecodable,
\* finds its flaws and goes on to the next asset, or goes on to ask for more.
LEMMA InspectFails ==
    ASSUME AssetsInv, apc \in Inspecting, LooksOn, hashes' = hashes, Onward, faults' # {}, ~Decodes(Current)
    PROVE  AssetsInv'
<1>1. apc \in Looking
  BY DEF Looking, Inspecting
<1>2. AssetTypes' /\ apc' \in Looking \cup {"receipt"} /\ apc' \notin Inspecting
  BY <1>1, LookTypes, OnwardMoves DEF Looking, Inspecting
<1>3. HashesHold'
  BY <1>1, <1>2, HashesStay
<1>4. ~(quiet = TRUE /\ Genuine)
  BY <1>1, InHand
<1> QED
  BY <1>1, <1>2, <1>3, <1>4, LookKeeps

LEMMA HashedInHand ==
    ASSUME AssetsInv, apc \in Inspecting
    PROVE  /\ Current \in DOMAIN hashes /\ Current \in Assets /\ IsContent(Current, hashes[Current])
           /\ Current \notin late => Current \in DOMAIN files /\ files[Current] = hashes[Current]
           /\ faults = {} /\ Current \notin late => hashes[Current].flaws \subseteq ToAsk
           /\ \A n \in DOMAIN hashes : faults = {} /\ n \notin late /\ n # Current => hashes[n].flaws \subseteq {}
PROOF BY DEF AssetsInv, HashesHold

LEMMA InspectEnds ==
    ASSUME AssetsInv, apc \in Inspecting, LooksOn, hashes' = hashes, Onward,
           faults' = faults \cup (files[Current].flaws \cap ToAsk)
    PROVE  AssetsInv'
<1>1. apc \in Looking
  BY DEF Looking, Inspecting
<1>2. AssetTypes' /\ apc' \in Looking \cup {"receipt"} /\ apc' \notin Inspecting
  BY <1>1, LookTypes, OnwardMoves DEF Looking, Inspecting
<1>3. \A n \in DOMAIN hashes : faults' = {} /\ n \notin late => hashes[n].flaws \subseteq {}
  BY HashedInHand
<1>4. HashesHold'
  BY <1>1, <1>2, <1>3, HashesStay
<1>5. quiet = TRUE /\ Genuine => faults' = {} /\ Behind' \subseteq DOMAIN hashes'
  BY <1>1, InHand, HashedInHand, OnwardMoves
<1> QED
  BY <1>1, <1>2, <1>4, <1>5, LookKeeps

LEMMA InspectGoesOn ==
    ASSUME AssetsInv, apc \in Inspecting, LooksOn, hashes' = hashes, place' = place, part' = part,
           NEW found, faults' = faults \cup found, found \subseteq files[Current].flaws,
           apc' \in {"header", "metadata"}, part = "archive",
           apc' = "header" => Expected[place].format = "tar.gz",
           faults' = {} /\ Current \notin late => hashes[Current].flaws \subseteq ToAsk'
    PROVE  AssetsInv'
<1>1. apc \in Looking /\ apc' \in Looking /\ apc' \in Inspecting /\ apc' # "format"
  BY DEF Looking, Inspecting
<1>2. AssetTypes'
  BY <1>1, LookTypes
<1>3. Current' = Current /\ Behind' = Behind
  BY <1>1, StayMoves
<1>4. \A n \in DOMAIN hashes : faults' = {} /\ n \notin late =>
          hashes[n].flaws \subseteq (IF apc' \in Inspecting /\ n = Current' THEN ToAsk' ELSE {})
  BY <1>1, <1>3, HashedInHand
<1>5. HashesHold'
  BY <1>1, <1>3, <1>4, HashesStay, HashedInHand
<1>6. quiet = TRUE /\ Genuine => faults' = {} /\ Behind' \subseteq DOMAIN hashes'
  BY <1>1, <1>3, InHand
<1> QED
  BY <1>1, <1>2, <1>5, <1>6, LookKeeps

LEMMA ReadMembersKeeps == AssetsInv /\ ReadMembers => AssetsInv'
<1> SUFFICES ASSUME AssetsInv, ReadMembers PROVE AssetsInv'
  OBVIOUS
<1> DEFINE n == Current
<1>1. /\ apc = "members" /\ apc \in Inspecting /\ apc \in Looking /\ LooksOn /\ hashes' = hashes
  BY DEF ReadMembers, Inspect, LooksOn, Steady, Looking, Inspecting
<1>2. CASE ~Decodes(n)
  BY <1>1, <1>2, InspectFails DEF ReadMembers, Inspect
<1>3. CASE Decodes(n)
  <2>1. /\ faults' = faults \cup (files[n].flaws \cap {"members"}) /\ place' = place /\ part' = part
        /\ apc' = IF n.of.format = "zip" THEN "metadata" ELSE "header"
    BY <1>3 DEF ReadMembers, Inspect, Stay, ArchiveMembers
  <2>2. /\ n \in Assets /\ n.kind = part /\ n.of = Expected[place] /\ place \in 1..Len(Expected)
    BY <1>1, InHand
  <2>3. part = "archive"
    BY <1>1 DEF AssetsInv, AssetTypes
  <2>4. n.of.format \in {"tar.gz", "zip"}
    BY <2>2, PairsTyped
  <2>5. "garbled" \notin files[n].flaws
    BY <1>3 DEF Decodes
  <2>6. ASSUME faults' = {}, n \notin late
        PROVE  hashes[n].flaws \subseteq ToAsk'
    <3>1. faults = {} /\ "members" \notin files[n].flaws
      BY <2>1, <2>6
    <3>2. /\ files[n] = hashes[n] /\ hashes[n].flaws \subseteq ToAsk
          /\ hashes[n].flaws \subseteq AssetFlaws(n)
      BY <1>1, <2>6, <3>1, HashedInHand DEF IsContent
    <3>3. hashes[n].flaws \subseteq {"header", "metadata"}
      BY <1>1, <2>5, <3>1, <3>2 DEF ToAsk
    <3>4. CASE n.of.format = "zip"
      <4>1. "header" \notin hashes[n].flaws
        BY <2>2, <2>3, <3>2, <3>4, FlawsOfAssets
      <4>2. ToAsk' = {"metadata"}
        BY <2>1, <3>4 DEF ToAsk
      <4> QED
        BY <3>3, <4>1, <4>2
    <3>5. CASE n.of.format = "tar.gz"
      <4>1. ToAsk' = {"header", "metadata"}
        BY <2>1, <3>5 DEF ToAsk
      <4> QED
        BY <3>3, <4>1
    <3> QED
      BY <2>4, <3>4, <3>5
  <2>7. apc' \in {"header", "metadata"} /\ (apc' = "header" => Expected[place].format = "tar.gz")
    BY <2>1, <2>2, <2>4
  <2> QED
    BY <1>1, <2>1, <2>3, <2>6, <2>7, InspectGoesOn
<1> QED
  BY <1>2, <1>3

LEMMA ReadHeaderKeeps == AssetsInv /\ ReadHeader => AssetsInv'
<1> SUFFICES ASSUME AssetsInv, ReadHeader PROVE AssetsInv'
  OBVIOUS
<1> DEFINE n == Current
<1>1. /\ apc = "header" /\ apc \in Inspecting /\ LooksOn /\ hashes' = hashes
  BY DEF ReadHeader, Inspect, LooksOn, Steady, Inspecting
<1>2. CASE ~Decodes(n)
  BY <1>1, <1>2, InspectFails DEF ReadHeader, Inspect
<1>3. CASE Decodes(n)
  <2>1. /\ faults' = faults \cup (files[n].flaws \cap {"header"}) /\ place' = place /\ part' = part
        /\ apc' = "metadata"
    BY <1>3 DEF ReadHeader, Inspect, Stay, GzipHeader
  <2>2. part = "archive"
    BY <1>1 DEF AssetsInv, AssetTypes
  <2>3. ASSUME faults' = {}, n \notin late
        PROVE  hashes[n].flaws \subseteq ToAsk'
    <3>1. faults = {} /\ "header" \notin files[n].flaws
      BY <2>1, <2>3
    <3>2. files[n] = hashes[n] /\ hashes[n].flaws \subseteq ToAsk
      BY <1>1, <2>3, <3>1, HashedInHand
    <3>3. ToAsk = {"header", "metadata"} /\ ToAsk' = {"metadata"}
      BY <1>1, <2>1 DEF ToAsk
    <3> QED
      BY <3>1, <3>2, <3>3
  <2> QED
    BY <1>1, <2>1, <2>2, <2>3, InspectGoesOn
<1> QED
  BY <1>2, <1>3

LEMMA ReadMetadataKeeps == AssetsInv /\ ReadMetadata => AssetsInv'
<1> SUFFICES ASSUME AssetsInv, ReadMetadata PROVE AssetsInv'
  OBVIOUS
<1>1. /\ apc = "metadata" /\ apc \in Inspecting /\ LooksOn /\ hashes' = hashes
  BY DEF ReadMetadata, Inspect, LooksOn, Steady, Inspecting
<1>2. CASE ~Decodes(Current)
  BY <1>1, <1>2, InspectFails DEF ReadMetadata, Inspect
<1>3. CASE Decodes(Current)
  <2>1. faults' = faults \cup (files[Current].flaws \cap {"metadata"}) /\ Onward
    BY <1>3 DEF ReadMetadata, Inspect, MemberMetadata
  <2>2. ToAsk = {"metadata"}
    BY <1>1 DEF ToAsk
  <2> QED
    BY <1>1, <2>1, <2>2, InspectEnds
<1> QED
  BY <1>2, <1>3

LEMMA ReadSbomKeeps == AssetsInv /\ ReadSbom => AssetsInv'
<1> SUFFICES ASSUME AssetsInv, ReadSbom PROVE AssetsInv'
  OBVIOUS
<1>1. /\ apc = "format" /\ apc \in Inspecting /\ LooksOn /\ hashes' = hashes
  BY DEF ReadSbom, Inspect, LooksOn, Steady, Inspecting
<1>2. CASE ~Decodes(Current)
  BY <1>1, <1>2, InspectFails DEF ReadSbom, Inspect
<1>3. CASE Decodes(Current)
  <2>1. faults' = faults \cup (files[Current].flaws \cap {"format"}) /\ Onward
    BY <1>3 DEF ReadSbom, Inspect, SbomFormat
  <2>2. ToAsk = {"garbled", "format"} /\ "garbled" \notin files[Current].flaws
    BY <1>1, <1>3 DEF ToAsk, Decodes
  <2>3. files[Current].flaws \cap {"format"} = files[Current].flaws \cap ToAsk
    BY <2>2
  <2> QED
    BY <1>1, <2>1, <2>3, InspectEnds
<1> QED
  BY <1>2, <1>3

-----------------------------------------------------------------------------
(* The receipt.                                                            *)

\* Every asset lies behind the end of the list.
LEMMA AllBehind ==
    ASSUME apc = "receipt"
    PROVE  Behind = Assets
<1>1. \A i, k : Before(i, k)
  BY DEF Before
<1>2. {j \in DOMAIN Expected : Before(j, "archive")} = DOMAIN Expected
      /\ {j \in DOMAIN Expected : Before(j, "sbom")} = DOMAIN Expected
  BY <1>1
<1> QED
  BY <1>2 DEF Behind, Assets, Pairs

\* A receipt that the contract accepts lists every asset.
LEMMA AcceptedListsAll ==
    ASSUME ContractFaults(Receipt) = {}
    PROVE  Assets \subseteq DOMAIN hashes
<1> DEFINE A == {e \in Pairs : Archive(e) \in DOMAIN hashes}
           S == {e \in Pairs : Sbom(e) \in DOMAIN hashes}
<1>1. Receipt.archives = A /\ Receipt.sboms = S
  BY DEF Receipt
<1>2. ContractArchives(Receipt) = {} /\ ContractSboms(Receipt) = {}
  BY DEF ContractFaults
<1>3. A = Pairs /\ S = Pairs
  BY <1>1, <1>2 DEF ContractArchives, ContractSboms, Fault
<1> QED
  BY <1>3 DEF Assets

\* The contract accepts the receipt of a genuine release.
LEMMA GenuineAccepted ==
    ASSUME AssetTypes, Genuine, faults = {}, covered = TRUE, Assets \subseteq DOMAIN hashes
    PROVE  ContractFaults(Receipt) = {}
<1>1. /\ opts.release_url = "tag" /\ opts.immutable = TRUE /\ opts.provenance = TRUE /\ opts.sboms = TRUE
  BY GenuineDirectory DEF Proper
<1>2. IsFile(Sums) /\ IsFile(Manifest)
  BY GenuineReads DEF Opens
<1>3. /\ Receipt.status = "ok" /\ Receipt.release_url = "tag"
  BY <1>1 DEF Receipt, SafeUrl
<1>4. Receipt.archives = Pairs /\ Receipt.sboms = Pairs
  BY DEF Receipt, Assets
<1>5. Receipt.immutable = TRUE /\ Receipt.attested = TRUE
  BY <1>1 DEF Receipt
<1>6. Receipt.checksums = TRUE /\ Receipt.manifest = TRUE
  BY <1>2 DEF Receipt
<1> DEFINE r == Receipt
<1> HIDE DEF r
<1> QED
  BY <1>3, <1>4, <1>5, <1>6 DEF ContractFaults, ContractUrl, ContractArchives, ContractSboms, Fault

LEMMA IssueReceiptKeeps == AssetsInv /\ IssueReceipt => AssetsInv'
<1> SUFFICES ASSUME AssetsInv, IssueReceipt PROVE AssetsInv'
  OBVIOUS
<1>1. /\ apc = "receipt" /\ apc' = "done" /\ Steady /\ place' = place /\ part' = part /\ sums' = sums
      /\ manifest' = manifest /\ covered' = covered /\ hashes' = hashes
      /\ faults' = (IF faults = {} THEN ContractFaults(Receipt) ELSE faults)
      /\ exitCode' = <<IF faults' = {} THEN 0 ELSE 3>>
  BY DEF IssueReceipt, Ended, Steady
<1>2. /\ exitCode' # <<>> /\ (exitCode' = <<0>> <=> faults' = {})
  BY <1>1
<1>3. /\ AssetTypes /\ HashesHold /\ ManifestThere /\ apc \notin Inspecting
      /\ apc' \notin Inspecting /\ apc' \notin Looking
  BY <1>1 DEF AssetsInv, Inspecting, Looking
<1>4. AssetTypes'
  BY <1>1, <1>2, <1>3 DEF AssetTypes, Steady
<1>5. faults' = {} => faults = {} /\ ContractFaults(Receipt) = {}
  BY <1>1
<1>6. \A n, h : ManifestEntry(n, h)' = ManifestEntry(n, h)
  BY <1>1 DEF ManifestEntry
<1>7. HashesHold'
  BY <1>1, <1>3, <1>5, <1>6 DEF HashesHold, Steady
<1>8. exitCode' = <<0>> => faults' = {} /\ manifest' # <<>> /\ Assets \subseteq DOMAIN hashes'
  BY <1>1, <1>2, <1>3, <1>5, AcceptedListsAll DEF ManifestThere
<1>9. ASSUME quiet' = TRUE
      PROVE  exitCode' = <<0>> <=> (isDir' = TRUE /\ Genuine')
  <2>1. /\ quiet = TRUE /\ isDir' = isDir /\ (Genuine' <=> Genuine)
    BY <1>1, <1>9, ReadingsStay DEF Steady
  <2>2. /\ isDir = TRUE /\ late = {} /\ opts.input = "valid" /\ sums = ChecksumEntries
        /\ manifest = ReadJson(Manifest)
        /\ faults = {} => /\ OptionFaults(opts) = {} /\ Inventory = {} /\ ChecksumFaults = {}
                          /\ VerifiedHash(Manifest) # {} /\ ManifestMetadata(opts) = {}
    BY <1>1, <2>1 DEF AssetsInv, ReadsHold
  <2>3. ASSUME exitCode' = << 0 >>
        PROVE  Genuine
    <3>1. faults = {} /\ manifest # <<>> /\ Assets \subseteq DOMAIN hashes
      BY <1>1, <1>2, <1>5, <1>8, <2>3
    <3>2. \A n \in Assets : /\ n \in DOMAIN files /\ IsContent(n, files[n]) /\ files[n].flaws = {}
                            /\ n \in DOMAIN sums /\ sums[n] = files[n]
                            /\ ManifestEntry(n, files[n]) = {}
      BY <1>3, <2>2, <3>1 DEF HashesHold
    <3> QED
      BY <1>3, <2>2, <3>1, <3>2, LetThroughIsGenuine
  <2>4. ASSUME Genuine
        PROVE  exitCode' = <<0>>
    <3>1. faults = {} /\ covered = TRUE /\ Assets \subseteq DOMAIN hashes
      BY <1>1, <2>1, <2>4, AllBehind DEF AssetsInv, GenuineHolds
    <3>2. ContractFaults(Receipt) = {}
      BY <1>3, <2>4, <3>1, GenuineAccepted
    <3> QED
      BY <1>1, <1>2, <3>1, <3>2
  <2> QED
    BY <2>1, <2>2, <2>3, <2>4
<1>10. VerdictHolds'
  <2>1. quiet' \in BOOLEAN /\ isDir' \in BOOLEAN
    BY <1>4 DEF AssetTypes
  <2>2. QuietVerdict'
    BY <1>9, <2>1, Zenon DEF QuietVerdict
  <2> QED
    BY <1>8, <2>2 DEF VerdictHolds
<1> QED
  BY <1>1, <1>3, <1>4, <1>7, <1>10
     DEF AssetsInv, QuietStart, StartsAtFirst, ManifestThere, ReadsHold, GenuineHolds

LEMMA AssetsStutter == AssetsInv /\ UNCHANGED assetVars => AssetsInv'
<1> SUFFICES ASSUME AssetsInv, UNCHANGED assetVars PROVE AssetsInv'
  OBVIOUS
<1>1. /\ Steady /\ apc' = apc /\ place' = place /\ part' = part /\ sums' = sums /\ manifest' = manifest
      /\ covered' = covered /\ hashes' = hashes /\ faults' = faults /\ exitCode' = exitCode
  BY DEF assetVars, Steady
<1>2. AssetTypes'
  BY <1>1 DEF AssetsInv, AssetTypes, Steady
<1>3. /\ Current' = Current /\ ToAsk' = ToAsk /\ Behind' = Behind
      /\ VerifiedHash(Manifest)' = VerifiedHash(Manifest) /\ ManifestMetadata(opts)' = ManifestMetadata(opts)
  BY <1>1 DEF Current, ToAsk, Behind, Before, VerifiedHash, Opens, IsFile, ManifestMetadata, Steady
<1>4. \A n, h : ManifestEntry(n, h)' = ManifestEntry(n, h)
  BY <1>1 DEF ManifestEntry
<1>5. HashesHold'
  BY <1>1, <1>3, <1>4 DEF AssetsInv, HashesHold, Steady
<1>6. /\ Inventory' = Inventory /\ OptionFaults(opts)' = OptionFaults(opts) /\ (Genuine' <=> Genuine)
      /\ ChecksumEntries' = ChecksumEntries /\ ChecksumFaults' = ChecksumFaults
      /\ ReadJson(Manifest)' = ReadJson(Manifest)
  BY <1>1, ReadingsStay DEF Steady
<1>7. ReadsHold' /\ GenuineHolds'
  BY <1>1, <1>3, <1>6 DEF AssetsInv, ReadsHold, GenuineHolds, Steady
<1>8. VerdictHolds'
  BY <1>1, <1>6, Zenon DEF AssetsInv, VerdictHolds, QuietVerdict, Steady
<1> QED
  BY <1>1, <1>2, <1>5, <1>7, <1>8 DEF AssetsInv, QuietStart, StartsAtFirst, ManifestThere, Steady

LEMMA JudgedFromInv == AssetsInv => AssetsJudged
<1> SUFFICES ASSUME AssetsInv PROVE AssetsJudged
  OBVIOUS
<1>1. QuietVerdict
  BY Zenon DEF AssetsInv, AssetTypes, VerdictHolds, QuietVerdict
<1>2. ASSUME exitCode = << 0 >>
      PROVE  /\ DOMAIN hashes = Assets
             /\ \A n \in Assets :
                  /\ n \in DOMAIN sums /\ hashes[n] = sums[n]
                  /\ manifest # <<>> /\ manifest[1].entries[n].hash = hashes[n]
                  /\ n \notin late => hashes[n].flaws = {}
  <2>1. apc = "done" /\ apc \notin Inspecting
    BY <1>2 DEF AssetsInv, AssetTypes, Inspecting
  <2>2. faults = {} /\ manifest # <<>> /\ Assets \subseteq DOMAIN hashes /\ HashesHold
    BY <1>2, <2>1 DEF AssetsInv, VerdictHolds
  <2>3. DOMAIN hashes = Assets
    BY <2>2 DEF HashesHold
  <2>4. ASSUME NEW n \in Assets
        PROVE  manifest[1].entries[n].hash = hashes[n]
    <3>1. ManifestEntry(n, hashes[n]) = {}
      BY <2>2, <2>3 DEF HashesHold
    <3>2. ManifestAsset(n, manifest[1].entries[n], hashes[n]) = {}
      BY <2>2, <3>1 DEF ManifestEntry
    <3> QED
      BY <3>2 DEF ManifestAsset, Fault
  <2> QED
    BY <2>1, <2>2, <2>3, <2>4 DEF HashesHold
<1> QED
  BY <1>1, <1>2 DEF AssetsJudged, ReceiptHolds

\* run_release_assets and release_assets_verification_report: for every list
\* of expected assets, and however many writes race with the verifier, a
\* receipt that says ok lists every asset under the hash that SHA256SUMS.txt
\* and the manifest give for it and without a flaw unless it was written
\* after it was hashed; and while nobody writes, exactly the directories pass
\* that hold a genuine release, whatever directories, links and further
\* checksum lines are beside it, so the evidence contract refuses nothing that
\* the verifier let through.
THEOREM AssetsAreJudged == AssetsSpec => []AssetsJudged
<1>1. AssetsInv /\ [AssetsNext]_assetVars => AssetsInv'
  BY RunVerifyKeeps, ReadInventoryKeeps, ReadChecksumsKeeps, ReadManifestKeeps, HashManifestKeeps,
     FindAssetKeeps, HashAssetKeeps, ReadMembersKeeps, ReadHeaderKeeps, ReadMetadataKeeps, ReadSbomKeeps,
     IssueReceiptKeeps, PublisherKeeps, AssetsStutter, Zenon DEF AssetsNext, Verifier
<1> QED
  BY <1>1, AssetsStart, JudgedFromInv, PTL DEF AssetsSpec

-----------------------------------------------------------------------------
(* ScimSmoke: the walk cleans up.                                          *)

SmokeInputs == [base : {"https", "http", "bad"}, primary : {"unset", "current", "retired"},
                secondary : {"unset", "current", "next", "retired"},
                rejected : {"unset", "current", "next", "retired"}]

\* The group that the client knows of when step k comes next.
GroupKnown(k) == IF k \in 14..19 THEN "group" ELSE IF k = 21 THEN "bulk_group" ELSE "none"

\* A token that is not configured has its step and no check.
Asked(i) == (i = 1 => inputs.secondary # "unset") /\ (i = 2 => inputs.rejected # "unset")

Asking == {i \in 1..26 : i < at /\ Asked(i)}

SmokeTypes ==
    /\ inputs \in SmokeInputs
    /\ users \in [SmokeUsers -> {"absent", "active", "inactive"}] /\ groups \subseteq SmokeGroups
    /\ at \in 0..27 /\ removals \in Seq(SmokeUsers \cup SmokeGroups)
    /\ createdUsers \in Seq(SmokeUsers) /\ createdGroup \in SmokeGroups \cup {"none"}
    /\ result \in {"none", "cleaning", "ok", "failed", "rejected"}

SmokePassed == passed = {Walk[i].check : i \in Asking} \ {"none"}

\* While the walk goes on, the client knows what it made.
Knows ==
    result = "none" =>
        /\ at \in 0..26 /\ createdGroup = GroupKnown(at)
        /\ groups \subseteq {createdGroup}
        /\ \A u \in SmokeUsers : users[u] = "active" => u \in IdsIn(createdUsers)
        /\ at > 24 => users["one"] = "inactive"
        /\ at > 25 => users["two"] = "inactive"

\* The cleanup has yet to remove what is left and not excused.
Removes ==
    /\ result = "cleaning" => removals # <<>> /\ Left \subseteq blamed \cup IdsIn(removals)
    /\ result = "failed" => Left \subseteq blamed

Completes == result = "ok" => at = 27 /\ Left = {}

SmokeInv == SmokeTypes /\ SmokePassed /\ Knows /\ Removes /\ Completes

-----------------------------------------------------------------------------
(* The steps of the walk.                                                  *)

LEMMA WalkSteps ==
    /\ Len(Walk) = 26
    /\ Walk[1] = Step("secondary", "none", "secondary_token")
    /\ Walk[2] = Step("rejected", "none", "rejected_token")
    /\ Walk[3] = Step("read", "none", "service_provider_config")
    /\ Walk[4] = Step("read", "none", "schemas")
    /\ Walk[5] = Step("read", "none", "resource_types")
    /\ Walk[6] = Step("create", "one", "user_create")
    /\ Walk[7] = Step("create", "two", "user_create")
    /\ Walk[8] = Step("read", "one", "user_filter")
    /\ Walk[9] = Step("read", "one", "user_search_request")
    /\ Walk[10] = Step("read", "one", "user_projection")
    /\ Walk[11] = Step("change", "one", "user_patch")
    /\ Walk[12] = Step("change", "one", "user_replace")
    /\ Walk[13] = Step("create", "group", "group_create")
    /\ Walk[14] = Step("read", "group", "group_filter")
    /\ Walk[15] = Step("read", "group", "group_search_request")
    /\ Walk[16] = Step("read", "group", "group_projection")
    /\ Walk[17] = Step("change", "group", "group_patch")
    /\ Walk[18] = Step("change", "group", "group_replace")
    /\ Walk[19] = Step("delete", "group", "group_delete")
    /\ Walk[20] = Step("bulk_create", "none", "none")
    /\ Walk[21] = Step("bulk_clean", "none", "bulk_mutations")
    /\ Walk[22] = Step("delete", "one", "user_delete")
    /\ Walk[23] = Step("delete", "two", "user_delete")
    /\ Walk[24] = Step("gone", "one", "user_soft_delete")
    /\ Walk[25] = Step("gone", "two", "user_soft_delete")
    /\ Walk[26] = Step("gone", "bulk_user", "user_soft_delete")
PROOF BY SMTT(60) DEF Walk, TokenSteps, MetadataSteps, CreateUsers, UserSteps, CreateGroup, GroupSteps,
         DeleteGroup, BulkSteps, DeleteUsers, SoftDeleted

\* Where in the walk a kind of step comes, and what it is about.
LEMMA StepPlaces ==
    ASSUME NEW k \in 1..26
    PROVE  /\ Walk[k].what = "secondary" => k = 1
           /\ Walk[k].what = "rejected" => k = 2
           /\ Walk[k].what = "read" => k \in (3..5) \cup (8..10) \cup (14..16)
           /\ Walk[k].what = "change" => k \in (11..12) \cup (17..18)
           /\ Walk[k].what = "create" => \/ k = 6 /\ Walk[k].on = "one"
                                         \/ k = 7 /\ Walk[k].on = "two"
                                         \/ k = 13 /\ Walk[k].on = "group"
           /\ Walk[k].what = "delete" => \/ k = 19 /\ Walk[k].on = "group"
                                         \/ k = 22 /\ Walk[k].on = "one"
                                         \/ k = 23 /\ Walk[k].on = "two"
           /\ Walk[k].what = "bulk_create" => k = 20
           /\ Walk[k].what = "bulk_clean" => k = 21
           /\ Walk[k].what = "gone" => \/ k = 24 /\ Walk[k].on = "one"
                                       \/ k = 25 /\ Walk[k].on = "two"
                                       \/ k = 26 /\ Walk[k].on = "bulk_user"
PROOF BY WalkSteps, SMTT(60) DEF Step

-----------------------------------------------------------------------------
(* Sequences of identifiers.                                               *)

LEMMA IdsOfAppend ==
    ASSUME NEW S, NEW s \in Seq(S), NEW e \in S
    PROVE  Append(s, e) \in Seq(S) /\ IdsIn(Append(s, e)) = IdsIn(s) \cup {e}
<1> DEFINE t == Append(s, e)
<1>1. t \in Seq(S) /\ Len(t) = Len(s) + 1 /\ t[Len(s) + 1] = e /\ \A i \in 1..Len(s) : t[i] = s[i]
  BY AppendProperties
<1>2. DOMAIN s = 1..Len(s) /\ DOMAIN t = 1..(Len(s) + 1) /\ Len(s) \in Nat
  BY <1>1
<1> HIDE DEF t
<1>3. IdsIn(t) \subseteq IdsIn(s) \cup {e}
  BY <1>1, <1>2 DEF IdsIn
<1>4. IdsIn(s) \subseteq IdsIn(t) /\ e \in IdsIn(t)
  BY <1>1, <1>2 DEF IdsIn
<1> QED
  BY <1>1, <1>3, <1>4 DEF t

LEMMA IdsOfConcat ==
    ASSUME NEW S, NEW s \in Seq(S), NEW t \in Seq(S)
    PROVE  s \o t \in Seq(S) /\ IdsIn(s \o t) = IdsIn(s) \cup IdsIn(t)
<1>1. s \o t \in Seq(S) /\ Len(s \o t) = Len(s) + Len(t)
  OBVIOUS
<1>2. IdsIn(s \o t) \subseteq IdsIn(s) \cup IdsIn(t)
  BY <1>1 DEF IdsIn
<1>3. IdsIn(s) \subseteq IdsIn(s \o t)
  BY <1>1 DEF IdsIn
<1>4. ASSUME NEW i \in DOMAIN t
      PROVE  t[i] \in IdsIn(s \o t)
  <2>1. Len(s) + i \in DOMAIN (s \o t) /\ (s \o t)[Len(s) + i] = t[i]
    BY <1>1
  <2> QED
    BY <2>1 DEF IdsIn
<1> QED
  BY <1>1, <1>2, <1>3, <1>4 DEF IdsIn

LEMMA IdsOfTail ==
    ASSUME NEW S, NEW s \in Seq(S), s # <<>>
    PROVE  /\ Head(s) \in S /\ Tail(s) \in Seq(S)
           /\ IdsIn(s) \subseteq {Head(s)} \cup IdsIn(Tail(s))
           /\ Len(s) = 1 => IdsIn(Tail(s)) = {}
           /\ Len(s) # 1 => Tail(s) # <<>>
<1> DEFINE t == Tail(s)
<1>1. /\ Head(s) \in S /\ t \in Seq(S) /\ Len(t) = Len(s) - 1 /\ Len(s) \in Nat \ {0}
      /\ \A i \in 1..Len(t) : t[i] = s[i + 1]
      /\ Head(s) = s[1]
  BY HeadTailProperties, EmptySeq
<1>2. DOMAIN s = 1..Len(s) /\ DOMAIN t = 1..Len(t)
  BY <1>1
<1> HIDE DEF t
<1>3. ASSUME NEW i \in DOMAIN s, i # 1
      PROVE  i - 1 \in DOMAIN t /\ t[i - 1] = s[i]
  <2>1. i - 1 \in 1..Len(t) /\ (i - 1) + 1 = i
    BY <1>1, <1>2, <1>3
  <2> QED
    BY <1>1, <1>2, <2>1
<1>4. IdsIn(s) \subseteq {Head(s)} \cup IdsIn(t)
  <2>1. ASSUME NEW i \in DOMAIN s
        PROVE  s[i] = Head(s) \/ s[i] \in IdsIn(t)
    <3>1. CASE i = 1
      BY <3>1, <1>1
    <3>2. CASE i # 1
      BY <3>2, <1>3 DEF IdsIn
    <3> QED
      BY <3>1, <3>2
  <2> QED
    BY <2>1 DEF IdsIn
<1>5. Len(s) = 1 => IdsIn(t) = {}
  BY <1>1, <1>2 DEF IdsIn
<1>6. Len(s) # 1 => t # <<>>
  BY <1>1
<1> QED
  BY <1>1, <1>4, <1>5, <1>6 DEF t

-----------------------------------------------------------------------------
(* A step that goes well, and one that does not.                           *)

\* Advance and Pass keep the account of the checks.
LEMMA AdvanceKeepsPassed ==
    ASSUME SmokePassed, at \in 1..26, at' = at + 1, inputs' = inputs,
           \/ Asked(at) /\ Pass(Walk[at].check)
           \/ ~Asked(at) /\ passed' = passed
    PROVE  SmokePassed'
<1>1. Asking' = Asking \cup (IF Asked(at) THEN {at} ELSE {})
  BY DEF Asking, Asked
<1> QED
  BY <1>1 DEF SmokePassed, Pass

\* What is left after a failure is excused or known to the client, and what
\* is known is removed.
LEMMA CleanUpRemovesAll ==
    ASSUME createdUsers' \in Seq(SmokeUsers), createdGroup' \in SmokeGroups \cup {"none"},
           CleanUp(createdUsers', createdGroup'),
           Left' \subseteq blamed' \cup IdsIn(createdUsers') \cup {createdGroup'},
           Left' \subseteq SmokeUsers \cup SmokeGroups
    PROVE  /\ removals' \in Seq(SmokeUsers \cup SmokeGroups)
           /\ result' \in {"cleaning", "failed"}
           /\ Removes'
<1> DEFINE R == SmokeUsers \cup SmokeGroups
           first == IF createdGroup' = "none" THEN <<>> ELSE <<createdGroup'>>
<1>1. "none" \notin R
  BY DEF SmokeUsers, SmokeGroups
<1>2. first \in Seq(R) /\ IdsIn(first) = {createdGroup'} \ {"none"}
  <2>1. CASE createdGroup' = "none"
    BY <2>1 DEF IdsIn
  <2>2. CASE createdGroup' # "none"
    <3>1. first = <<createdGroup'>> /\ createdGroup' \in R
      BY <2>2
    <3>2. DOMAIN <<createdGroup'>> = {1} /\ <<createdGroup'>>[1] = createdGroup'
      OBVIOUS
    <3> QED
      BY <2>2, <3>1, <3>2 DEF IdsIn
  <2> QED
    BY <2>1, <2>2
<1>3. createdUsers' \in Seq(R)
  OBVIOUS
<1>4. removals' = first \o createdUsers'
  BY DEF CleanUp
<1> HIDE DEF first, R
<1>5. removals' \in Seq(R) /\ IdsIn(removals') = IdsIn(first) \cup IdsIn(createdUsers')
  BY <1>2, <1>3, <1>4, IdsOfConcat
<1>6. Left' \subseteq blamed' \cup IdsIn(removals')
  BY <1>1, <1>2, <1>5 DEF R
<1>7. removals' = <<>> => IdsIn(removals') = {}
  BY DEF IdsIn
<1>8. result' = (IF removals' = <<>> THEN "failed" ELSE "cleaning")
  BY DEF CleanUp
<1> QED
  BY <1>5, <1>6, <1>7, <1>8 DEF Removes, R, IdsIn

\* The same when the client's own account stands.
LEMMA FailKeepsInv ==
    ASSUME SmokeInv, result = "none", Fail, inputs' = inputs,
           users' \in [SmokeUsers -> {"absent", "active", "inactive"}], groups' \subseteq SmokeGroups,
           blamed \subseteq blamed', Left' \subseteq Left \cup blamed'
    PROVE  SmokeInv'
<1>1. createdUsers' = createdUsers /\ createdGroup' = createdGroup /\ passed' = passed /\ at' = at
  BY DEF Fail, CleanUp
<1>2. Left \subseteq IdsIn(createdUsers) \cup {createdGroup}
  BY DEF SmokeInv, Knows, Left
<1>3. Left' \subseteq SmokeUsers \cup SmokeGroups
  BY DEF Left
<1>4. CleanUp(createdUsers', createdGroup')
  BY <1>1 DEF Fail
<1>5. createdUsers' \in Seq(SmokeUsers) /\ createdGroup' \in SmokeGroups \cup {"none"}
  BY <1>1 DEF SmokeInv, SmokeTypes
<1>6. removals' \in Seq(SmokeUsers \cup SmokeGroups) /\ result' \in {"cleaning", "failed"} /\ Removes'
  BY <1>1, <1>2, <1>3, <1>4, <1>5, CleanUpRemovesAll
<1>7. SmokeTypes'
  BY <1>1, <1>6 DEF SmokeInv, SmokeTypes
<1>8. SmokePassed'
  BY <1>1 DEF SmokeInv, SmokePassed, Asking, Asked
<1> QED
  BY <1>6, <1>7, <1>8 DEF SmokeInv, Knows, Completes

-----------------------------------------------------------------------------
(* The actions.                                                            *)

LEMMA SmokeStarts == SmokeInit => SmokeInv
<1> SUFFICES ASSUME SmokeInit PROVE SmokeInv
  OBVIOUS
<1>1. SmokeTypes
  BY DEF SmokeInit, SmokeTypes, SmokeInputs, SmokeGroups
<1>2. SmokePassed
  BY DEF SmokeInit, SmokePassed, Asking
<1> QED
  BY <1>1, <1>2 DEF SmokeInit, SmokeInv, Knows, GroupKnown, Removes, Completes

LEMMA StartKeeps == SmokeInv /\ Start => SmokeInv'
<1> SUFFICES ASSUME SmokeInv, Start PROVE SmokeInv'
  OBVIOUS
<1> USE DEF SmokeInv, Start, serverVars
<1>1. SmokeTypes'
  BY DEF SmokeTypes
<1>2. SmokePassed'
  <2>1. Asking = {} /\ Asking' = {}
    BY DEF Asking
  <2> QED
    BY <2>1 DEF SmokePassed
<1> QED
  BY <1>1, <1>2 DEF Knows, GroupKnown, Removes, Completes

\* A step that passes its check, or has none to pass, and changes nothing
\* that the client knows or the server keeps.
LEMMA QuietStep ==
    ASSUME SmokeInv, result = "none", at \in 1..26, at \notin {13, 19, 20, 21},
           Advance, inputs' = inputs, users' = users, groups' = groups, blamed' = blamed,
           createdUsers' = createdUsers, createdGroup' = createdGroup,
           \/ Asked(at) /\ Pass(Walk[at].check)
           \/ ~Asked(at) /\ passed' = passed,
           at = 24 => users["one"] = "inactive",
           at = 25 => users["two"] = "inactive",
           at = 26 => users["bulk_user"] = "inactive"
    PROVE  SmokeInv'
<1>1. at' = at + 1 /\ result' = (IF at = 26 THEN "ok" ELSE "none") /\ removals' = removals
  BY WalkSteps DEF Advance
<1>2. SmokeTypes'
  BY <1>1 DEF SmokeInv, SmokeTypes
<1>3. SmokePassed'
  BY <1>1, AdvanceKeepsPassed DEF SmokeInv
<1>4. Knows'
  BY <1>1 DEF SmokeInv, Knows, GroupKnown
<1>5. Removes'
  BY <1>1 DEF Removes
<1>6. Completes'
  <2> SUFFICES ASSUME at = 26 PROVE at' = 27 /\ Left' = {}
    BY <1>1 DEF Completes
  <2>1. groups = {}
    <3>1. groups \subseteq {"none"} /\ groups \subseteq SmokeGroups
      BY DEF SmokeInv, SmokeTypes, Knows, GroupKnown
    <3> QED
      BY <3>1 DEF SmokeGroups
  <2>2. users["one"] = "inactive" /\ users["two"] = "inactive" /\ users["bulk_user"] = "inactive"
    BY DEF SmokeInv, Knows
  <2> QED
    BY <1>1, <2>1, <2>2 DEF Left, SmokeUsers
<1> QED
  BY <1>2, <1>3, <1>4, <1>5, <1>6 DEF SmokeInv

\* Fail where nothing happens on the server.
LEMMA QuietFail ==
    ASSUME SmokeInv, result = "none", Fail, inputs' = inputs, users' = users, groups' = groups,
           blamed' = blamed
    PROVE  SmokeInv'
<1>1. Left' = Left
  BY DEF Left
<1> QED
  BY <1>1, FailKeepsInv DEF SmokeInv, SmokeTypes

LEMMA SecondaryKeeps == SmokeInv /\ CheckSecondary => SmokeInv'
<1> SUFFICES ASSUME SmokeInv, CheckSecondary PROVE SmokeInv'
  OBVIOUS
<1>1. result = "none" /\ at \in 1..26 /\ at = 1
  BY StepPlaces DEF CheckSecondary, Go, Here, SmokeInv, Knows
<1>2. inputs' = inputs /\ users' = users /\ groups' = groups /\ blamed' = blamed
  BY DEF CheckSecondary, CheckToken, serverVars
<1>3. Asked(at) <=> inputs.secondary # "unset"
  BY <1>1 DEF Asked
<1>4. \/ Fail
      \/ /\ Advance /\ createdUsers' = createdUsers /\ createdGroup' = createdGroup
         /\ \/ Asked(at) /\ Pass(Walk[at].check)
            \/ ~Asked(at) /\ passed' = passed
  BY <1>3 DEF CheckSecondary, CheckToken, Here
<1> QED
  BY <1>1, <1>2, <1>4, QuietStep, QuietFail

LEMMA RejectedKeeps == SmokeInv /\ CheckRejected => SmokeInv'
<1> SUFFICES ASSUME SmokeInv, CheckRejected PROVE SmokeInv'
  OBVIOUS
<1>1. result = "none" /\ at \in 1..26 /\ at = 2
  BY StepPlaces DEF CheckRejected, Go, Here, SmokeInv, Knows
<1>2. inputs' = inputs /\ users' = users /\ groups' = groups /\ blamed' = blamed
  BY DEF CheckRejected, CheckToken, serverVars
<1>3. Asked(at) <=> inputs.rejected # "unset"
  BY <1>1 DEF Asked
<1>4. \/ Fail
      \/ /\ Advance /\ createdUsers' = createdUsers /\ createdGroup' = createdGroup
         /\ \/ Asked(at) /\ Pass(Walk[at].check)
            \/ ~Asked(at) /\ passed' = passed
  BY <1>3 DEF CheckRejected, CheckToken, Here
<1> QED
  BY <1>1, <1>2, <1>4, QuietStep, QuietFail

LEMMA ReadOrChangeKeeps == SmokeInv /\ ReadOrChange => SmokeInv'
<1> SUFFICES ASSUME SmokeInv, ReadOrChange PROVE SmokeInv'
  OBVIOUS
<1>1. result = "none" /\ at \in 1..26 /\ at \notin {1, 2, 13, 19, 20, 21, 24, 25, 26}
  BY StepPlaces DEF ReadOrChange, Go, Here, SmokeInv, Knows
<1>2. inputs' = inputs /\ users' = users /\ groups' = groups /\ blamed' = blamed
  BY DEF ReadOrChange, serverVars
<1>3. Asked(at)
  BY <1>1 DEF Asked
<1>4. \/ Fail
      \/ /\ Advance /\ createdUsers' = createdUsers /\ createdGroup' = createdGroup
         /\ Pass(Walk[at].check)
  BY DEF ReadOrChange, Here
<1> QED
  BY <1>1, <1>2, <1>3, <1>4, QuietStep, QuietFail

LEMMA GoneKeeps == SmokeInv /\ Gone => SmokeInv'
<1> SUFFICES ASSUME SmokeInv, Gone PROVE SmokeInv'
  OBVIOUS
<1>1. /\ result = "none" /\ at \in 1..26
      /\ \/ at = 24 /\ Walk[at].on = "one"
         \/ at = 25 /\ Walk[at].on = "two"
         \/ at = 26 /\ Walk[at].on = "bulk_user"
  BY StepPlaces DEF Gone, Go, Here, SmokeInv, Knows
<1>2. inputs' = inputs /\ users' = users /\ groups' = groups /\ blamed' = blamed
  BY DEF Gone, serverVars
<1>3. Asked(at)
  BY <1>1 DEF Asked
<1>4. \/ Fail
      \/ /\ Advance /\ createdUsers' = createdUsers /\ createdGroup' = createdGroup
         /\ Pass(Walk[at].check) /\ users[Walk[at].on] = "inactive"
  BY DEF Gone, Here
<1> QED
  BY <1>1, <1>2, <1>3, <1>4, QuietStep, QuietFail

\* What a POST and a DELETE do on the server.
LEMMA MadeOnServer ==
    ASSUME SmokeTypes, NEW r \in SmokeUsers \cup SmokeGroups, Made(r)
    PROVE  /\ users' \in [SmokeUsers -> {"absent", "active", "inactive"}] /\ groups' \subseteq SmokeGroups
           /\ \A u \in SmokeUsers : u # r => users'[u] = users[u]
           /\ groups' \subseteq groups \cup {r} /\ (r \in SmokeUsers => groups' = groups)
           /\ Left' \subseteq Left \cup {r}
<1>1. /\ users' \in [SmokeUsers -> {"absent", "active", "inactive"}] /\ groups' \subseteq SmokeGroups
      /\ \A u \in SmokeUsers : u # r => users'[u] = users[u]
      /\ groups' \subseteq groups \cup {r} /\ (r \in SmokeUsers => groups' = groups)
  BY DEF SmokeTypes, Made
<1> QED
  BY <1>1 DEF Left

LEMMA RemovedOnServer ==
    ASSUME SmokeTypes, NEW r \in SmokeUsers \cup SmokeGroups, Removed(r)
    PROVE  /\ users' \in [SmokeUsers -> {"absent", "active", "inactive"}] /\ groups' \subseteq SmokeGroups
           /\ \A u \in SmokeUsers : users'[u] = "active" => users[u] = "active"
           /\ groups' \subseteq groups /\ (r \in SmokeGroups => groups' = groups \ {r})
           /\ Left' = Left \ {r}
<1>1. SmokeUsers \cap SmokeGroups = {}
  BY DEF SmokeUsers, SmokeGroups
<1>2. CASE r \in SmokeUsers
  <2>1. users' = [users EXCEPT ![r] = IF @ = "absent" THEN @ ELSE "inactive"] /\ groups' = groups
    BY <1>2 DEF Removed
  <2>2. users' \in [SmokeUsers -> {"absent", "active", "inactive"}]
    BY <2>1 DEF SmokeTypes
  <2>3. \A u \in SmokeUsers : users'[u] = "active" <=> users[u] = "active" /\ u # r
    BY <2>1 DEF SmokeTypes
  <2> QED
    BY <1>1, <1>2, <2>1, <2>2, <2>3 DEF Left, SmokeTypes
<1>3. CASE r \notin SmokeUsers
  BY <1>1, <1>3 DEF Removed, Left, SmokeTypes
<1> QED
  BY <1>2, <1>3

LEMMA CreateKeeps == SmokeInv /\ Create => SmokeInv'
<1> SUFFICES ASSUME SmokeInv, Create PROVE SmokeInv'
  OBVIOUS
<1> DEFINE r == Walk[at].on
<1>1. /\ result = "none" /\ at \in 1..26
      /\ \/ at = 6 /\ r = "one"
         \/ at = 7 /\ r = "two"
         \/ at = 13 /\ r = "group"
  BY SMTT(30), StepPlaces DEF Create, Go, Here, SmokeInv, Knows
<1>2. r \in SmokeUsers \cup SmokeGroups /\ (r \in SmokeUsers <=> at # 13) /\ inputs' = inputs
  BY <1>1 DEF SmokeUsers, SmokeGroups, Create
<1>3. \/ Fail /\ users' = users /\ groups' = groups /\ blamed' = blamed
      \/ Fail /\ Made(r) /\ blamed' = blamed \cup {r}
      \/ /\ Made(r) /\ Advance /\ Pass(Walk[at].check) /\ blamed' = blamed
         /\ IF r \in SmokeUsers
            THEN createdUsers' = Append(createdUsers, r) /\ createdGroup' = createdGroup
            ELSE createdGroup' = r /\ createdUsers' = createdUsers
  BY DEF Create, Here, Outcomes, serverVars
<1> HIDE DEF r
<1>4. CASE Fail /\ users' = users /\ groups' = groups /\ blamed' = blamed
  BY <1>1, <1>2, <1>4, QuietFail
<1>5. CASE Fail /\ Made(r) /\ blamed' = blamed \cup {r}
  BY <1>1, <1>2, <1>5, MadeOnServer, FailKeepsInv DEF SmokeInv
<1>6. CASE /\ Made(r) /\ Advance /\ Pass(Walk[at].check) /\ blamed' = blamed
           /\ IF r \in SmokeUsers
              THEN createdUsers' = Append(createdUsers, r) /\ createdGroup' = createdGroup
              ELSE createdGroup' = r /\ createdUsers' = createdUsers
  <2>1. at' = at + 1 /\ result' = "none" /\ removals' = removals
    BY <1>1, <1>6, WalkSteps DEF Advance
  <2>2. /\ users' \in [SmokeUsers -> {"absent", "active", "inactive"}] /\ groups' \subseteq SmokeGroups
        /\ \A u \in SmokeUsers : u # r => users'[u] = users[u]
        /\ groups' \subseteq groups \cup {r} /\ (r \in SmokeUsers => groups' = groups)
    BY <1>2, <1>6, MadeOnServer DEF SmokeInv
  <2>3. /\ createdUsers' \in Seq(SmokeUsers) /\ IdsIn(createdUsers) \subseteq IdsIn(createdUsers')
        /\ r \in SmokeUsers => r \in IdsIn(createdUsers')
    <3>1. createdUsers \in Seq(SmokeUsers)
      BY DEF SmokeInv, SmokeTypes
    <3>2. CASE r \in SmokeUsers
      <4>1. createdUsers' = Append(createdUsers, r)
        BY <1>6, <3>2
      <4>2. /\ Append(createdUsers, r) \in Seq(SmokeUsers)
            /\ IdsIn(Append(createdUsers, r)) = IdsIn(createdUsers) \cup {r}
        BY <3>1, <3>2, IdsOfAppend
      <4> QED
        BY <4>1, <4>2
    <3>3. CASE r \notin SmokeUsers
      BY <1>6, <3>1, <3>3
    <3> QED
      BY <3>2, <3>3
  <2>4. createdGroup' = GroupKnown(at') /\ groups' \subseteq {createdGroup'}
    <3>1. createdGroup = "none" /\ groups \subseteq {"none"} /\ groups \subseteq SmokeGroups
      BY <1>1 DEF SmokeInv, SmokeTypes, Knows, GroupKnown
    <3>2. groups = {}
      BY <3>1 DEF SmokeGroups
    <3> QED
      BY <1>1, <1>2, <1>6, <2>1, <2>2, <3>1, <3>2 DEF GroupKnown
  <2>5. SmokeTypes'
    <3>1. createdGroup' \in SmokeGroups \cup {"none"}
      BY <1>1, <2>1, <2>4 DEF GroupKnown, SmokeGroups
    <3> QED
      BY <1>1, <1>2, <2>1, <2>2, <2>3, <3>1 DEF SmokeInv, SmokeTypes
  <2>6. SmokePassed'
    BY <1>1, <1>2, <1>6, <2>1, AdvanceKeepsPassed DEF SmokeInv, Asked
  <2>7. Knows'
    BY <1>1, <2>1, <2>2, <2>3, <2>4 DEF SmokeInv, Knows
  <2> QED
    BY <2>1, <2>5, <2>6, <2>7 DEF SmokeInv, Removes, Completes
<1> QED
  BY <1>3, <1>4, <1>5, <1>6

LEMMA DeleteKeeps == SmokeInv /\ Delete => SmokeInv'
<1> SUFFICES ASSUME SmokeInv, Delete PROVE SmokeInv'
  OBVIOUS
<1> DEFINE r == Walk[at].on
<1>1. /\ result = "none" /\ at \in 1..26
      /\ \/ at = 19 /\ r = "group"
         \/ at = 22 /\ r = "one"
         \/ at = 23 /\ r = "two"
  BY StepPlaces DEF Delete, Go, Here, SmokeInv, Knows
<1>2. /\ r \in SmokeUsers \cup SmokeGroups /\ (r \in SmokeGroups <=> at = 19)
      /\ inputs' = inputs /\ blamed' = blamed
  BY <1>1 DEF SmokeUsers, SmokeGroups, Delete
<1>3. \/ Fail /\ users' = users /\ groups' = groups
      \/ Fail /\ Removed(r)
      \/ /\ Removed(r) /\ Advance /\ Pass(Walk[at].check) /\ createdUsers' = createdUsers
         /\ createdGroup' = IF r \in SmokeGroups THEN "none" ELSE createdGroup
  BY DEF Delete, Here, Outcomes, serverVars
<1> HIDE DEF r
<1>4. CASE Fail /\ users' = users /\ groups' = groups
  BY <1>1, <1>2, <1>4, QuietFail
<1>5. CASE Fail /\ Removed(r)
  BY <1>1, <1>2, <1>5, RemovedOnServer, FailKeepsInv DEF SmokeInv
<1>6. CASE /\ Removed(r) /\ Advance /\ Pass(Walk[at].check) /\ createdUsers' = createdUsers
           /\ createdGroup' = IF r \in SmokeGroups THEN "none" ELSE createdGroup
  <2>1. at' = at + 1 /\ result' = "none" /\ removals' = removals
    BY <1>1, <1>6, WalkSteps DEF Advance
  <2>2. /\ users' \in [SmokeUsers -> {"absent", "active", "inactive"}] /\ groups' \subseteq SmokeGroups
        /\ \A u \in SmokeUsers : users'[u] = "active" => users[u] = "active"
        /\ groups' \subseteq groups /\ (r \in SmokeGroups => groups' = groups \ {r})
    BY <1>2, <1>6, RemovedOnServer DEF SmokeInv
  <2>3. createdGroup' = GroupKnown(at') /\ groups' \subseteq {createdGroup'}
    BY <1>1, <1>2, <1>6, <2>1, <2>2 DEF SmokeInv, Knows, GroupKnown
  <2>4. SmokeTypes'
    BY <1>1, <1>2, <1>6, <2>1, <2>2 DEF SmokeInv, SmokeTypes
  <2>5. SmokePassed'
    BY <1>1, <1>2, <1>6, <2>1, AdvanceKeepsPassed DEF SmokeInv, Asked
  <2>6. Knows'
    BY <1>1, <1>6, <2>1, <2>2, <2>3 DEF SmokeInv, Knows
  <2> QED
    BY <2>1, <2>4, <2>5, <2>6 DEF SmokeInv, Removes, Completes
<1> QED
  BY <1>3, <1>4, <1>5, <1>6

\* The first bulk job: the client notes the user and the group one by one,
\* and what it does not note is excused.
LEMMA BulkCreateKeeps == SmokeInv /\ BulkCreate => SmokeInv'
<1> SUFFICES ASSUME SmokeInv, BulkCreate PROVE SmokeInv'
  OBVIOUS
<1>1. result = "none" /\ at = 20
  BY SMTT(30), StepPlaces DEF BulkCreate, Go, Here, SmokeInv, Knows
<1>2. inputs' = inputs /\ passed' = passed
  BY DEF BulkCreate
<1>3. PICK userDone \in BOOLEAN, groupDone \in BOOLEAN, userNoted \in BOOLEAN, groupNoted \in BOOLEAN,
           well \in BOOLEAN :
        /\ well => groupNoted /\ userNoted
        /\ users' = [users EXCEPT !["bulk_user"] = IF userDone THEN "active" ELSE @]
        /\ groups' = groups \cup (IF groupDone THEN {"bulk_group"} ELSE {})
        /\ createdUsers' = IF userNoted THEN Append(createdUsers, "bulk_user") ELSE createdUsers
        /\ createdGroup' = IF groupNoted THEN "bulk_group" ELSE createdGroup
        /\ blamed' = blamed \cup (IF userNoted THEN {} ELSE {"bulk_user", "bulk_group"})
                            \cup (IF groupNoted THEN {} ELSE {"bulk_group"})
        /\ IF well THEN Advance ELSE CleanUp(createdUsers', createdGroup')
  <2> DEFINE Job(o, user, patch, group) ==
               /\ {user, patch, group} # {"good"} => (mishaps < MaxFaults /\ o = "answered")
               /\ mishaps' = IF o = "answered" /\ {user, patch, group} = {"good"}
                             THEN mishaps ELSE mishaps + 1
               /\ LET userDone == o # "refused" /\ user # "failed"
                      groupDone == userDone /\ patch # "failed" /\ group # "failed"
                      userNoted == o = "answered" /\ user = "good"
                      groupNoted == userNoted /\ groupDone /\ group = "good"
                  IN  /\ users' = [users EXCEPT !["bulk_user"] = IF userDone THEN "active" ELSE @]
                      /\ groups' = groups \cup (IF groupDone THEN {"bulk_group"} ELSE {})
                      /\ createdUsers' = IF userNoted THEN Append(createdUsers, "bulk_user") ELSE createdUsers
                      /\ createdGroup' = IF groupNoted THEN "bulk_group" ELSE createdGroup
                      /\ blamed' = blamed \cup (IF userNoted THEN {} ELSE {"bulk_user", "bulk_group"})
                                          \cup (IF groupNoted THEN {} ELSE {"bulk_group"})
                      /\ IF groupNoted /\ patch = "good" THEN Advance ELSE CleanUp(createdUsers', createdGroup')
  <2>0. \E o \in Outcomes : \E user, patch, group \in Operation : Job(o, user, patch, group)
    BY DEF BulkCreate
  <2>1. PICK o \in Outcomes, user \in Operation, patch \in Operation, group \in Operation :
          Job(o, user, patch, group)
    <3> HIDE DEF Job
    <3> QED
      BY <2>0
  <2> DEFINE userDone == o # "refused" /\ user # "failed"
             groupDone == userDone /\ patch # "failed" /\ group # "failed"
             userNoted == o = "answered" /\ user = "good"
             groupNoted == userNoted /\ groupDone /\ group = "good"
             well == groupNoted /\ patch = "good"
  <2>2. /\ userDone \in BOOLEAN /\ groupDone \in BOOLEAN /\ userNoted \in BOOLEAN
        /\ groupNoted \in BOOLEAN /\ well \in BOOLEAN
        /\ well => groupNoted /\ userNoted
    OBVIOUS
  <2>3. /\ users' = [users EXCEPT !["bulk_user"] = IF userDone THEN "active" ELSE @]
        /\ groups' = groups \cup (IF groupDone THEN {"bulk_group"} ELSE {})
        /\ createdUsers' = IF userNoted THEN Append(createdUsers, "bulk_user") ELSE createdUsers
        /\ createdGroup' = IF groupNoted THEN "bulk_group" ELSE createdGroup
        /\ blamed' = blamed \cup (IF userNoted THEN {} ELSE {"bulk_user", "bulk_group"})
                            \cup (IF groupNoted THEN {} ELSE {"bulk_group"})
        /\ IF well THEN Advance ELSE CleanUp(createdUsers', createdGroup')
    BY <2>1
  <2> HIDE DEF userDone, groupDone, userNoted, groupNoted, well
  <2> QED
    BY <2>2, <2>3, Zenon
<1>4. createdUsers \in Seq(SmokeUsers) /\ "bulk_user" \in SmokeUsers
  BY DEF SmokeInv, SmokeTypes, SmokeUsers
<1>5. /\ createdUsers' \in Seq(SmokeUsers) /\ IdsIn(createdUsers) \subseteq IdsIn(createdUsers')
      /\ userNoted => "bulk_user" \in IdsIn(createdUsers')
  <2>1. CASE userNoted
    BY <1>3, <1>4, <2>1, IdsOfAppend
  <2>2. CASE ~userNoted
    BY <1>3, <1>4, <2>2
  <2> QED
    BY <2>1, <2>2
<1>6. createdGroup = "none" /\ groups = {}
  <2>1. createdGroup = "none" /\ groups \subseteq {"none"} /\ groups \subseteq SmokeGroups
    BY <1>1 DEF SmokeInv, SmokeTypes, Knows, GroupKnown
  <2> QED
    BY <2>1 DEF SmokeGroups
<1>7. /\ users' \in [SmokeUsers -> {"absent", "active", "inactive"}] /\ groups' \subseteq {"bulk_group"}
      /\ \A u \in SmokeUsers : u # "bulk_user" => users'[u] = users[u]
      /\ groups' \subseteq SmokeGroups /\ createdGroup' \in SmokeGroups \cup {"none"}
  BY <1>3, <1>6 DEF SmokeInv, SmokeTypes, SmokeGroups
<1>8. CASE well
  <2>1. at' = 21 /\ result' = "none" /\ removals' = removals
    BY <1>1, <1>3, <1>8, WalkSteps DEF Advance
  <2>2. SmokeTypes'
    BY <1>2, <1>5, <1>7, <2>1 DEF SmokeInv, SmokeTypes
  <2>3. SmokePassed'
    <3>1. passed' = passed \cup ({Walk[at].check} \ {"none"})
      BY <1>1, <1>2, WalkSteps DEF Step
    <3> QED
      BY <1>1, <1>2, <2>1, <3>1, AdvanceKeepsPassed DEF SmokeInv, Asked, Pass
  <2>4. createdGroup' = "bulk_group" /\ "bulk_user" \in IdsIn(createdUsers')
    BY <1>3, <1>5, <1>8
  <2>5. Knows'
    BY <1>1, <1>5, <1>7, <2>1, <2>4 DEF SmokeInv, Knows, GroupKnown
  <2> QED
    BY <2>1, <2>2, <2>3, <2>5 DEF SmokeInv, Removes, Completes
<1>9. CASE ~well
  <2>1. CleanUp(createdUsers', createdGroup') /\ at' = at
    BY <1>3, <1>9 DEF CleanUp
  <2>2. /\ userNoted \/ "bulk_user" \in blamed'
        /\ createdGroup' = "bulk_group" \/ "bulk_group" \in blamed'
    BY <1>3
  <2>3. \A u \in SmokeUsers : users'[u] = "active" => u \in IdsIn(createdUsers') \cup blamed'
    BY <1>1, <1>5, <1>7, <2>2 DEF SmokeInv, Knows
  <2>4. Left' \subseteq blamed' \cup IdsIn(createdUsers') \cup {createdGroup'}
    BY <1>7, <2>2, <2>3 DEF Left
  <2>5. Left' \subseteq SmokeUsers \cup SmokeGroups
    BY <1>7 DEF Left
  <2>6. removals' \in Seq(SmokeUsers \cup SmokeGroups) /\ result' \in {"cleaning", "failed"} /\ Removes'
    BY <1>5, <1>7, <2>1, <2>4, <2>5, CleanUpRemovesAll
  <2>7. SmokeTypes'
    BY <1>2, <1>5, <1>7, <2>1, <2>6 DEF SmokeInv, SmokeTypes
  <2>8. SmokePassed'
    BY <1>2, <2>1 DEF SmokeInv, SmokePassed, Asking, Asked
  <2> QED
    BY <2>6, <2>7, <2>8 DEF SmokeInv, Knows, Completes
<1> QED
  BY <1>8, <1>9

LEMMA BulkCleanKeeps == SmokeInv /\ BulkClean => SmokeInv'
<1> SUFFICES ASSUME SmokeInv, BulkClean PROVE SmokeInv'
  OBVIOUS
<1>1. result = "none" /\ at = 21
  BY StepPlaces DEF BulkClean, Go, Here, SmokeInv, Knows
<1>2. inputs' = inputs /\ blamed' = blamed
  BY DEF BulkClean
<1>3. PICK o \in Outcomes, patch \in Operation, group \in Operation, user \in Operation :
        LET patchDone == o # "refused" /\ patch # "failed"
            groupDone == patchDone /\ group # "failed"
        IN  /\ users' = [users EXCEPT !["bulk_user"] = IF patchDone THEN "inactive" ELSE @]
            /\ groups' = groups \ (IF groupDone THEN {"bulk_group"} ELSE {})
            /\ IF o = "answered" /\ {patch, group, user} = {"good"}
               THEN /\ Advance /\ Pass(Here.check) /\ createdGroup' = "none"
                    /\ UNCHANGED createdUsers
               ELSE Fail
  BY ZenonT(60) DEF BulkClean
<1>4. /\ users' \in [SmokeUsers -> {"absent", "active", "inactive"}]
      /\ groups' \subseteq groups /\ groups' \subseteq SmokeGroups
      /\ \A u \in SmokeUsers : /\ users'[u] = "active" => users[u] = "active"
  BY <1>3 DEF SmokeInv, SmokeTypes
<1>5. Left' \subseteq Left
  BY <1>4 DEF Left
<1>6. CASE Fail
  BY <1>1, <1>2, <1>4, <1>5, <1>6, FailKeepsInv
<1>7. CASE o = "answered" /\ {patch, group, user} = {"good"}
  <2>1. Advance /\ Pass(Walk[at].check) /\ createdGroup' = "none" /\ createdUsers' = createdUsers
    BY <1>3, <1>7 DEF Here
  <2>2. groups' = {}
    <3>1. group = "good" /\ patch = "good"
      BY <1>7
    <3>2. groups' = groups \ {"bulk_group"}
      BY <1>3, <1>7, <3>1
    <3> QED
      BY <1>1, <3>2 DEF SmokeInv, Knows, GroupKnown
  <2>3. at' = 22 /\ result' = "none" /\ removals' = removals
    BY <1>1, <2>1, WalkSteps DEF Advance
  <2>4. SmokeTypes'
    BY <1>2, <1>4, <2>1, <2>3 DEF SmokeInv, SmokeTypes
  <2>5. SmokePassed'
    BY <1>1, <1>2, <2>1, <2>3, AdvanceKeepsPassed DEF SmokeInv, Asked
  <2>6. Knows'
    BY <1>1, <1>4, <2>1, <2>2, <2>3 DEF SmokeInv, Knows, GroupKnown
  <2> QED
    BY <2>3, <2>4, <2>5, <2>6 DEF SmokeInv, Removes, Completes
<1> QED
  BY <1>3, <1>6, <1>7

LEMMA CleanUpKeeps == SmokeInv /\ CleanUpNext => SmokeInv'
<1> SUFFICES ASSUME SmokeInv, CleanUpNext PROVE SmokeInv'
  OBVIOUS
<1> DEFINE r == Head(removals)
<1>1. /\ result = "cleaning" /\ inputs' = inputs /\ at' = at /\ passed' = passed
      /\ createdUsers' = createdUsers /\ createdGroup' = createdGroup
      /\ removals' = Tail(removals) /\ result' = IF Len(removals) = 1 THEN "failed" ELSE "cleaning"
  BY DEF CleanUpNext
<1>2. removals \in Seq(SmokeUsers \cup SmokeGroups) /\ removals # <<>>
  BY <1>1 DEF SmokeInv, SmokeTypes, Removes
<1>3. /\ r \in SmokeUsers \cup SmokeGroups /\ removals' \in Seq(SmokeUsers \cup SmokeGroups)
      /\ IdsIn(removals) \subseteq {r} \cup IdsIn(removals')
      /\ Len(removals) = 1 => IdsIn(removals') = {}
      /\ Len(removals) # 1 => removals' # <<>>
  BY <1>1, <1>2, IdsOfTail
<1>4. \/ users' = users /\ groups' = groups /\ blamed' = blamed \cup {r}
      \/ Removed(r) /\ blamed' = blamed
  BY DEF CleanUpNext, serverVars
<1> HIDE DEF r
<1>5. /\ users' \in [SmokeUsers -> {"absent", "active", "inactive"}] /\ groups' \subseteq SmokeGroups
      /\ Left' \subseteq blamed' \cup IdsIn(removals')
  <2>1. Left \subseteq blamed \cup IdsIn(removals)
    BY <1>1 DEF SmokeInv, Removes
  <2>2. CASE users' = users /\ groups' = groups /\ blamed' = blamed \cup {r}
    <3>1. Left' = Left
      BY <2>2 DEF Left
    <3> QED
      BY <1>3, <2>1, <2>2, <3>1 DEF SmokeInv, SmokeTypes
  <2>3. CASE Removed(r) /\ blamed' = blamed
    BY <1>3, <2>1, <2>3, RemovedOnServer DEF SmokeInv
  <2> QED
    BY <1>4, <2>2, <2>3
<1>6. SmokeTypes'
  BY <1>1, <1>3, <1>5 DEF SmokeInv, SmokeTypes
<1>7. SmokePassed'
  BY <1>1 DEF SmokeInv, SmokePassed, Asking, Asked
<1>8. Removes'
  BY <1>1, <1>3, <1>5 DEF Removes
<1> QED
  BY <1>1, <1>6, <1>7, <1>8 DEF SmokeInv, Knows, Completes

-----------------------------------------------------------------------------
(* The report.                                                             *)

\* The identifiers that a report names are three, whatever the walk.
LEMMA ThreeIds ==
    /\ DistinctIds(<<"one", "two", "bulk_user">>, 3)
    /\ IdsIn(<<"one", "two", "bulk_user">>) = {"one", "two", "bulk_user"}
<1> DEFINE t == <<"one", "two", "bulk_user">>
<1>1. Len(t) = 3 /\ DOMAIN t = 1..3 /\ t[1] = "one" /\ t[2] = "two" /\ t[3] = "bulk_user"
  OBVIOUS
<1> HIDE DEF t
<1>2. IdsIn(t) = {"one", "two", "bulk_user"}
  BY <1>1 DEF IdsIn
<1>3. Cardinality({"one", "two", "bulk_user"}) = 3
  <2>1. IsFiniteSet({"one"}) /\ Cardinality({"one"}) = 1
    BY FS_Singleton
  <2>2. IsFiniteSet({"one"} \cup {"two"}) /\ Cardinality({"one"} \cup {"two"}) = 2
    BY <2>1, FS_AddElement
  <2>3. Cardinality(({"one"} \cup {"two"}) \cup {"bulk_user"}) = 3
    BY <2>2, FS_AddElement
  <2>4. ({"one"} \cup {"two"}) \cup {"bulk_user"} = {"one", "two", "bulk_user"}
    OBVIOUS
  <2> QED
    BY <2>3, <2>4
<1> QED
  BY <1>1, <1>2, <1>3 DEF DistinctIds, t

\* After a whole walk the checks that passed are those of every step taken.
LEMMA ChecksOfWholeWalk ==
    ASSUME SmokePassed, at = 27
    PROVE  /\ passed \subseteq RequiredChecks
           /\ RequiredChecks \ {"secondary_token", "rejected_token"} \subseteq passed
           /\ "secondary_token" \in passed <=> inputs.secondary # "unset"
           /\ "rejected_token" \in passed <=> inputs.rejected # "unset"
<1>1. Asking = {i \in 1..26 : Asked(i)}
  BY DEF Asking
<1>2. ASSUME NEW i \in 3..26
      PROVE  i \in Asking /\ (Walk[i].check # "none" => Walk[i].check \in passed)
  BY <1>1 DEF Asked, SmokePassed
<1>3. ASSUME NEW i \in 1..26
      PROVE  /\ Walk[i].check \in RequiredChecks \cup {"none"}
             /\ Walk[i].check = "secondary_token" => i = 1
             /\ Walk[i].check = "rejected_token" => i = 2
  BY WalkSteps, SMTT(60) DEF Step, RequiredChecks
<1>4. passed \subseteq RequiredChecks
  BY <1>1, <1>3 DEF SmokePassed
<1>5. RequiredChecks \ {"secondary_token", "rejected_token"} \subseteq passed
  <2>1. /\ "service_provider_config" \in passed /\ "schemas" \in passed /\ "resource_types" \in passed
        /\ "user_create" \in passed /\ "user_filter" \in passed /\ "user_search_request" \in passed
        /\ "user_projection" \in passed /\ "user_patch" \in passed /\ "user_replace" \in passed
    BY <1>2, WalkSteps DEF Step
  <2>2. /\ "group_create" \in passed /\ "group_filter" \in passed /\ "group_search_request" \in passed
        /\ "group_projection" \in passed /\ "group_patch" \in passed /\ "group_replace" \in passed
        /\ "group_delete" \in passed
    BY <1>2, WalkSteps DEF Step
  <2>3. "bulk_mutations" \in passed /\ "user_delete" \in passed /\ "user_soft_delete" \in passed
    BY <1>2, WalkSteps DEF Step
  <2> QED
    BY <2>1, <2>2, <2>3 DEF RequiredChecks
<1>6. Walk[1].check = "secondary_token" /\ Walk[2].check = "rejected_token"
  BY WalkSteps DEF Step
<1>7. "secondary_token" \in passed <=> 1 \in Asking
  BY <1>1, <1>3, <1>6 DEF SmokePassed
<1>8. "rejected_token" \in passed <=> 2 \in Asking
  BY <1>1, <1>3, <1>6 DEF SmokePassed
<1>9. (1 \in Asking <=> inputs.secondary # "unset") /\ (2 \in Asking <=> inputs.rejected # "unset")
  BY <1>1 DEF Asked
<1> QED
  BY <1>4, <1>5, <1>7, <1>8, <1>9

-----------------------------------------------------------------------------
(* The theorem.                                                            *)

LEMMA SmokeInvHolds == SmokeSpec => []SmokeInv
<1>1. SmokeInv /\ UNCHANGED smokeVars => SmokeInv'
  <2> SUFFICES ASSUME SmokeInv, UNCHANGED smokeVars PROVE SmokeInv'
    OBVIOUS
  <2> USE DEF smokeVars
  <2>1. SmokeTypes'
    BY DEF SmokeInv, SmokeTypes
  <2>2. SmokePassed'
    BY DEF SmokeInv, SmokePassed, Asking, Asked
  <2>3. Knows'
    BY DEF SmokeInv, Knows
  <2>4. Removes' /\ Completes'
    BY DEF SmokeInv, Removes, Completes, Left
  <2> QED
    BY <2>1, <2>2, <2>3, <2>4 DEF SmokeInv
<1>2. SmokeInv /\ [SmokeNext]_smokeVars => SmokeInv'
  BY <1>1, StartKeeps, SecondaryKeeps, RejectedKeeps, ReadOrChangeKeeps, CreateKeeps, DeleteKeeps,
     GoneKeeps, BulkCreateKeeps, BulkCleanKeeps, CleanUpKeeps DEF SmokeNext
<1> QED
  BY <1>2, SmokeStarts, PTL DEF SmokeSpec

\* However many requests go wrong, a walk that reports success leaves no
\* active user and no group on the server, one that fails leaves only what
\* it could not know of or was refused to remove, and the validator of
\* `cairnid evidence check` accepts the report exactly if the walk was a
\* whole one, with both rotation tokens and over https.
THEOREM WalksCleanUp == SmokeSpec => []WalkCleansUp
<1>1. SmokeInv => WalkCleansUp
  <2> SUFFICES ASSUME SmokeInv PROVE WalkCleansUp
    OBVIOUS
  <2>1. OkLeavesNothing
    BY DEF SmokeInv, Completes, OkLeavesNothing
  <2>2. LeftoversExcused
    BY DEF SmokeInv, Removes, LeftoversExcused
  <2>3. ReportAccepted
    <3> SUFFICES ASSUME result = "ok"
                 PROVE  Validates(Report) <=> /\ inputs.base = "https"
                                              /\ inputs.secondary # "unset" /\ inputs.rejected # "unset"
      BY DEF ReportAccepted
    <3>1. /\ passed \subseteq RequiredChecks
          /\ RequiredChecks \ {"secondary_token", "rejected_token"} \subseteq passed
          /\ "secondary_token" \in passed <=> inputs.secondary # "unset"
          /\ "rejected_token" \in passed <=> inputs.rejected # "unset"
      BY ChecksOfWholeWalk DEF SmokeInv, Completes
    <3>2. /\ Report.base = inputs.base /\ Report.checks = passed
          /\ Report.secondary_token_checked <=> inputs.secondary # "unset"
          /\ Report.rejected_token_checked <=> inputs.rejected # "unset"
          /\ Report.created = <<"one", "two", "bulk_user">>
          /\ Report.soft_deleted = <<"one", "two", "bulk_user">>
      BY DEF Report
    <3>3. /\ DistinctIds(Report.created, 3) /\ DistinctIds(Report.soft_deleted, 3)
          /\ IdsIn(Report.created) = IdsIn(Report.soft_deleted)
      BY <3>2, ThreeIds
    <3>4. /\ Report.checks \subseteq RequiredChecks
          /\ RequiredChecks \subseteq Report.checks
               <=> inputs.secondary # "unset" /\ inputs.rejected # "unset"
      <4>1. "secondary_token" \in RequiredChecks /\ "rejected_token" \in RequiredChecks
        BY DEF RequiredChecks
      <4> QED
        BY <3>1, <3>2, <4>1
    <3> HIDE DEF Report
    <3> QED
      BY <3>2, <3>3, <3>4 DEF Validates
  <2> QED
    BY <2>1, <2>2, <2>3 DEF WalkCleansUp
<1> QED
  BY <1>1, SmokeInvHolds, PTL

-----------------------------------------------------------------------------
(* EvidencePaths: a path is a run of its names, and what holds of a run is *)
(* shown for the first place where it could fail.                          *)

\* Every set of numbers has a least one.
LEMMA LeastNumber ==
    ASSUME NEW T \in SUBSET Nat, T # {}
    PROVE  \E m \in T : \A k \in T : m <= k
<1> DEFINE All == {0..n : n \in T}
<1>1. All \subseteq FiniteSubsetsOf(Nat)
  <2> SUFFICES ASSUME NEW n \in T PROVE 0..n \in FiniteSubsetsOf(Nat)
    OBVIOUS
  <2>1. 0..n \in SUBSET Nat
    OBVIOUS
  <2>2. IsFiniteSet(0..n)
    BY FS_Interval
  <2> QED
    BY <2>1, <2>2 DEF FiniteSubsetsOf
<1>2. All # {}
  OBVIOUS
<1>3. IsWellFoundedOn(StrictSubsetOrdering(Nat), FiniteSubsetsOf(Nat))
  BY FS_StrictSubsetOrderingWellFounded
<1> HIDE DEF All
<1>4. PICK x \in All : \A y \in All : ~(<<y, x>> \in StrictSubsetOrdering(Nat))
  BY <1>1, <1>2, <1>3, WFMin
<1>5. PICK m \in T : x = 0..m
  BY DEF All
<1>6. ASSUME NEW k \in T
      PROVE  m <= k
  <2> SUFFICES ASSUME k < m PROVE FALSE
    OBVIOUS
  <2>1. 0..k \in All
    BY DEF All
  <2>2. 0..k \in SUBSET Nat /\ 0..m \in SUBSET Nat /\ 0..k \subseteq 0..m
    OBVIOUS
  <2>3. m \in 0..m /\ m \notin 0..k
    OBVIOUS
  <2>4. 0..k # 0..m
    BY <2>3
  <2> QED
    BY <1>4, <1>5, <2>1, <2>2, <2>4 DEF StrictSubsetOrdering
<1> QED
  BY <1>6

\* A run of a function over a sequence: what is left after each of its
\* elements.
IsRun(r, step, init, s) ==
    /\ DOMAIN r = 0..Len(s) /\ r[0] = init
    /\ \A i \in 1..Len(s) : r[i] = step[<<r[i - 1], s[i]>>]

LEMMA RunExists ==
    ASSUME NEW S, NEW N, NEW init \in S, NEW step \in [S \X N -> S], NEW s \in Seq(N)
    PROVE  \E r \in [0..Len(s) -> S] : IsRun(r, step, init, s)
<1> DEFINE Upto(n) == \E r \in [0..n -> S] :
                         r[0] = init /\ \A i \in 1..n : r[i] = step[<<r[i - 1], s[i]>>]
           T == {n \in Nat : n <= Len(s) /\ ~Upto(n)}
<1>1. Len(s) \in Nat /\ \A i \in 1..Len(s) : s[i] \in N
  BY LenProperties
<1>2. T = {}
  <2> SUFFICES ASSUME T # {} PROVE FALSE
    OBVIOUS
  <2>1. T \in SUBSET Nat
    OBVIOUS
  <2> HIDE DEF T
  <2>2. PICK n \in T : \A k \in T : n <= k
    BY <2>1, LeastNumber
  <2>3. n \in Nat /\ n <= Len(s) /\ ~Upto(n)
    BY DEF T
  <2>4. n # 0
    <3> SUFFICES ASSUME n = 0 PROVE FALSE
      OBVIOUS
    <3>1. [i \in 0..0 |-> init] \in [0..0 -> S] /\ [i \in 0..0 |-> init][0] = init
      OBVIOUS
    <3>2. 1..0 = {}
      OBVIOUS
    <3> QED
      BY <2>3, <3>1, <3>2
  <2>5. n - 1 \in Nat /\ n - 1 \notin T
    BY <2>1, <2>2, <2>3, <2>4
  <2>6. Upto(n - 1)
    BY <1>1, <2>3, <2>5 DEF T
  <2>7. PICK r \in [0..(n - 1) -> S] :
           r[0] = init /\ \A i \in 1..(n - 1) : r[i] = step[<<r[i - 1], s[i]>>]
    BY <2>6
  <2> DEFINE q == [i \in 0..n |-> IF i = n THEN step[<<r[n - 1], s[n]>>] ELSE r[i]]
  <2>8. r[n - 1] \in S /\ s[n] \in N /\ step[<<r[n - 1], s[n]>>] \in S
    BY <1>1, <2>3, <2>4
  <2>9. q \in [0..n -> S]
    BY <2>3, <2>8
  <2>10. q[0] = init
    BY <2>3, <2>4, <2>7
  <2>11. ASSUME NEW i \in 1..n
         PROVE  q[i] = step[<<q[i - 1], s[i]>>]
    <3>1. i - 1 \in 0..n /\ i \in 0..n /\ i - 1 # n /\ q[i - 1] = r[i - 1]
      BY <2>3
    <3>2. CASE i = n
      BY <3>1, <3>2
    <3>3. CASE i # n
      <4>1. i \in 1..(n - 1) /\ q[i] = r[i]
        BY <2>3, <3>1, <3>3
      <4> QED
        BY <2>7, <3>1, <4>1
    <3> QED
      BY <3>2, <3>3
  <2> QED
    BY <2>3, <2>9, <2>10, <2>11
<1>3. Upto(Len(s))
  BY <1>1, <1>2
<1> QED
  BY <1>3 DEF IsRun

\* Two runs of the same function agree as long as the sequences do.
LEMMA RunsAgree ==
    ASSUME NEW step, NEW init, NEW N, NEW s \in Seq(N), NEW t \in Seq(N), NEW r, NEW q,
           IsRun(r, step, init, s), IsRun(q, step, init, t), NEW l \in Nat,
           l <= Len(s), l <= Len(t), \A i \in 1..l : s[i] = t[i]
    PROVE  \A i \in 0..l : r[i] = q[i]
<1> DEFINE T == {i \in 0..l : r[i] # q[i]}
<1> SUFFICES ASSUME T # {} PROVE FALSE
  OBVIOUS
<1>1. T \in SUBSET Nat /\ Len(s) \in Nat /\ Len(t) \in Nat
  BY LenProperties
<1>2. PICK n \in T : \A k \in T : n <= k
  BY <1>1, LeastNumber
<1>3. n # 0
  BY DEF IsRun
<1>4. n - 1 \in 0..l /\ n - 1 \notin T /\ n \in 1..l
  BY <1>2, <1>3
<1>5. r[n] = step[<<r[n - 1], s[n]>>] /\ q[n] = step[<<q[n - 1], t[n]>>] /\ s[n] = t[n]
  BY <1>1, <1>4 DEF IsRun
<1> QED
  BY <1>4, <1>5

\* Where a path may lead on its way.
Places == Seq(STRING) \cup {Nowhere, NotDir}
StepOf(fs) == [x \in Places \X STRING |-> Enter(fs, x[1], x[2])]

LEMMA EnterTyped ==
    ASSUME NEW fs, IsFileSystem(fs)
    PROVE  StepOf(fs) \in [Places \X STRING -> Places]
<1> SUFFICES ASSUME NEW spot \in Places, NEW name \in STRING
             PROVE  Enter(fs, spot, name) \in Places
  BY DEF StepOf
<1>1. CASE spot \in {Nowhere, NotDir}
  BY <1>1 DEF Enter
<1>2. CASE spot \notin {Nowhere, NotDir}
  <2>1. spot \in Seq(STRING) /\ Append(spot, name) \in Seq(STRING) /\ <<>> \in Seq(STRING)
    BY <1>2, AppendProperties, EmptySeq DEF Places
  <2> DEFINE next == Append(spot, name)
  <2>2. ASSUME KindOf(fs, next) = "link"
        PROVE  fs[next].to \in Places
    <3>1. next \in DOMAIN fs /\ fs[next].type = "link"
      BY <2>1, <2>2 DEF KindOf
    <3>2. fs[next].to = Nowhere \/ KindOf(fs, fs[next].to) \in {"dir", "file"}
      BY <3>1 DEF IsFileSystem
    <3>3. CASE KindOf(fs, fs[next].to) \in {"dir", "file"}
      <4>1. fs[next].to = <<>> \/ fs[next].to \in DOMAIN fs
        BY <3>3 DEF KindOf
      <4> QED
        BY <2>1, <4>1 DEF IsFileSystem, Places
    <3> QED
      BY <3>2, <3>3 DEF Places
  <2> QED
    BY <1>2, <2>1, <2>2 DEF Enter, Places
<1> QED
  BY <1>1, <1>2

LEMMA RealIsRun ==
    ASSUME NEW fs, IsFileSystem(fs), NEW path \in Seq(STRING)
    PROVE  \E r \in [0..Len(path) -> Places] :
              IsRun(r, StepOf(fs), <<>>, path) /\ Real(fs, path) = r[Len(path)]
<1> DEFINE spot == CHOOSE f : f = [i \in 0..Len(path) |-> IF i = 0 THEN <<>> ELSE Enter(fs, f[i - 1], path[i])]
<1>1. PICK r \in [0..Len(path) -> Places] : IsRun(r, StepOf(fs), <<>>, path)
  BY RunExists, EnterTyped, EmptySeq DEF Places
<1>2. r = [i \in 0..Len(path) |-> IF i = 0 THEN <<>> ELSE Enter(fs, r[i - 1], path[i])]
  <2>1. \A i \in 1..Len(path) : r[i - 1] \in Places /\ path[i] \in STRING
    BY LenProperties
  <2>2. \A i \in 1..Len(path) : r[i] = Enter(fs, r[i - 1], path[i])
    BY <1>1, <2>1 DEF IsRun, StepOf
  <2>3. \A i \in 0..Len(path) : r[i] = IF i = 0 THEN <<>> ELSE Enter(fs, r[i - 1], path[i])
    BY <1>1, <2>2, LenProperties DEF IsRun
  <2> QED
    BY <2>3
<1>3. spot = [i \in 0..Len(path) |-> IF i = 0 THEN <<>> ELSE Enter(fs, spot[i - 1], path[i])]
  BY <1>2
<1>4. Real(fs, path) = spot[Len(path)]
  BY DEF Real
<1> HIDE DEF spot
<1>5. \A i \in 0..Len(path) : spot[i] = IF i = 0 THEN <<>> ELSE Enter(fs, spot[i - 1], path[i])
  BY <1>3
<1>6. r = spot
  <2> DEFINE T == {i \in 0..Len(path) : r[i] # spot[i]}
  <2>1. Len(path) \in Nat /\ T \in SUBSET Nat
    BY LenProperties
  <2>2. T = {}
    <3> SUFFICES ASSUME T # {} PROVE FALSE
      OBVIOUS
    <3>1. PICK n \in T : \A k \in T : n <= k
      BY <2>1, LeastNumber
    <3>2. n # 0
      BY <1>2, <1>5
    <3>3. n - 1 \in 0..Len(path) /\ n - 1 \notin T /\ n \in 0..Len(path)
      BY <2>1, <3>1, <3>2
    <3>4. r[n - 1] = spot[n - 1] /\ r[n] # spot[n]
      BY <3>3
    <3>5. r[n] = Enter(fs, r[n - 1], path[n]) /\ spot[n] = Enter(fs, spot[n - 1], path[n])
      BY <1>2, <1>5, <3>2, <3>3
    <3> QED
      BY <3>4, <3>5
  <2>3. \A i \in 0..Len(path) : r[i] = spot[i]
    BY <2>2
  <2> QED
    BY <1>2, <1>3, <2>3
<1> QED
  BY <1>1, <1>4, <1>6
\* What is left of a path without its last name.
LEMMA FrontLast ==
    ASSUME NEW S, NEW p \in Seq(S), p # <<>>
    PROVE  /\ Len(p) \in Nat \ {0} /\ Front(p) \in Seq(S) /\ Last(p) \in S
           /\ Len(Front(p)) = Len(p) - 1
           /\ \A i \in 1..(Len(p) - 1) : Front(p)[i] = p[i]
           /\ Append(Front(p), Last(p)) = p
<1>1. Len(p) \in Nat \ {0} /\ p \in [1..Len(p) -> S]
  BY EmptySeq, LenProperties
<1>2. Front(p) = SubSeq(p, 1, Len(p) - 1) /\ Last(p) = p[Len(p)]
  BY DEF Front, Last
<1>3. /\ Front(p) \in Seq(S) /\ Len(Front(p)) = Len(p) - 1
      /\ \A i \in 1..(Len(p) - 1) : Front(p)[i] = p[i]
  BY <1>1, <1>2
<1>4. Last(p) \in S
  BY <1>1, <1>2
<1>5. Append(Front(p), Last(p)) = p
  <2>1. Append(Front(p), Last(p)) \in Seq(S) /\ Len(Append(Front(p), Last(p))) = Len(p)
    <3> DEFINE f == Front(p)
               e == Last(p)
    <3>1. f \in Seq(S) /\ e \in S /\ Len(f) = Len(p) - 1
      BY <1>3, <1>4
    <3> HIDE DEF f, e
    <3>2. Append(f, e) \in Seq(S) /\ Len(Append(f, e)) = Len(f) + 1
      BY <3>1, AppendProperties
    <3>3. Append(f, e) \in Seq(S) /\ Len(Append(f, e)) = Len(p)
      BY <1>1, <3>1, <3>2
    <3> QED
      BY <3>3 DEF f, e
  <2>2. \A i \in 1..Len(p) : Append(Front(p), Last(p))[i] = p[i]
    <3> DEFINE f == Front(p)
               e == Last(p)
    <3>1. /\ f \in Seq(S) /\ e \in S /\ Len(f) = Len(p) - 1 /\ e = p[Len(p)]
          /\ \A i \in 1..(Len(p) - 1) : f[i] = p[i]
      BY <1>2, <1>3, <1>4
    <3> HIDE DEF f, e
    <3>2. /\ Append(f, e)[Len(f) + 1] = e
          /\ \A i \in 1..Len(f) : Append(f, e)[i] = f[i]
      BY <3>1, AppendProperties
    <3>3. \A i \in 1..Len(p) : i = Len(p) \/ i \in 1..(Len(p) - 1)
      <4>1. \A l \in Nat : \A i \in 1..l : i = l \/ i \in 1..(l - 1)
        OBVIOUS
      <4>2. Len(p) \in Nat
        BY <1>1
      <4> QED
        BY <4>1, <4>2
    <3>4. ASSUME NEW i \in 1..Len(p)
          PROVE  Append(f, e)[i] = p[i]
      <4>1. CASE i = Len(p)
        <5>1. Len(f) + 1 = Len(p)
          BY <1>1, <3>1
        <5> QED
          BY <3>1, <3>2, <4>1, <5>1
      <4>2. CASE i \in 1..(Len(p) - 1)
        <5>1. i \in 1..Len(f)
          BY <3>1, <4>2
        <5> QED
          BY <3>1, <3>2, <4>2, <5>1
      <4> QED
        BY <3>3, <4>1, <4>2
    <3> QED
      BY <3>4 DEF f, e
  <2> QED
    BY <2>1, <2>2, SeqEqual
<1> QED
  BY <1>1, <1>3, <1>4, <1>5

LEMMA RealEmpty ==
    ASSUME NEW fs, IsFileSystem(fs)
    PROVE  Real(fs, <<>>) = <<>>
<1>1. <<>> \in Seq(STRING) /\ Len(<<>>) = 0
  BY EmptySeq
<1>2. PICK r \in [0..Len(<<>>) -> Places] :
         IsRun(r, StepOf(fs), <<>>, <<>>) /\ Real(fs, <<>>) = r[Len(<<>>)]
  BY <1>1, RealIsRun
<1> QED
  BY <1>1, <1>2 DEF IsRun

LEMMA RealLast ==
    ASSUME NEW fs, IsFileSystem(fs), NEW path \in Seq(STRING), path # <<>>
    PROVE  Real(fs, path) = Enter(fs, Real(fs, Front(path)), Last(path))
<1> DEFINE L == Len(path)
<1>1. /\ L \in Nat \ {0} /\ Front(path) \in Seq(STRING) /\ Len(Front(path)) = L - 1
      /\ \A i \in 1..(L - 1) : Front(path)[i] = path[i]
  BY FrontLast
<1>2. PICK r \in [0..L -> Places] :
         IsRun(r, StepOf(fs), <<>>, path) /\ Real(fs, path) = r[L]
  BY RealIsRun
<1>3. PICK q \in [0..(L - 1) -> Places] :
         IsRun(q, StepOf(fs), <<>>, Front(path)) /\ Real(fs, Front(path)) = q[L - 1]
  BY <1>1, RealIsRun
<1>4. r[L - 1] = q[L - 1]
  <2>1. \A i \in 0..(L - 1) : q[i] = r[i]
    BY <1>1, <1>2, <1>3, RunsAgree
  <2> QED
    BY <1>1, <2>1
<1>5. r[L] = StepOf(fs)[<<r[L - 1], path[L]>>]
  BY <1>1, <1>2 DEF IsRun
<1>6. r[L - 1] \in Places /\ path[L] \in STRING
  BY <1>1, LenProperties
<1> QED
  BY <1>2, <1>3, <1>4, <1>5, <1>6 DEF StepOf, Last
\* No entry of a file system is called as the places that stand for no place.
LEMMA NoSuchEntry ==
    ASSUME NEW fs, IsFileSystem(fs)
    PROVE  KindOf(fs, Nowhere) = "missing" /\ KindOf(fs, NotDir) = "missing"
<1>1. Contains(<<".">>, ".") /\ Contains(<<"..">>, "..")
  BY DEF Contains
<1>2. <<".">> \notin DOMAIN fs /\ <<"..">> \notin DOMAIN fs
  BY <1>1 DEF IsFileSystem
<1>3. <<".">> # <<>> /\ <<"..">> # <<>>
  OBVIOUS
<1> QED
  BY <1>2, <1>3 DEF KindOf, Nowhere, NotDir

\* A path leads to a directory, to a file, or nowhere, never to a link.
Landed(fs, spot) == spot \in {Nowhere, NotDir} \/ KindOf(fs, spot) \in {"dir", "file"}

LEMMA EnterLands ==
    ASSUME NEW fs, IsFileSystem(fs), NEW spot, Landed(fs, spot), NEW name
    PROVE  Landed(fs, Enter(fs, spot, name))
<1> DEFINE next == Append(spot, name)
<1>1. CASE spot \in {Nowhere, NotDir} \/ KindOf(fs, spot) # "dir" \/ name = "."
  BY <1>1 DEF Enter, Landed
<1>2. CASE ~(spot \in {Nowhere, NotDir} \/ KindOf(fs, spot) # "dir" \/ name = ".")
  <2>1. KindOf(fs, next) \in {"dir", "file", "link", "missing"}
    BY DEF KindOf, IsFileSystem
  <2>2. ASSUME KindOf(fs, next) = "link"
        PROVE  Landed(fs, fs[next].to)
    <3>1. next \in DOMAIN fs /\ fs[next].type = "link"
      BY <2>2 DEF KindOf
    <3> QED
      BY <3>1 DEF IsFileSystem, Landed
  <2>3. Enter(fs, spot, name) = IF KindOf(fs, next) = "missing" THEN Nowhere
                              ELSE IF KindOf(fs, next) = "link" THEN fs[next].to ELSE next
    BY <1>2 DEF Enter
  <2> HIDE DEF next
  <2> QED
    BY <2>1, <2>2, <2>3 DEF Landed
<1> QED
  BY <1>1, <1>2

LEMMA RealLands ==
    ASSUME NEW fs, IsFileSystem(fs), NEW path \in Seq(STRING)
    PROVE  Real(fs, path) \in Places /\ Landed(fs, Real(fs, path))
<1>1. PICK r \in [0..Len(path) -> Places] :
         IsRun(r, StepOf(fs), <<>>, path) /\ Real(fs, path) = r[Len(path)]
  BY RealIsRun
<1> DEFINE T == {i \in 0..Len(path) : ~Landed(fs, r[i])}
<1>2. Len(path) \in Nat /\ T \in SUBSET Nat
  BY LenProperties
<1>3. T = {}
  <2> SUFFICES ASSUME T # {} PROVE FALSE
    OBVIOUS
  <2>1. PICK n \in T : \A k \in T : n <= k
    BY <1>2, LeastNumber
  <2>2. n # 0
    BY <1>1 DEF IsRun, Landed, KindOf
  <2>3. n \in 1..Len(path) /\ n - 1 \in 0..Len(path) /\ n - 1 \notin T
    BY <1>2, <2>1, <2>2
  <2>4. r[n] = StepOf(fs)[<<r[n - 1], path[n]>>] /\ r[n - 1] \in Places /\ path[n] \in STRING
    BY <1>1, <2>3, LenProperties DEF IsRun
  <2>5. r[n] = Enter(fs, r[n - 1], path[n])
    BY <2>4 DEF StepOf
  <2>6. Landed(fs, r[n - 1]) /\ ~Landed(fs, r[n])
    BY <2>3
  <2> QED
    BY <2>5, <2>6, EnterLands
<1> QED
  BY <1>1, <1>2, <1>3

\* Canonical paths: a directory or a file is found under its own name.
LEMMA RealFixed ==
    ASSUME NEW fs, IsFileSystem(fs), NEW p \in Seq(STRING), KindOf(fs, p) \in {"dir", "file"}
    PROVE  Real(fs, p) = p
<1> DEFINE Astray(q) == q \in Seq(STRING) /\ KindOf(fs, q) \in {"dir", "file"} /\ Real(fs, q) # q
           T == {n \in Nat : \E q \in Seq(STRING) : Len(q) = n /\ Astray(q)}
<1>1. T = {}
  <2> SUFFICES ASSUME T # {} PROVE FALSE
    OBVIOUS
  <2>1. T \in SUBSET Nat
    OBVIOUS
  <2>2. PICK n \in T : \A k \in T : n <= k
    BY <2>1, LeastNumber
  <2>3. PICK q \in Seq(STRING) : Len(q) = n /\ Astray(q)
    OBVIOUS
  <2>4. q # <<>>
    BY <2>3, RealEmpty
  <2> DEFINE f == Front(q)
             e == Last(q)
  <2>5. f \in Seq(STRING) /\ Len(f) = n - 1 /\ n \in Nat \ {0} /\ Append(f, e) = q /\ e = q[n] /\ e \in STRING
    BY <2>3, <2>4, FrontLast DEF Last
  <2>6. q \in DOMAIN fs
    BY <2>3, <2>4 DEF KindOf
  <2>7. KindOf(fs, f) = "dir" /\ ~Contains(q, ".")
    BY <2>6 DEF IsFileSystem
  <2>8. e # "."
    BY <2>3, <2>5, <2>7 DEF Contains
  <2>9. Real(fs, f) = f
    <3>1. n - 1 \notin T
      BY <2>2, <2>5
    <3> QED
      BY <2>5, <2>7, <3>1
  <2>10. f \notin {Nowhere, NotDir}
    BY <2>7, NoSuchEntry
  <2>11. Real(fs, q) = Enter(fs, f, e)
    BY <2>4, <2>9, RealLast
  <2>12. Enter(fs, f, e) = q
    <3> HIDE DEF f, e
    <3> QED
      BY <2>3, <2>5, <2>7, <2>8, <2>10 DEF Enter
  <2> QED
    BY <2>3, <2>11, <2>12
<1>2. Len(p) \in Nat
  BY LenProperties
<1> QED
  BY <1>1, <1>2
-----------------------------------------------------------------------------
(* Counting and judging the names of a path.                               *)

LEMMA CountUp ==
    ASSUME NEW B, IsFiniteSet(B), NEW k, k \notin B, NEW C, C = B \/ C = B \cup {k}
    PROVE  /\ Cardinality(B) \in Nat /\ Cardinality(C) \in Nat
           /\ Cardinality(C) = Cardinality(B) + IF k \in C THEN 1 ELSE 0
<1>1. Cardinality(B) \in Nat
  BY FS_CardinalityType
<1>2. CASE C = B
  BY <1>1, <1>2
<1>3. CASE C = B \cup {k}
  <2>1. Cardinality(C) = Cardinality(B) + 1
    BY <1>3, FS_AddElement
  <2> QED
    BY <1>1, <1>3, <2>1
<1> QED
  BY <1>2, <1>3

Judgements == [depth : Nat, up : BOOLEAN, out : BOOLEAN]
DescendStep == [x \in Judgements \X STRING |-> Descend(x[1], x[2])]
AtRoot == [depth |-> 0, up |-> FALSE, out |-> FALSE]

\* The four things that a name can do.
Descended(b, name, d) ==
    \/ (b.out = TRUE \/ name = ".") /\ d = b
    \/ /\ b.out = FALSE /\ name \notin {".", ".."}
       /\ d.depth = b.depth + 1 /\ d.up = b.up /\ d.out = FALSE
    \/ b.out = FALSE /\ name = ".." /\ d.out = TRUE
    \/ /\ b.out = FALSE /\ name = ".." /\ b.depth # 0
       /\ d.depth = b.depth - 1 /\ d.up = TRUE /\ d.out = FALSE

LEMMA DescendCases ==
    ASSUME NEW b \in Judgements, NEW name, NEW d, d = Descend(b, name)
    PROVE  d \in Judgements /\ Descended(b, name, d)
<1>1. b = [depth |-> b.depth, up |-> b.up, out |-> b.out] /\ b.out \in BOOLEAN /\ b.up \in BOOLEAN /\ b.depth \in Nat
  BY DEF Judgements
<1>2. CASE b.out \/ name = "."
  <2>1. Descend(b, name) = b
    BY <1>2, Zenon DEF Descend
  <2> QED
    BY <1>1, <1>2, <2>1 DEF Descended
<1>3. CASE ~(b.out \/ name = ".") /\ name # ".."
  <2>1. Descend(b, name) = [b EXCEPT !.depth = b.depth + 1]
    BY <1>3, Zenon DEF Descend
  <2>2. d = [depth |-> b.depth + 1, up |-> b.up, out |-> FALSE]
    BY <1>1, <1>3, <2>1
  <2> QED
    BY <1>1, <1>3, <2>2 DEF Judgements, Descended
<1>4. CASE ~(b.out \/ name = ".") /\ name = ".." /\ b.depth = 0
  <2>1. Descend(b, name) = [b EXCEPT !.out = TRUE]
    BY <1>4, Zenon DEF Descend
  <2>2. d = [depth |-> b.depth, up |-> b.up, out |-> TRUE]
    BY <1>1, <2>1
  <2>3. d \in Judgements /\ d.out = TRUE
    BY <1>1, <2>2 DEF Judgements
  <2>4. b.out = FALSE /\ name = ".."
    BY <1>1, <1>4, Zenon
  <2> QED
    BY <2>3, <2>4 DEF Descended
<1>5. CASE ~(b.out \/ name = ".") /\ name = ".." /\ b.depth # 0
  <2>1. Descend(b, name) = [b EXCEPT !.depth = b.depth - 1, !.up = TRUE]
    BY <1>5, Zenon DEF Descend
  <2>2. b.out = FALSE /\ name = ".." /\ b.depth # 0
    BY <1>1, <1>5, Zenon
  <2>3. d = [depth |-> b.depth - 1, up |-> TRUE, out |-> FALSE]
    BY <1>1, <2>1, <2>2
  <2>4. b.depth - 1 \in Nat
    BY <1>1, <2>2
  <2>5. d \in Judgements /\ d.depth = b.depth - 1 /\ d.up = TRUE /\ d.out = FALSE
    BY <2>3, <2>4 DEF Judgements
  <2> QED
    BY <2>2, <2>5 DEF Descended
<1> QED
  BY <1>2, <1>3, <1>4, <1>5

\* What one name does to the verdict.
Moved(b, name, d) ==
    /\ d.out = FALSE => /\ b.out = FALSE
                        /\ d.depth + (IF name = ".." THEN 1 ELSE 0) =
                             b.depth + (IF name \in {".", ".."} THEN 0 ELSE 1)
    /\ d.out = FALSE /\ d.up = FALSE <=> b.out = FALSE /\ b.up = FALSE /\ name # ".."
    /\ b.out = TRUE => d.out = TRUE

LEMMA DescendEffect ==
    ASSUME NEW b \in Judgements, NEW name, NEW d, d = Descend(b, name)
    PROVE  Moved(b, name, d)
<1>1. b.depth \in Nat /\ (b.out = TRUE <=> ~(b.out = FALSE)) /\ ~(TRUE = FALSE)
  <2>1. b.depth \in Nat /\ b.out \in BOOLEAN
    BY DEF Judgements
  <2> QED
    BY <2>1
<1>2. Descended(b, name, d)
  BY DescendCases
<1> QED
  BY <1>1, <1>2 DEF Descended, Moved

LEMMA DescendTyped ==
    AtRoot \in Judgements /\ DescendStep \in [Judgements \X STRING -> Judgements]
<1>1. ASSUME NEW b \in Judgements, NEW name \in STRING
      PROVE  Descend(b, name) \in Judgements
  BY DescendCases
<1> QED
  BY <1>1 DEF DescendStep, AtRoot, Judgements

\* The verdict on the names so far.
Verdict(b) == IF b.out THEN "outside" ELSE IF b.up THEN "traversal" ELSE "inside"

LEMMA RelativeIsRun ==
    ASSUME NEW path \in Seq(STRING)
    PROVE  \E r \in [0..Len(path) -> Judgements] :
              IsRun(r, DescendStep, AtRoot, path) /\ RelativeBoundary(path) = Verdict(r[Len(path)])
<1> DEFINE b == CHOOSE f : f = [i \in 0..Len(path) |-> IF i = 0 THEN AtRoot ELSE Descend(f[i - 1], path[i])]
<1>1. PICK r \in [0..Len(path) -> Judgements] : IsRun(r, DescendStep, AtRoot, path)
  BY RunExists, DescendTyped
<1>2. r = [i \in 0..Len(path) |-> IF i = 0 THEN AtRoot ELSE Descend(r[i - 1], path[i])]
  <2>1. \A i \in 1..Len(path) : r[i - 1] \in Judgements /\ path[i] \in STRING
    BY LenProperties
  <2>2. \A i \in 1..Len(path) : r[i] = Descend(r[i - 1], path[i])
    BY <1>1, <2>1 DEF IsRun, DescendStep
  <2>3. \A i \in 0..Len(path) : r[i] = IF i = 0 THEN AtRoot ELSE Descend(r[i - 1], path[i])
    BY <1>1, <2>2, LenProperties DEF IsRun
  <2> QED
    BY <2>3
<1>3. b = [i \in 0..Len(path) |-> IF i = 0 THEN AtRoot ELSE Descend(b[i - 1], path[i])]
  BY <1>2
<1>4. RelativeBoundary(path) = Verdict(b[Len(path)])
  BY DEF RelativeBoundary, Verdict, AtRoot
<1> HIDE DEF b
<1>5. \A i \in 0..Len(path) : b[i] = IF i = 0 THEN AtRoot ELSE Descend(b[i - 1], path[i])
  BY <1>3
<1>6. r = b
  <2> DEFINE T == {i \in 0..Len(path) : r[i] # b[i]}
  <2>1. Len(path) \in Nat /\ T \in SUBSET Nat
    BY LenProperties
  <2>2. T = {}
    <3> SUFFICES ASSUME T # {} PROVE FALSE
      OBVIOUS
    <3>1. PICK n \in T : \A k \in T : n <= k
      BY <2>1, LeastNumber
    <3>2. n # 0
      BY <1>2, <1>5
    <3>3. n - 1 \in 0..Len(path) /\ n - 1 \notin T /\ n \in 0..Len(path)
      BY <2>1, <3>1, <3>2
    <3>4. r[n - 1] = b[n - 1] /\ r[n] # b[n]
      BY <3>3
    <3>5. r[n] = Descend(r[n - 1], path[n]) /\ b[n] = Descend(b[n - 1], path[n])
      BY <1>2, <1>5, <3>2, <3>3
    <3> QED
      BY <3>4, <3>5
  <2>3. \A i \in 0..Len(path) : r[i] = b[i]
    BY <2>2
  <2> QED
    BY <1>2, <1>3, <2>3
<1> QED
  BY <1>1, <1>4, <1>6

Ups(path, k) == Cardinality({i \in 1..k : path[i] = ".."})
Downs(path, k) == Cardinality({i \in 1..k : path[i] \notin {".", ".."}})

LEMMA UpsAndDowns ==
    ASSUME NEW path, NEW k \in Nat
    PROVE  /\ Ups(path, k) \in Nat /\ Downs(path, k) \in Nat
           /\ k = 0 => Ups(path, k) = 0 /\ Downs(path, k) = 0
           /\ k # 0 =>
                /\ Ups(path, k) = Ups(path, k - 1) + IF path[k] = ".." THEN 1 ELSE 0
                /\ Downs(path, k) = Downs(path, k - 1) + IF path[k] \in {".", ".."} THEN 0 ELSE 1
<1> DEFINE U(j) == {i \in 1..j : path[i] = ".."}
           D(j) == {i \in 1..j : path[i] \notin {".", ".."}}
<1>1. CASE k = 0
  <2>1. U(k) = {} /\ D(k) = {}
    BY <1>1
  <2> QED
    BY <1>1, <2>1, FS_EmptySet DEF Ups, Downs
<1>2. CASE k # 0
  <2>1. IsFiniteSet(U(k - 1)) /\ IsFiniteSet(D(k - 1))
    <3>1. IsFiniteSet(1..(k - 1)) /\ U(k - 1) \in SUBSET (1..(k - 1)) /\ D(k - 1) \in SUBSET (1..(k - 1))
      BY FS_Interval
    <3> QED
      BY <3>1, FS_Subset
  <2>2. k \notin U(k - 1) /\ k \notin D(k - 1)
    OBVIOUS
  <2>3. U(k) = U(k - 1) \/ U(k) = U(k - 1) \cup {k}
    BY <1>2
  <2>4. D(k) = D(k - 1) \/ D(k) = D(k - 1) \cup {k}
    BY <1>2
  <2>5. (k \in U(k) <=> path[k] = "..") /\ (k \in D(k) <=> path[k] \notin {".", ".."})
    BY <1>2
  <2> HIDE DEF U, D
  <2>6. /\ Cardinality(U(k)) = Cardinality(U(k - 1)) + IF k \in U(k) THEN 1 ELSE 0
        /\ Cardinality(U(k)) \in Nat
    BY <2>1, <2>2, <2>3, CountUp
  <2>7. /\ Cardinality(D(k)) = Cardinality(D(k - 1)) + IF k \in D(k) THEN 1 ELSE 0
        /\ Cardinality(D(k)) \in Nat
    BY <2>1, <2>2, <2>4, CountUp
  <2>8. /\ Ups(path, k) = Cardinality(U(k)) /\ Downs(path, k) = Cardinality(D(k))
        /\ Ups(path, k - 1) = Cardinality(U(k - 1)) /\ Downs(path, k - 1) = Cardinality(D(k - 1))
    BY DEF Ups, Downs, U, D
  <2> QED
    BY <1>2, <2>5, <2>6, <2>7, <2>8
<1> QED
  BY <1>1, <1>2

\* relative_evidence_dir_path_boundary: a path that steps up is not inside,
\* and one that steps up more often than it went down is outside.
LEMMA RelativeJudged ==
    ASSUME NEW path \in Seq(STRING)
    PROVE  /\ RelativeBoundary(path) \in {"inside", "traversal", "outside"}
           /\ RelativeBoundary(path) = "inside" <=> ~Contains(path, "..")
           /\ (\E k \in 1..Len(path) : Ups(path, k) > Downs(path, k)) =>
                RelativeBoundary(path) = "outside"
<1> DEFINE L == Len(path)
<1>1. PICK r \in [0..L -> Judgements] :
         IsRun(r, DescendStep, AtRoot, path) /\ RelativeBoundary(path) = Verdict(r[L])
  BY RelativeIsRun
<1>2. L \in Nat /\ \A i \in 1..L : path[i] \in STRING
  BY LenProperties
<1> DEFINE J(i) ==
             /\ r[i].out = FALSE => r[i].depth + Ups(path, i) = Downs(path, i)
             /\ r[i].out = FALSE /\ r[i].up = FALSE <=> \A j \in 1..i : path[j] # ".."
             /\ \A j \in 0..i : r[j].out = TRUE => r[i].out = TRUE
           T == {i \in 0..L : ~J(i)}
<1>3. T = {}
  <2> SUFFICES ASSUME T # {} PROVE FALSE
    OBVIOUS
  <2>1. T \in SUBSET Nat
    BY <1>2
  <2>2. PICK n \in T : \A k \in T : n <= k
    BY <2>1, LeastNumber
  <2>3. n \in 0..L /\ ~J(n)
    OBVIOUS
  <2>4. J(0)
    <3>1. r[0] = AtRoot
      BY <1>1 DEF IsRun
    <3>2. Ups(path, 0) = 0 /\ Downs(path, 0) = 0
      BY UpsAndDowns
    <3> QED
      BY <3>1, <3>2 DEF AtRoot
  <2>5. n \in 1..L /\ n - 1 \in 0..L /\ n - 1 \notin T
    BY <1>2, <2>2, <2>3, <2>4
  <2>6. J(n - 1)
    BY <2>5
  <2>7. r[n - 1] \in Judgements /\ r[n] \in Judgements /\ path[n] \in STRING
    BY <1>2, <2>5
  <2>8. r[n] = Descend(r[n - 1], path[n])
    BY <1>1, <2>5, <2>7 DEF IsRun, DescendStep
  <2>9. /\ Ups(path, n) \in Nat /\ Downs(path, n) \in Nat /\ Ups(path, n - 1) \in Nat /\ Downs(path, n - 1) \in Nat
        /\ Ups(path, n) = Ups(path, n - 1) + IF path[n] = ".." THEN 1 ELSE 0
        /\ Downs(path, n) = Downs(path, n - 1) + IF path[n] \in {".", ".."} THEN 0 ELSE 1
    BY <2>5, UpsAndDowns
  <2>10. r[n].out = FALSE => r[n].depth + Ups(path, n) = Downs(path, n)
    <3> DEFINE b == r[n - 1]
               d == r[n]
    <3>1. b.depth \in Nat /\ d.depth \in Nat /\ (b.out = FALSE => b.depth + Ups(path, n - 1) = Downs(path, n - 1))
      BY <2>6, <2>7 DEF Judgements
    <3>2. Moved(b, path[n], d)
      BY <2>7, <2>8, DescendEffect
    <3> HIDE DEF b, d
    <3>3. d.out = FALSE => d.depth + Ups(path, n) = Downs(path, n)
      <4> SUFFICES ASSUME d.out = FALSE PROVE d.depth + Ups(path, n) = Downs(path, n)
        OBVIOUS
      <4> DEFINE x == b.depth
                 y == d.depth
                 u == Ups(path, n - 1)
                 v == Downs(path, n - 1)
                 du == IF path[n] = ".." THEN 1 ELSE 0
                 dv == IF path[n] \in {".", ".."} THEN 0 ELSE 1
      <4>1. y + du = x + dv /\ x + u = v
        BY <3>1, <3>2 DEF Moved
      <4>2. x \in Nat /\ y \in Nat /\ u \in Nat /\ v \in Nat /\ du \in Nat /\ dv \in Nat
        BY <2>9, <3>1
      <4>3. Ups(path, n) = u + du /\ Downs(path, n) = v + dv
        BY <2>9
      <4> HIDE DEF x, y, u, v, du, dv
      <4>4. y + (u + du) = v + dv
        BY <4>1, <4>2
      <4> QED
        BY <4>3, <4>4 DEF y
    <3> QED
      BY <3>3 DEF d
  <2>11. r[n].out = FALSE /\ r[n].up = FALSE <=>
            r[n - 1].out = FALSE /\ r[n - 1].up = FALSE /\ path[n] # ".."
    <3>1. Moved(r[n - 1], path[n], r[n])
      BY <2>7, <2>8, DescendEffect
    <3> QED
      BY <3>1 DEF Moved
  <2>12. r[n].out = FALSE /\ r[n].up = FALSE <=> \A j \in 1..n : path[j] # ".."
    <3>1. (\A j \in 1..n : path[j] # "..") <=> (\A j \in 1..(n - 1) : path[j] # "..") /\ path[n] # ".."
      BY <2>5
    <3> QED
      BY <2>6, <2>11, <3>1
  <2>13. r[n - 1].out = TRUE => r[n].out = TRUE
    <3>1. Moved(r[n - 1], path[n], r[n])
      BY <2>7, <2>8, DescendEffect
    <3> QED
      BY <3>1 DEF Moved
  <2>14. \A j \in 0..n : r[j].out = TRUE => r[n].out = TRUE
    <3>1. \A j \in 0..n : j = n \/ j \in 0..(n - 1)
      BY <2>5
    <3> QED
      BY <2>6, <2>13, <3>1
  <2> QED
    BY <2>3, <2>10, <2>12, <2>14
<1>4. \A i \in 0..L : J(i)
  BY <1>3
<1>5. J(L) /\ r[L] \in Judgements
  BY <1>2, <1>4
<1>6. RelativeBoundary(path) = "inside" <=> r[L].out = FALSE /\ r[L].up = FALSE
  BY <1>1, <1>5 DEF Verdict, Judgements
<1>7. ASSUME NEW k \in 1..L, Ups(path, k) > Downs(path, k)
      PROVE  RelativeBoundary(path) = "outside"
  <2>1. r[k] \in Judgements /\ Ups(path, k) \in Nat /\ Downs(path, k) \in Nat /\ k \in 0..L /\ J(k)
    <3>1. k \in 0..L /\ k \in Nat
      BY <1>2
    <3>2. Ups(path, k) \in Nat /\ Downs(path, k) \in Nat
      BY <3>1, UpsAndDowns
    <3> QED
      BY <1>4, <3>1, <3>2
  <2>2. r[k].out = TRUE
    BY <1>7, <2>1 DEF Judgements
  <2>3. r[L].out = TRUE
    BY <1>5, <2>1, <2>2
  <2> QED
    BY <1>1, <2>3 DEF Verdict
<1>8. RelativeBoundary(path) \in {"inside", "traversal", "outside"}
  BY <1>1 DEF Verdict
<1> QED
  BY <1>5, <1>6, <1>7, <1>8 DEF Contains
-----------------------------------------------------------------------------
(* The names of a path that count.                                         *)

LEMMA NamedCount ==
    ASSUME NEW path, NEW k \in Nat
    PROVE  /\ Named(path, k) \in Nat
           /\ k = 0 => Named(path, k) = 0
           /\ k # 0 => Named(path, k) = Named(path, k - 1) + IF path[k] = "." THEN 0 ELSE 1
<1> DEFINE U(j) == {i \in 1..j : path[i] # "."}
<1>1. CASE k = 0
  <2>1. U(k) = {}
    BY <1>1
  <2> QED
    BY <1>1, <2>1, FS_EmptySet DEF Named
<1>2. CASE k # 0
  <2>1. IsFiniteSet(U(k - 1))
    <3>1. IsFiniteSet(1..(k - 1)) /\ U(k - 1) \in SUBSET (1..(k - 1))
      BY FS_Interval
    <3> QED
      BY <3>1, FS_Subset
  <2>2. k \notin U(k - 1)
    OBVIOUS
  <2>3. U(k) = U(k - 1) \/ U(k) = U(k - 1) \cup {k}
    BY <1>2
  <2>5. k \in U(k) <=> path[k] # "."
    BY <1>2
  <2> HIDE DEF U
  <2>6. /\ Cardinality(U(k)) = Cardinality(U(k - 1)) + IF k \in U(k) THEN 1 ELSE 0
        /\ Cardinality(U(k)) \in Nat
    BY <2>1, <2>2, <2>3, CountUp
  <2>8. Named(path, k) = Cardinality(U(k)) /\ Named(path, k - 1) = Cardinality(U(k - 1))
    BY DEF Named, U
  <2> QED
    BY <1>2, <2>5, <2>6, <2>8
<1> QED
  BY <1>1, <1>2

KeyStep == [x \in Seq(STRING) \X STRING |-> PushComponent(x[1], x[2])]

LEMMA PushTyped == KeyStep \in [Seq(STRING) \X STRING -> Seq(STRING)]
<1> SUFFICES ASSUME NEW key \in Seq(STRING), NEW name \in STRING
             PROVE  PushComponent(key, name) \in Seq(STRING)
  BY DEF KeyStep
<1>1. Append(key, name) \in Seq(STRING)
  BY AppendProperties
<1>2. key # <<>> => Front(key) \in Seq(STRING)
  BY FrontLast
<1> QED
  BY <1>1, <1>2 DEF PushComponent

LEMMA LexicalIsRun ==
    ASSUME NEW path \in Seq(STRING)
    PROVE  \E r \in [0..Len(path) -> Seq(STRING)] :
              IsRun(r, KeyStep, <<>>, path) /\ LexicalKey(path) = r[Len(path)]
<1> DEFINE key == CHOOSE f : f = [i \in 0..Len(path) |-> IF i = 0 THEN <<>> ELSE PushComponent(f[i - 1], path[i])]
<1>1. PICK r \in [0..Len(path) -> Seq(STRING)] : IsRun(r, KeyStep, <<>>, path)
  BY RunExists, PushTyped, EmptySeq
<1>2. r = [i \in 0..Len(path) |-> IF i = 0 THEN <<>> ELSE PushComponent(r[i - 1], path[i])]
  <2>1. \A i \in 1..Len(path) : r[i - 1] \in Seq(STRING) /\ path[i] \in STRING
    BY LenProperties
  <2>2. \A i \in 1..Len(path) : r[i] = PushComponent(r[i - 1], path[i])
    BY <1>1, <2>1 DEF IsRun, KeyStep
  <2>3. \A i \in 0..Len(path) : r[i] = IF i = 0 THEN <<>> ELSE PushComponent(r[i - 1], path[i])
    BY <1>1, <2>2, LenProperties DEF IsRun
  <2> QED
    BY <2>3
<1>3. key = [i \in 0..Len(path) |-> IF i = 0 THEN <<>> ELSE PushComponent(key[i - 1], path[i])]
  BY <1>2
<1>4. LexicalKey(path) = key[Len(path)]
  BY DEF LexicalKey
<1> HIDE DEF key
<1>5. \A i \in 0..Len(path) : key[i] = IF i = 0 THEN <<>> ELSE PushComponent(key[i - 1], path[i])
  BY <1>3
<1>6. r = key
  <2> DEFINE T == {i \in 0..Len(path) : r[i] # key[i]}
  <2>1. Len(path) \in Nat /\ T \in SUBSET Nat
    BY LenProperties
  <2>2. T = {}
    <3> SUFFICES ASSUME T # {} PROVE FALSE
      OBVIOUS
    <3>1. PICK n \in T : \A k \in T : n <= k
      BY <2>1, LeastNumber
    <3>2. n # 0
      BY <1>2, <1>5
    <3>3. n - 1 \in 0..Len(path) /\ n - 1 \notin T /\ n \in 0..Len(path)
      BY <2>1, <3>1, <3>2
    <3>4. r[n - 1] = key[n - 1] /\ r[n] # key[n]
      BY <3>3
    <3>5. r[n] = PushComponent(r[n - 1], path[n]) /\ key[n] = PushComponent(key[n - 1], path[n])
      BY <1>2, <1>5, <3>2, <3>3
    <3> QED
      BY <3>4, <3>5
  <2>3. \A i \in 0..Len(path) : r[i] = key[i]
    BY <2>2
  <2> QED
    BY <1>2, <1>3, <2>3
<1> QED
  BY <1>1, <1>4, <1>6

LEMMA LexicalTyped ==
    ASSUME NEW path \in Seq(STRING)
    PROVE  LexicalKey(path) \in Seq(STRING)
<1>1. Len(path) \in 0..Len(path)
  BY LenProperties
<1> QED
  BY <1>1, LexicalIsRun

LEMMA PrefixPointwise ==
    ASSUME NEW s \in Seq(STRING), NEW t \in Seq(STRING)
    PROVE  IsPrefix(s, t) <=> Len(s) <= Len(t) /\ \A i \in 1..Len(s) : s[i] = t[i]
<1>1. Len(s) \in Nat /\ Len(t) \in Nat
  BY LenProperties
<1> SUFFICES ASSUME Len(s) <= Len(t)
             PROVE  SubSeq(s, 1, Len(s)) = SubSeq(t, 1, Len(s)) <=> \A i \in 1..Len(s) : s[i] = t[i]
  BY DEF IsPrefix
<1> DEFINE a == SubSeq(s, 1, Len(s))
           b == SubSeq(t, 1, Len(s))
<1>2. a \in Seq(STRING) /\ Len(a) = Len(s) /\ \A i \in 1..Len(s) : a[i] = s[i]
  BY <1>1, LenProperties
<1>3. b \in Seq(STRING) /\ Len(b) = Len(s) /\ \A i \in 1..Len(s) : b[i] = t[i]
  BY <1>1, LenProperties
<1> HIDE DEF a, b
<1>4. a = b <=> \A i \in 1..Len(s) : a[i] = b[i]
  BY <1>2, <1>3, SeqEqual
<1>5. a = b <=> \A i \in 1..Len(s) : s[i] = t[i]
  BY <1>2, <1>3, <1>4
<1> QED
  BY <1>5 DEF a, b

\* lexical_absolute_path_key of a path that never steps up: its names, in
\* their order, without the dots.
Spells(key, path, i) ==
    /\ Len(key) = Named(path, i)
    /\ \A j \in 1..i : path[j] # "." =>
          Named(path, j) \in 1..Len(key) /\ key[Named(path, j)] = path[j]
    /\ \A k \in 1..Len(key) : \E j \in 1..i : path[j] # "." /\ Named(path, j) = k

LEMMA PushSpells ==
    ASSUME NEW path, NEW i \in Nat \ {0}, NEW key \in Seq(STRING), Spells(key, path, i - 1),
           path[i] \in STRING, path[i] # ".."
    PROVE  Spells(PushComponent(key, path[i]), path, i)
<1> DEFINE name == path[i]
           next == Append(key, name)
<1>1. /\ Named(path, i) = Named(path, i - 1) + IF name = "." THEN 0 ELSE 1
      /\ Named(path, i) \in Nat /\ Named(path, i - 1) \in Nat /\ Len(key) = Named(path, i - 1)
  BY NamedCount DEF Spells
<1>2. \A j \in 1..i : j = i \/ j \in 1..(i - 1)
  OBVIOUS
<1>3. 1..(i - 1) \subseteq 1..i /\ i \in 1..i
  OBVIOUS
<1>4. CASE name = "."
  <2>1. PushComponent(key, name) = key
    BY <1>4 DEF PushComponent
  <2>2. Len(key) = Named(path, i)
    BY <1>1, <1>4
  <2> QED
    BY <1>2, <1>3, <1>4, <2>1, <2>2 DEF Spells
<1>5. CASE name # "."
  <2>1. PushComponent(key, name) = next
    BY <1>5 DEF PushComponent
  <2>2. /\ Len(next) = Len(key) + 1 /\ next[Len(key) + 1] = name
        /\ \A k \in 1..Len(key) : next[k] = key[k]
    BY AppendProperties
  <2> HIDE DEF next
  <2>3. Len(next) = Named(path, i) /\ Len(key) + 1 = Named(path, i)
    BY <1>1, <1>5, <2>2
  <2>4. ASSUME NEW j \in 1..i, path[j] # "."
        PROVE  Named(path, j) \in 1..Len(next) /\ next[Named(path, j)] = path[j]
    <3>1. CASE j = i
      BY <1>1, <2>2, <2>3, <3>1
    <3>2. CASE j \in 1..(i - 1)
      <4>1. Named(path, j) \in 1..Len(key) /\ key[Named(path, j)] = path[j]
        BY <2>4, <3>2 DEF Spells
      <4> QED
        BY <1>1, <2>2, <4>1
    <3> QED
      BY <1>2, <3>1, <3>2
  <2>5. ASSUME NEW k \in 1..Len(next)
        PROVE  \E j \in 1..i : path[j] # "." /\ Named(path, j) = k
    <3>1. CASE k = Len(key) + 1
      BY <1>3, <1>5, <2>3, <3>1
    <3>2. CASE k # Len(key) + 1
      <4>1. k \in 1..Len(key)
        BY <1>1, <2>2, <3>2
      <4> QED
        BY <1>3, <4>1 DEF Spells
    <3> QED
      BY <3>1, <3>2
  <2> QED
    BY <2>1, <2>3, <2>4, <2>5 DEF Spells
<1> QED
  BY <1>4, <1>5

LEMMA KeySpells ==
    ASSUME NEW path \in Seq(STRING), ~Contains(path, "..")
    PROVE  Spells(LexicalKey(path), path, Len(path))
<1> DEFINE L == Len(path)
<1>1. PICK r \in [0..L -> Seq(STRING)] :
         IsRun(r, KeyStep, <<>>, path) /\ LexicalKey(path) = r[L]
  BY LexicalIsRun
<1>2. L \in Nat /\ \A i \in 1..L : path[i] \in STRING /\ path[i] # ".."
  BY LenProperties DEF Contains
<1> DEFINE T == {i \in 0..L : ~Spells(r[i], path, i)}
<1>3. T = {}
  <2> SUFFICES ASSUME T # {} PROVE FALSE
    OBVIOUS
  <2>1. T \in SUBSET Nat
    BY <1>2
  <2>2. PICK n \in T : \A k \in T : n <= k
    BY <2>1, LeastNumber
  <2>3. Spells(r[0], path, 0)
    <3>1. r[0] = <<>> /\ Len(<<>>) = 0 /\ Named(path, 0) = 0
      BY <1>1, NamedCount, EmptySeq DEF IsRun
    <3> QED
      BY <3>1 DEF Spells
  <2>4. n \in 1..L /\ n \in Nat \ {0} /\ n - 1 \in 0..L /\ n - 1 \notin T
    BY <1>2, <2>2, <2>3
  <2>5. Spells(r[n - 1], path, n - 1) /\ r[n - 1] \in Seq(STRING) /\ path[n] \in STRING /\ path[n] # ".."
    BY <1>2, <2>4
  <2>6. r[n] = PushComponent(r[n - 1], path[n])
    BY <1>1, <2>4, <2>5 DEF IsRun, KeyStep
  <2>7. Spells(r[n], path, n)
    BY <2>4, <2>5, <2>6, PushSpells
  <2> QED
    BY <2>2, <2>7
<1> QED
  BY <1>1, <1>2, <1>3

LEMMA KeyBegins ==
    ASSUME NEW path \in Seq(STRING), ~Contains(path, ".."), NEW key \in Seq(STRING)
    PROVE  IsPrefix(key, LexicalKey(path)) <=> BeginsWith(path, key)
<1> DEFINE lex == LexicalKey(path)
           L == Len(path)
<1>1. lex \in Seq(STRING) /\ Spells(lex, path, L) /\ DOMAIN path = 1..L
  BY LexicalTyped, KeySpells, LenProperties
<1>2. IsPrefix(key, lex) <=> Len(key) <= Len(lex) /\ \A i \in 1..Len(key) : key[i] = lex[i]
  BY <1>1, PrefixPointwise
<1>3. Len(key) \in Nat /\ Len(lex) \in Nat /\ Len(lex) = Named(path, L)
  BY <1>1, LenProperties DEF Spells
<1> HIDE DEF lex
<1> SUFFICES ASSUME Len(key) <= Len(lex)
             PROVE  (\A i \in 1..Len(key) : key[i] = lex[i]) <=>
                    (\A i \in 1..L : (path[i] # "." /\ Named(path, i) <= Len(key)) => path[i] = key[Named(path, i)])
  BY <1>1, <1>2, <1>3 DEF BeginsWith, lex
<1>4. ASSUME \A i \in 1..Len(key) : key[i] = lex[i],
             NEW j \in 1..L, path[j] # ".", Named(path, j) <= Len(key)
      PROVE  path[j] = key[Named(path, j)]
  <2>1. Named(path, j) \in 1..Len(lex) /\ lex[Named(path, j)] = path[j]
    BY <1>1, <1>4 DEF Spells
  <2>2. Named(path, j) \in 1..Len(key)
    BY <1>3, <1>4, <2>1
  <2> QED
    BY <1>4, <2>1, <2>2
<1>5. ASSUME \A i \in 1..L : (path[i] # "." /\ Named(path, i) <= Len(key)) => path[i] = key[Named(path, i)],
             NEW k \in 1..Len(key)
      PROVE  key[k] = lex[k]
  <2>1. k \in 1..Len(lex)
    BY <1>3
  <2>2. PICK j \in 1..L : path[j] # "." /\ Named(path, j) = k
    BY <1>1, <2>1 DEF Spells
  <2>3. lex[k] = path[j]
    BY <1>1, <2>2 DEF Spells
  <2>4. path[j] = key[k]
    BY <1>3, <1>5, <2>2
  <2> QED
    BY <2>3, <2>4
<1> QED
  BY <1>4, <1>5

\* The verdict on a call's path, relative or absolute: inside if it never
\* steps up and, when absolute, begins with one of the root's two names.
LEMMA BoundaryJudged ==
    ASSUME NEW c \in Arguments
    PROVE  /\ Boundary(c) \in {"inside", "traversal", "outside"}
           /\ Boundary(c) = "inside" <=>
                /\ ~Contains(c.path, "..")
                /\ c.absolute => \E root \in {SuppliedRoot, CanonicalRoot} :
                                    BeginsWith(c.path, LexicalKey(root))
<1>1. c.path \in Seq(STRING) /\ c.absolute \in BOOLEAN
  BY PathConstants
<1>2. CASE c.absolute
  <2> DEFINE p == c.path
  <2>1. Boundary(c) = BestBoundary(p)
    BY <1>2, Zenon DEF Boundary
  <2>2. LexicalKey(SuppliedRoot) \in Seq(STRING) /\ LexicalKey(CanonicalRoot) \in Seq(STRING)
    BY PathConstants, LexicalTyped
  <2>3. ASSUME NEW root \in {SuppliedRoot, CanonicalRoot}
        PROVE  /\ AbsoluteBoundary(root, p) \in {"inside", "traversal", "outside"}
               /\ AbsoluteBoundary(root, p) = "inside" <=>
                    IsPrefix(LexicalKey(root), LexicalKey(p)) /\ ~Contains(p, "..")
    BY DEF AbsoluteBoundary
  <2>4. ASSUME NEW root \in {SuppliedRoot, CanonicalRoot}, ~Contains(p, "..")
        PROVE  IsPrefix(LexicalKey(root), LexicalKey(p)) <=> BeginsWith(p, LexicalKey(root))
    BY <1>1, <2>2, <2>4, KeyBegins
  <2>5. /\ BestBoundary(p) \in {"inside", "traversal", "outside"}
        /\ BestBoundary(p) = "inside" <=> \E root \in {SuppliedRoot, CanonicalRoot} : AbsoluteBoundary(root, p) = "inside"
    BY DEF BestBoundary
  <2>6. BestBoundary(p) = "inside" <=>
          ~Contains(p, "..") /\ \E root \in {SuppliedRoot, CanonicalRoot} : BeginsWith(p, LexicalKey(root))
    BY <2>3, <2>4, <2>5
  <2> QED
    BY <1>2, <2>1, <2>5, <2>6
<1>3. CASE ~c.absolute
  <2>1. Boundary(c) = RelativeBoundary(c.path)
    BY <1>3, Zenon DEF Boundary
  <2> QED
    BY <1>1, <1>3, <2>1, RelativeJudged
<1> QED
  BY <1>2, <1>3
-----------------------------------------------------------------------------
(* What the lookups find.                                                  *)

LEMMA LookupDir ==
    ASSUME NEW fs, IsFileSystem(fs), NEW path \in Seq(STRING), Lookup(fs, path) = "dir"
    PROVE  /\ Real(fs, path) \notin {Nowhere, NotDir} /\ Real(fs, path) \in Seq(STRING)
           /\ KindOf(fs, Real(fs, path)) = "dir"
<1>1. KindOf(fs, Real(fs, path)) = "dir"
  <2>1. CASE path = <<>>
    BY <2>1, RealEmpty DEF KindOf
  <2>2. CASE path # <<>>
    <3> DEFINE parent == Real(fs, Front(path))
               e == Last(path)
    <3>1. Real(fs, path) = Enter(fs, parent, e)
      BY <2>2, RealLast
    <3>2. /\ parent \notin {Nowhere, NotDir} /\ KindOf(fs, parent) = "dir"
          /\ e = "." \/ KindOf(fs, Append(parent, e)) = "dir"
      BY <2>2 DEF Lookup
    <3> HIDE DEF parent, e
    <3>3. CASE e = "."
      BY <3>1, <3>2, <3>3 DEF Enter
    <3>4. CASE e # "."
      <4>1. Enter(fs, parent, e) = Append(parent, e)
        BY <3>2, <3>4 DEF Enter
      <4> QED
        BY <3>1, <3>2, <3>4, <4>1
    <3> QED
      BY <3>3, <3>4
  <2> QED
    BY <2>1, <2>2
<1>2. Real(fs, path) \notin {Nowhere, NotDir}
  BY <1>1, NoSuchEntry
<1>3. Real(fs, path) \in Seq(STRING)
  BY <1>2, RealLands DEF Places
<1> QED
  BY <1>1, <1>2, <1>3

LEMMA LookupTyped ==
    ASSUME NEW fs, IsFileSystem(fs), NEW path
    PROVE  Lookup(fs, path) \in {"missing", "unreadable", "link", "file", "dir"}
<1>1. \A p : KindOf(fs, p) \in {"dir", "file", "link", "missing"}
  BY DEF KindOf, IsFileSystem
<1> DEFINE parent == Real(fs, Front(path))
<1>2. KindOf(fs, Append(parent, Last(path))) \in {"dir", "file", "link", "missing"}
  BY <1>1
<1> HIDE DEF parent
<1> QED
  BY <1>2 DEF Lookup, parent

\* read_dir: the entries of a directory are one name longer than it.
LEMMA EntriesBelow ==
    ASSUME NEW p \in Seq(STRING), p # <<>>, NEW d \in Seq(STRING)
    PROVE  Front(p) = d <=> Len(p) = Len(d) + 1 /\ IsPrefix(d, p)
<1> DEFINE f == Front(p)
<1>1. /\ Len(p) \in Nat \ {0} /\ f \in Seq(STRING) /\ Len(f) = Len(p) - 1
      /\ \A i \in 1..(Len(p) - 1) : f[i] = p[i]
  BY FrontLast
<1>2. IsPrefix(d, p) <=> Len(d) <= Len(p) /\ \A i \in 1..Len(d) : d[i] = p[i]
  BY PrefixPointwise
<1>3. Len(d) \in Nat
  BY LenProperties
<1> HIDE DEF f
<1>4. ASSUME f = d
      PROVE  Len(p) = Len(d) + 1 /\ IsPrefix(d, p)
  BY <1>1, <1>2, <1>3, <1>4
<1>5. ASSUME Len(p) = Len(d) + 1, IsPrefix(d, p)
      PROVE  f = d
  <2>1. Len(f) = Len(d) /\ \A i \in 1..Len(f) : f[i] = d[i]
    BY <1>1, <1>2, <1>3, <1>5
  <2> QED
    BY <1>1, <2>1, SeqEqual
<1> QED
  BY <1>4, <1>5 DEF f

LEMMA InsideBySpelling ==
    ASSUME NEW t \in Seq(STRING)
    PROVE  (\E k \in 0..Len(t) : SubSeq(t, 1, k) = CanonicalRoot) <=> InsideRoot(t)
<1> DEFINE R == CanonicalRoot
<1>1. R \in Seq(STRING) /\ Len(R) \in Nat /\ Len(t) \in Nat
  BY PathConstants, LenProperties
<1> HIDE DEF R
<1>2. InsideRoot(t) <=> Len(R) <= Len(t) /\ \A i \in 1..Len(R) : R[i] = t[i]
  BY <1>1, PrefixPointwise DEF InsideRoot, R
<1>3. ASSUME NEW k \in 0..Len(t)
      PROVE  /\ SubSeq(t, 1, k) \in Seq(STRING) /\ Len(SubSeq(t, 1, k)) = k
             /\ \A i \in 1..k : SubSeq(t, 1, k)[i] = t[i]
  BY <1>1, LenProperties
<1>4. ASSUME NEW k \in 0..Len(t), SubSeq(t, 1, k) = R
      PROVE  InsideRoot(t)
  BY <1>1, <1>2, <1>3, <1>4
<1>5. ASSUME InsideRoot(t)
      PROVE  \E k \in 0..Len(t) : SubSeq(t, 1, k) = R
  <2> DEFINE s == SubSeq(t, 1, Len(R))
  <2>1. Len(R) \in 0..Len(t) /\ \A i \in 1..Len(R) : R[i] = t[i]
    BY <1>1, <1>2, <1>5
  <2>2. s \in Seq(STRING) /\ Len(s) = Len(R) /\ \A i \in 1..Len(s) : s[i] = R[i]
    BY <1>3, <2>1
  <2> HIDE DEF s
  <2>3. s = R
    BY <1>1, <2>2, SeqEqual
  <2> QED
    BY <2>1, <2>3 DEF s
<1> QED
  BY <1>4, <1>5 DEF R

-----------------------------------------------------------------------------
(* What the server may serve, in its own terms.                            *)

LEMMA FullTyped ==
    ASSUME NEW c \in Arguments
    PROVE  Full(c) \in Seq(STRING)
<1>1. c.path \in Seq(STRING) /\ CanonicalRoot \o c.path \in Seq(STRING)
  BY PathConstants, ConcatProperties
<1> QED
  BY <1>1 DEF Full

LinkIn(fs, path) == \E p \in EntriesOf(fs, path) : fs[p].type = "link"

LEMMA WithinIff ==
    ASSUME NEW fs \in Trees, NEW c \in Arguments
    PROVE  Within(fs, c) <=>
              /\ c.form = "string" /\ Boundary(c) = "inside" /\ Lookup(fs, Full(c)) = "dir"
              /\ InsideRoot(Real(fs, Full(c))) /\ ~LinkIn(fs, Real(fs, Full(c)))
<1> DEFINE t == Real(fs, Full(c))
           NoLink == \A p \in DOMAIN fs : (Len(p) = Len(t) + 1 /\ IsPrefix(t, p)) => fs[p].type # "link"
           Rooted == \E k \in 0..Len(t) : SubSeq(t, 1, k) = CanonicalRoot
           Spelled == /\ ~Contains(c.path, "..")
                      /\ c.absolute => \E root \in {SuppliedRoot, CanonicalRoot} :
                                          BeginsWith(c.path, LexicalKey(root))
<1>1. IsFileSystem(fs)
  BY PathConstants
<1>2. Within(fs, c) <=> c.form = "string" /\ Spelled /\ Lookup(fs, Full(c)) = "dir" /\ Rooted /\ NoLink
  BY Zenon DEF Within
<1>3. Spelled <=> Boundary(c) = "inside"
  BY BoundaryJudged, Zenon
<1>4. ASSUME Lookup(fs, Full(c)) = "dir"
      PROVE  (Rooted <=> InsideRoot(t)) /\ (NoLink <=> ~LinkIn(fs, t))
  <2>1. t \in Seq(STRING) /\ KindOf(fs, t) = "dir"
    BY <1>1, <1>4, FullTyped, LookupDir
  <2>2. Real(fs, t) = t
    BY <1>1, <2>1, RealFixed
  <2> HIDE DEF t
  <2>3. Rooted <=> InsideRoot(t)
    BY <2>1, InsideBySpelling
  <2>4. \A p \in DOMAIN fs : p \in Seq(STRING) /\ p # <<>>
    BY <1>1 DEF IsFileSystem
  <2>5. \A p \in DOMAIN fs : Front(p) = t <=> Len(p) = Len(t) + 1 /\ IsPrefix(t, p)
    BY <2>1, <2>4, EntriesBelow
  <2>6. LinkIn(fs, t) <=> \E p \in DOMAIN fs : Front(p) = t /\ fs[p].type = "link"
    BY <2>2, <2>4 DEF LinkIn, EntriesOf
  <2>7. NoLink <=> ~LinkIn(fs, t)
    BY <2>5, <2>6
  <2> QED
    BY <2>3, <2>7
<1> HIDE DEF Spelled, Rooted, NoLink, t
<1> QED
  BY <1>2, <1>3, <1>4 DEF t

\* A relative path that at some point has stepped up more often than down.
Climbs(c) ==
    ~c.absolute /\ \E k \in 1..Len(c.path) : Ups(c.path, k) > Downs(c.path, k)

LEMMA ClimbsOut ==
    ASSUME NEW c \in Arguments, Climbs(c)
    PROVE  Boundary(c) = "outside"
<1>1. c.path \in Seq(STRING)
  BY PathConstants
<1>2. Boundary(c) = RelativeBoundary(c.path)
  BY Zenon DEF Boundary, Climbs
<1>3. \E k \in 1..Len(c.path) : Ups(c.path, k) > Downs(c.path, k)
  BY Zenon DEF Climbs
<1> QED
  BY <1>1, <1>2, <1>3, RelativeJudged

LEMMA ArgumentsJudged ==
    ASSUME NEW c \in Arguments
    PROVE  /\ ArgumentError(c) = "none" <=> c.form = "string"
           /\ ArgumentError(c) # "read"
           /\ ArgumentError(c) = "outside_allowlisted_root" => FALSE
<1>1. c.form \in {"string", "unknown", "number", "age", "empty"}
  BY PathConstants
<1> QED
  BY <1>1 DEF ArgumentError

\* What an answer must be, given the tree and the call.
Fitting(answer) ==
    /\ still => (answer = "read" <=> Within(tree, call))
    /\ answer = "read" => InsideRoot(resolved) /\ ~Contains(call.path, "..")
    /\ (call.form = "string" /\ Climbs(call)) => answer = "outside_allowlisted_root"

\* A directory whose path does not end in a dot is no link by that name.
LEMMA DirNamesNoLink ==
    ASSUME NEW fs, NEW path \in Seq(STRING), Lookup(fs, path) = "dir", Last(path) # "."
    PROVE  NamesNoLink(fs, path)
<1> SUFFICES ASSUME NEW k \in 1..Len(path), path[k] # ".",
                    \A j \in (k + 1)..Len(path) : path[j] = "."
             PROVE  Lookup(fs, SubSeq(path, 1, k)) # "link"
  BY Zenon DEF NamesNoLink
<1>1. Len(path) \in Nat /\ path[Len(path)] # "."
  BY DEF Last
<1>2. k = Len(path)
  BY <1>1
<1>3. SubSeq(path, 1, k) = path
  BY <1>2
<1> QED
  BY <1>3

LEMMA FittingConfines ==
    ASSUME call \in Arguments, tree \in Trees, reply # "none" => Fitting(reply)
    PROVE  PathsConfined
<1>1. NeverOutside
  <2>1. reply = "read" => InsideRoot(resolved) /\ ~Contains(call.path, "..")
    BY DEF Fitting
  <2>2. (reply # "none" /\ call.form = "string" /\ Climbs(call)) => reply = "outside_allowlisted_root"
    BY Zenon DEF Fitting
  <2> QED
    BY <2>1, <2>2, Zenon DEF NeverOutside, InsideRoot, Climbs, Ups, Downs
<1>2. ASSUME still, reply # "none"
      PROVE  /\ Permitted(tree, call) => reply = "read"
             /\ reply = "read" => Within(tree, call) /\ (Permitted(tree, call) \/ Last(Full(call)) = ".")
  <2>1. reply = "read" <=> Within(tree, call)
    BY <1>2, Zenon DEF Fitting
  <2>2. Within(tree, call) => Lookup(tree, Full(call)) = "dir"
    BY WithinIff
  <2>3. Within(tree, call) /\ Last(Full(call)) # "." => NamesNoLink(tree, Full(call))
    BY <2>2, FullTyped, DirNamesNoLink
  <2> QED
    BY <2>1, <2>3, Zenon DEF Permitted
<1> QED
  BY <1>1, <1>2, Zenon DEF PathsConfined, ServedAsPermitted

\* The inductive invariant: the server goes on only with a path that it has
\* judged to be inside; as long as nothing moves, the directory it has
\* looked up and made canonical is still what it was.
PathsInv ==
    /\ tree \in Trees /\ call \in Arguments
    /\ spc \in {"parse", "look up", "canonicalize", "entries", "done"}
    /\ reply = "none" <=> spc # "done"
    /\ spc \in {"look up", "canonicalize", "entries"} =>
          call.form = "string" /\ Boundary(call) = "inside" /\ candidate = Full(call)
    /\ (still /\ spc \in {"canonicalize", "entries"}) => Lookup(tree, candidate) = "dir"
    /\ spc = "entries" => InsideRoot(resolved)
    /\ (still /\ spc = "entries") => resolved = Real(tree, candidate)
    /\ reply # "none" => Fitting(reply)

\* Reply: an answer that fits keeps the invariant.
LEMMA Replied ==
    ASSUME PathsInv, NEW answer, answer # "none", Fitting(answer), Reply(answer),
           UNCHANGED <<tree, call, swaps, still>>
    PROVE  PathsInv'
<1>1. Fitting(reply)'
  <2>1. reply' = answer /\ tree' = tree /\ call' = call /\ still' = still /\ resolved' = resolved
    BY DEF Reply
  <2> QED
    BY <2>1 DEF Fitting
<1>2. reply' # "none" /\ spc' = "done" /\ tree' = tree /\ call' = call
  BY DEF Reply
<1> QED
  BY <1>1, <1>2 DEF PathsInv

LEMMA ParseKeeps == PathsInv /\ ParseCall => PathsInv'
<1> SUFFICES ASSUME PathsInv, ParseCall PROVE PathsInv'
  OBVIOUS
<1>1. /\ call \in Arguments /\ tree \in Trees /\ spc = "parse" /\ reply = "none"
      /\ UNCHANGED <<tree, call, swaps, still>>
  BY DEF PathsInv, ParseCall
<1>2. /\ Boundary(call) \in {"inside", "traversal", "outside"}
      /\ Within(tree, call) => call.form = "string" /\ Boundary(call) = "inside"
      /\ Climbs(call) => Boundary(call) = "outside"
      /\ ArgumentError(call) = "none" <=> call.form = "string"
      /\ ArgumentError(call) # "read"
  BY <1>1, BoundaryJudged, WithinIff, ClimbsOut, ArgumentsJudged
<1>3. CASE ArgumentError(call) # "none"
  <2>1. Reply(ArgumentError(call))
    BY <1>3 DEF ParseCall
  <2>2. Fitting(ArgumentError(call))
    BY <1>2, <1>3 DEF Fitting
  <2> QED
    BY <1>1, <1>3, <2>1, <2>2, Replied
<1>4. CASE ArgumentError(call) = "none" /\ Boundary(call) = "outside"
  <2>1. Reply("outside_allowlisted_root")
    BY <1>4 DEF ParseCall
  <2>2. Fitting("outside_allowlisted_root")
    BY <1>2, <1>4 DEF Fitting
  <2> QED
    BY <1>1, <2>1, <2>2, Replied
<1>5. CASE ArgumentError(call) = "none" /\ Boundary(call) = "traversal"
  <2>1. Reply("parent_traversal")
    BY <1>5 DEF ParseCall
  <2>2. Fitting("parent_traversal")
    BY <1>2, <1>5 DEF Fitting
  <2> QED
    BY <1>1, <2>1, <2>2, Replied
<1>6. CASE ArgumentError(call) = "none" /\ Boundary(call) = "inside"
  <2>1. candidate' = Full(call) /\ spc' = "look up" /\ UNCHANGED <<resolved, reply>>
    BY <1>6 DEF ParseCall, Full
  <2> QED
    BY <1>1, <1>2, <1>6, <2>1 DEF PathsInv
<1> QED
  BY <1>2, <1>3, <1>4, <1>5, <1>6

LEMMA LookUpKeeps == PathsInv /\ LookUp => PathsInv'
<1> SUFFICES ASSUME PathsInv, LookUp PROVE PathsInv'
  OBVIOUS
<1>1. /\ call \in Arguments /\ tree \in Trees /\ IsFileSystem(tree) /\ spc = "look up" /\ reply = "none"
      /\ call.form = "string" /\ Boundary(call) = "inside" /\ candidate = Full(call)
      /\ UNCHANGED <<tree, call, swaps, still>>
  BY PathConstants DEF PathsInv, LookUp
<1>2. /\ Lookup(tree, candidate) \in {"missing", "unreadable", "link", "file", "dir"}
      /\ Within(tree, call) => Lookup(tree, candidate) = "dir"
      /\ ~Climbs(call)
  BY <1>1, LookupTyped, WithinIff, ClimbsOut
<1>3. ASSUME Lookup(tree, candidate) # "dir", NEW answer, answer # "none", answer # "read", Reply(answer)
      PROVE  PathsInv'
  <2>1. Fitting(answer)
    BY <1>2, <1>3 DEF Fitting
  <2> QED
    BY <1>1, <1>3, <2>1, Replied
<1>4. CASE Lookup(tree, candidate) = "missing"
  <2>1. Reply("missing_evidence_dir")
    BY <1>4 DEF LookUp
  <2> QED
    BY <1>3, <1>4, <2>1
<1>5. CASE Lookup(tree, candidate) = "unreadable"
  <2>1. Reply("evidence_read_failed")
    BY <1>5 DEF LookUp
  <2> QED
    BY <1>3, <1>5, <2>1
<1>6. CASE Lookup(tree, candidate) = "link"
  <2>1. Reply("symlinked_evidence_dir")
    BY <1>6 DEF LookUp
  <2> QED
    BY <1>3, <1>6, <2>1
<1>7. CASE Lookup(tree, candidate) = "file"
  <2>1. Reply("non_directory_evidence_dir")
    BY <1>7 DEF LookUp
  <2> QED
    BY <1>3, <1>7, <2>1
<1>8. CASE Lookup(tree, candidate) = "dir"
  <2>1. spc' = "canonicalize" /\ UNCHANGED <<candidate, resolved, reply>>
    BY <1>8 DEF LookUp
  <2> QED
    BY <1>1, <1>8, <2>1 DEF PathsInv
<1> QED
  BY <1>2, <1>4, <1>5, <1>6, <1>7, <1>8

LEMMA CanonicalizeKeeps == PathsInv /\ Canonicalize => PathsInv'
<1> SUFFICES ASSUME PathsInv, Canonicalize PROVE PathsInv'
  OBVIOUS
<1> DEFINE real == Real(tree, candidate)
<1>1. /\ call \in Arguments /\ tree \in Trees /\ IsFileSystem(tree) /\ spc = "canonicalize" /\ reply = "none"
      /\ call.form = "string" /\ Boundary(call) = "inside" /\ candidate = Full(call)
      /\ still => Lookup(tree, candidate) = "dir"
      /\ UNCHANGED <<tree, call, swaps, still>>
  BY PathConstants DEF PathsInv, Canonicalize
<1>2. /\ Within(tree, call) => InsideRoot(real)
      /\ ~Climbs(call)
  BY <1>1, WithinIff, ClimbsOut
<1>3. still => real \notin {Nowhere, NotDir}
  BY <1>1, FullTyped, LookupDir
<1>4. CASE real \in {Nowhere, NotDir}
  <2>1. Reply("evidence_read_failed")
    BY <1>4 DEF Canonicalize
  <2>2. Fitting("evidence_read_failed")
    BY <1>2, <1>3, <1>4 DEF Fitting
  <2> QED
    BY <1>1, <2>1, <2>2, Replied
<1>5. CASE real \notin {Nowhere, NotDir} /\ ~InsideRoot(real)
  <2>1. Reply("outside_allowlisted_root")
    BY <1>5 DEF Canonicalize
  <2>2. Fitting("outside_allowlisted_root")
    BY <1>2, <1>5 DEF Fitting
  <2> QED
    BY <1>1, <2>1, <2>2, Replied
<1>6. CASE real \notin {Nowhere, NotDir} /\ InsideRoot(real)
  <2>1. resolved' = real /\ spc' = "entries" /\ UNCHANGED <<candidate, reply>>
    BY <1>6 DEF Canonicalize
  <2>2. InsideRoot(resolved')
    BY <1>6, <2>1
  <2> HIDE DEF real
  <2>3. /\ tree' \in Trees /\ call' \in Arguments /\ reply' = "none"
        /\ call'.form = "string" /\ Boundary(call') = "inside" /\ candidate' = Full(call')
        /\ still' => Lookup(tree', candidate') = "dir"
        /\ still' => resolved' = Real(tree', candidate')
    BY <1>1, <2>1 DEF real
  <2> QED
    BY <2>1, <2>2, <2>3 DEF PathsInv
<1> QED
  BY <1>4, <1>5, <1>6

LEMMA EntriesKeep == PathsInv /\ RejectSymlinkEntries => PathsInv'
<1> SUFFICES ASSUME PathsInv, RejectSymlinkEntries PROVE PathsInv'
  OBVIOUS
<1>1. /\ call \in Arguments /\ tree \in Trees /\ IsFileSystem(tree) /\ spc = "entries" /\ reply = "none"
      /\ call.form = "string" /\ Boundary(call) = "inside" /\ candidate = Full(call)
      /\ still => Lookup(tree, candidate) = "dir" /\ resolved = Real(tree, candidate)
      /\ InsideRoot(resolved)
      /\ UNCHANGED <<tree, call, swaps, still>>
  BY PathConstants DEF PathsInv, RejectSymlinkEntries
<1>2. ~Climbs(call) /\ ~Contains(call.path, "..")
  <2>1. ~Climbs(call)
    BY <1>1, ClimbsOut
  <2>2. ~Contains(call.path, "..")
    BY <1>1, BoundaryJudged
  <2> QED
    BY <2>1, <2>2
<1>3. still => (Within(tree, call) <=> ~LinkIn(tree, resolved))
  BY <1>1, WithinIff
<1>4. still => KindOf(tree, Real(tree, resolved)) = "dir"
  <2> SUFFICES ASSUME still PROVE KindOf(tree, Real(tree, resolved)) = "dir"
    OBVIOUS
  <2>1. resolved \in Seq(STRING) /\ KindOf(tree, resolved) = "dir"
    BY <1>1, FullTyped, LookupDir
  <2>2. Real(tree, resolved) = resolved
    BY <1>1, <2>1, RealFixed
  <2> QED
    BY <2>1, <2>2
<1>5. CASE KindOf(tree, Real(tree, resolved)) # "dir"
  <2>1. Reply("evidence_read_failed")
    BY <1>5 DEF RejectSymlinkEntries
  <2>2. Fitting("evidence_read_failed")
    BY <1>2, <1>4, <1>5 DEF Fitting
  <2> QED
    BY <1>1, <2>1, <2>2, Replied
<1>6. CASE KindOf(tree, Real(tree, resolved)) = "dir" /\ LinkIn(tree, resolved)
  <2>1. Reply("symlink_entry")
    BY <1>6 DEF RejectSymlinkEntries, LinkIn
  <2>2. Fitting("symlink_entry")
    BY <1>2, <1>3, <1>6 DEF Fitting
  <2> QED
    BY <1>1, <2>1, <2>2, Replied
<1>7. CASE KindOf(tree, Real(tree, resolved)) = "dir" /\ ~LinkIn(tree, resolved)
  <2>1. Reply("read")
    BY <1>7 DEF RejectSymlinkEntries, LinkIn
  <2>2. Fitting("read")
    BY <1>1, <1>2, <1>3, <1>7 DEF Fitting
  <2> QED
    BY <1>1, <2>1, <2>2, Replied
<1> QED
  BY <1>5, <1>6, <1>7

LEMMA SwapKeeps == PathsInv /\ Swap => PathsInv'
<1> SUFFICES ASSUME PathsInv, Swap PROVE PathsInv'
  OBVIOUS
<1>1. tree' \in Trees /\ reply = "none" /\ UNCHANGED <<call, spc, candidate, resolved, reply>>
  BY DEF Swap
<1>2. spc # "parse" => ~still'
  BY DEF Swap
<1> QED
  BY <1>1, <1>2 DEF PathsInv

\* PathsConfined, for every set of file systems and of calls: the MCP server
\* serves every permitted call while the file system stands still, and only
\* what is within the root, a link only with a dot behind it; and
\* whatever changes never a path that was not inside the root when it was
\* made canonical, nor one that climbs out.
THEOREM PathsStayConfined == PathsSpec => []PathsConfined
<1>1. PathsInit => PathsInv
  BY DEF PathsInit, PathsInv
<1>2. PathsInv /\ [PathsNext]_pathVars => PathsInv'
  <2> SUFFICES ASSUME PathsInv, [PathsNext]_pathVars PROVE PathsInv'
    OBVIOUS
  <2>1. CASE UNCHANGED pathVars
    BY <2>1 DEF PathsInv, pathVars, Fitting
  <2> QED
    BY <2>1, ParseKeeps, LookUpKeeps, CanonicalizeKeeps, EntriesKeep, SwapKeeps DEF PathsNext
<1>3. PathsInv => PathsConfined
  BY FittingConfines DEF PathsInv
<1> QED
  BY <1>1, <1>2, <1>3, PTL DEF PathsSpec
=============================================================================
