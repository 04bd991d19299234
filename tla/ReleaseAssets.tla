---------------------------- MODULE ReleaseAssets ----------------------------
(***************************************************************************)
(* `cairnid release-assets verify`: a downloaded release directory is      *)
(* compared with its SHA256SUMS.txt and its release-manifest.json, and a   *)
(* receipt is issued.  Every file is opened afresh for every question that *)
(* is asked of it (is it there, what is its hash, what does it contain),   *)
(* and whoever owns the directory may write between two of them.           *)
(*                                                                         *)
(* The hash of a content is the content itself.  What can be wrong with a  *)
(* content is its set of flaws.                                            *)
(***************************************************************************)
EXTENDS Naturals, Sequences, FiniteSets

CONSTANTS
    Expected,    \* EXPECTED_RELEASE_ASSETS: a sequence of [binary, format]
    MaxWrites    \* bound on the writes to the directory

\* The pairs are distinct, and there is at least one.
ASSUME AssetConstants ==
    /\ MaxWrites \in Nat
    /\ Expected \in Seq([binary : {"cairnid", "cairnid-mcp"}, format : {"tar.gz", "zip"}])
    /\ Expected # <<>>
    /\ \A i, j \in DOMAIN Expected : Expected[i] = Expected[j] => i = j

Archive(e) == [kind |-> "archive", of |-> e]
Sbom(e) == [kind |-> "sbom", of |-> e]
Sums == [kind |-> "SHA256SUMS.txt"]
Manifest == [kind |-> "release-manifest.json"]
Stray == [kind |-> "stray"]
\* An entry that is no regular file: a directory, or a link of any kind.
Folder == [kind |-> "folder"]

Pairs == {Expected[i] : i \in DOMAIN Expected}
Assets == {Archive(e) : e \in Pairs} \cup {Sbom(e) : e \in Pairs}

\* expected_release_asset_file_names
ExpectedNames == Assets \cup {Sums, Manifest}

\* What can be wrong with the bytes of an asset: it cannot be opened, cannot
\* be decoded, or says something else than the release build writes.
AssetFlaws(n) ==
    {"denied", "garbled"} \cup
    (IF n.kind = "sbom" THEN {"format"}
     ELSE IF n.of.format = "zip" THEN {"members", "metadata"} ELSE {"members", "header", "metadata"})

AssetContents(n) == {[build |-> b, flaws |-> {}] : b \in 1..2} \cup
                    {[build |-> 1, flaws |-> {f}] : f \in AssetFlaws(n)}

ManifestFlaws == {"denied", "garbled", "fields", "branch_ref", "no_ref", "run",
                  "run_url", "no_ci_run", "extra_entry"}
SumsFlaws == {"denied", "malformed", "duplicate"}

VARIABLES
    isDir, files,  \* the directory: name -> content
    opts,          \* the command line
    apc,           \* where the verifier is
    place, part,   \* the pair that it looks at, and whether at its archive or its sbom
    sums,          \* the entries it read from SHA256SUMS.txt
    manifest,      \* the manifest it parsed, <<>> for none
    covered,       \* whether SHA256SUMS.txt covered the manifest it hashed
    hashes,        \* asset -> hash it verified: the receipt's lists
    faults,        \* failures
    exitCode,      \* <<>> until the command ends
    writes, quiet, \* writes made; none since the command began
    late           \* names written after they were hashed

assetVars == <<isDir, files, opts, apc, place, part, sums, manifest, covered, hashes, faults,
               exitCode, writes, quiet, late>>

-----------------------------------------------------------------------------
(* The directory.                                                          *)

With(n, c, f) == [x \in DOMAIN f \cup {n} |-> IF x = n THEN c ELSE f[x]]

AuxiliaryFor(n) == IF n.kind = "archive" /\ n.of.binary = "cairnid" THEN "listed" ELSE "none"

\* What the release workflow writes for the given assets.
ManifestFor(contents) ==
    [flaws |-> {},
     entries |-> [n \in DOMAIN contents |->
                    [hash |-> contents[n], fields |-> "right", auxiliary |-> AuxiliaryFor(n)]]]

SumsFor(covers) == [flaws |-> {}, entries |-> covers]

\* Everything a manifest can say that differs from m in one respect.
ManifestVariants(m) ==
    {[m EXCEPT !.flaws = {f}] : f \in ManifestFlaws} \cup
    {[m EXCEPT !.entries = [x \in DOMAIN m.entries \ {n} |-> m.entries[x]]] :
        n \in DOMAIN m.entries} \cup
    {[m EXCEPT !.entries[n].hash.build = 3 - @] : n \in DOMAIN m.entries} \cup
    (UNION {{[m EXCEPT !.entries[n].fields = w] : w \in {"kind", "other"}} : n \in DOMAIN m.entries}) \cup
    (UNION {{[m EXCEPT !.entries[n].auxiliary = a] : a \in {"none", "listed", "wrong"}} :
              n \in {x \in DOMAIN m.entries : x.kind = "archive"}})

\* A directory whose SHA256SUMS.txt covers the rest of it.
Covered(contents, m) ==
    LET listed == With(Manifest, m, contents) IN With(Sums, SumsFor(listed), listed)

Published(contents) == Covered(contents, ManifestFor(contents))

Clean == [n \in Assets |-> [build |-> 1, flaws |-> {}]]
Rebuilt == [n \in Assets |-> [build |-> 2, flaws |-> {}]]

Proper == [input |-> "valid", provenance |-> TRUE, sboms |-> TRUE, immutable |-> TRUE,
           release_url |-> "tag", run_url |-> "none"]

\* The command line takes a release URL or the URL of a workflow run.
Options ==
    {Proper, [Proper EXCEPT !.provenance = FALSE], [Proper EXCEPT !.sboms = FALSE],
     [Proper EXCEPT !.immutable = FALSE], [Proper EXCEPT !.input = "invalid"]} \cup
    {[Proper EXCEPT !.release_url = u] : u \in {"blank", "other"}} \cup
    {[Proper EXCEPT !.release_url = "none", !.run_url = u] : u \in {"same", "other"}}

\* At most one thing is wrong with what was released, or with the command
\* line.
AssetsInit ==
    /\ isDir = TRUE
    /\ \/ opts \in Options /\ files = Published(Clean)
       \/ /\ opts \in {Proper, [Proper EXCEPT !.release_url = "none", !.run_url = "same"]}
          /\ \E m \in ManifestVariants(ManifestFor(Clean)) : files = Covered(Clean, m)
       \/ /\ opts = Proper
          /\ \E n \in Assets : \E c \in AssetContents(n) :
               files = Published([Clean EXCEPT ![n] = c])
    /\ apc = "idle" /\ place = 1 /\ part = "archive"
    /\ sums = <<>> /\ manifest = <<>> /\ covered = FALSE /\ hashes = <<>>
    /\ faults = {} /\ exitCode = <<>>
    /\ writes = 0 /\ quiet = TRUE /\ late = {}

Touch(new, names) ==
    /\ exitCode = <<>> /\ writes < MaxWrites /\ isDir
    /\ files' = new /\ writes' = writes + 1
    /\ quiet' = (quiet /\ apc = "idle")
    /\ late' = late \cup (names \cap DOMAIN hashes)
    /\ UNCHANGED <<opts, apc, place, part, sums, manifest, covered, hashes, faults, exitCode>>

Put(n, c) == Touch(With(n, c, files), {n}) /\ UNCHANGED isDir

ReplaceAsset(n) == \E c \in AssetContents(n) \ {files[x] : x \in {n} \cap DOMAIN files} : Put(n, c)

\* Removes it, or puts a directory in its place: is_file says no to both.
RemoveFile(n) ==
    /\ n \in DOMAIN files
    /\ Touch([x \in DOMAIN files \ {n} |-> files[x]], {n}) /\ UNCHANGED isDir

AddStray(n) == n \notin DOMAIN files /\ Put(n, [build |-> 1, flaws |-> {}])

RewriteManifest ==
    /\ Manifest \in DOMAIN files
    /\ \E m \in ManifestVariants(files[Manifest]) : Put(Manifest, m)

RewriteSums ==
    /\ Sums \in DOMAIN files
    /\ LET s == files[Sums] IN
       \/ \E f \in SumsFlaws : Put(Sums, [s EXCEPT !.flaws = {f}])
       \/ \E n \in DOMAIN s.entries :
            Put(Sums, [s EXCEPT !.entries = [x \in DOMAIN s.entries \ {n} |-> s.entries[x]]])
       \/ Put(Sums, [s EXCEPT !.entries = <<>>])
       \/ Put(Sums, [s EXCEPT !.entries = With(Stray, [build |-> 1, flaws |-> {}], s.entries)])
       \/ Put(Sums, SumsFor([n \in DOMAIN files \ {Sums, Folder} |-> files[n]]))

\* The directory is moved away, or another build is moved into its place.
MoveAway == Touch(<<>>, DOMAIN files) /\ isDir' = FALSE
Republish == Touch(Published(Rebuilt), DOMAIN files) /\ UNCHANGED isDir

-----------------------------------------------------------------------------
(* What the verifier asks.                                                 *)

IsFile(n) == n \in DOMAIN files
Opens(n) == IsFile(n) /\ "denied" \notin files[n].flaws
Decodes(n) == Opens(n) /\ "garbled" \notin files[n].flaws

Fault(condition, label) == IF condition THEN {label} ELSE {}

AttestationConfirmations(o) ==
    Fault(~o.provenance, "provenance") \cup Fault(~o.sboms, "sbom_attestations")

ImmutabilityConfirmation(o) == Fault(o.release_url # "none" /\ ~o.immutable, "immutability")

\* A blank release URL is a URL for the other checks and none for this one.
PublicReleaseUrl(o) == Fault(o.release_url # "tag", "release_url")

OptionFaults(o) ==
    AttestationConfirmations(o) \cup ImmutabilityConfirmation(o) \cup PublicReleaseUrl(o)

\* The command checks its inputs before it looks at the directory.
ValidOperatorInputs(o) == o.input = "valid"

\* Only regular files are held against the list; the rest is passed over.
Inventory == Fault(~(DOMAIN files \ {Folder} \subseteq ExpectedNames), "unexpected_file")

\* A line that does not parse is dropped; of two lines for one file the
\* last one counts; both are failures.  A line for a name that is not of the
\* release is read like any other and never asked for.
ChecksumEntries == IF Opens(Sums) THEN files[Sums].entries ELSE <<>>

ChecksumFaults ==
    IF ~Opens(Sums) THEN {"SHA256SUMS.txt"}
    ELSE Fault(files[Sums].flaws # {} \/ files[Sums].entries = <<>>, "SHA256SUMS.txt")

ReadJson(n) == IF Decodes(n) THEN <<files[n]>> ELSE <<>>

\* The hash of the file, or nothing.
VerifiedHash(n) ==
    IF Opens(n) /\ n \in DOMAIN sums /\ sums[n] = files[n] THEN {files[n]} ELSE {}

\* A file that has gone since it was last looked at is no failure here.
HashFaults(n) == Fault(IsFile(n) /\ VerifiedHash(n) = {}, "hash")

CommitAndIdentity(m) == Fault("fields" \in m.flaws, "manifest_fields")

WorkflowRef(m, o) ==
    Fault("no_ref" \in m.flaws \/ ("branch_ref" \in m.flaws /\ o.release_url # "none"),
          "workflow_ref")

RunMetadata(m, o) ==
    Fault("run" \in m.flaws, "run_metadata") \cup
    Fault(o.run_url = "other" \/ (o.run_url = "same" /\ "run_url" \in m.flaws), "run_url") \cup
    Fault("no_ci_run" \in m.flaws /\ o.release_url # "none", "validated_ci_run_url")

AssetCounts(m) ==
    LET Kind(n) == IF m.entries[n].fields = "kind" THEN "other" ELSE n.kind
        Count(k) == Cardinality({n \in DOMAIN m.entries : Kind(n) = k})
    IN  Fault(\/ "extra_entry" \in m.flaws
              \/ Cardinality(DOMAIN m.entries) # 2 * Len(Expected)
              \/ Count("archive") # Len(Expected)
              \/ Count("sbom") # Len(Expected), "asset_counts")

ManifestMetadata(o) ==
    IF manifest = <<>> THEN {}
    ELSE LET m == manifest[1] IN
         CommitAndIdentity(m) \cup WorkflowRef(m, o) \cup RunMetadata(m, o) \cup AssetCounts(m)

AuxiliaryFiles(n, entry) ==
    Fault(n.kind = "archive" /\ entry.auxiliary # AuxiliaryFor(n), "auxiliary_files")

ManifestAsset_AnyHash(n, entry, hash) ==
    Fault(entry.fields # "right", "manifest_asset") \cup AuxiliaryFiles(n, entry)

ManifestAsset(n, entry, hash) ==
    Fault(entry.fields # "right" \/ entry.hash # hash, "manifest_asset") \cup
    AuxiliaryFiles(n, entry)

\* Only a manifest that was parsed is asked for the asset.
ManifestEntry(n, hash) ==
    IF manifest = <<>> THEN {}
    ELSE IF n \in DOMAIN manifest[1].entries
         THEN ManifestAsset(n, manifest[1].entries[n], hash)
         ELSE {"manifest_entry"}

\* Paths, missing, unexpected and CLI-only members.
ArchiveMembers(n) == files[n].flaws \cap {"members"}
GzipHeader(n) == files[n].flaws \cap {"header"}
MemberMetadata(n) == files[n].flaws \cap {"metadata"}
SbomFormat(n) == files[n].flaws \cap {"format"}

\* safe_public_github_url
SafeUrl(url) == IF url \in {"tag", "other"} THEN url ELSE "none"

\* The receipt, as the evidence contract sees it.
Receipt ==
    [status |-> IF faults = {} THEN "ok" ELSE "failed",
     release_url |-> SafeUrl(opts.release_url),
     immutable |-> opts.release_url # "none" /\ opts.immutable,
     checksums |-> IsFile(Sums) /\ "SHA256SUMS.txt" \notin faults,
     manifest |-> IsFile(Manifest) /\ covered,
     attested |-> opts.provenance /\ opts.sboms,
     archives |-> {e \in Pairs : Archive(e) \in DOMAIN hashes},
     sboms |-> {e \in Pairs : Sbom(e) \in DOMAIN hashes}]

\* validate_release_assets_verification
ContractArchives(r) == Fault(r.archives # Pairs, "archives")
ContractSboms(r) == Fault(r.sboms # Pairs, "sboms")
ContractUrl(r) == Fault(r.release_url # "tag", "release_url")

ContractFaults(r) ==
    Fault(r.status # "ok", "status") \cup ContractUrl(r) \cup
    Fault(~r.immutable, "immutability") \cup Fault(~r.checksums, "checksums") \cup
    Fault(~r.manifest, "release_manifest") \cup Fault(~r.attested, "attestations") \cup
    ContractArchives(r) \cup ContractSboms(r)

-----------------------------------------------------------------------------
(* The verifier, one look at the file system at a time.                    *)

Ended(code) == exitCode' = <<code>> /\ apc' = "done"

\* Exit codes: 0 ready, 1 internal error, 3 gate failed, 4 operator input.
RunVerify ==
    /\ apc = "idle"
    /\ IF ValidOperatorInputs(opts) /\ isDir
       THEN apc' = "inventory" /\ faults' = OptionFaults(opts) /\ UNCHANGED exitCode
       ELSE Ended(4) /\ UNCHANGED faults
    /\ UNCHANGED <<isDir, files, opts, place, part, sums, manifest, covered, hashes, writes, quiet, late>>

ReadInventory ==
    /\ apc = "inventory"
    /\ IF isDir
       THEN apc' = "checksums" /\ faults' = faults \cup Inventory /\ UNCHANGED exitCode
       ELSE Ended(1) /\ UNCHANGED faults
    /\ UNCHANGED <<isDir, files, opts, place, part, sums, manifest, covered, hashes, writes, quiet, late>>

ReadChecksums ==
    /\ apc = "checksums" /\ apc' = "manifest"
    /\ sums' = ChecksumEntries /\ faults' = faults \cup ChecksumFaults
    /\ UNCHANGED <<isDir, files, opts, place, part, manifest, covered, hashes, exitCode, writes, quiet, late>>

ReadManifest ==
    /\ apc = "manifest" /\ apc' = "manifest_hash"
    /\ manifest' = ReadJson(Manifest)
    /\ faults' = faults \cup Fault(~Decodes(Manifest), "manifest")
    /\ UNCHANGED <<isDir, files, opts, place, part, sums, covered, hashes, exitCode, writes, quiet, late>>

HashManifest ==
    /\ apc = "manifest_hash" /\ apc' = "find"
    /\ covered' = (VerifiedHash(Manifest) # {})
    /\ faults' = faults \cup Fault(~covered', "manifest_not_covered") \cup ManifestMetadata(opts)
    /\ UNCHANGED <<isDir, files, opts, place, part, sums, manifest, hashes, exitCode, writes, quiet, late>>

\* An archive comes before its sbom, and both before the next pair.
Current == IF part = "archive" THEN Archive(Expected[place]) ELSE Sbom(Expected[place])

Onward ==
    /\ apc' = IF part = "sbom" /\ place = Len(Expected) THEN "receipt" ELSE "find"
    /\ part' = IF part = "archive" THEN "sbom" ELSE "archive"
    /\ place' = IF part = "archive" THEN place ELSE place + 1

Stay(next) == apc' = next /\ UNCHANGED <<place, part>>

FindAsset ==
    /\ apc = "find"
    /\ IF IsFile(Current) THEN Stay("hash") /\ UNCHANGED faults
       ELSE Onward /\ faults' = faults \cup {"missing_asset"}
    /\ UNCHANGED <<isDir, files, opts, sums, manifest, covered, hashes, exitCode, writes, quiet, late>>

HashAsset ==
    /\ apc = "hash"
    /\ LET n == Current IN
       IF VerifiedHash(n) = {}
       THEN Onward /\ faults' = faults \cup HashFaults(n) /\ UNCHANGED hashes
       ELSE /\ Stay(IF n.kind = "archive" THEN "members" ELSE "format")
            /\ hashes' = With(n, files[n], hashes)
            /\ faults' = faults \cup ManifestEntry(n, files[n])
    /\ UNCHANGED <<isDir, files, opts, sums, manifest, covered, exitCode, writes, quiet, late>>

\* One more look at the asset that was hashed.
Inspect(at, found, next) ==
    /\ apc = at
    /\ IF Decodes(Current) THEN faults' = faults \cup found /\ next
       ELSE Onward /\ faults' = faults \cup {at}
    /\ UNCHANGED <<isDir, files, opts, sums, manifest, covered, hashes, exitCode, writes, quiet, late>>

ReadMembers ==
    Inspect("members", ArchiveMembers(Current),
            Stay(IF Current.of.format = "zip" THEN "metadata" ELSE "header"))

ReadHeader == Inspect("header", GzipHeader(Current), Stay("metadata"))
ReadMetadata == Inspect("metadata", MemberMetadata(Current), Onward)
ReadSbom == Inspect("format", SbomFormat(Current), Onward)

\* The receipt looks once more whether SHA256SUMS.txt and the manifest are
\* there, and a receipt without failures has still to satisfy the contract.
IssueReceipt ==
    /\ apc = "receipt"
    /\ faults' = IF faults = {} THEN ContractFaults(Receipt) ELSE faults
    /\ Ended(IF faults' = {} THEN 0 ELSE 3)
    /\ UNCHANGED <<isDir, files, opts, place, part, sums, manifest, covered, hashes, writes, quiet, late>>

Verifier ==
    \/ RunVerify \/ ReadInventory \/ ReadChecksums \/ ReadManifest \/ HashManifest
    \/ FindAsset \/ HashAsset \/ ReadMembers \/ ReadHeader \/ ReadMetadata \/ ReadSbom
    \/ IssueReceipt

Publisher ==
    \/ \E n \in Assets : ReplaceAsset(n)
    \/ \E n \in ExpectedNames : RemoveFile(n)
    \/ \E n \in {Stray, Folder} : AddStray(n)
    \/ RewriteManifest \/ RewriteSums \/ MoveAway \/ Republish

AssetsNext == Verifier \/ Publisher

AssetsSpec == AssetsInit /\ [][AssetsNext]_assetVars

-----------------------------------------------------------------------------
(* Properties.                                                             *)

\* The release holds what the workflow publishes, named correctly on the
\* command line: every asset, the manifest that the workflow writes for them,
\* no other regular file, and a SHA256SUMS.txt that gives each its hash.  More
\* the verifier does not ask: directories and links beside the assets are
\* passed over, SHA256SUMS.txt may list other names too, and which run the
\* manifest names is compared with --run-url only.
Genuine ==
    /\ opts = Proper
    /\ DOMAIN files \ {Folder} = ExpectedNames
    /\ \A n \in Assets : files[n].flaws = {}
    /\ \E f \in SUBSET {"run_url"} :
         files[Manifest] = [ManifestFor([n \in Assets |-> files[n]]) EXCEPT !.flaws = f]
    /\ files[Sums].flaws = {}
    /\ \A n \in Assets \cup {Manifest} :
         n \in DOMAIN files[Sums].entries /\ files[Sums].entries[n] = files[n]

\* run_release_assets: while nobody writes to the directory, the command
\* exits with 0 for exactly the directories that hold a genuine release, in
\* the sense above.  What the verifier lets through the evidence contract
\* never refuses, and nothing that a later gate would refuse gets a receipt.
QuietVerdict == (quiet /\ exitCode # <<>>) => (exitCode = <<0>> <=> (isDir /\ Genuine))

\* release_assets_verification_report: whoever writes to the directory
\* meanwhile, a receipt that says ok lists every asset once, under the hash
\* that both SHA256SUMS.txt and the manifest gave for it, and an asset that
\* was not written after it was hashed has the contents of a release.
ReceiptHolds ==
    exitCode = <<0>> =>
        /\ DOMAIN hashes = Assets
        /\ \A n \in Assets :
             /\ n \in DOMAIN sums /\ hashes[n] = sums[n]
             /\ manifest # <<>> /\ manifest[1].entries[n].hash = hashes[n]
             /\ n \notin late => hashes[n].flaws = {}

\* A receipt can be relied on, with and without writers beside the verifier.
AssetsJudged == QuietVerdict /\ ReceiptHolds
=============================================================================
