---------------------------- MODULE EvidencePaths ----------------------------
(***************************************************************************)
(* How the MCP server decides which directory a tool call may read: the    *)
(* arguments are parsed, the path is judged by its components, the         *)
(* directory is looked up, made canonical and compared with the root that  *)
(* the server was started with, and its entries are searched for symlinks. *)
(* The file system may change between two of these.                        *)
(*                                                                         *)
(* A path is the sequence of its names; a trailing separator is a last ".". *)
(* An absolute path starts at the file system's root.                      *)
(***************************************************************************)
EXTENDS Naturals, Sequences, SequencesExt, FiniteSets

CONSTANTS
    SuppliedRoot,   \* --evidence-root, made absolute
    CanonicalRoot,  \* the same directory without symlinks
    Trees,          \* file systems: path -> [type, to], `to` for links
    Arguments,      \* tool calls: [form, absolute, path]
    MaxSwaps        \* bound on changes of the file system

\* Where a path leads that does not exist, or goes on behind a file: names
\* that no directory has.
Nowhere == <<".">>
NotDir == <<"..">>

KindOf(fs, path) == IF path = <<>> THEN "dir" ELSE IF path \in DOMAIN fs THEN fs[path].type ELSE "missing"

\* Every entry is in a directory; a link is given by where it leads in the end.
IsFileSystem(fs) ==
    \A p \in DOMAIN fs :
        /\ p \in Seq(STRING) /\ p # <<>> /\ ~Contains(p, ".") /\ ~Contains(p, "..")
        /\ KindOf(fs, Front(p)) = "dir"
        /\ fs[p].type \in {"dir", "file", "link"}
        /\ fs[p].type = "link" => fs[p].to = Nowhere \/ KindOf(fs, fs[p].to) \in {"dir", "file"}

ASSUME PathConstants ==
    /\ MaxSwaps \in Nat
    /\ SuppliedRoot \in Seq(STRING) /\ CanonicalRoot \in Seq(STRING)
    /\ \A fs \in Trees : IsFileSystem(fs)
    /\ Arguments \subseteq [form : {"string", "unknown", "number", "age", "empty"},
                            absolute : BOOLEAN, path : Seq(STRING)]

VARIABLES
    tree,       \* the file system
    call,       \* the call being served
    spc,        \* where the server is
    candidate,  \* the path it looks up
    resolved,   \* what that was made canonical to
    reply,     \* "none", "read" or the code of an error
    swaps, still  \* changes made; none since the call began

pathVars == <<tree, call, spc, candidate, resolved, reply, swaps, still>>

\* Follow a path name by name, links included.
Enter(fs, at, name) ==
    LET next == Append(at, name) IN
    IF at \in {Nowhere, NotDir} THEN at
    ELSE IF KindOf(fs, at) # "dir" THEN NotDir
    ELSE IF name = "." THEN at
    ELSE IF KindOf(fs, next) = "missing" THEN Nowhere
    ELSE IF KindOf(fs, next) = "link" THEN fs[next].to
    ELSE next
Real(fs, path) ==
    LET at[i \in 0..Len(path)] == IF i = 0 THEN <<>> ELSE Enter(fs, at[i - 1], path[i])
    IN  at[Len(path)]

\* symlink_metadata: the directories on the way are followed, the last
\* name is not, unless it is a dot.
Lookup(fs, path) ==
    LET parent == Real(fs, Front(path)) IN
    IF path = <<>> THEN "dir"
    ELSE IF parent = Nowhere THEN "missing"
    ELSE IF parent = NotDir \/ KindOf(fs, parent) # "dir" THEN "unreadable"
    ELSE IF Last(path) = "." THEN "dir"
    ELSE KindOf(fs, Append(parent, Last(path)))

\* The server starts only if its root is a directory and no symlink.
StartsWith(fs, root) == Lookup(fs, root) = "dir"

PathsInit ==
    /\ tree \in Trees /\ StartsWith(tree, SuppliedRoot)
    /\ call \in Arguments
    /\ spc = "parse" /\ candidate = <<>> /\ resolved = <<>> /\ reply = "none"
    /\ swaps = 0 /\ still = TRUE

-----------------------------------------------------------------------------
(* Judging a path by its components.                                       *)

Descend_Saturating(b, name) ==
    IF b.out \/ name = "." THEN b
    ELSE IF name # ".." THEN [b EXCEPT !.depth = @ + 1]
    ELSE IF b.depth = 0 THEN [b EXCEPT !.up = TRUE]
    ELSE [b EXCEPT !.depth = @ - 1, !.up = TRUE]
Descend(b, name) ==
    IF b.out \/ name = "." THEN b
    ELSE IF name # ".." THEN [b EXCEPT !.depth = @ + 1]
    ELSE IF b.depth = 0 THEN [b EXCEPT !.out = TRUE]
    ELSE [b EXCEPT !.depth = @ - 1, !.up = TRUE]
RelativeBoundary(path) ==
    LET b[i \in 0..Len(path)] ==
          IF i = 0 THEN [depth |-> 0, up |-> FALSE, out |-> FALSE] ELSE Descend(b[i - 1], path[i])
        end == b[Len(path)]
    IN  IF end.out THEN "outside" ELSE IF end.up THEN "traversal" ELSE "inside"

\* lexical_absolute_path_key
PushComponent(key, name) ==
    IF name = "." \/ (name = ".." /\ key = <<>>) THEN key
    ELSE IF name = ".." THEN Front(key) ELSE Append(key, name)
LexicalKey(path) ==
    LET key[i \in 0..Len(path)] == IF i = 0 THEN <<>> ELSE PushComponent(key[i - 1], path[i])
    IN  key[Len(path)]

AbsoluteBoundary(root, path) ==
    IF ~IsPrefix(LexicalKey(root), LexicalKey(path)) THEN "outside"
    ELSE IF Contains(path, "..") THEN "traversal" ELSE "inside"

\* The better of what the two spellings of the root allow.
BestBoundary(path) ==
    LET both == {AbsoluteBoundary(SuppliedRoot, path), AbsoluteBoundary(CanonicalRoot, path)} IN
    IF "inside" \in both THEN "inside" ELSE IF "traversal" \in both THEN "traversal" ELSE "outside"

Boundary(c) == IF c.absolute THEN BestBoundary(c.path) ELSE RelativeBoundary(c.path)

\* evidence_dir given as null or left out is the default child of the root;
\* what the parser refuses is refused before any path is looked at.
ArgumentError(c) ==
    CASE c.form = "unknown" -> "unknown_argument"
      [] c.form = "number" -> "invalid_evidence_dir"
      [] c.form = "age" -> "invalid_max_age_days"
      [] c.form = "empty" -> "empty_evidence_dir"
      [] OTHER -> "none"

-----------------------------------------------------------------------------
(* Serving a call.                                                         *)

Reply(a) == reply' = a /\ spc' = "done" /\ UNCHANGED <<candidate, resolved>>

ParseCall ==
    /\ spc = "parse"
    /\ IF ArgumentError(call) # "none" THEN Reply(ArgumentError(call))
       ELSE IF Boundary(call) = "outside" THEN Reply("outside_allowlisted_root")
       ELSE IF Boundary(call) = "traversal" THEN Reply("parent_traversal")
       ELSE /\ candidate' = IF call.absolute THEN call.path ELSE CanonicalRoot \o call.path
            /\ spc' = "look up" /\ UNCHANGED <<resolved, reply>>
    /\ UNCHANGED <<tree, call, swaps, still>>

LookUp ==
    /\ spc = "look up"
    /\ CASE Lookup(tree, candidate) = "missing" -> Reply("missing_evidence_dir")
         [] Lookup(tree, candidate) = "unreadable" -> Reply("evidence_read_failed")
         [] Lookup(tree, candidate) = "link" -> Reply("symlinked_evidence_dir")
         [] Lookup(tree, candidate) = "file" -> Reply("non_directory_evidence_dir")
         [] Lookup(tree, candidate) = "dir" -> spc' = "canonicalize" /\ UNCHANGED <<candidate, resolved, reply>>
    /\ UNCHANGED <<tree, call, swaps, still>>

InsideRoot(path) == IsPrefix(CanonicalRoot, path)

Canonicalize ==
    /\ spc = "canonicalize"
    /\ LET real == Real(tree, candidate) IN
       IF real \in {Nowhere, NotDir} THEN Reply("evidence_read_failed")
       ELSE IF ~InsideRoot(real) THEN Reply("outside_allowlisted_root")
       ELSE resolved' = real /\ spc' = "entries" /\ UNCHANGED <<candidate, reply>>
    /\ UNCHANGED <<tree, call, swaps, still>>

\* read_dir follows a link that has taken the directory's place.
EntriesOf(fs, path) == {p \in DOMAIN fs : p # <<>> /\ Front(p) = Real(fs, path)}

RejectSymlinkEntries ==
    /\ spc = "entries"
    /\ IF KindOf(tree, Real(tree, resolved)) # "dir"
       THEN Reply("evidence_read_failed")
       ELSE IF \E p \in EntriesOf(tree, resolved) : tree[p].type = "link" THEN Reply("symlink_entry")
       ELSE Reply("read")
    /\ UNCHANGED <<tree, call, swaps, still>>

Swap ==
    /\ swaps < MaxSwaps /\ reply = "none"
    /\ tree' \in Trees \ {tree}
    /\ swaps' = swaps + 1 /\ still' = (spc = "parse")
    /\ UNCHANGED <<call, spc, candidate, resolved, reply>>

PathsNext == ParseCall \/ LookUp \/ Canonicalize \/ RejectSymlinkEntries \/ Swap

PathsSpec == PathsInit /\ [][PathsNext]_pathVars

-----------------------------------------------------------------------------
(* Properties.                                                             *)

\* A path begins with the names of key, dots aside.
Named(path, i) == Cardinality({j \in 1..i : path[j] # "."})
BeginsWith(path, key) ==
    /\ Len(key) <= Named(path, Len(path))
    /\ \A i \in DOMAIN path :
         (path[i] # "." /\ Named(path, i) <= Len(key)) => path[i] = key[Named(path, i)]

\* The path that a call names, from the file system's root.
Full(c) == IF c.absolute THEN c.path ELSE CanonicalRoot \o c.path

\* The call leads to a directory within the root: no step up, spelled from one
\* of the root's two names if absolute, a directory for symlink_metadata, inside
\* the root once all links are followed, without a link in it.
Within(fs, c) ==
    LET target == Real(fs, Full(c))
    IN  /\ c.form = "string" /\ ~Contains(c.path, "..")
        /\ c.absolute => \E root \in {SuppliedRoot, CanonicalRoot} :
                            BeginsWith(c.path, LexicalKey(root))
        /\ Lookup(fs, Full(c)) = "dir"
        /\ \E k \in 0..Len(target) : SubSeq(target, 1, k) = CanonicalRoot
        /\ \A p \in DOMAIN fs : (Len(p) = Len(target) + 1 /\ IsPrefix(target, p)) => fs[p].type # "link"

\* The last name of a path, dots aside, is not that of a link.
NamesNoLink(fs, path) ==
    \A k \in 1..Len(path) :
        (path[k] # "." /\ \A j \in (k + 1)..Len(path) : path[j] = ".")
            => Lookup(fs, SubSeq(path, 1, k)) # "link"

\* A call may read the directory it names, if that is within the root and is
\* itself no link, as docs/mcp.md:106 and :174 have it.
Permitted(fs, c) == Within(fs, c) /\ NamesNoLink(fs, Full(c))

\* resolve_evidence_dir_in_roots, while the file system stands still: a
\* permitted call is served, under either name of the root; and a served one is
\* within the root, and permitted unless its path ends in a dot.  (The system
\* follows a link that has a dot or a separator behind it, so symlink_metadata
\* sees a directory there and the server does not refuse the link, as the two
\* lines of docs/mcp.md say it does; where it leads is still checked.)
ServedAsPermitted ==
    (still /\ reply # "none") =>
        /\ Permitted(tree, call) => reply = "read"
        /\ reply = "read" =>
             /\ Within(tree, call)
             /\ Permitted(tree, call) \/ Last(Full(call)) = "."

\* The same while the file system changes: a call is served only for a
\* path that was inside the root when it was made canonical, and a call that
\* climbs out of the root is told so, whatever is on the disk.
NeverOutside ==
    /\ reply = "read" => /\ IsPrefix(CanonicalRoot, resolved)
                          /\ ~Contains(call.path, "..")
    /\ (/\ reply # "none" /\ call.form = "string" /\ ~call.absolute
        /\ \E k \in 1..Len(call.path) :
              Cardinality({i \in 1..k : call.path[i] = ".."})
                > Cardinality({i \in 1..k : call.path[i] \notin {".", ".."}}))
       => reply = "outside_allowlisted_root"

\* The server reads where it may, and nowhere else.
PathsConfined == ServedAsPermitted /\ NeverOutside
=============================================================================
