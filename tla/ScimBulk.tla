------------------------------ MODULE ScimBulk ------------------------------
(***************************************************************************)
(* POST /scim/v2/Bulk: the operations of one request name each other by    *)
(* bulkId and run in rounds, each round those whose references are         *)
(* resolved, until all are answered, none can run, or failOnErrors stops   *)
(* the job.  What one operation does to users and groups is in Directory;  *)
(* here it succeeds or fails.                                              *)
(***************************************************************************)
EXTENDS Naturals, FiniteSets

CONSTANTS
    N,       \* operations of the request
    MaxOps,  \* SCIM_BULK_MAX_OPERATIONS
    Shapes,  \* method, path and bulkId of an operation
    Limits   \* failOnErrors values tried; NoLimit: absent

NoLimit == 0
Indices == 1..N

ASSUME BulkConstants ==
    /\ N \in Nat /\ MaxOps \in Nat
    /\ Shapes \subseteq [method : {"POST", "PUT", "PATCH", "DELETE"},
                         on : {"collection", "resource"}, named : BOOLEAN]
    /\ Limits \subseteq Nat

VARIABLES
    operations,  \* the request; operation i has bulkId i if it is named
    limit,       \* failOnErrors
    phase,       \* "check", "round", "run", "done"
    ready,       \* the ready_indices of the round that are still to run
    pending, references, failed, errors,  \* as in execute_scim_bulk_job
    responses    \* the answer to each operation; "none" if it has none

bulkVars == <<operations, limit, phase, ready, pending, references, failed,
              errors, responses>>

BulkInit ==
    /\ operations \in [Indices -> {[shape |-> s, deps |-> d] :
                                     s \in Shapes, d \in SUBSET Indices}]
    /\ limit \in Limits
    /\ phase = "check" /\ ready = {}
    /\ pending = Indices /\ references = {} /\ failed = {} /\ errors = 0
    /\ responses = [i \in Indices |-> "none"]

-----------------------------------------------------------------------------
Method(i) == operations[i].shape.method
Deps(i) == operations[i].deps
Creatable == {i \in Indices : Method(i) = "POST" /\ operations[i].shape.named}

\* scim_bulk: size and failOnErrors are checked before anything runs.
ScimBulkRequest ==
    /\ phase = "check"
    /\ phase' = IF N > 0 /\ N <= MaxOps /\ limit <= MaxOps THEN "round" ELSE "done"
    /\ UNCHANGED <<operations, limit, ready, pending, references, failed, errors, responses>>

\* scim_bulk_dependencies_are_ready: references that no operation creates, or
\* whose creator failed, are left to fail when the operation runs.
Ready(i) == \A r \in Deps(i) : r \in references \/ r \in failed \/ r \notin Creatable

Below(e) == limit = NoLimit \/ e < limit

\* record_unresolved_operations, in the order of a HashSet: any.
RecordUnresolved(U) == responses' = [i \in Indices |->
                             IF i \in U THEN "unresolved" ELSE responses[i]]

\* Nothing pending can run: every one is an error, up to the limit.
GiveUp_Retries == UNCHANGED <<phase, ready, pending, failed, errors, responses>>
GiveUp ==
    \E U \in SUBSET pending :
        /\ U = pending \/ (limit # NoLimit /\ Cardinality(U) = limit - errors)
        /\ limit # NoLimit => errors + Cardinality(U) <= limit
        /\ RecordUnresolved(U)
        /\ phase' = "done" /\ ready' = {} /\ pending' = pending \ U
        /\ failed' = failed \cup (U \cap Creatable)
        /\ errors' = errors + Cardinality(U)

\* The head of the loop: who can run now?
Round ==
    LET now == {i \in pending : Ready(i)} IN
    /\ phase = "round"
    /\ \/ /\ pending = {} \/ ~Below(errors)
          /\ phase' = "done" /\ UNCHANGED <<ready, pending, failed, errors, responses>>
       \/ /\ pending # {} /\ Below(errors) /\ now # {}
          /\ phase' = "run" /\ ready' = now
          /\ UNCHANGED <<pending, failed, errors, responses>>
       \/ pending # {} /\ Below(errors) /\ now = {} /\ GiveUp
    /\ UNCHANGED <<operations, limit, references>>

\* scim_execute_bulk_operation: the method must suit the path, and a POST needs
\* a bulkId.
MethodSuits(i) ==
    operations[i].shape \in
        [method : {"POST"}, on : {"collection"}, named : {TRUE}]
          \cup [method : {"PUT", "PATCH", "DELETE"}, on : {"resource"}, named : BOOLEAN]

\* scim_resolve_bulk_path_references, scim_resolve_bulk_value_references: every
\* reference is replaced by the id of what was created, or the operation fails.
Resolvable(i) == Deps(i) \subseteq references

Admissible(i) == MethodSuits(i) /\ Resolvable(i)

Execute(i, ok) ==
    /\ pending' = pending \ {i}
    /\ references' = IF ok /\ i \in Creatable THEN references \cup {i} ELSE references
    /\ failed' = IF ~ok /\ i \in Creatable THEN failed \cup {i} ELSE failed
    /\ errors' = IF ok THEN errors ELSE errors + 1
    /\ responses' = [responses EXCEPT ![i] = IF ok THEN "ok" ELSE "error"]

\* The first operation of the round that is left: they run in the order of
\* the request.  The round ends early at the limit.
RunNext_PastLimit ==
    /\ phase = "run"
    /\ \E i \in ready, ok \in BOOLEAN :
         /\ \A j \in ready : i <= j
         /\ ok => Admissible(i)
         /\ Execute(i, ok)
         /\ ready' = ready \ {i}
         /\ phase' = IF ready' = {} THEN "round" ELSE "run"
    /\ UNCHANGED <<operations, limit>>
RunNext ==
    /\ phase = "run"
    /\ \E i \in ready, ok \in BOOLEAN :
         /\ \A j \in ready : i <= j
         /\ ok => Admissible(i)
         /\ Execute(i, ok)
         /\ ready' = IF Below(errors') THEN ready \ {i} ELSE {}
         /\ phase' = IF ready' = {} THEN "round" ELSE "run"
    /\ UNCHANGED <<operations, limit>>

BulkNext == ScimBulkRequest \/ Round \/ RunNext
BulkSpec == BulkInit /\ [][BulkNext]_bulkVars
BulkFairSpec == BulkSpec /\ WF_bulkVars(BulkNext)

-----------------------------------------------------------------------------
(* Properties.                                                             *)

\* The job's sets stay within the request.
BulkTypeOK ==
    /\ phase \in {"check", "round", "run", "done"}
    /\ pending \subseteq Indices /\ references \cup failed \subseteq Creatable
    /\ references \cap failed = {} /\ (phase = "run" => ready # {})
    /\ \A i \in Indices : (responses[i] = "none") <=> (i \in pending)

\* failOnErrors bounds the errors a client sees, in the rounds and among the
\* operations that could not be resolved.
StopsAtLimit ==
    limit # NoLimit =>
        Cardinality({i \in Indices : responses[i] \in {"error", "unresolved"}}) <= limit

\* A job that ends has answered everything, or the limit stopped it.
AllAnswered ==
    phase = "done" /\ N <= MaxOps /\ limit <= MaxOps => pending = {} \/ ~Below(errors)

\* An operation takes effect only with everything it refers to created before.
ReferencesCreated ==
    \A i \in Indices : responses[i] = "ok" =>
        \A r \in Deps(i) : r \in Creatable /\ responses[r] = "ok"

\* The reference: operations that lead to a circle of references among created
\* resources.  Nothing else is refused as unresolvable.
FollowsReferences(T) == \A i \in T : Deps(i) \cap Creatable \subseteq T
Reach(S) == {i \in Indices : \A T \in SUBSET Indices :
                                S \subseteq T /\ FollowsReferences(T) => i \in T}
OnCircle(i) == i \in Creatable /\ i \in Reach(Deps(i) \cap Creatable)
UnresolvedMeansCircle ==
    \A i \in Indices :
        responses[i] = "unresolved" => \E r \in Reach({i}) : OnCircle(r)

\* Every operation of a job gets the answer it is due: run in the order of its
\* references, at most failOnErrors failures, and unresolved only on a circle.
BulkAnswers ==
    /\ BulkTypeOK /\ StopsAtLimit /\ AllAnswered
    /\ ReferencesCreated /\ UnresolvedMeansCircle

\* Every job ends, whatever the references.
JobEnds == <>(phase = "done")
=============================================================================
