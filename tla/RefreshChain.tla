---------------------------- MODULE RefreshChain ----------------------------
(***************************************************************************)
(* What rotating refresh tokens promise, without transactions or workers:  *)
(* a family is a chain.  At most one of its tokens can be spent at a time, *)
(* spending it hands the role to a token never seen before or to nobody,   *)
(* and a token that has lost the role never gets it back.                  *)
(***************************************************************************)
CONSTANT Tokens     \* refresh tokens; the first of a family names it

VARIABLES
    head,           \* head[f]: the spendable token of family f, as a set
    seen            \* the tokens ever issued

chainVars == <<head, seen>>

Init ==
    /\ head = [f \in Tokens |-> {}]
    /\ seen = {}

\* The first token of a new family.
Start(f) ==
    /\ f \notin seen
    /\ head' = [head EXCEPT ![f] = {f}]
    /\ seen' = seen \cup {f}

\* The head of f is spent and t takes its place.
Advance(f, t) ==
    /\ head[f] # {}
    /\ t \notin seen
    /\ head' = [head EXCEPT ![f] = {t}]
    /\ seen' = seen \cup {t}

\* The heads of the families in F are spent or revoked without a successor.
Cut(F) ==
    /\ head' = [f \in Tokens |-> IF f \in F THEN {} ELSE head[f]]
    /\ UNCHANGED seen

Next ==
    \/ \E f \in Tokens : Start(f)
    \/ \E f, t \in Tokens : Advance(f, t)
    \/ \E F \in SUBSET Tokens : Cut(F)

Spec == Init /\ [][Next]_chainVars
=============================================================================
