--------------------------- MODULE MCTokenGrants ---------------------------
(* Instances of TokenGrants for TLC.                                       *)
EXTENDS TokenGrants, TLC

CONSTANTS u1, s1, s2

\* One user: every race of TokenGrants is between transactions about the same
\* user.
OneSession  == s1 :> u1
TwoSessions == s1 :> u1 @@ s2 :> u1

Symmetry == Permutations(Workers) \cup Permutations(Issues)
=============================================================================
