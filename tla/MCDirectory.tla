----------------------------- MODULE MCDirectory -----------------------------
(* Small instances of Directory. *)
EXTENDS Directory, TLC

\* Users are interchangeable, and so are workers.
Symmetry == Permutations(Users) \cup Permutations(Workers)

=============================================================================
