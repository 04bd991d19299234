----------------------------- MODULE MCEmailOutbox -----------------------------
(* The instance of EmailOutbox for TLC; liveness is checked, so symmetry is not *)
(* used.                                                                        *)
EXTENDS EmailOutbox
=============================================================================
