-------------------------- MODULE MCAccountTokens --------------------------
(* The instance of AccountTokens for TLC; liveness is checked, so symmetry *)
(* is not used.                                                            *)
EXTENDS AccountTokens
=============================================================================
