--------------------------- MODULE MCSecondFactors ---------------------------
(* Instances of SecondFactors for TLC.                                     *)
EXTENDS SecondFactors, TLC

CONSTANTS p1, p2, a1

\* Two rows of one authenticator: a passkey that is enrolled again.
SameAuthenticator == (p1 :> a1) @@ (p2 :> a1)
=============================================================================
