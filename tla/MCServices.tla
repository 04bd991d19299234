----------------------------- MODULE MCServices -----------------------------
(* One run for what a browser meets when it signs in: a behaviour is one   *)
(* of SecondFactors, Throttle, SigningKeys or Authorize.  They share no    *)
(* rows, so interleaving them would show nothing more; the three that      *)
(* stand still are pinned to one start.                                    *)
EXTENDS SecondFactors, Throttle, SigningKeys, Authorize, TLC

CONSTANTS x1, x2, a1, e1

\* Two rows of one authenticator: a passkey that is enrolled again.
SameAuthenticator == (x1 :> a1) @@ (x2 :> a1)

Windows == [login |-> 1, reauth |-> 1, recovery |-> 2, bootstrap |-> 2]
Blocks  == [login |-> 1, reauth |-> 1, recovery |-> 2, bootstrap |-> 1]

\* A request for prompt=login consent, a silent one that wants a second factor,
\* and one for a fresh session and a claim.
Plain == [uri |-> "u1", scopes |-> {"openid"}, prompt |-> {},
          maxAge |-> Null, acrs |-> {}, flaw |-> "none"]
Asked == {[Plain EXCEPT !.prompt = {"login", "consent"}],
          [Plain EXCEPT !.prompt = {"none"}, !.acrs = {"password+totp"}],
          [Plain EXCEPT !.maxAge = 0, !.flaw = "wants_name"]}

\* The client moves from one redirect URI to another.
Forms == {[uris |-> {u}, logout |-> {"u1"}, allowed |-> {"profile"}] :
            u \in {"u1", "u2"}}

\* Production with a KEK; a key in the environment, to which a KEK may come later;
\* and a development server that starts with neither.
Environments ==
    {[kek |-> e1, static |-> Nobody, production |-> TRUE],
     [kek |-> Nobody, static |-> EnvKey, production |-> TRUE],
     [kek |-> Nobody, static |-> Nobody, production |-> FALSE]}

VARIABLE area

ServicesInit ==
    /\ area \in {"factors", "throttle", "keys", "authorize"}
    /\ area # "factors" => factor = [f \in Factors |-> "none"]
    /\ area # "throttle" => surface = "login"
    /\ area # "authorize" => frontEnd = "bundled"
    /\ area # "keys" => kek = e1 /\ static = Nobody
    /\ FactorsInit /\ ThrottleInit /\ KeysInit /\ AuthorizeInit

\* Bound: a deployment is followed until services have written with a KEK that
\* preflight refuses.
ServicesNext ==
    /\ UNCHANGED area
    /\ \/ /\ area = "factors" /\ FactorsNext
          /\ UNCHANGED <<throttleVars, keysVars, authorizeVars>>
       \/ /\ area = "throttle" /\ ThrottleNext
          /\ UNCHANGED <<factorVars, keysVars, authorizeVars>>
       \/ /\ area = "keys" /\ ~astray /\ KeysNext
          /\ UNCHANGED <<factorVars, throttleVars, authorizeVars>>
       \/ /\ area = "authorize" /\ AuthorizeNext
          /\ UNCHANGED <<factorVars, throttleVars, keysVars>>

ServicesSpec ==
    ServicesInit
    /\ [][ServicesNext]_<<area, factorVars, throttleVars, keysVars,
                          authorizeVars>>

\* Requests are interchangeable, and so are attempts, replicas and tabs; x1 and
\* x2 are the passkeys, and the signing keys other than the environment's.
Symmetry == Permutations(Requests) \cup Permutations({x1, x2})
=============================================================================
