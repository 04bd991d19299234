----------------------------- MODULE MCAuthorize -----------------------------
(* The authorization endpoint with the login page of apps/web. *)
EXTENDS Authorize

Plain == [uri |-> "u1", scopes |-> {"openid"}, prompt |-> {},
          maxAge |-> Null, acrs |-> {}, flaw |-> "none"]
Asked == {Plain, [Plain EXCEPT !.prompt = {"login"}]}

Forms == {[uris |-> {"u1"}, logout |-> {}, allowed |-> {"openid"}]}
=============================================================================
