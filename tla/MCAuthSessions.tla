---------------------------- MODULE MCAuthSessions ----------------------------
(* Two tabs of one browser, two requests in each. *)
EXTENDS AuthSessions

=============================================================================
