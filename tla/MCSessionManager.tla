-------------------------- MODULE MCSessionManager --------------------------
(* Instances of SessionManager: two hosts, a few clicks, at most two retry runs. *)
EXTENDS SessionManager

=============================================================================
