-------------------------------- MODULE MCDesk ----------------------------------
(* MCSession's launches, and two calls over a session that is to be quit. *)
EXTENDS MCSession, Desk
=============================================================================
