----------------------------- MODULE MCPresence -----------------------------
(* TLC instances of Presence.                                                 *)
EXTENDS Presence
=============================================================================
