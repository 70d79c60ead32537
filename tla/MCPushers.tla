------------------------------- MODULE MCPushers -------------------------------
(* A lift or door, a player and two others, in two columns. *)
EXTENDS Pushers
================================================================================
