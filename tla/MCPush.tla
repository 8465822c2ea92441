------------------------------- MODULE MCPush -------------------------------
(* The small instance of Push. *)
EXTENDS Push
=============================================================================
