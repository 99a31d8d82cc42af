---------------------------- MODULE MCMcpClient ----------------------------
(* Bounds for model checking McpClient. *)
EXTENDS McpClient

AllChoices == {"auto", "current", "legacy"}

=============================================================================
