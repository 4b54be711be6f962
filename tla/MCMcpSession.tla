---------------------------- MODULE MCMcpSession ----------------------------
(* A session of a few tool calls for TLC. *)
EXTENDS McpSession

MCPages == {Facts, {"benefit"}}
=============================================================================
