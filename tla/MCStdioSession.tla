---------------------------- MODULE MCStdioSession ----------------------------
(* An instance of StdioSession for TLC. *)
EXTENDS StdioSession
=============================================================================
