-------------------------- MODULE MCDevToolsDriver --------------------------
(* Small instances of DevToolsDriver for TLC. *)
EXTENDS DevToolsDriver
=============================================================================
