-------------------------- MODULE MCPluginRuntime --------------------------
(* Instances of PluginRuntime for TLC. *)
EXTENDS PluginRuntime
=============================================================================
