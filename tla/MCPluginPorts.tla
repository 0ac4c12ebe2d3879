--------------------------- MODULE MCPluginPorts ---------------------------
(* Instances of PluginPorts for TLC. *)
EXTENDS PluginPorts, TLC
=============================================================================
