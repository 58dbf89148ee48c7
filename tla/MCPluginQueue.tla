--------------------------- MODULE MCPluginQueue ---------------------------
(* An instance of PluginQueue for TLC.                                     *)
EXTENDS PluginQueue
=============================================================================
