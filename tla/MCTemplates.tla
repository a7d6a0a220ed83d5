---------------------------- MODULE MCTemplates -----------------------------
(* An instance of Templates for TLC. *)
EXTENDS Templates

CONSTANTS core, plugin

MCSources == {core, plugin}

=============================================================================
