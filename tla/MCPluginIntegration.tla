-------------------------- MODULE MCPluginIntegration --------------------------
(* Two plugins, one of which requires the other. *)
EXTENDS PluginIntegration, TLC

CONSTANTS core, extra, c1

MCRequires == (core :> {}) @@ (extra :> {core})
=============================================================================
