-------------------------- MODULE MCPrepareRelease --------------------------
(* Two operators who both prepare one version; one of them also the next.  *)
EXTENDS PrepareRelease, TLC

CONSTANTS c1, c2, v1, v2

MCAsked == (c1 :> {v1, v2}) @@ (c2 :> {v1})
=============================================================================
