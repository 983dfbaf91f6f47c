--------------------------- MODULE MCRouterosExec ---------------------------
(* Two requests that share one command slot, or use one each.              *)
EXTENDS RouterosExec
=============================================================================
