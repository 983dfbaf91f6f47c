------------------------------ MODULE MCStaging ------------------------------
(* Every operation over every transport, from every state of the paths.    *)
EXTENDS Staging
=============================================================================
