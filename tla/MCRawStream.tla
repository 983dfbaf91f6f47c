----------------------------- MODULE MCRawStream -----------------------------
(* A stream whose input and output are longer than the queues.             *)
EXTENDS RawStream
=============================================================================
