----------------------------- MODULE MCIndexer -----------------------------
(* The indexer with one run at a time, to be followed through one failure. *)
EXTENDS Indexer

CONSTANT r1
=============================================================================
