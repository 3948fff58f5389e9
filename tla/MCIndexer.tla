----------------------------- MODULE MCIndexer -----------------------------
(* A short chain, indexed in chunks of two blocks.                         *)
EXTENDS Indexer, TLC

CONSTANTS t1
============================================================================
