------------------------------- MODULE MCGcDb -------------------------------
(* Instances of GcDb: a record, two keys to prune and three to keep, so    *)
(* that with batches of two the last batch may be full, partial or empty.  *)
EXTENDS GcDb

MCKeys == 0..5
MCOldKeys == {1, 2}
=============================================================================
