---------------------------- MODULE MCBatchStatus ----------------------------
(* Small instances of JobQueue with the status of its upload batches.      *)
EXTENDS MCJobQueue, BatchStatus
=============================================================================
