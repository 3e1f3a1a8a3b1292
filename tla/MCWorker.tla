------------------------------ MODULE MCWorker ------------------------------
(***************************************************************************)
(* Worker with one sampler, a channel of two events and a buffer of one,   *)
(* so that a full channel and a flush in the middle of a run both happen.  *)
(***************************************************************************)
EXTENDS Worker

CONSTANTS main_, coordinator, observer

MCSampler == {observer}
MCThread == {main_, coordinator, observer}
MCEvent == {"startup", "sample", "sync_error", "start", "end", "shutdown"}
=============================================================================
