--------------------------- MODULE MCSyncProtocol ---------------------------
(***************************************************************************)
(* SyncProtocol with two workers: the first may end at any time, the       *)
(* second may stall, so Trigger and Close meet a worker that is gone, one  *)
(* whose buffer stays full, and both at once.                              *)
(***************************************************************************)
EXTENDS SyncProtocol

CONSTANTS w1, w2

Two == {w1, w2}
One == {w1}

NobodyStalls == {{}}
SecondStalls == {{w2}}
=============================================================================
