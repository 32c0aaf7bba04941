-------------------------------- MODULE MCWaits ---------------------------------
(* One pane, one child with a descendant, and MCRecordStore's threads. *)
EXTENDS MCRecordStore, Waits
=============================================================================
