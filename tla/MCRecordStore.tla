---------------------------- MODULE MCRecordStore ----------------------------
(* One thread of the app and one of the CLI, whose build is the newer, over one record path. *)
EXTENDS RecordStore, TLC

CONSTANTS app, cli, t1, t3

MCFrontEnd == [t \in Threads |-> IF t = t3 THEN cli ELSE app]
MCBuild == [p \in Procs |-> IF p = cli THEN 2 ELSE 1]
RunSymmetry == Permutations(Runs)
=============================================================================
