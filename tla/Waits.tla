--------------------------------- MODULE Waits ----------------------------------
(***************************************************************************)
(* The components that wait for somebody else: the tail of a log pane for  *)
(* whoever writes the log, a call for the tool it spawned and what that    *)
(* left behind, a store call for the holder of the record's lock.  They    *)
(* share no state, so a behaviour exercises one of them, its workload; the *)
(* others are at rest, where none of their fair steps is enabled.          *)
(***************************************************************************)
EXTENDS Tailer, ChildProcess, RecordStore

CONSTANT Workloads  \* bound: the components exercised

VARIABLE workload

waitsVars == <<workload, tailVars, childVars, vars>>

(* A component that is not exercised starts in one fixed state. *)
Parked ==
    /\ workload # "tail" => age = 0
    /\ workload # "child" => job.mode = "stream"

WaitsInit ==
    /\ workload \in Workloads
    /\ TailInit /\ ChildInit /\ Init
    /\ Parked

WaitsNext ==
    /\ UNCHANGED workload
    /\ \/ workload = "tail" /\ TailNext /\ UNCHANGED <<childVars, vars>>
       \/ workload = "child" /\ ChildNext /\ UNCHANGED <<tailVars, vars>>
       \/ workload = "record" /\ DegradedNext /\ UNCHANGED <<tailVars, childVars>>

WaitsSpec ==
    /\ WaitsInit /\ [][WaitsNext]_waitsVars
    /\ TailFair /\ ChildFair /\ StoreFair
=============================================================================
