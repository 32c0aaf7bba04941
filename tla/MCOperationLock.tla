--------------------------- MODULE MCOperationLock ----------------------------
(* Two apps, one of which cannot open the lock file and launches and       *)
(* reverts Goldberg; a CLI that builds while the other app launches.       *)
EXTENDS OperationLock

CONSTANTS app, cli, raw, launch, build, revert, relaunch

MCHome == [o \in Ops |-> CASE o = launch              -> app
                           [] o = build               -> cli
                           [] o \in {revert, relaunch} -> raw]

MCKind == [o \in Ops |-> CASE o \in {launch, relaunch} -> "run"
                           [] o = build                -> "edit"
                           [] o = revert               -> "revert"]
=============================================================================
