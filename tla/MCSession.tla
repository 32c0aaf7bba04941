------------------------------ MODULE MCSession ------------------------------
EXTENDS Session, TLC

CONSTANTS a1, a2, cli, r1, r2

OneApp == [p \in Procs |-> IF p = cli THEN "cli" ELSE "app"]

RunsAndApps == Permutations(Runs) \cup Permutations(Procs \ {cli})
=============================================================================
