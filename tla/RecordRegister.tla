---------------------------- MODULE RecordRegister ---------------------------
(***************************************************************************)
(* What session/state.rs promises of the shared record: each of save,      *)
(* clear, clear_run and mark_detached acts at one instant, on the file as  *)
(* it is at that instant, and only where its refusals allow.  RecordStore  *)
(* is the code that has to implement this with a lock file, a load and a   *)
(* rename.                                                                 *)
(***************************************************************************)
EXTENDS SessionRecord

CONSTANTS Procs,   \* front-end processes; one that died never comes back
          Runs,    \* run ids, each minted by one launch
          Build    \* the schema version each process understands

ASSUME BuildAssumption == Build \in [Procs -> Nat]

Record == [run : Runs, owner : Procs, child : ChildStates, version : {Build[p] : p \in Procs},
           detached : BOOLEAN]

ASSUME RecordAssumption == Absent \notin Record /\ Corrupt \notin Record

VARIABLES disk,   \* the file: a Record, Absent or Corrupt
          up,     \* front-ends still alive
          wine    \* the wine child of each run

regVars == <<disk, up, wine>>

RegInit ==
    /\ disk = Absent
    /\ up = Procs
    /\ wine = [r \in Runs |-> "unborn"]

RegSave(p, rec) ==
    /\ MaySave(disk, rec.run, p, Build[p], up, wine)
    /\ disk' = rec
    /\ UNCHANGED <<up, wine>>

RegClear(p) ==
    /\ MayClear(disk, p, Build[p], up, wine)
    /\ disk' = Absent
    /\ UNCHANGED <<up, wine>>

RegClearRun(p, run) ==
    /\ MayClearRun(disk, run, p, Build[p], up, wine)
    /\ disk' = Absent
    /\ UNCHANGED <<up, wine>>

RegMarkDetached(p, run) ==
    /\ MayMarkDetached(disk, run, p, Build[p], up, wine)
    /\ disk' = [disk EXCEPT !.detached = TRUE]
    /\ UNCHANGED <<up, wine>>

(* The world around the file: front-ends die, wine children come and go, a *)
(* hand edit or a bad sector leaves a file that does not parse.            *)
RegWorld ==
    \/ /\ UNCHANGED <<disk, wine>>
       /\ up' \in SUBSET up
    \/ /\ UNCHANGED <<disk, up>>
       /\ \E r \in Runs, s \in WineStates : wine' = [wine EXCEPT ![r] = s]
    \/ /\ UNCHANGED <<up, wine>>
       /\ disk' = Corrupt

RegNext ==
    \/ \E p \in up :
          \/ \E rec \in Record : RegSave(p, rec)
          \/ RegClear(p)
          \/ \E run \in Runs : RegClearRun(p, run) \/ RegMarkDetached(p, run)
    \/ RegWorld

RegSpec == RegInit /\ [][RegNext]_regVars
=============================================================================
