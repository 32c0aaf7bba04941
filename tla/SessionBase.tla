----------------------------- MODULE SessionBase -----------------------------
(***************************************************************************)
(* The state the session lifecycle of Sabrage is about, and the helpers    *)
(* the stages share.  Launch, Recovery and Session build on it.            *)
(*                                                                         *)
(* One Mac, one CrossOver bottle, one headset on USB; any number of        *)
(* front-ends (the app, CLI invocations) over one session-state.json.      *)
(* Every call of session/state.rs is one atomic step here, which is what   *)
(* RecordStore proves of it.                                               *)
(***************************************************************************)
EXTENDS SessionRecord, FiniteSets

CONSTANTS Procs,      \* front-end processes; a restarted app is another one
          FrontEnd,   \* the front-end each process is an instance of
          Runs,       \* run ids, one per launch
          Ports,      \* the stream ports --wired forwards
          NoRun,      \* an empty live-session slot
          NoProc,     \* nobody holds the operation lock
          SaveFaults, \* bound: record writes that fail
          Crashes     \* bound: front-ends that die while a session is live

ASSUME BaseAssumption ==
    /\ SaveFaults \in Nat /\ Crashes \in Nat
    /\ NoRun \notin Runs /\ NoProc \notin Procs

BlackHole == "BlackHole 2ch"
Speakers  == "MacBook Speakers"
NoDevice  == "none"
Devices   == {BlackHole, Speakers}

VARIABLES disk,     \* session-state.json
          up,       \* front-ends alive
          wine,     \* the wine child of each run
          mac,      \* what the guards change: output device, open dashboards, adb forwards
          lock,     \* the operation lock: as what, for which process and run
          pass,     \* the reconcile pass of the lock's holder
          job,      \* each launch: where it is and what it holds
          live,     \* LIVE_SESSION of each process
          phase,    \* RUN_PHASE of each process
          budget    \* faults and crashes left, processes not started yet

vars == <<disk, up, wine, mac, lock, pass, job, live, phase, budget>>

-----------------------------------------------------------------------------
(* The record, SessionState.  Its guard flags are audio_restored,          *)
(* dashboard_closed and forwards_cleared.                                  *)
State == [run : Runs, owner : Procs, child : ChildStates, version : {1}, detached : BOOLEAN,
          prev : Devices \cup {NoDevice}, dashboard : BOOLEAN, fwds : SUBSET Ports,
          audio_restored : BOOLEAN, dashboard_closed : BOOLEAN, forwards_cleared : BOOLEAN]

ASSUME StateAssumption == Absent \notin State /\ Corrupt \notin State

NewState(r, p, prev, fwds) ==
    [run |-> r, owner |-> p, child |-> "none", version |-> 1, detached |-> FALSE,
     prev |-> prev, dashboard |-> FALSE, fwds |-> fwds,
     audio_restored |-> FALSE, dashboard_closed |-> FALSE, forwards_cleared |-> FALSE]

AudioPending(s)     == s.prev # NoDevice /\ ~s.audio_restored
DashboardPending(s) == s.dashboard /\ ~s.dashboard_closed
ForwardsPending(s)  == s.fwds # {} /\ ~s.forwards_cleared

HasPendingGuards(s) == AudioPending(s) \/ DashboardPending(s) \/ ForwardsPending(s)

-----------------------------------------------------------------------------
(* The store's calls, atomic; a save that is refused and one the disk      *)
(* fails are the same error to the caller.                                 *)
SaveOk(p, s) ==
    /\ MaySave(disk, s.run, p, 1, up, wine)
    /\ disk' = s
    /\ UNCHANGED budget

SaveErr(p, s) ==
    /\ UNCHANGED disk
    /\ \/ ~MaySave(disk, s.run, p, 1, up, wine) /\ UNCHANGED budget
       \/ budget.faults > 0 /\ budget' = [budget EXCEPT !.faults = @ - 1]

Save(p, s) == SaveOk(p, s) \/ SaveErr(p, s)

-----------------------------------------------------------------------------
FreeLock == [as |-> "free", proc |-> NoProc, run |-> NoRun]
NoPhase  == [ph |-> "none", run |-> NoRun]
NoPass   == [pc |-> "none", st |-> Absent, mode |-> "None", todo |-> {}]

NoJob == [pc |-> "new", proc |-> NoProc, sess |-> Absent, armed |-> NoDevice, carried |-> FALSE,
          held |-> FALSE, cancel |-> FALSE, detach |-> "no", stop |-> "no", todo |-> {}]

(* A launch that is over keeps only what a detach or a stop still asks it. *)
Rest(j) ==
    IF j.detach = "fired" \/ j.stop = "waiting"
    THEN [NoJob EXCEPT !.pc = "done", !.proc = j.proc, !.sess = j.sess, !.cancel = j.cancel,
                       !.detach = j.detach, !.stop = j.stop]
    ELSE [NoJob EXCEPT !.pc = "done"]

(* Slip: the phase slot emptied for whoever holds it.                      *)
ClearAnyPhase(p, r) == phase' = [phase EXCEPT ![p] = NoPhase]

(* clear_run_phase and clear_live_session empty a slot only for their run. *)
ClearPhase(p, r) == phase' = [phase EXCEPT ![p] = IF @.run = r THEN NoPhase ELSE @]
ClearLive(p, r)  == live' = [live EXCEPT ![p] = IF @ = r THEN NoRun ELSE @]
Publish(p, r, ph) == phase' = [phase EXCEPT ![p] = [ph |-> ph, run |-> r]]

(* wineserver -k takes every process of the bottle down, unless the wait   *)
(* for it runs out first.                                                  *)
WineKilled == [r \in Runs |-> IF wine[r] = "alive" THEN "gone" ELSE wine[r]]

GameRunning == \E r \in Runs : wine[r] = "alive"

BaseInit ==
    /\ disk = Absent
    /\ up = {}
    /\ wine = [r \in Runs |-> "unborn"]
    /\ mac = [output |-> Speakers, dash |-> {}, forwards |-> {}]
    /\ lock = FreeLock
    /\ pass = NoPass
    /\ job = [r \in Runs |-> NoJob]
    /\ live = [p \in Procs |-> NoRun]
    /\ phase = [p \in Procs |-> NoPhase]
    /\ budget = [faults |-> SaveFaults, crashes |-> Crashes, unborn |-> Procs]
=============================================================================
