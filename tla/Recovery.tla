------------------------------ MODULE Recovery -------------------------------
(***************************************************************************)
(* session/reconcile.rs: the recovery pass over a record nobody in this    *)
(* process supervises.  The holder of the operation lock runs it, as the   *)
(* head of a launch, as the tail of the stop stage, or on its own (the     *)
(* reconcile_session command).  Each guard is undone in one step and its   *)
(* flag saved in the next, so a crash or another actor can fall between.   *)
(***************************************************************************)
EXTENDS SessionBase

CONSTANT Asks  \* what the user asks for, of "reconcile", "stop" (the stage), "Cancel",
               \* "Stop" (the live session), "Detach" and "quit"

InFlight == {"Preflight", "Launching", "Stopping"}

(* untouchable: this process's own launch in flight, or another process's. *)
OwnInFlight(p, s) == phase[p].ph \in InFlight /\ phase[p].run = s.run

(* A record the pass may act on: not in flight, not another live front-    *)
(* end's, not supervised here, and its wine child not (perhaps) running.   *)
(* A launch passed its gate, so the first and the third cannot be what     *)
(* stops it: any record it may not act on refuses it.                      *)
MayRestore(p, s) ==
    /\ ~OwnInFlight(p, s)
    /\ ~HasLiveForeignOwner(s, p, up, wine)
    /\ live[p] # s.run
    /\ RestoreMode(Classify(s, wine)) # "None"

PassOn(pc) == pass' = [pass EXCEPT !.pc = pc]

(* The pass is over: a stop or a reconcile command ends with it, a launch  *)
(* goes on with what a kept record still owes, or is refused.              *)
EndRecover ==
    /\ lock.as \in {"stop", "reconcile"}
    /\ lock' = FreeLock
    /\ pass' = NoPass
    /\ UNCHANGED <<job, phase>>

RefuseRun ==
    /\ lock.as = "run"
    /\ lock' = FreeLock
    /\ pass' = NoPass
    /\ job' = [job EXCEPT ![lock.run] = Rest(@)]
    /\ ClearPhase(lock.proc, lock.run)

CarryOn(prev, fwds) ==
    /\ lock.as = "run"
    /\ pass' = NoPass
    /\ job' = [job EXCEPT ![lock.run].pc = "prep",
                          ![lock.run].sess = NewState(lock.run, lock.proc, prev, fwds)]
    /\ UNCHANGED <<lock, phase>>

(* Slips: the device is read afresh, the forwards are forgotten.           *)
CarryForwardsOnly(s) == CarryOn(NoDevice, IF s.forwards_cleared THEN {} ELSE s.fwds)
CarryDeviceOnly(s)   == CarryOn(IF s.audio_restored THEN NoDevice ELSE s.prev, {})

(* carry_forward: an output device not put back, forwards not removed.     *)
CarryForward(s) ==
    CarryOn(IF s.audio_restored THEN NoDevice ELSE s.prev,
            IF s.forwards_cleared THEN {} ELSE s.fwds)

(* A pass whose save failed or whose token fired: the launch ends with it, *)
(* stop and reconcile report it and end too.                               *)
PassFails == EndRecover \/ RefuseRun

Cancelled == lock.as = "run" /\ job[lock.run].cancel

-----------------------------------------------------------------------------
(* load, untouchable, classify, restore_mode. *)
Load ==
    /\ pass.pc = "load"
    /\ LET p == lock.proc IN
       \/ /\ Loaded(disk) /\ MayRestore(p, disk)
          /\ pass' = [pc |-> "audio", st |-> disk, mode |-> RestoreMode(Classify(disk, wine)),
                      todo |-> disk.fwds]
          /\ UNCHANGED <<lock, job, phase>>
       \/ ~Loaded(disk) /\ (EndRecover \/ CarryOn(NoDevice, {}))
       \/ /\ Loaded(disk) /\ ~MayRestore(p, disk)
          /\ EndRecover \/ RefuseRun
    /\ UNCHANGED <<disk, up, wine, mac, live, budget>>

(* restore_audio: only while the output is still BlackHole, to the         *)
(* recorded device or the built-in fallback; a probe that saw nothing or a *)
(* switch that failed leaves the guard pending.                            *)
RestoreAudio ==
    /\ pass.pc = "audio"
    /\ ~Cancelled
    /\ \/ PassOn("dash") /\ UNCHANGED mac
       \/ /\ AudioPending(pass.st)
          /\ pass' = [pass EXCEPT !.pc = "audioSave", !.st.audio_restored = TRUE]
          /\ IF mac.output = BlackHole
             THEN \E d \in {pass.st.prev, Speakers} : mac' = [mac EXCEPT !.output = d]
             ELSE UNCHANGED mac
    /\ UNCHANGED <<disk, up, wine, lock, job, live, phase, budget>>

(* restore_dashboard, in a Full pass: by identity, flagged either way.     *)
RestoreDashboard ==
    /\ pass.pc = "dash"
    /\ ~Cancelled
    /\ \/ /\ pass.mode = "Full" /\ DashboardPending(pass.st)
          /\ mac' = [mac EXCEPT !.dash = @ \ {pass.st.run}]
          /\ pass' = [pass EXCEPT !.pc = "dashSave", !.st.dashboard_closed = TRUE]
       \/ /\ pass.mode # "Full" \/ ~DashboardPending(pass.st)
          /\ PassOn("fwd") /\ UNCHANGED mac
    /\ UNCHANGED <<disk, up, wine, lock, job, live, phase, budget>>

(* restore_forwards: nothing to do, or no adb; else one recorded forward   *)
(* at a time, each removal saved as it lands. A removal fails when adb     *)
(* does, and when the forward is not there.                                *)
RestoreForwards ==
    /\ pass.pc = "fwd"
    /\ ~Cancelled
    /\ \/ PassOn("finish")
       \/ ForwardsPending(pass.st) /\ PassOn("fwdLoop")
    /\ UNCHANGED <<disk, up, wine, mac, lock, job, live, phase, budget>>

RemoveForward ==
    /\ pass.pc = "fwdLoop"
    /\ ~Cancelled
    /\ \/ \E q \in pass.todo :
          \/ /\ q \in mac.forwards
             /\ mac' = [mac EXCEPT !.forwards = @ \ {q}]
             /\ pass' = [pass EXCEPT !.pc = "fwdSave", !.st.fwds = @ \ {q}, !.todo = @ \ {q}]
          \/ pass' = [pass EXCEPT !.todo = @ \ {q}] /\ UNCHANGED mac
       \/ /\ pass.todo = {}
          /\ pass' = [pass EXCEPT !.pc = "lastSave", !.st.forwards_cleared = (pass.st.fwds = {})]
          /\ UNCHANGED mac
    /\ UNCHANGED <<disk, up, wine, lock, job, live, phase, budget>>

(* The save after each guard; an error ends the pass.                      *)
AfterSave == [audioSave |-> "dash", dashSave |-> "fwd", fwdSave |-> "fwdLoop", lastSave |-> "finish"]

SaveProgress ==
    /\ pass.pc \in DOMAIN AfterSave
    /\ ~Cancelled
    /\ \/ SaveOk(lock.proc, pass.st) /\ PassOn(AfterSave[pass.pc]) /\ UNCHANGED <<lock, job, phase>>
       \/ SaveErr(lock.proc, pass.st) /\ PassFails
    /\ UNCHANGED <<up, wine, mac, live>>

(* restore_complete: SafeOnly signals no pid and never asks about the      *)
(* dashboard.                                                              *)
RestoreComplete(s, mode) ==
    IF mode = "Full" THEN ~HasPendingGuards(s) ELSE ~AudioPending(s) /\ ~ForwardsPending(s)

(* finish_record: clear_run when everything the mode may release is        *)
(* released, else keep the record for a later restore.                     *)
FinishPass ==
    /\ pass.pc = "finish"
    /\ ~Cancelled
    /\ LET p == lock.proc
           s == pass.st
           Done == EndRecover \/ CarryForward(s)
       IN
       IF RestoreComplete(s, pass.mode)
       THEN \/ MayClearRun(disk, s.run, p, 1, up, wine) /\ disk' = Absent /\ UNCHANGED budget /\ Done
            \/ MayClear(disk, p, 1, up, wine) /\ Loaded(disk) /\ disk.run # s.run
                  /\ UNCHANGED <<disk, budget>> /\ Done
            \/ ~MayClear(disk, p, 1, up, wine) /\ UNCHANGED <<disk, budget>> /\ PassFails
       ELSE \/ SaveOk(p, s) /\ Done
            \/ SaveErr(p, s) /\ PassFails
    /\ UNCHANGED <<up, wine, mac, live>>

(* The launch's token fired, or the user cancelled the stop stage: the     *)
(* executor refuses the next mutation and the pass returns Cancelled.      *)
CancelPass ==
    /\ pass.pc # "none"
    /\ Cancelled \/ lock.as = "stop"
    /\ PassFails
    /\ UNCHANGED <<disk, up, wine, mac, live, budget>>

-----------------------------------------------------------------------------
(* reconcile_session takes the operation lock and runs one pass.           *)
StartReconcile(p) ==
    /\ "reconcile" \in Asks /\ p \in up
    /\ lock = FreeLock
    /\ lock' = [as |-> "reconcile", proc |-> p, run |-> NoRun]
    /\ pass' = [NoPass EXCEPT !.pc = "load"]
    /\ UNCHANGED <<disk, up, wine, mac, job, live, phase, budget>>

(* stages/stop.rs: wineserver -k with a wait that is never fatal, the      *)
(* leftover dashboards reaped, then finish_stopped_session's pass.         *)
StartStop(p) ==
    /\ "stop" \in Asks /\ p \in up
    /\ lock = FreeLock
    /\ lock' = [as |-> "stop", proc |-> p, run |-> NoRun]
    /\ pass' = [NoPass EXCEPT !.pc = "kill"]
    /\ UNCHANGED <<disk, up, wine, mac, job, live, phase, budget>>

StopWine ==
    /\ pass.pc = "kill"
    /\ wine' \in {WineKilled, wine}
    /\ PassOn("reap")
    /\ UNCHANGED <<disk, up, mac, lock, job, live, phase, budget>>

StopReap ==
    /\ pass.pc = "reap"
    /\ mac' = [mac EXCEPT !.dash = {}]
    /\ PassOn("load")
    /\ UNCHANGED <<disk, up, wine, lock, job, live, phase, budget>>

PassStep ==
    \/ StopWine \/ StopReap \/ Load
    \/ RestoreAudio \/ RestoreDashboard \/ RestoreForwards \/ RemoveForward
    \/ SaveProgress \/ FinishPass
=============================================================================
