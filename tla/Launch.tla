------------------------------- MODULE Launch --------------------------------
(***************************************************************************)
(* stages/run: one launch, from the gate to the end of its teardown, with  *)
(* the guards of run/guards.rs and the forwards of run/actions.rs.  The    *)
(* launch holds the operation lock until the wine child is up (or the      *)
(* guarded region ends early); supervision and teardown run without it.    *)
(***************************************************************************)
EXTENDS Recovery

CONSTANT Takes  \* what the flags and the Mac let a launch take, of "audio", "dashboard", "wired"

At(r, pc) == job[r].pc = pc /\ job[r].proc \in up

Go(r, pc) == job' = [job EXCEPT ![r].pc = pc]

(* The operation guard this launch holds is dropped. *)
Unlock(r) == lock' = IF lock.run = r THEN FreeLock ELSE lock

(* A launch that ends before the guarded region: `?` out of run() drops    *)
(* the lock and the phase and tears nothing down.                          *)
EndEarly(r) ==
    /\ job' = [job EXCEPT ![r] = Rest(@)]
    /\ Unlock(r)
    /\ ClearPhase(job[r].proc, r)

(* The guarded region returned: the lock goes, teardown begins.  Normal is *)
(* published as Exited before the guards come off, the others as Stopping. *)
Teardown(r, why, j) ==
    /\ job' = [job EXCEPT ![r] = [j EXCEPT !.pc = IF why = "Cancelled" THEN "tdKill" ELSE "tdDash"]]
    /\ Unlock(r)
    /\ Publish(job[r].proc, r, IF why = "Normal" THEN "Exited" ELSE "Stopping")

-----------------------------------------------------------------------------
(* run_stage took the lock for this launch. *)
Begin(r, p) ==
    /\ job[r].pc = "new" /\ p \in up
    /\ lock = FreeLock
    /\ lock' = [as |-> "run", proc |-> p, run |-> r]
    /\ job' = [job EXCEPT ![r].pc = "gate", ![r].proc = p]
    /\ UNCHANGED <<disk, up, wine, mac, pass, live, phase, budget>>

(* Slip: the gate looks at this process only.                              *)
BlockedByOwnWork(p) == live[p] # NoRun \/ phase[p].ph \in InFlight

(* launch_block: a session of this process, a launch of it in flight, or a *)
(* running game refuse the launch; otherwise Preflight is published and    *)
(* the previous session reconciled.                                        *)
Blocked(p) ==
    \/ live[p] # NoRun
    \/ phase[p].ph \in InFlight
    \/ GameRunning

Gate(r) ==
    /\ At(r, "gate")
    /\ LET p == job[r].proc IN
       \/ /\ Blocked(p)
          /\ EndEarly(r)
          /\ UNCHANGED pass
       \/ /\ ~Blocked(p)
          /\ Publish(p, r, "Preflight")
          /\ Go(r, "pass")
          /\ pass' = [NoPass EXCEPT !.pc = "load"]
          /\ UNCHANGED lock
    /\ UNCHANGED <<disk, up, wine, mac, live, budget>>

(* The preflight and every `checkpoint` and fallible action between it and *)
(* the guards: a failure or a cancel ends the launch here, whatever it has *)
(* recorded by then.                                                       *)
Abandon(r) ==
    /\ \E pc \in {"prep", "reset", "stage"} : At(r, pc)
    /\ EndEarly(r)
    /\ UNCHANGED <<disk, up, wine, mac, pass, live, budget>>

(* adb_forward_hygiene: without --wired the two forwards are removed (one  *)
(* that resists stays); with it they are recorded and made one by one.     *)
Hygiene(r) ==
    /\ At(r, "prep") /\ ~job[r].cancel
    /\ \/ /\ "wired" \in Takes
          /\ job' = [job EXCEPT ![r].pc = "wired", ![r].todo = Ports]
          /\ UNCHANGED mac
       \/ /\ \E left \in {{}, mac.forwards} : mac' = [mac EXCEPT !.forwards = left]
          /\ Go(r, "reset")
    /\ UNCHANGED <<disk, up, wine, lock, pass, live, phase, budget>>

(* Each intended forward is on disk before the adb forward that makes it,  *)
(* one port after the other.                                               *)
NextPort(r) == CHOOSE q \in job[r].todo : TRUE

(* Slip: the intent stays in memory.                                       *)
NoteForward(r) ==
    /\ At(r, "wired")
    /\ IF job[r].todo = {} THEN Go(r, "reset")
       ELSE job' = [job EXCEPT ![r].pc = "wiredAdd", ![r].sess.fwds = @ \cup {NextPort(r)}]
    /\ UNCHANGED <<disk, up, wine, mac, lock, pass, live, phase, budget>>

RecordForward(r) ==
    /\ At(r, "wired")
    /\ IF job[r].todo = {}
       THEN Go(r, "reset") /\ UNCHANGED <<disk, budget>>
       ELSE LET s == [job[r].sess EXCEPT !.fwds = @ \cup {NextPort(r)}] IN
            \/ /\ ~job[r].cancel /\ SaveOk(job[r].proc, s)
               /\ job' = [job EXCEPT ![r].pc = "wiredAdd", ![r].sess = s]
            \/ /\ IF job[r].cancel THEN UNCHANGED <<disk, budget>> ELSE SaveErr(job[r].proc, s)
               /\ job' = [job EXCEPT ![r].pc = "rollback", ![r].sess = s]
    /\ UNCHANGED <<up, wine, mac, lock, pass, live, phase>>

(* A cancelled adb may have made the forward before it was killed.         *)
AddForward(r) ==
    /\ At(r, "wiredAdd")
    /\ LET made == [mac EXCEPT !.forwards = @ \cup {NextPort(r)}] IN
       \/ /\ ~job[r].cancel /\ mac' = made
          /\ job' = [job EXCEPT ![r].pc = "wired", ![r].todo = @ \ {NextPort(r)}]
       \/ /\ mac' \in {mac} \cup (IF job[r].cancel THEN {made} ELSE {})
          /\ Go(r, "rollback")
    /\ UNCHANGED <<disk, up, wine, lock, pass, live, phase, budget>>

(* rollback_forwards: both removals, the ones that took off the record,    *)
(* one best-effort save, and the launch ends with its error.               *)
Rollback(r) ==
    /\ At(r, "rollback")
    /\ \E gone \in SUBSET (Ports \cap mac.forwards) :
          /\ mac' = [mac EXCEPT !.forwards = @ \ gone]
          /\ Save(job[r].proc, [job[r].sess EXCEPT !.fwds = @ \ gone])
    /\ EndEarly(r)
    /\ UNCHANGED <<up, wine, pass, live>>

(* wineserver_reset: fatal when the bottle will not die.                   *)
Reset(r) ==
    /\ At(r, "reset") /\ ~job[r].cancel
    /\ wine' = WineKilled
    /\ Go(r, "stage")
    /\ UNCHANGED <<disk, up, mac, lock, pass, live, phase, budget>>

(* Slip: the operation guard is dropped once the preparation is done.      *)
PreparedUnlocked(r) ==
    /\ At(r, "stage") /\ ~job[r].cancel
    /\ Go(r, "arm")
    /\ Unlock(r)
    /\ Publish(job[r].proc, r, "Launching")
    /\ UNCHANGED <<disk, up, wine, mac, pass, live, budget>>

(* goldberg_stage is over; the guarded region is next.                     *)
Prepared(r) ==
    /\ At(r, "stage") /\ ~job[r].cancel
    /\ Go(r, "arm")
    /\ Publish(job[r].proc, r, "Launching")
    /\ UNCHANGED <<disk, up, wine, mac, lock, pass, live, budget>>

-----------------------------------------------------------------------------
(* The guarded region. *)

(* A cancel noticed between two of its steps. *)
CancelGuarded(r) ==
    /\ \E pc \in {"arm", "switch", "dash", "spawn"} : At(r, pc)
    /\ job[r].cancel
    /\ Teardown(r, "Cancelled", job[r])
    /\ UNCHANGED <<disk, up, wine, mac, pass, live, budget>>

(* AudioGuard::arm: inert (--no-audio, no BlackHole), or the previous      *)
(* device -- a carried one outranks the reading -- saved before anything   *)
(* is switched.                                                            *)
Arm(r) ==
    /\ At(r, "arm") /\ ~job[r].cancel
    /\ \/ Go(r, "dash") /\ UNCHANGED <<disk, lock, phase, budget>>
       \/ LET j == job[r]
              carried == AudioPending(j.sess)
              prev == IF carried THEN j.sess.prev ELSE mac.output
              s == [j.sess EXCEPT !.prev = prev]
          IN
          /\ "audio" \in Takes
          /\ \/ /\ SaveOk(j.proc, s)
                /\ job' = [job EXCEPT ![r] = [j EXCEPT !.pc = "switch", !.sess = s,
                                                !.armed = prev, !.carried = carried]]
                /\ UNCHANGED <<lock, phase>>
             \/ SaveErr(j.proc, s) /\ Teardown(r, "Failed", [j EXCEPT !.sess = s])
    /\ UNCHANGED <<up, wine, mac, pass, live>>

(* apply_switch: it takes; it fails, and the guard forgets the device      *)
(* unless it was carried; or it is cancelled with the switch applied.      *)
Switch(r) ==
    /\ At(r, "switch")
    /\ \/ /\ mac' = [mac EXCEPT !.output = BlackHole]
          /\ \/ Go(r, "dash") /\ UNCHANGED <<lock, phase>>
             \/ job[r].cancel /\ Teardown(r, "Cancelled", job[r])
          /\ UNCHANGED <<disk, budget>>
       \/ /\ ~job[r].cancel /\ job[r].carried
          /\ job' = [job EXCEPT ![r].pc = "dash", ![r].armed = NoDevice]
          /\ UNCHANGED <<disk, mac, lock, phase, budget>>
       \/ /\ ~job[r].cancel /\ ~job[r].carried
          /\ LET s == [job[r].sess EXCEPT !.prev = NoDevice]
                 j == [job[r] EXCEPT !.sess = s, !.armed = NoDevice]
             IN \/ /\ SaveOk(job[r].proc, s)
                   /\ job' = [job EXCEPT ![r] = [j EXCEPT !.pc = "dash"]]
                   /\ UNCHANGED <<lock, phase>>
                \/ SaveErr(job[r].proc, s) /\ Teardown(r, "Failed", j)
          /\ UNCHANGED mac
    /\ UNCHANGED <<up, wine, pass, live>>

(* Slip: the dashboard is left to the next save.                           *)
OpenDashboardUnsaved(r) ==
    /\ At(r, "dash") /\ ~job[r].cancel
    /\ \E opened \in BOOLEAN :
          /\ mac' = [mac EXCEPT !.dash = IF opened THEN @ \cup {r} ELSE @]
          /\ job' = [job EXCEPT ![r].pc = "spawn", ![r].held = opened, ![r].sess.dashboard = opened]
    /\ UNCHANGED <<disk, up, wine, lock, pass, live, phase, budget>>

(* DashboardGuard::acquire: none, or spawned and its identity saved.       *)
OpenDashboard(r) ==
    /\ At(r, "dash") /\ ~job[r].cancel
    /\ \/ Go(r, "spawn") /\ UNCHANGED <<mac, lock, phase>>
       \/ /\ "dashboard" \in Takes
          /\ mac' = [mac EXCEPT !.dash = @ \cup {r}]
          /\ job' = [job EXCEPT ![r].pc = "dashSave", ![r].sess.dashboard = TRUE]
          /\ UNCHANGED <<lock, phase>>
       \/ Teardown(r, "Failed", job[r]) /\ UNCHANGED mac
    /\ UNCHANGED <<disk, up, wine, pass, live, budget>>

(* A save that fails drops the guard on the way out, which closes the      *)
(* dashboard; a cancelled executor refuses the save.                       *)
SaveDashboard(r) ==
    /\ At(r, "dashSave")
    /\ \/ /\ ~job[r].cancel /\ SaveOk(job[r].proc, job[r].sess)
          /\ job' = [job EXCEPT ![r].pc = "spawn", ![r].held = TRUE]
          /\ UNCHANGED <<mac, lock, phase>>
       \/ /\ ~job[r].cancel /\ SaveErr(job[r].proc, job[r].sess)
          /\ mac' = [mac EXCEPT !.dash = @ \ {r}]
          /\ Teardown(r, "Failed", job[r])
       \/ /\ job[r].cancel /\ UNCHANGED <<disk, budget>>
          /\ mac' = [mac EXCEPT !.dash = @ \ {r}]
          /\ Teardown(r, "Cancelled", job[r])
    /\ UNCHANGED <<up, wine, pass, live>>

(* launch_wine: the child is up, its identity exact or the start_time 0    *)
(* of the fallback; or it could not be spawned.                            *)
Spawn(r) ==
    /\ At(r, "spawn") /\ ~job[r].cancel
    /\ \/ /\ wine' = [wine EXCEPT ![r] = "alive"]
          /\ \E c \in {"exact", "unobserved"} :
                job' = [job EXCEPT ![r].pc = "publish", ![r].sess.child = c]
          /\ UNCHANGED <<lock, phase>>
       \/ Teardown(r, "Failed", job[r]) /\ UNCHANGED wine
    /\ UNCHANGED <<disk, up, mac, pass, live, budget>>

(* set_live_session, then clear_run_phase. *)
PublishLive(r) ==
    /\ At(r, "publish")
    /\ live' = [live EXCEPT ![job[r].proc] = r]
    /\ ClearPhase(job[r].proc, r)
    /\ Go(r, "record")
    /\ UNCHANGED <<disk, up, wine, mac, lock, pass, budget>>

(* Slip: the operation guard lives as long as run() does.                  *)
RecordLaunchedLocked(r) ==
    /\ At(r, "record")
    /\ IF job[r].cancel THEN UNCHANGED <<disk, budget>> ELSE Save(job[r].proc, job[r].sess)
    /\ Go(r, "super")
    /\ UNCHANGED <<up, wine, mac, lock, pass, live, phase>>

(* record_launched_session, best effort, and the lock is dropped.          *)
RecordLaunched(r) ==
    /\ At(r, "record")
    /\ IF job[r].cancel THEN UNCHANGED <<disk, budget>> ELSE Save(job[r].proc, job[r].sess)
    /\ Go(r, "super")
    /\ Unlock(r)
    /\ UNCHANGED <<up, wine, mac, pass, live, phase>>

(* Slip: the token is not selected on.                                     *)
SuperviseUncancelled(r) ==
    /\ At(r, "super")
    /\ \/ wine[r] # "alive" /\ Teardown(r, "Normal", job[r])
       \/ /\ wine[r] = "alive" /\ job[r].detach # "no"
          /\ job' = [job EXCEPT ![r].pc = "tdDetach", ![r].sess.detached = TRUE]
          /\ UNCHANGED <<lock, phase>>
    /\ UNCHANGED <<disk, up, wine, mac, pass, live, budget>>

(* The biased select: cancel first, then the exit, then detach -- and a    *)
(* detach that finds the cancel token fired is that cancel.                *)
Supervise(r) ==
    /\ At(r, "super")
    /\ \/ job[r].cancel /\ Teardown(r, "Cancelled", job[r])
       \/ ~job[r].cancel /\ wine[r] # "alive" /\ Teardown(r, "Normal", job[r])
       \/ /\ ~job[r].cancel /\ wine[r] = "alive" /\ job[r].detach # "no"
          /\ job' = [job EXCEPT ![r].pc = "tdDetach", ![r].sess.detached = TRUE]
          /\ UNCHANGED <<lock, phase>>
    /\ UNCHANGED <<disk, up, wine, mac, pass, live, budget>>

-----------------------------------------------------------------------------
(* Teardown, on an executor of its own: no cancel reaches it. *)

(* Slip: the guards are let go and nothing is written.                     *)
DetachUnsaved(r) ==
    /\ At(r, "tdDetach")
    /\ job' = [job EXCEPT ![r].pc = "tdLive", ![r].armed = NoDevice, ![r].held = FALSE]
    /\ UNCHANGED <<disk, up, wine, mac, lock, pass, live, phase, budget>>

(* Detached: the record first; only once it is written are the guards let  *)
(* go without being undone.                                                *)
DetachSave(r) ==
    /\ At(r, "tdDetach")
    /\ \/ /\ SaveOk(job[r].proc, job[r].sess)
          /\ job' = [job EXCEPT ![r].pc = "tdLive", ![r].armed = NoDevice, ![r].held = FALSE]
       \/ SaveErr(job[r].proc, job[r].sess) /\ Go(r, "tdLive")
    /\ UNCHANGED <<up, wine, mac, lock, pass, live, phase>>

KillWine(r) ==
    /\ At(r, "tdKill")
    /\ wine' \in {WineKilled, wine}
    /\ Go(r, "tdDash")
    /\ UNCHANGED <<disk, up, mac, lock, pass, live, phase, budget>>

(* DashboardGuard::release, then AudioGuard::release: each undoes, flags   *)
(* and saves, and a failed save stops neither.                             *)
CloseDashboard(r) ==
    /\ At(r, "tdDash")
    /\ IF job[r].held
       THEN /\ mac' = [mac EXCEPT !.dash = @ \ {r}]
            /\ job' = [job EXCEPT ![r].pc = "tdDashSave", ![r].held = FALSE,
                                  ![r].sess.dashboard_closed = TRUE]
       ELSE Go(r, "tdAudio") /\ UNCHANGED mac
    /\ UNCHANGED <<disk, up, wine, lock, pass, live, phase, budget>>

SaveClosed(r) ==
    /\ At(r, "tdDashSave")
    /\ Save(job[r].proc, job[r].sess)
    /\ Go(r, "tdAudio")
    /\ UNCHANGED <<up, wine, mac, lock, pass, live, phase>>

(* The recorded device, the built-in fallback, or -- unrestorable -- the   *)
(* flag left down.                                                         *)
RestoreOutput(r) ==
    /\ At(r, "tdAudio")
    /\ IF job[r].armed = NoDevice
       THEN Go(r, "tdFinish") /\ UNCHANGED mac
       ELSE \/ /\ \E d \in {job[r].armed, Speakers} : mac' = [mac EXCEPT !.output = d]
               /\ job' = [job EXCEPT ![r].pc = "tdAudioSave", ![r].armed = NoDevice,
                                     ![r].sess.audio_restored = TRUE]
            \/ /\ job' = [job EXCEPT ![r].pc = "tdAudioSave", ![r].armed = NoDevice]
               /\ UNCHANGED mac
    /\ UNCHANGED <<disk, up, wine, lock, pass, live, phase, budget>>

SaveRestored(r) ==
    /\ At(r, "tdAudioSave")
    /\ Save(job[r].proc, job[r].sess)
    /\ Go(r, "tdFinish")
    /\ UNCHANGED <<up, wine, mac, lock, pass, live, phase>>

(* Slip: the audio guard is taken for released.                            *)
OnlyDashboardPending(s) == DashboardPending(s)

(* finish_record: keep the record while a guard of this teardown is        *)
(* pending (the forwards are not); else clear_state, which looks first...  *)
TeardownPending(s) == AudioPending(s) \/ DashboardPending(s)

FinishRecord(r) ==
    /\ At(r, "tdFinish")
    /\ IF TeardownPending(job[r].sess)
       THEN Save(job[r].proc, job[r].sess) /\ Go(r, "tdLive")
       ELSE /\ Go(r, IF disk = Absent \/ (Loaded(disk) /\ disk.run # r) THEN "tdLive" ELSE "tdClear")
            /\ UNCHANGED <<disk, budget>>
    /\ UNCHANGED <<up, wine, mac, lock, pass, live, phase>>

(* ...and then clears whatever record is there.                            *)
ClearState(r) ==
    /\ At(r, "tdClear")
    /\ disk' = IF MayClear(disk, job[r].proc, 1, up, wine) THEN Absent ELSE disk
    /\ Go(r, "tdLive")
    /\ UNCHANGED <<up, wine, mac, lock, pass, live, phase, budget>>

(* Slip: the slot is left to the next launch.                              *)
KeepSlot(r) ==
    /\ At(r, "tdLive")
    /\ Go(r, "unwind")
    /\ UNCHANGED <<disk, up, wine, mac, lock, pass, live, phase, budget>>

LeaveSlot(r) ==
    /\ At(r, "tdLive")
    /\ ClearLive(job[r].proc, r)
    /\ Go(r, "unwind")
    /\ UNCHANGED <<disk, up, wine, mac, lock, pass, phase, budget>>

(* run() returns: guards a failed detach kept are dropped, which undoes    *)
(* them without a record; the phase slot goes unless it says Exited.       *)
Unwind(r) ==
    /\ At(r, "unwind")
    /\ \E d \in {mac.output} \cup (IF job[r].armed = NoDevice THEN {} ELSE {job[r].armed}) :
          mac' = [mac EXCEPT !.output = d, !.dash = IF job[r].held THEN @ \ {r} ELSE @]
    /\ job' = [job EXCEPT ![r] = Rest(@)]
    /\ IF phase[job[r].proc] = [ph |-> "Exited", run |-> r]
       THEN UNCHANGED phase ELSE ClearPhase(job[r].proc, r)
    /\ UNCHANGED <<disk, up, wine, lock, pass, live, budget>>

-----------------------------------------------------------------------------
(* The launch's own steps, as the runtime schedules them.                  *)
TeardownStep(r) ==
    \/ DetachSave(r) \/ KillWine(r) \/ CloseDashboard(r) \/ SaveClosed(r) \/ RestoreOutput(r)
    \/ SaveRestored(r) \/ FinishRecord(r) \/ ClearState(r) \/ LeaveSlot(r) \/ Unwind(r)

LaunchStep(r) ==
    \/ Gate(r) \/ Abandon(r) \/ Hygiene(r) \/ RecordForward(r) \/ AddForward(r) \/ Rollback(r)
    \/ Reset(r) \/ Prepared(r) \/ CancelGuarded(r) \/ Arm(r) \/ Switch(r) \/ OpenDashboard(r) \/ SaveDashboard(r)
    \/ Spawn(r) \/ PublishLive(r) \/ RecordLaunched(r) \/ Supervise(r)
    \/ TeardownStep(r)
=============================================================================
