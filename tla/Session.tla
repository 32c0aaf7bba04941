------------------------------- MODULE Session --------------------------------
(***************************************************************************)
(* The session lifecycle of Sabrage whole: front-ends that start, quit and *)
(* die, the launches, stops and reconcile passes they run, the user's      *)
(* Cancel, Stop and Detach, and the game, which exits when it likes.       *)
(***************************************************************************)
EXTENDS Launch

CONSTANT PidReuse  \* may a dead wine child's pid come back as another process?

(* One app at a time (tauri_plugin_single_instance); the CLI beside it.    *)
Boot(p) ==
    /\ p \in budget.unborn
    /\ \A q \in up : FrontEnd[q] # FrontEnd[p]
    /\ up' = up \cup {p}
    /\ budget' = [budget EXCEPT !.unborn = @ \ {p}]
    /\ UNCHANGED <<disk, wine, mac, lock, pass, job, live, phase>>

(* A process ends with all it holds: its tasks, its slots, its flock.  No  *)
(* Drop of a guard runs.                                                   *)
Ends(p) ==
    /\ p \in up
    /\ up' = up \ {p}
    /\ job' = [r \in Runs |-> IF job[r].proc = p THEN [NoJob EXCEPT !.pc = "done"] ELSE job[r]]
    /\ live' = [live EXCEPT ![p] = NoRun]
    /\ phase' = [phase EXCEPT ![p] = NoPhase]
    /\ IF lock.proc = p THEN lock' = FreeLock /\ pass' = NoPass ELSE UNCHANGED <<lock, pass>>
    /\ UNCHANGED <<disk, wine, mac>>

(* Quit is intercepted only while a session is live (should_intercept_quit), *)
(* a launch that has not published one is quit over; a crash asks nobody.  *)
Quit(p) == "quit" \in Asks /\ live[p] = NoRun /\ Ends(p) /\ UNCHANGED budget

Crash(p) ==
    /\ live[p] # NoRun /\ budget.crashes > 0
    /\ Ends(p)
    /\ budget' = [budget EXCEPT !.crashes = @ - 1]

-----------------------------------------------------------------------------
(* The game. *)
WineExits(r) ==
    /\ wine[r] = "alive"
    /\ wine' = [wine EXCEPT ![r] = "gone"]
    /\ UNCHANGED <<disk, up, mac, lock, pass, job, live, phase, budget>>

PidReused(r) ==
    /\ PidReuse /\ wine[r] = "gone"
    /\ wine' = [wine EXCEPT ![r] = "recycled"]
    /\ UNCHANGED <<disk, up, mac, lock, pass, job, live, phase, budget>>

-----------------------------------------------------------------------------
(* The user.  RunRegistry::cancel fires the token of any stage in flight;  *)
(* stop_session on a live session fires the handle's, which is the same,   *)
(* and waits for the slot.                                                 *)
Starting == {"gate", "pass", "prep", "wired", "wiredAdd", "reset", "stage",
             "arm", "switch", "dash", "dashSave", "spawn"}

RequestCancel(r) ==
    /\ "Cancel" \in Asks
    /\ \E pc \in Starting : At(r, pc)
    /\ ~job[r].cancel
    /\ job' = [job EXCEPT ![r].cancel = TRUE]
    /\ UNCHANGED <<disk, up, wine, mac, lock, pass, live, phase, budget>>

IsLive(r) == job[r].proc # NoProc /\ live[job[r].proc] = r

RequestStop(r) ==
    /\ "Stop" \in Asks /\ IsLive(r) /\ job[r].stop = "no"
    /\ job' = [job EXCEPT ![r].cancel = TRUE, ![r].stop = "waiting"]
    /\ UNCHANGED <<disk, up, wine, mac, lock, pass, live, phase, budget>>

(* slot_was_released_by_a_detach, asked once the slot is clear; a wait     *)
(* that runs out answers nothing about the game.                           *)
DetachedOnDisk(r) == Loaded(disk) /\ disk.run = r /\ disk.detached

Answer(j) == IF j.pc = "done" THEN Rest(j) ELSE j

StopAnswered(r) ==
    /\ job[r].stop = "waiting" /\ ~IsLive(r)
    /\ job' = [job EXCEPT ![r] = Answer([@ EXCEPT !.stop =
                                 IF DetachedOnDisk(r) THEN "detached" ELSE "stopped"])]
    /\ UNCHANGED <<disk, up, wine, mac, lock, pass, live, phase, budget>>

(* reconcile::detach: nothing once Stop has fired; else the token, a wait  *)
(* for the slot, and mark_detached as a safety net -- never when the wait  *)
(* ran out, never once a Stop has won meanwhile.                           *)
RequestDetach(r) ==
    /\ "Detach" \in Asks /\ IsLive(r) /\ ~job[r].cancel /\ job[r].detach = "no"
    /\ job' = [job EXCEPT ![r].detach = "fired"]
    /\ UNCHANGED <<disk, up, wine, mac, lock, pass, live, phase, budget>>

SettleDetach(r) ==
    /\ job[r].detach = "fired"
    /\ disk' = IF /\ ~IsLive(r) /\ ~job[r].cancel
                  /\ MayMarkDetached(disk, r, job[r].proc, 1, up, wine)
               THEN [disk EXCEPT !.detached = TRUE] ELSE disk
    /\ job' = [job EXCEPT ![r] = Answer([@ EXCEPT !.detach = "settled"])]
    /\ UNCHANGED <<up, wine, mac, lock, pass, live, phase, budget>>

-----------------------------------------------------------------------------
Init == BaseInit

Next ==
    \/ \E p \in Procs : Boot(p) \/ Quit(p) \/ Crash(p) \/ StartReconcile(p) \/ StartStop(p)
    \/ \E r \in Runs, p \in Procs : Begin(r, p)
    \/ \E r \in Runs : \/ LaunchStep(r)
                       \/ WineExits(r) \/ PidReused(r)
                       \/ RequestCancel(r) \/ RequestStop(r) \/ StopAnswered(r)
                       \/ RequestDetach(r) \/ SettleDetach(r)
    \/ PassStep \/ CancelPass

Spec == Init /\ [][Next]_vars

(* Tasks are scheduled and every wait in them is bounded: a launch, a pass *)
(* and the two waiters of commands.rs each go on while they can.  Nothing  *)
(* makes a game exit or a user ask.                                        *)
FairSpec ==
    /\ Spec
    /\ WF_vars(PassStep \/ CancelPass)
    /\ \A r \in Runs : WF_vars(LaunchStep(r)) /\ WF_vars(StopAnswered(r))
-----------------------------------------------------------------------------
(* While the Mac plays into BlackHole, the record on disk names the real   *)
(* device as still to be restored: whoever dies, reconcile can put it back. *)
OutputRecoverable ==
    mac.output = BlackHole =>
        Loaded(disk) /\ AudioPending(disk) /\ disk.prev = Speakers

(* The device a record owes the Mac is the one the user had, never the     *)
(* BlackHole an unfinished restore left behind.                            *)
RecordedDeviceIsReal == Loaded(disk) /\ AudioPending(disk) => disk.prev = Speakers

(* Two games never run in the bottle at once. *)
OneGame == \A r, q \in Runs : wine[r] = "alive" /\ wine[q] = "alive" => r = q

(* A game is taken down by its own exit, by its own launch's teardown or   *)
(* by the stop stage, never by another launch's reset or teardown.         *)
OnlyItsOwnGame ==
    [][\A r \in Runs : wine[r] = "alive" /\ wine'[r] = "gone" =>
            WineExits(r) \/ KillWine(r) \/ StopWine]_vars

(* From the gate to the end of its teardown a launch shows in its process, *)
(* so that no other mutating operation there takes the machine for idle.   *)
InFlightIsVisible ==
    \A r \in Runs : job[r].pc \notin {"new", "gate", "unwind", "done"} =>
        LET p == job[r].proc IN
        live[p] = r \/ (phase[p].run = r /\ phase[p].ph \in InFlight)

(* A Stop is never answered "stopped" for a game a racing detach left      *)
(* running.                                                                *)
StopIsHonest ==
    [][\A r \in Runs :
            StopAnswered(r) /\ job[r].sess.detached /\ wine[r] = "alive" => DetachedOnDisk(r)]_vars

(* A teardown deletes the record of its own run, never a newer launch's.   *)
TeardownClearsItsOwn ==
    [][\A r \in Runs : ClearState(r) /\ Loaded(disk) /\ disk.run # r => UNCHANGED disk]_vars

(* A forward that is up and on record stays on record until it is removed  *)
(* or the run on record finishes its own teardown.                         *)
ForwardsStayOnRecord ==
    [][\A q \in Ports :
            Loaded(disk) /\ q \in disk.fwds /\ q \in mac.forwards /\ q \in mac'.forwards =>
                \/ Loaded(disk)' /\ q \in disk'.fwds
                \/ ClearState(disk.run)]_vars

(* While a launch is under way, no forward of its is up off the record.    *)
ForwardsRecordedFirst ==
    \A r \in Runs : job[r].pc \in Starting \cup {"publish", "record", "super"} =>
        \A q \in Ports : job[r].sess # Absent /\ q \in job[r].sess.fwds /\ q \in mac.forwards =>
            Loaded(disk) /\ q \in disk.fwds

(* A running game a launch supervises and nobody is stopping, or one a     *)
(* detach left running on purpose.                                         *)
WantedGame(r) ==
    /\ wine[r] = "alive" /\ ~job[r].cancel
    /\ IsLive(r) \/ DetachedOnDisk(r)

(* A recovery pass undoes nothing under such a game.                       *)
PassSparesRunningGame ==
    [][pass.pc \in {"audio", "dash", "fwdLoop"} /\ mac' # mac =>
            ~\E r \in Runs : WantedGame(r)]_vars

(* Once its game was started, an open dashboard is held by its launch or   *)
(* named on disk; only a launch whose wine pid came back as another        *)
(* process is let off (restore_mode SafeOnly), and one that never got as   *)
(* far (DashboardGuard::acquire saves the identity after the spawn).       *)
DashboardOnRecord ==
    \A r \in mac.dash :
        \/ job[r].held
        \/ Loaded(disk) /\ disk.run = r /\ DashboardPending(disk)
        \/ wine[r] \in {"unborn", "recycled"}

(* A Stop of the live session is answered.                                 *)
StopIsAnswered == \A r \in Runs : job[r].stop = "waiting" ~> job[r].stop # "waiting"

(* A launch whose token fired comes to its end.                            *)
CancelledLaunchEnds == \A r \in Runs : job[r].cancel ~> job[r].pc = "done"

(* The operation lock is never kept: neither a launch nor a pass can hold  *)
(* it against the others for good.                                         *)
OperationLockReturns == lock.as # "free" ~> lock.as = "free"
=============================================================================
