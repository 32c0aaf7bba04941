-------------------------------- MODULE Watcher --------------------------------
(***************************************************************************)
(* session/watcher.rs: SessionMonitor::snapshot, the status that the       *)
(* sidebar, the Session screen and every Stop button show.  It folds what  *)
(* the run stage publishes, the record, runtime_status.json, the process   *)
(* table and the runtime log, read one after the other, while sessions of  *)
(* this app, of the other front-end and of ./demo.sh come and go.          *)
(*                                                                         *)
(* A session is a number, in the order they started: what one wrote before *)
(* another started has a smaller number, which is what the time stamps say. *)
(***************************************************************************)
EXTENDS Naturals, Sequences

CONSTANTS MaxSessions  \* bound: sessions started

NoSession == 0
Runs == 1 .. MaxSessions
InFlightPhases == {"Preflight", "Launching"}

VARIABLES started,   \* how many sessions there have been
          game,      \* the session whose game runs
          handle,    \* LIVE_SESSION
          runPhase,  \* RUN_PHASE
          record,    \* session-state.json: whose it is, with a child or not, detached
          report,    \* runtime_status.json: who wrote it, streaming or not, recent or not
          unread,    \* the lines of the runtime log the monitor's tail has not read
          seen,      \* the sessions that have logged their encoder
          monitor,   \* the SessionMonitor
          shot,      \* the snapshot in progress
          fresh      \* sessions that had a recent report while a snapshot showed them

machineVars == <<started, game, handle, runPhase, record, report, seen>>
watchVars == <<machineVars, unread, monitor, shot, fresh>>

NoRecord == [of |-> NoSession, child |-> FALSE, detached |-> FALSE]
NoRunPhase == [phase |-> "none", of |-> NoSession]
NoReport == [by |-> NoSession, streaming |-> FALSE, recent |-> FALSE]
NoShot == [pc |-> "rest", base |-> "None", of |-> NoSession, at |-> NoSession, phase |-> "Idle",
           now |-> FALSE, parsed |-> NoSession, history |-> FALSE, throughout |-> FALSE]

WatchInit ==
    /\ started = 0 /\ game = NoSession /\ handle = NoSession
    /\ runPhase = NoRunPhase /\ record = NoRecord /\ report = NoReport
    /\ unread = <<>> /\ seen = {}
    /\ monitor = [built |-> FALSE, created |-> 0, preload |-> TRUE, chip |-> NoSession,
                  chipOf |-> NoSession, everFresh |-> FALSE, freshOf |-> NoSession,
                  streaming |-> FALSE, settled |-> TRUE, asOf |-> 0]
    /\ shot = NoShot
    /\ fresh = {}
-----------------------------------------------------------------------------
(* The sessions.  A launch takes longer than the second between two        *)
(* snapshots: none starts while a line of the log is on its way.           *)

Quiet == ~monitor.built \/ (unread = <<>> /\ shot.parsed = NoSession)

MayStart ==
    /\ started < MaxSessions
    /\ game = NoSession /\ handle = NoSession /\ runPhase.phase \notin InFlightPhases
    /\ Quiet

watcherVars == <<unread, monitor, shot, fresh>>

(* The run stage of this app: Preflight, Launching, the record, the game,  *)
(* then the handle with the phase cleared.                                 *)
Preflight ==
    /\ MayStart
    /\ started' = started + 1
    /\ runPhase' = [phase |-> "Preflight", of |-> started + 1]
    /\ UNCHANGED <<game, handle, record, report, seen, watcherVars>>

Launching ==
    /\ runPhase.phase = "Preflight"
    /\ runPhase' = [runPhase EXCEPT !.phase = "Launching"]
    /\ record' = [NoRecord EXCEPT !.of = runPhase.of]
    /\ UNCHANGED <<started, game, handle, report, seen, watcherVars>>

SpawnGame ==
    /\ runPhase.phase = "Launching" /\ game = NoSession /\ handle = NoSession
    /\ ~record.child
    /\ game' = runPhase.of
    /\ record' = [record EXCEPT !.child = TRUE]
    /\ UNCHANGED <<started, handle, runPhase, report, seen, watcherVars>>

GoLive ==
    /\ runPhase.phase = "Launching" /\ record.child /\ handle = NoSession
    /\ handle' = runPhase.of
    /\ runPhase' = NoRunPhase
    /\ UNCHANGED <<started, game, record, report, seen, watcherVars>>

GameEnds ==
    /\ game # NoSession
    /\ game' = NoSession
    /\ shot' = [shot EXCEPT !.throughout = FALSE]
    /\ UNCHANGED <<started, handle, runPhase, record, report, seen,
                   unread, monitor, fresh>>

BeginTeardown ==
    /\ handle # NoSession /\ runPhase = NoRunPhase
    /\ runPhase' = [phase |-> "Stopping", of |-> handle]
    /\ UNCHANGED <<started, game, handle, record, report, seen, watcherVars>>

(* The record is cleared, then the handle, and Exited is published; a      *)
(* guard that stays pending leaves the record.                             *)
EndTeardown ==
    /\ runPhase.phase = "Stopping" /\ game # runPhase.of
    /\ record' \in {record, NoRecord}
    /\ handle' = NoSession
    /\ runPhase' = [runPhase EXCEPT !.phase = "Exited"]
    /\ UNCHANGED <<started, game, report, seen, watcherVars>>

(* A detach: the record says so, and this app lets go. *)
DetachRun ==
    /\ handle # NoSession /\ runPhase = NoRunPhase
    /\ record' = [record EXCEPT !.detached = TRUE]
    /\ handle' = NoSession
    /\ UNCHANGED <<started, game, runPhase, report, seen, watcherVars>>

(* The other front-end, which leaves a record, and ./demo.sh, which does   *)
(* not; a reconcile clears the record of a session that is dead.           *)
ForeignRun ==
    /\ MayStart
    /\ started' = started + 1
    /\ game' = started + 1
    /\ record' \in {record, [NoRecord EXCEPT !.of = started + 1, !.child = TRUE]}
    /\ UNCHANGED <<handle, runPhase, report, seen, watcherVars>>

ClearDeadRecord ==
    /\ record.of # NoSession /\ game # record.of
    /\ handle = NoSession /\ runPhase.phase \notin InFlightPhases
    /\ record' = NoRecord
    /\ UNCHANGED <<started, game, handle, runPhase, report, seen, watcherVars>>

(* The runtime in the game: its report, and the encoder once. *)
WriteReport(streaming) ==
    /\ game # NoSession
    /\ report' = [by |-> game, streaming |-> streaming, recent |-> TRUE]
    /\ UNCHANGED <<started, game, handle, runPhase, record, seen, watcherVars>>

ReportAges ==
    /\ report.recent
    /\ report' = [report EXCEPT !.recent = FALSE]
    /\ UNCHANGED <<started, game, handle, runPhase, record, seen, watcherVars>>

(* The encoder is negotiated seconds after the start: a snapshot has been. *)
EncoderReady ==
    /\ game \notin seen \cup {NoSession}
    /\ monitor.built => monitor.asOf >= game
    /\ seen' = seen \cup {game}
    /\ unread' = Append(unread, game)
    /\ UNCHANGED <<started, game, handle, runPhase, record, report,
                   monitor, shot, fresh>>

SessionStep ==
    \/ Preflight \/ Launching \/ SpawnGame \/ GoLive \/ GameEnds \/ BeginTeardown
    \/ EndTeardown \/ DetachRun \/ ForeignRun \/ ClearDeadRecord
    \/ (\E s \in BOOLEAN : WriteReport(s)) \/ ReportAges \/ EncoderReady
-----------------------------------------------------------------------------
(* SessionMonitor::new: the tail opens at the end, its preload queued. *)
BuildMonitor ==
    /\ ~monitor.built
    /\ monitor' = [monitor EXCEPT !.built = TRUE, !.created = started]
    /\ UNCHANGED <<machineVars, unread, shot, fresh>>

(* The handle, else the record; a run other than the last resets what is   *)
(* known of freshness.                                                     *)
ReadBase ==
    /\ monitor.built /\ shot.pc = "rest"
    /\ LET base == IF handle # NoSession THEN "Live"
                   ELSE IF record.of # NoSession THEN "Persisted" ELSE "None"
           of == IF base = "Live" THEN handle ELSE record.of
           alive == game = of /\ (base = "Live" \/ record.child)
       IN /\ shot' = [NoShot EXCEPT
                        !.pc = "report", !.base = base, !.of = of, !.at = of,
                        !.throughout = game # NoSession,
                        !.phase = IF base = "None" THEN "Idle"
                                  ELSE IF ~alive THEN "Exited"
                                  ELSE IF base = "Persisted" /\ record.detached THEN "Detached"
                                  ELSE "Running"]
          /\ monitor' = IF monitor.freshOf = of THEN [monitor EXCEPT !.asOf = started]
                        ELSE [monitor EXCEPT !.freshOf = of, !.everFresh = FALSE,
                                             !.streaming = FALSE, !.asOf = started]
    /\ UNCHANGED <<machineVars, unread, fresh>>

(* runtime_status.json: recent, and not of before the session reported. *)
ReadReport ==
    /\ shot.pc = "report"
    /\ LET now == report.by # NoSession /\ report.recent /\ report.by >= shot.of
           external == now /\ shot.base = "None" /\ game = report.by
       IN /\ shot' = [shot EXCEPT !.pc = "table", !.now = now,
                                  !.base = IF external THEN "External" ELSE @,
                                  !.phase = IF external THEN "External" ELSE @]
          /\ monitor' = [monitor EXCEPT !.everFresh = @ \/ now,
                                        !.streaming = IF report.by = NoSession THEN @
                                                      ELSE report.streaming]
          /\ fresh' = IF now /\ report.by = shot.of THEN fresh \cup {shot.of} ELSE fresh
    /\ UNCHANGED <<machineVars, unread>>

(* running_game_pid, for a base that is still None. *)
ReadTable ==
    /\ shot.pc = "table"
    /\ shot' = IF shot.base = "None" /\ game # NoSession
               THEN [shot EXCEPT !.pc = "log", !.base = "External", !.phase = "External"]
               ELSE [shot EXCEPT !.pc = "log"]
    /\ UNCHANGED <<machineVars, unread, monitor, fresh>>

(* The tail is polled; the last encoder line counts.  The first poll is    *)
(* history.  A Running session whose stream went quiet for the grace       *)
(* periods is Stalled.                                                     *)
ReadLog ==
    /\ shot.pc = "log"
    /\ \E quiet \in BOOLEAN :
          shot' = [shot EXCEPT
             !.pc = "phase",
             !.parsed = IF unread = <<>> THEN NoSession ELSE unread[Len(unread)],
             !.history = monitor.preload,
             !.phase = IF @ = "Running" /\ monitor.streaming /\ monitor.everFresh
                          /\ ~shot.now /\ quiet
                       THEN "Stalled" ELSE @]
    /\ unread' = <<>>
    /\ monitor' = [monitor EXCEPT !.preload = FALSE]
    /\ UNCHANGED <<machineVars, fresh>>

(* Slip: the phase of a run that is over outranks a session found since.   *)
OutranksOnceOver ==
    CASE runPhase.phase = "none" -> FALSE
      [] runPhase.phase \in InFlightPhases -> shot.base # "Live"
      [] OTHER -> TRUE

(* The run stage's phase, where it outranks what was derived. *)
Outranks ==
    CASE runPhase.phase = "none" -> FALSE
      [] runPhase.phase = "Stopping" -> TRUE
      [] runPhase.phase \in InFlightPhases -> shot.base # "Live"
      [] OTHER -> shot.base = "None"

Takeover == Outranks /\ shot.base = "Persisted" /\ shot.of # runPhase.of

StatusPhase == IF Outranks THEN runPhase.phase ELSE shot.phase

StatusOf == IF Takeover \/ (Outranks /\ shot.of = NoSession) THEN runPhase.of ELSE shot.of

StartedAt == IF Takeover THEN NoSession ELSE shot.at

Settles(phase) == phase \in {"Idle", "Exited"}

Believable ==
    /\ shot.parsed # NoSession
    /\ shot.history => /\ StartedAt # NoSession /\ StartedAt <= monitor.created
                       /\ shot.parsed >= StartedAt

(* Slip: the chip goes when a session settles, and only then.              *)
ChipSettles == Settles(StatusPhase) /\ ~monitor.settled

(* The chip goes when a session settles, and with the run it was for. *)
ChipGoes == (Settles(StatusPhase) /\ ~monitor.settled) \/ monitor.chipOf # StatusOf

StatusChip ==
    IF Believable THEN shot.parsed ELSE IF ChipGoes THEN NoSession ELSE monitor.chip

PublishStatus ==
    /\ shot.pc = "phase"
    /\ monitor' = [monitor EXCEPT
                      !.chip = StatusChip, !.settled = Settles(StatusPhase),
                      !.chipOf = IF Believable THEN StatusOf
                                 ELSE IF ChipGoes THEN NoSession ELSE @]
    /\ shot' = NoShot
    /\ UNCHANGED <<machineVars, unread, fresh>>

WatchStep == BuildMonitor \/ ReadBase \/ ReadReport \/ ReadTable \/ ReadLog \/ PublishStatus

WatchNext == SessionStep \/ WatchStep

WatchSpec == WatchInit /\ [][WatchNext]_watchVars
-----------------------------------------------------------------------------
(* What a snapshot says of a session under way is that session's own: the  *)
(* codec is what its own runtime negotiated, never a chip or a line of the *)
(* log left by another, and it is called stalled only after its own        *)
(* runtime was seen to report.                                             *)
StatusIsOfItsRun ==
    [][shot.pc = "phase" /\ shot'.pc # "phase" =>
          /\ StatusOf # NoSession /\ ~Settles(StatusPhase) => StatusChip \in {NoSession, StatusOf}
          /\ StatusPhase = "Stalled" => StatusOf \in fresh]_watchVars

(* Idle is never shown over a game that ran for as long as the snapshot    *)
(* took, and Exited only where the handle or the record of another session *)
(* hides it.                                                               *)
NoIdleOverAGame ==
    [][shot.pc = "phase" /\ shot'.pc # "phase" /\ shot.throughout =>
          /\ StatusPhase # "Idle"
          /\ StatusPhase = "Exited" => shot.base \in {"Live", "Persisted"}]_watchVars
=============================================================================
