---------------------------- MODULE ObserverProofs -----------------------------
(***************************************************************************)
(* The components that watch something they do not control, each on its    *)
(* own: the session monitor the machine, a log pane the file another       *)
(* program writes, the process layer the group of processes it started.    *)
(***************************************************************************)
EXTENDS Watcher, Tailer, ChildProcess, SequenceTheorems, FiniteSetTheorems, TLAPS

-----------------------------------------------------------------------------
(* The status of a snapshot, for any number of sessions.  Sessions start   *)
(* one after the other: the game, the handle and a launch are always the   *)
(* newest's (SessionInv).  A snapshot that is of a session under way is of *)
(* the newest one there was when it began, monitor.asOf (ShotInv); no      *)
(* session starts while a line of the log is on its way, so a line a       *)
(* snapshot reads is the newest's too, or of the preload (LogInv); and a   *)
(* chip of another session than the monitor took it for is of a session    *)
(* that was over by then (ChipInv).                                        *)
BasePhases == {"Idle", "Exited", "Detached", "Running", "Stalled", "External"}
RunPhases == {"none", "Preflight", "Launching", "Stopping", "Exited"}

MachineTypeOK ==
    /\ started \in Nat /\ game \in Nat /\ handle \in Nat
    /\ runPhase \in [phase : RunPhases, of : Nat]
    /\ record \in [of : Nat, child : BOOLEAN, detached : BOOLEAN]
    /\ report \in [by : Nat, streaming : BOOLEAN, recent : BOOLEAN]

MonitorTypeOK ==
    /\ unread \in Seq(Nat)
    /\ monitor \in [built : BOOLEAN, created : Nat, preload : BOOLEAN, chip : Nat, chipOf : Nat,
                    everFresh : BOOLEAN, freshOf : Nat, streaming : BOOLEAN, settled : BOOLEAN,
                    asOf : Nat]
    /\ shot \in [pc : {"rest", "report", "table", "log", "phase"},
                 base : {"None", "Live", "Persisted", "External"}, of : Nat, at : Nat,
                 phase : BasePhases, now : BOOLEAN, parsed : Nat, history : BOOLEAN,
                 throughout : BOOLEAN]

WatchTypeOK == MachineTypeOK /\ MonitorTypeOK

SessionInv ==
    /\ game \in {NoSession, started} /\ handle \in {NoSession, started}
    /\ record.of <= started /\ report.by <= started /\ runPhase.of <= started
    /\ runPhase.phase \in InFlightPhases \cup {"Stopping"} => runPhase.of = started
    /\ runPhase.phase = "Stopping" => handle = started /\ handle # NoSession
    /\ monitor.asOf <= started

ShotInv ==
    /\ shot.throughout => game # NoSession
    /\ shot.pc = "report" => ~shot.now
    /\ shot.pc # "rest" =>
          /\ monitor.built
          /\ shot.at = shot.of /\ monitor.freshOf = shot.of /\ shot.of <= monitor.asOf
          /\ shot.phase \in {"Running", "Detached", "Stalled"} => shot.of = monitor.asOf
          /\ shot.phase \in {"Running", "Detached", "Stalled", "Exited"} =>
                 shot.base \in {"Live", "Persisted"}
          /\ shot.phase = "Idle" => shot.base = "None"
          /\ shot.phase = "External" => shot.base = "External"
          /\ shot.base = "Live" => shot.of = monitor.asOf
          /\ shot.base \in {"Live", "Persisted"} <=> shot.of # NoSession
          /\ shot.pc \in {"log", "phase"} /\ shot.throughout => shot.base # "None"

FreshInv ==
    /\ monitor.everFresh /\ monitor.freshOf # NoSession =>
           monitor.freshOf \in fresh \/ monitor.freshOf < started
    /\ shot.pc # "rest" /\ shot.phase = "Running" /\ monitor.everFresh /\ ~shot.now =>
           shot.of \in fresh
    /\ shot.pc # "rest" /\ shot.phase = "Stalled" => shot.of \in fresh

LogInv ==
    /\ \A i \in 1 .. Len(unread) : unread[i] <= started
    /\ ~monitor.built => monitor.preload
    /\ monitor.built /\ ~monitor.preload => \A i \in 1 .. Len(unread) : unread[i] = started
    /\ shot.pc \in {"report", "table", "log"} =>
           shot.parsed = NoSession /\ (unread # <<>> => monitor.asOf = started)
    /\ shot.pc = "rest" => shot.parsed = NoSession
    /\ shot.parsed # NoSession =>
           /\ monitor.asOf = started /\ shot.parsed <= started
           /\ shot.history \/ shot.parsed = started

ChipInv ==
    \/ monitor.chip \in {NoSession, monitor.chipOf}
    \/ monitor.chipOf = NoSession \/ monitor.chipOf < monitor.asOf

WatchInv == WatchTypeOK /\ SessionInv /\ ShotInv /\ FreshInv /\ LogInv /\ ChipInv

LEMMA SessionsKeepMachine ==
    ASSUME WatchInv, SessionStep
    PROVE  MachineTypeOK' /\ SessionInv'
<1>1. MachineTypeOK /\ SessionInv /\ monitor.asOf \in Nat
  BY DEF WatchInv, WatchTypeOK, MonitorTypeOK
<1>2. /\ started \in Nat /\ game \in Nat /\ handle \in Nat
      /\ runPhase \in [phase : RunPhases, of : Nat]
      /\ record \in [of : Nat, child : BOOLEAN, detached : BOOLEAN]
      /\ report \in [by : Nat, streaming : BOOLEAN, recent : BOOLEAN]
      /\ game \in {NoSession, started} /\ handle \in {NoSession, started}
      /\ record.of <= started /\ report.by <= started /\ runPhase.of <= started
      /\ runPhase.phase \in InFlightPhases \cup {"Stopping"} => runPhase.of = started
      /\ runPhase.phase = "Stopping" => handle = started /\ handle # NoSession
      /\ monitor.asOf <= started
  BY <1>1 DEF MachineTypeOK, SessionInv
<1>3. /\ NoRecord \in [of : Nat, child : BOOLEAN, detached : BOOLEAN] /\ NoRecord.of = 0
      /\ NoRunPhase \in [phase : RunPhases, of : Nat] /\ NoRunPhase.of = 0
      /\ NoRunPhase.phase = "none" /\ NoSession = 0
  BY DEF NoRecord, NoRunPhase, NoSession, RunPhases
<1> USE <1>2, <1>3 DEF MachineTypeOK, SessionInv
<1>4. CASE Preflight
  <2>1. /\ started' = started + 1 /\ runPhase' = [phase |-> "Preflight", of |-> started + 1]
        /\ game = NoSession /\ handle = NoSession
        /\ UNCHANGED <<game, handle, record, report, monitor>>
    BY <1>4 DEF Preflight, MayStart, watcherVars
  <2> QED
    BY <1>1, <2>1 DEF RunPhases, InFlightPhases
<1>5. CASE Launching
  <2>1. /\ runPhase.phase = "Preflight" /\ runPhase' = [runPhase EXCEPT !.phase = "Launching"]
        /\ record' = [NoRecord EXCEPT !.of = runPhase.of]
        /\ UNCHANGED <<started, game, handle, report, monitor>>
    BY <1>5 DEF Launching, watcherVars
  <2> QED
    BY <1>1, <2>1 DEF RunPhases, InFlightPhases
<1>6. CASE SpawnGame
  <2>1. /\ runPhase.phase = "Launching" /\ game' = runPhase.of
        /\ record' = [record EXCEPT !.child = TRUE]
        /\ UNCHANGED <<started, handle, runPhase, report, monitor>>
    BY <1>6 DEF SpawnGame, watcherVars
  <2> QED
    BY <1>1, <2>1 DEF RunPhases, InFlightPhases
<1>7. CASE GoLive
  <2>1. /\ runPhase.phase = "Launching" /\ handle' = runPhase.of /\ runPhase' = NoRunPhase
        /\ UNCHANGED <<started, game, record, report, monitor>>
    BY <1>7 DEF GoLive, watcherVars
  <2> QED
    BY <1>1, <2>1 DEF RunPhases, InFlightPhases
<1>8. CASE GameEnds
  <2>1. /\ game' = NoSession
        /\ UNCHANGED <<started, handle, runPhase, record, report, monitor>>
    BY <1>8 DEF GameEnds
  <2> QED
    BY <1>1, <2>1
<1>9. CASE BeginTeardown
  <2>1. /\ handle # NoSession /\ runPhase' = [phase |-> "Stopping", of |-> handle]
        /\ UNCHANGED <<started, game, handle, record, report, monitor>>
    BY <1>9 DEF BeginTeardown, watcherVars
  <2> QED
    BY <1>1, <2>1 DEF RunPhases, InFlightPhases
<1>10. CASE EndTeardown
  <2>1. /\ record' \in {record, NoRecord} /\ handle' = NoSession
        /\ runPhase' = [runPhase EXCEPT !.phase = "Exited"]
        /\ UNCHANGED <<started, game, report, monitor>>
    BY <1>10 DEF EndTeardown, watcherVars
  <2> QED
    BY <1>1, <2>1 DEF RunPhases, InFlightPhases
<1>11. CASE DetachRun
  <2>1. /\ record' = [record EXCEPT !.detached = TRUE] /\ handle' = NoSession
        /\ runPhase = NoRunPhase
        /\ UNCHANGED <<started, game, runPhase, report, monitor>>
    BY <1>11 DEF DetachRun, watcherVars
  <2> QED
    BY <1>1, <2>1 DEF RunPhases, InFlightPhases
<1>12. CASE ForeignRun
  <2>1. /\ started' = started + 1 /\ game' = started + 1 /\ handle = NoSession
        /\ runPhase.phase \notin InFlightPhases
        /\ record' \in {record, [NoRecord EXCEPT !.of = started + 1, !.child = TRUE]}
        /\ UNCHANGED <<handle, runPhase, report, monitor>>
    BY <1>12 DEF ForeignRun, MayStart, watcherVars
  <2>2. /\ record' \in [of : Nat, child : BOOLEAN, detached : BOOLEAN]
        /\ record'.of <= started + 1
    <3>1. started + 1 \in Nat
      OBVIOUS
    <3>2. CASE record' = [NoRecord EXCEPT !.of = started + 1, !.child = TRUE]
      <4>1. record' = [of |-> started + 1, child |-> TRUE, detached |-> FALSE]
        BY ONLY <3>2 DEF NoRecord
      <4> QED
        BY <3>1, <4>1
    <3> QED
      BY <2>1, <3>2
  <2>3. /\ runPhase.phase # "Stopping" /\ runPhase.of <= started + 1
        /\ report.by <= started + 1 /\ monitor.asOf <= started + 1
    BY <1>1, <2>1
  <2> QED
    BY <1>1, <2>1, <2>2, <2>3
<1>13. CASE ClearDeadRecord
  <2>1. /\ record' = NoRecord
        /\ UNCHANGED <<started, game, handle, runPhase, report, monitor>>
    BY <1>13 DEF ClearDeadRecord, watcherVars
  <2> QED
    BY <1>1, <2>1
<1>14. ASSUME NEW s \in BOOLEAN, WriteReport(s) PROVE MachineTypeOK' /\ SessionInv'
  <2>1. /\ report' = [by |-> game, streaming |-> s, recent |-> TRUE]
        /\ UNCHANGED <<started, game, handle, runPhase, record, monitor>>
    BY <1>14 DEF WriteReport, watcherVars
  <2> QED
    BY <1>1, <2>1
<1>15. CASE ReportAges
  <2>1. /\ report' = [report EXCEPT !.recent = FALSE]
        /\ UNCHANGED <<started, game, handle, runPhase, record, monitor>>
    BY <1>15 DEF ReportAges, watcherVars
  <2> QED
    BY <1>1, <2>1
<1>16. CASE EncoderReady
  BY <1>1, <1>16 DEF EncoderReady
<1> QED
  BY <1>4, <1>5, <1>6, <1>7, <1>8, <1>9, <1>10, <1>11, <1>12, <1>13, <1>14, <1>15, <1>16
     DEF SessionStep

LEMMA SessionsKeepMonitor ==
    ASSUME WatchInv, SessionStep
    PROVE  MonitorTypeOK' /\ ShotInv' /\ FreshInv' /\ LogInv' /\ ChipInv'
<1>1. /\ MachineTypeOK /\ MonitorTypeOK /\ SessionInv /\ ShotInv /\ FreshInv /\ LogInv /\ ChipInv
      /\ started \in Nat /\ game \in Nat /\ unread \in Seq(Nat) /\ Len(unread) \in Nat
      /\ monitor.asOf \in Nat /\ monitor.asOf <= started /\ monitor.freshOf \in Nat
      /\ game \in {NoSession, started}
      /\ NoSession = 0
  BY LenProperties DEF WatchInv, WatchTypeOK, MachineTypeOK, MonitorTypeOK, SessionInv, NoSession
<1>2. CASE EncoderReady
  <2>1. /\ game # NoSession /\ (monitor.built => monitor.asOf >= game)
        /\ unread' = Append(unread, game)
        /\ UNCHANGED <<started, game, monitor, shot, fresh>>
    BY <1>2 DEF EncoderReady
  <2>2. game = started
    BY <1>1, <2>1
  <2>3. /\ unread' \in Seq(Nat) /\ Len(unread') = Len(unread) + 1
        /\ \A i \in 1 .. Len(unread) : unread'[i] = unread[i]
        /\ unread'[Len(unread) + 1] = started
    BY <1>1, <2>1, <2>2, AppendProperties
  <2>4. MonitorTypeOK' /\ ShotInv' /\ FreshInv' /\ ChipInv'
    <3>1. MonitorTypeOK'
      BY <1>1, <2>1, <2>3 DEF MonitorTypeOK
    <3>2. ShotInv'
      BY <1>1, <2>1 DEF ShotInv
    <3> QED
      BY <1>1, <2>1, <3>1, <3>2 DEF FreshInv, ChipInv
  <2>5. /\ \A i \in 1 .. Len(unread') : unread'[i] <= started
        /\ monitor.built /\ ~monitor.preload => \A i \in 1 .. Len(unread') : unread'[i] = started
    <3>1. \A i \in 1 .. Len(unread') : i \in 1 .. Len(unread) \/ i = Len(unread) + 1
      BY <1>1, <2>3
    <3>2. ASSUME NEW i \in 1 .. Len(unread') PROVE unread'[i] <= started
      <4>1. CASE i \in 1 .. Len(unread)
        BY <1>1, <2>3, <4>1 DEF LogInv
      <4>2. CASE i = Len(unread) + 1
        BY <1>1, <2>3, <4>2
      <4> QED
        BY <3>1, <4>1, <4>2
    <3>3. ASSUME monitor.built /\ ~monitor.preload, NEW i \in 1 .. Len(unread')
          PROVE  unread'[i] = started
      BY <1>1, <2>3, <3>1, <3>3 DEF LogInv
    <3> QED
      BY <3>2, <3>3
  <2>6. shot.pc # "rest" => monitor.asOf = started
    BY <1>1, <2>1, <2>2 DEF ShotInv
  <2>7. LogInv'
    BY <1>1, <2>1, <2>5, <2>6 DEF LogInv
  <2> QED
    BY <2>4, <2>7
<1>3. CASE Preflight \/ ForeignRun
  <2>1. /\ game = NoSession
        /\ ~monitor.built \/ (unread = <<>> /\ shot.parsed = NoSession)
        /\ started' = started + 1
        /\ UNCHANGED <<unread, monitor, shot, fresh>>
    BY <1>3 DEF Preflight, ForeignRun, MayStart, Quiet, watcherVars
  <2>2. MonitorTypeOK' /\ ShotInv' /\ ChipInv'
    BY <1>1, <2>1 DEF MonitorTypeOK, ShotInv, ChipInv
  <2>3. FreshInv'
    BY <1>1, <2>1 DEF FreshInv
  <2>4. /\ \A i \in 1 .. Len(unread) : unread[i] <= started + 1
        /\ monitor.built => unread = <<>> /\ Len(unread) = 0 /\ shot.parsed = NoSession
        /\ ~monitor.built => shot.pc = "rest" /\ shot.parsed = NoSession
    <3>1. \A i \in 1 .. Len(unread) : unread[i] \in Nat /\ unread[i] <= started
      BY <1>1, LenProperties DEF LogInv
    <3>2. ~monitor.built => shot.pc = "rest"
      BY <1>1 DEF ShotInv
    <3> QED
      BY <1>1, <2>1, <3>1, <3>2, EmptySeq DEF LogInv
  <2>5. LogInv'
    BY <1>1, <2>1, <2>4 DEF LogInv
  <2> QED
    BY <2>2, <2>3, <2>5
<1>4. CASE GameEnds
  <2>1. /\ shot' = [shot EXCEPT !.throughout = FALSE] /\ game' = NoSession
        /\ UNCHANGED <<started, unread, monitor, fresh>>
    BY <1>4 DEF GameEnds
  <2>2. /\ MonitorTypeOK'
        /\ shot'.pc = shot.pc /\ shot'.base = shot.base /\ shot'.of = shot.of
        /\ shot'.at = shot.at /\ shot'.phase = shot.phase /\ shot'.now = shot.now
        /\ shot'.parsed = shot.parsed /\ shot'.history = shot.history /\ ~shot'.throughout
    BY <1>1, <2>1 DEF MonitorTypeOK
  <2> QED
    BY <1>1, <2>1, <2>2 DEF ShotInv, FreshInv, LogInv, ChipInv
<1>5. CASE UNCHANGED <<started, unread, monitor, shot, fresh>> /\ (game' # game => game = NoSession)
  BY <1>1, <1>5 DEF MonitorTypeOK, ShotInv, FreshInv, LogInv, ChipInv
<1>6. \/ Preflight \/ ForeignRun \/ GameEnds \/ EncoderReady
      \/ UNCHANGED <<started, unread, monitor, shot, fresh>> /\ (game' # game => game = NoSession)
  BY DEF SessionStep, Launching, SpawnGame, GoLive, BeginTeardown, EndTeardown, DetachRun,
         ClearDeadRecord, WriteReport, ReportAges, watcherVars
<1> QED
  BY <1>2, <1>3, <1>4, <1>5, <1>6

(* What a snapshot that is about to be published says.                     *)
LEMMA StatusFacts ==
    ASSUME WatchInv, shot.pc = "phase"
    PROVE  /\ StatusOf \in Nat /\ StatusOf <= started
           /\ StatusOf # NoSession /\ ~Settles(StatusPhase) => StatusOf >= monitor.asOf
           /\ StatusPhase = "Stalled" => StatusOf = shot.of /\ shot.phase = "Stalled"
           /\ StartedAt # NoSession => StatusOf = StartedAt
           /\ shot.throughout => StatusPhase # "Idle"
           /\ shot.throughout /\ StatusPhase = "Exited" => shot.base \in {"Live", "Persisted"}
<1>1. /\ runPhase.phase \in RunPhases /\ runPhase.of \in Nat /\ runPhase.of <= started
      /\ runPhase.phase \in InFlightPhases \cup {"Stopping"} => runPhase.of = started
      /\ started \in Nat /\ monitor.asOf \in Nat /\ monitor.asOf <= started
      /\ shot.of \in Nat /\ shot.phase \in BasePhases
      /\ shot.base \in {"None", "Live", "Persisted", "External"}
  BY DEF WatchInv, WatchTypeOK, MachineTypeOK, MonitorTypeOK, SessionInv
<1>2. /\ shot.at = shot.of /\ shot.of <= monitor.asOf
      /\ shot.phase \in {"Running", "Detached", "Stalled"} => shot.of = monitor.asOf
      /\ shot.phase \in {"Running", "Detached", "Stalled", "Exited"} =>
             shot.base \in {"Live", "Persisted"}
      /\ shot.phase = "Idle" => shot.base = "None"
      /\ shot.phase = "External" => shot.base = "External"
      /\ shot.base = "Live" => shot.of = monitor.asOf
      /\ shot.base \in {"Live", "Persisted"} <=> shot.of # NoSession
      /\ shot.throughout => shot.base # "None"
  BY DEF WatchInv, ShotInv
<1>3. /\ runPhase.phase = "none" => ~Outranks
      /\ runPhase.phase = "Stopping" => Outranks
      /\ runPhase.phase \in InFlightPhases => (Outranks <=> shot.base # "Live")
      /\ runPhase.phase = "Exited" => (Outranks <=> shot.base = "None")
  BY DEF Outranks, InFlightPhases
<1>4. /\ Outranks => StatusPhase = runPhase.phase
      /\ ~Outranks => StatusPhase = shot.phase /\ ~Takeover /\ StatusOf = shot.of
      /\ Takeover <=> Outranks /\ shot.base = "Persisted" /\ shot.of # runPhase.of
      /\ StatusOf = IF Takeover \/ (Outranks /\ shot.of = NoSession) THEN runPhase.of ELSE shot.of
  BY DEF StatusPhase, StatusOf, Takeover
<1> HIDE DEF Outranks, StatusPhase, StatusOf, Takeover
<1>5. StatusOf \in Nat /\ StatusOf <= started
  BY <1>1, <1>2, <1>4
<1>6. ASSUME StatusOf # NoSession, ~Settles(StatusPhase) PROVE StatusOf >= monitor.asOf
  <2>1. CASE Outranks
    <3>1. runPhase.of = started
      BY <1>1, <1>3, <1>4, <1>6, <2>1 DEF RunPhases, InFlightPhases, Settles
    <3> QED
      BY <1>1, <1>2, <1>4, <1>6, <2>1, <3>1
  <2>2. CASE ~Outranks
    <3>1. shot.phase \notin {"Idle", "Exited"} /\ shot.of # NoSession
      BY <1>4, <1>6, <2>2 DEF Settles
    <3>2. shot.phase \in {"Running", "Detached", "Stalled"} \/ shot.phase = "External"
      BY <1>1, <3>1 DEF BasePhases
    <3> QED
      BY <1>1, <1>2, <1>4, <2>2, <3>1, <3>2
  <2> QED
    BY <2>1, <2>2
<1>7. StatusPhase = "Stalled" => StatusOf = shot.of /\ shot.phase = "Stalled"
  BY <1>1, <1>4 DEF RunPhases
<1>8. StartedAt # NoSession => StatusOf = StartedAt
  BY <1>2, <1>4 DEF StartedAt
<1>9. ASSUME shot.throughout
      PROVE  /\ StatusPhase # "Idle"
             /\ StatusPhase = "Exited" => shot.base \in {"Live", "Persisted"}
  <2>1. CASE Outranks
    <3>1. runPhase.phase # "Exited"
      BY <1>2, <1>3, <1>9, <2>1
    <3> QED
      BY <1>1, <1>4, <2>1, <3>1 DEF RunPhases
  <2>2. CASE ~Outranks
    BY <1>2, <1>4, <1>9, <2>2
  <2> QED
    BY <2>1, <2>2
<1> QED
  BY <1>5, <1>6, <1>7, <1>8, <1>9

LEMMA ChipFacts ==
    ASSUME WatchInv, shot.pc = "phase", Believable
    PROVE  /\ shot.parsed \in Nat /\ monitor.asOf = started
           /\ shot.parsed = StatusOf \/ StatusOf = NoSession \/ StatusOf < monitor.asOf
<1>1. /\ started \in Nat /\ shot.parsed \in Nat /\ shot.at \in Nat
  BY DEF WatchInv, WatchTypeOK, MachineTypeOK, MonitorTypeOK
<1>2. /\ shot.parsed # NoSession
      /\ shot.history => StartedAt # NoSession /\ shot.parsed >= StartedAt
  BY DEF Believable
<1>3. /\ monitor.asOf = started /\ shot.parsed <= started
      /\ shot.history \/ shot.parsed = started
  BY <1>2 DEF WatchInv, LogInv
<1>4. /\ StatusOf \in Nat /\ StatusOf <= started
      /\ StartedAt # NoSession => StatusOf = StartedAt
  BY StatusFacts
<1> HIDE DEF StatusOf, StartedAt
<1>5. CASE shot.history
  BY <1>1, <1>2, <1>3, <1>4, <1>5
<1>6. CASE ~shot.history
  BY <1>1, <1>3, <1>4, <1>6
<1> QED
  BY <1>1, <1>3, <1>5, <1>6

LEMMA MonitorKeepsWatch ==
    ASSUME WatchInv, WatchStep
    PROVE  WatchInv'
<1>1. /\ MachineTypeOK /\ MonitorTypeOK /\ SessionInv /\ ShotInv /\ FreshInv /\ LogInv /\ ChipInv
      /\ started \in Nat /\ game \in Nat /\ handle \in Nat
      /\ unread \in Seq(Nat) /\ Len(unread) \in Nat
      /\ record.of \in Nat /\ record.of <= started /\ report.by \in Nat /\ report.by <= started
      /\ report.recent \in BOOLEAN /\ report.streaming \in BOOLEAN
      /\ game \in {NoSession, started} /\ handle \in {NoSession, started}
      /\ NoSession = 0
  BY LenProperties DEF WatchInv, WatchTypeOK, MachineTypeOK, MonitorTypeOK, SessionInv, NoSession
<1>2. /\ monitor \in [built : BOOLEAN, created : Nat, preload : BOOLEAN, chip : Nat, chipOf : Nat,
                      everFresh : BOOLEAN, freshOf : Nat, streaming : BOOLEAN, settled : BOOLEAN,
                      asOf : Nat]
      /\ shot \in [pc : {"rest", "report", "table", "log", "phase"},
                   base : {"None", "Live", "Persisted", "External"}, of : Nat, at : Nat,
                   phase : BasePhases, now : BOOLEAN, parsed : Nat, history : BOOLEAN,
                   throughout : BOOLEAN]
      /\ monitor.asOf \in Nat /\ monitor.asOf <= started /\ shot.of \in Nat
  BY <1>1 DEF MonitorTypeOK, SessionInv
<1>3. NoShot \in [pc : {"rest", "report", "table", "log", "phase"},
                  base : {"None", "Live", "Persisted", "External"}, of : Nat, at : Nat,
                  phase : BasePhases, now : BOOLEAN, parsed : Nat, history : BOOLEAN,
                  throughout : BOOLEAN]
  BY DEF NoShot, BasePhases, NoSession
<1>4. ASSUME UNCHANGED machineVars
      PROVE  /\ UNCHANGED <<started, game, handle, runPhase, record, report>>
             /\ MachineTypeOK'
             /\ monitor'.asOf \in {monitor.asOf, started} => SessionInv'
  <2>1. UNCHANGED <<started, game, handle, runPhase, record, report>>
    BY <1>4 DEF machineVars
  <2> QED
    BY <1>1, <1>2, <2>1 DEF MachineTypeOK, SessionInv
<1>5. CASE BuildMonitor
  <2>1. /\ ~monitor.built
        /\ monitor' = [monitor EXCEPT !.built = TRUE, !.created = started]
        /\ UNCHANGED machineVars /\ UNCHANGED <<unread, shot, fresh>>
    BY <1>5 DEF BuildMonitor
  <2>2. /\ monitor' \in [built : BOOLEAN, created : Nat, preload : BOOLEAN, chip : Nat,
                         chipOf : Nat, everFresh : BOOLEAN, freshOf : Nat, streaming : BOOLEAN,
                         settled : BOOLEAN, asOf : Nat]
        /\ monitor'.preload = monitor.preload /\ monitor'.chip = monitor.chip
        /\ monitor'.chipOf = monitor.chipOf /\ monitor'.everFresh = monitor.everFresh
        /\ monitor'.freshOf = monitor.freshOf /\ monitor'.asOf = monitor.asOf /\ monitor'.built
    BY <1>1, <1>2, <2>1
  <2>3. MachineTypeOK' /\ MonitorTypeOK' /\ SessionInv'
    BY <1>1, <1>4, <2>1, <2>2 DEF MonitorTypeOK
  <2>4. UNCHANGED <<started, game>>
    BY <1>4, <2>1
  <2>5. ShotInv' /\ FreshInv' /\ LogInv' /\ ChipInv'
    BY <1>1, <2>1, <2>2, <2>4 DEF ShotInv, FreshInv, LogInv, ChipInv
  <2> QED
    BY <2>3, <2>5 DEF WatchInv, WatchTypeOK
<1>6. CASE ReadBase
  <2> DEFINE base == IF handle # NoSession THEN "Live"
                     ELSE IF record.of # NoSession THEN "Persisted" ELSE "None"
             of == IF base = "Live" THEN handle ELSE record.of
             alive == game = of /\ (base = "Live" \/ record.child)
             phase == IF base = "None" THEN "Idle"
                      ELSE IF ~alive THEN "Exited"
                      ELSE IF base = "Persisted" /\ record.detached THEN "Detached"
                      ELSE "Running"
             thru == game # NoSession
  <2>1. /\ monitor.built /\ shot.pc = "rest"
        /\ shot' = [NoShot EXCEPT !.pc = "report", !.base = base, !.of = of, !.at = of,
                                  !.throughout = thru, !.phase = phase]
        /\ monitor' = IF monitor.freshOf = of THEN [monitor EXCEPT !.asOf = started]
                      ELSE [monitor EXCEPT !.freshOf = of, !.everFresh = FALSE,
                                           !.streaming = FALSE, !.asOf = started]
        /\ UNCHANGED machineVars /\ UNCHANGED <<unread, fresh>>
    BY <1>6 DEF ReadBase
  <2>2. /\ base \in {"None", "Live", "Persisted"} /\ of \in Nat /\ of <= started
        /\ (base = "Live" => of = started)
        /\ (base \in {"Live", "Persisted"} <=> of # NoSession)
        /\ phase \in BasePhases /\ phase # "Stalled"
        /\ (phase = "Idle" => base = "None") /\ phase # "External"
        /\ (phase \in {"Running", "Detached", "Exited"} => base \in {"Live", "Persisted"})
        /\ (phase \in {"Running", "Detached"} => of = started)
        /\ thru \in BOOLEAN
    BY <1>1 DEF BasePhases
  <2> HIDE DEF base, of, alive, phase, thru
  <2>3. /\ shot' \in [pc : {"rest", "report", "table", "log", "phase"},
                      base : {"None", "Live", "Persisted", "External"}, of : Nat, at : Nat,
                      phase : BasePhases, now : BOOLEAN, parsed : Nat, history : BOOLEAN,
                      throughout : BOOLEAN]
        /\ shot'.pc = "report" /\ shot'.base = base /\ shot'.of = of /\ shot'.at = of
        /\ shot'.throughout = thru /\ shot'.phase = phase
    BY <1>3, <2>1, <2>2
  <2>4. shot'.now = FALSE /\ shot'.parsed = NoSession
    <3>1. shot'.now = NoShot.now /\ shot'.parsed = NoShot.parsed
      BY <1>3, <2>1
    <3>2. NoShot.now = FALSE /\ NoShot.parsed = NoSession
      BY DEF NoShot
    <3> QED
      BY <3>1, <3>2
  <2>5. /\ monitor' \in [built : BOOLEAN, created : Nat, preload : BOOLEAN, chip : Nat,
                         chipOf : Nat, everFresh : BOOLEAN, freshOf : Nat, streaming : BOOLEAN,
                         settled : BOOLEAN, asOf : Nat]
        /\ monitor'.preload = monitor.preload /\ monitor'.chip = monitor.chip
        /\ monitor'.chipOf = monitor.chipOf /\ monitor'.built = monitor.built
        /\ monitor'.freshOf = of /\ monitor'.asOf = started
        /\ (monitor'.everFresh => monitor.everFresh /\ monitor.freshOf = of)
    BY <1>1, <1>2, <2>1, <2>2
  <2>6. MachineTypeOK' /\ MonitorTypeOK' /\ SessionInv' /\ UNCHANGED <<started, game>>
    BY <1>1, <1>4, <2>1, <2>3, <2>5 DEF MonitorTypeOK
  <2>7. ShotInv'
    <3>1. shot'.throughout => game' # NoSession
      BY <2>3, <2>6 DEF thru
    <3>2. /\ monitor'.built /\ shot'.at = shot'.of /\ monitor'.freshOf = shot'.of
          /\ shot'.of <= monitor'.asOf
      BY <2>1, <2>2, <2>3, <2>5
    <3>3. shot'.phase \in {"Running", "Detached", "Stalled"} => shot'.of = monitor'.asOf
      BY <2>2, <2>3, <2>5
    <3>4. /\ shot'.phase \in {"Running", "Detached", "Stalled", "Exited"} =>
                shot'.base \in {"Live", "Persisted"}
          /\ shot'.phase = "Idle" => shot'.base = "None"
          /\ shot'.phase = "External" => shot'.base = "External"
          /\ shot'.base \in {"Live", "Persisted"} <=> shot'.of # NoSession
      BY <2>2, <2>3
    <3>5. shot'.base = "Live" => shot'.of = monitor'.asOf
      BY <2>2, <2>3, <2>5
    <3>6. ~shot'.now /\ shot'.pc = "report"
      BY <2>3, <2>4
    <3> QED
      BY <3>1, <3>2, <3>3, <3>4, <3>5, <3>6 DEF ShotInv
  <2>8. FreshInv'
    <3>1. monitor'.everFresh /\ of # NoSession => of \in fresh \/ of < started
      BY <1>1, <2>5 DEF FreshInv
    <3>2. phase = "Running" => of = started /\ of # NoSession
      BY <2>2
    <3> QED
      BY <1>1, <2>1, <2>2, <2>3, <2>5, <2>6, <3>1, <3>2 DEF FreshInv
  <2>9. LogInv'
    BY <1>1, <2>1, <2>3, <2>4, <2>5, <2>6 DEF LogInv
  <2>10. ChipInv'
    BY <1>1, <1>2, <2>5 DEF ChipInv
  <2> QED
    BY <2>6, <2>7, <2>8, <2>9, <2>10 DEF WatchInv, WatchTypeOK
<1>7. CASE ReadReport
  <2> DEFINE now == report.by # NoSession /\ report.recent /\ report.by >= shot.of
             external == now /\ shot.base = "None" /\ game = report.by
             base == IF external THEN "External" ELSE shot.base
             phase == IF external THEN "External" ELSE shot.phase
  <2>1. /\ shot.pc = "report"
        /\ shot' = [shot EXCEPT !.pc = "table", !.now = now, !.base = base, !.phase = phase]
        /\ monitor' = [monitor EXCEPT !.everFresh = monitor.everFresh \/ now,
                                      !.streaming = IF report.by = NoSession THEN monitor.streaming
                                                    ELSE report.streaming]
        /\ fresh' = IF now /\ report.by = shot.of THEN fresh \cup {shot.of} ELSE fresh
        /\ UNCHANGED machineVars /\ UNCHANGED unread
    BY <1>7 DEF ReadReport
  <2>2. /\ now \in BOOLEAN
        /\ \/ base = shot.base /\ phase = shot.phase
           \/ base = "External" /\ phase = "External" /\ shot.base = "None"
        /\ (now => report.by >= shot.of)
    BY <1>1, <1>2
  <2> HIDE DEF now, external, base, phase
  <2>3. /\ base \in {"None", "Live", "Persisted", "External"} /\ phase \in BasePhases
    BY <1>2, <2>2 DEF BasePhases
  <2>4. /\ shot' \in [pc : {"rest", "report", "table", "log", "phase"},
                      base : {"None", "Live", "Persisted", "External"}, of : Nat, at : Nat,
                      phase : BasePhases, now : BOOLEAN, parsed : Nat, history : BOOLEAN,
                      throughout : BOOLEAN]
        /\ shot'.pc = "table" /\ shot'.base = base /\ shot'.of = shot.of /\ shot'.at = shot.at
        /\ shot'.throughout = shot.throughout /\ shot'.phase = phase /\ shot'.now = now
        /\ shot'.parsed = shot.parsed
    BY <1>2, <2>1, <2>2, <2>3
  <2>5. /\ monitor' \in [built : BOOLEAN, created : Nat, preload : BOOLEAN, chip : Nat,
                         chipOf : Nat, everFresh : BOOLEAN, freshOf : Nat, streaming : BOOLEAN,
                         settled : BOOLEAN, asOf : Nat]
        /\ monitor'.preload = monitor.preload /\ monitor'.chip = monitor.chip
        /\ monitor'.chipOf = monitor.chipOf /\ monitor'.built = monitor.built
        /\ monitor'.freshOf = monitor.freshOf /\ monitor'.asOf = monitor.asOf
        /\ monitor'.everFresh = (monitor.everFresh \/ now)
    BY <1>1, <1>2, <2>1, <2>2
  <2>6. MachineTypeOK' /\ MonitorTypeOK' /\ SessionInv' /\ UNCHANGED <<started, game>>
    BY <1>1, <1>4, <2>1, <2>4, <2>5 DEF MonitorTypeOK
  <2>7. ShotInv'
    BY <1>1, <2>1, <2>2, <2>4, <2>5, <2>6 DEF ShotInv
  <2>8. FreshInv'
    <3>1. monitor.freshOf = shot.of /\ ~shot.now
      BY <1>1, <2>1 DEF ShotInv
    <3>2. now => shot.of \in fresh' \/ shot.of < started
      BY <1>1, <1>2, <2>1, <2>2
    <3>3. fresh \subseteq fresh'
      BY <2>1
    <3>4. phase \in {"Running", "Stalled"} => phase = shot.phase
      BY <2>2
    <3>5. /\ monitor.everFresh /\ shot.of # NoSession => shot.of \in fresh' \/ shot.of < started
          /\ shot.phase = "Running" /\ monitor.everFresh => shot.of \in fresh'
          /\ shot.phase = "Stalled" => shot.of \in fresh'
      BY <1>1, <2>1, <3>1, <3>3 DEF FreshInv
    <3> QED
      BY <2>4, <2>5, <2>6, <3>1, <3>2, <3>4, <3>5 DEF FreshInv
  <2>9. LogInv' /\ ChipInv'
    BY <1>1, <2>1, <2>4, <2>5, <2>6 DEF LogInv, ChipInv
  <2> QED
    BY <2>6, <2>7, <2>8, <2>9 DEF WatchInv, WatchTypeOK
<1>8. CASE ReadTable
  <2>1. /\ shot.pc = "table"
        /\ \/ shot' = [shot EXCEPT !.pc = "log", !.base = "External", !.phase = "External"]
              /\ shot.base = "None"
           \/ shot' = [shot EXCEPT !.pc = "log"] /\ (shot.base # "None" \/ game = NoSession)
        /\ UNCHANGED machineVars /\ UNCHANGED <<unread, monitor, fresh>>
    BY <1>8 DEF ReadTable
  <2>2. /\ shot' \in [pc : {"rest", "report", "table", "log", "phase"},
                      base : {"None", "Live", "Persisted", "External"}, of : Nat, at : Nat,
                      phase : BasePhases, now : BOOLEAN, parsed : Nat, history : BOOLEAN,
                      throughout : BOOLEAN]
        /\ shot'.pc = "log" /\ shot'.of = shot.of /\ shot'.at = shot.at
        /\ shot'.throughout = shot.throughout /\ shot'.now = shot.now
        /\ shot'.parsed = shot.parsed
        /\ \/ shot'.base = shot.base /\ shot'.phase = shot.phase
              /\ (shot.base # "None" \/ game = NoSession)
           \/ shot'.base = "External" /\ shot'.phase = "External" /\ shot.base = "None"
    BY <1>2, <2>1 DEF BasePhases
  <2>3. MachineTypeOK' /\ MonitorTypeOK' /\ SessionInv' /\ UNCHANGED <<started, game>>
    BY <1>1, <1>4, <2>1, <2>2 DEF MonitorTypeOK
  <2>4. ShotInv' /\ FreshInv' /\ LogInv' /\ ChipInv'
    BY <1>1, <2>1, <2>2, <2>3 DEF ShotInv, FreshInv, LogInv, ChipInv
  <2> QED
    BY <2>3, <2>4 DEF WatchInv, WatchTypeOK
<1>9. CASE ReadLog
  <2> DEFINE line == IF unread = <<>> THEN NoSession ELSE unread[Len(unread)]
  <2>1. PICK quiet \in BOOLEAN :
          shot' = [shot EXCEPT
             !.pc = "phase", !.parsed = line, !.history = monitor.preload,
             !.phase = IF shot.phase = "Running" /\ monitor.streaming /\ monitor.everFresh
                          /\ ~shot.now /\ quiet
                       THEN "Stalled" ELSE shot.phase]
    BY <1>9 DEF ReadLog
  <2> DEFINE phase == IF shot.phase = "Running" /\ monitor.streaming /\ monitor.everFresh
                         /\ ~shot.now /\ quiet
                      THEN "Stalled" ELSE shot.phase
  <2>2. /\ shot.pc = "log" /\ unread' = <<>> /\ monitor' = [monitor EXCEPT !.preload = FALSE]
        /\ UNCHANGED machineVars /\ UNCHANGED fresh
    BY <1>9 DEF ReadLog
  <2>3. /\ line \in Nat /\ line <= started
        /\ (line # NoSession => unread # <<>>)
        /\ (line # NoSession /\ monitor.built /\ ~monitor.preload => line = started)
    <3>1. CASE unread = <<>>
      BY <1>1, <3>1
    <3>2. CASE unread # <<>>
      <4>1. Len(unread) \in 1 .. Len(unread)
        BY <1>1, <3>2, EmptySeq
      <4> QED
        BY <1>1, <3>2, <4>1, LenProperties DEF LogInv
    <3> QED
      BY <3>1, <3>2
  <2>4. /\ phase \in BasePhases
        /\ \/ phase = shot.phase
           \/ phase = "Stalled" /\ shot.phase = "Running" /\ monitor.everFresh /\ ~shot.now
    BY <1>2 DEF BasePhases
  <2> HIDE DEF line, phase
  <2>5. /\ shot' \in [pc : {"rest", "report", "table", "log", "phase"},
                      base : {"None", "Live", "Persisted", "External"}, of : Nat, at : Nat,
                      phase : BasePhases, now : BOOLEAN, parsed : Nat, history : BOOLEAN,
                      throughout : BOOLEAN]
        /\ shot'.pc = "phase" /\ shot'.of = shot.of /\ shot'.at = shot.at
        /\ shot'.throughout = shot.throughout /\ shot'.now = shot.now /\ shot'.base = shot.base
        /\ shot'.parsed = line /\ shot'.phase = phase /\ shot'.history = monitor.preload
    <3>1. monitor.preload \in BOOLEAN
      BY <1>2
    <3>2. shot' = [shot EXCEPT !.pc = "phase", !.parsed = line, !.history = monitor.preload,
                               !.phase = phase]
      BY <2>1 DEF phase
    <3> QED
      BY <1>2, <2>3, <2>4, <3>1, <3>2
  <2>6. /\ monitor' \in [built : BOOLEAN, created : Nat, preload : BOOLEAN, chip : Nat,
                         chipOf : Nat, everFresh : BOOLEAN, freshOf : Nat, streaming : BOOLEAN,
                         settled : BOOLEAN, asOf : Nat]
        /\ monitor'.chip = monitor.chip
        /\ monitor'.chipOf = monitor.chipOf /\ monitor'.built = monitor.built
        /\ monitor'.freshOf = monitor.freshOf /\ monitor'.asOf = monitor.asOf
        /\ monitor'.everFresh = monitor.everFresh
    BY <1>2, <2>2
  <2>7. MachineTypeOK' /\ MonitorTypeOK' /\ SessionInv' /\ UNCHANGED <<started, game>>
    BY <1>1, <1>4, <2>2, <2>5, <2>6, EmptySeq DEF MonitorTypeOK
  <2>8. ShotInv'
    BY <1>1, <2>2, <2>4, <2>5, <2>6, <2>7 DEF ShotInv
  <2>9. FreshInv' /\ ChipInv'
    BY <1>1, <2>2, <2>4, <2>5, <2>6, <2>7 DEF FreshInv, ChipInv
  <2>10. LogInv'
    <3>1. Len(unread') = 0 /\ monitor.built
      BY <1>1, <2>2, EmptySeq DEF ShotInv
    <3>2. line # NoSession => monitor.asOf = started
      BY <1>1, <2>2, <2>3 DEF LogInv
    <3> QED
      BY <1>1, <2>2, <2>3, <2>5, <2>6, <2>7, <3>1, <3>2 DEF LogInv
  <2> QED
    BY <2>7, <2>8, <2>9, <2>10 DEF WatchInv, WatchTypeOK
<1>10. CASE PublishStatus
  <2> DEFINE chipOf == IF Believable THEN StatusOf
                       ELSE IF ChipGoes THEN NoSession ELSE monitor.chipOf
  <2>1. /\ shot.pc = "phase" /\ shot' = NoShot
        /\ monitor' = [monitor EXCEPT !.chip = StatusChip, !.settled = Settles(StatusPhase),
                                      !.chipOf = chipOf]
        /\ UNCHANGED machineVars /\ UNCHANGED <<unread, fresh>>
    BY <1>10 DEF PublishStatus
  <2>2. /\ StatusChip \in Nat /\ chipOf \in Nat /\ Settles(StatusPhase) \in BOOLEAN
        /\ \/ StatusChip \in {NoSession, chipOf} \/ chipOf = NoSession
           \/ chipOf < monitor.asOf
    <3>1. /\ shot.parsed \in Nat /\ monitor.chip \in Nat /\ monitor.chipOf \in Nat
          /\ StatusOf \in Nat
      BY <1>2, <2>1, StatusFacts
    <3>2. CASE Believable
      BY <2>1, <3>1, <3>2, ChipFacts DEF StatusChip, Settles
    <3>3. CASE ~Believable /\ ChipGoes
      BY <1>1, <3>3 DEF StatusChip, Settles
    <3>4. CASE ~Believable /\ ~ChipGoes
      BY <1>1, <3>1, <3>4 DEF StatusChip, Settles, ChipInv
    <3> QED
      BY <3>2, <3>3, <3>4
  <2> HIDE DEF chipOf
  <2>3. /\ monitor' \in [built : BOOLEAN, created : Nat, preload : BOOLEAN, chip : Nat,
                         chipOf : Nat, everFresh : BOOLEAN, freshOf : Nat, streaming : BOOLEAN,
                         settled : BOOLEAN, asOf : Nat]
        /\ monitor'.chip = StatusChip /\ monitor'.preload = monitor.preload
        /\ monitor'.chipOf = chipOf /\ monitor'.built = monitor.built
        /\ monitor'.freshOf = monitor.freshOf /\ monitor'.asOf = monitor.asOf
        /\ monitor'.everFresh = monitor.everFresh
    BY <1>2, <2>1, <2>2
  <2>4. NoShot.pc = "rest" /\ NoShot.parsed = NoSession /\ ~NoShot.throughout
    BY DEF NoShot
  <2>5. MachineTypeOK' /\ MonitorTypeOK' /\ SessionInv' /\ UNCHANGED <<started, game>>
    BY <1>1, <1>3, <1>4, <2>1, <2>3 DEF MonitorTypeOK
  <2>6. ShotInv' /\ FreshInv' /\ ChipInv'
    BY <1>1, <2>1, <2>2, <2>3, <2>4, <2>5 DEF ShotInv, FreshInv, ChipInv
  <2>7. LogInv'
    BY <1>1, <2>1, <2>3, <2>4, <2>5 DEF LogInv
  <2> QED
    BY <2>5, <2>6, <2>7 DEF WatchInv, WatchTypeOK
<1> QED
  BY <1>5, <1>6, <1>7, <1>8, <1>9, <1>10 DEF WatchStep

LEMMA WatchInitInv ==
    ASSUME WatchInit
    PROVE  WatchInv
<1>1. /\ started = 0 /\ game = 0 /\ handle = 0 /\ NoSession = 0 /\ unread = <<>>
      /\ Len(unread) = 0 /\ unread \in Seq(Nat)
      /\ runPhase = NoRunPhase /\ record = NoRecord /\ report = NoReport /\ shot = NoShot
      /\ monitor = [built |-> FALSE, created |-> 0, preload |-> TRUE, chip |-> 0, chipOf |-> 0,
                    everFresh |-> FALSE, freshOf |-> 0, streaming |-> FALSE, settled |-> TRUE,
                    asOf |-> 0]
  BY EmptySeq DEF WatchInit, NoSession
<1>2. MachineTypeOK /\ SessionInv
  BY <1>1 DEF MachineTypeOK, SessionInv, NoRunPhase, NoRecord, NoReport, RunPhases, InFlightPhases
<1>3. MonitorTypeOK
  BY <1>1 DEF MonitorTypeOK, NoShot, BasePhases
<1>4. NoShot.pc = "rest" /\ NoShot.parsed = 0 /\ ~NoShot.throughout
  BY DEF NoShot, NoSession
<1>5. ShotInv /\ FreshInv /\ LogInv /\ ChipInv
  BY <1>1, <1>4 DEF ShotInv, FreshInv, LogInv, ChipInv
<1> QED
  BY <1>2, <1>3, <1>5 DEF WatchInv, WatchTypeOK

LEMMA WatchNextInv ==
    ASSUME WatchInv, [WatchNext]_watchVars
    PROVE  WatchInv'
<1>1. CASE SessionStep
  BY <1>1, SessionsKeepMachine, SessionsKeepMonitor DEF WatchInv, WatchTypeOK
<1>2. CASE WatchStep
  BY <1>2, MonitorKeepsWatch
<1>3. CASE UNCHANGED watchVars
  BY <1>3 DEF watchVars, machineVars, WatchInv, WatchTypeOK, MachineTypeOK, MonitorTypeOK,
              SessionInv, ShotInv, FreshInv, LogInv, ChipInv
<1> QED
  BY <1>1, <1>2, <1>3 DEF WatchNext

LEMMA WatchAlways == WatchSpec => []WatchInv
<1>1. WatchInit => WatchInv
  BY WatchInitInv
<1>2. WatchInv /\ [WatchNext]_watchVars => WatchInv'
  BY WatchNextInv
<1> QED
  BY <1>1, <1>2, PTL DEF WatchSpec

(* session/watcher.rs shows of a session under way only what is its own,   *)
(* the codec and a stall, whatever came before it.                         *)
THEOREM StatusIsItsRuns == WatchSpec => StatusIsOfItsRun
<1>1. WatchInv /\ [WatchNext]_watchVars =>
        [shot.pc = "phase" /\ shot'.pc # "phase" =>
           /\ StatusOf # NoSession /\ ~Settles(StatusPhase) => StatusChip \in {NoSession, StatusOf}
           /\ StatusPhase = "Stalled" => StatusOf \in fresh]_watchVars
  <2> SUFFICES ASSUME WatchInv, shot.pc = "phase"
               PROVE  /\ StatusOf # NoSession /\ ~Settles(StatusPhase) =>
                             StatusChip \in {NoSession, StatusOf}
                      /\ StatusPhase = "Stalled" => StatusOf \in fresh
    OBVIOUS
  <2>1. ASSUME StatusOf # NoSession, ~Settles(StatusPhase)
        PROVE  StatusChip \in {NoSession, StatusOf}
    <3>1. StatusOf >= monitor.asOf /\ StatusOf \in Nat /\ monitor.asOf \in Nat
      BY <2>1, StatusFacts DEF WatchInv, WatchTypeOK, MonitorTypeOK
    <3>2. CASE Believable
      BY <2>1, <3>1, <3>2, ChipFacts DEF StatusChip
    <3>3. CASE ~Believable
      <4>1. StatusChip = NoSession \/ (StatusChip = monitor.chip /\ monitor.chipOf = StatusOf)
        BY <3>3 DEF StatusChip, ChipGoes
      <4> QED
        BY <2>1, <3>1, <4>1 DEF WatchInv, ChipInv
    <3> QED
      BY <3>2, <3>3
  <2>2. StatusPhase = "Stalled" => StatusOf \in fresh
    BY StatusFacts DEF WatchInv, FreshInv
  <2> QED
    BY <2>1, <2>2
<1>2. WatchSpec => []WatchInv
  BY WatchAlways
<1> QED
  BY <1>1, <1>2, PTL DEF WatchSpec, StatusIsOfItsRun

(* And Idle is never shown over a game that ran throughout the snapshot.   *)
THEOREM NoGameIsIdle == WatchSpec => NoIdleOverAGame
<1>1. WatchInv /\ [WatchNext]_watchVars =>
        [shot.pc = "phase" /\ shot'.pc # "phase" /\ shot.throughout =>
           /\ StatusPhase # "Idle"
           /\ StatusPhase = "Exited" => shot.base \in {"Live", "Persisted"}]_watchVars
  BY StatusFacts
<1>2. WatchSpec => []WatchInv
  BY WatchAlways
<1> QED
  BY <1>1, <1>2, PTL DEF WatchSpec, NoIdleOverAGame

-----------------------------------------------------------------------------
(* The lines of a log pane, for any writer, preload, batch and budget.  A  *)
(* cursor fits what was sent when the line before it is the last one sent, *)
(* or when whatever is written from now on is of a later incarnation       *)
(* (Fits); a poll in progress may have read across a rewrite, and then its *)
(* end sees that the line it began behind is gone, or no such line was     *)
(* there to tell by (CursorInv).                                           *)
Line == [inc : Nat, n : Nat]
TailState == [task : {"none", "runs", "ended"}, open : Inodes \cup {NoInode},
              id : Inodes \cup {NoInode}, offset : Nat, sig : Seq(Line), pending : Seq(Line),
              carry : Nat, marker : BOOLEAN, blended : BOOLEAN]
PollState == [pc : {"rest", "check", "reopen", "read"}, id : Inodes \cup {NoInode}, len : Nat,
              rotated : BOOLEAN, reads : Nat, before : Nat, sig : Seq(Line), pending : Nat,
              mixed : BOOLEAN]

TailTypeOK ==
    /\ content \in [Inodes -> Seq(Line)]
    /\ named \in Inodes \cup {NoInode}
    /\ age \in 0 .. MaxIncarnations
    /\ tail \in TailState
    /\ poll \in PollState
    /\ told \in Seq(Line)
    /\ poll.pc = "read" => /\ tail.open # NoInode
                           /\ poll.pending <= Len(tail.pending)

(* The lines of an inode are of one incarnation, the last one's in the     *)
(* inode the path names, and numbered from 1.                              *)
FileInv ==
    /\ named <= age
    /\ \A i \in Inodes : \A k \in 1 .. Len(content[i]) :
          /\ content[i][k].n = k
          /\ content[i][k].inc <= age
          /\ content[i][k].inc = content[i][1].inc
          /\ i = named => content[i][k].inc = age
          /\ i # named /\ named # NoInode => content[i][k].inc < age
    /\ \A i \in Inodes : i > age => content[i] = <<>>

(* s and then t, as one list.                                              *)
Ordered(s, t) ==
    /\ \A i \in 1 .. Len(s) - 1 : Follows(s[i], s[i + 1])
    /\ \A i \in 1 .. Len(t) - 1 : Follows(t[i], t[i + 1])
    /\ s # <<>> /\ t # <<>> => Follows(s[Len(s)], t[1])
Some(s, t) == s # <<>> \/ t # <<>>
EndOf(s, t) == IF t # <<>> THEN t[Len(t)] ELSE s[Len(s)]

(* With the file of each inode in c, the path on m and the incarnation a:  *)
(* all that is written from now on is newer than what goes out, u and then *)
(* t; the line before the k-th of o is the last that goes out.             *)
Behind(m, a, u, t) == Some(u, t) => EndOf(u, t).inc < a \/ m = NoInode

Intact(c, u, o, t, k) == k <= Len(c[o]) /\ c[o][k] = EndOf(u, t)

Fits(c, m, a, u, o, t, k) ==
    /\ Ordered(u, t)
    /\ Some(u, t) => EndOf(u, t).inc <= a
    /\ o = NoInode \/ k = 0 => Behind(m, a, u, t)
    /\ o # NoInode /\ k = 0 /\ Some(u, t) =>
           \A j \in 1 .. Len(c[o]) : c[o][j].inc > EndOf(u, t).inc
    /\ o # NoInode /\ k > 0 => Some(u, t) /\ (Intact(c, u, o, t, k) \/ Behind(m, a, u, t))

SigOf(u, t, k) == IF k = 0 THEN <<>> ELSE <<EndOf(u, t)>>

(* What goes out whatever the poll in progress finds.                      *)
Sure == SubSeq(tail.pending, 1, poll.pending)
Clean == ~poll.mixed /\ Signature(tail.open, poll.before) = poll.sig

IdleInv == tail.task = "none" => told = <<>> /\ ~tail.blended /\ poll.pc = "rest"

RestInv ==
    poll.pc # "read" =>
        /\ Fits(content, named, age, told, tail.open, tail.pending, tail.offset)
        /\ tail.open # NoInode => tail.sig = SigOf(told, tail.pending, tail.offset)
        /\ tail.offset > 0 => tail.open = tail.id
        /\ poll.reads = 0 /\ ~poll.mixed

JudgeInv ==
    /\ poll.pc = "check" /\ (tail.open = NoInode \/ tail.id # poll.id \/ poll.len < tail.offset) =>
           Behind(named, age, told, tail.pending)
    /\ poll.pc = "reopen" => Behind(named, age, told, tail.pending)

ReadInv ==
    poll.pc = "read" =>
        /\ tail.id = poll.id
        /\ Fits(content, named, age, told, tail.open, Sure, poll.before)
        /\ poll.sig = SigOf(told, Sure, poll.before)
        /\ poll.before > 0 => tail.open = tail.id
        /\ tail.offset = poll.before + poll.reads
        /\ Len(tail.pending) = poll.pending + poll.reads
        /\ tail.sig = SigOf(told, tail.pending, tail.offset)
        /\ Clean => /\ Fits(content, named, age, told, tail.open, tail.pending, tail.offset)
                    /\ tail.offset > 0 =>
                           Intact(content, told, tail.open, tail.pending, tail.offset)

CursorInv == RestInv /\ JudgeInv /\ ReadInv

TailInv == TailTypeOK /\ FileInv /\ IdleInv /\ (~tail.blended => CursorInv)

USE TailAssumption

USE TailAssumption

(* A part of a sequence of lines.                                          *)
LEMMA PartFacts ==
    ASSUME NEW s \in Seq(Line), NEW m \in Nat \ {0}, NEW n \in 0 .. Len(s), m <= n + 1
    PROVE  /\ SubSeq(s, m, n) \in Seq(Line)
           /\ Len(SubSeq(s, m, n)) = n - m + 1
           /\ \A i \in 1 .. n - m + 1 : SubSeq(s, m, n)[i] = s[m + i - 1]
<1>1. \A i \in m .. n : s[i] \in Line
  BY LenProperties
<1>2. m \in Int /\ n \in Int
  OBVIOUS
<1>3. /\ SubSeq(s, m, n) \in Seq(Line)
      /\ Len(SubSeq(s, m, n)) = IF m <= n THEN n - m + 1 ELSE 0
      /\ \A i \in 1 .. n - m + 1 : SubSeq(s, m, n)[i] = s[m + i - 1]
  BY ONLY <1>1, <1>2, SubSeqProperties
<1> QED
  BY <1>3

(* The first n lines of t move behind s.                                   *)
Moved(s, t, n, u, v) ==
    /\ Len(u) = Len(s) + n
    /\ \A i \in 1 .. Len(s) + n : u[i] = IF i <= Len(s) THEN s[i] ELSE t[i - Len(s)]
    /\ Len(v) = Len(t) - n
    /\ \A i \in 1 .. Len(t) - n : v[i] = t[n + i]

LEMMA MovedFacts ==
    ASSUME NEW s \in Seq(Line), NEW t \in Seq(Line), NEW n \in 0 .. Len(t),
           NEW u \in Seq(Line), NEW v \in Seq(Line), Moved(s, t, n, u, v)
    PROVE  /\ Ordered(s, t) => Ordered(u, v)
           /\ Some(u, v) <=> Some(s, t)
           /\ Some(s, t) => EndOf(u, v) = EndOf(s, t)
<1> USE DEF Moved
<1>1. Len(s) \in Nat /\ Len(t) \in Nat /\ n \in Nat /\ n <= Len(t)
  BY LenProperties
<1>2. \A q \in Seq(Line) : q # <<>> <=> Len(q) > 0
  BY EmptySeq, LenProperties
<1>6. \A q \in Seq(Line) : q = <<>> <=> Len(q) = 0
  BY EmptySeq, LenProperties
<1>3. Some(u, v) <=> Some(s, t)
  BY <1>1, <1>2 DEF Some
<1>4. ASSUME Some(s, t) PROVE EndOf(u, v) = EndOf(s, t)
  <2>1. CASE n < Len(t)
    <3>1. Len(t) - n \in 1 .. Len(t) - n /\ n + (Len(t) - n) = Len(t) /\ v # <<>> /\ t # <<>>
      BY <1>1, <1>2, <2>1
    <3>2. v[Len(v)] = t[Len(t)]
      BY <3>1
    <3> QED
      BY <3>1, <3>2 DEF EndOf
  <2>2. CASE n = Len(t) /\ n > 0
    <3>1. /\ v = <<>> /\ t # <<>> /\ Len(u) = Len(s) + n /\ Len(s) + n \in 1 .. Len(s) + n
          /\ ~(Len(s) + n <= Len(s)) /\ Len(s) + n - Len(s) = Len(t)
      BY <1>1, <1>2, <2>2
    <3>2. u[Len(s) + n] = t[Len(s) + n - Len(s)]
      BY <3>1
    <3>3. u[Len(u)] = t[Len(t)]
      BY <3>1, <3>2
    <3> QED
      BY <3>1, <3>3 DEF EndOf
  <2>3. CASE n = Len(t) /\ n = 0
    <3>4. Len(t) = 0 /\ Len(v) = 0 /\ Len(u) = Len(s)
      BY <1>1, <2>3
    <3>1. t = <<>> /\ v = <<>> /\ Len(u) = Len(s)
      BY <1>6, <3>4
    <3>3. s # <<>> /\ Len(s) \in 1 .. Len(s) + n
      BY <1>1, <1>2, <1>4, <3>1 DEF Some
    <3>2. u[Len(u)] = s[Len(s)]
      BY <1>1, <3>1, <3>3
    <3> QED
      BY <3>1, <3>2 DEF EndOf
  <2> QED
    BY <1>1, <2>1, <2>2, <2>3
<1>5. ASSUME Ordered(s, t) PROVE Ordered(u, v)
  <2>1. ASSUME NEW i \in 1 .. Len(u) - 1 PROVE Follows(u[i], u[i + 1])
    <3>1. i \in 1 .. Len(s) + n /\ i + 1 \in 1 .. Len(s) + n
      BY <1>1
    <3>2. /\ u[i] = IF i <= Len(s) THEN s[i] ELSE t[i - Len(s)]
          /\ u[i + 1] = IF i + 1 <= Len(s) THEN s[i + 1] ELSE t[i + 1 - Len(s)]
      BY <3>1
    <3>3. CASE i < Len(s)
      <4>1. u[i] = s[i] /\ u[i + 1] = s[i + 1] /\ i \in 1 .. Len(s) - 1
        BY <1>1, <3>1, <3>2, <3>3
      <4> QED
        BY <1>5, <4>1 DEF Ordered
    <3>4. CASE i = Len(s)
      <4>1. u[i] = s[Len(s)] /\ u[i + 1] = t[1] /\ s # <<>> /\ t # <<>>
        BY <1>1, <1>2, <3>1, <3>2, <3>4
      <4> QED
        BY <1>5, <4>1 DEF Ordered
    <3>5. CASE i > Len(s)
      <4>2. /\ i - Len(s) \in 1 .. Len(t) - 1 /\ i + 1 - Len(s) = (i - Len(s)) + 1
            /\ ~(i <= Len(s)) /\ ~(i + 1 <= Len(s))
        BY <1>1, <3>1, <3>5
      <4>1. /\ i - Len(s) \in 1 .. Len(t) - 1 /\ i + 1 - Len(s) = (i - Len(s)) + 1
            /\ u[i] = t[i - Len(s)] /\ u[i + 1] = t[i + 1 - Len(s)]
        BY <3>2, <4>2
      <4> QED
        BY <1>5, <4>1 DEF Ordered
    <3> QED
      BY <1>1, <3>1, <3>3, <3>4, <3>5
  <2>2. ASSUME NEW i \in 1 .. Len(v) - 1 PROVE Follows(v[i], v[i + 1])
    <3>1. i \in 1 .. Len(t) - n /\ i + 1 \in 1 .. Len(t) - n
      BY <1>1
    <3>2. v[i] = t[n + i] /\ v[i + 1] = t[n + (i + 1)]
      BY <3>1
    <3>3. n + i \in 1 .. Len(t) - 1 /\ n + (i + 1) = (n + i) + 1
      BY <1>1, <3>1
    <3> QED
      BY <1>5, <3>2, <3>3 DEF Ordered
  <2>3. ASSUME u # <<>>, v # <<>> PROVE Follows(u[Len(u)], v[1])
    <3>1. n < Len(t) /\ Len(u) = Len(s) + n /\ Len(u) > 0 /\ v[1] = t[n + 1]
      BY <1>1, <1>2, <2>3
    <3>2. CASE n = 0
      <4>1. u[Len(u)] = s[Len(s)] /\ s # <<>> /\ t # <<>> /\ v[1] = t[1]
        BY <1>1, <1>2, <3>1, <3>2
      <4> QED
        BY <1>5, <4>1 DEF Ordered
    <3>3. CASE n > 0
      <4>2. /\ Len(s) + n \in 1 .. Len(s) + n /\ ~(Len(s) + n <= Len(s))
            /\ Len(s) + n - Len(s) = n /\ n \in 1 .. Len(t) - 1
        BY <1>1, <3>1, <3>3
      <4>3. u[Len(s) + n] = t[Len(s) + n - Len(s)]
        BY <4>2
      <4>1. u[Len(u)] = t[n] /\ n \in 1 .. Len(t) - 1
        BY <3>1, <4>2, <4>3
      <4> QED
        BY <1>5, <3>1, <4>1 DEF Ordered
    <3> QED
      BY <1>1, <3>2, <3>3
  <2> QED
    BY <2>1, <2>2, <2>3 DEF Ordered
<1> QED
  BY <1>3, <1>4, <1>5

(* The first n lines of t go out behind s.                                 *)
Gone(s, t, n) == s \o SubSeq(t, 1, n)
Left(t, n) == SubSeq(t, n + 1, Len(t))

LEMMA SplitFacts ==
    ASSUME NEW s \in Seq(Line), NEW t \in Seq(Line), NEW n \in 0 .. Len(t)
    PROVE  /\ Gone(s, t, n) \in Seq(Line) /\ Left(t, n) \in Seq(Line)
           /\ Ordered(s, t) => Ordered(Gone(s, t, n), Left(t, n))
           /\ Some(Gone(s, t, n), Left(t, n)) <=> Some(s, t)
           /\ Some(s, t) => EndOf(Gone(s, t, n), Left(t, n)) = EndOf(s, t)
<1> DEFINE u == Gone(s, t, n)
           v == Left(t, n)
<1> DEFINE a == SubSeq(t, 1, n)
<1>1. Len(s) \in Nat /\ Len(t) \in Nat /\ n \in Nat /\ n <= Len(t)
  BY LenProperties
<1>2. a \in Seq(Line) /\ Len(a) = n /\ \A i \in 1 .. n : a[i] = t[i]
  BY <1>1, PartFacts
<1>3. v \in Seq(Line) /\ Len(v) = Len(t) - n /\ \A i \in 1 .. Len(t) - n : v[i] = t[n + i]
  <2>1. n + 1 \in Nat \ {0} /\ Len(t) \in 0 .. Len(t) /\ n + 1 <= Len(t) + 1
    BY <1>1
  <2>2. /\ v \in Seq(Line) /\ Len(v) = Len(t) - (n + 1) + 1
        /\ \A i \in 1 .. Len(t) - (n + 1) + 1 : v[i] = t[n + 1 + i - 1]
    BY <2>1, PartFacts DEF Left
  <2> QED
    BY <1>1, <2>2
<1> HIDE DEF a, u, v
<1>4. /\ u \in Seq(Line) /\ Len(u) = Len(s) + n
      /\ \A i \in 1 .. Len(s) + n : u[i] = IF i <= Len(s) THEN s[i] ELSE t[i - Len(s)]
  <2>1. u = s \o a
    BY DEF a, u, Gone
  <2>2. /\ u \in Seq(Line) /\ Len(u) = Len(s) + Len(a)
        /\ \A i \in 1 .. Len(s) + Len(a) : u[i] = IF i <= Len(s) THEN s[i] ELSE a[i - Len(s)]
    BY <2>1, <1>2, ConcatProperties
  <2> QED
    BY <1>1, <1>2, <2>2
<1>5. Moved(s, t, n, u, v)
  BY <1>3, <1>4 DEF Moved
<1>6. u \in Seq(Line) /\ v \in Seq(Line)
  BY <1>3, <1>4
<1>7. /\ Ordered(s, t) => Ordered(u, v)
      /\ Some(u, v) <=> Some(s, t)
      /\ Some(s, t) => EndOf(u, v) = EndOf(s, t)
  BY ONLY <1>5, <1>6, MovedFacts, s \in Seq(Line), t \in Seq(Line), n \in 0 .. Len(t)
<1> QED
  BY <1>6, <1>7 DEF u, v

(* A line is read behind the last one.                                     *)
LEMMA AppendFacts ==
    ASSUME NEW s \in Seq(Line), NEW t \in Seq(Line), NEW l \in Line
    PROVE  /\ Append(t, l) \in Seq(Line) /\ Len(Append(t, l)) = Len(t) + 1
           /\ Some(s, Append(t, l)) /\ EndOf(s, Append(t, l)) = l
           /\ Ordered(s, t) /\ (Some(s, t) => Follows(EndOf(s, t), l)) => Ordered(s, Append(t, l))
           /\ \A n \in 0 .. Len(t) : SubSeq(Append(t, l), 1, n) = SubSeq(t, 1, n)
<1> DEFINE u == Append(t, l)
<1>1. /\ u \in Seq(Line) /\ u # <<>> /\ Len(u) = Len(t) + 1
      /\ \A i \in 1 .. Len(t) : u[i] = t[i]
      /\ u[Len(t) + 1] = l
  BY AppendProperties DEF u
<1> HIDE DEF u
<1>2. Len(t) \in Nat /\ (t # <<>> <=> Len(t) > 0)
  BY LenProperties, EmptySeq
<1>3. Some(s, u) /\ EndOf(s, u) = l
  BY <1>1 DEF Some, EndOf
<1>4. ASSUME Ordered(s, t), Some(s, t) => Follows(EndOf(s, t), l)
      PROVE  Ordered(s, u)
  <2>1. ASSUME NEW i \in 1 .. Len(u) - 1 PROVE Follows(u[i], u[i + 1])
    <3>1. CASE i < Len(t)
      <4>1. i \in 1 .. Len(t) - 1 /\ u[i] = t[i] /\ u[i + 1] = t[i + 1]
        BY <1>1, <1>2, <3>1
      <4> QED
        BY <1>4, <4>1 DEF Ordered
    <3>2. CASE i = Len(t)
      <4>1. u[i] = t[Len(t)] /\ u[i + 1] = l /\ t # <<>>
        BY <1>1, <1>2, <3>2
      <4> QED
        BY <1>4, <4>1 DEF Some, EndOf
    <3> QED
      BY <1>1, <1>2, <3>1, <3>2
  <2>2. ASSUME s # <<>> PROVE Follows(s[Len(s)], u[1])
    <3>1. CASE t = <<>>
      <4>1. u[1] = l
        BY <1>1, <1>2, <3>1
      <4> QED
        BY <1>4, <2>2, <3>1, <4>1 DEF Some, EndOf
    <3>2. CASE t # <<>>
      <4>1. u[1] = t[1]
        BY <1>1, <1>2, <3>2
      <4> QED
        BY <1>4, <2>2, <3>2, <4>1 DEF Ordered
    <3> QED
      BY <3>1, <3>2
  <2> QED
    BY <1>4, <2>1, <2>2 DEF Ordered
<1>5. ASSUME NEW n \in 0 .. Len(t) PROVE SubSeq(u, 1, n) = SubSeq(t, 1, n)
  <2>1. /\ SubSeq(u, 1, n) \in Seq(Line) /\ Len(SubSeq(u, 1, n)) = n
        /\ \A i \in 1 .. n : SubSeq(u, 1, n)[i] = u[i]
    BY <1>1, <1>2, PartFacts
  <2>2. /\ SubSeq(t, 1, n) \in Seq(Line) /\ Len(SubSeq(t, 1, n)) = n
        /\ \A i \in 1 .. n : SubSeq(t, 1, n)[i] = t[i]
    BY <1>1, <1>2, PartFacts
  <2>3. \A i \in 1 .. n : SubSeq(u, 1, n)[i] = SubSeq(t, 1, n)[i]
    BY <1>1, <1>2, <2>1, <2>2
  <2> QED
    BY <2>1, <2>2, <2>3, SeqEqual
<1> QED
  BY <1>1, <1>3, <1>4, <1>5 DEF u

(* A line of an inode.                                                     *)
LEMMA LineFacts ==
    ASSUME TailTypeOK, NEW i \in Inodes, NEW k \in 1 .. Len(content[i])
    PROVE  /\ content[i] \in Seq(Line) /\ Len(content[i]) \in Nat /\ k \in Nat
           /\ content[i][k] \in Line
           /\ content[i][k].inc \in Nat /\ content[i][k].n \in Nat
<1>1. content[i] \in Seq(Line)
  BY DEF TailTypeOK
<1>2. Len(content[i]) \in Nat /\ content[i][k] \in Line
  BY <1>1, LenProperties
<1> QED
  BY <1>1, <1>2 DEF Line

(* What goes out ends in a line.                                           *)
LEMMA EndFacts ==
    ASSUME NEW s \in Seq(Line), NEW t \in Seq(Line), Some(s, t)
    PROVE  EndOf(s, t) \in Line /\ EndOf(s, t).inc \in Nat /\ EndOf(s, t).n \in Nat
<1>1. ASSUME NEW q \in Seq(Line), q # <<>> PROVE q[Len(q)] \in Line
  <2>1. Len(q) \in Nat /\ Len(q) # 0
    BY <1>1, EmptySeq, LenProperties
  <2>2. Len(q) \in 1 .. Len(q)
    BY <2>1
  <2> QED
    BY <2>2, LenProperties
<1>2. EndOf(s, t) \in Line
  BY <1>1 DEF EndOf, Some
<1> QED
  BY <1>2 DEF Line

(* What a writer does to the files.                                        *)
LEMMA WriterFacts ==
    ASSUME TailInv, WriterStep
    PROVE  /\ age \in Nat /\ age' \in age .. age + 1
           /\ UNCHANGED <<tail, told>>
           /\ poll' = [poll EXCEPT !.mixed = poll'.mixed]
           /\ poll.mixed => poll'.mixed
           /\ \/ /\ named \in Inodes /\ named' = named /\ age' = age /\ poll' = poll
                 /\ content' = [content EXCEPT
                                  ![named] = Append(@, [inc |-> age, n |-> Len(@) + 1])]
              \/ /\ named \in Inodes /\ named' = named /\ age' = age + 1
                 /\ content' = [content EXCEPT ![named] = <<>>]
                 /\ poll.pc = "read" /\ poll.reads > 0 => poll'.mixed
              \/ /\ named' = age + 1 /\ age' = age + 1 /\ content' = content /\ poll' = poll
                 /\ age + 1 \in Inodes
              \/ named' = NoInode /\ age' = age /\ content' = content /\ poll' = poll
<1>1. /\ age \in Nat /\ age \in 0 .. MaxIncarnations /\ MaxIncarnations \in Nat
      /\ named \in Inodes \cup {NoInode} /\ poll \in PollState
  BY DEF TailInv, TailTypeOK, TailAssumption
<1>2. poll = [poll EXCEPT !.mixed = poll.mixed]
  BY <1>1 DEF PollState
<1>3. CASE AppendLine
  BY <1>1, <1>2, <1>3 DEF AppendLine, paneVars
<1>4. CASE TruncateInPlace
  <2>1. /\ poll' = [poll EXCEPT !.mixed = poll.mixed \/ (poll.pc = "read" /\ poll.reads > 0)]
        /\ named # NoInode /\ age < MaxIncarnations /\ age' = age + 1
        /\ content' = [content EXCEPT ![named] = <<>>]
        /\ UNCHANGED <<named, tail, told>>
    BY <1>4 DEF TruncateInPlace, paneVars
  <2>2. poll'.mixed = (poll.mixed \/ (poll.pc = "read" /\ poll.reads > 0))
    BY <1>1, <2>1 DEF PollState
  <2>3. poll' = [poll EXCEPT !.mixed = poll'.mixed]
    BY <2>1, <2>2
  <2>4. named \in Inodes /\ age' \in age .. age + 1
    BY <1>1, <2>1
  <2>5. /\ poll.mixed => poll'.mixed
        /\ poll.pc = "read" /\ poll.reads > 0 => poll'.mixed
    BY <2>2
  <2> QED
    BY <1>1, <2>1, <2>3, <2>4, <2>5
<1>5. CASE Recreate
  <2>1. age + 1 \in Inodes
    BY <1>1, <1>5 DEF Recreate, Inodes
  <2> QED
    BY <1>1, <1>2, <1>5, <2>1 DEF Recreate, paneVars
<1>6. CASE Delete
  BY <1>1, <1>2, <1>6 DEF Delete, paneVars
<1> QED
  BY <1>3, <1>4, <1>5, <1>6 DEF WriterStep

(* An inode after a writer's step: as it was, a line longer, or empty.     *)
LEMMA WriterFiles ==
    ASSUME TailInv, WriterStep, NEW i \in Inodes
    PROVE  /\ content' \in [Inodes -> Seq(Line)] /\ Len(content[i]) \in Nat
           /\ \/ content'[i] = content[i]
              \/ /\ i = named /\ named' = named /\ named # NoInode /\ age' = age
                 /\ Len(content'[i]) = Len(content[i]) + 1
                 /\ \A k \in 1 .. Len(content[i]) : content'[i][k] = content[i][k]
                 /\ content'[i][Len(content[i]) + 1] = [inc |-> age, n |-> Len(content[i]) + 1]
              \/ /\ i = named /\ content'[i] = <<>> /\ age' = age + 1
                 /\ poll.pc = "read" /\ poll.reads > 0 => poll'.mixed
<1>1. content \in [Inodes -> Seq(Line)] /\ age \in Nat
  BY WriterFacts DEF TailInv, TailTypeOK
<1>2. \A j \in Inodes : content[j] \in Seq(Line) /\ Len(content[j]) \in Nat
  BY <1>1, LenProperties
<1>3. <<>> \in Seq(Line)
  BY EmptySeq
<1>4. ASSUME NEW j \in Inodes, NEW l \in Line
      PROVE  /\ Append(content[j], l) \in Seq(Line)
             /\ Len(Append(content[j], l)) = Len(content[j]) + 1
             /\ \A k \in 1 .. Len(content[j]) : Append(content[j], l)[k] = content[j][k]
             /\ Append(content[j], l)[Len(content[j]) + 1] = l
  BY <1>2, AppendProperties
<1>5. CASE /\ named \in Inodes /\ named' = named /\ age' = age
           /\ content' = [content EXCEPT
                            ![named] = Append(@, [inc |-> age, n |-> Len(@) + 1])]
  <2> DEFINE l == [inc |-> age, n |-> Len(content[named]) + 1]
  <2>1. l \in Line
    BY <1>1, <1>2, <1>5 DEF Line
  <2> HIDE DEF l
  <2>2. content' = [content EXCEPT ![named] = Append(content[named], l)]
    BY <1>5 DEF l
  <2>3. named # NoInode
    BY <1>5 DEF Inodes, NoInode
  <2>4. content' \in [Inodes -> Seq(Line)]
    BY <1>1, <1>4, <1>5, <2>1, <2>2
  <2>5. CASE i = named
    <3>1. content'[i] = Append(content[i], l)
      BY <1>1, <2>2, <2>5
    <3>2. l = [inc |-> age, n |-> Len(content[i]) + 1]
      BY <2>5 DEF l
    <3> QED
      BY <1>2, <1>4, <1>5, <2>1, <2>3, <2>4, <2>5, <3>1, <3>2
  <2>6. CASE i # named
    BY <1>1, <1>2, <2>2, <2>4, <2>6
  <2> QED
    BY <2>5, <2>6
<1>6. CASE /\ named \in Inodes /\ age' = age + 1
           /\ content' = [content EXCEPT ![named] = <<>>]
           /\ poll.pc = "read" /\ poll.reads > 0 => poll'.mixed
  BY <1>1, <1>2, <1>3, <1>6
<1>7. CASE content' = content
  BY <1>1, <1>2, <1>7
<1> QED
  BY WriterFacts, <1>5, <1>6, <1>7

LEMMA WriterFileInv ==
    ASSUME TailInv, WriterStep
    PROVE  TailTypeOK' /\ FileInv'
<1>1. /\ age \in Nat /\ age \in 0 .. MaxIncarnations /\ named \in Inodes \cup {NoInode}
      /\ MaxIncarnations \in Nat /\ named <= age
      /\ tail \in TailState /\ poll \in PollState /\ told \in Seq(Line)
      /\ poll.pc = "read" => tail.open # NoInode /\ poll.pending <= Len(tail.pending)
  BY WriterFacts DEF TailInv, TailTypeOK, FileInv
<1>2. age' \in 0 .. MaxIncarnations /\ named' \in Inodes \cup {NoInode} /\ named' <= age'
  <2>1. age' \in 0 .. MaxIncarnations
    BY <1>1 DEF WriterStep, AppendLine, TruncateInPlace, Recreate, Delete
  <2>2. named' \in Inodes \cup {NoInode} /\ named' <= age'
    BY <1>1, WriterFacts DEF NoInode, Inodes
  <2> QED
    BY <2>1, <2>2
<1>3. content' \in [Inodes -> Seq(Line)]
  <2>1. CASE Inodes = {}
    <3>1. named = NoInode /\ age = 0 /\ MaxIncarnations = 0
      BY <1>1, <2>1 DEF Inodes
    <3> QED
      BY <1>1, <2>1, <3>1 DEF WriterStep, AppendLine, TruncateInPlace, Recreate, Delete,
                             TailInv, TailTypeOK
  <2>2. CASE \E i \in Inodes : TRUE
    BY <2>2, WriterFiles
  <2> QED
    BY <2>1, <2>2
<1>4. poll' \in PollState /\ poll'.pc = poll.pc /\ poll'.pending = poll.pending
  <2>1. poll' = [poll EXCEPT !.mixed = poll'.mixed] /\ poll'.mixed \in BOOLEAN
    BY <1>1, WriterFacts DEF PollState, WriterStep, AppendLine, TruncateInPlace, Recreate, Delete
  <2> QED
    BY <1>1, <2>1 DEF PollState
<1>5. TailTypeOK'
  BY <1>1, <1>2, <1>3, <1>4, WriterFacts DEF TailTypeOK
<1>6. ASSUME NEW i \in Inodes, NEW k \in 1 .. Len(content'[i])
      PROVE  /\ content'[i][k].n = k
             /\ content'[i][k].inc <= age'
             /\ content'[i][k].inc = content'[i][1].inc
             /\ i = named' => content'[i][k].inc = age'
             /\ i # named' /\ named' # NoInode => content'[i][k].inc < age'
  <2>1. \A j \in 1 .. Len(content[i]) :
           /\ content[i][j].inc \in Nat
           /\ content[i][j].n = j
           /\ content[i][j].inc <= age
           /\ content[i][j].inc = content[i][1].inc
           /\ i = named => content[i][j].inc = age
           /\ i # named /\ named # NoInode => content[i][j].inc < age
    BY LineFacts DEF TailInv, FileInv
  <2>2. CASE content'[i] = content[i]
    <3>1. CASE named' = named
      <4>1. age' = age \/ (age' = age + 1 /\ i # named)
        <5>1. content'[i] # <<>>
          BY <1>6, EmptySeq
        <5>2. ASSUME age' = age + 1, content' = [content EXCEPT ![named] = <<>>]
              PROVE  i # named
          BY <2>2, <5>1, <5>2 DEF TailInv, TailTypeOK
        <5>3. named' # age + 1
          BY <1>1, <3>1 DEF NoInode, Inodes
        <5> QED
          BY <5>2, <5>3, WriterFacts
      <4> QED
        BY <1>1, <1>6, <2>1, <2>2, <3>1, <4>1
    <3>2. CASE named' = NoInode
      <4>1. i # NoInode
        BY DEF Inodes, NoInode
      <4> QED
        BY <1>1, <1>6, <2>1, <2>2, <3>2, <4>1, WriterFacts
    <3>3. CASE named' = age + 1 /\ age' = age + 1
      <4>1. i = age + 1 => content[i] = <<>>
        BY <1>1 DEF TailInv, FileInv
      <4>2. i # named'
        BY <1>1, <1>6, <2>2, <3>3, <4>1
      <4> QED
        BY <1>1, <1>6, <2>1, <2>2, <3>3, <4>2
    <3> QED
      BY <3>1, <3>2, <3>3, WriterFacts
  <2>3. CASE /\ i = named /\ named' = named /\ named # NoInode /\ age' = age
             /\ Len(content'[i]) = Len(content[i]) + 1
             /\ \A j \in 1 .. Len(content[i]) : content'[i][j] = content[i][j]
             /\ content'[i][Len(content[i]) + 1] = [inc |-> age, n |-> Len(content[i]) + 1]
    <3>1. Len(content[i]) \in Nat
      BY WriterFiles
    <3>2. ASSUME NEW j \in 1 .. Len(content'[i])
          PROVE  content'[i][j].n = j /\ content'[i][j].inc = age
      <4>1. CASE j \in 1 .. Len(content[i])
        BY <2>1, <2>3, <4>1
      <4>2. CASE j = Len(content[i]) + 1
        BY <2>3, <4>2
      <4> QED
        BY <2>3, <3>1, <4>1, <4>2
    <3>3. 1 \in 1 .. Len(content'[i])
      BY <1>6, <2>3, <3>1
    <3>4. content'[i][k].n = k /\ content'[i][k].inc = age /\ content'[i][1].inc = age
      BY <1>6, <3>2, <3>3
    <3> QED
      BY <1>1, <2>3, <3>4
  <2>4. CASE content'[i] = <<>>
    BY <1>6, <2>4, EmptySeq
  <2> QED
    BY <2>2, <2>3, <2>4, WriterFiles
<1>7. ASSUME NEW i \in Inodes, i > age' PROVE content'[i] = <<>>
  <2>1. i \in Nat /\ i > age /\ i # named
    BY <1>1, <1>7, WriterFacts DEF Inodes, NoInode
  <2>2. content[i] = <<>>
    BY <1>1, <2>1 DEF TailInv, FileInv
  <2> QED
    BY <2>1, <2>2, WriterFiles
<1>8. FileInv'
  BY <1>2, <1>6, <1>7 DEF FileInv
<1> QED
  BY <1>5, <1>8

(* Whatever a writer does, a cursor that fits goes on fitting, and one     *)
(* that all that is to come is behind of goes on being so.                 *)
LEMMA WriterBehind ==
    ASSUME TailInv, WriterStep, NEW u \in Seq(Line), NEW t \in Seq(Line),
           Some(u, t) => EndOf(u, t).inc <= age, Behind(named, age, u, t)
    PROVE  Behind(named', age', u, t)
<1> SUFFICES ASSUME Some(u, t), named' # NoInode
             PROVE  EndOf(u, t).inc < age'
  BY DEF Behind
<1>1. EndOf(u, t).inc \in Nat /\ EndOf(u, t).inc <= age
  BY EndFacts
<1>2. named # NoInode => EndOf(u, t).inc < age
  BY DEF Behind
<1>3. age \in Nat /\ age' \in Nat /\ age <= age' /\ (named = NoInode => age' = age + 1)
  BY WriterFacts DEF Inodes, NoInode
<1> QED
  BY <1>1, <1>2, <1>3

LEMMA WriterFits ==
    ASSUME TailInv, WriterStep, NEW u \in Seq(Line), NEW t \in Seq(Line),
           NEW o \in Inodes \cup {NoInode}, NEW k \in Nat,
           Fits(content, named, age, u, o, t, k)
    PROVE  /\ Fits(content', named', age', u, o, t, k)
           /\ o # NoInode /\ k > 0 /\ Intact(content, u, o, t, k) =>
                 Intact(content', u, o, t, k) \/ content'[o] = <<>>
           /\ o # NoInode /\ k > 0 /\ Intact(content', u, o, t, k) => Intact(content, u, o, t, k)
<1>1. /\ age \in Nat /\ age' \in Nat /\ age <= age'
      /\ Ordered(u, t)
      /\ Some(u, t) => EndOf(u, t).inc \in Nat /\ EndOf(u, t).inc <= age
  BY EndFacts, WriterFacts DEF Fits
<1>2. Behind(named, age, u, t) => Behind(named', age', u, t)
  BY <1>1, WriterBehind
<1>3. ASSUME o # NoInode
      PROVE  /\ o \in Inodes /\ Len(content[o]) \in Nat
             /\ \/ content'[o] = content[o]
                \/ /\ o = named /\ named # NoInode /\ age' = age
                   /\ Len(content'[o]) = Len(content[o]) + 1
                   /\ \A j \in 1 .. Len(content[o]) : content'[o][j] = content[o][j]
                   /\ content'[o][Len(content[o]) + 1].inc = age
                \/ content'[o] = <<>> /\ Len(content'[o]) = 0 /\ age' = age + 1
  <2>1. o \in Inodes /\ Len(content[o]) \in Nat
    BY <1>3, WriterFiles
  <2>2. \/ content'[o] = content[o]
        \/ /\ o = named /\ named # NoInode /\ age' = age
           /\ Len(content'[o]) = Len(content[o]) + 1
           /\ \A j \in 1 .. Len(content[o]) : content'[o][j] = content[o][j]
           /\ content'[o][Len(content[o]) + 1] = [inc |-> age, n |-> Len(content[o]) + 1]
        \/ content'[o] = <<>> /\ age' = age + 1
    BY <2>1, WriterFiles
  <2>3. content'[o] = <<>> => Len(content'[o]) = 0
    BY EmptySeq
  <2> QED
    BY <2>1, <2>2, <2>3
<1>4. ASSUME o # NoInode, k > 0
      PROVE  /\ Some(u, t)
             /\ Intact(content, u, o, t, k) => Intact(content', u, o, t, k) \/ content'[o] = <<>>
             /\ Intact(content', u, o, t, k) \/ Behind(named', age', u, t)
             /\ Intact(content', u, o, t, k) => Intact(content, u, o, t, k)
  <2>1. Some(u, t) /\ (Intact(content, u, o, t, k) \/ Behind(named, age, u, t))
    BY <1>4 DEF Fits
  <2>2. CASE content'[o] = content[o]
    BY <1>2, <2>1, <2>2 DEF Intact
  <2>3. CASE /\ o = named /\ named # NoInode /\ age' = age
             /\ Len(content'[o]) = Len(content[o]) + 1
             /\ \A j \in 1 .. Len(content[o]) : content'[o][j] = content[o][j]
             /\ content'[o][Len(content[o]) + 1].inc = age
    <3>1. CASE k \in 1 .. Len(content[o])
      BY <1>2, <1>3, <1>4, <2>1, <2>3, <3>1 DEF Intact
    <3>2. CASE k \notin 1 .. Len(content[o])
      <4>1. ~(k <= Len(content[o]))
        BY <1>3, <1>4, <3>2
      <4>2. ~Intact(content, u, o, t, k) /\ Behind(named, age, u, t)
        BY <2>1, <4>1 DEF Intact
      <4>3. EndOf(u, t).inc < age
        BY <2>1, <2>3, <4>2 DEF Behind
      <4>4. ~Intact(content', u, o, t, k)
        <5>1. k <= Len(content'[o]) => k = Len(content[o]) + 1
          BY <1>3, <1>4, <2>3, <4>1
        <5>2. k = Len(content[o]) + 1 => content'[o][k].inc = age
          BY <2>3
        <5>3. ASSUME k <= Len(content'[o]), content'[o][k] = EndOf(u, t)
              PROVE  FALSE
          BY <1>1, <2>1, <4>3, <5>1, <5>2, <5>3
        <5> QED
          BY <5>3 DEF Intact
      <4> QED
        BY <1>2, <2>1, <4>2, <4>4
    <3> QED
      BY <3>1, <3>2
  <2>4. CASE content'[o] = <<>> /\ Len(content'[o]) = 0 /\ age' = age + 1
    <3>1. ~Intact(content', u, o, t, k)
      BY <1>4, <2>4 DEF Intact
    <3>2. Behind(named', age', u, t)
      BY <1>1, <2>1, <2>4 DEF Behind
    <3> QED
      BY <2>1, <2>4, <3>1, <3>2
  <2> QED
    BY <1>3, <1>4, <2>2, <2>3, <2>4
<1>5. ASSUME o # NoInode, k = 0, Some(u, t), NEW j \in 1 .. Len(content'[o])
      PROVE  content'[o][j].inc > EndOf(u, t).inc
  <2>1. /\ \A i \in 1 .. Len(content[o]) : content[o][i].inc > EndOf(u, t).inc
        /\ EndOf(u, t).inc < age \/ named = NoInode
    BY <1>5 DEF Fits, Behind
  <2>2. CASE content'[o] = content[o]
    BY <1>5, <2>1, <2>2
  <2>3. CASE /\ o = named /\ named # NoInode
             /\ Len(content'[o]) = Len(content[o]) + 1
             /\ \A i \in 1 .. Len(content[o]) : content'[o][i] = content[o][i]
             /\ content'[o][Len(content[o]) + 1].inc = age
    <3>1. CASE j \in 1 .. Len(content[o])
      BY <2>1, <2>3, <3>1
    <3>2. CASE j = Len(content[o]) + 1
      BY <1>1, <1>5, <2>1, <2>3, <3>2
    <3> QED
      BY <1>3, <1>5, <2>3, <3>1, <3>2
  <2>4. CASE Len(content'[o]) = 0
    BY <1>5, <2>4
  <2> QED
    BY <1>3, <1>5, <2>2, <2>3, <2>4
<1>6. o = NoInode \/ k = 0 => Behind(named', age', u, t)
  BY <1>2 DEF Fits
<1>7. Some(u, t) => EndOf(u, t).inc <= age'
  BY <1>1
<1>8. Fits(content', named', age', u, o, t, k)
  BY <1>1, <1>4, <1>5, <1>6, <1>7 DEF Fits
<1> QED
  BY <1>4, <1>8

LEMMA WriterKeepsTail ==
    ASSUME TailInv, WriterStep
    PROVE  TailInv'
<1>1. TailTypeOK' /\ FileInv'
  BY WriterFileInv
<1>2. /\ UNCHANGED <<tail, told>>
      /\ poll' = [poll EXCEPT !.mixed = poll'.mixed]
      /\ poll.mixed => poll'.mixed
  BY WriterFacts
<1>3. /\ tail \in TailState /\ told \in Seq(Line) /\ poll \in PollState
      /\ tail.open \in Inodes \cup {NoInode} /\ tail.offset \in Nat /\ tail.pending \in Seq(Line)
      /\ poll.before \in Nat /\ poll.pending \in Nat
      /\ poll.pc = "read" => tail.open \in Inodes /\ tail.open # NoInode
                             /\ poll.pending <= Len(tail.pending)
  BY DEF TailInv, TailTypeOK, TailState, PollState
<1>4. /\ poll'.pc = poll.pc /\ poll'.id = poll.id /\ poll'.len = poll.len
      /\ poll'.reads = poll.reads /\ poll'.before = poll.before /\ poll'.sig = poll.sig
      /\ poll'.pending = poll.pending
  BY <1>2, <1>3 DEF PollState
<1>5. IdleInv'
  BY <1>2, <1>4 DEF IdleInv, TailInv
<1>6. ASSUME ~tail.blended PROVE RestInv' /\ JudgeInv' /\ ReadInv'
  <2>1. RestInv /\ JudgeInv /\ ReadInv
    BY <1>6 DEF TailInv, CursorInv
  <2>2. ASSUME poll.pc # "read"
        PROVE  /\ Fits(content', named', age', told, tail.open, tail.pending, tail.offset)
               /\ ~poll'.mixed
    <3>1. Fits(content, named, age, told, tail.open, tail.pending, tail.offset) /\ ~poll.mixed
      BY <2>1, <2>2 DEF RestInv
    <3>2. ~poll'.mixed
      BY <1>3, <2>2, <3>1 DEF WriterStep, AppendLine, TruncateInPlace, Recreate, Delete, PollState
    <3> QED
      BY <1>3, <3>1, <3>2, WriterFits
  <2>3. RestInv'
    BY <1>2, <1>4, <2>1, <2>2 DEF RestInv
  <2>4. JudgeInv'
    <3>1. ASSUME Behind(named, age, told, tail.pending), poll.pc # "read"
          PROVE  Behind(named', age', told, tail.pending)
      <4>1. Some(told, tail.pending) => EndOf(told, tail.pending).inc <= age
        BY <2>1, <3>1 DEF RestInv, Fits
      <4> QED
        BY <1>3, <3>1, <4>1, WriterBehind
    <3> QED
      BY <1>2, <1>4, <2>1, <3>1 DEF JudgeInv
  <2>5. ASSUME poll.pc = "read" PROVE ReadInv'
    <3>1. /\ tail.id = poll.id
          /\ Fits(content, named, age, told, tail.open, Sure, poll.before)
          /\ poll.sig = SigOf(told, Sure, poll.before)
          /\ poll.before > 0 => tail.open = tail.id
          /\ tail.offset = poll.before + poll.reads
          /\ Len(tail.pending) = poll.pending + poll.reads
          /\ tail.sig = SigOf(told, tail.pending, tail.offset)
      BY <2>1, <2>5 DEF ReadInv
    <3>2. Sure \in Seq(Line) /\ Sure' = Sure
      <4>1. Len(tail.pending) \in Nat /\ poll.pending \in 0 .. Len(tail.pending)
        BY <1>3, <2>5, LenProperties
      <4>2. SubSeq(tail.pending, 1, poll.pending) \in Seq(Line)
        BY <1>3, <4>1, PartFacts
      <4> QED
        BY <1>2, <1>4, <4>2 DEF Sure
    <3>3. /\ Fits(content', named', age', told, tail.open, Sure, poll.before)
          /\ poll.before > 0 /\ Intact(content', told, tail.open, Sure, poll.before) =>
                Intact(content, told, tail.open, Sure, poll.before)
      BY <1>3, <2>5, <3>1, <3>2, WriterFits
    <3>4. ASSUME Clean'
          PROVE  Clean /\ (content'[tail.open] # <<>> \/ tail.offset = 0)
      <4>1. ~poll'.mixed /\ ~poll.mixed
        BY <1>2, <3>4 DEF Clean
      <4>2. CASE poll.before = 0
        <5>1. Clean
          BY <3>1, <4>1, <4>2 DEF Clean, Signature, SigOf
        <5>2. CASE poll.reads = 0
          BY <3>1, <4>2, <5>1, <5>2
        <5>3. CASE poll.reads # 0
          <6>1. poll.reads > 0
            BY <1>3, <5>3 DEF PollState
          <6>2. Clean => Fits(content, named, age, told, tail.open, tail.pending, tail.offset)
                         /\ Intact(content, told, tail.open, tail.pending, tail.offset)
            <7>1. poll.reads \in Nat /\ tail.offset > 0
              BY <1>3, <3>1, <4>2, <6>1 DEF PollState
            <7> QED
              BY <2>1, <2>5, <7>1 DEF ReadInv
          <6>3. content[tail.open] # <<>>
            <7>1. tail.offset > 0 /\ tail.offset <= Len(content[tail.open])
              BY <1>3, <3>1, <4>2, <5>1, <6>1, <6>2 DEF Intact, PollState
            <7> QED
              BY <1>3, <7>1, EmptySeq
          <6>4. tail.open \in Inodes /\ Len(content[tail.open]) \in Nat
            BY <1>3, <2>5, WriterFiles
          <6>5. \/ content'[tail.open] = content[tail.open]
                \/ Len(content'[tail.open]) = Len(content[tail.open]) + 1
                \/ poll'.mixed
            BY <2>5, <6>1, <6>4, WriterFiles
          <6>6. Len(content'[tail.open]) = Len(content[tail.open]) + 1 => content'[tail.open] # <<>>
            BY <6>4, EmptySeq
          <6> QED
            BY <4>1, <5>1, <6>3, <6>5, <6>6
        <5> QED
          BY <5>2, <5>3
      <4>3. CASE poll.before # 0
        <5>1. poll.before > 0
          BY <1>3, <4>3
        <5>2. Signature(tail.open, poll.before)' = <<EndOf(told, Sure)>>
          BY <1>2, <1>4, <3>1, <3>2, <3>4, <4>3 DEF Clean, SigOf
        <5>3. Len(content'[tail.open]) \in Nat
          BY <1>1, <1>3, <2>5, LenProperties DEF TailTypeOK
        <5>4. /\ poll.before <= Len(content'[tail.open])
              /\ content'[tail.open][poll.before] = EndOf(told, Sure)
          <6>1. Signature(tail.open, poll.before)' =
                  IF poll.before = 0 \/ poll.before > Len(content'[tail.open]) THEN <<>>
                  ELSE <<content'[tail.open][poll.before]>>
            BY <1>2, <1>4 DEF Signature
          <6>3. <<EndOf(told, Sure)>> # <<>>
            OBVIOUS
          <6>2. ~(poll.before > Len(content'[tail.open]))
            BY <5>2, <6>1, <6>3
          <6> QED
            BY <1>3, <4>3, <5>2, <5>3, <6>1, <6>2
        <5>5. Intact(content', told, tail.open, Sure, poll.before)
          BY <5>4 DEF Intact
        <5>6. Intact(content, told, tail.open, Sure, poll.before)
          BY <3>3, <5>1, <5>5
        <5>7. Signature(tail.open, poll.before) = <<EndOf(told, Sure)>>
          <6>1. Len(content[tail.open]) \in Nat
            BY <1>3, <2>5, WriterFiles
          <6> QED
            BY <1>3, <4>3, <5>6, <6>1 DEF Intact, Signature
        <5>8. Clean
          BY <3>1, <4>1, <4>3, <5>7 DEF Clean, SigOf
        <5>9. content'[tail.open] # <<>>
          BY <5>1, <5>3, <5>4, EmptySeq, <1>3
        <5> QED
          BY <5>8, <5>9
      <4> QED
        BY <4>2, <4>3
    <3>5. ASSUME Clean'
          PROVE  /\ Fits(content', named', age', told, tail.open, tail.pending, tail.offset)
                 /\ tail.offset > 0 => Intact(content', told, tail.open, tail.pending, tail.offset)
      <4>1. /\ Clean
            /\ Fits(content, named, age, told, tail.open, tail.pending, tail.offset)
            /\ tail.offset > 0 => Intact(content, told, tail.open, tail.pending, tail.offset)
        BY <2>1, <2>5, <3>4, <3>5 DEF ReadInv
      <4>2. Fits(content', named', age', told, tail.open, tail.pending, tail.offset)
        BY <1>3, <4>1, WriterFits
      <4>3. ASSUME tail.offset > 0
            PROVE  Intact(content', told, tail.open, tail.pending, tail.offset)
        <5>1. content'[tail.open] # <<>>
          BY <3>4, <3>5, <4>3
        <5> QED
          BY <1>3, <2>5, <4>1, <4>3, <5>1, WriterFits
      <4> QED
        BY <4>2, <4>3
    <3> QED
      BY <1>2, <1>4, <3>1, <3>2, <3>3, <3>5 DEF ReadInv
  <2>6. ReadInv'
    BY <1>4, <2>5 DEF ReadInv
  <2> QED
    BY <2>3, <2>4, <2>6
<1> QED
  BY <1>1, <1>2, <1>5, <1>6 DEF TailInv, CursorInv

(* The lines that go out move from the queue to what was sent.             *)
LEMMA DeliverFacts ==
    ASSUME told \in Seq(Line), NEW t \in TailState, NEW r, Deliver(t, r)
    PROVE  /\ tail' = [t EXCEPT !.pending = tail'.pending, !.carry = tail'.carry]
           /\ tail' \in TailState /\ told' \in Seq(Line) /\ poll' = AtRest
           /\ Ordered(told, t.pending) => Ordered(told', tail'.pending)
           /\ Some(told', tail'.pending) <=> Some(told, t.pending)
           /\ Some(told, t.pending) => EndOf(told', tail'.pending) = EndOf(told, t.pending)
<1> DEFINE cap == IF t.carry > 0 /\ t.carry < Cap THEN t.carry ELSE Cap
           n == IF Len(t.pending) < cap THEN Len(t.pending) ELSE cap
           rest == SubSeq(t.pending, n + 1, Len(t.pending))
           carry == IF t.carry > n THEN t.carry - n ELSE 0
<1>1. t.pending \in Seq(Line) /\ t.carry \in Nat /\ Len(t.pending) \in Nat
  BY LenProperties DEF TailState
<1>2. cap \in Nat /\ n \in 0 .. Len(t.pending) /\ carry \in Nat
  BY <1>1 DEF TailAssumption
<1>3. /\ tail' = [t EXCEPT !.pending = rest, !.carry = carry]
      /\ told' = Gone(told, t.pending, n)
      /\ poll' = AtRest
  BY DEF Deliver, Drained, Gone
<1> HIDE DEF cap, n, carry, rest
<1>4. rest = Left(t.pending, n)
  BY DEF rest, Left
<1>5. /\ told' \in Seq(Line) /\ rest \in Seq(Line)
      /\ Ordered(told, t.pending) => Ordered(told', rest)
      /\ Some(told', rest) <=> Some(told, t.pending)
      /\ Some(told, t.pending) => EndOf(told', rest) = EndOf(told, t.pending)
  BY <1>1, <1>2, <1>3, <1>4, SplitFacts
<1>6. tail'.pending = rest /\ tail'.carry = carry /\ tail' \in TailState
  BY <1>2, <1>3, <1>5 DEF TailState
<1> QED
  BY <1>3, <1>5, <1>6

(* A poll that ends with a batch.                                          *)
LEMMA DeliverKeepsTail ==
    ASSUME TailTypeOK, FileInv, UNCHANGED fileVars, NEW t \in TailState, NEW r, Deliver(t, r),
           t.task = "runs",
           ~t.blended => /\ Fits(content, named, age, told, t.open, t.pending, t.offset)
                         /\ t.open # NoInode => t.sig = SigOf(told, t.pending, t.offset)
                         /\ t.offset > 0 => t.open = t.id
    PROVE  TailInv'
<1>1. /\ tail' = [t EXCEPT !.pending = tail'.pending, !.carry = tail'.carry]
      /\ tail' \in TailState /\ told' \in Seq(Line) /\ poll' = AtRest
      /\ Ordered(told, t.pending) => Ordered(told', tail'.pending)
      /\ Some(told', tail'.pending) <=> Some(told, t.pending)
      /\ Some(told, t.pending) => EndOf(told', tail'.pending) = EndOf(told, t.pending)
  BY DeliverFacts DEF TailTypeOK
<1>2. content' = content /\ named' = named /\ age' = age
  BY DEF fileVars
<1>3. /\ tail'.task = "runs" /\ tail'.open = t.open /\ tail'.id = t.id /\ tail'.sig = t.sig
      /\ tail'.offset = t.offset /\ tail'.blended = t.blended
  BY <1>1 DEF TailState
<1>4. /\ AtRest.pc = "rest" /\ AtRest.reads = 0 /\ ~AtRest.mixed /\ AtRest \in PollState
  BY DEF AtRest, PollState
<1>5. TailTypeOK'
  BY <1>1, <1>2, <1>4 DEF TailTypeOK
<1>6. FileInv'
  BY <1>2 DEF FileInv
<1>7. IdleInv'
  BY <1>3 DEF IdleInv
<1>8. ASSUME ~t.blended PROVE CursorInv'
  <2>1. /\ Fits(content, named, age, told, t.open, t.pending, t.offset)
        /\ t.open # NoInode => t.sig = SigOf(told, t.pending, t.offset)
        /\ t.offset > 0 => t.open = t.id
    BY <1>8
  <2>2. Fits(content', named', age', told', tail'.open, tail'.pending, tail'.offset)
    BY <1>1, <1>2, <1>3, <2>1 DEF Fits, Behind, Intact
  <2>3. t.open # NoInode => tail'.sig = SigOf(told', tail'.pending, tail'.offset)
    <3>1. t.open # NoInode /\ t.offset # 0 => Some(told, t.pending)
      BY <2>1 DEF Fits, TailState
    <3> QED
      BY <1>1, <1>3, <2>1, <3>1 DEF SigOf
  <2> QED
    BY <1>1, <1>3, <1>4, <2>1, <2>2, <2>3 DEF CursorInv, RestInv, JudgeInv, ReadInv
<1> QED
  BY <1>3, <1>5, <1>6, <1>7, <1>8 DEF TailInv

LEMMA PaneFacts ==
    ASSUME TailInv
    PROVE  /\ TailTypeOK /\ FileInv /\ IdleInv
           /\ tail \in TailState /\ poll \in PollState /\ told \in Seq(Line)
           /\ named \in Inodes \cup {NoInode} /\ age \in Nat
           /\ tail.open \in Inodes \cup {NoInode} /\ tail.id \in Inodes \cup {NoInode}
           /\ tail.offset \in Nat /\ tail.pending \in Seq(Line) /\ Len(tail.pending) \in Nat
           /\ tail.carry \in Nat
           /\ poll.id \in Inodes \cup {NoInode} /\ poll.len \in Nat /\ poll.reads \in Nat
           /\ poll.before \in Nat /\ poll.pending \in Nat /\ poll.mixed \in BOOLEAN
           /\ \A i \in Inodes : content[i] \in Seq(Line) /\ Len(content[i]) \in Nat
<1>1. TailTypeOK /\ FileInv /\ IdleInv
  BY DEF TailInv
<1>2. \A i \in Inodes : content[i] \in Seq(Line) /\ Len(content[i]) \in Nat
  BY <1>1, LenProperties DEF TailTypeOK
<1>3. Len(tail.pending) \in Nat
  BY <1>1, LenProperties DEF TailTypeOK, TailState
<1> QED
  BY <1>1, <1>2, <1>3 DEF TailTypeOK, TailState, PollState, TailAssumption

(* A file that the path no longer names, and one begun anew.               *)
LEMMA OtherFile ==
    ASSUME TailInv, NEW u \in Seq(Line), NEW t \in Seq(Line), NEW o \in Inodes, NEW k \in Nat,
           k > 0, o # named, Intact(content, u, o, t, k), Some(u, t)
    PROVE  Behind(named, age, u, t)
<1>1. k \in 1 .. Len(content[o]) /\ content[o][k] = EndOf(u, t)
  BY PaneFacts DEF Intact
<1>2. named # NoInode => content[o][k].inc < age
  BY <1>1, PaneFacts DEF FileInv
<1> QED
  BY <1>1, <1>2 DEF Behind

LEMMA FreshFits ==
    ASSUME TailInv, NEW u \in Seq(Line), NEW t \in Seq(Line), NEW o \in {named, NoInode},
           Ordered(u, t), Some(u, t) => EndOf(u, t).inc <= age, Behind(named, age, u, t)
    PROVE  Fits(content, named, age, u, o, t, 0)
<1>1. ASSUME o # NoInode, Some(u, t), NEW j \in 1 .. Len(content[o])
      PROVE  content[o][j].inc > EndOf(u, t).inc
  <2>1. o \in Inodes /\ o = named
    BY <1>1, PaneFacts
  <2>2. content[o][j].inc = age /\ age \in Nat
    BY <1>1, <2>1, PaneFacts DEF FileInv
  <2>3. EndOf(u, t).inc < age /\ EndOf(u, t).inc \in Nat
    BY <1>1, <2>1, EndFacts DEF Behind
  <2> QED
    BY <2>2, <2>3
<1> QED
  BY <1>1 DEF Fits

LEMMA StatKeepsTail ==
    ASSUME TailInv, Stat
    PROVE  TailInv'
<1>1. UNCHANGED fileVars /\ tail.task = "runs" /\ poll.pc = "rest"
  BY DEF Stat, Polling
<1>2. content' = content /\ named' = named /\ age' = age
  BY <1>1 DEF fileVars
<1>3. ~tail.blended =>
        /\ Fits(content, named, age, told, tail.open, tail.pending, tail.offset)
        /\ tail.open # NoInode => tail.sig = SigOf(told, tail.pending, tail.offset)
        /\ tail.offset > 0 => tail.open = tail.id
        /\ poll.reads = 0 /\ ~poll.mixed
  BY <1>1 DEF TailInv, CursorInv, RestInv
<1>4. CASE named = NoInode
  <2> DEFINE t == [tail EXCEPT !.open = NoInode, !.id = NoInode, !.sig = <<>>]
  <2>1. <<>> \in Seq(Line)
    BY EmptySeq
  <2>2. /\ t \in TailState /\ t.task = "runs" /\ t.open = NoInode /\ t.id = NoInode
        /\ t.pending = tail.pending /\ t.offset = tail.offset /\ t.blended = tail.blended
    BY <1>1, <2>1, PaneFacts DEF TailState
  <2>3. Deliver(t, FALSE)
    BY <1>4 DEF Stat
  <2> HIDE DEF t
  <2>4. ~t.blended => Fits(content, named, age, told, NoInode, t.pending, t.offset)
    BY <1>3, <1>4, <2>2 DEF Fits, Behind
  <2> QED
    BY <1>1, <2>2, <2>3, <2>4, DeliverKeepsTail, PaneFacts
<1>5. CASE named # NoInode
  <2>1. /\ poll' = [AtRest EXCEPT !.pc = "check", !.id = named, !.len = Len(content[named])]
        /\ tail' = tail /\ told' = told
    BY <1>5 DEF Stat, paneVars
  <2>2. named \in Inodes /\ Len(content[named]) \in Nat
    BY <1>5, PaneFacts
  <2>3. AtRest \in PollState /\ AtRest.reads = 0 /\ AtRest.mixed = FALSE
    BY EmptySeq DEF AtRest, PollState
  <2>4. /\ poll' \in PollState /\ poll'.pc = "check" /\ poll'.id = named
        /\ poll'.len = Len(content[named]) /\ poll'.reads = 0 /\ poll'.mixed = FALSE
    BY <2>1, <2>2, <2>3 DEF PollState
  <2>5. ASSUME ~tail.blended,
               tail.open = NoInode \/ tail.id # named \/ Len(content[named]) < tail.offset
        PROVE  Behind(named, age, told, tail.pending)
    <3>1. CASE tail.open = NoInode \/ tail.offset = 0
      BY <1>3, <2>5, <3>1 DEF Fits
    <3>2. CASE tail.open # NoInode /\ tail.offset # 0
      <4>1. /\ tail.open \in Inodes /\ tail.offset > 0 /\ tail.offset \in Nat
            /\ tail.open = tail.id /\ Some(told, tail.pending)
            /\ \/ Intact(content, told, tail.open, tail.pending, tail.offset)
               \/ Behind(named, age, told, tail.pending)
        BY <1>3, <2>5, <3>2, PaneFacts DEF Fits
      <4>2. CASE tail.open # named
        BY <4>1, <4>2, PaneFacts, OtherFile
      <4>3. CASE tail.open = named
        <5>1. ~Intact(content, told, tail.open, tail.pending, tail.offset)
          BY <2>2, <2>5, <3>2, <4>1, <4>3 DEF Intact
        <5> QED
          BY <4>1, <5>1
      <4> QED
        BY <4>2, <4>3
    <3> QED
      BY <3>1, <3>2
  <2>6. TailTypeOK' /\ FileInv' /\ IdleInv'
    BY <1>1, <1>2, <2>1, <2>4, PaneFacts DEF TailTypeOK, FileInv, IdleInv
  <2>7. ~tail.blended => CursorInv'
    BY <1>2, <1>3, <2>1, <2>4, <2>5 DEF CursorInv, RestInv, JudgeInv, ReadInv
  <2> QED
    BY <2>1, <2>6, <2>7 DEF TailInv
<1> QED
  BY <1>4, <1>5

(* A poll that begins to read.                                             *)
LEMMA StartReadKeepsTail ==
    ASSUME TailInv, UNCHANGED fileVars, told' = told, NEW r \in BOOLEAN, tail' \in TailState,
           StartRead(tail', r), tail'.task = "runs", tail'.open # NoInode,
           tail'.blended = tail.blended,
           ~tail.blended =>
               /\ Fits(content, named, age, told, tail'.open, tail'.pending, tail'.offset)
               /\ tail'.sig = SigOf(told, tail'.pending, tail'.offset)
               /\ tail'.offset > 0 => tail'.open = tail'.id
               /\ tail'.id = poll.id /\ poll.reads = 0
    PROVE  TailInv'
<1>1. content' = content /\ named' = named /\ age' = age
  BY DEF fileVars
<1>2. /\ tail'.offset \in Nat /\ tail'.sig \in Seq(Line) /\ tail'.pending \in Seq(Line)
      /\ Len(tail'.pending) \in Nat /\ tail'.open \in Inodes
  BY LenProperties DEF TailState
<1>3. /\ poll' \in PollState /\ poll'.pc = "read" /\ poll'.id = poll.id /\ poll'.reads = poll.reads
      /\ poll'.mixed = poll.mixed /\ poll'.before = tail'.offset /\ poll'.sig = tail'.sig
      /\ poll'.pending = Len(tail'.pending)
  BY <1>2, PaneFacts DEF StartRead, PollState
<1>4. Sure' = tail'.pending
  <2>1. SubSeq(tail'.pending, 1, Len(tail'.pending)) = tail'.pending
    <3>1. /\ SubSeq(tail'.pending, 1, Len(tail'.pending)) \in Seq(Line)
          /\ Len(SubSeq(tail'.pending, 1, Len(tail'.pending))) = Len(tail'.pending)
          /\ \A i \in 1 .. Len(tail'.pending) :
                SubSeq(tail'.pending, 1, Len(tail'.pending))[i] = tail'.pending[i]
      <4>1. 1 \in Nat \ {0} /\ Len(tail'.pending) \in 0 .. Len(tail'.pending)
            /\ 1 <= Len(tail'.pending) + 1
        BY <1>2
      <4> QED
        BY <1>2, <4>1, PartFacts
    <3> QED
      BY <1>2, <3>1, SeqEqual
  <2> QED
    BY <1>3, <2>1 DEF Sure
<1>5. TailTypeOK' /\ FileInv' /\ IdleInv'
  BY <1>1, <1>2, <1>3, PaneFacts DEF TailTypeOK, FileInv, IdleInv
<1>6. ASSUME ~tail.blended PROVE CursorInv'
  <2>1. /\ Fits(content, named, age, told, tail'.open, tail'.pending, tail'.offset)
        /\ tail'.sig = SigOf(told, tail'.pending, tail'.offset)
        /\ tail'.offset > 0 => tail'.open = tail'.id
        /\ tail'.id = poll.id /\ poll.reads = 0
    BY <1>6
  <2>2. ASSUME Clean', tail'.offset > 0
        PROVE  Intact(content, told, tail'.open, tail'.pending, tail'.offset)
    <3>1. Signature(tail.open, poll.before)' = tail'.sig
      BY <1>3, <2>2 DEF Clean
    <3>2. tail'.sig = <<EndOf(told, tail'.pending)>>
      BY <2>1, <2>2 DEF SigOf
    <3>3. Signature(tail.open, poll.before)' =
            IF tail'.offset = 0 \/ tail'.offset > Len(content[tail'.open]) THEN <<>>
            ELSE <<content[tail'.open][tail'.offset]>>
      BY <1>1, <1>3 DEF Signature
    <3>4. <<EndOf(told, tail'.pending)>> # <<>>
      OBVIOUS
    <3>5. ~(tail'.offset > Len(content[tail'.open]))
      BY <3>1, <3>2, <3>3, <3>4
    <3>6. <<content[tail'.open][tail'.offset]>> = <<EndOf(told, tail'.pending)>>
      BY <1>2, <2>2, <3>1, <3>2, <3>3, <3>5
    <3>7. Len(content[tail'.open]) \in Nat
      BY <1>2, PaneFacts
    <3> QED
      BY <1>2, <3>5, <3>6, <3>7 DEF Intact
  <2>3. ReadInv'
    BY <1>1, <1>2, <1>3, <1>4, <2>1, <2>2 DEF ReadInv
  <2> QED
    BY <1>3, <2>3 DEF CursorInv, RestInv, JudgeInv
<1> QED
  BY <1>5, <1>6 DEF TailInv

LEMMA CheckKeepsTail ==
    ASSUME TailInv, CheckContinuity
    PROVE  TailInv'
<1>1. /\ UNCHANGED fileVars /\ tail' = tail /\ told' = told /\ tail.task = "runs"
      /\ poll.pc = "check"
  BY DEF CheckContinuity, Polling, paneVars
<1>2. content' = content /\ named' = named /\ age' = age
  BY <1>1 DEF fileVars
<1>3. ~tail.blended =>
        /\ Fits(content, named, age, told, tail.open, tail.pending, tail.offset)
        /\ tail.open # NoInode => tail.sig = SigOf(told, tail.pending, tail.offset)
        /\ tail.offset > 0 => tail.open = tail.id
        /\ poll.reads = 0 /\ ~poll.mixed
        /\ (tail.open = NoInode \/ tail.id # poll.id \/ poll.len < tail.offset) =>
              Behind(named, age, told, tail.pending)
  BY <1>1 DEF TailInv, CursorInv, RestInv, JudgeInv
<1>4. CASE poll' = [poll EXCEPT !.pc = "reopen"] /\
           \/ tail.open = NoInode \/ tail.id # poll.id \/ poll.len < tail.offset
           \/ Signature(tail.open, tail.offset) # tail.sig
  <2>1. /\ poll' \in PollState /\ poll'.pc = "reopen" /\ poll'.reads = poll.reads
        /\ poll'.mixed = poll.mixed
    BY <1>4, PaneFacts DEF PollState
  <2>2. ASSUME ~tail.blended, tail.open # NoInode, Signature(tail.open, tail.offset) # tail.sig
        PROVE  Behind(named, age, told, tail.pending)
    <3>1. tail.offset # 0
      BY <1>3, <2>2 DEF Signature, SigOf
    <3>2. tail.sig = <<EndOf(told, tail.pending)>>
      BY <1>3, <2>2, <3>1 DEF SigOf
    <3>3. tail.open \in Inodes /\ Len(content[tail.open]) \in Nat /\ tail.offset \in Nat
      BY <2>2, PaneFacts
    <3>4. ~Intact(content, told, tail.open, tail.pending, tail.offset)
      BY <2>2, <3>1, <3>2, <3>3 DEF Intact, Signature
    <3> QED
      BY <1>3, <2>2, <3>1, <3>3, <3>4 DEF Fits
  <2>3. TailTypeOK' /\ FileInv' /\ IdleInv'
    BY <1>1, <1>2, <2>1, PaneFacts DEF TailTypeOK, FileInv, IdleInv
  <2>4. ~tail.blended => CursorInv'
    BY <1>1, <1>2, <1>3, <1>4, <2>1, <2>2 DEF CursorInv, RestInv, JudgeInv, ReadInv
  <2> QED
    BY <1>1, <2>3, <2>4 DEF TailInv
<1>5. CASE /\ StartRead(tail, FALSE)
           /\ tail.open # NoInode /\ tail.id = poll.id
  <2>1. /\ tail' \in TailState /\ StartRead(tail', FALSE) /\ tail'.task = "runs"
        /\ tail'.open # NoInode /\ tail'.blended = tail.blended
    BY <1>1, <1>5, PaneFacts
  <2>2. ~tail.blended =>
           /\ Fits(content, named, age, told, tail'.open, tail'.pending, tail'.offset)
           /\ tail'.sig = SigOf(told, tail'.pending, tail'.offset)
           /\ tail'.offset > 0 => tail'.open = tail'.id
           /\ tail'.id = poll.id /\ poll.reads = 0
    BY <1>1, <1>3, <1>5
  <2> QED
    BY <1>1, <2>1, <2>2, StartReadKeepsTail
<1> QED
  BY <1>4, <1>5 DEF CheckContinuity

LEMMA ReopenKeepsTail ==
    ASSUME TailInv, Reopen
    PROVE  TailInv'
<1>1. UNCHANGED fileVars /\ tail.task = "runs" /\ poll.pc = "reopen"
  BY DEF Reopen, Polling
<1>2. content' = content /\ named' = named /\ age' = age
  BY <1>1 DEF fileVars
<1>3. ~tail.blended =>
        /\ Fits(content, named, age, told, tail.open, tail.pending, tail.offset)
        /\ tail.open # NoInode => tail.sig = SigOf(told, tail.pending, tail.offset)
        /\ tail.offset > 0 => tail.open = tail.id
        /\ poll.reads = 0 /\ ~poll.mixed
        /\ Behind(named, age, told, tail.pending)
  BY <1>1 DEF TailInv, CursorInv, RestInv, JudgeInv
<1>4. AtRest \in PollState /\ AtRest.reads = 0 /\ AtRest.mixed = FALSE /\ AtRest.pc = "rest"
  BY EmptySeq DEF AtRest, PollState
<1>5. CASE named = NoInode
  <2>1. tail' = [tail EXCEPT !.task = "ended"] /\ poll' = AtRest /\ told' = told
    BY <1>5 DEF Reopen, paneVars
  <2>2. /\ tail' \in TailState /\ tail'.task = "ended" /\ tail'.open = tail.open
        /\ tail'.id = tail.id /\ tail'.sig = tail.sig /\ tail'.offset = tail.offset
        /\ tail'.pending = tail.pending /\ tail'.blended = tail.blended
    BY <2>1, PaneFacts DEF TailState
  <2>3. TailTypeOK' /\ FileInv' /\ IdleInv'
    BY <1>2, <1>4, <2>1, <2>2, PaneFacts DEF TailTypeOK, FileInv, IdleInv
  <2>4. ~tail.blended => CursorInv'
    BY <1>2, <1>3, <1>4, <2>1, <2>2 DEF CursorInv, RestInv, JudgeInv, ReadInv
  <2> QED
    BY <2>2, <2>3, <2>4 DEF TailInv
<1>6. /\ Reopened \in TailState /\ Reopened.task = "runs" /\ Reopened.open = named
      /\ Reopened.id = poll.id /\ Reopened.offset = 0 /\ Reopened.sig = <<>>
      /\ Reopened.pending = tail.pending /\ Reopened.blended = tail.blended
  <2>1. Fresh(named, poll.id) \in TailState
    BY PaneFacts, EmptySeq DEF Fresh, TailState
  <2> QED
    BY <2>1, PaneFacts DEF Reopened, Fresh, TailState
<1>7. ~tail.blended => Fits(content, named, age, told, named, tail.pending, 0)
  BY <1>3, FreshFits, PaneFacts DEF Fits
<1>8. <<>> = SigOf(told, tail.pending, 0)
  BY DEF SigOf
<1>9. CASE named # NoInode /\ tail.pending # <<>>
  <2> DEFINE t == [Reopened EXCEPT !.carry = Len(tail.pending), !.marker = TRUE]
  <2>1. Deliver(t, FALSE)
    BY <1>9 DEF Reopen
  <2>2. /\ t \in TailState /\ t.task = "runs" /\ t.open = named
        /\ t.id = poll.id /\ t.offset = 0 /\ t.sig = <<>>
        /\ t.pending = tail.pending /\ t.blended = tail.blended
    BY <1>6, PaneFacts DEF TailState
  <2> HIDE DEF t
  <2>3. ~t.blended => /\ Fits(content, named, age, told, t.open, t.pending, t.offset)
                      /\ t.open # NoInode => t.sig = SigOf(told, t.pending, t.offset)
                      /\ t.offset > 0 => t.open = t.id
    BY <1>7, <1>8, <2>2
  <2>4. TailTypeOK /\ FileInv
    BY PaneFacts
  <2> QED
    BY <1>1, <2>1, <2>2, <2>3, <2>4, DeliverKeepsTail
<1>10. CASE named # NoInode /\ tail.pending = <<>>
  <2>1. tail' = Reopened /\ StartRead(Reopened, TRUE) /\ told' = told
    <3>1. tail' = Reopened /\ told' = told
      BY <1>10 DEF Reopen, paneVars
    <3>2. StartRead(Reopened, TRUE)
      BY <1>10 DEF Reopen
    <3> QED
      BY <3>1, <3>2
  <2>2. /\ tail' \in TailState /\ StartRead(tail', TRUE) /\ tail'.task = "runs"
        /\ tail'.open # NoInode /\ tail'.blended = tail.blended
    BY <1>6, <1>10, <2>1
  <2>3. ~tail.blended =>
           /\ Fits(content, named, age, told, tail'.open, tail'.pending, tail'.offset)
           /\ tail'.sig = SigOf(told, tail'.pending, tail'.offset)
           /\ tail'.offset > 0 => tail'.open = tail'.id
           /\ tail'.id = poll.id /\ poll.reads = 0
    BY <1>3, <1>6, <1>7, <1>8, <2>1
  <2> QED
    BY <1>1, <2>1, <2>2, <2>3, StartReadKeepsTail
<1> QED
  BY <1>5, <1>9, <1>10

(* A line that is read behind a cursor that fits.                          *)
LEMMA NextLine ==
    ASSUME TailInv, NEW o \in Inodes, NEW k \in Nat, NEW u \in Seq(Line), NEW t \in Seq(Line),
           k + 1 <= Len(content[o]),
           Fits(content, named, age, u, o, t, k), k > 0 => Intact(content, u, o, t, k)
    PROVE  /\ Fits(content, named, age, u, o, Append(t, content[o][k + 1]), k + 1)
           /\ Intact(content, u, o, Append(t, content[o][k + 1]), k + 1)
<1> DEFINE l == content[o][k + 1]
<1>1. Len(content[o]) \in Nat /\ k + 1 \in 1 .. Len(content[o]) /\ o # NoInode
  <2>1. Len(content[o]) \in Nat
    BY PaneFacts
  <2>2. o # NoInode
    BY DEF Inodes, NoInode
  <2> QED
    BY <2>1, <2>2
<1>2. l \in Line /\ l.n = k + 1 /\ l.inc <= age /\ l.inc = content[o][1].inc /\ l.inc \in Nat
  BY <1>1, PaneFacts, LineFacts DEF FileInv
<1> HIDE DEF l
<1>3. ASSUME Some(u, t) PROVE Follows(EndOf(u, t), l)
  <2>1. CASE k = 0
    <3>1. content[o][k + 1].inc > EndOf(u, t).inc
      BY <1>1, <1>3, <2>1 DEF Fits
    <3> QED
      BY <1>2, <2>1, <3>1 DEF Follows, l
  <2>2. CASE k > 0
    <3>1. content[o][k] = EndOf(u, t) /\ k \in 1 .. Len(content[o])
      BY <1>1, <2>2 DEF Intact
    <3>2. content[o][k].n = k /\ content[o][k].inc = content[o][1].inc
      BY <3>1, PaneFacts DEF FileInv
    <3> QED
      BY <1>2, <3>1, <3>2 DEF Follows
  <2> QED
    BY <2>1, <2>2
<1>4. /\ Some(u, Append(t, l)) /\ EndOf(u, Append(t, l)) = l
      /\ Ordered(u, Append(t, l))
  BY <1>2, <1>3, AppendFacts DEF Fits
<1>5. Intact(content, u, o, Append(t, l), k + 1)
  BY <1>1, <1>4 DEF Intact, l
<1>6. Fits(content, named, age, u, o, Append(t, l), k + 1)
  BY <1>1, <1>2, <1>4, <1>5 DEF Fits
<1> QED
  BY <1>5, <1>6 DEF l

LEMMA ReadKeepsTail ==
    ASSUME TailInv, ReadChunk
    PROVE  TailInv'
<1> DEFINE at == tail.offset + 1
           l == content[tail.open][tail.offset + 1]
<1>1. /\ UNCHANGED fileVars /\ tail.task = "runs" /\ poll.pc = "read" /\ told' = told
      /\ tail.offset + 1 <= Len(content[tail.open])
      /\ tail' = [tail EXCEPT !.offset = at, !.sig = <<l>>,
                              !.pending = Append(tail.pending, l)]
      /\ poll' = [poll EXCEPT !.reads = poll.reads + 1]
  BY DEF ReadChunk, Polling, paneVars
<1>2. content' = content /\ named' = named /\ age' = age
  BY <1>1 DEF fileVars
<1>3. tail.open \in Inodes /\ tail.open # NoInode /\ poll.pending <= Len(tail.pending)
  BY <1>1, PaneFacts DEF TailTypeOK
<1>4. l \in Line
  <2>1. tail.offset \in Nat /\ Len(content[tail.open]) \in Nat
    BY <1>3, PaneFacts
  <2>2. tail.offset + 1 \in 1 .. Len(content[tail.open])
    BY <1>1, <2>1
  <2> QED
    BY <1>3, <2>2, PaneFacts, LineFacts
<1>11. /\ tail \in TailState /\ tail.pending \in Seq(Line) /\ Len(tail.pending) \in Nat
       /\ tail.offset \in Nat /\ told \in Seq(Line)
       /\ poll \in PollState /\ poll.reads \in Nat /\ poll.before \in Nat
       /\ poll.pending \in Nat
  BY PaneFacts
<1> HIDE DEF l
<1>5. /\ Append(tail.pending, l) \in Seq(Line)
      /\ Len(Append(tail.pending, l)) = Len(tail.pending) + 1
      /\ EndOf(told, Append(tail.pending, l)) = l
      /\ \A n \in 0 .. Len(tail.pending) :
            SubSeq(Append(tail.pending, l), 1, n) = SubSeq(tail.pending, 1, n)
  BY <1>4, <1>11, AppendFacts
<1>6. /\ tail' \in TailState /\ tail'.task = "runs" /\ tail'.open = tail.open
      /\ tail'.id = tail.id /\ tail'.offset = tail.offset + 1 /\ tail'.sig = <<l>>
      /\ tail'.pending = Append(tail.pending, l) /\ tail'.blended = tail.blended
  <2>1. <<l>> \in Seq(Line)
    BY <1>4
  <2> QED
    <3>1. at \in Nat /\ at = tail.offset + 1
      BY <1>11
    <3> HIDE DEF at
    <3> QED
      BY <1>1, <1>5, <1>11, <2>1, <3>1 DEF TailState
<1>7. /\ poll' \in PollState /\ poll'.pc = "read" /\ poll'.id = poll.id
      /\ poll'.reads = poll.reads + 1 /\ poll'.mixed = poll.mixed /\ poll'.before = poll.before
      /\ poll'.sig = poll.sig /\ poll'.pending = poll.pending
  <2>1. poll.reads + 1 \in Nat
    BY <1>11
  <2> QED
    BY <1>1, <1>11, <2>1 DEF PollState
<1>8. Sure' = Sure /\ (Clean' <=> Clean)
  <2>1. poll.pending \in 0 .. Len(tail.pending)
    BY <1>3, PaneFacts
  <2>2. Sure' = Sure
    BY <1>5, <1>6, <1>7, <2>1 DEF Sure
  <2>3. Clean' <=> Clean
    BY <1>2, <1>6, <1>7 DEF Clean, Signature
  <2> QED
    BY <2>2, <2>3
<1>9. TailTypeOK' /\ FileInv' /\ IdleInv'
  <2>1. TailTypeOK'
    <3>1. poll.pending <= Len(tail'.pending)
      BY <1>3, <1>5, <1>6, <1>11
    <3> QED
      BY <1>2, <1>1, <1>3, <1>6, <1>7, <3>1, PaneFacts DEF TailTypeOK
  <2>2. FileInv'
    BY <1>2, PaneFacts DEF FileInv
  <2> QED
    BY <1>6, <2>1, <2>2 DEF IdleInv
<1>10. ASSUME ~tail.blended PROVE CursorInv'
  <2>1. /\ tail.id = poll.id
        /\ Fits(content, named, age, told, tail.open, Sure, poll.before)
        /\ poll.sig = SigOf(told, Sure, poll.before)
        /\ poll.before > 0 => tail.open = tail.id
        /\ tail.offset = poll.before + poll.reads
        /\ Len(tail.pending) = poll.pending + poll.reads
        /\ Clean => /\ Fits(content, named, age, told, tail.open, tail.pending, tail.offset)
                    /\ tail.offset > 0 =>
                           Intact(content, told, tail.open, tail.pending, tail.offset)
    BY <1>1, <1>10 DEF TailInv, CursorInv, ReadInv
  <2>2. ASSUME Clean
        PROVE  /\ Fits(content, named, age, told, tail.open, tail'.pending, tail.offset + 1)
               /\ Intact(content, told, tail.open, tail'.pending, tail.offset + 1)
    <3>1. tail.offset + 1 <= Len(content[tail.open])
      BY <1>1
    <3>2. /\ Fits(content, named, age, told, tail.open,
                  Append(tail.pending, content[tail.open][tail.offset + 1]), tail.offset + 1)
          /\ Intact(content, told, tail.open,
                    Append(tail.pending, content[tail.open][tail.offset + 1]), tail.offset + 1)
      BY <1>3, <1>11, <2>1, <2>2, <3>1, NextLine
    <3> QED
      BY <1>6, <3>2 DEF l
  <2>3. tail'.sig = SigOf(told, tail'.pending, tail.offset + 1)
    <3>1. tail.offset + 1 # 0
      BY PaneFacts
    <3> QED
      BY <1>5, <1>6, <3>1 DEF SigOf
  <2>4. /\ tail.offset + 1 = poll.before + (poll.reads + 1)
        /\ Len(tail'.pending) = poll.pending + (poll.reads + 1)
    BY <1>5, <1>6, <1>11, <2>1
  <2>5. ReadInv'
    BY <1>1, <1>2, <1>6, <1>7, <1>8, <2>1, <2>2, <2>3, <2>4 DEF ReadInv
  <2> QED
    BY <1>7, <2>5 DEF CursorInv, RestInv, JudgeInv
<1> QED
  BY <1>6, <1>9, <1>10 DEF TailInv

LEMMA EndReadKeepsTail ==
    ASSUME TailInv, EndRead
    PROVE  TailInv'
<1>1. UNCHANGED fileVars /\ tail.task = "runs" /\ poll.pc = "read"
  BY DEF EndRead, Polling
<1>2. tail.open \in Inodes /\ tail.open # NoInode /\ poll.pending \in 0 .. Len(tail.pending)
  BY <1>1, PaneFacts DEF TailTypeOK
<1>3. ~tail.blended =>
        /\ tail.id = poll.id
        /\ Fits(content, named, age, told, tail.open, Sure, poll.before)
        /\ poll.sig = SigOf(told, Sure, poll.before)
        /\ poll.before > 0 => tail.open = tail.id
        /\ tail.offset = poll.before + poll.reads
        /\ Len(tail.pending) = poll.pending + poll.reads
        /\ tail.sig = SigOf(told, tail.pending, tail.offset)
        /\ Clean => Fits(content, named, age, told, tail.open, tail.pending, tail.offset)
  BY <1>1 DEF TailInv, CursorInv, ReadInv
<1>4. /\ Sure \in Seq(Line) /\ Len(Sure) = poll.pending
      /\ \A i \in 1 .. poll.pending : Sure[i] = tail.pending[i]
  BY <1>2, PaneFacts, PartFacts DEF Sure
<1>5. TailTypeOK /\ FileInv
  BY PaneFacts
<1>6. CASE Straddled
  <2> DEFINE t == [Fresh(NoInode, NoInode) EXCEPT
                     !.pending = SubSeq(tail.pending, 1, poll.pending),
                     !.carry = tail.carry, !.marker = TRUE, !.blended = tail.blended]
  <2>1. Deliver(t, FALSE)
    BY <1>6 DEF EndRead
  <2>2. Fresh(NoInode, NoInode) \in TailState
    BY EmptySeq DEF Fresh, TailState
  <2>3. /\ t \in TailState /\ t.task = "runs" /\ t.open = NoInode /\ t.id = NoInode
        /\ t.offset = 0 /\ t.pending = Sure /\ t.blended = tail.blended
    <3>1. /\ t = [Fresh(NoInode, NoInode) EXCEPT !.pending = Sure, !.carry = tail.carry,
                                                 !.marker = TRUE, !.blended = tail.blended]
          /\ tail.blended \in BOOLEAN
      BY PaneFacts DEF Sure, TailState
    <3> HIDE DEF t
    <3> QED
      BY <1>4, <2>2, <3>1, PaneFacts DEF Fresh, TailState
  <2> HIDE DEF t
  <2>4. ASSUME ~tail.blended PROVE Behind(named, age, told, Sure)
    <3>1. CASE poll.before = 0
      BY <1>2, <1>3, <2>4, <3>1 DEF Fits
    <3>2. CASE poll.before # 0
      <4>1. poll.before > 0 /\ poll.before \in Nat /\ Len(content[tail.open]) \in Nat
        BY <1>2, <3>2, PaneFacts
      <4>2. Signature(tail.open, poll.before) # <<EndOf(told, Sure)>>
        BY <1>3, <1>6, <2>4, <3>2, <4>1 DEF Straddled, SigOf
      <4>3. ~Intact(content, told, tail.open, Sure, poll.before)
        BY <3>2, <4>1, <4>2 DEF Intact, Signature
      <4> QED
        BY <1>2, <1>3, <2>4, <4>1, <4>3 DEF Fits
    <3> QED
      BY <3>1, <3>2
  <2>5. ~tail.blended => Fits(content, named, age, told, NoInode, Sure, 0)
    <3>1. ~tail.blended => /\ Ordered(told, Sure)
                           /\ Some(told, Sure) => EndOf(told, Sure).inc <= age
      BY <1>3 DEF Fits
    <3> QED
      BY <1>4, <2>4, <3>1, FreshFits, PaneFacts
  <2>6. ~t.blended => /\ Fits(content, named, age, told, t.open, t.pending, t.offset)
                      /\ t.open # NoInode => t.sig = SigOf(told, t.pending, t.offset)
                      /\ t.offset > 0 => t.open = t.id
    BY <2>3, <2>5
  <2> QED
    BY <1>1, <1>5, <2>1, <2>3, <2>6, DeliverKeepsTail
<1>7. CASE ~Straddled
  <2> DEFINE announces == ~poll.rotated /\ tail.carry = 0
             t == [tail EXCEPT !.marker = tail.marker /\ ~announces,
                               !.blended = tail.blended \/ poll.mixed]
             r == poll.rotated \/ (announces /\ tail.marker)
  <2>1. Deliver(t, r)
    BY <1>7 DEF EndRead
  <2>2. /\ t \in TailState /\ t.task = "runs" /\ t.open = tail.open /\ t.id = tail.id
        /\ t.offset = tail.offset /\ t.pending = tail.pending /\ t.sig = tail.sig
        /\ t.blended = (tail.blended \/ poll.mixed)
    BY <1>1, PaneFacts DEF TailState
  <2> HIDE DEF t, r
  <2>3. ASSUME ~tail.blended, ~poll.mixed
        PROVE  Fits(content, named, age, told, tail.open, tail.pending, tail.offset)
    <3>1. CASE poll.reads = 0
      <4>1. tail.offset = poll.before /\ Len(tail.pending) = poll.pending
        BY <1>3, <2>3, <3>1, PaneFacts
      <4>2. Sure = tail.pending
        BY <1>4, <4>1, PaneFacts, SeqEqual
      <4> QED
        BY <1>3, <2>3, <4>1, <4>2
    <3>2. CASE poll.reads # 0
      <4>1. poll.reads > 0
        BY <3>2, PaneFacts
      <4>2. Clean
        BY <1>7, <2>3, <4>1 DEF Straddled, Clean
      <4> QED
        BY <1>3, <2>3, <4>2
    <3> QED
      BY <3>1, <3>2
  <2>4. ASSUME ~tail.blended, tail.offset > 0 PROVE tail.open = tail.id
    <3>1. CASE poll.reads = 0
      BY <1>3, <2>4, <3>1, PaneFacts
    <3>2. CASE poll.reads # 0
      <4>1. poll.reads > 0
        BY <3>2, PaneFacts
      <4> QED
        BY <1>3, <1>7, <2>4, <4>1 DEF Straddled
    <3> QED
      BY <3>1, <3>2
  <2>5. ~t.blended => /\ Fits(content, named, age, told, t.open, t.pending, t.offset)
                      /\ t.open # NoInode => t.sig = SigOf(told, t.pending, t.offset)
                      /\ t.offset > 0 => t.open = t.id
    BY <1>3, <2>2, <2>3, <2>4
  <2> QED
    BY <1>1, <1>5, <2>1, <2>2, <2>5, DeliverKeepsTail
<1> QED
  BY <1>6, <1>7

LEMMA StopKeepsTail ==
    ASSUME TailInv, StopTail
    PROVE  TailInv'
<1>1. /\ tail' = [tail EXCEPT !.task = "ended"] /\ poll' = poll /\ told' = told
      /\ content' = content /\ named' = named /\ age' = age
      /\ poll.pc = "rest"
  BY DEF StopTail, fileVars, paneVars
<1>2. /\ tail' \in TailState /\ tail'.task = "ended" /\ tail'.open = tail.open
      /\ tail'.id = tail.id /\ tail'.sig = tail.sig /\ tail'.offset = tail.offset
      /\ tail'.pending = tail.pending /\ tail'.blended = tail.blended
  BY <1>1, PaneFacts DEF TailState
<1>3. TailTypeOK' /\ FileInv' /\ IdleInv'
  BY <1>1, <1>2, PaneFacts DEF TailTypeOK, FileInv, IdleInv
<1>4. ~tail.blended => CursorInv'
  BY <1>1, <1>2 DEF TailInv, CursorInv, RestInv, JudgeInv, ReadInv
<1> QED
  BY <1>2, <1>3, <1>4 DEF TailInv

(* A preload queues the last lines of the file, and starts behind them.    *)
LEMMA PreloadFits ==
    ASSUME TailInv, told = <<>>, named # NoInode, content[named] # <<>>,
           NEW n \in Nat, n # 0
    PROVE  /\ LastOf(content[named], n) \in Seq(Line)
           /\ Fits(content, named, age, told, named, LastOf(content[named], n),
                   Len(content[named]))
           /\ Signature(named, Len(content[named])) =
                SigOf(told, LastOf(content[named], n), Len(content[named]))
<1> DEFINE c == content[named]
           m == IF Len(c) > n THEN Len(c) - n + 1 ELSE 1
           p == SubSeq(c, m, Len(c))
<1>1. named \in Inodes /\ c \in Seq(Line) /\ Len(c) \in Nat /\ Len(c) > 0
  BY PaneFacts, EmptySeq
<1>2. m \in Nat \ {0} /\ m <= Len(c)
  BY <1>1
<1>3. /\ \A k \in 1 .. Len(c) : c[k].n = k /\ c[k].inc = age
      /\ age \in Nat
  BY <1>1, PaneFacts DEF FileInv
<1>4. LastOf(c, n) = p
  BY DEF LastOf
<1> HIDE DEF c, m
<1>5. /\ p \in Seq(Line) /\ Len(p) = Len(c) - m + 1
      /\ \A i \in 1 .. Len(c) - m + 1 : p[i] = c[m + i - 1]
  BY <1>1, <1>2, PartFacts
<1> HIDE DEF p
<1>6. Len(p) > 0 /\ p # <<>> /\ p[Len(p)] = c[Len(c)]
  <2>1. Len(p) > 0 /\ Len(p) \in 1 .. Len(c) - m + 1 /\ m + Len(p) - 1 = Len(c)
    BY <1>1, <1>2, <1>5
  <2>2. p[Len(p)] = c[m + Len(p) - 1]
    BY <1>5, <2>1
  <2> QED
    BY <2>1, <2>2, EmptySeq
<1>7. Some(told, p) /\ EndOf(told, p) = c[Len(c)]
  BY <1>6 DEF Some, EndOf
<1>8. Ordered(told, p)
  <2>1. ASSUME NEW i \in 1 .. Len(p) - 1 PROVE Follows(p[i], p[i + 1])
    <3>1. /\ i \in 1 .. Len(c) - m + 1 /\ i + 1 \in 1 .. Len(c) - m + 1
          /\ m + i - 1 \in 1 .. Len(c) /\ m + (i + 1) - 1 \in 1 .. Len(c)
          /\ m + (i + 1) - 1 = (m + i - 1) + 1
      BY <1>1, <1>2, <1>5
    <3>2. p[i] = c[m + i - 1] /\ p[i + 1] = c[m + (i + 1) - 1]
      BY <1>5, <3>1
    <3>3. p[i].inc = age /\ p[i + 1].inc = age /\ p[i + 1].n = p[i].n + 1
      BY <1>3, <3>1, <3>2
    <3> QED
      BY <3>3 DEF Follows
  <2>2. Len(told) = 0
    BY EmptySeq
  <2> QED
    BY <2>1, <2>2 DEF Ordered
<1>9. Len(c) \in 1 .. Len(c) /\ c[Len(c)].inc = age
  BY <1>1, <1>3
<1>10. Fits(content, named, age, told, named, p, Len(c))
  BY <1>1, <1>3, <1>7, <1>8, <1>9 DEF Fits, Intact, c
<1>11. Signature(named, Len(c)) = SigOf(told, p, Len(c))
  BY <1>1, <1>7 DEF Signature, SigOf, c
<1> QED
  BY <1>4, <1>5, <1>10, <1>11 DEF c

LEMMA OpenKeepsTail ==
    ASSUME TailInv, NEW n \in Preloads, OpenTail(n)
    PROVE  TailInv'
<1> DEFINE at == IF named = NoInode \/ n = 0 THEN 0 ELSE Len(content[named])
           sig == IF at = 0 THEN <<>> ELSE Signature(named, at)
           pending == IF at = 0 THEN <<>> ELSE LastOf(content[named], n)
<1>1. /\ tail.task = "none"
      /\ tail' = [Fresh(named, named) EXCEPT !.offset = at, !.sig = sig, !.pending = pending]
      /\ poll' = poll /\ told' = told /\ content' = content /\ named' = named /\ age' = age
  BY DEF OpenTail, fileVars, paneVars
<1>2. told = <<>> /\ ~tail.blended /\ poll.pc = "rest" /\ n \in Nat
  BY <1>1, PaneFacts DEF IdleInv, TailAssumption
<1>3. poll.reads = 0 /\ ~poll.mixed
  BY <1>2 DEF TailInv, CursorInv, RestInv
<1>4. at \in Nat /\ sig \in Seq(Line) /\ pending \in Seq(Line)
      /\ Fits(content, named, age, told, named, pending, at)
      /\ sig = SigOf(told, pending, at)
  <2>1. CASE at = 0
    <3>1. sig = <<>> /\ pending = <<>> /\ <<>> \in Seq(Line)
      BY <2>1, EmptySeq
    <3>2. Fits(content, named, age, told, named, <<>>, 0)
      <4>1. Len(<<>>) = 0
        BY EmptySeq
      <4> QED
        BY <1>2, <4>1 DEF Fits, Some, Ordered, Behind
    <3> QED
      BY <2>1, <3>1, <3>2 DEF SigOf
  <2>2. CASE at # 0
    <3>1. named # NoInode /\ n # 0 /\ at = Len(content[named]) /\ content[named] # <<>>
      BY <2>2, EmptySeq
    <3>2. at \in Nat /\ sig = Signature(named, at) /\ pending = LastOf(content[named], n)
      BY <2>2, <3>1, PaneFacts
    <3>3. /\ pending \in Seq(Line)
          /\ Fits(content, named, age, told, named, pending, at)
          /\ sig = SigOf(told, pending, at)
      BY <1>2, <3>1, <3>2, PreloadFits
    <3>4. sig \in Seq(Line)
      <4>1. Some(told, pending)
        BY <2>2, <3>1, <3>2, <3>3, PaneFacts DEF Fits
      <4>2. EndOf(told, pending) \in Line
        BY <3>3, <4>1, EndFacts, PaneFacts
      <4> QED
        <5>1. sig = <<EndOf(told, pending)>>
          BY <2>2, <3>3 DEF SigOf
        <5> HIDE DEF sig, pending
        <5> QED
          BY <4>2, <5>1
    <3> QED
      BY <3>2, <3>3, <3>4
  <2> QED
    BY <2>1, <2>2
<1> HIDE DEF at, sig, pending
<1>5. /\ tail' \in TailState /\ tail'.task = "runs" /\ tail'.open = named /\ tail'.id = named
      /\ tail'.offset = at /\ tail'.sig = sig /\ tail'.pending = pending
      /\ tail'.blended = FALSE
  <2>1. Fresh(named, named) \in TailState
    BY PaneFacts, EmptySeq DEF Fresh, TailState
  <2> QED
    BY <1>1, <1>4, <2>1 DEF Fresh, TailState
<1>6. TailTypeOK' /\ FileInv' /\ IdleInv'
  BY <1>1, <1>2, <1>5, PaneFacts DEF TailTypeOK, FileInv, IdleInv
<1>7. CursorInv'
  BY <1>1, <1>2, <1>3, <1>4, <1>5 DEF CursorInv, RestInv, JudgeInv, ReadInv
<1> QED
  BY <1>6, <1>7 DEF TailInv

LEMMA TailInitInv ==
    ASSUME TailInit
    PROVE  TailInv
<1>1. <<>> \in Seq(Line) /\ Len(<<>>) = 0
  BY EmptySeq
<1>2. /\ content = [i \in Inodes |-> <<>>] /\ named = age /\ age \in {0, 1}
      /\ tail = [Fresh(NoInode, NoInode) EXCEPT !.task = "none"]
      /\ poll = AtRest /\ told = <<>>
  BY DEF TailInit
<1>3. /\ tail = [task |-> "none", open |-> NoInode, id |-> NoInode, offset |-> 0, sig |-> <<>>,
                  pending |-> <<>>, carry |-> 0, marker |-> FALSE, blended |-> FALSE]
      /\ tail \in TailState
  BY <1>1, <1>2 DEF Fresh, TailState
<1>4. poll \in PollState /\ poll.pc = "rest" /\ poll.reads = 0 /\ poll.mixed = FALSE
  BY <1>1, <1>2 DEF AtRest, PollState
<1>5. TailTypeOK
  BY <1>1, <1>2, <1>3, <1>4 DEF TailTypeOK, Inodes, NoInode, TailAssumption
<1>6. FileInv
  BY <1>1, <1>2 DEF FileInv
<1>7. IdleInv
  BY <1>2, <1>3, <1>4 DEF IdleInv
<1>8. Fits(content, named, age, told, tail.open, tail.pending, tail.offset)
  BY <1>1, <1>2, <1>3 DEF Fits, Some, Ordered, Behind
<1>9. CursorInv
  BY <1>3, <1>4, <1>8 DEF CursorInv, RestInv, JudgeInv, ReadInv
<1> QED
  BY <1>5, <1>6, <1>7, <1>9 DEF TailInv

LEMMA TailNextInv ==
    ASSUME TailInv, [TailNext]_tailVars
    PROVE  TailInv'
<1>1. CASE WriterStep
  BY <1>1, WriterKeepsTail
<1>2. CASE \E n \in Preloads : OpenTail(n)
  BY <1>2, OpenKeepsTail
<1>3. CASE Stat
  BY <1>3, StatKeepsTail
<1>4. CASE CheckContinuity
  BY <1>4, CheckKeepsTail
<1>5. CASE Reopen
  BY <1>5, ReopenKeepsTail
<1>6. CASE ReadChunk
  BY <1>6, ReadKeepsTail
<1>7. CASE EndRead
  BY <1>7, EndReadKeepsTail
<1>8. CASE StopTail
  BY <1>8, StopKeepsTail
<1>9. CASE UNCHANGED tailVars
  <2>1. /\ tail' = tail /\ poll' = poll /\ told' = told
        /\ content' = content /\ named' = named /\ age' = age
    BY <1>9 DEF tailVars, fileVars, paneVars
  <2>2. TailTypeOK' /\ FileInv' /\ IdleInv'
    BY <2>1, PaneFacts DEF TailTypeOK, FileInv, IdleInv
  <2>3. ~tail.blended => CursorInv'
    BY <2>1 DEF TailInv, CursorInv, RestInv, JudgeInv, ReadInv, Clean, Sure, Signature
  <2> QED
    BY <2>1, <2>2, <2>3 DEF TailInv
<1> QED
  BY <1>1, <1>2, <1>3, <1>4, <1>5, <1>6, <1>7, <1>8, <1>9 DEF TailNext, PollStep

(* Whatever the writer does between two system calls of a poll, the lines  *)
(* sent to a pane skip none and repeat none, but for the one rewrite that  *)
(* logs.rs has no signature to tell by.                                    *)
THEOREM LinesAreInOrder == TailSpec => []LinesInOrder
<1>1. TailInit => TailInv
  BY TailInitInv
<1>2. TailInv /\ [TailNext]_tailVars => TailInv'
  BY TailNextInv
<1>3. TailInv => LinesInOrder
  <2> SUFFICES ASSUME TailInv, ~tail.blended
               PROVE  \A i \in 1 .. Len(told) - 1 : Follows(told[i], told[i + 1])
    BY DEF LinesInOrder
  <2> QED
    BY DEF TailInv, CursorInv, RestInv, ReadInv, Fits, Ordered
<1> QED
  BY <1>1, <1>2, <1>3, PTL DEF TailSpec

HIDE TailAssumption

-----------------------------------------------------------------------------
(* A tool that was cancelled, or a probe that was cut, for any number of   *)
(* descendants.  The last signal before the call returns is a SIGKILL to   *)
(* the group, or finds nobody in it, and a process joins the group only    *)
(* from within.                                                            *)
ProcState == [state : {"unborn", "alive", "dying", "gone"}, group : BOOLEAN, stubborn : BOOLEAN,
              holds : BOOLEAN]
JobPCs == {"spawn", "wait", "drain", "grace", "reap", "poll", "drainKilled", "drainAgain", "done"}

GroupDead == \A p \in Members : ~(Alive(p) /\ proc[p].group)

ChildInv ==
    /\ proc \in [Members -> ProcState]
    /\ job \in [mode : Modes, pc : JobPCs, result : {"none", "ok", "cancelled", "timeout"}]
    /\ job.pc # "done" => job.result = "none"
    /\ job.pc = "spawn" => job.result = "none"
    /\ Cancelled \/ job.result \in {"cancelled", "timeout"} => GroupDead

(* A SIGKILL to the group.                                                 *)
LEMMA KilledFacts ==
    ASSUME proc \in [Members -> ProcState], NEW sig \in {"TERM", "KILL"}, proc' = Signalled(sig)
    PROVE  proc' \in [Members -> ProcState] /\ (sig = "KILL" => GroupDead')
<1>1. ASSUME NEW p \in Members
      PROVE  /\ proc'[p] \in ProcState
             /\ sig = "KILL" => ~(proc'[p].state = "alive" /\ proc'[p].group)
  <2>1. proc'[p] = IF Alive(p) /\ proc[p].group /\ (sig = "TERM" => ~proc[p].stubborn)
                   THEN [proc[p] EXCEPT !.state = "dying"] ELSE proc[p]
    BY DEF Signalled
  <2>2. proc[p] \in ProcState
    OBVIOUS
  <2> QED
    BY <2>1, <2>2 DEF ProcState, Alive
<1>2. proc' = [p \in Members |-> proc'[p]]
  BY DEF Signalled
<1> QED
  BY <1>1, <1>2 DEF GroupDead, Alive

(* Where the call goes on, or what it returns.                             *)
LEMMA JobFacts ==
    ASSUME ChildInv,
           NEW pc \in JobPCs, NEW result \in {"ok", "cancelled", "timeout"}
    PROVE  /\ JobTo(pc) => /\ job' \in [mode : Modes, pc : JobPCs,
                                        result : {"none", "ok", "cancelled", "timeout"}]
                           /\ job'.pc = pc /\ job'.result = job.result
           /\ ReturnWith(result) => /\ job' \in [mode : Modes, pc : JobPCs,
                                                 result : {"none", "ok", "cancelled", "timeout"}]
                                    /\ job'.pc = "done" /\ job'.result = result
  BY DEF JobTo, ReturnWith, ChildInv, JobPCs

(* Every step.                                                             *)
LEMMA ChildNextInv == ChildInv /\ [ChildNext]_childVars => ChildInv'
<1> SUFFICES ASSUME ChildInv, [ChildNext]_childVars PROVE ChildInv'
  OBVIOUS
<1>1. /\ proc \in [Members -> ProcState]
      /\ job \in [mode : Modes, pc : JobPCs, result : {"none", "ok", "cancelled", "timeout"}]
  BY DEF ChildInv
<1>2. CASE UNCHANGED childVars
  BY <1>2 DEF childVars, ChildInv, Cancelled, GroupDead, Alive
<1>3. CASE Spawn
  <2>1. proc' \in [Members -> ProcState]
    BY <1>1, <1>3 DEF Spawn, ProcState, Members
  <2>2. /\ job' \in [mode : Modes, pc : JobPCs, result : {"none", "ok", "cancelled", "timeout"}]
        /\ job'.pc = "wait" /\ job'.result = "none"
    BY <1>1, <1>3 DEF Spawn, JobTo, JobPCs, ChildInv
  <2> QED
    BY <2>1, <2>2 DEF ChildInv, Cancelled
<1>4. CASE Waited \/ ReapInGrace \/ Reap
  <2>1. UNCHANGED proc /\ (JobTo("drain") \/ JobTo("poll")) /\ job.pc # "done"
    BY <1>4 DEF Waited, ReapInGrace, Reap
  <2>2. /\ job' \in [mode : Modes, pc : JobPCs, result : {"none", "ok", "cancelled", "timeout"}]
        /\ job'.pc \in {"drain", "poll"} /\ job'.result = "none"
    BY <1>1, <2>1 DEF JobTo, JobPCs, ChildInv
  <2> QED
    BY <1>1, <2>1, <2>2 DEF ChildInv, Cancelled
<1>5. CASE SeeCancel \/ GraceOver
  <2>1. /\ proc' = Signalled("TERM") \/ proc' = Signalled("KILL")
        /\ JobTo("grace") \/ JobTo("reap")
        /\ job.pc # "done"
    BY <1>5 DEF SeeCancel, GraceOver
  <2>2. proc' \in [Members -> ProcState]
    BY <1>1, <2>1, KilledFacts
  <2>3. /\ job' \in [mode : Modes, pc : JobPCs, result : {"none", "ok", "cancelled", "timeout"}]
        /\ job'.pc \in {"grace", "reap"} /\ job'.result = "none"
    BY <1>1, <2>1 DEF JobTo, JobPCs, ChildInv
  <2> QED
    BY <2>2, <2>3 DEF ChildInv, Cancelled
<1>6. CASE PollGroup
  <2>1. /\ proc' = IF GroupAlive THEN Signalled("KILL") ELSE proc
        /\ JobTo("drainKilled") /\ job.pc = "poll"
    BY <1>6 DEF PollGroup
  <2>2. proc' \in [Members -> ProcState] /\ GroupDead'
    <3>1. CASE GroupAlive
      BY <1>1, <2>1, <3>1, KilledFacts
    <3>2. CASE ~GroupAlive
      BY <1>1, <2>1, <3>2 DEF GroupAlive, Remains, GroupDead, Alive
    <3> QED
      BY <3>1, <3>2
  <2>3. /\ job' \in [mode : Modes, pc : JobPCs, result : {"none", "ok", "cancelled", "timeout"}]
        /\ job'.pc = "drainKilled" /\ job'.result = "none"
    BY <1>1, <2>1 DEF JobTo, JobPCs, ChildInv
  <2> QED
    BY <2>2, <2>3 DEF ChildInv
<1>7. CASE PumpsDrained
  <2>1. /\ UNCHANGED proc /\ ReturnWith(IF Cancelled THEN "cancelled" ELSE "ok")
    BY <1>7 DEF PumpsDrained
  <2>2. CASE Cancelled
    BY <1>1, <2>1, <2>2, JobFacts DEF ChildInv, GroupDead, Alive, JobPCs
  <2>3. CASE ~Cancelled
    <3>1. /\ job' \in [mode : Modes, pc : JobPCs, result : {"none", "ok", "cancelled", "timeout"}]
          /\ job'.pc = "done" /\ job'.result = "ok"
      BY <1>1, <2>1, <2>3 DEF ReturnWith, JobPCs
    <3> QED
      BY <1>1, <2>1, <3>1 DEF ChildInv, Cancelled
  <2> QED
    BY <2>2, <2>3
<1>8. CASE DrainOver
  <2>1. CASE job.pc = "drainKilled"
    <3>1. proc' = Signalled("KILL") /\ JobTo("drainAgain")
      BY <1>8, <2>1 DEF DrainOver
    <3>2. proc' \in [Members -> ProcState] /\ GroupDead'
      BY <1>1, <3>1, KilledFacts
    <3>3. /\ job' \in [mode : Modes, pc : JobPCs, result : {"none", "ok", "cancelled", "timeout"}]
          /\ job'.pc = "drainAgain" /\ job'.result = "none"
      BY <1>1, <2>1, <3>1 DEF JobTo, JobPCs, ChildInv
    <3> QED
      BY <3>2, <3>3 DEF ChildInv
  <2>2. CASE job.pc # "drainKilled"
    <3>1. UNCHANGED proc /\ ReturnWith(IF Cancelled THEN "cancelled" ELSE "ok")
      BY <1>8, <2>2 DEF DrainOver
    <3>2. CASE Cancelled
      BY <1>1, <3>1, <3>2, JobFacts DEF ChildInv, GroupDead, Alive, JobPCs
    <3>3. CASE ~Cancelled
      <4>1. /\ job' \in [mode : Modes, pc : JobPCs, result : {"none", "ok", "cancelled", "timeout"}]
            /\ job'.pc = "done" /\ job'.result = "ok"
        BY <1>1, <3>1, <3>3 DEF ReturnWith, JobPCs
      <4> QED
        BY <1>1, <3>1, <4>1 DEF ChildInv, Cancelled
    <3> QED
      BY <3>2, <3>3
  <2> QED
    BY <2>1, <2>2
<1>9. CASE ProbeAnswers
  <2>1. UNCHANGED proc /\ ReturnWith("ok")
    BY <1>9 DEF ProbeAnswers
  <2>2. /\ job' \in [mode : Modes, pc : JobPCs, result : {"none", "ok", "cancelled", "timeout"}]
        /\ job'.pc = "done" /\ job'.result = "ok"
    BY <1>1, <2>1 DEF ReturnWith, JobPCs
  <2> QED
    BY <1>1, <2>1, <2>2 DEF ChildInv, Cancelled
<1>10. CASE ProbeCut
  <2>1. proc' = Signalled("KILL") /\ (ReturnWith("cancelled") \/ ReturnWith("timeout"))
    BY <1>10 DEF ProbeCut
  <2>2. proc' \in [Members -> ProcState] /\ GroupDead'
    BY <1>1, <2>1, KilledFacts
  <2>3. /\ job' \in [mode : Modes, pc : JobPCs, result : {"none", "ok", "cancelled", "timeout"}]
        /\ job'.pc = "done"
    BY <1>1, <2>1 DEF ReturnWith, JobPCs
  <2> QED
    BY <2>2, <2>3 DEF ChildInv
<1>11. CASE PumpStep \/ Fire \/ \E p \in Members : \E b \in Bytes : PrintByte(p, b)
  <2>1. UNCHANGED <<proc, job>>
    BY <1>11 DEF PumpStep, Fire, PrintByte
  <2> QED
    BY <2>1 DEF ChildInv, Cancelled, GroupDead, Alive
<1>12. ASSUME NEW p \in Members, ExitByItself(p) \/ DieOfSignal(p)
       PROVE  ChildInv'
  <2>1. proc' = [proc EXCEPT ![p].state = "gone"] /\ UNCHANGED job
    BY <1>12 DEF ExitByItself, DieOfSignal, Ends
  <2>2. proc' \in [Members -> ProcState]
    BY <1>1, <2>1 DEF ProcState
  <2>3. GroupDead => GroupDead'
    BY <1>1, <2>1 DEF GroupDead, Alive
  <2> QED
    BY <2>1, <2>2, <2>3 DEF ChildInv, Cancelled
<1>13. ASSUME NEW p \in Members, NEW k \in Kids, ForkKid(p, k)
       PROVE  ChildInv'
  <2>1. PICK g \in BOOLEAN, h \in BOOLEAN, s \in BOOLEAN :
           /\ g => proc[p].group
           /\ proc' = [proc EXCEPT ![k] = [state |-> "alive", group |-> g,
                                           stubborn |-> s, holds |-> h]]
    BY <1>13 DEF ForkKid
  <2>2. UNCHANGED job /\ Alive(p) /\ k \in Members
    BY <1>13 DEF ForkKid, Members
  <2>3. proc' \in [Members -> ProcState]
    BY <1>1, <2>1, <2>2 DEF ProcState
  <2>4. GroupDead => GroupDead'
    BY <1>1, <2>1, <2>2 DEF GroupDead, Alive
  <2> QED
    BY <2>2, <2>3, <2>4 DEF ChildInv, Cancelled
<1> QED
  BY <1>2, <1>3, <1>4, <1>5, <1>6, <1>7, <1>8, <1>9, <1>10, <1>11, <1>12, <1>13
  DEF ChildNext, JobStep

(* A cancel is the end of every process of the tool's group, whoever of    *)
(* them ignores SIGTERM or outlives the leader (process.rs).               *)
THEOREM CancelKillsTheGroup == ChildSpec => []CancelledGroupIsDead
<1>1. ChildInit => ChildInv
  BY DEF ChildInit, ChildInv, Unborn, ProcState, JobPCs, Cancelled
<1>2. ChildInv => CancelledGroupIsDead
  BY DEF ChildInv, CancelledGroupIsDead, GroupDead
<1> QED
  BY <1>1, <1>2, ChildNextInv, PTL DEF ChildSpec

-----------------------------------------------------------------------------
(* What the sink got, for any number of bytes.  The cuts that no later     *)
(* byte can move are listed in order by some sequence e; the pump has sunk *)
(* the piece before each of them and holds the letters after the last.     *)
Settled(s, n) ==
    {i \in 1 .. n : s[i] = "lf" \/ (s[i] = "cr" /\ i < n /\ s[i + 1] # "lf")}

Cutting(e, C) ==
    /\ e \in Seq(Nat \ {0})
    /\ \A k \in 1 .. Len(e) : e[k] \in C
    /\ \A i \in C : \E k \in 1 .. Len(e) : e[k] = i
    /\ \A j, k \in 1 .. Len(e) : j < k => e[j] < e[k]

LastCut(e) == IF e = <<>> THEN 0 ELSE e[Len(e)]

CutBefore(e, k) == IF k = 1 THEN 0 ELSE e[k - 1]

PieceOf(s, from, to) == Chunk(LettersUpTo(s, to) - LettersUpTo(s, from), s[to])

Sinks(e, sunk, s) ==
    /\ Len(sunk) = Len(e)
    /\ \A k \in 1 .. Len(e) : sunk[k] = PieceOf(s, CutBefore(e, k), e[k])

(* Letters are counted byte by byte, and only those that are there.        *)
LEMMA LettersFacts ==
    ASSUME NEW s \in Seq(Bytes), NEW n \in Nat
    PROVE  /\ LettersUpTo(s, n) \in Nat
           /\ LettersUpTo(s, 0) = 0
           /\ LettersUpTo(s, n + 1) = LettersUpTo(s, n) + (IF s[n + 1] = "x" THEN 1 ELSE 0)
<1> DEFINE X(m) == {j \in 1 .. m : s[j] = "x"}
<1>1. \A m \in Nat : IsFiniteSet(X(m))
  <2>1. \A m \in Nat : IsFiniteSet(1 .. m)
    BY FS_Interval
  <2> QED
    BY <2>1, FS_Subset
<1>2. LettersUpTo(s, n) \in Nat
  BY <1>1, FS_CardinalityType DEF LettersUpTo
<1>3. LettersUpTo(s, 0) = 0
  <2>1. X(0) = {}
    OBVIOUS
  <2> QED
    BY <2>1, FS_EmptySet DEF LettersUpTo
<1>4. LettersUpTo(s, n + 1) = LettersUpTo(s, n) + (IF s[n + 1] = "x" THEN 1 ELSE 0)
  <2>1. CASE s[n + 1] = "x"
    <3>1. X(n + 1) = X(n) \cup {n + 1} /\ n + 1 \notin X(n)
      BY <2>1
    <3>2. Cardinality(X(n) \cup {n + 1}) = Cardinality(X(n)) + 1
      <4> HIDE DEF X
      <4> QED
        BY <1>1, <3>1, FS_AddElement
    <3> QED
      BY <2>1, <3>1, <3>2 DEF LettersUpTo
  <2>2. CASE s[n + 1] # "x"
    <3>1. X(n + 1) = X(n)
      BY <2>2
    <3>2. LettersUpTo(s, n + 1) = LettersUpTo(s, n)
      BY <3>1 DEF LettersUpTo
    <3> QED
      BY <1>2, <2>2, <3>2
  <2> QED
    BY <2>1, <2>2
<1> QED
  BY <1>2, <1>3, <1>4

(* A byte that comes later changes no count and no cut that is settled.    *)
LEMMA LaterBytes ==
    ASSUME NEW s \in Seq(Bytes), NEW b \in Bytes, NEW n \in 0 .. Len(s)
    PROVE  /\ LettersUpTo(Append(s, b), n) = LettersUpTo(s, n)
           /\ Settled(Append(s, b), n) = Settled(s, n)
<1>1. \A j \in 1 .. n : Append(s, b)[j] = s[j]
  OBVIOUS
<1>2. {j \in 1 .. n : Append(s, b)[j] = "x"} = {j \in 1 .. n : s[j] = "x"}
  BY <1>1
<1>3. ASSUME NEW i \in 1 .. n
      PROVE  (Append(s, b)[i] = "lf" \/ (Append(s, b)[i] = "cr" /\ i < n /\ Append(s, b)[i + 1] # "lf"))
               <=> (s[i] = "lf" \/ (s[i] = "cr" /\ i < n /\ s[i + 1] # "lf"))
  <2>1. i < n => i + 1 \in 1 .. n
    OBVIOUS
  <2> QED
    BY <1>1, <2>1
<1> QED
  BY <1>2, <1>3 DEF LettersUpTo, Settled

(* The settled cuts with one byte more.                                    *)
LEMMA SettledFacts ==
    ASSUME NEW s \in Seq(Bytes), NEW n \in Nat, n < Len(s)
    PROVE  /\ Settled(s, 0) = {}
           /\ n > 0 /\ s[n] = "cr" /\ s[n + 1] = "lf" => Settled(s, n + 1) = Settled(s, n) \cup {n + 1}
           /\ n > 0 /\ s[n] = "cr" /\ s[n + 1] # "lf" => Settled(s, n + 1) = Settled(s, n) \cup {n}
           /\ ~(n > 0 /\ s[n] = "cr") /\ s[n + 1] = "lf" => Settled(s, n + 1) = Settled(s, n) \cup {n + 1}
           /\ ~(n > 0 /\ s[n] = "cr") /\ s[n + 1] # "lf" => Settled(s, n + 1) = Settled(s, n)
<1>1. Settled(s, 0) = {}
  BY DEF Settled
<1>2. \A i \in 1 .. n - 1 : i \in Settled(s, n + 1) <=> i \in Settled(s, n)
  BY DEF Settled
<1>3. n > 0 => /\ n \in Settled(s, n + 1) <=> (s[n] = "lf" \/ (s[n] = "cr" /\ s[n + 1] # "lf"))
               /\ n \in Settled(s, n) <=> s[n] = "lf"
  BY DEF Settled
<1>4. /\ n + 1 \in Settled(s, n + 1) <=> s[n + 1] = "lf"
      /\ n + 1 \notin Settled(s, n)
  BY DEF Settled
<1>5. Settled(s, n) \subseteq 1 .. n /\ Settled(s, n + 1) \subseteq 1 .. n + 1
  BY DEF Settled
<1>6. \A i \in 1 .. n + 1 : i \in 1 .. n - 1 \/ (i = n /\ n > 0) \/ i = n + 1
  OBVIOUS
<1> HIDE DEF Settled
<1>7. CASE n > 0 /\ s[n] = "cr"
  <2>1. n \in Settled(s, n + 1) <=> s[n + 1] # "lf"
    BY <1>3, <1>7
  <2>2. n \notin Settled(s, n)
    BY <1>3, <1>7
  <2>3. s[n + 1] = "lf" => Settled(s, n + 1) = Settled(s, n) \cup {n + 1}
    BY <1>2, <1>4, <1>5, <1>6, <2>1, <2>2
  <2>4. s[n + 1] # "lf" => Settled(s, n + 1) = Settled(s, n) \cup {n}
    BY <1>2, <1>4, <1>5, <1>6, <2>1, <2>2
  <2> QED
    BY <1>1, <1>7, <2>3, <2>4
<1>8. CASE ~(n > 0 /\ s[n] = "cr")
  <2>1. n > 0 => (n \in Settled(s, n + 1) <=> n \in Settled(s, n))
    BY <1>3, <1>8
  <2>2. s[n + 1] = "lf" => Settled(s, n + 1) = Settled(s, n) \cup {n + 1}
    BY <1>2, <1>4, <1>5, <1>6, <2>1
  <2>3. s[n + 1] # "lf" => Settled(s, n + 1) = Settled(s, n)
    <3>1. s[n + 1] # "lf" => \A i \in 1 .. n + 1 : i \in Settled(s, n + 1) <=> i \in Settled(s, n)
      BY <1>2, <1>4, <1>6, <2>1
    <3>2. 1 .. n \subseteq 1 .. n + 1
      OBVIOUS
    <3> QED
      BY <1>5, <3>1, <3>2
  <2> QED
    BY <1>1, <1>8, <2>2, <2>3
<1> QED
  BY <1>7, <1>8

(* All the cuts of a stream are settled, but for a CR it ends with.        *)
LEMMA CutsFacts ==
    ASSUME NEW s \in Seq(Bytes), NEW n \in 0 .. Len(s)
    PROVE  /\ Cuts(s) \subseteq 1 .. Len(s)
           /\ Settled(s, n) \subseteq Cuts(s)
           /\ \A i \in Settled(s, n), j \in Cuts(s) : j <= i => j \in Settled(s, n)
           /\ Cuts(s) = IF Len(s) > 0 /\ s[Len(s)] = "cr" THEN Settled(s, Len(s)) \cup {Len(s)}
                        ELSE Settled(s, Len(s))
<1>1. Cuts(s) \subseteq 1 .. Len(s) /\ Settled(s, n) \subseteq Cuts(s)
  BY DEF Cuts, Settled
<1>2. \A i \in Settled(s, n), j \in Cuts(s) : j <= i => j \in Settled(s, n)
  <2> SUFFICES ASSUME NEW i \in Settled(s, n), NEW j \in Cuts(s), j <= i
               PROVE  j \in Settled(s, n)
    OBVIOUS
  <2>1. CASE j = i
    BY <2>1
  <2>2. CASE j < i
    <3>1. i \in 1 .. n /\ j \in 1 .. n /\ j < n
      BY <2>2 DEF Settled, Cuts
    <3>2. s[j] = "lf" \/ (s[j] = "cr" /\ s[j + 1] # "lf")
      BY <3>1 DEF Cuts
    <3> QED
      BY <3>1, <3>2 DEF Settled
  <2>3. i \in Nat /\ j \in Nat
    BY DEF Settled, Cuts
  <2> QED
    BY <2>1, <2>2, <2>3
<1>3. Cuts(s) = IF Len(s) > 0 /\ s[Len(s)] = "cr" THEN Settled(s, Len(s)) \cup {Len(s)}
                ELSE Settled(s, Len(s))
  BY DEF Cuts, Settled
<1> QED
  BY <1>1, <1>2, <1>3

(* A list of cuts with one cut more, behind the others.                    *)
LEMMA CutMore ==
    ASSUME NEW e, NEW C, Cutting(e, C), NEW i \in Nat \ {0}, \A j \in C : j < i
    PROVE  Cutting(Append(e, i), C \cup {i})
<1>1. /\ e \in Seq(Nat \ {0}) /\ Append(e, i) \in Seq(Nat \ {0})
      /\ Len(Append(e, i)) = Len(e) + 1 /\ Append(e, i)[Len(e) + 1] = i
      /\ \A k \in 1 .. Len(e) : Append(e, i)[k] = e[k]
  BY DEF Cutting
<1>2. \A k \in 1 .. Len(e) + 1 : k \in 1 .. Len(e) \/ k = Len(e) + 1
  BY <1>1
<1>3. \A k \in 1 .. Len(e) + 1 : Append(e, i)[k] \in C \cup {i}
  BY <1>1, <1>2 DEF Cutting
<1>4. \A c \in C \cup {i} : \E k \in 1 .. Len(e) + 1 : Append(e, i)[k] = c
  <2>1. \A c \in C : \E k \in 1 .. Len(e) : Append(e, i)[k] = c
    BY <1>1 DEF Cutting
  <2>2. Len(e) + 1 \in 1 .. Len(e) + 1 /\ 1 .. Len(e) \subseteq 1 .. Len(e) + 1
    BY <1>1
  <2> QED
    BY <1>1, <2>1, <2>2
<1>5. \A j, k \in 1 .. Len(e) + 1 : j < k => Append(e, i)[j] < Append(e, i)[k]
  <2> SUFFICES ASSUME NEW j \in 1 .. Len(e) + 1, NEW k \in 1 .. Len(e) + 1, j < k
               PROVE  Append(e, i)[j] < Append(e, i)[k]
    OBVIOUS
  <2>1. j \in 1 .. Len(e)
    BY <1>1
  <2>2. Append(e, i)[j] = e[j] /\ e[j] \in C /\ e[j] < i
    BY <1>1, <2>1 DEF Cutting
  <2>3. CASE k \in 1 .. Len(e)
    BY <1>1, <2>1, <2>2, <2>3 DEF Cutting
  <2>4. CASE k = Len(e) + 1
    BY <1>1, <2>2, <2>4
  <2> QED
    BY <1>2, <2>3, <2>4
<1> QED
  BY <1>1, <1>3, <1>4, <1>5 DEF Cutting

(* The pieces with one piece more.                                         *)
LEMMA SinkMore ==
    ASSUME NEW e \in Seq(Nat \ {0}), NEW S, NEW sunk \in Seq(S), NEW s, NEW i \in Nat \ {0},
           Sinks(e, sunk, s), PieceOf(s, LastCut(e), i) \in S
    PROVE  Sinks(Append(e, i), Append(sunk, PieceOf(s, LastCut(e), i)), s)
<1> DEFINE p == PieceOf(s, LastCut(e), i)
<1>1. /\ Len(Append(e, i)) = Len(e) + 1 /\ Append(e, i)[Len(e) + 1] = i
      /\ \A k \in 1 .. Len(e) : Append(e, i)[k] = e[k]
      /\ Len(e) \in Nat
  OBVIOUS
<1>2. Len(sunk) = Len(e) /\ \A k \in 1 .. Len(e) : sunk[k] = PieceOf(s, CutBefore(e, k), e[k])
  BY DEF Sinks
<1>3. /\ Len(Append(sunk, p)) = Len(e) + 1 /\ Append(sunk, p)[Len(e) + 1] = p
      /\ \A k \in 1 .. Len(e) : Append(sunk, p)[k] = sunk[k]
  <2> HIDE DEF p
  <2> QED
    BY <1>2
<1>4. ASSUME NEW k \in 1 .. Len(e)
      PROVE  Append(sunk, p)[k] = PieceOf(s, CutBefore(Append(e, i), k), Append(e, i)[k])
  <2>1. CutBefore(Append(e, i), k) = CutBefore(e, k)
    <3>1. k # 1 => k - 1 \in 1 .. Len(e)
      OBVIOUS
    <3> QED
      BY <1>1, <3>1 DEF CutBefore
  <2> QED
    BY <1>1, <1>2, <1>3, <2>1
<1>5. CutBefore(Append(e, i), Len(e) + 1) = LastCut(e)
  <2>1. e = <<>> <=> Len(e) = 0
    OBVIOUS
  <2>2. Len(e) # 0 => Len(e) \in 1 .. Len(e)
    BY <1>1
  <2> QED
    BY <1>1, <2>1, <2>2 DEF CutBefore, LastCut
<1>6. \A k \in 1 .. Len(e) + 1 : k \in 1 .. Len(e) \/ k = Len(e) + 1
  BY <1>1
<1> QED
  BY <1>1, <1>3, <1>4, <1>5, <1>6 DEF Sinks

(* What was sunk stays right when more is printed.                         *)
LEMMA SinksLater ==
    ASSUME NEW s \in Seq(Bytes), NEW b \in Bytes, NEW e, NEW sunk, NEW C,
           Cutting(e, C), C \subseteq 1 .. Len(s), Sinks(e, sunk, s)
    PROVE  Sinks(e, sunk, Append(s, b))
<1>1. ASSUME NEW k \in 1 .. Len(e)
      PROVE  PieceOf(Append(s, b), CutBefore(e, k), e[k]) = PieceOf(s, CutBefore(e, k), e[k])
  <2>1. e[k] \in 1 .. Len(s)
    BY DEF Cutting
  <2>2. CutBefore(e, k) \in 0 .. Len(s)
    <3>1. Len(e) \in Nat
      BY DEF Cutting
    <3>2. k # 1 => k - 1 \in 1 .. Len(e)
      BY <3>1
    <3> QED
      BY <3>2 DEF CutBefore, Cutting
  <2>3. e[k] \in 0 .. Len(s) /\ Append(s, b)[e[k]] = s[e[k]]
    BY <2>1
  <2> QED
    BY <2>2, <2>3, LaterBytes DEF PieceOf
<1> QED
  BY <1>1 DEF Sinks

(* The k-th of the cuts that are listed has k cuts up to itself.           *)
LEMMA CountCuts ==
    ASSUME NEW e, NEW C, Cutting(e, C), NEW D \in SUBSET Nat, C \subseteq D,
           \A i \in C, j \in D : j <= i => j \in C,
           NEW k \in 1 .. Len(e)
    PROVE  Cardinality({j \in D : j <= e[k]}) = k
<1> DEFINE T == {j \in D : j <= e[k]}
           f == [m \in 1 .. k |-> e[m]]
<1>1. Len(e) \in Nat /\ \A m \in 1 .. Len(e) : e[m] \in Nat \ {0} /\ e[m] \in C
  BY DEF Cutting
<1>2. k \in Nat /\ 1 .. k \subseteq 1 .. Len(e)
  BY <1>1
<1>3. ASSUME NEW m \in 1 .. k PROVE e[m] \in T
  <2>1. m = k \/ m < k
    BY <1>2
  <2>2. e[m] <= e[k]
    BY <1>1, <1>2, <2>1 DEF Cutting
  <2> QED
    BY <1>1, <1>2, <2>2
<1>4. ASSUME NEW a \in 1 .. k, NEW b \in 1 .. k, e[a] = e[b] PROVE a = b
  <2>1. a < b \/ b < a \/ a = b
    BY <1>2
  <2>2. e[a] \in Nat /\ e[b] \in Nat
    BY <1>1, <1>2
  <2> QED
    BY <1>2, <1>4, <2>1, <2>2 DEF Cutting
<1>5. ASSUME NEW j \in T PROVE \E m \in 1 .. k : e[m] = j
  <2>1. j \in C /\ j \in Nat /\ j <= e[k]
    BY <1>1
  <2>2. PICK m \in 1 .. Len(e) : e[m] = j
    BY <2>1 DEF Cutting
  <2>3. ~(k < m)
    <3>1. k < m => e[k] < e[m]
      BY DEF Cutting
    <3> QED
      BY <1>1, <2>1, <2>2, <3>1
  <2> QED
    BY <1>1, <1>2, <2>2, <2>3
<1>6. f \in Bijection(1 .. k, T)
  <2>1. f \in [1 .. k -> T]
    BY <1>3
  <2> HIDE DEF T
  <2>2. f \in Injection(1 .. k, T)
    BY <2>1, <1>4 DEF Injection, IsInjective
  <2>3. f \in Surjection(1 .. k, T)
    BY <2>1, <1>5 DEF Surjection
  <2> QED
    BY <2>2, <2>3 DEF Bijection
<1>7. ExistsBijection(1 .. k, T)
  BY <1>6 DEF ExistsBijection
<1> HIDE DEF T
<1>8. Cardinality(T) = k
  BY <1>2, <1>7, FS_CountingElements
<1> QED
  BY <1>8 DEF T

(* The largest of a set of numbers.                                        *)
LEMMA MaxFacts ==
    ASSUME NEW S \in SUBSET Nat, NEW m \in S, \A x \in S : x <= m
    PROVE  FSets!Max(S) = m
<1> DEFINE P(x) == \A y \in S : x >= y
<1>1. \E x \in S : P(x)
  OBVIOUS
<1>2. FSets!Max(S) = CHOOSE x \in S : P(x)
  BY DEF FSets!Max
<1>3. FSets!Max(S) \in S /\ P(FSets!Max(S))
  <2> HIDE DEF P
  <2> QED
    BY <1>1, <1>2
<1>4. PICK n : n = FSets!Max(S)
  OBVIOUS
<1>5. n \in Nat /\ n >= m /\ n <= m
  BY <1>3, <1>4
<1> QED
  BY <1>4, <1>5

(* The cuts of the stream, one by one, where a list of the first of them   *)
(* is known: ChunksOf's own names for them.                                *)
CutUpTo(s, i) == {j \in Cuts(s) : j <= i}

NthCut(s, k) == CHOOSE i \in Cuts(s) : Cardinality({j \in Cuts(s) : j <= i}) = k

ChunkAt(s, i) == PieceOf(s, FSets!Max({j \in Cuts(s) : j < i} \cup {0}), i)

TailOf(s) == LettersUpTo(s, Len(s)) - LettersUpTo(s, FSets!Max(Cuts(s) \cup {0}))

LastChunk(s) == IF TailOf(s) > 0 THEN <<Chunk(TailOf(s), "eof")>> ELSE <<>>

LEMMA ChunksAre ==
    ASSUME NEW s
    PROVE  ChunksOf(s) = [k \in 1 .. Cardinality(Cuts(s)) |-> ChunkAt(s, NthCut(s, k))] \o LastChunk(s)
  BY DEF ChunksOf, ChunkAt, NthCut, TailOf, LastChunk, PieceOf

LEMMA CutFacts ==
    ASSUME NEW s \in Seq(Bytes), NEW e, NEW C, Cutting(e, C), C \subseteq Cuts(s),
           \A i \in C, j \in Cuts(s) : j <= i => j \in C
    PROVE  /\ IsFiniteSet(Cuts(s)) /\ Cardinality(Cuts(s)) \in Nat
           /\ Len(e) <= Cardinality(Cuts(s))
           /\ C = Cuts(s) => Len(e) = Cardinality(Cuts(s)) /\ FSets!Max(Cuts(s) \cup {0}) = LastCut(e)
           /\ \A k \in 1 .. Len(e) : NthCut(s, k) = e[k] /\ ChunkAt(s, e[k]) = PieceOf(s, CutBefore(e, k), e[k])
<1>1. Cuts(s) \subseteq 1 .. Len(s) /\ Len(s) \in Nat /\ Cuts(s) \in SUBSET Nat
  BY DEF Cuts
<1>2. IsFiniteSet(Cuts(s)) /\ Cardinality(Cuts(s)) \in Nat
  <2>1. IsFiniteSet(1 .. Len(s))
    BY <1>1, FS_Interval
  <2> QED
    BY <1>1, <2>1, FS_Subset, FS_CardinalityType
<1>3. \A i : IsFiniteSet(CutUpTo(s, i)) /\ Cardinality(CutUpTo(s, i)) <= Cardinality(Cuts(s))
  BY <1>2, FS_Subset DEF CutUpTo
<1>4. \A k \in 1 .. Len(e) : Cardinality(CutUpTo(s, e[k])) = k
  BY <1>1, CountCuts DEF CutUpTo
<1>5. /\ Len(e) \in Nat
      /\ \A k \in 1 .. Len(e) : e[k] \in Nat \ {0} /\ e[k] \in C /\ e[k] \in Cuts(s)
  BY DEF Cutting
<1>6. Len(e) <= Cardinality(Cuts(s))
  <2>1. CASE Len(e) = 0
    BY <1>2, <2>1
  <2>2. CASE Len(e) # 0
    <3>1. Len(e) \in 1 .. Len(e)
      BY <1>5, <2>2
    <3> QED
      BY <1>3, <1>4, <3>1
  <2> QED
    BY <2>1, <2>2
<1>7. ASSUME NEW k \in 1 .. Len(e) PROVE NthCut(s, k) = e[k]
  <2> DEFINE Q(i) == Cardinality({j \in Cuts(s) : j <= i}) = k
  <2>1. e[k] \in Cuts(s) /\ Q(e[k])
    BY <1>4, <1>5 DEF CutUpTo
  <2>2. ASSUME NEW i \in Cuts(s), Q(i) PROVE i = e[k]
    <3>1. CutUpTo(s, i) \subseteq CutUpTo(s, e[k]) \/ CutUpTo(s, e[k]) \subseteq CutUpTo(s, i)
      BY <1>1, <1>5 DEF CutUpTo
    <3>2. Cardinality(CutUpTo(s, i)) = k /\ Cardinality(CutUpTo(s, e[k])) = k
      BY <2>2, <1>4 DEF CutUpTo
    <3>3. CutUpTo(s, i) = CutUpTo(s, e[k])
      BY <1>3, <3>1, <3>2, FS_Subset
    <3>4. i \in CutUpTo(s, i) /\ e[k] \in CutUpTo(s, e[k])
      BY <1>1, <1>5 DEF CutUpTo
    <3>5. i <= e[k] /\ e[k] <= i
      BY <3>3, <3>4 DEF CutUpTo
    <3> QED
      BY <1>1, <1>5, <3>5
  <2>3. NthCut(s, k) = CHOOSE i \in Cuts(s) : Q(i)
    BY DEF NthCut
  <2> HIDE DEF Q
  <2> QED
    BY <2>1, <2>2, <2>3
<1>8. ASSUME NEW k \in 1 .. Len(e) PROVE FSets!Max({j \in Cuts(s) : j < e[k]} \cup {0}) = CutBefore(e, k)
  <2> DEFINE B == {j \in Cuts(s) : j < e[k]} \cup {0}
  <2>1. B \in SUBSET Nat
    BY <1>1
  <2>2. \A j \in Cuts(s) : j < e[k] => \E m \in 1 .. Len(e) : e[m] = j /\ m < k
    <3> SUFFICES ASSUME NEW j \in Cuts(s), j < e[k]
                 PROVE  \E m \in 1 .. Len(e) : e[m] = j /\ m < k
      OBVIOUS
    <3>1. j \in C
      BY <1>1, <1>5
    <3>2. PICK m \in 1 .. Len(e) : e[m] = j
      BY <3>1 DEF Cutting
    <3>3. ~(k < m) /\ k # m
      <4>1. k < m => e[k] < e[m]
        BY DEF Cutting
      <4> QED
        BY <1>5, <3>2, <4>1
    <3> QED
      BY <3>2, <3>3
  <2>3. CASE k = 1
    <3>1. \A j \in B : j <= 0
      BY <2>2, <2>3
    <3> QED
      BY <2>1, <2>3, <3>1, MaxFacts DEF CutBefore
  <2>4. CASE k # 1
    <3>1. k - 1 \in 1 .. Len(e) /\ k - 1 < k /\ CutBefore(e, k) = e[k - 1]
      BY <1>5, <2>4 DEF CutBefore
    <3>2. e[k - 1] \in B
      BY <1>5, <3>1 DEF Cutting
    <3>3. ASSUME NEW j \in B PROVE j <= e[k - 1]
      <4>1. CASE j = 0
        BY <1>5, <3>1, <4>1
      <4>2. CASE j # 0
        <5>1. PICK m \in 1 .. Len(e) : e[m] = j /\ m < k
          BY <2>2, <4>2
        <5>2. m = k - 1 \/ m < k - 1
          BY <5>1
        <5>3. m < k - 1 => e[m] < e[k - 1]
          BY <3>1 DEF Cutting
        <5> QED
          BY <1>5, <3>1, <5>1, <5>2, <5>3
      <4> QED
        BY <4>1, <4>2
    <3> HIDE DEF B
    <3>4. FSets!Max(B) = e[k - 1]
      BY <2>1, <3>2, <3>3, MaxFacts
    <3> QED
      BY <3>1, <3>4 DEF B
  <2> QED
    BY <2>3, <2>4
<1>9. ASSUME C = Cuts(s)
      PROVE  Len(e) = Cardinality(Cuts(s)) /\ FSets!Max(Cuts(s) \cup {0}) = LastCut(e)
  <2>1. CASE Len(e) = 0
    <3>1. Cuts(s) = {} /\ e = <<>>
      BY <1>9, <2>1 DEF Cutting
    <3>2. FSets!Max({0}) = 0
      BY MaxFacts
    <3>3. Cuts(s) \cup {0} = {0}
      BY <3>1
    <3>4. Cardinality({}) = 0
      BY FS_EmptySet
    <3> QED
      BY <2>1, <3>1, <3>2, <3>3, <3>4 DEF LastCut
  <2>2. CASE Len(e) # 0
    <3> DEFINE n == Len(e)
    <3>1. n \in 1 .. n /\ LastCut(e) = e[n] /\ e[n] \in Cuts(s) \cup {0}
      BY <1>5, <2>2 DEF LastCut
    <3>2. ASSUME NEW j \in Cuts(s) PROVE j <= e[n]
      <4>1. PICK m \in 1 .. n : e[m] = j
        BY <1>9 DEF Cutting
      <4>2. m = n \/ m < n
        BY <1>5
      <4> QED
        BY <1>5, <3>1, <4>1, <4>2 DEF Cutting
    <3>3. CutUpTo(s, e[n]) = Cuts(s)
      BY <3>2 DEF CutUpTo
    <3>4. n = Cardinality(Cuts(s))
      BY <1>4, <3>1, <3>3
    <3>5. \A j \in Cuts(s) \cup {0} : j <= e[n]
      BY <1>5, <3>1, <3>2
    <3>6. FSets!Max(Cuts(s) \cup {0}) = e[n]
      BY <1>1, <3>1, <3>5, MaxFacts
    <3> QED
      BY <3>1, <3>4, <3>6
  <2> QED
    BY <2>1, <2>2
<1> QED
  BY <1>2, <1>6, <1>7, <1>8, <1>9 DEF ChunkAt

(* The pieces that were sunk are the first chunks of the stream; once all  *)
(* the cuts are listed, with the letters behind the last they are all.     *)
LEMMA SunkChunks ==
    ASSUME NEW s \in Seq(Bytes), NEW e, NEW C, Cutting(e, C), C \subseteq Cuts(s),
           \A i \in C, j \in Cuts(s) : j <= i => j \in C,
           NEW S, NEW sunk \in Seq(S), Sinks(e, sunk, s)
    PROVE  /\ Seqs!IsPrefix(sunk, ChunksOf(s))
           /\ C = Cuts(s) => /\ ChunksOf(s) = sunk \o LastChunk(s)
                             /\ TailOf(s) = LettersUpTo(s, Len(s)) - LettersUpTo(s, LastCut(e))
<1> DEFINE N == Cardinality(Cuts(s))
           f == [k \in 1 .. N |-> ChunkAt(s, NthCut(s, k))]
           t == LastChunk(s)
           T == {f[k] : k \in 1 .. N} \cup {t[k] : k \in 1 .. Len(t)}
<1>1. N \in Nat /\ Len(e) \in Nat /\ Len(e) <= N
  <2>1. Len(e) \in Nat
    BY DEF Cutting
  <2>2. Cardinality(Cuts(s)) \in Nat /\ Len(e) <= Cardinality(Cuts(s))
    BY CutFacts
  <2> QED
    BY <2>1, <2>2
<1>2. Len(sunk) = Len(e)
  BY DEF Sinks
<1>3. f \in Seq(T) /\ Len(f) = N
  <2>1. f \in [1 .. N -> T]
    OBVIOUS
  <2>2. DOMAIN f = 1 .. N
    OBVIOUS
  <2> HIDE DEF f, T, N
  <2>3. f \in Seq(T)
    BY <1>1, <2>1
  <2> QED
    BY <1>1, <2>2, <2>3
<1>4. t \in Seq(T)
  <2>1. t = <<>> \/ t = <<Chunk(TailOf(s), "eof")>>
    BY DEF LastChunk
  <2>2. CASE t = <<>>
    <3> HIDE DEF T
    <3> QED
      BY <2>2
  <2>3. CASE t = <<Chunk(TailOf(s), "eof")>>
    <3>1. Len(t) = 1 /\ t[1] \in {t[k] : k \in 1 .. Len(t)}
      BY <2>3
    <3>2. t[1] \in T
      BY <3>1
    <3>3. t = <<t[1]>>
      BY <2>3
    <3>4. \A u, V : u \in V => <<u>> \in Seq(V)
      OBVIOUS
    <3> HIDE DEF t, T
    <3>5. <<t[1]>> \in Seq(T)
      BY <3>2, <3>4, Zenon
    <3> QED
      BY <3>3, <3>5, Zenon
  <2> QED
    BY <2>1, <2>2, <2>3
<1>5. \A k \in 1 .. Len(e) : k \in 1 .. N /\ f[k] = sunk[k]
  <2>1. \A k \in 1 .. Len(e) : k \in 1 .. N
    BY <1>1
  <2>2. \A k \in 1 .. Len(e) : NthCut(s, k) = e[k] /\ ChunkAt(s, e[k]) = PieceOf(s, CutBefore(e, k), e[k])
    BY CutFacts
  <2>3. \A k \in 1 .. Len(e) : sunk[k] = PieceOf(s, CutBefore(e, k), e[k])
    BY DEF Sinks
  <2> QED
    BY <2>1, <2>2, <2>3
<1>6. ChunksOf(s) = f \o t
  BY ChunksAre
<1> HIDE DEF N, f, t, T
<1>7. /\ Len(f \o t) = N + Len(t) /\ Len(t) \in Nat
      /\ \A k \in 1 .. N : (f \o t)[k] = f[k]
  BY <1>1, <1>3, <1>4
<1>8. Seqs!IsPrefix(sunk, f \o t)
  <2>1. Len(sunk) <= Len(f \o t)
    BY <1>1, <1>2, <1>7
  <2>2. \A k \in 1 .. Len(sunk) : sunk[k] = (f \o t)[k]
    BY <1>2, <1>5, <1>7
  <2>3. SubSeq(sunk, 1, Len(sunk)) = [k \in 1 .. Len(sunk) |-> sunk[k]]
    BY <1>1, <1>2
  <2>4. SubSeq(f \o t, 1, Len(sunk)) = [k \in 1 .. Len(sunk) |-> (f \o t)[k]]
    BY <1>1, <1>2, <1>3, <1>4
  <2> QED
    BY <2>1, <2>2, <2>3, <2>4 DEF Seqs!IsPrefix
<1>9. ASSUME C = Cuts(s)
      PROVE  f = sunk /\ TailOf(s) = LettersUpTo(s, Len(s)) - LettersUpTo(s, LastCut(e))
  <2>1. Len(e) = N /\ FSets!Max(Cuts(s) \cup {0}) = LastCut(e)
    BY <1>9, CutFacts DEF N
  <2>2. f = sunk
    BY <1>2, <1>3, <1>5, <2>1, SeqEqual
  <2> QED
    BY <2>1, <2>2 DEF TailOf
<1> QED
  BY <1>6, <1>8, <1>9 DEF t

-----------------------------------------------------------------------------
(* The pump.  Before it has finished, the settled cuts of what it has read *)
(* are the pieces it has sunk; when it has, nobody holds the pipe, and     *)
(* nobody will.  Whoever still held it when the call gave up on it is a    *)
(* descendant, for the leader is gone by then (LeaveInv).                  *)
Chunks == [letters : Int, end : {"x", "cr", "lf", "eof"}]

Pumps == [read : Nat, letters : Int, pendingCr : BOOLEAN, sunk : Seq(Chunks), done : BOOLEAN]

Reading(s, q) ==
    /\ q.read <= Len(s)
    /\ q.pendingCr <=> (q.read > 0 /\ s[q.read] = "cr")
    /\ \E e \in Seq(Nat \ {0}) :
          /\ Cutting(e, Settled(s, q.read))
          /\ Sinks(e, q.sunk, s)
          /\ q.letters = LettersUpTo(s, q.read) - LettersUpTo(s, LastCut(e))

PumpInv ==
    /\ printed \in Seq(Bytes)
    /\ pump \in Pumps
    /\ ~pump.done => Reading(printed, pump)
    /\ pump.done => pump.sunk = ChunksOf(printed) /\ ~Held /\ job.pc # "spawn"

LeaveInv ==
    /\ job.pc \in {"drain", "poll", "drainKilled", "drainAgain"} => LeaderGone
    /\ job.mode = "stream" /\ job.pc = "done" /\ ~pump.done =>
          \E k \in Kids : proc[k].holds /\ proc[k].state # "unborn"

(* A byte that is read, by what it and the byte before it are.             *)
LEMMA PushFacts ==
    ASSUME NEW q \in Pumps, NEW b \in Bytes
    PROVE  LET r == Push(q, b)
               cut(l, end) == Append(q.sunk, Chunk(l, end))
           IN  /\ r \in Pumps /\ r.read = q.read + 1 /\ (r.pendingCr <=> b = "cr") /\ r.done = q.done
               /\ b = "lf" => r.sunk = cut(q.letters, "lf") /\ r.letters = 0
               /\ q.pendingCr /\ b # "lf" =>
                     r.sunk = cut(q.letters, "cr") /\ r.letters = IF b = "x" THEN 1 ELSE 0
               /\ ~q.pendingCr /\ b # "lf" =>
                     r.sunk = q.sunk /\ r.letters = IF b = "x" THEN q.letters + 1 ELSE q.letters
<1> DEFINE r == Push(q, b)
           cut(l, end) == Append(q.sunk, Chunk(l, end))
           crlf == q.pendingCr /\ b = "lf"
           base == IF q.pendingCr /\ ~crlf
                   THEN [q EXCEPT !.sunk = Append(q.sunk, Chunk(q.letters, "cr")), !.letters = 0] ELSE q
           sunk2 == IF b = "lf" THEN Append(base.sunk, Chunk(base.letters, "lf")) ELSE base.sunk
           letters2 == IF b = "lf" THEN 0 ELSE IF b = "x" THEN base.letters + 1 ELSE base.letters
<1>1. /\ q.read \in Nat /\ q.letters \in Int /\ q.sunk \in Seq(Chunks)
      /\ \A l \in Int, end \in {"cr", "lf"} : Chunk(l, end) \in Chunks
  BY DEF Pumps, Chunk, Chunks
<1>2. \A l \in Int, end \in {"cr", "lf"}, s \in Seq(Chunks) : Append(s, Chunk(l, end)) \in Seq(Chunks)
  BY <1>1
<1>3. /\ base \in Pumps /\ base.read = q.read /\ base.pendingCr = q.pendingCr /\ base.done = q.done
      /\ base.sunk = (IF q.pendingCr /\ ~crlf THEN cut(q.letters, "cr") ELSE q.sunk)
      /\ base.letters = (IF q.pendingCr /\ ~crlf THEN 0 ELSE q.letters)
  <2>1. CASE q.pendingCr /\ ~crlf
    <3>1. base = [q EXCEPT !.sunk = cut(q.letters, "cr"), !.letters = 0]
      BY <2>1
    <3>2. cut(q.letters, "cr") \in Seq(Chunks)
      BY <1>1, <1>2
    <3> HIDE DEF base, cut, crlf
    <3>3. PICK x \in Seq(Chunks) : x = cut(q.letters, "cr")
      BY <3>2
    <3>4. base = [q EXCEPT !.sunk = x, !.letters = 0]
      BY <3>1, <3>3
    <3>5. /\ base \in Pumps /\ base.read = q.read /\ base.pendingCr = q.pendingCr
          /\ base.done = q.done /\ base.sunk = x /\ base.letters = 0
      <4>1. PICK l \in Int : l = 0
        OBVIOUS
      <4>2. base = [q EXCEPT !.sunk = x, !.letters = l]
        BY <3>4, <4>1
      <4>3. base \in Pumps /\ base.read = q.read /\ base.pendingCr = q.pendingCr
        BY <4>2 DEF Pumps
      <4>4. base.done = q.done /\ base.sunk = x /\ base.letters = l
        BY <4>2 DEF Pumps
      <4> QED
        BY <4>1, <4>3, <4>4
    <3> QED
      BY <2>1, <3>3, <3>5
  <2>2. CASE ~(q.pendingCr /\ ~crlf)
    BY <2>2
  <2> QED
    BY <2>1, <2>2
<1>4. r = [base EXCEPT !.read = base.read + 1, !.pendingCr = b = "cr", !.sunk = sunk2,
                       !.letters = letters2]
  BY DEF Push
<1>5. base.read + 1 \in Nat /\ (b = "cr") \in BOOLEAN
  BY <1>1, <1>3
<1>6. sunk2 \in Seq(Chunks) /\ letters2 \in Int
  <2>1. base.sunk \in Seq(Chunks) /\ base.letters \in Int
    BY <1>1, <1>2, <1>3
  <2> HIDE DEF base
  <2> QED
    BY <1>2, <2>1
<1>7. r \in Pumps /\ r.read = base.read + 1 /\ r.pendingCr = (b = "cr") /\ r.done = base.done
      /\ r.sunk = sunk2 /\ r.letters = letters2
  <2> HIDE DEF r, base, sunk2, letters2
  <2>1. PICK n \in Nat, c \in BOOLEAN : n = base.read + 1 /\ c = (b = "cr")
    BY <1>5
  <2>2. r = [base EXCEPT !.read = n, !.pendingCr = c, !.sunk = sunk2, !.letters = letters2]
    BY <1>4, <2>1
  <2>3. r \in Pumps /\ r.read = n /\ r.pendingCr = c /\ r.done = base.done
    BY <1>3, <1>6, <2>2 DEF Pumps
  <2>4. r.sunk = sunk2 /\ r.letters = letters2
    BY <1>3, <1>6, <2>2 DEF Pumps
  <2> QED
    BY <2>1, <2>3, <2>4
<1> HIDE DEF r, base
<1>8. b = "lf" => r.sunk = cut(q.letters, "lf") /\ r.letters = 0
  BY <1>3, <1>7
<1>9. q.pendingCr /\ b # "lf" => r.sunk = cut(q.letters, "cr") /\ r.letters = IF b = "x" THEN 1 ELSE 0
  BY <1>3, <1>7
<1>10. ~q.pendingCr /\ b # "lf" =>
          r.sunk = q.sunk /\ r.letters = IF b = "x" THEN q.letters + 1 ELSE q.letters
  BY <1>3, <1>7
<1> QED
  BY <1>3, <1>7, <1>8, <1>9, <1>10 DEF r

(* Where the last cut of a list is.                                        *)
LEMMA LastCutFacts ==
    ASSUME NEW e, NEW C, Cutting(e, C), NEW i \in Nat \ {0}
    PROVE  /\ LastCut(Append(e, i)) = i
           /\ LastCut(e) \in Nat
<1>1. e \in Seq(Nat \ {0}) /\ Append(e, i) # <<>> /\ Append(e, i)[Len(Append(e, i))] = i
  BY DEF Cutting
<1>2. e # <<>> => Len(e) \in 1 .. Len(e)
  BY <1>1
<1>3. e # <<>> => e[Len(e)] \in Nat
  BY <1>1, <1>2
<1> QED
  BY <1>1, <1>3 DEF LastCut

(* One byte is read.                                                       *)
LEMMA ReadByte ==
    ASSUME NEW s \in Seq(Bytes), NEW q \in Pumps, Reading(s, q), q.read < Len(s)
    PROVE  Reading(s, Push(q, s[q.read + 1]))
<1> DEFINE n == q.read
           b == s[n + 1]
           r == Push(q, b)
<1>1. n \in Nat /\ n < Len(s) /\ Len(s) \in Nat /\ n + 1 \in Nat \ {0} /\ n \in 0 .. Len(s)
  BY DEF Pumps
<1>2. b \in Bytes
  BY <1>1
<1>3. PICK e \in Seq(Nat \ {0}) :
         /\ Cutting(e, Settled(s, n)) /\ Sinks(e, q.sunk, s)
         /\ q.letters = LettersUpTo(s, n) - LettersUpTo(s, LastCut(e))
  BY DEF Reading
<1>4. q.pendingCr <=> n > 0 /\ s[n] = "cr"
  BY DEF Reading
<1>5. /\ LettersUpTo(s, n) \in Nat /\ LettersUpTo(s, n + 1) \in Nat /\ LettersUpTo(s, LastCut(e)) \in Nat
      /\ LettersUpTo(s, n + 1) = LettersUpTo(s, n) + (IF b = "x" THEN 1 ELSE 0)
  <2>1. LastCut(e) \in Nat
    BY <1>1, <1>3, LastCutFacts
  <2> QED
    BY <1>1, <2>1, LettersFacts
<1>6. /\ q.sunk \in Seq(Chunks) /\ q.letters \in Int
      /\ \A l \in Int, end \in {"cr", "lf"} : Chunk(l, end) \in Chunks
  BY DEF Pumps, Chunk, Chunks
<1>7. /\ r.read = n + 1 /\ (r.pendingCr <=> b = "cr")
      /\ b = "lf" => r.sunk = Append(q.sunk, Chunk(q.letters, "lf")) /\ r.letters = 0
      /\ q.pendingCr /\ b # "lf" => /\ r.sunk = Append(q.sunk, Chunk(q.letters, "cr"))
                                    /\ r.letters = IF b = "x" THEN 1 ELSE 0
      /\ ~q.pendingCr /\ b # "lf" => r.sunk = q.sunk /\ r.letters = IF b = "x" THEN q.letters + 1 ELSE q.letters
  BY <1>2, PushFacts
<1> HIDE DEF r
<1>8. r.read <= Len(s) /\ (r.pendingCr <=> (r.read > 0 /\ s[r.read] = "cr"))
  <2>1. r.read = n + 1 /\ n + 1 <= Len(s) /\ n + 1 > 0
    BY <1>1, <1>7
  <2>2. s[r.read] = b
    BY <2>1
  <2> HIDE DEF n, b
  <2>3. r.read <= Len(s) /\ r.read > 0
    BY <2>1
  <2> QED
    BY <1>7, <2>2, <2>3
<1>9. Settled(s, n) \subseteq 1 .. n
  BY DEF Settled
<1>10. CASE b = "lf"
  <2>1. Settled(s, n + 1) = Settled(s, n) \cup {n + 1}
    BY <1>1, <1>10, SettledFacts
  <2>2. Cutting(Append(e, n + 1), Settled(s, n + 1))
    <3>1. \A j \in Settled(s, n) : j < n + 1
      BY <1>1, <1>9
    <3> QED
      BY <1>1, <1>3, <2>1, <3>1, CutMore
  <2>3. PieceOf(s, LastCut(e), n + 1) = Chunk(q.letters, "lf")
    <3>1. LettersUpTo(s, n + 1) - LettersUpTo(s, LastCut(e)) = q.letters
      BY <1>3, <1>5, <1>10
    <3> QED
      BY <1>10, <3>1 DEF PieceOf
  <2>4. Sinks(Append(e, n + 1), r.sunk, s)
    <3>1. r.sunk = Append(q.sunk, PieceOf(s, LastCut(e), n + 1))
      BY <1>7, <1>10, <2>3
    <3>2. PieceOf(s, LastCut(e), n + 1) \in Chunks
      BY <1>6, <2>3
    <3>3. Sinks(Append(e, n + 1), Append(q.sunk, PieceOf(s, LastCut(e), n + 1)), s)
      BY <1>1, <1>3, <1>6, <3>2, SinkMore
    <3> QED
      BY <3>1, <3>3
  <2>5. r.letters = LettersUpTo(s, n + 1) - LettersUpTo(s, LastCut(Append(e, n + 1)))
    BY <1>1, <1>3, <1>5, <1>7, <1>10, LastCutFacts
  <2>6. Append(e, n + 1) \in Seq(Nat \ {0})
    BY <1>1
  <2> QED
    BY <1>7, <1>8, <2>2, <2>4, <2>5, <2>6 DEF Reading, r
<1>11. CASE q.pendingCr /\ b # "lf"
  <2>1. Settled(s, n + 1) = Settled(s, n) \cup {n} /\ n \in Nat \ {0} /\ s[n] = "cr"
    <3>1. n > 0 /\ s[n] = "cr" /\ s[n + 1] # "lf"
      BY <1>4, <1>11
    <3>2. Settled(s, n + 1) = Settled(s, n) \cup {n}
      BY <1>1, <3>1, SettledFacts
    <3> QED
      BY <1>1, <3>1, <3>2
  <2>2. Cutting(Append(e, n), Settled(s, n + 1))
    <3>1. n \notin Settled(s, n)
      BY <2>1 DEF Settled
    <3>2. \A j \in Settled(s, n) : j < n
      BY <1>1, <1>9, <3>1
    <3> QED
      BY <1>3, <2>1, <3>2, CutMore
  <2>3. PieceOf(s, LastCut(e), n) = Chunk(q.letters, "cr")
    BY <1>3, <2>1 DEF PieceOf
  <2>4. Sinks(Append(e, n), r.sunk, s)
    <3>1. r.sunk = Append(q.sunk, PieceOf(s, LastCut(e), n))
      BY <1>7, <1>11, <2>3
    <3>2. PieceOf(s, LastCut(e), n) \in Chunks
      BY <1>6, <2>3
    <3>3. Sinks(Append(e, n), Append(q.sunk, PieceOf(s, LastCut(e), n)), s)
      BY <1>3, <1>6, <2>1, <3>2, SinkMore
    <3> QED
      BY <3>1, <3>3
  <2>5. LastCut(Append(e, n)) = n
    BY <1>3, <2>1, LastCutFacts
  <2>6. r.letters = LettersUpTo(s, n + 1) - LettersUpTo(s, LastCut(Append(e, n)))
    BY <1>5, <1>7, <1>11, <2>5
  <2>7. Append(e, n) \in Seq(Nat \ {0})
    BY <2>1
  <2> QED
    BY <1>7, <1>8, <2>2, <2>4, <2>6, <2>7 DEF Reading, r
<1>12. CASE ~q.pendingCr /\ b # "lf"
  <2>1. Settled(s, n + 1) = Settled(s, n)
    BY <1>1, <1>4, <1>12, SettledFacts
  <2>2. r.letters = LettersUpTo(s, n + 1) - LettersUpTo(s, LastCut(e))
    BY <1>3, <1>5, <1>6, <1>7, <1>12
  <2> QED
    BY <1>3, <1>7, <1>8, <1>12, <2>1, <2>2 DEF Reading, r
<1> QED
  BY <1>10, <1>11, <1>12

(* The end of the output: all of its chunks are sunk.                      *)
LEMMA ReadEnd ==
    ASSUME NEW s \in Seq(Bytes), NEW q \in Pumps, Reading(s, q), q.read = Len(s)
    PROVE  Finish(q) \in Pumps /\ Finish(q).done = TRUE /\ Finish(q).sunk = ChunksOf(s)
<1> DEFINE n == Len(s)
           last == IF q.pendingCr THEN Append(q.sunk, Chunk(q.letters, "cr"))
                   ELSE IF q.letters > 0 THEN Append(q.sunk, Chunk(q.letters, "eof")) ELSE q.sunk
<1>1. /\ q.sunk \in Seq(Chunks) /\ q.letters \in Int /\ n \in Nat /\ n \in 0 .. Len(s)
      /\ \A l \in Int, end \in {"cr", "eof"} : Chunk(l, end) \in Chunks
  BY DEF Pumps, Chunk, Chunks
<1>2. last \in Seq(Chunks)
  BY <1>1
<1>3. Finish(q) \in Pumps /\ Finish(q).done = TRUE /\ Finish(q).sunk = last
  <2>1. Finish(q) = [q EXCEPT !.done = TRUE, !.sunk = last]
    BY DEF Finish
  <2> HIDE DEF last
  <2> QED
    BY <1>2, <2>1 DEF Pumps
<1>4. PICK e \in Seq(Nat \ {0}) :
         /\ Cutting(e, Settled(s, n)) /\ Sinks(e, q.sunk, s)
         /\ q.letters = LettersUpTo(s, n) - LettersUpTo(s, LastCut(e))
  BY DEF Reading
<1>5. q.pendingCr <=> n > 0 /\ s[n] = "cr"
  BY DEF Reading
<1>6. /\ Cuts(s) \subseteq 1 .. n
      /\ Cuts(s) = IF q.pendingCr THEN Settled(s, n) \cup {n} ELSE Settled(s, n)
  BY <1>1, <1>5, CutsFacts
<1>7. CASE q.pendingCr
  <2>1. n \in Nat \ {0} /\ s[n] = "cr" /\ LettersUpTo(s, n) \in Nat
    BY <1>1, <1>5, <1>7, LettersFacts
  <2>2. Cutting(Append(e, n), Cuts(s))
    <3>1. n \notin Settled(s, n) /\ Settled(s, n) \subseteq 1 .. n
      BY <2>1 DEF Settled
    <3>2. \A j \in Settled(s, n) : j < n
      BY <1>1, <3>1
    <3> QED
      BY <1>4, <1>6, <1>7, <2>1, <3>2, CutMore
  <2>3. Sinks(Append(e, n), last, s)
    <3>1. PieceOf(s, LastCut(e), n) = Chunk(q.letters, "cr")
      BY <1>4, <2>1 DEF PieceOf
    <3> QED
      BY <1>1, <1>4, <1>7, <2>1, <3>1, SinkMore
  <2>4. LastCut(Append(e, n)) = n
    BY <1>4, <2>1, LastCutFacts
  <2> HIDE DEF last
  <2>5. ChunksOf(s) = last \o LastChunk(s) /\ TailOf(s) = LettersUpTo(s, n) - LettersUpTo(s, n)
    BY <1>2, <2>2, <2>3, <2>4, SunkChunks
  <2>6. LastChunk(s) = <<>>
    BY <2>1, <2>5 DEF LastChunk
  <2> QED
    BY <1>2, <1>3, <2>5, <2>6
<1>8. CASE ~q.pendingCr
  <2>1. Cutting(e, Cuts(s))
    BY <1>4, <1>6, <1>8
  <2>2. ChunksOf(s) = q.sunk \o LastChunk(s) /\ TailOf(s) = q.letters
    BY <1>1, <1>4, <2>1, SunkChunks
  <2>3. CASE q.letters > 0
    <3>1. LastChunk(s) = <<Chunk(q.letters, "eof")>>
      BY <2>2, <2>3 DEF LastChunk
    <3>2. last = Append(q.sunk, Chunk(q.letters, "eof")) /\ Chunk(q.letters, "eof") \in Chunks
      BY <1>1, <1>8, <2>3
    <3>3. \A c \in Chunks : q.sunk \o <<c>> = Append(q.sunk, c)
      BY <1>1
    <3> QED
      BY <1>3, <2>2, <3>1, <3>2, <3>3
  <2>4. CASE ~(q.letters > 0)
    <3>1. LastChunk(s) = <<>>
      BY <2>2, <2>4 DEF LastChunk
    <3>2. last = q.sunk
      BY <1>8, <2>4
    <3>3. q.sunk \o <<>> = q.sunk
      BY <1>1
    <3> QED
      BY <1>3, <2>2, <3>1, <3>2, <3>3
  <2> QED
    BY <2>3, <2>4
<1> QED
  BY <1>3, <1>7, <1>8

(* What was sunk while there is more to read.                              *)
LEMMA ReadSoFar ==
    ASSUME NEW s \in Seq(Bytes), NEW q \in Pumps, Reading(s, q)
    PROVE  /\ Seqs!IsPrefix(q.sunk, ChunksOf(s))
           /\ \A b \in Bytes : Reading(Append(s, b), q)
<1> DEFINE n == q.read
<1>1. n \in 0 .. Len(s) /\ q.sunk \in Seq(Chunks) /\ Len(s) \in Nat
  BY DEF Reading, Pumps
<1>2. PICK e \in Seq(Nat \ {0}) :
         /\ Cutting(e, Settled(s, n)) /\ Sinks(e, q.sunk, s)
         /\ q.letters = LettersUpTo(s, n) - LettersUpTo(s, LastCut(e))
  BY DEF Reading
<1>3. /\ Settled(s, n) \subseteq Cuts(s)
      /\ \A i \in Settled(s, n), j \in Cuts(s) : j <= i => j \in Settled(s, n)
  BY <1>1, CutsFacts
<1>4. Seqs!IsPrefix(q.sunk, ChunksOf(s))
  BY <1>1, <1>2, <1>3, SunkChunks
<1>5. ASSUME NEW b \in Bytes PROVE Reading(Append(s, b), q)
  <2>1. Len(Append(s, b)) = Len(s) + 1 /\ \A j \in 1 .. Len(s) : Append(s, b)[j] = s[j]
    OBVIOUS
  <2>2. /\ n <= Len(Append(s, b))
        /\ q.pendingCr <=> (n > 0 /\ Append(s, b)[n] = "cr")
    BY <1>1, <2>1 DEF Reading
  <2>3. Settled(Append(s, b), n) = Settled(s, n) /\ LettersUpTo(Append(s, b), n) = LettersUpTo(s, n)
    BY <1>1, LaterBytes
  <2>4. Settled(s, n) \subseteq 1 .. Len(s)
    BY <1>1 DEF Settled
  <2>5. Sinks(e, q.sunk, Append(s, b))
    BY <1>2, <2>4, SinksLater
  <2>6. LettersUpTo(Append(s, b), LastCut(e)) = LettersUpTo(s, LastCut(e))
    <3>1. LastCut(e) \in 0 .. Len(s)
      <4>1. e # <<>> => Len(e) \in 1 .. Len(e)
        OBVIOUS
      <4>2. e # <<>> => e[Len(e)] \in 1 .. Len(s)
        BY <1>2, <2>4, <4>1 DEF Cutting
      <4> HIDE DEF n
      <4>3. 0 \in 0 .. Len(s) /\ 1 .. Len(s) \subseteq 0 .. Len(s)
        BY <1>1
      <4> QED
        BY <4>2, <4>3 DEF LastCut
    <3> QED
      BY <3>1, LaterBytes
  <2> QED
    BY <1>2, <2>2, <2>3, <2>5, <2>6 DEF Reading
<1> QED
  BY <1>4, <1>5

(* Nobody takes hold of a pipe that is let go of, and a descendant that    *)
(* held it remains known as one that did: all steps but Spawn.             *)
LEMMA HoldsFacts ==
    ASSUME ChildInv, ChildNext, ~Spawn
    PROVE  /\ ~Held => ~Held'
           /\ \A k \in Members : /\ proc[k].holds /\ proc[k].state # "unborn" =>
                                       proc'[k].holds /\ proc'[k].state # "unborn"
                                 /\ proc[k].state = "gone" => proc'[k].state = "gone"
<1> USE DEF Held, Remains
<1>1. proc \in [Members -> ProcState]
  BY DEF ChildInv
<1>2. CASE UNCHANGED proc
  BY <1>2
<1>3. ASSUME NEW sig, proc' = Signalled(sig)
      PROVE  \A k \in Members : /\ proc'[k].holds = proc[k].holds
                                /\ proc'[k].state = proc[k].state
                                     \/ (proc[k].state = "alive" /\ proc'[k].state = "dying")
  <2> SUFFICES ASSUME NEW k \in Members
               PROVE  /\ proc'[k].holds = proc[k].holds
                      /\ proc'[k].state = proc[k].state
                           \/ (proc[k].state = "alive" /\ proc'[k].state = "dying")
    OBVIOUS
  <2>1. proc'[k] = IF Alive(k) /\ proc[k].group /\ (sig = "TERM" => ~proc[k].stubborn)
                   THEN [proc[k] EXCEPT !.state = "dying"] ELSE proc[k]
    BY <1>3 DEF Signalled
  <2>2. proc[k] \in ProcState
    BY <1>1
  <2> QED
    BY <2>1, <2>2 DEF ProcState, Alive
<1>4. ASSUME NEW sig, proc' = Signalled(sig)
      PROVE  /\ ~Held => ~Held'
             /\ \A k \in Members : /\ proc[k].holds /\ proc[k].state # "unborn" =>
                                         proc'[k].holds /\ proc'[k].state # "unborn"
                                   /\ proc[k].state = "gone" => proc'[k].state = "gone"
  BY <1>3, <1>4
<1>5. CASE JobStep
  <2>1. UNCHANGED proc \/ proc' = Signalled("TERM") \/ proc' = Signalled("KILL")
    BY <1>5 DEF JobStep, Waited, SeeCancel, ReapInGrace, GraceOver, Reap, PollGroup, PumpsDrained,
                DrainOver, ProbeAnswers, ProbeCut
  <2> QED
    BY <1>2, <1>4, <2>1
<1>6. CASE PumpStep \/ Fire \/ \E p \in Members : \E b \in Bytes : PrintByte(p, b)
  BY <1>2, <1>6 DEF PumpStep, Fire, PrintByte
<1>7. ASSUME NEW p \in Members, ExitByItself(p) \/ DieOfSignal(p)
      PROVE  /\ ~Held => ~Held'
             /\ \A k \in Members : /\ proc[k].holds /\ proc[k].state # "unborn" =>
                                         proc'[k].holds /\ proc'[k].state # "unborn"
                                   /\ proc[k].state = "gone" => proc'[k].state = "gone"
  <2>1. proc' = [proc EXCEPT ![p].state = "gone"]
    BY <1>7 DEF ExitByItself, DieOfSignal, Ends
  <2>2. \A k \in Members : proc'[k].holds = proc[k].holds
                             /\ proc'[k].state = IF k = p THEN "gone" ELSE proc[k].state
    BY <1>1, <2>1 DEF ProcState
  <2> QED
    BY <2>2
<1>8. ASSUME NEW p \in Members, NEW k \in Kids, ForkKid(p, k)
      PROVE  /\ ~Held => ~Held'
             /\ \A m \in Members : /\ proc[m].holds /\ proc[m].state # "unborn" =>
                                         proc'[m].holds /\ proc'[m].state # "unborn"
                                   /\ proc[m].state = "gone" => proc'[m].state = "gone"
  <2>1. PICK g \in BOOLEAN, h \in BOOLEAN, s \in BOOLEAN :
           /\ h => proc[p].holds
           /\ proc' = [proc EXCEPT ![k] = [state |-> "alive", group |-> g,
                                           stubborn |-> s, holds |-> h]]
    BY <1>8 DEF ForkKid
  <2>2. Alive(p) /\ proc[k].state = "unborn" /\ k \in Members
    BY <1>8 DEF ForkKid, Members
  <2>3. \A m \in Members : proc'[m] = IF m = k THEN [state |-> "alive", group |-> g,
                                                     stubborn |-> s, holds |-> h] ELSE proc[m]
    BY <1>1, <2>1, <2>2
  <2>4. ~Held => ~h
    BY <2>1, <2>2 DEF Alive
  <2> QED
    BY <2>2, <2>3, <2>4
<1> QED
  BY <1>5, <1>6, <1>7, <1>8 DEF ChildNext

(* A step of the call.                                                     *)
LEMMA JobKeepsOutput ==
    ASSUME ChildInv, PumpInv, LeaveInv, ChildNext, ~Spawn, JobStep
    PROVE  PumpInv' /\ LeaveInv'
<1>1. /\ proc \in [Members -> ProcState] /\ Leader \in Members
      /\ job \in [mode : Modes, pc : JobPCs, result : {"none", "ok", "cancelled", "timeout"}]
  BY DEF ChildInv, Members
<1>2. /\ ~Held => ~Held'
      /\ LeaderGone => LeaderGone'
  BY <1>1, HoldsFacts DEF LeaderGone
<1>3. UNCHANGED <<printed, pump>>
  BY DEF JobStep, Waited, SeeCancel, ReapInGrace, GraceOver, Reap, PollGroup, PumpsDrained,
         DrainOver, ProbeAnswers, ProbeCut
<1>4. /\ \A pc \in JobPCs : JobTo(pc) => job'.pc = pc /\ job'.mode = job.mode
      /\ \A r \in {"ok", "cancelled", "timeout"} : ReturnWith(r) => job'.pc = "done" /\ job'.mode = job.mode
  BY <1>1 DEF JobTo, ReturnWith, JobPCs
<1>5. CASE Waited \/ ReapInGrace \/ Reap
  <2>1. LeaderGone /\ (JobTo("drain") \/ JobTo("poll"))
    BY <1>5 DEF Waited, ReapInGrace, Reap
  <2>2. job'.pc \in {"drain", "poll"}
    BY <1>4, <2>1 DEF JobPCs
  <2> QED
    BY <1>2, <1>3, <2>1, <2>2 DEF PumpInv, LeaveInv
<1>6. CASE SeeCancel \/ GraceOver
  <2>1. job'.pc \in {"grace", "reap"}
    BY <1>4, <1>6 DEF SeeCancel, GraceOver, JobPCs
  <2> QED
    BY <1>2, <1>3, <2>1 DEF PumpInv, LeaveInv
<1>7. CASE PollGroup
  <2>1. job.pc = "poll" /\ job'.pc = "drainKilled"
    BY <1>4, <1>7 DEF PollGroup, JobPCs
  <2> QED
    BY <1>2, <1>3, <2>1 DEF PumpInv, LeaveInv
<1>8. CASE PumpsDrained
  <2>1. pump.done /\ job'.pc = "done"
    <3>1. pump.done /\ ReturnWith(IF Cancelled THEN "cancelled" ELSE "ok")
      BY <1>8 DEF PumpsDrained
    <3>2. ReturnWith("cancelled") \/ ReturnWith("ok")
      BY <3>1
    <3> QED
      BY <1>4, <3>1, <3>2
  <2> QED
    BY <1>2, <1>3, <2>1 DEF PumpInv, LeaveInv
<1>9. CASE DrainOver
  <2>1. Held /\ LeaderGone
    BY <1>9 DEF DrainOver, LeaveInv
  <2>2. CASE job.pc = "drainKilled"
    <3>1. job'.pc = "drainAgain"
      BY <1>4, <1>9, <2>2 DEF DrainOver, JobPCs
    <3> QED
      BY <1>2, <1>3, <2>1, <3>1 DEF PumpInv, LeaveInv
  <2>3. CASE job.pc # "drainKilled"
    <3>1. UNCHANGED proc /\ job'.pc = "done"
      <4>1. UNCHANGED proc /\ ReturnWith(IF Cancelled THEN "cancelled" ELSE "ok")
        BY <1>9, <2>3 DEF DrainOver
      <4>2. ReturnWith("cancelled") \/ ReturnWith("ok")
        BY <4>1
      <4> QED
        BY <1>4, <4>1, <4>2
    <3>2. PICK k \in Members : Remains(k) /\ proc[k].holds
      BY <2>1 DEF Held
    <3>3. k # Leader /\ proc[k].state # "unborn"
      BY <2>1, <3>2 DEF Remains, LeaderGone
    <3>4. k \in Kids /\ proc'[k].holds /\ proc'[k].state # "unborn"
      BY <3>1, <3>2, <3>3 DEF Members
    <3> QED
      BY <1>2, <1>3, <3>1, <3>4 DEF PumpInv, LeaveInv
  <2> QED
    BY <2>2, <2>3
<1>10. CASE ProbeAnswers \/ ProbeCut
  <2>1. job.mode = "probe" /\ job'.pc = "done" /\ job'.mode = "probe"
    BY <1>4, <1>10 DEF ProbeAnswers, ProbeCut
  <2> QED
    BY <1>2, <1>3, <2>1 DEF PumpInv, LeaveInv
<1> QED
  BY <1>5, <1>6, <1>7, <1>8, <1>9, <1>10 DEF JobStep

(* Every step.                                                             *)
LEMMA OutputNextInv ==
    ChildInv /\ PumpInv /\ LeaveInv /\ [ChildNext]_childVars => PumpInv' /\ LeaveInv'
<1> SUFFICES ASSUME ChildInv, PumpInv, LeaveInv, [ChildNext]_childVars
             PROVE  PumpInv' /\ LeaveInv'
  OBVIOUS
<1>1. /\ proc \in [Members -> ProcState] /\ Leader \in Members
      /\ job \in [mode : Modes, pc : JobPCs, result : {"none", "ok", "cancelled", "timeout"}]
      /\ printed \in Seq(Bytes) /\ pump \in Pumps
  BY DEF ChildInv, PumpInv, Members
<1>2. CASE UNCHANGED childVars
  BY <1>2 DEF childVars, PumpInv, LeaveInv, LeaderGone, Held, Remains
<1>3. CASE Spawn
  <2>1. /\ UNCHANGED <<printed, pump>> /\ job.pc = "spawn" /\ job'.pc = "wait"
    BY <1>1, <1>3 DEF Spawn, JobTo
  <2> QED
    BY <2>1 DEF PumpInv, LeaveInv
<1>4. ASSUME ChildNext, ~Spawn
      PROVE  /\ ~Held => ~Held'
             /\ LeaderGone => LeaderGone'
             /\ \A k \in Kids : proc[k].holds /\ proc[k].state # "unborn" =>
                                   proc'[k].holds /\ proc'[k].state # "unborn"
  BY <1>1, <1>4, HoldsFacts DEF LeaderGone, Members
<1>5. ASSUME ChildNext, ~Spawn, UNCHANGED <<printed, pump, job>>
      PROVE  PumpInv' /\ LeaveInv'
  BY <1>4, <1>5 DEF PumpInv, LeaveInv
<1>6. CASE ChildNext /\ ~Spawn /\ JobStep
  BY <1>6, JobKeepsOutput
<1>7. CASE ChildNext /\ ~Spawn /\ PumpStep
  <2>1. UNCHANGED <<proc, printed, job>> /\ job.pc \notin {"spawn", "done"} /\ ~pump.done
    BY <1>7 DEF PumpStep
  <2>2. LeaveInv'
    BY <2>1 DEF LeaveInv, LeaderGone
  <2>3. Reading(printed, pump)
    BY <2>1 DEF PumpInv
  <2>4. CASE pump.read < Len(printed) /\ pump' = Push(pump, printed[pump.read + 1])
    <3>1. printed[pump.read + 1] \in Bytes
      BY <1>1, <2>4 DEF Pumps
    <3>2. pump' \in Pumps /\ pump'.done = pump.done
      BY <1>1, <2>4, <3>1, PushFacts
    <3>3. Reading(printed', pump')
      BY <1>1, <2>1, <2>3, <2>4, ReadByte
    <3> QED
      BY <1>1, <2>1, <2>2, <3>2, <3>3 DEF PumpInv
  <2>5. CASE pump.read = Len(printed) /\ ~Held /\ pump' = Finish(pump)
    <3>1. pump' \in Pumps /\ pump'.done = TRUE /\ pump'.sunk = ChunksOf(printed)
      BY <1>1, <2>3, <2>5, ReadEnd
    <3>2. ~Held'
      BY <2>1, <2>5 DEF Held, Remains
    <3> QED
      BY <1>1, <2>1, <2>2, <3>1, <3>2 DEF PumpInv
  <2> QED
    BY <1>7, <2>4, <2>5 DEF PumpStep
<1>8. CASE ChildNext /\ ~Spawn /\ Fire
  BY <1>5, <1>8 DEF Fire
<1>9. ASSUME ChildNext, ~Spawn, NEW p \in Members, ExitByItself(p) \/ DieOfSignal(p)
      PROVE  PumpInv' /\ LeaveInv'
  BY <1>5, <1>9 DEF ExitByItself, DieOfSignal, Ends
<1>10. ASSUME ChildNext, ~Spawn, NEW p \in Members, NEW k \in Kids, ForkKid(p, k)
       PROVE  PumpInv' /\ LeaveInv'
  BY <1>5, <1>10 DEF ForkKid
<1>11. ASSUME NEW p \in Members, NEW b \in Bytes, PrintByte(p, b)
       PROVE  PumpInv' /\ LeaveInv'
  <2>1. UNCHANGED <<proc, pump, job>> /\ printed' = Append(printed, b) /\ Held
    BY <1>11 DEF PrintByte, Held, Remains, Alive
  <2>2. ~pump.done /\ Reading(printed, pump)
    BY <2>1 DEF PumpInv
  <2>3. Reading(printed', pump') /\ printed' \in Seq(Bytes)
    BY <1>1, <2>1, <2>2, ReadSoFar
  <2> QED
    BY <1>1, <2>1, <2>2, <2>3 DEF PumpInv, LeaveInv, LeaderGone
<1> QED
  BY <1>2, <1>3, <1>6, <1>7, <1>8, <1>9, <1>10, <1>11 DEF ChildNext

(* Whatever a tool prints, for any number of bytes and descendants, its    *)
(* chunks reach the sink in order, and all of them before the call returns *)
(* unless a descendant kept the pipe (process.rs).                         *)
THEOREM OutputArrives == ChildSpec => []OutputIsComplete
<1>1. ChildInit => ChildInv
  BY DEF ChildInit, ChildInv, Unborn, ProcState, JobPCs, Cancelled
<1>2. ChildInit => PumpInv /\ LeaveInv
  <2> SUFFICES ASSUME ChildInit PROVE PumpInv /\ LeaveInv
    OBVIOUS
  <2> DEFINE e == <<>>
  <2>1. /\ printed = <<>> /\ printed \in Seq(Bytes) /\ job.pc = "spawn"
        /\ pump = [read |-> 0, letters |-> 0, pendingCr |-> FALSE, sunk |-> <<>>, done |-> FALSE]
    BY DEF ChildInit
  <2>2. pump \in Pumps /\ pump.read = 0 /\ pump.letters = 0 /\ ~pump.pendingCr /\ pump.sunk = <<>> /\ ~pump.done
    BY <2>1 DEF Pumps
  <2>3. Settled(printed, 0) = {}
    BY DEF Settled
  <2>4. e \in Seq(Nat \ {0}) /\ Len(e) = 0 /\ LastCut(e) = 0
    BY DEF LastCut
  <2>5. Cutting(e, Settled(printed, 0))
    BY <2>3, <2>4 DEF Cutting
  <2>6. Sinks(e, pump.sunk, printed)
    BY <2>2, <2>4 DEF Sinks
  <2>7. pump.letters = LettersUpTo(printed, 0) - LettersUpTo(printed, LastCut(e))
    <3>1. \A s \in Seq(Bytes) : LettersUpTo(s, 0) = 0
      BY LettersFacts
    <3>2. LettersUpTo(printed, 0) = 0
      BY <2>1, <3>1
    <3> HIDE DEF e
    <3> QED
      BY <2>2, <2>4, <3>2
  <2>8. Reading(printed, pump)
    <3> HIDE DEF e
    <3>1. pump.read <= Len(printed) /\ ~(pump.read > 0)
      BY <2>1, <2>2
    <3>2. /\ Cutting(e, Settled(printed, pump.read))
          /\ pump.letters = LettersUpTo(printed, pump.read) - LettersUpTo(printed, LastCut(e))
      BY <2>2, <2>5, <2>7
    <3> QED
      BY <2>2, <2>4, <2>6, <3>1, <3>2 DEF Reading
  <2> QED
    BY <2>1, <2>2, <2>8 DEF PumpInv, LeaveInv
<1>3. PumpInv /\ LeaveInv => OutputIsComplete
  <2> SUFFICES ASSUME PumpInv, LeaveInv PROVE OutputIsComplete
    OBVIOUS
  <2>1. printed \in Seq(Bytes) /\ pump \in Pumps /\ pump.sunk \in Seq(Chunks)
    BY DEF PumpInv, Pumps
  <2>2. Seqs!IsPrefix(pump.sunk, ChunksOf(printed))
    <3>1. CASE ~pump.done
      BY <2>1, <3>1, ReadSoFar DEF PumpInv
    <3>2. CASE pump.done
      <4>1. pump.sunk = ChunksOf(printed) /\ Len(pump.sunk) <= Len(pump.sunk)
        BY <2>1, <3>2 DEF PumpInv
      <4> QED
        BY <4>1 DEF Seqs!IsPrefix
    <3> QED
      BY <3>1, <3>2
  <2> QED
    BY <2>2 DEF OutputIsComplete, PumpInv, LeaveInv
<1> QED
  BY <1>1, <1>2, <1>3, ChildNextInv, OutputNextInv, PTL DEF ChildSpec
=============================================================================
