----------------------------- MODULE SessionProofs -----------------------------
(***************************************************************************)
(* Who may do what in the session lifecycle, for any processes, front-ends,*)
(* runs, ports, faults, crashes and requests.                              *)
(*                                                                         *)
(* The operation lock is a launch's from its gate to the record of its     *)
(* game (LockInv), so between the gate's look at the process table and the *)
(* spawn nobody else starts a game (GameInv).  A launch under way shows in *)
(* its process's slots (InFlightIsVisible), which is why that process      *)
(* begins no second one (OneFlight).                                       *)
(***************************************************************************)
EXTENDS Session, TLAPS

PassLoaded == {"audio", "audioSave", "dash", "dashSave", "fwd", "fwdLoop", "fwdSave", "lastSave",
               "finish"}
Pass == [pc : {"none", "kill", "reap", "load"} \cup PassLoaded, st : State \cup {Absent},
         mode : {"None", "Full", "SafeOnly"}, todo : SUBSET Ports]

(* A launch before its first guard, with its preparation's pass behind it; *)
(* in its guarded region without a game; with one; and tearing down.       *)
Preparing == {"prep", "wired", "wiredAdd", "rollback", "reset", "stage"}
Guarding  == {"arm", "switch", "dash", "dashSave", "spawn"}
Running   == {"publish", "record", "super"}
Ending    == {"tdDetach", "tdKill", "tdDash", "tdDashSave", "tdAudio", "tdAudioSave", "tdFinish",
              "tdClear", "tdLive"}

WithState == Preparing \cup Guarding \cup Running \cup Ending
Flight    == {"pass"} \cup WithState
HoldsLock == {"gate", "pass", "publish", "record"} \cup Preparing \cup Guarding

Job == [pc : {"new", "gate", "unwind", "done"} \cup Flight, proc : Procs \cup {NoProc},
        sess : State \cup {Absent}, armed : Devices \cup {NoDevice}, carried : BOOLEAN,
        held : BOOLEAN, cancel : BOOLEAN, detach : {"no", "fired", "settled"},
        stop : {"no", "waiting", "detached", "stopped"}, todo : SUBSET Ports]

Macs    == [output : Devices, dash : SUBSET Runs, forwards : SUBSET Ports]
Locks   == [as : {"free", "run", "stop", "reconcile"}, proc : Procs \cup {NoProc},
            run : Runs \cup {NoRun}]
Phases  == [ph : {"none", "Preflight", "Launching", "Stopping", "Exited"}, run : Runs \cup {NoRun}]
Budgets == [faults : Nat, crashes : Nat, unborn : SUBSET Procs]

TypeOK ==
    /\ disk \in State \cup {Absent}
    /\ up \in SUBSET Procs
    /\ wine \in [Runs -> WineStates]
    /\ mac \in Macs
    /\ lock \in Locks
    /\ pass \in Pass
    /\ job \in [Runs -> Job]
    /\ live \in [Procs -> Runs \cup {NoRun}]
    /\ phase \in [Procs -> Phases]
    /\ budget \in Budgets

(* A launch past its pass has its own record in hand, a pass past its load *)
(* the one it loaded, and a launch that makes a forward has one to make.   *)
HandInv ==
    /\ \A r \in Runs :
          /\ job[r].pc \in WithState \cup {"unwind"} =>
                job[r].sess \in State /\ job[r].sess.run = r /\ job[r].sess.owner = job[r].proc
          /\ job[r].pc = "wiredAdd" => job[r].todo # {}
          /\ job[r].pc \notin {"new", "done"} => job[r].proc \in up
    /\ pass.pc \in PassLoaded => pass.st \in State

LockInv ==
    /\ lock.as = "free" => lock = FreeLock /\ pass.pc = "none"
    /\ lock.as # "free" => lock.proc \in up
    /\ lock.as = "run" => /\ lock.run \in Runs /\ job[lock.run].proc = lock.proc
                          /\ job[lock.run].pc \in HoldsLock
                          /\ pass.pc # "none" => job[lock.run].pc = "pass"
    /\ lock.as \in {"stop", "reconcile"} => lock.run = NoRun
    /\ \A r \in Runs : job[r].pc \in HoldsLock => lock.as = "run" /\ lock.run = r

GameInv ==
    /\ OneGame
    /\ \A r \in Runs : job[r].pc \in {"pass"} \cup Preparing \cup Guarding => ~GameRunning

OneFlight ==
    \A r, q \in Runs :
       job[r].pc \in Flight /\ job[q].pc \in Flight /\ job[r].proc = job[q].proc => r = q

VisibleInv ==
    /\ OneFlight
    /\ InFlightIsVisible
    /\ \A r \in Runs : job[r].pc \in {"record", "super", "tdDetach"} => live[job[r].proc] = r

IInv == TypeOK /\ HandInv /\ LockInv /\ GameInv /\ VisibleInv

USE BaseAssumption, StateAssumption

(* A launch's move: where it goes and what it has in hand then; what was   *)
(* asked of it is left alone.                                              *)
Upd(j, pc, s, a, c, h, t) ==
    [pc |-> pc, proc |-> j.proc, sess |-> s, armed |-> a, carried |-> c, held |-> h,
     cancel |-> j.cancel, detach |-> j.detach, stop |-> j.stop, todo |-> t]

Stay(j, pc)    == Upd(j, pc, j.sess, j.armed, j.carried, j.held, j.todo)
Note(j, pc, s) == Upd(j, pc, s, j.armed, j.carried, j.held, j.todo)

Moved(r, j) ==
    /\ job' \in [Runs -> Job] /\ job'[r] = j
    /\ \A q \in Runs \ {r} : job'[q] = job[q]

JobPC == {"new", "gate", "unwind", "done"} \cup Flight

(* Writing fields of their types keeps a job a job.                        *)
LEMMA UpdIsJob ==
    ASSUME NEW j \in Job, NEW pc \in JobPC, NEW s \in State \cup {Absent},
           NEW a \in Devices \cup {NoDevice}, NEW c \in BOOLEAN, NEW h \in BOOLEAN,
           NEW t \in SUBSET Ports
    PROVE  Upd(j, pc, s, a, c, h, t) \in Job
  BY DEF Upd, Job, JobPC

(* The type of every field of a job.                                       *)
LEMMA JobFields ==
    ASSUME TypeOK, NEW r \in Runs
    PROVE  /\ job[r] \in Job
           /\ job[r].pc \in JobPC /\ job[r].proc \in Procs \cup {NoProc}
           /\ job[r].sess \in State \cup {Absent} /\ job[r].armed \in Devices \cup {NoDevice}
           /\ job[r].carried \in BOOLEAN /\ job[r].held \in BOOLEAN
           /\ job[r].cancel \in BOOLEAN /\ job[r].todo \in SUBSET Ports
  BY DEF TypeOK, Job, JobPC

(* Every place a launch can be is one.                                     *)
LEMMA PCs ==
    /\ WithState \subseteq JobPC
    /\ {"pass", "unwind", "done"} \subseteq JobPC
    /\ \A pc \in {"pass", "prep", "wired", "wiredAdd", "rollback", "reset", "stage", "arm", "switch",
                  "dash", "dashSave", "spawn", "publish", "record", "super", "tdDetach", "tdKill",
                  "tdDash", "tdDashSave", "tdAudio", "tdAudioSave", "tdFinish", "tdClear", "tdLive",
                  "unwind", "done"} : pc \in JobPC
  BY DEF JobPC, Flight, WithState, Preparing, Guarding, Running, Ending

LEMMA ExceptMoves ==
    ASSUME TypeOK, NEW r \in Runs, NEW e, job' = [job EXCEPT ![r] = e], job'[r] \in Job
    PROVE  Moved(r, job'[r])
  BY DEF TypeOK, Moved

LEMMA GoMoves ==
    ASSUME TypeOK, NEW r \in Runs, NEW pc \in JobPC, Go(r, pc)
    PROVE  Moved(r, Stay(job[r], pc))
<1>1. Stay(job[r], pc) \in Job
  BY JobFields, UpdIsJob DEF Stay
<1>2. job'[r] = Stay(job[r], pc)
  BY DEF Go, TypeOK, Job, Stay, Upd
<1>3. /\ job' \in [Runs -> Job]
      /\ \A q \in Runs \ {r} : job'[q] = job[q]
  BY <1>1, <1>2 DEF Go, TypeOK
<1> QED
  BY <1>2, <1>3 DEF Moved

LEMMA CloseDashboardMoves ==
    ASSUME TypeOK, HandInv, NEW r \in Runs, CloseDashboard(r)
    PROVE  LET j == job[r] IN
           IF j.held
           THEN Moved(r, Upd(j, "tdDashSave", [j.sess EXCEPT !.dashboard_closed = TRUE],
                              j.armed, j.carried, FALSE, j.todo))
           ELSE Moved(r, Stay(j, "tdAudio"))
<1> DEFINE j == job[r]
           s == [j.sess EXCEPT !.dashboard_closed = TRUE]
           k == Upd(j, "tdDashSave", s, j.armed, j.carried, FALSE, j.todo)
<1>1. CASE j.held
  <2>1. j.sess \in State
    BY DEF CloseDashboard, At, HandInv, WithState, Ending
  <2>2. s \in State
    BY <2>1 DEF State
  <2>3. k \in Job
    BY <2>2, JobFields, UpdIsJob DEF JobPC, Flight, WithState, Ending
  <2>4. job'[r] = k
    BY <1>1, <2>1 DEF CloseDashboard, TypeOK, Job, Upd
  <2>5. job' = [job EXCEPT ![r] = [j EXCEPT !.pc = "tdDashSave", !.held = FALSE,
                                         !.sess.dashboard_closed = TRUE]]
    BY <1>1 DEF CloseDashboard
  <2> QED
    BY <1>1, <2>3, <2>4, <2>5, ExceptMoves
<1>2. CASE ~j.held
  <2>1. Go(r, "tdAudio")
    BY <1>2 DEF CloseDashboard
  <2> QED
    BY <1>2, <2>1, GoMoves, PCs
<1> QED
  BY <1>1, <1>2

(* The record a launch past its pass has in hand.                          *)
LEMMA InHand ==
    ASSUME TypeOK, HandInv, NEW r \in Runs, job[r].pc \in WithState \cup {"unwind"}
    PROVE  job[r].sess \in State /\ job[r].sess.run = r /\ job[r].sess.owner = job[r].proc
  BY DEF HandInv

LEMMA RestIsJob ==
    ASSUME NEW j \in Job
    PROVE  /\ Rest(j) \in Job /\ Rest(j).pc = "done"
           /\ Rest(j).proc \in {NoProc, j.proc}
           /\ Rest(j).armed = NoDevice /\ Rest(j).held = FALSE
<1>1. CASE j.detach = "fired" \/ j.stop = "waiting"
  <2>1. Rest(j) = [pc |-> "done", proc |-> j.proc, sess |-> j.sess, armed |-> NoDevice,
                   carried |-> FALSE, held |-> FALSE, cancel |-> j.cancel, detach |-> j.detach,
                   stop |-> j.stop, todo |-> {}]
    BY <1>1 DEF Rest, NoJob
  <2> QED
    BY <2>1 DEF Job
<1>2. CASE ~(j.detach = "fired" \/ j.stop = "waiting")
  <2>1. Rest(j) = [pc |-> "done", proc |-> NoProc, sess |-> Absent, armed |-> NoDevice,
                   carried |-> FALSE, held |-> FALSE, cancel |-> FALSE, detach |-> "no",
                   stop |-> "no", todo |-> {}]
    BY <1>2 DEF Rest, NoJob
  <2> QED
    BY <2>1 DEF Job
<1> QED
  BY <1>1, <1>2

LEMMA RestMoves ==
    ASSUME TypeOK, NEW r \in Runs, job' = [job EXCEPT ![r] = Rest(@)]
    PROVE  Moved(r, Rest(job[r]))
<1>1. Rest(job[r]) \in Job
  BY JobFields, RestIsJob
<1> QED
  BY <1>1 DEF TypeOK, Moved

(* Teardown with the job it is given.                                      *)
LEMMA TeardownMoves ==
    ASSUME TypeOK, NEW r \in Runs, NEW k \in Job, NEW why, Teardown(r, why, k)
    PROVE  /\ why = "Cancelled" => Moved(r, Stay(k, "tdKill"))
           /\ why # "Cancelled" => Moved(r, Stay(k, "tdDash"))
<1>1. /\ k.armed \in Devices \cup {NoDevice} /\ k.carried \in BOOLEAN /\ k.held \in BOOLEAN
      /\ k.sess \in State \cup {Absent} /\ k.todo \in SUBSET Ports
  BY DEF Job
<1>2. Stay(k, "tdKill") \in Job /\ Stay(k, "tdDash") \in Job
  BY <1>1, PCs, UpdIsJob DEF Stay
<1>3. CASE why = "Cancelled"
  <2>1. job'[r] = Stay(k, "tdKill")
    BY <1>3 DEF Teardown, TypeOK, Job, Stay, Upd
  <2> QED
    BY <1>2, <1>3, <2>1 DEF Teardown, TypeOK, Moved
<1>4. CASE why # "Cancelled"
  <2>1. job'[r] = Stay(k, "tdDash")
    BY <1>4 DEF Teardown, TypeOK, Job, Stay, Upd
  <2> QED
    BY <1>2, <1>4, <2>1 DEF Teardown, TypeOK, Moved
<1> QED
  BY <1>3, <1>4

LEMMA GateMoves ==
    ASSUME TypeOK, NEW r \in Runs, Gate(r)
    PROVE  IF Blocked(job[r].proc) THEN Moved(r, Rest(job[r])) ELSE Moved(r, Stay(job[r], "pass"))
<1>1. CASE Blocked(job[r].proc)
  <2>1. job' = [job EXCEPT ![r] = Rest(@)]
    BY <1>1 DEF Gate, EndEarly
  <2> QED
    BY <1>1, <2>1, RestMoves
<1>2. CASE ~Blocked(job[r].proc)
  <2>1. Go(r, "pass")
    BY <1>2 DEF Gate
  <2> QED
    BY <1>2, <2>1, PCs, GoMoves
<1> QED
  BY <1>1, <1>2

LEMMA HygieneMoves ==
    ASSUME TypeOK, NEW r \in Runs, Hygiene(r)
    PROVE  LET j == job[r] IN
           \/ Moved(r, Upd(j, "wired", j.sess, j.armed, j.carried, j.held, Ports))
           \/ Moved(r, Stay(j, "reset"))
<1> DEFINE j == job[r]
           k == Upd(j, "wired", j.sess, j.armed, j.carried, j.held, Ports)
<1>1. CASE job' = [job EXCEPT ![r].pc = "wired", ![r].todo = Ports]
  <2>1. k \in Job
    BY JobFields, PCs, UpdIsJob
  <2>2. job'[r] = [j EXCEPT !.pc = "wired", !.todo = Ports]
    BY <1>1 DEF TypeOK
  <2>3. job'[r] = k
    BY <2>2, JobFields DEF Job, Upd
  <2> QED
    BY <1>1, <2>1, <2>3 DEF TypeOK, Moved
<1>2. CASE Go(r, "reset")
  BY <1>2, PCs, GoMoves
<1> QED
  BY <1>1, <1>2 DEF Hygiene

LEMMA RecordForwardMoves ==
    ASSUME TypeOK, HandInv, NEW r \in Runs, RecordForward(r)
    PROVE  LET j == job[r]
               s == [j.sess EXCEPT !.fwds = @ \cup {NextPort(r)}] IN
           \/ j.todo = {} /\ Moved(r, Stay(j, "reset"))
           \/ /\ j.todo # {} /\ s \in State
              /\ Moved(r, Note(j, "wiredAdd", s)) \/ Moved(r, Note(j, "rollback", s))
<1> DEFINE j == job[r]
           s == [j.sess EXCEPT !.fwds = @ \cup {NextPort(r)}]
<1>1. CASE j.todo = {}
  <2>1. Go(r, "reset")
    BY <1>1 DEF RecordForward
  <2> QED
    BY <1>1, <2>1, PCs, GoMoves
<1>2. CASE j.todo # {}
  <2>1. j.sess \in State
    BY InHand DEF RecordForward, At, WithState, Preparing
  <2>2. NextPort(r) \in Ports
    BY <1>2, JobFields DEF NextPort
  <2>3. s \in State
    BY <2>1, <2>2 DEF State
  <2>4. ASSUME NEW pc \in {"wiredAdd", "rollback"},
               job' = [job EXCEPT ![r].pc = pc, ![r].sess = s]
        PROVE  Moved(r, Note(j, pc, s))
    <3>1. Note(j, pc, s) \in Job
      BY <2>3, JobFields, PCs, UpdIsJob DEF Note
    <3>2. job'[r] = [j EXCEPT !.pc = pc, !.sess = s]
      BY <2>4 DEF TypeOK
    <3>3. job'[r] = Note(j, pc, s)
      BY <3>2, JobFields DEF Job, Upd, Note
    <3> QED
      BY <2>4, <3>1, <3>3 DEF TypeOK, Moved
  <2>5. \/ job' = [job EXCEPT ![r].pc = "wiredAdd", ![r].sess = s]
        \/ job' = [job EXCEPT ![r].pc = "rollback", ![r].sess = s]
    BY <1>2 DEF RecordForward
  <2> QED
    BY <1>2, <2>3, <2>4, <2>5
<1> QED
  BY <1>1, <1>2

LEMMA AddForwardMoves ==
    ASSUME TypeOK, NEW r \in Runs, AddForward(r)
    PROVE  LET j == job[r] IN
           \/ Moved(r, Upd(j, "wired", j.sess, j.armed, j.carried, j.held, j.todo \ {NextPort(r)}))
           \/ Moved(r, Stay(j, "rollback"))
<1> DEFINE j == job[r]
           k == Upd(j, "wired", j.sess, j.armed, j.carried, j.held, j.todo \ {NextPort(r)})
<1>1. CASE job' = [job EXCEPT ![r].pc = "wired", ![r].todo = @ \ {NextPort(r)}]
  <2>1. k \in Job
    BY JobFields, PCs, UpdIsJob
  <2>2. job'[r] = [j EXCEPT !.pc = "wired", !.todo = @ \ {NextPort(r)}]
    BY <1>1 DEF TypeOK
  <2>3. job'[r] = k
    BY <2>2, JobFields DEF Job, Upd
  <2> QED
    BY <1>1, <2>1, <2>3 DEF TypeOK, Moved
<1>2. CASE Go(r, "rollback")
  BY <1>2, PCs, GoMoves
<1> QED
  BY <1>1, <1>2 DEF AddForward

LEMMA ArmMoves ==
    ASSUME TypeOK, HandInv, NEW r \in Runs, Arm(r)
    PROVE  LET j == job[r]
               carried == AudioPending(j.sess)
               prev == IF carried THEN j.sess.prev ELSE mac.output
               s == [j.sess EXCEPT !.prev = prev] IN
           /\ prev \in Devices \cup {NoDevice} /\ s \in State
           /\ \/ Moved(r, Stay(j, "dash"))
              \/ Moved(r, Upd(j, "switch", s, prev, carried, j.held, j.todo))
              \/ Moved(r, Note(j, "tdDash", s))
<1> DEFINE j == job[r]
           carried == AudioPending(j.sess)
           prev == IF carried THEN j.sess.prev ELSE mac.output
           s == [j.sess EXCEPT !.prev = prev]
           k == Upd(j, "switch", s, prev, carried, j.held, j.todo)
<1>1. j.sess \in State
  BY InHand DEF Arm, At, WithState, Guarding
<1>2. prev \in Devices \cup {NoDevice} /\ carried \in BOOLEAN
  BY <1>1 DEF TypeOK, Macs, State, AudioPending
<1>3. s \in State
  BY <1>1, <1>2 DEF State
<1>4. CASE job' = [job EXCEPT ![r] = [j EXCEPT !.pc = "switch", !.sess = s, !.armed = prev,
                                                !.carried = carried]]
  <2>1. k \in Job
    BY <1>2, <1>3, JobFields, PCs, UpdIsJob
  <2>2. job'[r] = [j EXCEPT !.pc = "switch", !.sess = s, !.armed = prev, !.carried = carried]
    BY <1>4 DEF TypeOK
  <2>3. job'[r] = k
    BY <2>2, <1>2, <1>3, JobFields DEF Job, Upd
  <2> QED
    BY <1>2, <1>3, <1>4, <2>1, <2>3 DEF TypeOK, Moved
<1>5. CASE Teardown(r, "Failed", [j EXCEPT !.sess = s])
  <2>1. [j EXCEPT !.sess = s] \in Job
    BY <1>3, JobFields DEF Job
  <2>2. Moved(r, Stay([j EXCEPT !.sess = s], "tdDash"))
    BY <1>5, <2>1, TeardownMoves
  <2>3. Stay([j EXCEPT !.sess = s], "tdDash") = Note(j, "tdDash", s)
    BY JobFields DEF Job, Stay, Note, Upd
  <2> QED
    BY <1>2, <1>3, <2>2, <2>3
<1>6. CASE Go(r, "dash")
  BY <1>2, <1>3, <1>6, PCs, GoMoves
<1> QED
  BY <1>4, <1>5, <1>6 DEF Arm

LEMMA SwitchMoves ==
    ASSUME TypeOK, HandInv, NEW r \in Runs, Switch(r)
    PROVE  LET j == job[r]
               s == [j.sess EXCEPT !.prev = NoDevice] IN
           /\ s \in State
           /\ \/ Moved(r, Stay(j, "dash"))
              \/ Moved(r, Stay(j, "tdKill"))
              \/ Moved(r, Upd(j, "dash", j.sess, NoDevice, j.carried, j.held, j.todo))
              \/ Moved(r, Upd(j, "dash", s, NoDevice, j.carried, j.held, j.todo))
              \/ Moved(r, Upd(j, "tdDash", s, NoDevice, j.carried, j.held, j.todo))
<1> DEFINE j == job[r]
           s == [j.sess EXCEPT !.prev = NoDevice]
           g == [j EXCEPT !.sess = s, !.armed = NoDevice]
           k == Upd(j, "dash", j.sess, NoDevice, j.carried, j.held, j.todo)
           l == Upd(j, "dash", s, NoDevice, j.carried, j.held, j.todo)
<1>1. j.sess \in State
  BY InHand DEF Switch, At, WithState, Guarding
<1>2. s \in State
  BY <1>1 DEF State
<1>3. g \in Job
  BY <1>2, JobFields DEF Job
<1>4. CASE job' = [job EXCEPT ![r].pc = "dash", ![r].armed = NoDevice]
  <2>1. k \in Job
    BY JobFields, PCs, UpdIsJob
  <2>2. job'[r] = [j EXCEPT !.pc = "dash", !.armed = NoDevice]
    BY <1>4 DEF TypeOK
  <2>3. job'[r] = k
    BY <2>2, JobFields DEF Job, Upd
  <2> QED
    BY <1>2, <1>4, <2>1, <2>3 DEF TypeOK, Moved
<1>5. CASE job' = [job EXCEPT ![r] = [g EXCEPT !.pc = "dash"]]
  <2>1. l \in Job
    BY <1>2, JobFields, PCs, UpdIsJob
  <2>2. job'[r] = [g EXCEPT !.pc = "dash"]
    BY <1>5 DEF TypeOK
  <2>3. job'[r] = l
    BY <2>2, <1>2, JobFields DEF Job, Upd
  <2> QED
    BY <1>2, <1>5, <2>1, <2>3 DEF TypeOK, Moved
<1>6. CASE Teardown(r, "Failed", g)
  <2>1. Moved(r, Stay(g, "tdDash"))
    BY <1>3, <1>6, TeardownMoves
  <2>2. Stay(g, "tdDash") = Upd(j, "tdDash", s, NoDevice, j.carried, j.held, j.todo)
    BY JobFields DEF Job, Stay, Upd
  <2> QED
    BY <1>2, <2>1, <2>2
<1>7. CASE Go(r, "dash") \/ Teardown(r, "Cancelled", j)
  BY <1>2, <1>7, PCs, GoMoves, TeardownMoves, JobFields
<1> QED
  BY <1>4, <1>5, <1>6, <1>7 DEF Switch

LEMMA OpenDashboardMoves ==
    ASSUME TypeOK, HandInv, NEW r \in Runs, OpenDashboard(r)
    PROVE  LET j == job[r]
               s == [j.sess EXCEPT !.dashboard = TRUE] IN
           /\ s \in State
           /\ \/ Moved(r, Stay(j, "spawn"))
              \/ Moved(r, Note(j, "dashSave", s))
              \/ Moved(r, Stay(j, "tdDash"))
<1> DEFINE j == job[r]
           s == [j.sess EXCEPT !.dashboard = TRUE]
<1>1. j.sess \in State
  BY InHand DEF OpenDashboard, At, WithState, Guarding
<1>2. s \in State
  BY <1>1 DEF State
<1>3. CASE job' = [job EXCEPT ![r].pc = "dashSave", ![r].sess.dashboard = TRUE]
  <2>1. Note(j, "dashSave", s) \in Job
    BY <1>2, JobFields, PCs, UpdIsJob DEF Note
  <2>2. job'[r] = [j EXCEPT !.pc = "dashSave", !.sess = s]
    BY <1>3 DEF TypeOK
  <2>3. job'[r] = Note(j, "dashSave", s)
    BY <2>2, <1>2, JobFields DEF Job, Upd, Note
  <2> QED
    BY <1>2, <1>3, <2>1, <2>3 DEF TypeOK, Moved
<1>4. CASE Go(r, "spawn") \/ Teardown(r, "Failed", j)
  BY <1>2, <1>4, PCs, GoMoves, TeardownMoves, JobFields
<1> QED
  BY <1>3, <1>4 DEF OpenDashboard

LEMMA SaveDashboardMoves ==
    ASSUME TypeOK, NEW r \in Runs, SaveDashboard(r)
    PROVE  LET j == job[r] IN
           \/ Moved(r, Upd(j, "spawn", j.sess, j.armed, j.carried, TRUE, j.todo))
           \/ Moved(r, Stay(j, "tdDash"))
           \/ Moved(r, Stay(j, "tdKill"))
<1> DEFINE j == job[r]
           k == Upd(j, "spawn", j.sess, j.armed, j.carried, TRUE, j.todo)
<1>1. CASE job' = [job EXCEPT ![r].pc = "spawn", ![r].held = TRUE]
  <2>1. k \in Job
    BY JobFields, PCs, UpdIsJob
  <2>2. job'[r] = [j EXCEPT !.pc = "spawn", !.held = TRUE]
    BY <1>1 DEF TypeOK
  <2>3. job'[r] = k
    BY <2>2, JobFields DEF Job, Upd
  <2> QED
    BY <1>1, <2>1, <2>3 DEF TypeOK, Moved
<1>2. CASE Teardown(r, "Failed", j) \/ Teardown(r, "Cancelled", j)
  BY <1>2, TeardownMoves, JobFields
<1> QED
  BY <1>1, <1>2 DEF SaveDashboard

LEMMA SpawnMoves ==
    ASSUME TypeOK, HandInv, NEW r \in Runs, Spawn(r)
    PROVE  LET j == job[r] IN
           \/ \E c \in {"exact", "unobserved"} :
                 /\ [j.sess EXCEPT !.child = c] \in State
                 /\ Moved(r, Note(j, "publish", [j.sess EXCEPT !.child = c]))
           \/ Moved(r, Stay(j, "tdDash"))
<1> DEFINE j == job[r]
<1>1. j.sess \in State
  BY InHand DEF Spawn, At, WithState, Guarding
<1>2. ASSUME NEW c \in {"exact", "unobserved"},
             job' = [job EXCEPT ![r].pc = "publish", ![r].sess.child = c]
      PROVE  /\ [j.sess EXCEPT !.child = c] \in State
             /\ Moved(r, Note(j, "publish", [j.sess EXCEPT !.child = c]))
  <2> DEFINE s == [j.sess EXCEPT !.child = c]
  <2>1. s \in State
    BY <1>1 DEF State, ChildStates
  <2>2. Note(j, "publish", s) \in Job
    BY <2>1, JobFields, PCs, UpdIsJob DEF Note
  <2>3. job'[r] = [j EXCEPT !.pc = "publish", !.sess = s]
    BY <1>2 DEF TypeOK
  <2>4. job'[r] = Note(j, "publish", s)
    BY <2>3, JobFields DEF Job, Upd, Note
  <2> QED
    BY <1>2, <2>1, <2>2, <2>4 DEF TypeOK, Moved
<1>3. CASE Teardown(r, "Failed", j)
  BY <1>3, TeardownMoves, JobFields
<1> QED
  BY <1>2, <1>3 DEF Spawn

LEMMA SuperviseMoves ==
    ASSUME TypeOK, HandInv, NEW r \in Runs, Supervise(r)
    PROVE  LET j == job[r]
               s == [j.sess EXCEPT !.detached = TRUE] IN
           /\ s \in State
           /\ \/ Moved(r, Stay(j, "tdKill"))
              \/ Moved(r, Stay(j, "tdDash"))
              \/ Moved(r, Note(j, "tdDetach", s))
<1> DEFINE j == job[r]
           s == [j.sess EXCEPT !.detached = TRUE]
<1>1. j.sess \in State
  BY InHand DEF Supervise, At, WithState, Running
<1>2. s \in State
  BY <1>1 DEF State
<1>3. CASE job' = [job EXCEPT ![r].pc = "tdDetach", ![r].sess.detached = TRUE]
  <2>1. Note(j, "tdDetach", s) \in Job
    BY <1>2, JobFields, PCs, UpdIsJob DEF Note
  <2>2. job'[r] = [j EXCEPT !.pc = "tdDetach", !.sess = s]
    BY <1>3 DEF TypeOK
  <2>3. job'[r] = Note(j, "tdDetach", s)
    BY <2>2, <1>2, JobFields DEF Job, Upd, Note
  <2> QED
    BY <1>2, <1>3, <2>1, <2>3 DEF TypeOK, Moved
<1>4. CASE Teardown(r, "Cancelled", j) \/ Teardown(r, "Normal", j)
  BY <1>2, <1>4, TeardownMoves, JobFields
<1> QED
  BY <1>3, <1>4 DEF Supervise

LEMMA DetachSaveMoves ==
    ASSUME TypeOK, NEW r \in Runs, DetachSave(r)
    PROVE  LET j == job[r] IN
           \/ Moved(r, Upd(j, "tdLive", j.sess, NoDevice, j.carried, FALSE, j.todo))
           \/ Moved(r, Stay(j, "tdLive"))
<1> DEFINE j == job[r]
           k == Upd(j, "tdLive", j.sess, NoDevice, j.carried, FALSE, j.todo)
<1>1. CASE job' = [job EXCEPT ![r].pc = "tdLive", ![r].armed = NoDevice, ![r].held = FALSE]
  <2>1. k \in Job
    BY JobFields, PCs, UpdIsJob
  <2>2. job'[r] = [j EXCEPT !.pc = "tdLive", !.armed = NoDevice, !.held = FALSE]
    BY <1>1 DEF TypeOK
  <2>3. job'[r] = k
    BY <2>2, JobFields DEF Job, Upd
  <2> QED
    BY <1>1, <2>1, <2>3 DEF TypeOK, Moved
<1>2. CASE Go(r, "tdLive")
  BY <1>2, PCs, GoMoves
<1> QED
  BY <1>1, <1>2 DEF DetachSave

LEMMA RestoreOutputMoves ==
    ASSUME TypeOK, HandInv, NEW r \in Runs, RestoreOutput(r)
    PROVE  LET j == job[r]
               s == [j.sess EXCEPT !.audio_restored = TRUE] IN
           /\ s \in State
           /\ IF j.armed = NoDevice THEN Moved(r, Stay(j, "tdFinish"))
              ELSE \/ Moved(r, Upd(j, "tdAudioSave", s, NoDevice, j.carried, j.held, j.todo))
                   \/ Moved(r, Upd(j, "tdAudioSave", j.sess, NoDevice, j.carried, j.held, j.todo))
<1> DEFINE j == job[r]
           s == [j.sess EXCEPT !.audio_restored = TRUE]
           k == Upd(j, "tdAudioSave", s, NoDevice, j.carried, j.held, j.todo)
           l == Upd(j, "tdAudioSave", j.sess, NoDevice, j.carried, j.held, j.todo)
<1>1. j.sess \in State
  BY InHand DEF RestoreOutput, At, WithState, Ending
<1>2. s \in State
  BY <1>1 DEF State
<1>3. ASSUME job' = [job EXCEPT ![r].pc = "tdAudioSave", ![r].armed = NoDevice,
                                ![r].sess.audio_restored = TRUE]
      PROVE  Moved(r, k)
  <2>1. k \in Job
    BY <1>2, JobFields, PCs, UpdIsJob
  <2>2. job'[r] = [j EXCEPT !.pc = "tdAudioSave", !.armed = NoDevice, !.sess = s]
    BY <1>3 DEF TypeOK
  <2>3. job'[r] = k
    BY <2>2, JobFields DEF Job, Upd
  <2> QED
    BY <1>3, <2>1, <2>3 DEF TypeOK, Moved
<1>4. ASSUME job' = [job EXCEPT ![r].pc = "tdAudioSave", ![r].armed = NoDevice]
      PROVE  Moved(r, l)
  <2>1. l \in Job
    BY <1>1, JobFields, PCs, UpdIsJob
  <2>2. job'[r] = [j EXCEPT !.pc = "tdAudioSave", !.armed = NoDevice]
    BY <1>4 DEF TypeOK
  <2>3. job'[r] = l
    BY <2>2, JobFields DEF Job, Upd
  <2> QED
    BY <1>4, <2>1, <2>3 DEF TypeOK, Moved
<1>5. ASSUME Go(r, "tdFinish")
      PROVE  Moved(r, Stay(j, "tdFinish"))
  BY <1>5, PCs, GoMoves
<1> QED
  BY <1>2, <1>3, <1>4, <1>5 DEF RestoreOutput

(* What the calls every stage makes leave of the types.                    *)
LEMMA SaveTypes ==
    ASSUME TypeOK, NEW p, NEW s \in State, Save(p, s)
    PROVE  disk' \in State \cup {Absent} /\ budget' \in Budgets
<1>1. CASE SaveOk(p, s)
  BY <1>1 DEF SaveOk, TypeOK
<1>2. CASE SaveErr(p, s)
  BY <1>2 DEF SaveErr, TypeOK, Budgets
<1> QED
  BY <1>1, <1>2 DEF Save

LEMMA SlotTypes ==
    ASSUME TypeOK, NEW r \in Runs, NEW p \in Procs
    PROVE  /\ Unlock(r) => lock' \in Locks
           /\ ClearPhase(p, r) => phase' \in [Procs -> Phases]
           /\ ClearLive(p, r) => live' \in [Procs -> Runs \cup {NoRun}]
           /\ \A ph \in {"Preflight", "Launching", "Stopping", "Exited"} :
                 Publish(p, r, ph) => phase' \in [Procs -> Phases]
<1>1. FreeLock \in Locks /\ NoPhase \in Phases
  BY DEF FreeLock, NoPhase, Locks, Phases
<1>2. Unlock(r) => lock' \in Locks
  BY <1>1 DEF Unlock, TypeOK
<1>3. ClearPhase(p, r) => phase' \in [Procs -> Phases]
  BY <1>1 DEF ClearPhase, TypeOK
<1>4. ClearLive(p, r) => live' \in [Procs -> Runs \cup {NoRun}]
  BY DEF ClearLive, TypeOK
<1>5. ASSUME NEW ph \in {"Preflight", "Launching", "Stopping", "Exited"}, Publish(p, r, ph)
      PROVE  phase' \in [Procs -> Phases]
  <2>1. [ph |-> ph, run |-> r] \in Phases
    BY DEF Phases
  <2> QED
    BY <1>5, <2>1 DEF Publish, TypeOK
<1> QED
  BY <1>2, <1>3, <1>4, <1>5

LEMMA WineKilledType ==
    ASSUME TypeOK
    PROVE  WineKilled \in [Runs -> WineStates]
  BY DEF TypeOK, WineKilled, WineStates

(* A launch's move keeps HandInv when what it has in hand then is its own. *)
LEMMA MovedHand ==
    ASSUME TypeOK, HandInv, NEW r \in Runs, NEW k \in Job, Moved(r, k), up' = up,
           pass'.pc \in PassLoaded => pass'.st \in State,
           k.pc \in WithState \cup {"unwind"} =>
              k.sess \in State /\ k.sess.run = r /\ k.sess.owner = k.proc,
           k.pc = "wiredAdd" => k.todo # {},
           k.pc \notin {"new", "done"} => k.proc \in up
    PROVE  HandInv'
  BY DEF Moved, HandInv

(* ... which it is when it only writes other fields of its record.         *)
OthersTyped ==
    /\ disk' \in State \cup {Absent} /\ wine' \in [Runs -> WineStates] /\ mac' \in Macs
    /\ lock' \in Locks /\ live' \in [Procs -> Runs \cup {NoRun}] /\ phase' \in [Procs -> Phases]
    /\ budget' \in Budgets /\ UNCHANGED <<up, pass>>

LEMMA KeepTypes ==
    ASSUME TypeOK, HandInv, OthersTyped, NEW r \in Runs, NEW k \in Job, Moved(r, k),
           job[r].pc \in WithState, k.proc = job[r].proc, k.sess \in State,
           k.sess.run = job[r].sess.run, k.sess.owner = job[r].sess.owner,
           k.pc = "wiredAdd" => k.todo # {}
    PROVE  TypeOK' /\ HandInv'
<1>1. job[r].sess.run = r /\ job[r].sess.owner = job[r].proc
  BY InHand
<1>2. job[r].proc \in up
  BY DEF HandInv, WithState, Preparing, Guarding, Running, Ending
<1>3. TypeOK'
  BY DEF OthersTyped, TypeOK, Moved
<1>4. pass'.pc \in PassLoaded => pass'.st \in State
  BY DEF OthersTyped, HandInv
<1> QED
  BY <1>1, <1>2, <1>3, <1>4, MovedHand DEF OthersTyped

LEMMA StayTypes ==
    ASSUME TypeOK, HandInv, OthersTyped, NEW r \in Runs, NEW pc \in JobPC, pc # "wiredAdd",
           job[r].pc \in WithState, Moved(r, Stay(job[r], pc))
    PROVE  TypeOK' /\ HandInv'
<1>1. Stay(job[r], pc) \in Job
  BY JobFields, UpdIsJob DEF Stay
<1> QED
  BY <1>1, InHand, KeepTypes DEF Stay, Upd

LEMMA RestHand ==
    ASSUME TypeOK, HandInv, NEW r \in Runs, Moved(r, Rest(job[r])), up' = up,
           pass'.pc \in PassLoaded => pass'.st \in State
    PROVE  HandInv'
<1>1. Rest(job[r]) \in Job /\ Rest(job[r]).pc = "done"
  BY JobFields, RestIsJob
<1> QED
  BY <1>1, MovedHand DEF WithState, Preparing, Guarding, Running, Ending

LEMMA GateTypes ==
    ASSUME TypeOK, HandInv, NEW r \in Runs, Gate(r)
    PROVE  TypeOK' /\ HandInv'
<1> DEFINE j == job[r]
<1>1. j.proc \in up /\ j.proc \in Procs
  BY DEF Gate, At, TypeOK
<1>2. CASE Blocked(j.proc)
  <2>1. Moved(r, Rest(j))
    BY <1>2, GateMoves
  <2>2. lock' \in Locks /\ phase' \in [Procs -> Phases]
    BY <1>1, <1>2, SlotTypes DEF Gate, EndEarly
  <2>3. TypeOK'
    BY <1>2, <2>1, <2>2 DEF Gate, Moved, TypeOK
  <2> QED
    BY <1>2, <2>1, <2>3, RestHand DEF Gate, HandInv
<1>3. CASE ~Blocked(j.proc)
  <2>1. Moved(r, Stay(j, "pass"))
    BY <1>3, GateMoves
  <2>2. lock' = lock /\ phase' \in [Procs -> Phases]
    BY <1>1, <1>3, SlotTypes DEF Gate
  <2>3. pass' \in Pass /\ pass'.pc = "load"
    BY <1>3 DEF Gate, NoPass, Pass
  <2>4. TypeOK'
    BY <1>3, <2>1, <2>2, <2>3 DEF Gate, Moved, TypeOK
  <2>5. HandInv'
    BY <1>1, <1>3, <2>1, <2>3
       DEF Gate, HandInv, Moved, Stay, Upd, PassLoaded, WithState, Preparing, Guarding, Running, Ending
  <2> QED
    BY <2>4, <2>5
<1> QED
  BY <1>2, <1>3

LEMMA EndEarlyTypes ==
    ASSUME TypeOK, HandInv, NEW r \in Runs, job[r].proc \in up, EndEarly(r),
           UNCHANGED <<up, wine, pass, live>>, disk' \in State \cup {Absent}, mac' \in Macs,
           budget' \in Budgets
    PROVE  TypeOK' /\ HandInv'
<1>1. Moved(r, Rest(job[r]))
  BY RestMoves DEF EndEarly
<1>2. job[r].proc \in Procs
  BY DEF TypeOK
<1>3. lock' \in Locks /\ phase' \in [Procs -> Phases]
  BY <1>2, SlotTypes DEF EndEarly
<1>4. TypeOK'
  BY <1>1, <1>3 DEF Moved, TypeOK
<1> QED
  BY <1>1, <1>4, RestHand DEF HandInv

LEMMA HygieneTypes ==
    ASSUME TypeOK, HandInv, NEW r \in Runs, Hygiene(r)
    PROVE  TypeOK' /\ HandInv'
<1> DEFINE j == job[r]
           k == Upd(j, "wired", j.sess, j.armed, j.carried, j.held, Ports)
<1>1. j.pc \in WithState /\ j.sess \in State
  BY InHand DEF Hygiene, At, WithState, Preparing
<1>2. mac' \in Macs
  BY DEF Hygiene, TypeOK, Macs
<1>3. OthersTyped
  BY <1>2 DEF Hygiene, TypeOK, OthersTyped
<1>4. CASE Moved(r, k)
  <2>1. k \in Job /\ k.proc = j.proc /\ k.sess = j.sess /\ k.pc = "wired"
    BY JobFields, PCs, UpdIsJob DEF Upd
  <2> QED
    BY <1>1, <1>3, <1>4, <2>1, KeepTypes
<1>5. CASE Moved(r, Stay(j, "reset"))
  BY <1>1, <1>3, <1>5, PCs, StayTypes
<1> QED
  BY <1>4, <1>5, HygieneMoves

LEMMA RecordForwardTypes ==
    ASSUME TypeOK, HandInv, NEW r \in Runs, RecordForward(r)
    PROVE  TypeOK' /\ HandInv'
<1> DEFINE j == job[r]
           s == [j.sess EXCEPT !.fwds = @ \cup {NextPort(r)}]
<1>1. j.pc \in WithState /\ j.sess \in State
  BY InHand DEF RecordForward, At, WithState, Preparing
<1>2. CASE j.todo = {}
  <2>1. OthersTyped
    BY <1>2 DEF RecordForward, TypeOK, OthersTyped
  <2>2. Moved(r, Stay(j, "reset"))
    BY <1>2, RecordForwardMoves
  <2> QED
    BY <1>1, <2>1, <2>2, PCs, StayTypes
<1>3. CASE j.todo # {}
  <2>1. s \in State /\ (Moved(r, Note(j, "wiredAdd", s)) \/ Moved(r, Note(j, "rollback", s)))
    BY <1>3, RecordForwardMoves
  <2>2. s.run = j.sess.run /\ s.owner = j.sess.owner
    BY <1>1 DEF State
  <2>3. \/ disk' = disk /\ budget' = budget
        \/ Save(j.proc, s)
    BY <1>3 DEF RecordForward, Save
  <2>4. disk' \in State \cup {Absent} /\ budget' \in Budgets
    <3>1. CASE Save(j.proc, s)
      BY <2>1, <3>1, SaveTypes
    <3> QED
      BY <2>3, <3>1 DEF TypeOK
  <2>5. OthersTyped
    BY <1>3, <2>4 DEF RecordForward, TypeOK, OthersTyped
  <2>6. ASSUME NEW pc \in {"wiredAdd", "rollback"}, Moved(r, Note(j, pc, s))
        PROVE  TypeOK' /\ HandInv'
    <3> DEFINE k == Note(j, pc, s)
    <3>1. k \in Job /\ k.proc = j.proc /\ k.sess = s /\ k.todo = j.todo
      BY <2>1, JobFields, PCs, UpdIsJob DEF Note, Upd
    <3> QED
      BY <1>1, <1>3, <2>1, <2>2, <2>5, <2>6, <3>1, KeepTypes
  <2> QED
    BY <2>1, <2>6
<1> QED
  BY <1>2, <1>3

LEMMA AddForwardTypes ==
    ASSUME TypeOK, HandInv, NEW r \in Runs, AddForward(r)
    PROVE  TypeOK' /\ HandInv'
<1> DEFINE j == job[r]
           k == Upd(j, "wired", j.sess, j.armed, j.carried, j.held, j.todo \ {NextPort(r)})
<1>1. j.pc \in WithState /\ j.sess \in State
  BY InHand DEF AddForward, At, WithState, Preparing
<1>2. NextPort(r) \in Ports
  BY JobFields DEF NextPort, AddForward, At, HandInv
<1>3. mac' \in Macs
  BY <1>2 DEF AddForward, TypeOK, Macs
<1>4. OthersTyped
  BY <1>3 DEF AddForward, TypeOK, OthersTyped
<1>5. CASE Moved(r, k)
  <2>1. k \in Job /\ k.proc = j.proc /\ k.sess = j.sess /\ k.pc = "wired"
    BY JobFields, PCs, UpdIsJob DEF Upd
  <2> QED
    BY <1>1, <1>4, <1>5, <2>1, KeepTypes
<1>6. CASE Moved(r, Stay(j, "rollback"))
  BY <1>1, <1>4, <1>6, PCs, StayTypes
<1> QED
  BY <1>5, <1>6, AddForwardMoves

LEMMA RollbackTypes ==
    ASSUME TypeOK, HandInv, NEW r \in Runs, Rollback(r)
    PROVE  TypeOK' /\ HandInv'
<1> DEFINE j == job[r]
<1>1. j.sess \in State /\ j.proc \in up
  BY InHand DEF Rollback, At, WithState, Preparing
<1>2. PICK gone \in SUBSET (Ports \cap mac.forwards) :
         /\ mac' = [mac EXCEPT !.forwards = @ \ gone]
         /\ Save(j.proc, [j.sess EXCEPT !.fwds = @ \ gone])
  BY DEF Rollback
<1>3. mac' \in Macs
  BY <1>2 DEF TypeOK, Macs
<1>4. [j.sess EXCEPT !.fwds = @ \ gone] \in State
  BY <1>1 DEF State
<1>5. disk' \in State \cup {Absent} /\ budget' \in Budgets
  BY <1>2, <1>4, SaveTypes
<1> QED
  BY <1>1, <1>3, <1>5, EndEarlyTypes DEF Rollback

(* The steps before the guards.                                            *)
LEMMA PrepareTypes ==
    ASSUME TypeOK, HandInv, NEW r \in Runs,
           \/ Abandon(r) \/ Hygiene(r) \/ RecordForward(r) \/ AddForward(r) \/ Rollback(r)
           \/ Reset(r) \/ Prepared(r)
    PROVE  TypeOK' /\ HandInv'
<1>1. CASE Abandon(r)
  BY <1>1, EndEarlyTypes DEF Abandon, At, TypeOK
<1>2. CASE Reset(r)
  <2>1. OthersTyped
    BY <1>2, WineKilledType DEF Reset, TypeOK, OthersTyped
  <2>2. job[r].pc \in WithState /\ Moved(r, Stay(job[r], "stage"))
    BY <1>2, PCs, GoMoves DEF Reset, At, WithState, Preparing
  <2> QED
    BY <2>1, <2>2, PCs, StayTypes
<1>3. CASE Prepared(r)
  <2>1. job[r].proc \in Procs
    BY <1>3 DEF Prepared, At, TypeOK
  <2>2. phase' \in [Procs -> Phases]
    BY <1>3, <2>1, SlotTypes DEF Prepared
  <2>3. OthersTyped
    BY <1>3, <2>2 DEF Prepared, TypeOK, OthersTyped
  <2>4. job[r].pc \in WithState /\ Moved(r, Stay(job[r], "arm"))
    BY <1>3, PCs, GoMoves DEF Prepared, At, WithState, Preparing
  <2> QED
    BY <2>3, <2>4, PCs, StayTypes
<1> QED
  BY <1>1, <1>2, <1>3, HygieneTypes, RecordForwardTypes, AddForwardTypes, RollbackTypes

LEMMA TeardownSlots ==
    ASSUME TypeOK, NEW r \in Runs, NEW k, NEW why, Teardown(r, why, k), job[r].proc \in Procs
    PROVE  lock' \in Locks /\ phase' \in [Procs -> Phases]
  BY SlotTypes DEF Teardown

LEMMA ArmTypes ==
    ASSUME TypeOK, HandInv, NEW r \in Runs, Arm(r)
    PROVE  TypeOK' /\ HandInv'
<1> DEFINE j == job[r]
           carried == AudioPending(j.sess)
           prev == IF carried THEN j.sess.prev ELSE mac.output
           s == [j.sess EXCEPT !.prev = prev]
           k == Upd(j, "switch", s, prev, carried, j.held, j.todo)
           l == Note(j, "tdDash", s)
<1>1. j.pc \in WithState /\ j.sess \in State /\ j.proc \in Procs
  BY InHand DEF Arm, At, WithState, Guarding, TypeOK
<1>2. s \in State /\ prev \in Devices \cup {NoDevice} /\ carried \in BOOLEAN
  BY ArmMoves DEF AudioPending
<1>3. s.run = j.sess.run /\ s.owner = j.sess.owner
  BY <1>1 DEF State
<1>4. /\ disk' \in State \cup {Absent} /\ budget' \in Budgets
      /\ lock' \in Locks /\ phase' \in [Procs -> Phases]
  <2>1. CASE UNCHANGED <<disk, lock, phase, budget>>
    BY <2>1 DEF TypeOK
  <2>2. CASE SaveOk(j.proc, s) /\ UNCHANGED <<lock, phase>>
    BY <1>2, <2>2, SaveTypes DEF Save, TypeOK
  <2>3. CASE SaveErr(j.proc, s) /\ Teardown(r, "Failed", [j EXCEPT !.sess = s])
    BY <1>1, <1>2, <2>3, SaveTypes, TeardownSlots DEF Save
  <2> QED
    BY <2>1, <2>2, <2>3 DEF Arm
<1>5. OthersTyped
  BY <1>4 DEF Arm, TypeOK, OthersTyped
<1>6. CASE Moved(r, Stay(j, "dash"))
  BY <1>1, <1>5, <1>6, PCs, StayTypes
<1>7. CASE Moved(r, k)
  <2>1. k \in Job /\ k.proc = j.proc /\ k.sess = s /\ k.pc = "switch"
    BY <1>2, JobFields, PCs, UpdIsJob DEF Upd
  <2> QED
    BY <1>1, <1>2, <1>3, <1>5, <1>7, <2>1, KeepTypes
<1>8. CASE Moved(r, l)
  <2>1. l \in Job /\ l.proc = j.proc /\ l.sess = s /\ l.pc = "tdDash"
    BY <1>2, JobFields, PCs, UpdIsJob DEF Note, Upd
  <2> QED
    BY <1>1, <1>2, <1>3, <1>5, <1>8, <2>1, KeepTypes
<1> QED
  BY <1>6, <1>7, <1>8, ArmMoves

LEMMA SwitchTypes ==
    ASSUME TypeOK, HandInv, NEW r \in Runs, Switch(r)
    PROVE  TypeOK' /\ HandInv'
<1> DEFINE j == job[r]
           s == [j.sess EXCEPT !.prev = NoDevice]
<1>1. j.pc \in WithState /\ j.sess \in State /\ j.proc \in Procs
  BY InHand DEF Switch, At, WithState, Guarding, TypeOK
<1>2. s \in State /\ s.run = j.sess.run /\ s.owner = j.sess.owner
  BY <1>1 DEF State
<1>3. /\ disk' \in State \cup {Absent} /\ budget' \in Budgets
      /\ lock' \in Locks /\ phase' \in [Procs -> Phases]
  <2>1. CASE UNCHANGED <<disk, lock, phase, budget>>
    BY <2>1 DEF TypeOK
  <2>2. CASE SaveOk(j.proc, s) /\ UNCHANGED <<lock, phase>>
    BY <1>2, <2>2, SaveTypes DEF Save, TypeOK
  <2>3. CASE SaveErr(j.proc, s) /\ Teardown(r, "Failed", [j EXCEPT !.sess = s, !.armed = NoDevice])
    BY <1>1, <1>2, <2>3, SaveTypes, TeardownSlots DEF Save
  <2>4. CASE Teardown(r, "Cancelled", j) /\ UNCHANGED <<disk, budget>>
    BY <1>1, <2>4, TeardownSlots DEF TypeOK
  <2> QED
    BY <2>1, <2>2, <2>3, <2>4 DEF Switch
<1>4. mac' \in Macs
  BY DEF Switch, TypeOK, Macs, Devices
<1>5. OthersTyped
  BY <1>3, <1>4 DEF Switch, TypeOK, OthersTyped
<1>6. CASE Moved(r, Stay(j, "dash")) \/ Moved(r, Stay(j, "tdKill"))
  BY <1>1, <1>5, <1>6, PCs, StayTypes
<1>7. ASSUME NEW pc \in {"dash", "tdDash"}, NEW t \in State,
             t.run = j.sess.run, t.owner = j.sess.owner,
             Moved(r, Upd(j, pc, t, NoDevice, j.carried, j.held, j.todo))
      PROVE  TypeOK' /\ HandInv'
  <2> DEFINE k == Upd(j, pc, t, NoDevice, j.carried, j.held, j.todo)
  <2>1. k \in Job /\ k.proc = j.proc /\ k.sess = t /\ k.pc = pc
    BY JobFields, PCs, UpdIsJob DEF Upd
  <2> QED
    BY <1>1, <1>5, <1>7, <2>1, KeepTypes
<1> QED
  BY <1>1, <1>2, <1>6, <1>7, SwitchMoves

LEMMA OpenDashboardTypes ==
    ASSUME TypeOK, HandInv, NEW r \in Runs, OpenDashboard(r)
    PROVE  TypeOK' /\ HandInv'
<1> DEFINE j == job[r]
           s == [j.sess EXCEPT !.dashboard = TRUE]
           k == Note(j, "dashSave", s)
<1>1. j.pc \in WithState /\ j.sess \in State /\ j.proc \in Procs
  BY InHand DEF OpenDashboard, At, WithState, Guarding, TypeOK
<1>2. s \in State /\ s.run = j.sess.run /\ s.owner = j.sess.owner
  BY <1>1 DEF State
<1>3. lock' \in Locks /\ phase' \in [Procs -> Phases]
  BY <1>1, TeardownSlots DEF OpenDashboard, TypeOK
<1>4. mac' \in Macs
  BY DEF OpenDashboard, TypeOK, Macs
<1>5. OthersTyped
  BY <1>3, <1>4 DEF OpenDashboard, TypeOK, OthersTyped
<1>6. CASE Moved(r, Stay(j, "spawn")) \/ Moved(r, Stay(j, "tdDash"))
  BY <1>1, <1>5, <1>6, PCs, StayTypes
<1>7. CASE Moved(r, k)
  <2>1. k \in Job /\ k.proc = j.proc /\ k.sess = s /\ k.pc = "dashSave"
    BY <1>2, JobFields, PCs, UpdIsJob DEF Note, Upd
  <2> QED
    BY <1>1, <1>2, <1>5, <1>7, <2>1, KeepTypes
<1> QED
  BY <1>6, <1>7, OpenDashboardMoves

LEMMA SaveDashboardTypes ==
    ASSUME TypeOK, HandInv, NEW r \in Runs, SaveDashboard(r)
    PROVE  TypeOK' /\ HandInv'
<1> DEFINE j == job[r]
           k == Upd(j, "spawn", j.sess, j.armed, j.carried, TRUE, j.todo)
<1>1. j.pc \in WithState /\ j.sess \in State /\ j.proc \in Procs
  BY InHand DEF SaveDashboard, At, WithState, Guarding, TypeOK
<1>2. /\ disk' \in State \cup {Absent} /\ budget' \in Budgets
      /\ lock' \in Locks /\ phase' \in [Procs -> Phases]
  <2>1. CASE SaveOk(j.proc, j.sess) /\ UNCHANGED <<lock, phase>>
    BY <1>1, <2>1, SaveTypes DEF Save, TypeOK
  <2>2. CASE SaveErr(j.proc, j.sess) /\ Teardown(r, "Failed", j)
    BY <1>1, <2>2, SaveTypes, TeardownSlots DEF Save
  <2>3. CASE UNCHANGED <<disk, budget>> /\ Teardown(r, "Cancelled", j)
    BY <1>1, <2>3, TeardownSlots DEF TypeOK
  <2> QED
    BY <2>1, <2>2, <2>3 DEF SaveDashboard
<1>3. mac' \in Macs
  BY DEF SaveDashboard, TypeOK, Macs
<1>4. OthersTyped
  BY <1>2, <1>3 DEF SaveDashboard, TypeOK, OthersTyped
<1>5. CASE Moved(r, Stay(j, "tdKill")) \/ Moved(r, Stay(j, "tdDash"))
  BY <1>1, <1>4, <1>5, PCs, StayTypes
<1>6. CASE Moved(r, k)
  <2>1. k \in Job /\ k.proc = j.proc /\ k.sess = j.sess /\ k.pc = "spawn"
    BY JobFields, PCs, UpdIsJob DEF Upd
  <2> QED
    BY <1>1, <1>4, <1>6, <2>1, KeepTypes
<1> QED
  BY <1>5, <1>6, SaveDashboardMoves

LEMMA SpawnTypes ==
    ASSUME TypeOK, HandInv, NEW r \in Runs, Spawn(r)
    PROVE  TypeOK' /\ HandInv'
<1> DEFINE j == job[r]
<1>1. j.pc \in WithState /\ j.sess \in State /\ j.proc \in Procs
  BY InHand DEF Spawn, At, WithState, Guarding, TypeOK
<1>2. lock' \in Locks /\ phase' \in [Procs -> Phases]
  BY <1>1, TeardownSlots DEF Spawn, TypeOK
<1>3. wine' \in [Runs -> WineStates]
  BY DEF Spawn, TypeOK, WineStates
<1>4. OthersTyped
  BY <1>2, <1>3 DEF Spawn, TypeOK, OthersTyped
<1>5. CASE Moved(r, Stay(j, "tdDash"))
  BY <1>1, <1>4, <1>5, PCs, StayTypes
<1>6. ASSUME NEW c \in {"exact", "unobserved"}, [j.sess EXCEPT !.child = c] \in State,
             Moved(r, Note(j, "publish", [j.sess EXCEPT !.child = c]))
      PROVE  TypeOK' /\ HandInv'
  <2> DEFINE s == [j.sess EXCEPT !.child = c]
             k == Note(j, "publish", s)
  <2>1. k \in Job /\ k.proc = j.proc /\ k.sess = s /\ k.pc = "publish"
    BY <1>6, JobFields, PCs, UpdIsJob DEF Note, Upd
  <2>2. s.run = j.sess.run /\ s.owner = j.sess.owner
    BY <1>1 DEF State
  <2> QED
    BY <1>1, <1>4, <1>6, <2>1, <2>2, KeepTypes
<1> QED
  BY <1>5, <1>6, SpawnMoves

LEMMA SuperviseTypes ==
    ASSUME TypeOK, HandInv, NEW r \in Runs, Supervise(r)
    PROVE  TypeOK' /\ HandInv'
<1> DEFINE j == job[r]
           s == [j.sess EXCEPT !.detached = TRUE]
           k == Note(j, "tdDetach", s)
<1>1. j.pc \in WithState /\ j.sess \in State /\ j.proc \in Procs
  BY InHand DEF Supervise, At, WithState, Running, TypeOK
<1>2. s \in State /\ s.run = j.sess.run /\ s.owner = j.sess.owner
  BY <1>1 DEF State
<1>3. lock' \in Locks /\ phase' \in [Procs -> Phases]
  BY <1>1, TeardownSlots DEF Supervise, TypeOK
<1>4. OthersTyped
  BY <1>3 DEF Supervise, TypeOK, OthersTyped
<1>5. CASE Moved(r, Stay(j, "tdKill")) \/ Moved(r, Stay(j, "tdDash"))
  BY <1>1, <1>4, <1>5, PCs, StayTypes
<1>6. CASE Moved(r, k)
  <2>1. k \in Job /\ k.proc = j.proc /\ k.sess = s /\ k.pc = "tdDetach"
    BY <1>2, JobFields, PCs, UpdIsJob DEF Note, Upd
  <2> QED
    BY <1>1, <1>2, <1>4, <1>6, <2>1, KeepTypes
<1> QED
  BY <1>5, <1>6, SuperviseMoves

(* The guarded region, the game and its supervision.                       *)
LEMMA GuardedTypes ==
    ASSUME TypeOK, HandInv, NEW r \in Runs,
           \/ CancelGuarded(r) \/ Arm(r) \/ Switch(r) \/ OpenDashboard(r) \/ SaveDashboard(r)
           \/ Spawn(r) \/ PublishLive(r) \/ RecordLaunched(r) \/ Supervise(r)
    PROVE  TypeOK' /\ HandInv'
<1> DEFINE j == job[r]
<1>1. CASE CancelGuarded(r)
  <2>1. j.pc \in WithState /\ j.proc \in Procs
    BY <1>1 DEF CancelGuarded, At, WithState, Guarding, TypeOK
  <2>2. lock' \in Locks /\ phase' \in [Procs -> Phases]
    BY <1>1, <2>1, TeardownSlots DEF CancelGuarded
  <2>3. OthersTyped
    BY <1>1, <2>2 DEF CancelGuarded, TypeOK, OthersTyped
  <2>4. Moved(r, Stay(j, "tdKill"))
    BY <1>1, JobFields, TeardownMoves DEF CancelGuarded
  <2> QED
    BY <2>1, <2>3, <2>4, PCs, StayTypes
<1>2. CASE PublishLive(r)
  <2>1. j.pc \in WithState /\ j.proc \in Procs
    BY <1>2 DEF PublishLive, At, WithState, Running, TypeOK
  <2>2. live' \in [Procs -> Runs \cup {NoRun}] /\ phase' \in [Procs -> Phases]
    BY <1>2, <2>1, SlotTypes DEF PublishLive, TypeOK
  <2>3. OthersTyped
    BY <1>2, <2>2 DEF PublishLive, TypeOK, OthersTyped
  <2>4. Moved(r, Stay(j, "record"))
    BY <1>2, PCs, GoMoves DEF PublishLive
  <2> QED
    BY <2>1, <2>3, <2>4, PCs, StayTypes
<1>3. CASE RecordLaunched(r)
  <2>1. j.pc \in WithState /\ j.sess \in State /\ j.proc \in Procs
    BY <1>3, InHand DEF RecordLaunched, At, WithState, Running, TypeOK
  <2>2. disk' \in State \cup {Absent} /\ budget' \in Budgets
    BY <1>3, <2>1, SaveTypes DEF RecordLaunched, TypeOK
  <2>3. lock' \in Locks
    BY <1>3, <2>1, SlotTypes DEF RecordLaunched
  <2>4. OthersTyped
    BY <1>3, <2>2, <2>3 DEF RecordLaunched, TypeOK, OthersTyped
  <2>5. Moved(r, Stay(j, "super"))
    BY <1>3, PCs, GoMoves DEF RecordLaunched
  <2> QED
    BY <2>1, <2>4, <2>5, PCs, StayTypes
<1> QED
  BY <1>1, <1>2, <1>3, ArmTypes, SwitchTypes, OpenDashboardTypes, SaveDashboardTypes, SpawnTypes,
     SuperviseTypes

LEMMA DetachSaveTypes ==
    ASSUME TypeOK, HandInv, NEW r \in Runs, DetachSave(r)
    PROVE  TypeOK' /\ HandInv'
<1> DEFINE j == job[r]
           k == Upd(j, "tdLive", j.sess, NoDevice, j.carried, FALSE, j.todo)
<1>1. j.pc \in WithState /\ j.sess \in State
  BY InHand DEF DetachSave, At, WithState, Ending
<1>2. disk' \in State \cup {Absent} /\ budget' \in Budgets
  BY <1>1, SaveTypes DEF DetachSave, Save
<1>3. OthersTyped
  BY <1>2 DEF DetachSave, TypeOK, OthersTyped
<1>4. CASE Moved(r, k)
  <2>1. k \in Job /\ k.proc = j.proc /\ k.sess = j.sess /\ k.pc = "tdLive"
    BY JobFields, PCs, UpdIsJob DEF Upd
  <2> QED
    BY <1>1, <1>3, <1>4, <2>1, KeepTypes
<1>5. CASE Moved(r, Stay(j, "tdLive"))
  BY <1>1, <1>3, <1>5, PCs, StayTypes
<1> QED
  BY <1>4, <1>5, DetachSaveMoves

LEMMA CloseDashboardTypes ==
    ASSUME TypeOK, HandInv, NEW r \in Runs, CloseDashboard(r)
    PROVE  TypeOK' /\ HandInv'
<1> DEFINE j == job[r]
           s == [j.sess EXCEPT !.dashboard_closed = TRUE]
           k == Upd(j, "tdDashSave", s, j.armed, j.carried, FALSE, j.todo)
<1>1. j.pc \in WithState /\ j.sess \in State
  BY InHand DEF CloseDashboard, At, WithState, Ending
<1>2. s \in State /\ s.run = j.sess.run /\ s.owner = j.sess.owner
  BY <1>1 DEF State
<1>3. mac' \in Macs
  BY DEF CloseDashboard, TypeOK, Macs
<1>4. OthersTyped
  BY <1>3 DEF CloseDashboard, TypeOK, OthersTyped
<1>5. CASE j.held
  <2>1. Moved(r, k)
    BY <1>5, CloseDashboardMoves
  <2>2. k \in Job /\ k.proc = j.proc /\ k.sess = s /\ k.pc = "tdDashSave"
    BY <1>2, JobFields, PCs, UpdIsJob DEF Upd
  <2> QED
    BY <1>1, <1>2, <1>4, <2>1, <2>2, KeepTypes
<1>6. CASE ~j.held
  <2>1. Moved(r, Stay(j, "tdAudio"))
    BY <1>6, CloseDashboardMoves
  <2> QED
    BY <1>1, <1>4, <2>1, PCs, StayTypes
<1> QED
  BY <1>5, <1>6

LEMMA RestoreOutputTypes ==
    ASSUME TypeOK, HandInv, NEW r \in Runs, RestoreOutput(r)
    PROVE  TypeOK' /\ HandInv'
<1> DEFINE j == job[r]
           s == [j.sess EXCEPT !.audio_restored = TRUE]
<1>1. j.pc \in WithState /\ j.sess \in State
  BY InHand DEF RestoreOutput, At, WithState, Ending
<1>2. s \in State /\ s.run = j.sess.run /\ s.owner = j.sess.owner
  BY <1>1 DEF State
<1>3. mac' \in Macs
  BY JobFields DEF RestoreOutput, TypeOK, Macs, Devices
<1>4. OthersTyped
  BY <1>3 DEF RestoreOutput, TypeOK, OthersTyped
<1>5. CASE j.armed = NoDevice
  <2>1. Moved(r, Stay(j, "tdFinish"))
    BY <1>5, RestoreOutputMoves
  <2> QED
    BY <1>1, <1>4, <2>1, PCs, StayTypes
<1>6. CASE j.armed # NoDevice
  <2>1. ASSUME NEW t \in State, t.run = j.sess.run, t.owner = j.sess.owner,
               Moved(r, Upd(j, "tdAudioSave", t, NoDevice, j.carried, j.held, j.todo))
        PROVE  TypeOK' /\ HandInv'
    <3> DEFINE k == Upd(j, "tdAudioSave", t, NoDevice, j.carried, j.held, j.todo)
    <3>1. k \in Job /\ k.proc = j.proc /\ k.sess = t /\ k.pc = "tdAudioSave"
      BY JobFields, PCs, UpdIsJob DEF Upd
    <3> QED
      BY <1>1, <1>4, <2>1, <3>1, KeepTypes
  <2>2. \/ Moved(r, Upd(j, "tdAudioSave", s, NoDevice, j.carried, j.held, j.todo))
        \/ Moved(r, Upd(j, "tdAudioSave", j.sess, NoDevice, j.carried, j.held, j.todo))
    BY <1>6, RestoreOutputMoves
  <2> QED
    BY <1>1, <1>2, <2>1, <2>2
<1> QED
  BY <1>5, <1>6

LEMMA UnwindTypes ==
    ASSUME TypeOK, HandInv, NEW r \in Runs, Unwind(r)
    PROVE  TypeOK' /\ HandInv'
<1> DEFINE j == job[r]
<1>1. j.proc \in Procs
  BY DEF Unwind, At, TypeOK
<1>2. phase' \in [Procs -> Phases]
  BY <1>1, SlotTypes DEF Unwind, TypeOK
<1>3. mac' \in Macs
  <2>1. mac.output \in Devices /\ mac.dash \in SUBSET Runs
    BY DEF TypeOK, Macs
  <2>2. PICK d \in {mac.output} \cup (IF j.armed = NoDevice THEN {} ELSE {j.armed}) :
           mac' = [mac EXCEPT !.output = d, !.dash = IF j.held THEN @ \ {r} ELSE @]
    BY DEF Unwind
  <2>3. d \in Devices
    BY <2>1, <2>2, JobFields
  <2> QED
    BY <2>1, <2>2, <2>3 DEF TypeOK, Macs
<1>4. Moved(r, Rest(j))
  BY RestMoves DEF Unwind
<1>5. TypeOK'
  BY <1>2, <1>3, <1>4 DEF Unwind, Moved, TypeOK
<1> QED
  BY <1>4, <1>5, RestHand DEF Unwind, HandInv

LEMMA TeardownTypes ==
    ASSUME TypeOK, HandInv, NEW r \in Runs, TeardownStep(r)
    PROVE  TypeOK' /\ HandInv'
<1> DEFINE j == job[r]
<1>1. ASSUME NEW pc \in JobPC, pc # "wiredAdd", Go(r, pc), job[r].pc \in WithState,
             disk' \in State \cup {Absent}, wine' \in [Runs -> WineStates],
             live' \in [Procs -> Runs \cup {NoRun}], budget' \in Budgets,
             UNCHANGED <<up, mac, lock, pass, phase>>
      PROVE  TypeOK' /\ HandInv'
  <2>1. OthersTyped
    BY <1>1 DEF OthersTyped, TypeOK
  <2> QED
    BY <1>1, <2>1, GoMoves, StayTypes
<1>2. CASE KillWine(r)
  <2>1. j.pc \in WithState /\ wine' \in [Runs -> WineStates]
    BY <1>2, WineKilledType DEF KillWine, At, WithState, Ending, TypeOK
  <2> QED
    BY <1>1, <1>2, <2>1, PCs DEF KillWine, TypeOK
<1>3. CASE SaveClosed(r) \/ SaveRestored(r)
  <2>1. j.pc \in WithState /\ j.sess \in State
    BY <1>3, InHand DEF SaveClosed, SaveRestored, At, WithState, Ending
  <2>2. disk' \in State \cup {Absent} /\ budget' \in Budgets
    BY <1>3, <2>1, SaveTypes DEF SaveClosed, SaveRestored
  <2> QED
    BY <1>1, <1>3, <2>1, <2>2, PCs DEF SaveClosed, SaveRestored, TypeOK
<1>4. CASE FinishRecord(r)
  <2>1. j.pc \in WithState /\ j.sess \in State
    BY <1>4, InHand DEF FinishRecord, At, WithState, Ending
  <2>2. disk' \in State \cup {Absent} /\ budget' \in Budgets
    BY <1>4, <2>1, SaveTypes DEF FinishRecord, TypeOK
  <2>3. Go(r, "tdLive") \/ Go(r, "tdClear")
    BY <1>4 DEF FinishRecord
  <2> QED
    BY <1>1, <1>4, <2>1, <2>2, <2>3, PCs DEF FinishRecord, TypeOK
<1>5. CASE ClearState(r)
  <2>1. j.pc \in WithState /\ disk' \in State \cup {Absent}
    BY <1>5 DEF ClearState, At, WithState, Ending, TypeOK
  <2> QED
    BY <1>1, <1>5, <2>1, PCs DEF ClearState, TypeOK
<1>6. CASE LeaveSlot(r)
  <2>1. j.pc \in WithState /\ j.proc \in Procs
    BY <1>6 DEF LeaveSlot, At, WithState, Ending, TypeOK
  <2>2. live' \in [Procs -> Runs \cup {NoRun}]
    BY <1>6, <2>1, SlotTypes DEF LeaveSlot
  <2> QED
    BY <1>1, <1>6, <2>1, <2>2, PCs DEF LeaveSlot, TypeOK
<1> QED
  BY <1>2, <1>3, <1>4, <1>5, <1>6, DetachSaveTypes, CloseDashboardTypes, RestoreOutputTypes,
     UnwindTypes DEF TeardownStep

LEMMA LaunchTypes ==
    ASSUME TypeOK, HandInv, NEW r \in Runs, LaunchStep(r)
    PROVE  TypeOK' /\ HandInv'
  BY GateTypes, PrepareTypes, GuardedTypes, TeardownTypes DEF LaunchStep

-----------------------------------------------------------------------------
(* The recovery pass. *)

LEMMA PassHolder ==
    ASSUME TypeOK, LockInv, pass.pc # "none"
    PROVE  /\ lock.as \in {"run", "stop", "reconcile"} /\ lock.proc \in up /\ lock.proc \in Procs
           /\ lock.as = "run" =>
                 lock.run \in Runs /\ job[lock.run].proc = lock.proc /\ job[lock.run].pc = "pass"
  BY DEF LockInv, TypeOK, Locks

LEMMA NoPassIsPass == NoPass \in Pass /\ NoPass.pc = "none" /\ NoPass.pc \notin PassLoaded
  BY DEF NoPass, Pass, PassLoaded

LEMMA NewStateIsState ==
    ASSUME NEW r \in Runs, NEW p \in Procs, NEW d \in Devices \cup {NoDevice}, NEW f \in SUBSET Ports
    PROVE  /\ NewState(r, p, d, f) \in State
           /\ NewState(r, p, d, f).run = r /\ NewState(r, p, d, f).owner = p
           /\ NewState(r, p, d, f).prev = d /\ NewState(r, p, d, f).fwds = f
  BY DEF NewState, State, ChildStates

LEMMA RefuseRunMoves ==
    ASSUME TypeOK, LockInv, pass.pc # "none", RefuseRun
    PROVE  Moved(lock.run, Rest(job[lock.run]))
  BY PassHolder, RestMoves DEF RefuseRun

LEMMA CarryOnMoves ==
    ASSUME TypeOK, LockInv, pass.pc # "none", NEW prev \in Devices \cup {NoDevice},
           NEW fwds \in SUBSET Ports, CarryOn(prev, fwds)
    PROVE  /\ NewState(lock.run, lock.proc, prev, fwds) \in State
           /\ Moved(lock.run, Note(job[lock.run], "prep", NewState(lock.run, lock.proc, prev, fwds)))
<1> DEFINE r == lock.run
           j == job[r]
           s == NewState(r, lock.proc, prev, fwds)
<1>1. r \in Runs /\ lock.proc \in Procs
  BY PassHolder DEF CarryOn
<1>2. s \in State
  BY <1>1, NewStateIsState
<1>3. Note(j, "prep", s) \in Job
  BY <1>1, <1>2, JobFields, PCs, UpdIsJob DEF Note
<1> HIDE DEF s
<1>4. job' = [job EXCEPT ![r].pc = "prep", ![r].sess = s]
  BY DEF CarryOn, s
<1>5. job'[r] = [j EXCEPT !.pc = "prep", !.sess = s]
  BY <1>1, <1>4 DEF TypeOK
<1>6. job'[r] = Note(j, "prep", s)
  BY <1>1, <1>5, JobFields DEF Job, Upd, Note
<1>7. Moved(r, Note(j, "prep", s))
  BY <1>1, <1>3, <1>4, <1>6 DEF TypeOK, Moved
<1> QED
  BY <1>2, <1>7 DEF s

(* The pass's end, whichever way, over whatever else its last step wrote.  *)
LEMMA PassEndTypes ==
    ASSUME TypeOK, HandInv, LockInv, pass.pc # "none",
           disk' \in State \cup {Absent}, budget' \in Budgets, UNCHANGED <<up, wine, mac, live>>,
           \/ PassFails
           \/ \E prev \in Devices \cup {NoDevice}, fwds \in SUBSET Ports : CarryOn(prev, fwds)
    PROVE  TypeOK' /\ HandInv'
<1>1. FreeLock \in Locks
  BY DEF FreeLock, Locks
<1>2. CASE EndRecover
  BY <1>1, <1>2, NoPassIsPass DEF EndRecover, TypeOK, HandInv
<1>3. CASE RefuseRun
  <2>1. lock.run \in Runs /\ lock.proc \in Procs
    BY <1>3, PassHolder DEF RefuseRun
  <2>2. Moved(lock.run, Rest(job[lock.run]))
    BY <1>3, RefuseRunMoves
  <2>3. phase' \in [Procs -> Phases]
    BY <1>3, <2>1, SlotTypes DEF RefuseRun
  <2>4. TypeOK'
    BY <1>1, <1>3, <2>2, <2>3, NoPassIsPass DEF RefuseRun, TypeOK, Moved
  <2> QED
    BY <1>3, <2>1, <2>2, <2>4, NoPassIsPass, RestHand DEF RefuseRun
<1>4. ASSUME NEW prev \in Devices \cup {NoDevice}, NEW fwds \in SUBSET Ports, CarryOn(prev, fwds)
      PROVE  TypeOK' /\ HandInv'
  <2> DEFINE r == lock.run
             s == NewState(r, lock.proc, prev, fwds)
             k == Note(job[r], "prep", s)
  <2>1. /\ r \in Runs /\ lock.proc \in Procs /\ lock.proc \in up
        /\ job[r].proc = lock.proc
    BY <1>4, PassHolder DEF CarryOn
  <2>2. s \in State /\ s.run = r /\ s.owner = lock.proc
    BY <2>1, NewStateIsState
  <2> HIDE DEF s
  <2>3. Moved(r, k)
    BY <1>4, CarryOnMoves DEF s
  <2>4. k \in Job /\ k.pc = "prep" /\ k.sess = s /\ k.proc = lock.proc
    BY <2>1, <2>2, JobFields, PCs, UpdIsJob DEF Note, Upd
  <2> HIDE DEF k
  <2>5. TypeOK'
    BY <1>4, <2>3, NoPassIsPass DEF CarryOn, TypeOK, Moved
  <2>6. HandInv'
    BY <1>4, <2>1, <2>2, <2>3, <2>4, NoPassIsPass, MovedHand DEF CarryOn
  <2> QED
    BY <2>5, <2>6
<1> QED
  BY <1>2, <1>3, <1>4 DEF PassFails

(* A step of the pass that only moves the pass.                            *)
LEMMA PassGoes ==
    ASSUME TypeOK, HandInv, pass' \in Pass, pass'.pc \in PassLoaded => pass'.st \in State,
           disk' \in State \cup {Absent}, mac' \in Macs, wine' \in [Runs -> WineStates],
           budget' \in Budgets, UNCHANGED <<up, lock, job, live, phase>>
    PROVE  TypeOK' /\ HandInv'
  BY DEF TypeOK, HandInv

LEMMA PassOnTypes ==
    ASSUME TypeOK, HandInv, NEW pc \in {"reap", "load"} \cup PassLoaded, PassOn(pc),
           pc \in PassLoaded => pass.pc \in PassLoaded
    PROVE  pass' \in Pass /\ (pass'.pc \in PassLoaded => pass'.st \in State) /\ pass'.pc = pc
           /\ pass'.st = pass.st /\ pass'.mode = pass.mode /\ pass'.todo = pass.todo
  BY DEF PassOn, TypeOK, Pass, HandInv

LEMMA RestoreModeIsMode ==
    ASSUME NEW class
    PROVE  RestoreMode(class) \in {"None", "Full", "SafeOnly"}
  BY DEF RestoreMode

LEMMA LoadTypes ==
    ASSUME TypeOK, HandInv, LockInv, Load
    PROVE  TypeOK' /\ HandInv'
<1>1. pass.pc # "none"
  BY DEF Load
<1>2. CASE Loaded(disk) /\ MayRestore(lock.proc, disk) /\ UNCHANGED <<lock, job, phase>>
           /\ pass' = [pc |-> "audio", st |-> disk, mode |-> RestoreMode(Classify(disk, wine)),
                       todo |-> disk.fwds]
  <2>1. disk \in State
    BY <1>2 DEF Loaded, TypeOK
  <2>2. disk.fwds \in SUBSET Ports
    BY <2>1 DEF State
  <2>3. RestoreMode(Classify(disk, wine)) \in {"None", "Full", "SafeOnly"}
    BY RestoreModeIsMode
  <2> DEFINE m == RestoreMode(Classify(disk, wine))
  <2> HIDE DEF m
  <2>4. pass' \in Pass /\ pass'.st = disk
    BY <1>2, <2>1, <2>2, <2>3 DEF Pass, PassLoaded, m
  <2> QED
    BY <1>2, <2>1, <2>4, PassGoes DEF Load, TypeOK
<1>3. CASE ~Loaded(disk) /\ (EndRecover \/ CarryOn(NoDevice, {}))
  BY <1>1, <1>3, PassEndTypes DEF Load, PassFails, TypeOK
<1>4. CASE EndRecover \/ RefuseRun
  BY <1>1, <1>4, PassEndTypes DEF Load, PassFails, TypeOK
<1> QED
  BY <1>2, <1>3, <1>4 DEF Load

LEMMA RestoreAudioTypes ==
    ASSUME TypeOK, HandInv, RestoreAudio
    PROVE  TypeOK' /\ HandInv'
<1>1. pass.st \in State
  BY DEF RestoreAudio, HandInv, PassLoaded
<1>2. CASE PassOn("dash") /\ UNCHANGED mac
  <2>1. pass' \in Pass /\ (pass'.pc \in PassLoaded => pass'.st \in State)
    BY <1>2, PassOnTypes DEF RestoreAudio, PassLoaded
  <2> QED
    BY <1>2, <2>1, PassGoes DEF RestoreAudio, TypeOK
<1>3. CASE /\ AudioPending(pass.st)
           /\ pass' = [pass EXCEPT !.pc = "audioSave", !.st.audio_restored = TRUE]
           /\ IF mac.output = BlackHole
              THEN \E d \in {pass.st.prev, Speakers} : mac' = [mac EXCEPT !.output = d]
              ELSE UNCHANGED mac
  <2>1. [pass.st EXCEPT !.audio_restored = TRUE] \in State
    BY <1>1 DEF State
  <2>2. pass' \in Pass /\ pass'.st \in State
    BY <1>3, <2>1 DEF TypeOK, Pass, PassLoaded
  <2>3. pass.st.prev \in Devices /\ Speakers \in Devices
    BY <1>1, <1>3 DEF AudioPending, State, Devices
  <2>4. mac' \in Macs
    BY <1>3, <2>3 DEF TypeOK, Macs
  <2> QED
    BY <2>2, <2>4, PassGoes DEF RestoreAudio, TypeOK
<1> QED
  BY <1>2, <1>3 DEF RestoreAudio

LEMMA RestoreDashboardTypes ==
    ASSUME TypeOK, HandInv, RestoreDashboard
    PROVE  TypeOK' /\ HandInv'
<1>1. pass.st \in State
  BY DEF RestoreDashboard, HandInv, PassLoaded
<1>2. CASE PassOn("fwd") /\ UNCHANGED mac
  <2>1. pass' \in Pass /\ (pass'.pc \in PassLoaded => pass'.st \in State)
    BY <1>2, PassOnTypes DEF RestoreDashboard, PassLoaded
  <2> QED
    BY <1>2, <2>1, PassGoes DEF RestoreDashboard, TypeOK
<1>3. CASE /\ mac' = [mac EXCEPT !.dash = @ \ {pass.st.run}]
           /\ pass' = [pass EXCEPT !.pc = "dashSave", !.st.dashboard_closed = TRUE]
  <2>1. [pass.st EXCEPT !.dashboard_closed = TRUE] \in State
    BY <1>1 DEF State
  <2>2. pass' \in Pass /\ pass'.st \in State
    BY <1>3, <2>1 DEF TypeOK, Pass, PassLoaded
  <2>3. mac' \in Macs
    BY <1>3 DEF TypeOK, Macs
  <2> QED
    BY <2>2, <2>3, PassGoes DEF RestoreDashboard, TypeOK
<1> QED
  BY <1>2, <1>3 DEF RestoreDashboard

LEMMA RemoveForwardTypes ==
    ASSUME TypeOK, HandInv, RemoveForward
    PROVE  TypeOK' /\ HandInv'
<1>1. pass.st \in State
  BY DEF RemoveForward, HandInv, PassLoaded
<1>2. ASSUME NEW q \in pass.todo, mac' = [mac EXCEPT !.forwards = @ \ {q}],
             pass' = [pass EXCEPT !.pc = "fwdSave", !.st.fwds = @ \ {q}, !.todo = @ \ {q}]
      PROVE  TypeOK' /\ HandInv'
  <2>1. [pass.st EXCEPT !.fwds = @ \ {q}] \in State
    BY <1>1 DEF State
  <2>2. pass' \in Pass /\ pass'.st \in State
    BY <1>2, <2>1 DEF TypeOK, Pass, PassLoaded
  <2>3. mac' \in Macs
    BY <1>2 DEF TypeOK, Macs
  <2> QED
    BY <2>2, <2>3, PassGoes DEF RemoveForward, TypeOK
<1>3. ASSUME NEW q \in pass.todo, pass' = [pass EXCEPT !.todo = @ \ {q}], UNCHANGED mac
      PROVE  TypeOK' /\ HandInv'
  <2>1. pass' \in Pass /\ pass'.st \in State
    BY <1>1, <1>3 DEF TypeOK, Pass
  <2> QED
    BY <1>3, <2>1, PassGoes DEF RemoveForward, TypeOK
<1>4. CASE /\ pass' = [pass EXCEPT !.pc = "lastSave", !.st.forwards_cleared = (pass.st.fwds = {})]
           /\ UNCHANGED mac
  <2>1. [pass.st EXCEPT !.forwards_cleared = (pass.st.fwds = {})] \in State
    BY <1>1 DEF State
  <2>2. pass' \in Pass /\ pass'.st \in State
    BY <1>4, <2>1 DEF TypeOK, Pass, PassLoaded
  <2> QED
    BY <1>4, <2>2, PassGoes DEF RemoveForward, TypeOK
<1> QED
  BY <1>2, <1>3, <1>4 DEF RemoveForward

LEMMA SaveProgressTypes ==
    ASSUME TypeOK, HandInv, LockInv, SaveProgress
    PROVE  TypeOK' /\ HandInv'
<1>1. pass.st \in State /\ pass.pc # "none" /\ pass.pc \in PassLoaded
  BY DEF SaveProgress, AfterSave, HandInv, PassLoaded
<1>2. CASE SaveOk(lock.proc, pass.st) /\ PassOn(AfterSave[pass.pc]) /\ UNCHANGED <<lock, job, phase>>
  <2>1. AfterSave[pass.pc] \in PassLoaded
    BY DEF SaveProgress, AfterSave, PassLoaded
  <2>2. pass' \in Pass /\ (pass'.pc \in PassLoaded => pass'.st \in State)
    BY <1>1, <1>2, <2>1, PassOnTypes
  <2>3. disk' \in State \cup {Absent} /\ budget' \in Budgets
    BY <1>1, <1>2, SaveTypes DEF Save
  <2> QED
    BY <1>2, <2>2, <2>3, PassGoes DEF SaveProgress, TypeOK
<1>3. CASE SaveErr(lock.proc, pass.st) /\ PassFails
  <2>1. disk' \in State \cup {Absent} /\ budget' \in Budgets
    BY <1>1, <1>3, SaveTypes DEF Save
  <2> QED
    BY <1>1, <1>3, <2>1, PassEndTypes DEF SaveProgress
<1> QED
  BY <1>2, <1>3 DEF SaveProgress

LEMMA FinishPassTypes ==
    ASSUME TypeOK, HandInv, LockInv, FinishPass
    PROVE  TypeOK' /\ HandInv'
<1> DEFINE s == pass.st
<1>1. s \in State /\ pass.pc # "none"
  BY DEF FinishPass, HandInv, PassLoaded
<1>2. disk' \in State \cup {Absent} /\ budget' \in Budgets
  <2>1. CASE Save(lock.proc, s)
    BY <1>1, <2>1, SaveTypes
  <2>2. CASE disk' \in {disk, Absent} /\ UNCHANGED budget
    BY <2>2 DEF TypeOK
  <2> QED
    BY <2>1, <2>2 DEF FinishPass, Save
<1>3. /\ (IF s.audio_restored THEN NoDevice ELSE s.prev) \in Devices \cup {NoDevice}
      /\ (IF s.forwards_cleared THEN {} ELSE s.fwds) \in SUBSET Ports
  BY <1>1 DEF State
<1>4. PassFails \/ EndRecover \/ CarryForward(s)
  BY DEF FinishPass
<1> QED
  BY <1>1, <1>2, <1>3, <1>4, PassEndTypes DEF FinishPass, PassFails, CarryForward

LEMMA PassTypes ==
    ASSUME TypeOK, HandInv, LockInv, PassStep \/ CancelPass
    PROVE  TypeOK' /\ HandInv'
<1>1. CASE StopWine
  <2>1. pass' \in Pass /\ pass'.pc = "reap"
    BY <1>1, PassOnTypes DEF StopWine, PassLoaded
  <2>2. wine' \in [Runs -> WineStates]
    BY <1>1, WineKilledType DEF StopWine, TypeOK
  <2> QED
    BY <1>1, <2>1, <2>2, PassGoes DEF StopWine, TypeOK, PassLoaded
<1>2. CASE StopReap
  <2>1. pass' \in Pass /\ pass'.pc = "load"
    BY <1>2, PassOnTypes DEF StopReap, PassLoaded
  <2>2. mac' \in Macs
    BY <1>2 DEF StopReap, TypeOK, Macs
  <2> QED
    BY <1>2, <2>1, <2>2, PassGoes DEF StopReap, TypeOK, PassLoaded
<1>3. CASE RestoreForwards
  <2>1. pass' \in Pass /\ (pass'.pc \in PassLoaded => pass'.st \in State)
    BY <1>3, PassOnTypes DEF RestoreForwards, PassLoaded
  <2> QED
    BY <1>3, <2>1, PassGoes DEF RestoreForwards, TypeOK
<1>4. CASE CancelPass
  BY <1>4, PassEndTypes DEF CancelPass, TypeOK
<1> QED
  BY <1>1, <1>2, <1>3, <1>4, LoadTypes, RestoreAudioTypes, RestoreDashboardTypes,
     RemoveForwardTypes, SaveProgressTypes, FinishPassTypes DEF PassStep

-----------------------------------------------------------------------------
(* What the user asks of a launch touches nothing of its work, but lets go *)
(* of what a launch that is over still kept.                               *)
Asked(r) ==
    \E k \in Job :
       /\ Moved(r, k) /\ k.pc = job[r].pc
       /\ k.pc # "done" => /\ k.proc = job[r].proc /\ k.sess = job[r].sess /\ k.armed = job[r].armed
                           /\ k.carried = job[r].carried /\ k.held = job[r].held
                           /\ k.todo = job[r].todo /\ (job[r].cancel => k.cancel)
       /\ k.pc = "done" => k.proc \in {NoProc, job[r].proc} /\ k.armed \in {NoDevice, job[r].armed}

Request(r) ==
    RequestCancel(r) \/ RequestStop(r) \/ StopAnswered(r) \/ RequestDetach(r) \/ SettleDetach(r)

LEMMA AnswerIsAsked ==
    ASSUME TypeOK, NEW r \in Runs, NEW j \in Job, job' = [job EXCEPT ![r] = Answer(j)],
           j.pc = job[r].pc, j.proc = job[r].proc, j.sess = job[r].sess, j.armed = job[r].armed,
           j.carried = job[r].carried, j.held = job[r].held, j.todo = job[r].todo,
           j.cancel = job[r].cancel
    PROVE  Asked(r)
<1>1. CASE j.pc = "done"
  <2>1. Answer(j) = Rest(j)
    BY <1>1 DEF Answer
  <2>2. /\ Rest(j) \in Job /\ Rest(j).pc = "done" /\ Rest(j).proc \in {NoProc, j.proc}
        /\ Rest(j).armed = NoDevice
    BY RestIsJob
  <2>3. Moved(r, Rest(j))
    BY <2>1, <2>2 DEF TypeOK, Moved
  <2> QED
    BY <1>1, <2>2, <2>3 DEF Asked
<1>2. CASE j.pc # "done"
  <2>1. Answer(j) = j
    BY <1>2 DEF Answer
  <2>2. Moved(r, j)
    BY <2>1 DEF TypeOK, Moved
  <2> QED
    BY <1>2, <2>2 DEF Asked
<1> QED
  BY <1>1, <1>2

LEMMA RequestIsAsked ==
    ASSUME TypeOK, NEW r \in Runs, Request(r)
    PROVE  Asked(r)
<1> DEFINE j == job[r]
<1>1. j \in Job /\ j.cancel \in BOOLEAN
  BY JobFields
<1>2. ASSUME NEW k \in Job, Moved(r, k), k.pc = j.pc, k.proc = j.proc, k.sess = j.sess,
             k.armed = j.armed, k.carried = j.carried, k.held = j.held, k.todo = j.todo,
             j.cancel => k.cancel
      PROVE  Asked(r)
  BY <1>2 DEF Asked
<1>3. CASE RequestCancel(r)
  <2> DEFINE k == [j EXCEPT !.cancel = TRUE]
  <2>1. /\ k \in Job /\ k.pc = j.pc /\ k.proc = j.proc /\ k.sess = j.sess /\ k.armed = j.armed
        /\ k.carried = j.carried /\ k.held = j.held /\ k.todo = j.todo /\ k.cancel
    BY <1>1 DEF Job
  <2>2. Moved(r, k)
    BY <1>3, <2>1 DEF RequestCancel, TypeOK, Moved
  <2> HIDE DEF k
  <2> QED
    BY <1>2, <2>1, <2>2
<1>4. CASE RequestStop(r)
  <2> DEFINE k == [j EXCEPT !.cancel = TRUE, !.stop = "waiting"]
  <2>1. /\ k \in Job /\ k.pc = j.pc /\ k.proc = j.proc /\ k.sess = j.sess /\ k.armed = j.armed
        /\ k.carried = j.carried /\ k.held = j.held /\ k.todo = j.todo /\ k.cancel
    BY <1>1 DEF Job
  <2>2. job'[r] = k
    BY <1>4 DEF RequestStop, TypeOK
  <2>3. Moved(r, k)
    BY <1>4, <2>1, <2>2 DEF RequestStop, TypeOK, Moved
  <2> HIDE DEF k
  <2> QED
    BY <1>2, <2>1, <2>3
<1>5. CASE RequestDetach(r)
  <2> DEFINE k == [j EXCEPT !.detach = "fired"]
  <2>1. /\ k \in Job /\ k.pc = j.pc /\ k.proc = j.proc /\ k.sess = j.sess /\ k.armed = j.armed
        /\ k.carried = j.carried /\ k.held = j.held /\ k.todo = j.todo /\ k.cancel = j.cancel
    BY <1>1 DEF Job
  <2>2. Moved(r, k)
    BY <1>5, <2>1 DEF RequestDetach, TypeOK, Moved
  <2> HIDE DEF k
  <2> QED
    BY <1>2, <2>1, <2>2
<1>6. CASE StopAnswered(r)
  <2> DEFINE v == IF DetachedOnDisk(r) THEN "detached" ELSE "stopped"
             k == [j EXCEPT !.stop = v]
  <2>1. /\ k \in Job /\ k.pc = j.pc /\ k.proc = j.proc /\ k.sess = j.sess /\ k.armed = j.armed
        /\ k.carried = j.carried /\ k.held = j.held /\ k.todo = j.todo /\ k.cancel = j.cancel
    BY <1>1 DEF Job
  <2>2. job' = [job EXCEPT ![r] = Answer(k)]
    BY <1>6 DEF StopAnswered
  <2> HIDE DEF k
  <2> QED
    BY <2>1, <2>2, AnswerIsAsked
<1>7. CASE SettleDetach(r)
  <2> DEFINE k == [j EXCEPT !.detach = "settled"]
  <2>1. /\ k \in Job /\ k.pc = j.pc /\ k.proc = j.proc /\ k.sess = j.sess /\ k.armed = j.armed
        /\ k.carried = j.carried /\ k.held = j.held /\ k.todo = j.todo /\ k.cancel = j.cancel
    BY <1>1 DEF Job
  <2>2. job' = [job EXCEPT ![r] = Answer(k)]
    BY <1>7 DEF SettleDetach
  <2> HIDE DEF k
  <2> QED
    BY <2>1, <2>2, AnswerIsAsked
<1> QED
  BY <1>3, <1>4, <1>5, <1>6, <1>7 DEF Request

LEMMA RequestTypes ==
    ASSUME TypeOK, HandInv, NEW r \in Runs, Request(r)
    PROVE  TypeOK' /\ HandInv'
<1>1. PICK k \in Job :
         /\ Moved(r, k) /\ k.pc = job[r].pc
         /\ k.pc # "done" => /\ k.proc = job[r].proc /\ k.sess = job[r].sess
                             /\ k.todo = job[r].todo
  BY RequestIsAsked DEF Asked
<1>2. UNCHANGED <<up, wine, mac, lock, pass, live, phase, budget>>
  BY DEF Request, RequestCancel, RequestStop, StopAnswered, RequestDetach, SettleDetach
<1>3. disk' \in State \cup {Absent}
  <2>1. CASE disk' = disk
    BY <2>1 DEF TypeOK
  <2>2. CASE disk \in State /\ disk' = [disk EXCEPT !.detached = TRUE]
    BY <2>2 DEF State
  <2> QED
    BY <2>1, <2>2 DEF Request, RequestCancel, RequestStop, StopAnswered, RequestDetach, SettleDetach,
                      MayMarkDetached, Loaded, TypeOK
<1>4. TypeOK'
  BY <1>1, <1>2, <1>3 DEF TypeOK, Moved
<1>5. HandInv'
  BY <1>1, <1>2, MovedHand DEF HandInv, WithState, Preparing, Guarding, Running, Ending
<1> QED
  BY <1>4, <1>5

LEMMA BeginTypes ==
    ASSUME TypeOK, HandInv, LockInv, NEW r \in Runs, NEW p \in Procs, Begin(r, p)
    PROVE  /\ TypeOK' /\ HandInv'
           /\ job'[r].pc = "gate" /\ job'[r].proc = p /\ \A q \in Runs \ {r} : job'[q] = job[q]
<1> DEFINE j == job[r]
           k == [j EXCEPT !.pc = "gate", !.proc = p]
<1>1. k \in Job /\ k.pc = "gate" /\ k.proc = p
  BY JobFields DEF Job
<1>2. job'[r] = k
  BY DEF Begin, TypeOK
<1>3. Moved(r, k)
  BY <1>1, <1>2 DEF Begin, TypeOK, Moved
<1> HIDE DEF k
<1>4. lock' \in Locks
  BY DEF Begin, Locks
<1>5. TypeOK'
  BY <1>3, <1>4 DEF Begin, TypeOK, Moved
<1>6. HandInv'
  BY <1>1, <1>3, MovedHand DEF Begin, HandInv, WithState, Preparing, Guarding, Running, Ending
<1> QED
  BY <1>1, <1>2, <1>3, <1>5, <1>6 DEF Moved

(* Processes come and go.                                                  *)
LEMMA EndsJobs ==
    ASSUME TypeOK, NEW p \in Procs, Ends(p)
    PROVE  /\ job' \in [Runs -> Job]
           /\ \A r \in Runs : IF job[r].proc = p
                              THEN job'[r].pc = "done" /\ job'[r].proc = NoProc
                              ELSE job'[r] = job[r]
<1> DEFINE n == [NoJob EXCEPT !.pc = "done"]
<1>1. n \in Job /\ n.pc = "done" /\ n.proc = NoProc
  BY DEF NoJob, Job
<1> HIDE DEF n
<1>2. job' = [r \in Runs |-> IF job[r].proc = p THEN n ELSE job[r]]
  BY DEF Ends, n
<1> QED
  BY <1>1, <1>2 DEF TypeOK

LEMMA EndsTypes ==
    ASSUME TypeOK, HandInv, NEW p \in Procs, Ends(p), budget' \in Budgets
    PROVE  TypeOK' /\ HandInv'
<1>1. FreeLock \in Locks /\ NoPhase \in Phases
  BY DEF FreeLock, NoPhase, Locks, Phases
<1>2. lock' \in Locks /\ pass' \in Pass /\ (pass'.pc \in PassLoaded => pass'.st \in State)
  BY <1>1, NoPassIsPass DEF Ends, TypeOK, HandInv
<1>3. live' \in [Procs -> Runs \cup {NoRun}] /\ phase' \in [Procs -> Phases]
  BY <1>1 DEF Ends, TypeOK
<1>4. TypeOK'
  BY <1>2, <1>3, EndsJobs DEF Ends, TypeOK
<1>5. HandInv'
  BY <1>2, EndsJobs DEF Ends, HandInv, WithState, Preparing, Guarding, Running, Ending
<1> QED
  BY <1>4, <1>5

LEMMA ProcessTypes ==
    ASSUME TypeOK, HandInv, LockInv, NEW p \in Procs,
           Boot(p) \/ Quit(p) \/ Crash(p) \/ StartReconcile(p) \/ StartStop(p)
    PROVE  TypeOK' /\ HandInv'
<1>1. CASE Boot(p)
  <2>1. budget' \in Budgets
    BY <1>1 DEF Boot, TypeOK, Budgets
  <2> QED
    BY <1>1, <2>1 DEF Boot, TypeOK, HandInv
<1>2. CASE Quit(p)
  BY <1>2, EndsTypes DEF Quit, TypeOK
<1>3. CASE Crash(p)
  <2>1. budget' \in Budgets
    BY <1>3 DEF Crash, TypeOK, Budgets
  <2> QED
    BY <1>3, <2>1, EndsTypes DEF Crash
<1>4. CASE StartReconcile(p) \/ StartStop(p)
  <2>1. pass' \in Pass /\ pass'.pc \notin PassLoaded
    BY <1>4 DEF StartReconcile, StartStop, NoPass, Pass, PassLoaded
  <2>2. lock' \in Locks
    BY <1>4 DEF StartReconcile, StartStop, Locks
  <2> QED
    BY <1>4, <2>1, <2>2 DEF StartReconcile, StartStop, TypeOK, HandInv
<1> QED
  BY <1>1, <1>2, <1>3, <1>4

LEMMA GameTypes ==
    ASSUME TypeOK, HandInv, NEW r \in Runs, WineExits(r) \/ PidReused(r)
    PROVE  TypeOK' /\ HandInv'
  BY DEF WineExits, PidReused, TypeOK, HandInv, WineStates

LEMMA NextTypes ==
    ASSUME TypeOK, HandInv, LockInv, Next
    PROVE  TypeOK' /\ HandInv'
  BY ProcessTypes, BeginTypes, LaunchTypes, GameTypes, RequestTypes, PassTypes DEF Next, Request

-----------------------------------------------------------------------------
(* Where each step of a launch takes it. *)
To(r, pcs) ==
    /\ job'[r].pc \in pcs /\ job'[r].proc = job[r].proc
    /\ \A q \in Runs \ {r} : job'[q] = job[q]

Clear == {"pass"} \cup Preparing \cup Guarding

LEMMA UpdTo ==
    ASSUME NEW r \in Runs, NEW pc, NEW s, NEW a, NEW c, NEW h, NEW t,
           Moved(r, Upd(job[r], pc, s, a, c, h, t))
    PROVE  To(r, {pc})
  BY DEF Moved, Upd, To

LEMMA StayTo ==
    ASSUME NEW r \in Runs, NEW pc, Moved(r, Stay(job[r], pc))
    PROVE  To(r, {pc})
  BY DEF Moved, Stay, Upd, To

LEMMA NoteTo ==
    ASSUME NEW r \in Runs, NEW pc, NEW s, Moved(r, Note(job[r], pc, s))
    PROVE  To(r, {pc})
  BY DEF Moved, Note, Upd, To

LEMMA ToMore ==
    ASSUME NEW r \in Runs, NEW pc, NEW pcs, To(r, {pc}), pc \in pcs
    PROVE  To(r, pcs)
  BY DEF To

LEMMA PreparePaths ==
    ASSUME TypeOK, HandInv, NEW r \in Runs
    PROVE  /\ Hygiene(r) \/ RecordForward(r) \/ AddForward(r) \/ Reset(r) =>
                 job[r].pc \in Preparing /\ To(r, Preparing)
           /\ Prepared(r) => job[r].pc \in Preparing /\ To(r, Guarding)
<1>1. ASSUME Hygiene(r) PROVE job[r].pc \in Preparing /\ To(r, Preparing)
  <2>1. To(r, {"wired"}) \/ To(r, {"reset"})
    BY <1>1, HygieneMoves, UpdTo, StayTo
  <2> QED
    BY <1>1, <2>1, ToMore DEF Hygiene, At, Preparing
<1>2. ASSUME RecordForward(r) PROVE job[r].pc \in Preparing /\ To(r, Preparing)
  <2>1. To(r, {"reset"}) \/ To(r, {"wiredAdd"}) \/ To(r, {"rollback"})
    BY <1>2, RecordForwardMoves, NoteTo, StayTo
  <2> QED
    BY <1>2, <2>1, ToMore DEF RecordForward, At, Preparing
<1>3. ASSUME AddForward(r) PROVE job[r].pc \in Preparing /\ To(r, Preparing)
  <2>1. To(r, {"wired"}) \/ To(r, {"rollback"})
    BY <1>3, AddForwardMoves, UpdTo, StayTo
  <2> QED
    BY <1>3, <2>1, ToMore DEF AddForward, At, Preparing
<1>4. ASSUME Reset(r) PROVE job[r].pc \in Preparing /\ To(r, Preparing)
  <2>1. To(r, {"stage"})
    BY <1>4, PCs, GoMoves, StayTo DEF Reset
  <2> QED
    BY <1>4, <2>1, ToMore DEF Reset, At, Preparing
<1>5. ASSUME Prepared(r) PROVE job[r].pc \in Preparing /\ To(r, Guarding)
  <2>1. To(r, {"arm"})
    BY <1>5, PCs, GoMoves, StayTo DEF Prepared
  <2> QED
    BY <1>5, <2>1, ToMore DEF Prepared, At, Preparing, Guarding
<1> QED
  BY <1>1, <1>2, <1>3, <1>4, <1>5

(* A step of the guarded region goes on in it or leaves it through a       *)
(* teardown.                                                               *)
GoesOn(r)    == To(r, Guarding) /\ UNCHANGED <<wine, lock, phase>>
TearsDown(r) ==
    /\ To(r, {"tdKill", "tdDash"})
    /\ Unlock(r) /\ Publish(job[r].proc, r, "Stopping") /\ UNCHANGED wine

LEMMA TeardownPath ==
    ASSUME TypeOK, NEW r \in Runs, NEW k \in Job, NEW why \in {"Cancelled", "Failed"},
           k.proc = job[r].proc, Teardown(r, why, k), UNCHANGED wine
    PROVE  TearsDown(r)
<1>1. \E pc \in {"tdKill", "tdDash"} : Moved(r, Stay(k, pc))
  BY TeardownMoves
<1>2. To(r, {"tdKill", "tdDash"})
  BY <1>1 DEF Moved, Stay, Upd, To
<1> QED
  BY <1>2 DEF Teardown, TearsDown

LEMMA GuardedPaths ==
    ASSUME TypeOK, HandInv, NEW r \in Runs,
           CancelGuarded(r) \/ Arm(r) \/ Switch(r) \/ OpenDashboard(r) \/ SaveDashboard(r)
    PROVE  job[r].pc \in Guarding /\ (GoesOn(r) \/ TearsDown(r))
           /\ UNCHANGED <<up, pass, live>>
<1> DEFINE j == job[r]
<1>1. j \in Job
  BY JobFields
<1>2. CASE CancelGuarded(r)
  BY <1>1, <1>2, TeardownPath DEF CancelGuarded, At, Guarding
<1>3. CASE Arm(r)
  <2> DEFINE carried == AudioPending(j.sess)
             prev == IF carried THEN j.sess.prev ELSE mac.output
             s == [j.sess EXCEPT !.prev = prev]
             g == [j EXCEPT !.sess = s]
  <2>1. j.pc \in Guarding /\ UNCHANGED <<up, pass, live, wine>>
    BY <1>3 DEF Arm, At, Guarding
  <2>2. CASE Teardown(r, "Failed", g)
    <3>1. s \in State
      BY <1>3, ArmMoves
    <3>2. g \in Job /\ g.proc = j.proc
      BY <1>1, <3>1 DEF Job
    <3> QED
      BY <2>1, <2>2, <3>2, TeardownPath
  <2>3. CASE Go(r, "dash") /\ UNCHANGED <<lock, phase>>
    <3>1. Moved(r, Stay(j, "dash"))
      BY <2>3, GoMoves, PCs
    <3> QED
      BY <2>1, <2>3, <3>1 DEF Moved, Stay, Upd, To, GoesOn, Guarding
  <2>4. CASE /\ job' = [job EXCEPT ![r] = [j EXCEPT !.pc = "switch", !.sess = s, !.armed = prev,
                                                    !.carried = carried]]
             /\ UNCHANGED <<lock, phase>>
    <3>1. To(r, Guarding)
      BY <1>1, <2>4 DEF TypeOK, Job, To, Guarding
    <3> QED
      BY <2>1, <2>4, <3>1 DEF GoesOn
  <2> QED
    BY <1>3, <2>2, <2>3, <2>4 DEF Arm
<1>4. CASE Switch(r)
  <2> DEFINE s == [j.sess EXCEPT !.prev = NoDevice]
             g == [j EXCEPT !.sess = s, !.armed = NoDevice]
  <2>1. j.pc \in Guarding /\ UNCHANGED <<up, pass, live, wine>>
    BY <1>4 DEF Switch, At, Guarding
  <2>2. g \in Job /\ g.proc = j.proc
    BY <1>1, <1>4, SwitchMoves DEF Job
  <2>3. CASE Teardown(r, "Cancelled", j) \/ Teardown(r, "Failed", g)
    BY <1>1, <2>1, <2>2, <2>3, TeardownPath
  <2>4. CASE Go(r, "dash") /\ UNCHANGED <<lock, phase>>
    <3>1. Moved(r, Stay(j, "dash"))
      BY <2>4, GoMoves, PCs
    <3> QED
      BY <2>1, <2>4, <3>1 DEF Moved, Stay, Upd, To, GoesOn, Guarding
  <2>5. CASE /\ job' = [job EXCEPT ![r].pc = "dash", ![r].armed = NoDevice]
             /\ UNCHANGED <<lock, phase>>
    <3>1. To(r, Guarding)
      BY <1>1, <2>5 DEF TypeOK, Job, To, Guarding
    <3> QED
      BY <2>1, <2>5, <3>1 DEF GoesOn
  <2>6. CASE job' = [job EXCEPT ![r] = [g EXCEPT !.pc = "dash"]] /\ UNCHANGED <<lock, phase>>
    <3>1. To(r, Guarding)
      BY <2>2, <2>6 DEF TypeOK, Job, To, Guarding
    <3> QED
      BY <2>1, <2>6, <3>1 DEF GoesOn
  <2> QED
    BY <1>4, <2>3, <2>4, <2>5, <2>6 DEF Switch
<1>5. CASE OpenDashboard(r)
  <2>1. j.pc \in Guarding /\ UNCHANGED <<up, pass, live, wine>>
    BY <1>5 DEF OpenDashboard, At, Guarding
  <2>2. CASE Teardown(r, "Failed", j)
    BY <1>1, <2>1, <2>2, TeardownPath
  <2>3. CASE Go(r, "spawn") /\ UNCHANGED <<lock, phase>>
    <3>1. Moved(r, Stay(j, "spawn"))
      BY <2>3, GoMoves, PCs
    <3> QED
      BY <2>1, <2>3, <3>1 DEF Moved, Stay, Upd, To, GoesOn, Guarding
  <2>4. CASE /\ job' = [job EXCEPT ![r].pc = "dashSave", ![r].sess.dashboard = TRUE]
             /\ UNCHANGED <<lock, phase>>
    <3>1. To(r, Guarding)
      BY <1>1, <2>4 DEF TypeOK, Job, To, Guarding
    <3> QED
      BY <2>1, <2>4, <3>1 DEF GoesOn
  <2> QED
    BY <1>5, <2>2, <2>3, <2>4 DEF OpenDashboard
<1>6. CASE SaveDashboard(r)
  <2>1. j.pc \in Guarding /\ UNCHANGED <<up, pass, live, wine>>
    BY <1>6 DEF SaveDashboard, At, Guarding
  <2>2. CASE Teardown(r, "Failed", j) \/ Teardown(r, "Cancelled", j)
    BY <1>1, <2>1, <2>2, TeardownPath
  <2>3. CASE job' = [job EXCEPT ![r].pc = "spawn", ![r].held = TRUE] /\ UNCHANGED <<lock, phase>>
    <3>1. To(r, Guarding)
      BY <1>1, <2>3 DEF TypeOK, Job, To, Guarding
    <3> QED
      BY <2>1, <2>3, <3>1 DEF GoesOn
  <2> QED
    BY <1>6, <2>2, <2>3 DEF SaveDashboard
<1> QED
  BY <1>2, <1>3, <1>4, <1>5, <1>6

LEMMA EndingPaths ==
    ASSUME TypeOK, HandInv, NEW r \in Runs
    PROVE  /\ \/ DetachSave(r) \/ KillWine(r) \/ CloseDashboard(r) \/ SaveClosed(r)
              \/ RestoreOutput(r) \/ SaveRestored(r) \/ FinishRecord(r) \/ ClearState(r)
              => job[r].pc \in Ending /\ To(r, Ending \ {"tdDetach"})
           /\ LeaveSlot(r) => job[r].pc \in Ending /\ To(r, {"unwind"})
<1>1. ASSUME DetachSave(r) PROVE job[r].pc \in Ending /\ To(r, Ending \ {"tdDetach"})
  <2>1. To(r, {"tdLive"})
    BY <1>1, DetachSaveMoves, UpdTo, StayTo
  <2> QED
    BY <1>1, <2>1, ToMore DEF DetachSave, At, Ending
<1>2. ASSUME CloseDashboard(r) PROVE job[r].pc \in Ending /\ To(r, Ending \ {"tdDetach"})
  <2>1. To(r, {"tdDashSave"}) \/ To(r, {"tdAudio"})
    BY <1>2, CloseDashboardMoves, UpdTo, StayTo
  <2> QED
    BY <1>2, <2>1, ToMore DEF CloseDashboard, At, Ending
<1>3. ASSUME RestoreOutput(r) PROVE job[r].pc \in Ending /\ To(r, Ending \ {"tdDetach"})
  <2>1. To(r, {"tdFinish"}) \/ To(r, {"tdAudioSave"})
    BY <1>3, RestoreOutputMoves, UpdTo, StayTo
  <2> QED
    BY <1>3, <2>1, ToMore DEF RestoreOutput, At, Ending
<1>4. ASSUME NEW pc \in JobPC, Go(r, pc)
      PROVE  To(r, {pc})
  BY <1>4, GoMoves, StayTo
<1>5. ASSUME KillWine(r) \/ SaveClosed(r) \/ SaveRestored(r)
      PROVE  job[r].pc \in Ending /\ To(r, Ending \ {"tdDetach"})
  BY <1>4, <1>5, PCs DEF KillWine, SaveClosed, SaveRestored, At, To, Ending
<1>6. ASSUME FinishRecord(r) PROVE job[r].pc \in Ending /\ To(r, Ending \ {"tdDetach"})
  <2>1. Go(r, "tdLive") \/ Go(r, "tdClear")
    BY <1>6 DEF FinishRecord
  <2> QED
    BY <1>4, <1>6, <2>1, PCs DEF FinishRecord, At, To, Ending
<1>7. ASSUME ClearState(r) PROVE job[r].pc \in Ending /\ To(r, Ending \ {"tdDetach"})
  BY <1>4, <1>7, PCs DEF ClearState, At, To, Ending
<1>8. ASSUME LeaveSlot(r) PROVE job[r].pc \in Ending /\ To(r, {"unwind"})
  BY <1>4, <1>8, PCs DEF LeaveSlot, At, To, Ending
<1> QED
  BY <1>1, <1>2, <1>3, <1>5, <1>6, <1>7, <1>8

-----------------------------------------------------------------------------
(* What keeps each part of the exclusion. *)
Fades == \A q \in Runs : wine'[q] = "alive" => wine[q] = "alive"

LEMMA WineFades ==
    ASSUME TypeOK, wine' \in {wine, WineKilled}
    PROVE  Fades
  BY DEF TypeOK, WineKilled, Fades

LEMMA GameKept ==
    ASSUME GameInv, Fades,
           \A q \in Runs : job'[q].pc \in Clear => job[q].pc \in Clear \/ ~GameRunning
    PROVE  GameInv'
  BY DEF GameInv, OneGame, GameRunning, Fades, Clear

LEMMA HoldsLockPCs ==
    /\ Preparing \subseteq HoldsLock \ {"pass"} /\ Guarding \subseteq HoldsLock \ {"pass"}
    /\ {"publish"} \subseteq HoldsLock \ {"pass"} /\ {"record"} \subseteq HoldsLock \ {"pass"}
  BY DEF HoldsLock, Preparing, Guarding

LEMMA LockHeld ==
    ASSUME LockInv, NEW r \in Runs, NEW pcs, To(r, pcs), UNCHANGED <<lock, pass, up>>,
           job[r].pc \in HoldsLock \ {"pass"}, pcs \subseteq HoldsLock \ {"pass"}
    PROVE  LockInv'
  BY DEF LockInv, To

LEMMA LockElsewhere ==
    ASSUME LockInv, NEW r \in Runs, NEW pcs, To(r, pcs), UNCHANGED <<lock, pass, up>>,
           job[r].pc \notin HoldsLock, pcs \cap HoldsLock = {}
    PROVE  LockInv'
  BY DEF LockInv, To

LEMMA LockDropped ==
    ASSUME LockInv, NEW r \in Runs, job[r].pc \in HoldsLock \ {"pass"},
           job'[r].pc \notin HoldsLock, \A q \in Runs \ {r} : job'[q] = job[q],
           Unlock(r), UNCHANGED <<pass, up>>
    PROVE  LockInv'
  BY DEF LockInv, Unlock, FreeLock

LEMMA UnlockElsewhere ==
    ASSUME TypeOK, LockInv, NEW r \in Runs, job[r].pc \notin HoldsLock, Unlock(r)
    PROVE  lock' = lock
<1>1. lock.run # r
  BY DEF LockInv, FreeLock, TypeOK, Locks
<1> QED
  BY <1>1 DEF Unlock

(* The slots of the other processes are left alone.                        *)
SlotsOf(p) == \A q \in Procs \ {p} : live'[q] = live[q] /\ phase'[q] = phase[q]

LEMMA PublishSlots ==
    ASSUME TypeOK, NEW p \in Procs, NEW r, NEW ph, Publish(p, r, ph), UNCHANGED live
    PROVE  SlotsOf(p) /\ phase'[p] = [ph |-> ph, run |-> r]
  BY DEF TypeOK, Publish, SlotsOf

LEMMA ClearPhaseSlots ==
    ASSUME TypeOK, NEW p \in Procs, NEW r, ClearPhase(p, r)
    PROVE  /\ \A q \in Procs \ {p} : phase'[q] = phase[q]
           /\ phase'[p] = IF phase[p].run = r THEN NoPhase ELSE phase[p]
  BY DEF TypeOK, ClearPhase

LEMMA InFlightPCs ==
    ASSUME TypeOK, NEW r \in Runs
    PROVE  job[r].pc \in Flight <=> job[r].pc \notin {"new", "gate", "unwind", "done"}
<1>1. job[r].pc \in JobPC
  BY JobFields
<1> QED
  BY <1>1 DEF JobPC, Flight, WithState, Preparing, Guarding, Running, Ending

ShowsAt(r, p) == live[p] = r \/ (phase[p].run = r /\ phase[p].ph \in InFlight)

(* A launch in flight goes on in flight, and still shows.                  *)
LEMMA VisibleKept ==
    ASSUME TypeOK, TypeOK', HandInv, VisibleInv, NEW r \in Runs, NEW pcs, job[r].pc \in Flight,
           To(r, pcs), pcs \subseteq Flight, SlotsOf(job[r].proc), ShowsAt(r, job[r].proc)',
           job'[r].pc \in {"record", "super", "tdDetach"} => live'[job[r].proc] = r
    PROVE  VisibleInv'
<1>1. \A q \in Runs : job[q].pc \in Flight => job[q].proc \in Procs
  BY DEF HandInv, TypeOK, Flight, WithState, Preparing, Guarding, Running, Ending
<1>2. \A q \in Runs \ {r} : job'[q] = job[q]
  BY DEF To
<1>3. job'[r].pc \in Flight /\ job'[r].proc = job[r].proc
  BY DEF To
<1>4. \A q \in Runs \ {r} : job[q].pc \in Flight => job[q].proc # job[r].proc
  BY DEF VisibleInv, OneFlight
<1>5. OneFlight'
  BY <1>2, <1>3, <1>4 DEF VisibleInv, OneFlight
<1>6. \A q \in Runs \ {r} : job[q].pc \in Flight => live'[job[q].proc] = live[job[q].proc]
                                              /\ phase'[job[q].proc] = phase[job[q].proc]
  BY <1>1, <1>4 DEF SlotsOf
<1>7. InFlightIsVisible'
  <2> SUFFICES ASSUME NEW q \in Runs, (job[q].pc \notin {"new", "gate", "unwind", "done"})'
               PROVE  ShowsAt(q, job[q].proc)'
    BY DEF InFlightIsVisible, ShowsAt
  <2>1. CASE q = r
    BY <1>3, <2>1 DEF ShowsAt
  <2>2. CASE q # r
    <3>1. job'[q] = job[q] /\ job[q].pc \in Flight
      BY <1>2, <2>2, InFlightPCs
    <3>2. ShowsAt(q, job[q].proc)
      BY <3>1, InFlightPCs DEF VisibleInv, InFlightIsVisible, ShowsAt
    <3> QED
      BY <1>6, <2>2, <3>1, <3>2 DEF ShowsAt
  <2> QED
    BY <2>1, <2>2
<1>8. (\A q \in Runs : job[q].pc \in {"record", "super", "tdDetach"} => live[job[q].proc] = q)'
  <2>1. \A q \in Runs : job[q].pc \in {"record", "super", "tdDetach"} => job[q].pc \in Flight
    BY DEF Flight, WithState, Running, Ending
  <2> QED
    BY <1>2, <1>3, <1>6, <2>1 DEF VisibleInv
<1> QED
  BY <1>5, <1>7, <1>8 DEF VisibleInv

(* A launch that is not in flight then: the others still show as long as   *)
(* the slots are only taken from it.                                       *)
LEMMA VisibleOut ==
    ASSUME TypeOK, TypeOK', HandInv, VisibleInv, NEW r \in Runs, job'[r].pc \notin Flight,
           \A q \in Runs \ {r} : job'[q] = job[q],
           \A p \in Procs : /\ live'[p] = live[p] \/ live[p] = r
                            /\ phase'[p] = phase[p] \/ phase[p].run = r
    PROVE  VisibleInv'
<1>1. \A q \in Runs : job[q].pc \in Flight => job[q].proc \in Procs
  BY DEF HandInv, TypeOK, Flight, WithState, Preparing, Guarding, Running, Ending
<1>2. OneFlight'
  BY DEF VisibleInv, OneFlight
<1>3. InFlightIsVisible'
  <2> SUFFICES ASSUME NEW q \in Runs, (job[q].pc \notin {"new", "gate", "unwind", "done"})'
               PROVE  ShowsAt(q, job[q].proc)'
    BY DEF InFlightIsVisible, ShowsAt
  <2>1. job'[q].pc \in Flight
    BY DEF TypeOK, Job
  <2>2. q # r /\ job'[q] = job[q] /\ job[q].pc \in Flight
    BY <2>1
  <2>3. ShowsAt(q, job[q].proc)
    BY <2>2, InFlightPCs DEF VisibleInv, InFlightIsVisible, ShowsAt
  <2> QED
    BY <1>1, <2>2, <2>3 DEF ShowsAt
<1>4. (\A q \in Runs : job[q].pc \in {"record", "super", "tdDetach"} => live[job[q].proc] = q)'
  <2> SUFFICES ASSUME NEW q \in Runs, job'[q].pc \in {"record", "super", "tdDetach"}
               PROVE  live'[job'[q].proc] = q
    OBVIOUS
  <2>1. q # r /\ job'[q] = job[q] /\ job[q].pc \in Flight
    BY DEF Flight, WithState, Running, Ending
  <2> QED
    BY <1>1, <2>1 DEF VisibleInv
<1> QED
  BY <1>2, <1>3, <1>4 DEF VisibleInv

(* Nothing of launches or slots moves.                                     *)
LEMMA VisibleStill ==
    ASSUME VisibleInv, UNCHANGED <<live, phase>>,
           \A q \in Runs : job'[q].pc = job[q].pc /\ (job[q].pc # "done" => job'[q].proc = job[q].proc)
    PROVE  VisibleInv'
  BY DEF VisibleInv, OneFlight, InFlightIsVisible, Flight, WithState, Preparing, Guarding, Running,
         Ending

-----------------------------------------------------------------------------
(* Every step keeps the exclusion. *)
Exclusion == LockInv /\ GameInv /\ VisibleInv

LEMMA AtUp ==
    ASSUME TypeOK, HandInv, NEW r \in Runs, job[r].pc \notin {"new", "done"}
    PROVE  job[r].proc \in up /\ job[r].proc \in Procs
  BY DEF HandInv, TypeOK

LEMMA EndEarlyExcl ==
    ASSUME TypeOK, TypeOK', HandInv, Exclusion, NEW r \in Runs,
           job[r].pc \in {"gate"} \cup Preparing, EndEarly(r), UNCHANGED <<up, wine, pass, live>>
    PROVE  Exclusion'
<1>1. Moved(r, Rest(job[r])) /\ Rest(job[r]).pc = "done"
  BY RestMoves, RestIsJob, JobFields DEF EndEarly
<1>2. job'[r].pc = "done" /\ \A q \in Runs \ {r} : job'[q] = job[q]
  BY <1>1 DEF Moved
<1>3. job[r].proc \in Procs
  BY AtUp DEF Preparing
<1>4. LockInv'
  BY <1>2, LockDropped DEF EndEarly, Exclusion, HoldsLock, Preparing, Guarding
<1>5. GameInv'
  BY <1>2, GameKept, WineFades DEF Exclusion, Clear, Preparing, Guarding
<1>6. \A p \in Procs : phase'[p] = phase[p] \/ phase[p].run = r
  BY <1>3, ClearPhaseSlots DEF EndEarly
<1>7. VisibleInv'
  BY <1>2, <1>6, VisibleOut
     DEF Exclusion, Flight, WithState, Preparing, Guarding, Running, Ending
<1> QED
  BY <1>4, <1>5, <1>7 DEF Exclusion

LEMMA GateExcl ==
    ASSUME TypeOK, TypeOK', HandInv, Exclusion, NEW r \in Runs, Gate(r)
    PROVE  Exclusion'
<1> DEFINE p == job[r].proc
<1>1. job[r].pc = "gate" /\ p \in Procs /\ p \in up
  BY AtUp DEF Gate, At
<1>2. CASE Blocked(p)
  BY <1>1, <1>2, EndEarlyExcl DEF Gate
<1>3. CASE ~Blocked(p)
  <2>1. To(r, {"pass"})
    BY <1>3, GateMoves, StayTo
  <2>2. /\ UNCHANGED <<up, wine, live, lock>> /\ Publish(p, r, "Preflight") /\ pass'.pc = "load"
    BY <1>3 DEF Gate, NoPass
  <2>3. SlotsOf(p) /\ phase'[p] = [ph |-> "Preflight", run |-> r]
    BY <1>1, <2>2, PublishSlots
  <2>4. lock.as = "run" /\ lock.run = r
    BY <1>1 DEF Exclusion, LockInv, HoldsLock
  <2>5. LockInv'
    BY <1>1, <2>1, <2>2, <2>4 DEF Exclusion, LockInv, To, HoldsLock
  <2>6. GameInv'
    BY <1>3, <2>1, <2>2, GameKept, WineFades DEF Exclusion, To, Blocked
  <2>7. \A q \in Runs : job[q].pc \in Flight => job[q].proc # p
    <3> SUFFICES ASSUME NEW q \in Runs, job[q].pc \in Flight, job[q].proc = p
                 PROVE  FALSE
      OBVIOUS
    <3>1. live[p] = q \/ phase[p].ph \in InFlight
      BY InFlightPCs DEF Exclusion, VisibleInv, InFlightIsVisible
    <3> QED
      BY <1>3, <3>1 DEF Blocked, TypeOK
  <2>8. VisibleInv'
    <3>1. \A q \in Runs \ {r} : job'[q] = job[q]
      BY <2>1 DEF To
    <3>2. job'[r].pc = "pass" /\ job'[r].proc = p
      BY <2>1 DEF To
    <3>3. OneFlight'
      BY <2>7, <3>1, <3>2 DEF Exclusion, VisibleInv, OneFlight
    <3>4. InFlightIsVisible'
      <4> SUFFICES ASSUME NEW q \in Runs, (job[q].pc \notin {"new", "gate", "unwind", "done"})'
                   PROVE  ShowsAt(q, job[q].proc)'
        BY DEF InFlightIsVisible, ShowsAt
      <4>1. CASE q = r
        BY <2>3, <3>2, <4>1 DEF ShowsAt, InFlight
      <4>2. CASE q # r
        <5>1. job'[q] = job[q] /\ job[q].pc \in Flight
          BY <3>1, <4>2, InFlightPCs
        <5>2. ShowsAt(q, job[q].proc)
          BY <5>1, InFlightPCs DEF Exclusion, VisibleInv, InFlightIsVisible, ShowsAt
        <5>3. job[q].proc \in Procs \ {p}
          BY <2>7, <5>1, AtUp DEF Flight, WithState, Preparing, Guarding, Running, Ending
        <5> QED
          BY <2>2, <2>3, <5>1, <5>2, <5>3 DEF ShowsAt, SlotsOf
      <4> QED
        BY <4>1, <4>2
    <3> QED
      BY <2>2, <3>1, <3>2, <3>3, <3>4 DEF Exclusion, VisibleInv
  <2> QED
    BY <2>5, <2>6, <2>8 DEF Exclusion
<1> QED
  BY <1>2, <1>3

LEMMA PrepareExcl ==
    ASSUME TypeOK, TypeOK', HandInv, Exclusion, NEW r \in Runs,
           \/ Abandon(r) \/ Hygiene(r) \/ RecordForward(r) \/ AddForward(r) \/ Rollback(r)
           \/ Reset(r) \/ Prepared(r)
    PROVE  Exclusion'
<1> DEFINE p == job[r].proc
<1>1. CASE Abandon(r) \/ Rollback(r)
  BY <1>1, EndEarlyExcl DEF Abandon, Rollback, At, Preparing
<1>2. CASE Hygiene(r) \/ RecordForward(r) \/ AddForward(r) \/ Reset(r)
  <2>1. job[r].pc \in Preparing /\ To(r, Preparing)
    BY <1>2, PreparePaths
  <2>2. UNCHANGED <<up, lock, pass, live, phase>> /\ wine' \in {wine, WineKilled}
    BY <1>2 DEF Hygiene, RecordForward, AddForward, Reset
  <2>3. job[r].pc \in Flight /\ p \in Procs
    BY <2>1, AtUp DEF Flight, WithState, Preparing
  <2>4. ShowsAt(r, p)
    BY <2>3, InFlightPCs DEF Exclusion, VisibleInv, InFlightIsVisible, ShowsAt
  <2>5. LockInv'
    BY <2>1, <2>2, LockHeld, HoldsLockPCs DEF Exclusion
  <2>6. GameInv'
    BY <2>1, <2>2, GameKept, WineFades DEF Exclusion, To, Clear
  <2>7. VisibleInv'
    BY <2>1, <2>2, <2>3, <2>4, VisibleKept
       DEF Exclusion, To, SlotsOf, ShowsAt, Flight, WithState, Preparing
  <2> QED
    BY <2>5, <2>6, <2>7 DEF Exclusion
<1>3. CASE Prepared(r)
  <2>1. job[r].pc \in Preparing /\ To(r, Guarding)
    BY <1>3, PreparePaths
  <2>2. UNCHANGED <<up, wine, lock, pass, live>> /\ Publish(p, r, "Launching")
    BY <1>3 DEF Prepared
  <2>3. job[r].pc \in Flight /\ p \in Procs
    BY <2>1, AtUp DEF Flight, WithState, Preparing
  <2>4. SlotsOf(p) /\ phase'[p] = [ph |-> "Launching", run |-> r]
    BY <2>2, <2>3, PublishSlots
  <2>5. ShowsAt(r, p)'
    BY <2>1, <2>4 DEF ShowsAt, To, InFlight
  <2>6. LockInv'
    BY <2>1, <2>2, LockHeld, HoldsLockPCs DEF Exclusion
  <2>7. GameInv'
    BY <2>1, <2>2, GameKept, WineFades DEF Exclusion, To, Clear
  <2>8. VisibleInv'
    BY <2>1, <2>3, <2>4, <2>5, VisibleKept
       DEF Exclusion, To, ShowsAt, Flight, WithState, Guarding
  <2> QED
    BY <2>6, <2>7, <2>8 DEF Exclusion
<1> QED
  BY <1>1, <1>2, <1>3

LEMMA TearsDownExcl ==
    ASSUME TypeOK, TypeOK', HandInv, Exclusion, NEW r \in Runs, job[r].pc \in Guarding,
           TearsDown(r), UNCHANGED <<up, pass, live>>
    PROVE  Exclusion'
<1> DEFINE p == job[r].proc
<1>1. /\ To(r, {"tdKill", "tdDash"}) /\ Unlock(r) /\ Publish(p, r, "Stopping")
      /\ UNCHANGED wine
  BY DEF TearsDown
<1>2. job[r].pc \in Flight /\ p \in Procs
  BY AtUp DEF Flight, WithState, Guarding
<1>3. SlotsOf(p) /\ phase'[p] = [ph |-> "Stopping", run |-> r]
  BY <1>1, <1>2, PublishSlots
<1>4. ShowsAt(r, p)'
  BY <1>1, <1>3 DEF ShowsAt, To, InFlight
<1>5. LockInv'
  BY <1>1, LockDropped DEF Exclusion, To, HoldsLock, Preparing, Guarding
<1>6. GameInv'
  BY <1>1, GameKept, WineFades DEF Exclusion, To, Clear, Preparing, Guarding
<1>7. VisibleInv'
  BY <1>1, <1>2, <1>3, <1>4, VisibleKept DEF Exclusion, To, ShowsAt, Flight, WithState, Ending
<1> QED
  BY <1>5, <1>6, <1>7 DEF Exclusion

LEMMA SpawnExcl ==
    ASSUME TypeOK, TypeOK', HandInv, Exclusion, NEW r \in Runs, Spawn(r)
    PROVE  Exclusion'
<1> DEFINE p == job[r].proc
<1>1. job[r].pc \in Guarding /\ job[r].pc = "spawn" /\ UNCHANGED <<up, pass, live>>
  BY DEF Spawn, At, Guarding
<1>2. CASE Teardown(r, "Failed", job[r]) /\ UNCHANGED wine
  BY <1>1, <1>2, JobFields, TeardownPath, TearsDownExcl
<1>3. CASE /\ wine' = [wine EXCEPT ![r] = "alive"] /\ UNCHANGED <<lock, phase>>
           /\ \E c \in {"exact", "unobserved"} :
                 job' = [job EXCEPT ![r].pc = "publish", ![r].sess.child = c]
  <2>1. To(r, {"publish"})
    <3>1. PICK c \in {"exact", "unobserved"} :
             job' = [job EXCEPT ![r].pc = "publish", ![r].sess.child = c]
      BY <1>3
    <3>2. job'[r] = [job[r] EXCEPT !.pc = "publish", !.sess.child = c]
      BY <3>1 DEF TypeOK
    <3>3. job'[r].pc = "publish" /\ job'[r].proc = job[r].proc
      BY <3>2, JobFields DEF Job
    <3> QED
      BY <3>1, <3>3 DEF To, TypeOK
  <2>2. job[r].pc \in Flight /\ p \in Procs
    BY <1>1, AtUp DEF Flight, WithState, Guarding
  <2>3. ShowsAt(r, p)
    BY <2>2, InFlightPCs DEF Exclusion, VisibleInv, InFlightIsVisible, ShowsAt
  <2>4. LockInv'
    BY <1>1, <1>3, <2>1, LockHeld, HoldsLockPCs DEF Exclusion
  <2>5. GameInv'
    <3>1. ~GameRunning
      BY <1>1 DEF Exclusion, GameInv
    <3>2. OneGame'
      BY <1>3, <3>1 DEF OneGame, GameRunning, TypeOK
    <3>3. \A q \in Runs : q # r => job'[q].pc \notin Clear
      <4> SUFFICES ASSUME NEW q \in Runs, q # r, job'[q].pc \in Clear
                   PROVE  FALSE
        OBVIOUS
      <4>1. job[q].pc \in HoldsLock
        BY <2>1 DEF To, Clear, HoldsLock
      <4>2. job[r].pc \in HoldsLock
        BY <1>1 DEF HoldsLock
      <4> QED
        BY <4>1, <4>2 DEF Exclusion, LockInv
    <3>4. job'[r].pc \notin Clear
      BY <2>1 DEF To, Clear, Preparing, Guarding
    <3> QED
      BY <3>2, <3>3, <3>4 DEF GameInv, Clear
  <2>6. VisibleInv'
    BY <1>1, <1>3, <2>1, <2>2, <2>3, VisibleKept
       DEF Exclusion, To, SlotsOf, ShowsAt, Flight, WithState, Running
  <2> QED
    BY <2>4, <2>5, <2>6 DEF Exclusion
<1> QED
  BY <1>2, <1>3 DEF Spawn

LEMMA PublishLiveExcl ==
    ASSUME TypeOK, TypeOK', HandInv, Exclusion, NEW r \in Runs, PublishLive(r)
    PROVE  Exclusion'
<1> DEFINE p == job[r].proc
<1>1. job[r].pc = "publish" /\ job[r].pc \in Flight /\ p \in Procs
  BY AtUp DEF PublishLive, At, Flight, WithState, Running
<1>2. UNCHANGED <<up, wine, lock, pass>> /\ ClearPhase(p, r)
  BY DEF PublishLive
<1>3. To(r, {"record"})
  BY PCs, GoMoves, StayTo DEF PublishLive
<1>4. live'[p] = r /\ \A q \in Procs \ {p} : live'[q] = live[q]
  BY <1>1 DEF PublishLive, TypeOK
<1>5. SlotsOf(p)
  BY <1>1, <1>2, <1>4, ClearPhaseSlots DEF SlotsOf
<1>6. ShowsAt(r, p)'
  BY <1>3, <1>4 DEF ShowsAt, To
<1>7. LockInv'
  BY <1>1, <1>2, <1>3, LockHeld, HoldsLockPCs DEF Exclusion
<1>8. GameInv'
  BY <1>2, <1>3, GameKept, WineFades DEF Exclusion, To, Clear, Preparing, Guarding
<1>9. VisibleInv'
  BY <1>1, <1>3, <1>4, <1>5, <1>6, VisibleKept
     DEF Exclusion, To, ShowsAt, Flight, WithState, Running
<1> QED
  BY <1>7, <1>8, <1>9 DEF Exclusion

LEMMA RecordLaunchedExcl ==
    ASSUME TypeOK, TypeOK', HandInv, Exclusion, NEW r \in Runs, RecordLaunched(r)
    PROVE  Exclusion'
<1> DEFINE p == job[r].proc
<1>1. job[r].pc = "record" /\ job[r].pc \in Flight /\ p \in Procs
  BY AtUp DEF RecordLaunched, At, Flight, WithState, Running
<1>2. UNCHANGED <<up, wine, pass, live, phase>> /\ Unlock(r)
  BY DEF RecordLaunched
<1>3. To(r, {"super"})
  BY PCs, GoMoves, StayTo DEF RecordLaunched
<1>4. ShowsAt(r, p) /\ live[p] = r
  BY <1>1, InFlightPCs DEF Exclusion, VisibleInv, InFlightIsVisible, ShowsAt
<1>5. LockInv'
  BY <1>1, <1>2, <1>3, LockDropped DEF Exclusion, To, HoldsLock, Preparing, Guarding
<1>6. GameInv'
  BY <1>2, <1>3, GameKept, WineFades DEF Exclusion, To, Clear, Preparing, Guarding
<1>7. VisibleInv'
  BY <1>1, <1>2, <1>3, <1>4, VisibleKept
     DEF Exclusion, To, SlotsOf, ShowsAt, Flight, WithState, Running
<1> QED
  BY <1>5, <1>6, <1>7 DEF Exclusion

LEMMA SuperviseExcl ==
    ASSUME TypeOK, TypeOK', HandInv, Exclusion, NEW r \in Runs, Supervise(r)
    PROVE  Exclusion'
<1> DEFINE p == job[r].proc
<1>1. job[r].pc = "super" /\ job[r].pc \in Flight /\ p \in Procs
  BY AtUp DEF Supervise, At, Flight, WithState, Running
<1>2. UNCHANGED <<up, wine, pass, live>>
  BY DEF Supervise
<1>3. To(r, Ending)
  <2>1. To(r, {"tdKill"}) \/ To(r, {"tdDash"}) \/ To(r, {"tdDetach"})
    BY SuperviseMoves, StayTo, NoteTo
  <2> QED
    BY <2>1, ToMore DEF Ending
<1>4. live[p] = r
  BY <1>1 DEF Exclusion, VisibleInv
<1>5. job[r].pc \notin HoldsLock
  BY <1>1 DEF HoldsLock, Preparing, Guarding
<1>6. lock' = lock
  BY <1>5, UnlockElsewhere DEF Supervise, Teardown, Exclusion
<1>7. SlotsOf(p)
  BY <1>1, <1>2, PublishSlots DEF Supervise, Teardown, SlotsOf
<1>8. ShowsAt(r, p)'
  BY <1>2, <1>3, <1>4 DEF ShowsAt, To
<1>9. LockInv'
  BY <1>2, <1>3, <1>5, <1>6, LockElsewhere DEF Exclusion, HoldsLock, Ending, Preparing, Guarding
<1>10. GameInv'
  BY <1>2, <1>3, GameKept, WineFades DEF Exclusion, To, Clear, Preparing, Guarding, Ending
<1>11. VisibleInv'
  BY <1>1, <1>2, <1>3, <1>4, <1>7, <1>8, VisibleKept
     DEF Exclusion, To, ShowsAt, Flight, WithState
<1> QED
  BY <1>9, <1>10, <1>11 DEF Exclusion

LEMMA GuardedExcl ==
    ASSUME TypeOK, TypeOK', HandInv, Exclusion, NEW r \in Runs,
           CancelGuarded(r) \/ Arm(r) \/ Switch(r) \/ OpenDashboard(r) \/ SaveDashboard(r)
    PROVE  Exclusion'
<1> DEFINE p == job[r].proc
<1>1. /\ job[r].pc \in Guarding /\ (GoesOn(r) \/ TearsDown(r))
      /\ UNCHANGED <<up, pass, live>>
  BY GuardedPaths
<1>2. CASE TearsDown(r)
  BY <1>1, <1>2, TearsDownExcl
<1>3. CASE GoesOn(r)
  <2>1. To(r, Guarding) /\ UNCHANGED <<wine, lock, phase>>
    BY <1>3 DEF GoesOn
  <2>2. job[r].pc \in Flight /\ p \in Procs
    BY <1>1, AtUp DEF Flight, WithState, Guarding
  <2>3. ShowsAt(r, p)
    BY <2>2, InFlightPCs DEF Exclusion, VisibleInv, InFlightIsVisible, ShowsAt
  <2>4. LockInv'
    BY <1>1, <2>1, LockHeld, HoldsLockPCs DEF Exclusion
  <2>5. GameInv'
    BY <1>1, <2>1, GameKept, WineFades DEF Exclusion, To, Clear
  <2>6. VisibleInv'
    BY <1>1, <2>1, <2>2, <2>3, VisibleKept
       DEF Exclusion, To, SlotsOf, ShowsAt, Flight, WithState, Guarding
  <2> QED
    BY <2>4, <2>5, <2>6 DEF Exclusion
<1> QED
  BY <1>1, <1>2, <1>3

LEMMA TeardownExcl ==
    ASSUME TypeOK, TypeOK', HandInv, Exclusion, NEW r \in Runs, TeardownStep(r)
    PROVE  Exclusion'
<1> DEFINE p == job[r].proc
<1>1. CASE \/ DetachSave(r) \/ KillWine(r) \/ CloseDashboard(r) \/ SaveClosed(r)
           \/ RestoreOutput(r) \/ SaveRestored(r) \/ FinishRecord(r) \/ ClearState(r)
  <2>1. job[r].pc \in Ending /\ To(r, Ending \ {"tdDetach"})
    BY <1>1, EndingPaths
  <2>2. UNCHANGED <<up, lock, pass, live, phase>> /\ wine' \in {wine, WineKilled}
    BY <1>1 DEF DetachSave, KillWine, CloseDashboard, SaveClosed, RestoreOutput, SaveRestored,
                FinishRecord, ClearState
  <2>3. job[r].pc \in Flight /\ p \in Procs
    BY <2>1, AtUp DEF Flight, WithState, Ending
  <2>4. ShowsAt(r, p)
    BY <2>3, InFlightPCs DEF Exclusion, VisibleInv, InFlightIsVisible, ShowsAt
  <2>5. LockInv'
    BY <2>1, <2>2, LockElsewhere DEF Exclusion, HoldsLock, Ending, Preparing, Guarding
  <2>6. GameInv'
    BY <2>1, <2>2, GameKept, WineFades DEF Exclusion, To, Clear, Ending, Preparing, Guarding
  <2>7. VisibleInv'
    BY <2>1, <2>2, <2>3, <2>4, VisibleKept
       DEF Exclusion, To, SlotsOf, ShowsAt, Flight, WithState, Ending
  <2> QED
    BY <2>5, <2>6, <2>7 DEF Exclusion
<1>2. CASE LeaveSlot(r)
  <2>1. job[r].pc \in Ending /\ To(r, {"unwind"}) /\ p \in Procs
    BY <1>2, EndingPaths, AtUp DEF Ending
  <2>2. UNCHANGED <<up, wine, lock, pass, phase>> /\ ClearLive(p, r)
    BY <1>2 DEF LeaveSlot
  <2>3. LockInv'
    BY <2>1, <2>2, LockElsewhere DEF Exclusion, HoldsLock, Ending, Preparing, Guarding
  <2>4. GameInv'
    BY <2>1, <2>2, GameKept, WineFades DEF Exclusion, To, Clear, Preparing, Guarding
  <2>5. \A q \in Procs : live'[q] = live[q] \/ live[q] = r
    BY <2>1, <2>2 DEF ClearLive, TypeOK
  <2>6. VisibleInv'
    BY <2>1, <2>2, <2>5, VisibleOut
       DEF Exclusion, To, Flight, WithState, Preparing, Guarding, Running, Ending
  <2> QED
    BY <2>3, <2>4, <2>6 DEF Exclusion
<1>3. CASE Unwind(r)
  <2>1. job[r].pc = "unwind" /\ p \in Procs
    BY <1>3, AtUp DEF Unwind, At
  <2>2. Moved(r, Rest(job[r])) /\ Rest(job[r]).pc = "done"
    BY <1>3, RestMoves, RestIsJob, JobFields DEF Unwind
  <2>3. job'[r].pc = "done" /\ \A q \in Runs \ {r} : job'[q] = job[q]
    BY <2>2 DEF Moved
  <2>4. UNCHANGED <<up, wine, lock, pass, live>>
    BY <1>3 DEF Unwind
  <2>5. LockInv'
    BY <2>1, <2>3, <2>4 DEF Exclusion, LockInv, HoldsLock, Preparing, Guarding
  <2>6. GameInv'
    BY <2>3, <2>4, GameKept, WineFades DEF Exclusion, Clear, Preparing, Guarding
  <2>7. \A q \in Procs : phase'[q] = phase[q] \/ phase[q].run = r
    BY <1>3, <2>1, ClearPhaseSlots DEF Unwind
  <2>8. VisibleInv'
    BY <2>3, <2>4, <2>7, VisibleOut
       DEF Exclusion, Flight, WithState, Preparing, Guarding, Running, Ending
  <2> QED
    BY <2>5, <2>6, <2>8 DEF Exclusion
<1> QED
  BY <1>1, <1>2, <1>3 DEF TeardownStep

LEMMA LaunchExcl ==
    ASSUME TypeOK, TypeOK', HandInv, Exclusion, NEW r \in Runs, LaunchStep(r)
    PROVE  Exclusion'
  BY GateExcl, PrepareExcl, GuardedExcl, SpawnExcl, PublishLiveExcl, RecordLaunchedExcl,
     SuperviseExcl, TeardownExcl DEF LaunchStep

LEMMA BeginExcl ==
    ASSUME TypeOK, TypeOK', HandInv, Exclusion, NEW r \in Runs, NEW p \in Procs, Begin(r, p),
           job'[r].pc = "gate", job'[r].proc = p, \A q \in Runs \ {r} : job'[q] = job[q]
    PROVE  Exclusion'
<1>1. job[r].pc = "new" /\ p \in up /\ lock = FreeLock /\ lock' = [as |-> "run", proc |-> p, run |-> r]
  BY DEF Begin
<1>2. UNCHANGED <<up, wine, pass, live, phase>>
  BY DEF Begin
<1>3. LockInv'
  BY <1>1, <1>2 DEF Exclusion, LockInv, FreeLock, HoldsLock
<1>4. GameInv'
  BY <1>2, GameKept, WineFades DEF Exclusion, Clear, Preparing, Guarding
<1>5. VisibleInv'
  BY <1>2, VisibleOut DEF Exclusion, Flight, WithState, Preparing, Guarding, Running, Ending
<1> QED
  BY <1>3, <1>4, <1>5 DEF Exclusion

LEMMA EndsExcl ==
    ASSUME TypeOK, TypeOK', HandInv, Exclusion, NEW p \in Procs, Ends(p)
    PROVE  Exclusion'
<1>1. \A r \in Runs : IF job[r].proc = p THEN job'[r].pc = "done" ELSE job'[r] = job[r]
  BY EndsJobs
<1>2. UNCHANGED wine /\ up' = up \ {p}
  BY DEF Ends
<1>3. \A r \in Runs : job'[r].pc # "done" => job[r].proc # p /\ job'[r] = job[r]
  BY <1>1
<1>4. LockInv'
  <2>1. CASE lock.proc = p
    <3>1. lock' = FreeLock /\ pass' = NoPass
      BY <2>1 DEF Ends
    <3>2. \A r \in Runs : job'[r].pc \notin HoldsLock
      BY <1>3, <2>1 DEF Exclusion, LockInv, HoldsLock, Preparing, Guarding
    <3> QED
      BY <3>1, <3>2 DEF LockInv, FreeLock, NoPass
  <2>2. CASE lock.proc # p
    <3>1. lock' = lock /\ pass' = pass
      BY <2>2 DEF Ends
    <3>2. lock.as = "run" => lock.run \in Runs /\ job'[lock.run] = job[lock.run]
      BY <1>1, <2>2 DEF Exclusion, LockInv
    <3> QED
      BY <1>2, <1>3, <2>2, <3>1, <3>2
         DEF Exclusion, LockInv, HoldsLock, Preparing, Guarding
  <2> QED
    BY <2>1, <2>2
<1>5. GameInv'
  BY <1>2, <1>3, GameKept, WineFades DEF Exclusion, Clear, Preparing, Guarding
<1>6. \A q \in Procs \ {p} : live'[q] = live[q] /\ phase'[q] = phase[q]
  BY DEF Ends, TypeOK
<1>7. \A r \in Runs : job'[r].pc \in Flight =>
         /\ job'[r] = job[r] /\ job[r].proc \in Procs \ {p}
         /\ live'[job[r].proc] = live[job[r].proc] /\ phase'[job[r].proc] = phase[job[r].proc]
  BY <1>3, <1>6, AtUp DEF Flight, WithState, Preparing, Guarding, Running, Ending
<1>8. VisibleInv'
  <2>1. OneFlight'
    BY <1>7 DEF Exclusion, VisibleInv, OneFlight
  <2>2. InFlightIsVisible'
    <3> SUFFICES ASSUME NEW q \in Runs, (job[q].pc \notin {"new", "gate", "unwind", "done"})'
                 PROVE  ShowsAt(q, job[q].proc)'
      BY DEF InFlightIsVisible, ShowsAt
    <3>1. job'[q].pc \in Flight
      BY DEF TypeOK, Job
    <3>2. job'[q] = job[q] /\ job[q].pc \in Flight
      BY <1>7, <3>1
    <3>3. ShowsAt(q, job[q].proc)
      BY <3>2, InFlightPCs DEF Exclusion, VisibleInv, InFlightIsVisible, ShowsAt
    <3> QED
      BY <1>7, <3>1, <3>2, <3>3 DEF ShowsAt
  <2>3. (\A q \in Runs : job[q].pc \in {"record", "super", "tdDetach"} => live[job[q].proc] = q)'
    <3> SUFFICES ASSUME NEW q \in Runs, job'[q].pc \in {"record", "super", "tdDetach"}
                 PROVE  live'[job'[q].proc] = q
      OBVIOUS
    <3>1. job'[q].pc \in Flight
      BY DEF Flight, WithState, Running, Ending
    <3> QED
      BY <1>7, <3>1 DEF Exclusion, VisibleInv
  <2> QED
    BY <2>1, <2>2, <2>3 DEF VisibleInv
<1> QED
  BY <1>4, <1>5, <1>8 DEF Exclusion

LEMMA ProcessExcl ==
    ASSUME TypeOK, TypeOK', HandInv, Exclusion, NEW p \in Procs,
           Boot(p) \/ Quit(p) \/ Crash(p) \/ StartReconcile(p) \/ StartStop(p)
    PROVE  Exclusion'
<1>1. CASE Boot(p)
  <2>1. UNCHANGED <<wine, lock, pass, job, live, phase>> /\ up \subseteq up'
    BY <1>1 DEF Boot
  <2>2. LockInv'
    BY <2>1 DEF Exclusion, LockInv
  <2>3. GameInv' /\ VisibleInv'
    BY <2>1 DEF Exclusion, GameInv, OneGame, GameRunning, VisibleInv, OneFlight, InFlightIsVisible
  <2> QED
    BY <2>2, <2>3 DEF Exclusion
<1>2. CASE Quit(p) \/ Crash(p)
  BY <1>2, EndsExcl DEF Quit, Crash
<1>3. CASE StartReconcile(p) \/ StartStop(p)
  <2>1. /\ UNCHANGED <<up, wine, job, live, phase>> /\ p \in up /\ lock = FreeLock
        /\ lock'.as \in {"stop", "reconcile"} /\ lock'.proc = p /\ lock'.run = NoRun
    BY <1>3 DEF StartReconcile, StartStop
  <2>2. LockInv'
    BY <2>1 DEF Exclusion, LockInv, FreeLock
  <2>3. GameInv' /\ VisibleInv'
    BY <2>1 DEF Exclusion, GameInv, OneGame, GameRunning, VisibleInv, OneFlight, InFlightIsVisible
  <2> QED
    BY <2>2, <2>3 DEF Exclusion
<1> QED
  BY <1>1, <1>2, <1>3

LEMMA GameExcl ==
    ASSUME TypeOK, Exclusion, NEW r \in Runs, WineExits(r) \/ PidReused(r)
    PROVE  Exclusion'
<1>1. UNCHANGED <<up, lock, pass, job, live, phase>>
  BY DEF WineExits, PidReused
<1>2. Fades
  BY DEF WineExits, PidReused, TypeOK, Fades
<1>3. GameInv'
  BY <1>1, <1>2, GameKept DEF Exclusion
<1>4. LockInv' /\ VisibleInv'
  BY <1>1 DEF Exclusion, LockInv, VisibleInv, OneFlight, InFlightIsVisible
<1> QED
  BY <1>3, <1>4 DEF Exclusion

LEMMA RequestExcl ==
    ASSUME TypeOK, HandInv, Exclusion, NEW r \in Runs, Request(r)
    PROVE  Exclusion'
<1>1. PICK k \in Job :
         /\ Moved(r, k) /\ k.pc = job[r].pc /\ (k.pc # "done" => k.proc = job[r].proc)
  BY RequestIsAsked DEF Asked
<1>2. UNCHANGED <<up, wine, lock, pass, live, phase>>
  BY DEF Request, RequestCancel, RequestStop, StopAnswered, RequestDetach, SettleDetach
<1>3. \A q \in Runs : job'[q].pc = job[q].pc /\ (job[q].pc # "done" => job'[q].proc = job[q].proc)
  BY <1>1 DEF Moved
<1>4. LockInv'
  BY <1>2, <1>3 DEF Exclusion, LockInv, HoldsLock, Preparing, Guarding
<1>5. GameInv'
  BY <1>2, <1>3, GameKept, WineFades DEF Exclusion
<1>6. VisibleInv'
  BY <1>2, <1>3, VisibleStill DEF Exclusion
<1> QED
  BY <1>4, <1>5, <1>6 DEF Exclusion

(* A pass that ends gives the lock back, or its launch goes on with it.    *)
LEMMA PassEndExcl ==
    ASSUME TypeOK, TypeOK', HandInv, Exclusion, pass.pc # "none", UNCHANGED <<up, wine, live>>,
           \/ PassFails
           \/ \E prev \in Devices \cup {NoDevice}, fwds \in SUBSET Ports : CarryOn(prev, fwds)
    PROVE  Exclusion'
<1> DEFINE r == lock.run
           p == lock.proc
<1>1. NoPass.pc = "none" /\ FreeLock.as = "free"
  BY DEF NoPass, FreeLock
<1>2. CASE EndRecover
  <2>1. UNCHANGED <<job, phase>> /\ lock' = FreeLock /\ pass' = NoPass
    BY <1>2 DEF EndRecover
  <2>2. LockInv'
    BY <1>1, <1>2, <2>1 DEF EndRecover, Exclusion, LockInv
  <2>3. GameInv' /\ VisibleInv'
    BY <2>1 DEF Exclusion, GameInv, OneGame, GameRunning, VisibleInv, OneFlight, InFlightIsVisible
  <2> QED
    BY <2>2, <2>3 DEF Exclusion
<1>3. CASE RefuseRun
  <2>1. r \in Runs /\ p \in Procs /\ job[r].proc = p /\ job[r].pc = "pass"
    BY <1>3, PassHolder DEF RefuseRun, Exclusion
  <2>2. Moved(r, Rest(job[r])) /\ Rest(job[r]).pc = "done"
    BY <1>3, <2>1, RefuseRunMoves, RestIsJob, JobFields DEF Exclusion
  <2>3. job'[r].pc = "done" /\ \A q \in Runs \ {r} : job'[q] = job[q]
    BY <2>2 DEF Moved
  <2>4. lock' = FreeLock /\ pass' = NoPass /\ ClearPhase(p, r)
    BY <1>3 DEF RefuseRun
  <2>5. LockInv'
    BY <1>1, <1>3, <2>3, <2>4
       DEF RefuseRun, Exclusion, LockInv, HoldsLock, Preparing, Guarding
  <2>6. GameInv'
    BY <2>3, GameKept, WineFades DEF Exclusion, Clear, Preparing, Guarding
  <2>7. \A q \in Procs : phase'[q] = phase[q] \/ phase[q].run = r
    BY <2>1, <2>4, ClearPhaseSlots
  <2>8. VisibleInv'
    BY <2>1, <2>3, <2>7, VisibleOut
       DEF Exclusion, Flight, WithState, Preparing, Guarding, Running, Ending
  <2> QED
    BY <2>5, <2>6, <2>8 DEF Exclusion
<1>4. ASSUME NEW prev \in Devices \cup {NoDevice}, NEW fwds \in SUBSET Ports, CarryOn(prev, fwds)
      PROVE  Exclusion'
  <2>1. r \in Runs /\ p \in Procs /\ job[r].proc = p /\ job[r].pc = "pass" /\ lock.as = "run"
    BY <1>4, PassHolder DEF CarryOn, Exclusion
  <2>2. To(r, {"prep"})
    BY <1>4, <2>1, CarryOnMoves, NoteTo DEF Exclusion
  <2>3. UNCHANGED <<lock, phase>> /\ pass' = NoPass
    BY <1>4 DEF CarryOn
  <2>4. job[r].pc \in Flight
    BY <2>1 DEF Flight
  <2>5. ShowsAt(r, p)
    BY <2>1, InFlightPCs DEF Exclusion, VisibleInv, InFlightIsVisible, ShowsAt
  <2>6. LockInv'
    BY <1>1, <2>1, <2>2, <2>3 DEF Exclusion, LockInv, To, HoldsLock, Preparing
  <2>7. GameInv'
    BY <2>1, <2>2, GameKept, WineFades DEF Exclusion, To, Clear
  <2>8. VisibleInv'
    BY <2>1, <2>2, <2>3, <2>4, <2>5, VisibleKept
       DEF Exclusion, To, SlotsOf, ShowsAt, Flight, WithState, Preparing
  <2> QED
    BY <2>6, <2>7, <2>8 DEF Exclusion
<1> QED
  BY <1>2, <1>3, <1>4 DEF PassFails

LEMMA PassGoesExcl ==
    ASSUME TypeOK, Exclusion, pass.pc # "none", UNCHANGED <<up, lock, job, live, phase>>,
           wine' \in {wine, WineKilled}
    PROVE  Exclusion'
<1>1. GameInv'
  BY GameKept, WineFades DEF Exclusion
<1>2. LockInv' /\ VisibleInv'
  BY DEF Exclusion, LockInv, VisibleInv, OneFlight, InFlightIsVisible
<1> QED
  BY <1>1, <1>2 DEF Exclusion

(* A step of the pass moves the pass only, or ends it.                     *)
LEMMA PassPaths ==
    ASSUME TypeOK, HandInv, PassStep \/ CancelPass
    PROVE  /\ pass.pc # "none" /\ UNCHANGED <<up, live>> /\ wine' \in {wine, WineKilled}
           /\ \/ UNCHANGED <<lock, job, phase>>
              \/ /\ UNCHANGED wine
                 /\ \/ PassFails
                    \/ \E prev \in Devices \cup {NoDevice}, fwds \in SUBSET Ports : CarryOn(prev, fwds)
<1>1. CASE StopWine \/ StopReap \/ RestoreAudio \/ RestoreDashboard \/ RestoreForwards \/ RemoveForward
  BY <1>1 DEF StopWine, StopReap, RestoreAudio, RestoreDashboard, RestoreForwards, RemoveForward
<1>2. CASE Load
  BY <1>2 DEF Load, PassFails
<1>3. CASE SaveProgress
  BY <1>3 DEF SaveProgress, AfterSave
<1>4. CASE FinishPass
  <2>1. pass.st \in State
    BY <1>4 DEF FinishPass, HandInv, PassLoaded
  <2>2. /\ (IF pass.st.audio_restored THEN NoDevice ELSE pass.st.prev) \in Devices \cup {NoDevice}
        /\ (IF pass.st.forwards_cleared THEN {} ELSE pass.st.fwds) \in SUBSET Ports
    BY <2>1 DEF State
  <2>3. PassFails \/ EndRecover \/ CarryForward(pass.st)
    BY <1>4 DEF FinishPass
  <2> QED
    BY <1>4, <2>2, <2>3 DEF FinishPass, PassFails, CarryForward
<1>5. CASE CancelPass
  BY <1>5 DEF CancelPass
<1> QED
  BY <1>1, <1>2, <1>3, <1>4, <1>5 DEF PassStep

LEMMA NextExcl ==
    ASSUME TypeOK, TypeOK', HandInv, Exclusion, Next
    PROVE  Exclusion'
<1>1. ASSUME PassStep \/ CancelPass
      PROVE  Exclusion'
  BY <1>1, PassPaths, PassEndExcl, PassGoesExcl
<1>2. ASSUME NEW r \in Runs, NEW p \in Procs, Begin(r, p)
      PROVE  Exclusion'
  BY <1>2, BeginTypes, BeginExcl DEF Exclusion
<1> QED
  BY <1>1, <1>2, ProcessExcl, LaunchExcl, GameExcl, RequestExcl DEF Next, Request

LEMMA NextInv ==
    ASSUME IInv, Next
    PROVE  IInv'
<1>1. TypeOK' /\ HandInv'
  BY NextTypes DEF IInv
<1>2. Exclusion'
  BY <1>1, NextExcl DEF IInv, Exclusion
<1> QED
  BY <1>1, <1>2 DEF IInv, Exclusion

LEMMA InitInv ==
    ASSUME Init
    PROVE  IInv
<1> USE DEF Init, BaseInit
<1>1. NoJob \in Job /\ NoJob.pc = "new"
  BY DEF NoJob, Job
<1>2. FreeLock \in Locks /\ NoPhase \in Phases /\ NoPass \in Pass /\ NoPass.pc = "none"
  BY DEF FreeLock, Locks, NoPhase, Phases, NoPass, Pass
<1>3. mac \in Macs /\ budget \in Budgets
  BY DEF Macs, Budgets, Devices
<1>4. \A r \in Runs : job[r].pc = "new"
  BY <1>1
<1>5. TypeOK
  BY <1>1, <1>2, <1>3 DEF TypeOK, WineStates
<1>6. HandInv
  BY <1>2, <1>4 DEF HandInv, WithState, PassLoaded, Preparing, Guarding, Running, Ending
<1>7. LockInv
  BY <1>2, <1>4 DEF LockInv, FreeLock, HoldsLock, Preparing, Guarding
<1>8. GameInv
  BY <1>4 DEF GameInv, OneGame, Preparing, Guarding
<1>9. VisibleInv
  BY <1>4 DEF VisibleInv, OneFlight, InFlightIsVisible, Flight, WithState, Preparing, Guarding,
              Running, Ending
<1> QED
  BY <1>5, <1>6, <1>7, <1>8, <1>9 DEF IInv

(* The types, what a launch has in hand and the exclusion are invariant.   *)
THEOREM Invariance == Spec => []IInv
<1>1. Init => IInv
  BY InitInv
<1>2. IInv /\ [Next]_vars => IInv'
  <2> SUFFICES ASSUME IInv, [Next]_vars
               PROVE  IInv'
    OBVIOUS
  <2>1. CASE Next
    BY <2>1, NextInv
  <2>2. CASE UNCHANGED vars
    BY <2>2 DEF vars, IInv, TypeOK, HandInv, LockInv, GameInv, OneGame, GameRunning, VisibleInv,
                OneFlight, InFlightIsVisible
  <2> QED
    BY <2>1, <2>2
<1> QED
  BY <1>1, <1>2, PTL DEF Spec

(* Two games never run in the bottle at once, whatever number of           *)
(* front-ends launch, stop, crash and restart: launch_block looks at the   *)
(* process table under the operation lock, and the lock is the launch's    *)
(* until its own game is up.                                               *)
THEOREM NeverTwoGames == Spec => []OneGame
<1>1. IInv => OneGame
  BY DEF IInv, GameInv
<1> QED
  BY <1>1, Invariance, PTL

(* From its gate to the end of its teardown a launch shows in the slots of *)
(* its process, LIVE_SESSION or RUN_PHASE.                                 *)
THEOREM LaunchesShow == Spec => []InFlightIsVisible
<1>1. IInv => InFlightIsVisible
  BY DEF IInv, VisibleInv
<1> QED
  BY <1>1, Invariance, PTL

-----------------------------------------------------------------------------
(* One front-end, however often it is restarted. *)
OneFrontEnd == \A p, q \in Procs : FrontEnd[p] = FrontEnd[q]

(* Then one process is up at a time, and while a launch is under way no    *)
(* game but its own runs.                                                  *)
OneUp       == \A p, q \in up : p = q
OnlyGameInv == \A r, q \in Runs : job[r].pc \in Flight /\ wine[q] = "alive" => q = r

LoneInv == OneUp /\ OnlyGameInv

LEMMA OneUpNext ==
    ASSUME OneFrontEnd, IInv, OneUp, Next
    PROVE  OneUp'
<1>1. CASE \E p \in Procs : Boot(p)
  <2>1. PICK p \in Procs : Boot(p)
    BY <1>1
  <2>2. up = {}
    BY <2>1 DEF Boot, OneFrontEnd, IInv, TypeOK
  <2> QED
    BY <2>1, <2>2 DEF Boot, OneUp
<1>2. CASE up' \subseteq up
  BY <1>2 DEF OneUp
<1>3. (\E p \in Procs : Boot(p)) \/ up' \subseteq up
  <2>1. ASSUME NEW r \in Runs, LaunchStep(r) PROVE up' = up
    BY <2>1 DEF LaunchStep, TeardownStep, Gate, Abandon, Hygiene, RecordForward, AddForward, Rollback,
       Reset, Prepared, CancelGuarded, Arm, Switch, OpenDashboard, SaveDashboard, Spawn, PublishLive,
       RecordLaunched, Supervise, DetachSave, KillWine, CloseDashboard, SaveClosed, RestoreOutput,
       SaveRestored, FinishRecord, ClearState, LeaveSlot, Unwind
  <2>2. ASSUME NEW p \in Procs, Quit(p) \/ Crash(p) \/ StartReconcile(p) \/ StartStop(p)
        PROVE  up' \subseteq up
    BY <2>2 DEF Quit, Crash, Ends, StartReconcile, StartStop
  <2>3. ASSUME NEW r \in Runs, \/ WineExits(r) \/ PidReused(r) \/ Request(r)
                               \/ \E p \in Procs : Begin(r, p)
        PROVE  up' = up
    BY <2>3 DEF WineExits, PidReused, Request, RequestCancel, RequestStop, StopAnswered,
                RequestDetach, SettleDetach, Begin
  <2>4. PassStep \/ CancelPass => up' = up
    BY PassPaths DEF IInv
  <2> QED
    BY <2>1, <2>2, <2>3, <2>4 DEF Next, Request
<1> QED
  BY <1>1, <1>2, <1>3

(* A launch's step moves its own job only, and takes it into flight only   *)
(* at the gate.                                                            *)
LEMMA LaunchMovesItsJob ==
    ASSUME TypeOK, HandInv, NEW r \in Runs, LaunchStep(r)
    PROVE  /\ \A q \in Runs \ {r} : job'[q] = job[q]
           /\ Gate(r) \/ (job'[r].pc \in Flight => job[r].pc \in Flight)
<1>1. CASE Gate(r) \/ Abandon(r) \/ Rollback(r) \/ Unwind(r)
  <2>1. CASE Gate(r)
    BY <2>1, GateMoves DEF Moved
  <2>2. CASE Abandon(r) \/ Rollback(r) \/ Unwind(r)
    <3>1. Moved(r, Rest(job[r])) /\ Rest(job[r]).pc = "done"
      BY <2>2, RestMoves, RestIsJob, JobFields DEF Abandon, Rollback, Unwind, EndEarly
    <3> QED
      BY <3>1 DEF Moved, Flight, WithState, Preparing, Guarding, Running, Ending
  <2> QED
    BY <1>1, <2>1, <2>2
<1>2. CASE Hygiene(r) \/ RecordForward(r) \/ AddForward(r) \/ Reset(r) \/ Prepared(r)
  <2>1. job[r].pc \in Preparing /\ (To(r, Preparing) \/ To(r, Guarding))
    BY <1>2, PreparePaths
  <2> QED
    BY <2>1 DEF To, Flight, WithState
<1>3. CASE CancelGuarded(r) \/ Arm(r) \/ Switch(r) \/ OpenDashboard(r) \/ SaveDashboard(r)
  <2>1. job[r].pc \in Guarding /\ (GoesOn(r) \/ TearsDown(r))
    BY <1>3, GuardedPaths
  <2> QED
    BY <2>1 DEF GoesOn, TearsDown, To, Flight, WithState
<1>4. CASE Spawn(r) \/ PublishLive(r) \/ RecordLaunched(r) \/ Supervise(r)
  <2>1. job[r].pc \in Flight
    BY <1>4 DEF Spawn, PublishLive, RecordLaunched, Supervise, At, Flight, WithState, Guarding, Running
  <2>2. \A q \in Runs \ {r} : job'[q] = job[q]
    BY <1>4 DEF Spawn, PublishLive, RecordLaunched, Supervise, Teardown, Go, TypeOK
  <2> QED
    BY <2>1, <2>2
<1>5. CASE TeardownStep(r) /\ ~Unwind(r)
  <2>1. job[r].pc \in Ending /\ \A q \in Runs \ {r} : job'[q] = job[q]
    BY <1>5, EndingPaths DEF TeardownStep, To
  <2> QED
    BY <2>1 DEF Flight, WithState
<1> QED
  BY <1>1, <1>2, <1>3, <1>4, <1>5 DEF LaunchStep, TeardownStep

(* Who touches the table of wine children.                                 *)
LEMMA WineChanges ==
    ASSUME TypeOK, HandInv, Next
    PROVE  \/ UNCHANGED wine
           \/ \E r \in Runs : \/ Spawn(r) /\ wine' = [wine EXCEPT ![r] = "alive"]
                              \/ Reset(r) \/ KillWine(r) \/ WineExits(r) \/ PidReused(r)
           \/ StopWine
<1>1. ASSUME NEW r \in Runs, LaunchStep(r)
      PROVE  \/ UNCHANGED wine \/ Reset(r) \/ KillWine(r)
             \/ Spawn(r) /\ wine' = [wine EXCEPT ![r] = "alive"]
  BY <1>1 DEF LaunchStep, TeardownStep, Gate, Abandon, Hygiene, RecordForward, AddForward, Rollback,
       Prepared, CancelGuarded, Arm, Switch, OpenDashboard, SaveDashboard, Spawn, PublishLive,
       RecordLaunched, Supervise, DetachSave, CloseDashboard, SaveClosed, RestoreOutput,
       SaveRestored, FinishRecord, ClearState, LeaveSlot, Unwind
<1>2. ASSUME NEW p \in Procs, \/ Boot(p) \/ Quit(p) \/ Crash(p) \/ StartReconcile(p) \/ StartStop(p)
                              \/ \E r \in Runs : Begin(r, p)
      PROVE  UNCHANGED wine
  BY <1>2 DEF Boot, Quit, Crash, Ends, StartReconcile, StartStop, Begin
<1>3. ASSUME NEW r \in Runs, Request(r) PROVE UNCHANGED wine
  BY <1>3 DEF Request, RequestCancel, RequestStop, StopAnswered, RequestDetach, SettleDetach
<1>4. ASSUME PassStep \/ CancelPass PROVE StopWine \/ UNCHANGED wine
  BY <1>4 DEF PassStep, StopReap, Load, RestoreAudio, RestoreDashboard, RestoreForwards,
              RemoveForward, SaveProgress, FinishPass, CancelPass
<1> QED
  BY <1>1, <1>2, <1>3, <1>4 DEF Next, Request

(* ... and who moves launches into flight.                                 *)
LEMMA FlightChanges ==
    ASSUME TypeOK, HandInv, LockInv, Next
    PROVE  \/ \E r \in Runs : Gate(r) /\ \A q \in Runs \ {r} : job'[q] = job[q]
           \/ \A q \in Runs : job'[q].pc \in Flight =>
                 job[q].pc \in Flight
<1>1. ASSUME NEW r \in Runs, LaunchStep(r), ~Gate(r)
      PROVE  \A q \in Runs : job'[q].pc \in Flight => job[q].pc \in Flight
  BY <1>1, LaunchMovesItsJob
<1>2. ASSUME NEW r \in Runs, NEW p \in Procs, Begin(r, p)
      PROVE  \A q \in Runs : job'[q].pc \in Flight => job[q].pc \in Flight
  BY <1>2, BeginTypes DEF Flight, WithState, Preparing, Guarding, Running, Ending
<1>3. ASSUME NEW p \in Procs, Quit(p) \/ Crash(p)
      PROVE  \A q \in Runs : job'[q].pc \in Flight => job[q].pc \in Flight
  BY <1>3, EndsJobs DEF Quit, Crash, Flight, WithState, Preparing, Guarding, Running, Ending
<1>4. ASSUME NEW r \in Runs, Request(r)
      PROVE  \A q \in Runs : job'[q].pc \in Flight => job[q].pc \in Flight
  BY <1>4, RequestIsAsked DEF Asked, Moved
<1>5. ASSUME PassStep \/ CancelPass
      PROVE  \A q \in Runs : job'[q].pc \in Flight => job[q].pc \in Flight
  <2>1. CASE UNCHANGED job
    BY <2>1
  <2>2. CASE EndRecover \/ RefuseRun
    <3>1. CASE RefuseRun
      <4>1. lock.run \in Runs /\ Moved(lock.run, Rest(job[lock.run]))
        BY <1>5, <3>1, PassPaths, PassHolder, RefuseRunMoves DEF RefuseRun
      <4> QED
        BY <4>1, RestIsJob, JobFields
           DEF Moved, Flight, WithState, Preparing, Guarding, Running, Ending
    <3> QED
      BY <2>2, <3>1 DEF EndRecover
  <2>3. ASSUME NEW prev \in Devices \cup {NoDevice}, NEW fwds \in SUBSET Ports, CarryOn(prev, fwds)
        PROVE  \A q \in Runs : job'[q].pc \in Flight => job[q].pc \in Flight
    <3>1. lock.run \in Runs /\ job[lock.run].pc = "pass"
      BY <1>5, <2>3, PassPaths, PassHolder DEF CarryOn
    <3>2. To(lock.run, {"prep"})
      BY <1>5, <2>3, <3>1, PassPaths, CarryOnMoves, NoteTo
    <3> QED
      BY <3>1, <3>2 DEF To, Flight
  <2> QED
    BY <1>5, <2>1, <2>2, <2>3, PassPaths DEF PassFails
<1>6. ASSUME \/ \E p \in Procs : Boot(p) \/ StartReconcile(p) \/ StartStop(p)
             \/ \E r \in Runs : WineExits(r) \/ PidReused(r)
      PROVE  UNCHANGED job
  BY <1>6 DEF Boot, StartReconcile, StartStop, WineExits, PidReused
<1>7. ASSUME NEW r \in Runs, Gate(r)
      PROVE  \A q \in Runs \ {r} : job'[q] = job[q]
  BY <1>7, GateMoves DEF Moved
<1> QED
  BY <1>1, <1>2, <1>3, <1>4, <1>5, <1>6, <1>7 DEF Next, Request

LEMMA OnlyGameNext ==
    ASSUME IInv, LoneInv, Next
    PROVE  OnlyGameInv'
<1> USE DEF IInv
<1>1. ASSUME NEW r \in Runs, Gate(r), \A q \in Runs \ {r} : job'[q] = job[q]
      PROVE  OnlyGameInv'
  <2>1. UNCHANGED wine
    BY <1>1 DEF Gate
  <2>2. CASE Blocked(job[r].proc)
    <3>1. job'[r].pc = "done"
      <4>1. Moved(r, Rest(job[r]))
        BY <1>1, <2>2, GateMoves
      <4>2. Rest(job[r]).pc = "done"
        BY RestIsJob, JobFields
      <4> QED
        BY <4>1, <4>2 DEF Moved
    <3>2. job'[r].pc \notin Flight
      BY <3>1 DEF Flight, WithState, Preparing, Guarding, Running, Ending
    <3>3. \A q \in Runs : job'[q].pc \in Flight => job[q].pc \in Flight
      BY <1>1, <3>2
    <3> QED
      BY <2>1, <3>3 DEF LoneInv, OnlyGameInv
  <2>3. CASE ~Blocked(job[r].proc)
    BY <2>1, <2>3 DEF Blocked, GameRunning, OnlyGameInv
  <2> QED
    BY <2>2, <2>3
<1>2. ASSUME \A q \in Runs : job'[q].pc \in Flight => job[q].pc \in Flight
      PROVE  OnlyGameInv'
  <2>1. CASE Fades
    BY <1>2, <2>1 DEF Fades, LoneInv, OnlyGameInv
  <2>2. ASSUME NEW r \in Runs, Spawn(r), wine' = [wine EXCEPT ![r] = "alive"]
        PROVE  OnlyGameInv'
    <3>1. job[r].pc = "spawn" /\ job[r].pc \in Flight /\ ~GameRunning
      BY <2>2 DEF Spawn, At, GameInv, Flight, WithState, Guarding
    <3>2. \A q \in Runs : job[q].pc \in Flight => q = r
      <4> SUFFICES ASSUME NEW q \in Runs, job[q].pc \in Flight
                   PROVE  q = r
        OBVIOUS
      <4>1. job[q].proc \in up /\ job[r].proc \in up
        BY <3>1, AtUp DEF Flight, WithState, Preparing, Guarding, Running, Ending
      <4> QED
        BY <3>1, <4>1 DEF LoneInv, OneUp, VisibleInv, OneFlight
    <3>3. \A q \in Runs : wine'[q] = "alive" => q = r
      BY <2>2, <3>1 DEF GameRunning, TypeOK
    <3> QED
      BY <1>2, <3>2, <3>3 DEF OnlyGameInv
  <2>3. ASSUME NEW r \in Runs, Reset(r) \/ KillWine(r) \/ WineExits(r) \/ PidReused(r)
        PROVE  Fades
    <3>1. CASE Reset(r) \/ KillWine(r)
      BY <3>1, WineFades DEF Reset, KillWine
    <3>2. CASE WineExits(r) \/ PidReused(r)
      BY <3>2 DEF WineExits, PidReused, TypeOK, Fades
    <3> QED
      BY <2>3, <3>1, <3>2
  <2>4. StopWine => Fades
    BY WineFades DEF StopWine
  <2>5. UNCHANGED wine => Fades
    BY DEF Fades
  <2> QED
    BY <2>1, <2>2, <2>3, <2>4, <2>5, WineChanges
<1> QED
  BY <1>1, <1>2, FlightChanges

(* With one front-end, however often it quits, crashes and comes back, a   *)
(* game is taken down by its own exit, by its own launch's teardown or by  *)
(* the stop stage: the reset of a launch finds no game running, and a      *)
(* teardown's wineserver -k finds none but its own.                        *)
THEOREM NoGameTakenDown == OneFrontEnd /\ Spec => OnlyItsOwnGame
<1> SUFFICES ASSUME OneFrontEnd
             PROVE  Spec => OnlyItsOwnGame
  OBVIOUS
<1>1. Init => IInv /\ LoneInv
  <2> SUFFICES ASSUME Init
               PROVE  IInv /\ LoneInv
    OBVIOUS
  <2>1. LoneInv
    BY DEF Init, BaseInit, LoneInv, OneUp, OnlyGameInv
  <2> QED
    BY <2>1, InitInv
<1>2. IInv /\ LoneInv /\ [Next]_vars => (IInv /\ LoneInv)'
  <2> SUFFICES ASSUME IInv, LoneInv, [Next]_vars
               PROVE  (IInv /\ LoneInv)'
    OBVIOUS
  <2>1. CASE Next
    BY <2>1, NextInv, OneUpNext, OnlyGameNext DEF LoneInv
  <2>2. CASE UNCHANGED vars
    BY <2>2 DEF vars, IInv, TypeOK, HandInv, LockInv, GameInv, OneGame, GameRunning, VisibleInv,
                OneFlight, InFlightIsVisible, LoneInv, OneUp, OnlyGameInv
  <2> QED
    BY <2>1, <2>2
<1>3. IInv /\ LoneInv /\ [Next]_vars =>
         [\A r \in Runs : wine[r] = "alive" /\ wine'[r] = "gone" =>
             WineExits(r) \/ KillWine(r) \/ StopWine]_vars
  <2> SUFFICES ASSUME IInv, LoneInv, Next, NEW r \in Runs, wine[r] = "alive", wine'[r] = "gone"
               PROVE  WineExits(r) \/ KillWine(r) \/ StopWine
    OBVIOUS
  <2>1. CASE \E q \in Runs : Spawn(q) /\ wine' = [wine EXCEPT ![q] = "alive"]
    BY <2>1 DEF IInv, TypeOK
  <2>2. ASSUME NEW q \in Runs, Reset(q)
        PROVE  FALSE
    BY <2>2 DEF Reset, At, IInv, GameInv, Preparing, GameRunning
  <2>3. ASSUME NEW q \in Runs, KillWine(q)
        PROVE  q = r
    BY <2>3 DEF KillWine, At, LoneInv, OnlyGameInv, Flight, WithState, Ending
  <2>4. ASSUME NEW q \in Runs, WineExits(q)
        PROVE  q = r
    BY <2>4 DEF WineExits, IInv, TypeOK
  <2>5. ASSUME NEW q \in Runs, PidReused(q)
        PROVE  FALSE
    BY <2>5 DEF PidReused, IInv, TypeOK
  <2> QED
    BY <2>1, <2>2, <2>3, <2>4, <2>5, WineChanges DEF IInv
<1> QED
  BY <1>1, <1>2, <1>3, PTL DEF Spec, OnlyItsOwnGame
=============================================================================
