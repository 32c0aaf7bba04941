-------------------------- MODULE SessionGuardProofs ---------------------------
(***************************************************************************)
(* What a launch takes from the Mac can be given back, for one front-end   *)
(* however often it quits, crashes and comes back, and for any runs, ports,*)
(* faults and requests.                                                    *)
(*                                                                         *)
(* There are three copies of a record: on disk, in a recovery pass, in a   *)
(* launch's hands.  Each may be the next one written, so what is still to  *)
(* be undone has to be pending in all three: the output device while the   *)
(* Mac plays into BlackHole, a dashboard that is open, the forwards that   *)
(* are up.                                                                 *)
(***************************************************************************)
EXTENDS SessionProofs

(* Before the child is up; before the dashboard may be; while the record   *)
(* may still be written with what is in hand.                              *)
Unstarted == {"new", "gate", "pass"}
Early     == Unstarted \cup Preparing \cup Guarding
Undashed  == Early \ {"dashSave", "spawn"}
UnderWay  == WithState \ {"rollback", "tdLive"}

OnDisk(r) == Loaded(disk) /\ disk.run = r

(* Dashboards somebody has to close, forwards of a record that are up.     *)
Open  == {x \in mac.dash : wine[x] \in {"alive", "gone"}}
Up(s) == s.fwds \cap mac.forwards

(* A real device, and forwards cleared only when there are none.           *)
Sound(s) == s.prev # BlackHole /\ (s.forwards_cleared => s.fwds = {})

RecordInv ==
    /\ Loaded(disk) => Sound(disk)
    /\ mac.output = BlackHole => Loaded(disk) /\ AudioPending(disk)
    /\ \A x \in Open : OnDisk(x) /\ DashboardPending(disk)

(* What a pass loaded says as much as the record did; past its dashboard   *)
(* step none is open.                                                      *)
PassInv ==
    pass.pc \in PassLoaded =>
       /\ Sound(pass.st)
       /\ mac.output = BlackHole => AudioPending(pass.st)
       /\ Loaded(disk) => Up(disk) \subseteq pass.st.fwds
       /\ \A x \in Open : /\ pass.st.run = x /\ DashboardPending(pass.st)
                          /\ pass.mode = "Full" /\ pass.pc \in {"audio", "audioSave", "dash"}

(* What makes a launch write the record again after its lock has gone.     *)
Writes(j) == j.held \/ j.armed # NoDevice \/ j.pc \in {"tdDashSave", "tdAudioSave", "tdClear"}

IdleInv(r) ==
    /\ job[r].armed # BlackHole
    /\ job[r].pc \in Unstarted => job[r].sess = Absent /\ ~Writes(job[r])
    /\ job[r].pc \in Early => wine[r] = "unborn"
    /\ job[r].pc \in Undashed => r \notin mac.dash

(* So does what a launch has in hand.                                      *)
SessInv(r) ==
    job[r].pc \in WithState =>
       /\ Sound(job[r].sess) /\ ~job[r].sess.forwards_cleared
       /\ job[r].pc \in Early => ~job[r].sess.audio_restored /\ ~job[r].sess.dashboard_closed
       /\ mac.output = BlackHole => AudioPending(job[r].sess)
       /\ Open \subseteq {r}
       /\ r \in mac.dash => DashboardPending(job[r].sess)
       /\ Loaded(disk) => Up(disk) \subseteq job[r].sess.fwds
       /\ pass.pc \in PassLoaded => Up(pass.st) \subseteq job[r].sess.fwds

(* The forwards in hand that are up are on disk; a launch that will write  *)
(* its record again is on disk, where no pass loads it.                    *)
KeepInv(r) ==
    job[r].pc \in UnderWay =>
       /\ Up(job[r].sess) # {} => Loaded(disk) /\ Up(job[r].sess) \subseteq disk.fwds
       /\ pass.pc \in PassLoaded => ~OnDisk(r) /\ pass.st.run # r
       /\ Writes(job[r]) => OnDisk(r)

PlaceInv(r) ==
    /\ job[r].pc = "wiredAdd" => /\ NextPort(r) \in job[r].sess.fwds
                                 /\ Loaded(disk) /\ NextPort(r) \in disk.fwds
    /\ job[r].pc = "switch" => /\ Loaded(disk) /\ AudioPending(disk)
                               /\ AudioPending(job[r].sess)
                               /\ ~job[r].carried => mac.output # BlackHole
    /\ job[r].pc = "spawn" /\ r \in mac.dash => OnDisk(r) /\ DashboardPending(disk)
    /\ job[r].pc = "tdClear" => ~TeardownPending(job[r].sess)

JobInv(r) == IdleInv(r) /\ SessInv(r) /\ KeepInv(r) /\ PlaceInv(r)

GuardInv == RecordInv /\ PassInv /\ \A r \in Runs : JobInv(r)

USE BaseAssumption, StateAssumption

-----------------------------------------------------------------------------
(* What keeps each part. *)

(* Two records that owe the same.                                          *)
Like(s, t) ==
    /\ s.prev = t.prev /\ s.audio_restored = t.audio_restored
    /\ s.dashboard = t.dashboard /\ s.dashboard_closed = t.dashboard_closed
    /\ s.fwds = t.fwds /\ s.forwards_cleared = t.forwards_cleared

(* The record on disk stays, and owes the same.                            *)
DiskKept ==
    /\ Loaded(disk') <=> Loaded(disk)
    /\ Loaded(disk) => disk'.run = disk.run /\ Like(disk', disk)

(* Nothing more is taken from the Mac, and no game is started.             *)
MacEases ==
    /\ mac'.output = BlackHole => mac.output = BlackHole
    /\ mac'.dash \subseteq mac.dash /\ mac'.forwards \subseteq mac.forwards

WineEases ==
    \A x \in Runs : /\ wine'[x] \in {"alive", "gone"} => wine[x] \in {"alive", "gone"}
                    /\ wine[x] = "unborn" => wine'[x] = "unborn"

Eases == MacEases /\ WineEases

(* The pass rests, or is over.                                             *)
PassLeft == pass'.pc \in PassLoaded => pass' = pass

(* A launch that keeps what it has in hand.                                *)
Calm(r) ==
    /\ job'[r].armed \in {job[r].armed, NoDevice}
    /\ job'[r].pc \in Unstarted => /\ job[r].pc \in Unstarted /\ job'[r].sess = job[r].sess
                                   /\ Writes(job'[r]) => Writes(job[r])
    /\ job'[r].pc \in Early => job[r].pc \in Early
    /\ job'[r].pc \in Undashed => job[r].pc \in Undashed
    /\ job'[r].pc \in WithState => job[r].pc \in WithState /\ Like(job'[r].sess, job[r].sess)
    /\ job'[r].pc \in UnderWay => job[r].pc \in UnderWay /\ (Writes(job'[r]) => Writes(job[r]))
    /\ job'[r].pc \in {"switch", "wiredAdd", "tdClear"} =>
          job'[r].pc = job[r].pc /\ job'[r].carried = job[r].carried /\ job'[r].todo = job[r].todo
    /\ job'[r].pc = "spawn" => job[r].pc \in {"dash", "spawn"}

(* No dashboard opens in such a step.                                      *)
LEMMA OpenEases ==
    ASSUME TypeOK, Eases
    PROVE  Open' \subseteq Open
  BY DEF Eases, MacEases, WineEases, Open, TypeOK, Macs

(* Records alike owe the Mac the same.                                     *)
LEMMA LikeOwes ==
    ASSUME NEW s, NEW t, Like(s, t)
    PROVE  /\ AudioPending(s) <=> AudioPending(t)
           /\ DashboardPending(s) <=> DashboardPending(t)
           /\ Sound(s) <=> Sound(t)
           /\ TeardownPending(s) <=> TeardownPending(t)
           /\ s.fwds = t.fwds /\ s.forwards_cleared = t.forwards_cleared
           /\ s.audio_restored = t.audio_restored /\ s.dashboard_closed = t.dashboard_closed
  BY DEF Like, AudioPending, DashboardPending, Sound, TeardownPending

(* So does a record on disk that is kept.                                  *)
LEMMA DiskOwes ==
    ASSUME DiskKept
    PROVE  /\ Loaded(disk') <=> Loaded(disk)
           /\ Loaded(disk) => /\ AudioPending(disk') <=> AudioPending(disk)
                              /\ DashboardPending(disk') <=> DashboardPending(disk)
                              /\ Sound(disk') <=> Sound(disk)
                              /\ disk'.fwds = disk.fwds /\ disk'.run = disk.run
           /\ \A x : OnDisk(x)' <=> OnDisk(x)
  BY LikeOwes DEF DiskKept, OnDisk

(* What such a step does to each part of the invariant: the record,        *)
LEMMA RecordKept ==
    ASSUME TypeOK, RecordInv, Eases, DiskKept
    PROVE  RecordInv'
<1>1. Loaded(disk)' => Sound(disk)'
  BY DiskOwes DEF RecordInv
<1>2. mac'.output = BlackHole => Loaded(disk)' /\ AudioPending(disk)'
  BY DiskOwes DEF RecordInv, Eases, MacEases
<1>3. \A x \in Open' : OnDisk(x)' /\ DashboardPending(disk)'
  BY OpenEases, DiskOwes DEF RecordInv, OnDisk
<1> QED
  BY <1>1, <1>2, <1>3 DEF RecordInv

(* the pass over it,                                                       *)
LEMMA PassKept ==
    ASSUME TypeOK, PassInv, Eases, DiskKept, PassLeft
    PROVE  PassInv'
  BY OpenEases, DiskOwes DEF PassInv, Eases, MacEases, PassLeft, Up

(* a launch that stays calm,                                               *)
LEMMA JobKept ==
    ASSUME TypeOK, NEW r \in Runs, JobInv(r), Eases, DiskKept, PassLeft, Calm(r)
    PROVE  JobInv(r)'
<1>1. IdleInv(r)'
  BY DEF JobInv, IdleInv, Unstarted, Calm, Eases, MacEases, WineEases, NoDevice, BlackHole
<1>2. SessInv(r)'
  BY OpenEases, DiskOwes, LikeOwes DEF JobInv, SessInv, Calm, Eases, MacEases, PassLeft, Up
<1>3. KeepInv(r)'
  <2> SUFFICES ASSUME job'[r].pc \in UnderWay
               PROVE  /\ Up(job[r].sess)' # {} =>
                            Loaded(disk)' /\ Up(job[r].sess)' \subseteq disk'.fwds
                      /\ pass'.pc \in PassLoaded => ~OnDisk(r)' /\ pass'.st.run # r
                      /\ Writes(job'[r]) => OnDisk(r)'
    BY DEF KeepInv
  <2>1. job[r].pc \in UnderWay /\ Like(job'[r].sess, job[r].sess)
    BY DEF Calm, UnderWay
  <2>2. Up(job[r].sess)' \subseteq Up(job[r].sess)
    BY <2>1, LikeOwes DEF Eases, MacEases, Up
  <2> QED
    BY <2>1, <2>2, DiskOwes DEF JobInv, KeepInv, Calm, PassLeft
<1>4. PlaceInv(r)'
  <2>1. ASSUME job'[r].pc \in {"wiredAdd", "switch", "spawn", "tdClear"}
        PROVE  job'[r].pc \in WithState
    BY <2>1 DEF WithState, Preparing, Guarding, Ending
  <2>2. job'[r].pc = "wiredAdd" => /\ NextPort(r)' \in job'[r].sess.fwds
                                   /\ Loaded(disk)' /\ NextPort(r)' \in disk'.fwds
    <3> SUFFICES ASSUME job'[r].pc = "wiredAdd"
                 PROVE  /\ NextPort(r)' \in job'[r].sess.fwds
                        /\ Loaded(disk)' /\ NextPort(r)' \in disk'.fwds
      OBVIOUS
    <3>1. job[r].pc = "wiredAdd" /\ job'[r].todo = job[r].todo /\ Like(job'[r].sess, job[r].sess)
      BY <2>1 DEF Calm
    <3>2. NextPort(r)' = NextPort(r)
      BY <3>1 DEF NextPort
    <3> QED
      BY <3>1, <3>2, DiskOwes, LikeOwes DEF JobInv, PlaceInv
  <2>3. job'[r].pc = "switch" => /\ Loaded(disk)' /\ AudioPending(disk)'
                                 /\ AudioPending(job[r].sess)'
                                 /\ ~job'[r].carried => mac'.output # BlackHole
    BY <2>1, DiskOwes, LikeOwes DEF JobInv, PlaceInv, Calm, Eases, MacEases
  <2>4. job'[r].pc = "spawn" /\ r \in mac'.dash => OnDisk(r)' /\ DashboardPending(disk)'
    BY DiskOwes DEF JobInv, PlaceInv, IdleInv, Calm, Eases, MacEases, Undashed, Early, Unstarted, Guarding, OnDisk
  <2>5. job'[r].pc = "tdClear" => ~TeardownPending(job[r].sess)'
    BY <2>1, LikeOwes DEF JobInv, PlaceInv, Calm
  <2> QED
    BY <2>2, <2>3, <2>4, <2>5 DEF PlaceInv
<1> QED
  BY <1>1, <1>2, <1>3, <1>4 DEF JobInv

(* all of them.                                                            *)
LEMMA Kept ==
    ASSUME TypeOK, GuardInv, Eases, DiskKept, PassLeft, \A q \in Runs : Calm(q)
    PROVE  GuardInv'
  BY RecordKept, PassKept, JobKept DEF GuardInv

(* A launch that does not move is calm.                                    *)
LEMMA CalmStill ==
    ASSUME NEW r \in Runs, job'[r] = job[r]
    PROVE  Calm(r)
  BY DEF Calm, Like

(* A launch's step that keeps what it has in hand, and its record.         *)
LEMMA StepKept ==
    ASSUME TypeOK, GuardInv, NEW r \in Runs, Eases, DiskKept, PassLeft, Calm(r),
           \A q \in Runs \ {r} : job'[q] = job[q]
    PROVE  GuardInv'
  BY Kept, CalmStill

(* With one process up, one launch is in flight. *)
LEMMA Alone ==
    ASSUME HandInv, OneFlight, OneUp, NEW r \in Runs, NEW q \in Runs,
           job[r].pc \in Flight, job[q].pc \in Flight
    PROVE  r = q
<1>1. job[r].pc \notin {"new", "done"} /\ job[q].pc \notin {"new", "done"}
  BY DEF Flight, WithState, Preparing, Guarding, Running, Ending
<1> QED
  BY <1>1 DEF HandInv, OneUp, OneFlight

(* Its step leaves the others alone, whatever it takes and saves.          *)
LEMMA OthersKept ==
    ASSUME TypeOK, HandInv, OneFlight, OneUp, GuardInv, NEW r \in Runs, job[r].pc \in Flight,
           NEW q \in Runs \ {r}, job'[q] = job[q], wine[q] = "unborn" => wine'[q] = "unborn",
           mac'.dash \subseteq mac.dash \cup {r}
    PROVE  JobInv(q)'
<1>1. job[q].pc \notin Flight
  BY Alone
<1>2. IdleInv(q)'
  BY DEF GuardInv, JobInv, IdleInv, Unstarted
<1>3. SessInv(q)'
  BY <1>1 DEF SessInv, Flight
<1>4. KeepInv(q)'
  BY <1>1 DEF KeepInv, UnderWay, Flight
<1>5. PlaceInv(q)'
  BY <1>1 DEF PlaceInv, Flight, WithState, Preparing, Guarding, Ending
<1> QED
  BY <1>2, <1>3, <1>4, <1>5 DEF JobInv

(* A launch's step, of which the rest is known. *)
LEMMA StepInv ==
    ASSUME TypeOK, HandInv, OneFlight, OneUp, GuardInv, NEW r \in Runs, job[r].pc \in Flight,
           \A q \in Runs \ {r} : /\ job'[q] = job[q]
                                 /\ wine[q] = "unborn" => wine'[q] = "unborn",
           mac'.dash \subseteq mac.dash \cup {r},
           RecordInv', PassInv', JobInv(r)'
    PROVE  GuardInv'
<1>1. \A q \in Runs \ {r} : JobInv(q)'
  BY OthersKept
<1> QED
  BY <1>1 DEF GuardInv

(* A launch saves what it has in hand. *)
LEMMA SaveKept ==
    ASSUME TypeOK, HandInv, OneFlight, OneUp, GuardInv, NEW r \in Runs, job[r].pc \in UnderWay,
           Eases, PassLeft, \A q \in Runs \ {r} : job'[q] = job[q],
           Loaded(disk'), disk'.run = r, Like(disk', job[r].sess),
           job'[r].armed \in {job[r].armed, NoDevice},
           job'[r].pc \in Early => job[r].pc \in Early,
           job'[r].pc \in Undashed => job[r].pc \in Undashed,
           job'[r].pc \in WithState, Like(job'[r].sess, job[r].sess),
           pass.pc \notin PassLoaded \/ job'[r].pc = "tdLive",
           job'[r].pc \notin {"switch", "wiredAdd", "tdClear", "rollback"}
    PROVE  GuardInv'
<1> DEFINE s == job[r].sess
<1>1. job[r].pc \in WithState /\ job[r].pc \in Flight
  BY DEF UnderWay, Flight
<1>2. /\ Sound(s) /\ ~s.forwards_cleared
      /\ job[r].pc \in Early => ~s.audio_restored /\ ~s.dashboard_closed
      /\ mac.output = BlackHole => AudioPending(s)
      /\ Open \subseteq {r}
      /\ r \in mac.dash => DashboardPending(s)
  BY <1>1 DEF GuardInv, JobInv, SessInv
<1>3. /\ Up(s) # {} => Loaded(disk) /\ Up(s) \subseteq disk.fwds
  BY DEF GuardInv, JobInv, KeepInv
<1>4. /\ AudioPending(disk') <=> AudioPending(s)
      /\ DashboardPending(disk') <=> DashboardPending(s)
      /\ Sound(disk') <=> Sound(s)
      /\ disk'.fwds = s.fwds
  BY LikeOwes
<1>5. /\ AudioPending(job'[r].sess) <=> AudioPending(s)
      /\ DashboardPending(job'[r].sess) <=> DashboardPending(s)
      /\ Sound(job'[r].sess) <=> Sound(s)
      /\ job'[r].sess.fwds = s.fwds /\ job'[r].sess.forwards_cleared = s.forwards_cleared
      /\ job'[r].sess.audio_restored = s.audio_restored
      /\ job'[r].sess.dashboard_closed = s.dashboard_closed
  BY LikeOwes
<1> HIDE DEF s
<1>6. Open' \subseteq Open /\ (mac'.output = BlackHole => mac.output = BlackHole)
      /\ mac'.dash \subseteq mac.dash /\ mac'.forwards \subseteq mac.forwards
  BY OpenEases DEF Eases, MacEases
<1>7. RecordInv'
  <2>1. \A x \in Open' : OnDisk(x)' /\ DashboardPending(disk)'
    <3> SUFFICES ASSUME NEW x \in Open'
                 PROVE  OnDisk(x)' /\ DashboardPending(disk)'
      OBVIOUS
    <3>1. x = r /\ r \in mac.dash
      BY <1>2, <1>6 DEF Open
    <3> QED
      BY <3>1, <1>2, <1>4 DEF OnDisk
  <2> QED
    BY <1>2, <1>4, <1>6, <2>1 DEF RecordInv
<1>8. PassInv'
  <2> SUFFICES ASSUME pass'.pc \in PassLoaded
               PROVE  PassInv'
    BY DEF PassInv
  <2>1. pass' = pass
    BY DEF PassLeft
  <2>2. s.fwds \cap mac'.forwards \subseteq pass.st.fwds
    <3> SUFFICES ASSUME NEW f, f \in s.fwds, f \in mac.forwards
                 PROVE  f \in pass.st.fwds
      BY <1>6
    <3>1. Loaded(disk) /\ f \in disk.fwds
      BY <1>3 DEF Up
    <3> QED
      BY <2>1, <3>1 DEF GuardInv, PassInv, Up
  <2> QED
    BY <1>4, <1>6, <2>1, <2>2 DEF GuardInv, PassInv, Up
<1>9. JobInv(r)'
  <2>1. IdleInv(r)'
    <3>1. job'[r].pc \notin Unstarted
      BY DEF Unstarted, WithState, Preparing, Guarding, Running, Ending
    <3> QED
      BY <1>6, <3>1 DEF GuardInv, JobInv, IdleInv, Eases, WineEases, NoDevice, BlackHole
  <2>2. SessInv(r)'
    <3>1. pass'.pc \in PassLoaded => Up(pass.st)' \subseteq s.fwds
      BY <1>1, <1>6 DEF GuardInv, JobInv, SessInv, PassLeft, Up, s
    <3> QED
      BY <1>2, <1>4, <1>5, <1>6, <3>1 DEF SessInv, Up
  <2>3. KeepInv(r)'
    BY <1>4, <1>5 DEF KeepInv, UnderWay, OnDisk, PassLeft, Up
  <2>4. PlaceInv(r)'
    BY <1>2, <1>4, <1>6 DEF PlaceInv, OnDisk
  <2> QED
    BY <2>1, <2>2, <2>3, <2>4 DEF JobInv
<1> QED
  BY <1>1, <1>6, <1>7, <1>8, <1>9, StepInv DEF Eases, WineEases

-----------------------------------------------------------------------------
(* The steps of a launch. *)
(* Places a launch may go to with what it has in hand. *)
Onward(from, pc) ==
    /\ pc \in WithState \cup {"unwind"}
    /\ pc \notin {"switch", "wiredAdd", "tdClear", "tdDashSave", "tdAudioSave"}
    /\ pc \in UnderWay => from \in UnderWay
    /\ pc \in Early => from \in Early
    /\ pc \in Undashed => from \in Undashed
    /\ pc = "spawn" => from = "dash"

(* Past the pass, a launch is never before it again.                       *)
LEMMA NotUnstarted ==
    ASSUME NEW pc \in WithState \cup {"unwind", "done"}
    PROVE  pc \notin Unstarted
  BY DEF Unstarted, WithState, Preparing, Guarding, Running, Ending

(* A launch that moves on with what it has in hand.                        *)
LEMMA MovedCalm ==
    ASSUME NEW r \in Runs, NEW k, Moved(r, k), job[r].pc \in WithState,
           Onward(job[r].pc, k.pc), Like(k.sess, job[r].sess),
           k.armed \in {job[r].armed, NoDevice}, k.held => job[r].held
    PROVE  /\ Calm(r) /\ job'[r] = k
           /\ \A q \in Runs \ {r} : job'[q] = job[q]
  BY NotUnstarted DEF Moved, Calm, Onward, Writes

(* The fields of a launch that moves on,                                   *)
LEMMA StayFields ==
    ASSUME NEW j, NEW pc
    PROVE  /\ Stay(j, pc).pc = pc /\ Stay(j, pc).sess = j.sess /\ Stay(j, pc).armed = j.armed
           /\ Stay(j, pc).held = j.held /\ Stay(j, pc).carried = j.carried
           /\ Stay(j, pc).todo = j.todo
  BY DEF Stay, Upd

(* of one that takes another record down,                                  *)
LEMMA NoteFields ==
    ASSUME NEW j, NEW pc, NEW s
    PROVE  /\ Note(j, pc, s).pc = pc /\ Note(j, pc, s).sess = s /\ Note(j, pc, s).armed = j.armed
           /\ Note(j, pc, s).held = j.held /\ Note(j, pc, s).carried = j.carried
           /\ Note(j, pc, s).todo = j.todo
  BY DEF Note, Upd

(* and both are calm when the records are alike.                           *)
LEMMA StayCalm ==
    ASSUME NEW r \in Runs, NEW pc, Moved(r, Stay(job[r], pc)), job[r].pc \in WithState,
           Onward(job[r].pc, pc)
    PROVE  /\ Calm(r) /\ job'[r].pc = pc /\ Like(job'[r].sess, job[r].sess)
           /\ job'[r].armed \in {job[r].armed, NoDevice}
           /\ \A q \in Runs \ {r} : job'[q] = job[q]
<1> DEFINE k == Stay(job[r], pc)
<1>1. k.pc = pc /\ k.sess = job[r].sess /\ k.armed = job[r].armed /\ k.held = job[r].held
  BY StayFields
<1>2. Like(k.sess, job[r].sess)
  BY <1>1 DEF Like
<1> HIDE DEF k
<1>3. Moved(r, k)
  BY DEF k
<1> QED
  BY <1>1, <1>2, <1>3, MovedCalm

(* With another record that is alike.                                      *)
LEMMA NoteCalm ==
    ASSUME NEW r \in Runs, NEW pc, NEW s, Moved(r, Note(job[r], pc, s)), job[r].pc \in WithState,
           Onward(job[r].pc, pc), Like(s, job[r].sess)
    PROVE  /\ Calm(r) /\ job'[r].pc = pc /\ Like(job'[r].sess, job[r].sess)
           /\ job'[r].armed \in {job[r].armed, NoDevice}
           /\ \A q \in Runs \ {r} : job'[q] = job[q]
<1> DEFINE k == Note(job[r], pc, s)
<1>1. k.pc = pc /\ k.sess = s /\ k.armed = job[r].armed /\ k.held = job[r].held
  BY NoteFields
<1> HIDE DEF k
<1>2. Moved(r, k)
  BY DEF k
<1> QED
  BY <1>1, <1>2, MovedCalm

(* A launch that is over holds nothing.                                    *)
LEMMA RestCalm ==
    ASSUME TypeOK, NEW r \in Runs, Moved(r, Rest(job[r]))
    PROVE  Calm(r) /\ \A q \in Runs \ {r} : job'[q] = job[q]
<1>1. Rest(job[r]).pc = "done" /\ Rest(job[r]).armed = NoDevice
  BY JobFields, RestIsJob
<1>2. job'[r].pc = "done" /\ job'[r].armed = NoDevice
  BY <1>1 DEF Moved
<1>3. "done" \notin Unstarted \cup Early \cup WithState \cup UnderWay
  BY DEF Early, Unstarted, UnderWay, WithState, Preparing, Guarding, Running, Ending
<1> QED
  BY <1>2, <1>3 DEF Calm, Undashed, Moved

(* What is unchanged is kept; wineserver -k starts no game.                *)
LEMMA Still ==
    ASSUME TypeOK
    PROVE  /\ UNCHANGED disk => DiskKept
           /\ UNCHANGED pass => PassLeft
           /\ UNCHANGED mac => MacEases
           /\ wine' \in {wine, WineKilled} => WineEases
  BY DEF DiskKept, PassLeft, MacEases, WineEases, WineKilled, Like, TypeOK

(* While a launch has the lock past its pass, no pass is at work.          *)
LEMMA LockedPass ==
    ASSUME TypeOK, LockInv, NEW r \in Runs, job[r].pc \in HoldsLock \ {"pass"}
    PROVE  pass.pc = "none" /\ pass.pc \notin PassLoaded
<1>1. pass.pc = "none"
  BY DEF LockInv
<1> QED
  BY <1>1 DEF PassLoaded

(* The gate and the lock: nothing is taken yet.                            *)
LEMMA GateGuard ==
    ASSUME IInv, GuardInv, NEW r \in Runs, Gate(r)
    PROVE  GuardInv'
<1> USE DEF IInv
<1>1. UNCHANGED <<disk, wine, mac>> /\ PassLeft
  BY NoPassIsPass DEF Gate, PassLeft, PassLoaded, NoPass
<1>2. CASE Blocked(job[r].proc)
  <2>1. Moved(r, Rest(job[r]))
    BY <1>2, GateMoves
  <2> QED
    BY <1>1, <2>1, RestCalm, Still, StepKept DEF Eases
<1>3. CASE ~Blocked(job[r].proc)
  <2>1. Moved(r, Stay(job[r], "pass"))
    BY <1>3, GateMoves
  <2>2. /\ job'[r].pc = "pass" /\ job'[r].armed = job[r].armed
        /\ job'[r].held = job[r].held /\ job'[r].sess = job[r].sess
        /\ \A q \in Runs \ {r} : job'[q] = job[q]
    BY <2>1, StayFields DEF Moved
  <2>3. /\ job[r].pc \in Unstarted /\ job[r].pc \in Early /\ job[r].pc \in Undashed
        /\ "pass" \notin WithState /\ "pass" \notin UnderWay
    BY DEF Gate, At, UnderWay, Undashed, Early, Unstarted, WithState, Preparing, Guarding,
           Running, Ending
  <2>4. Calm(r)
    BY <2>2, <2>3 DEF Calm, Writes
  <2> QED
    BY <1>1, <2>2, <2>4, Still, StepKept DEF Eases
<1> QED
  BY <1>2, <1>3

(* A launch refused or cancelled before it took anything.                  *)
LEMMA AbandonGuard ==
    ASSUME IInv, GuardInv, NEW r \in Runs, Abandon(r)
    PROVE  GuardInv'
<1>1. Moved(r, Rest(job[r]))
  BY RestMoves DEF Abandon, EndEarly, IInv
<1> QED
  BY <1>1, RestCalm, Still, StepKept DEF Eases, Abandon, IInv

(* Hygiene, the reset and the way to the guarded region. *)
LEMMA PrepareGuard ==
    ASSUME IInv, GuardInv, NEW r \in Runs, Hygiene(r) \/ Reset(r) \/ Prepared(r)
    PROVE  GuardInv'
<1> USE DEF IInv
<1>1. /\ job[r].pc \in Preparing /\ job[r].pc \in WithState
      /\ Onward(job[r].pc, "wired") /\ Onward(job[r].pc, "reset") /\ Onward(job[r].pc, "stage")
      /\ Onward(job[r].pc, "arm")
  BY DEF Hygiene, Reset, Prepared, At, Onward, UnderWay, Undashed, Early, Unstarted, WithState, Preparing,
         Guarding, Running, Ending
<1>2. UNCHANGED <<disk, pass>> /\ wine' \in {wine, WineKilled}
  BY DEF Hygiene, Reset, Prepared
<1>3. MacEases
  <2>1. CASE Hygiene(r)
    BY <2>1 DEF Hygiene, MacEases, TypeOK, Macs
  <2> QED
    BY <2>1, Still DEF Reset, Prepared
<1>4. Calm(r) /\ \A q \in Runs \ {r} : job'[q] = job[q]
  <2>1. CASE Hygiene(r)
    <3>1. CASE Moved(r, Stay(job[r], "reset"))
      BY <1>1, <3>1, StayCalm
    <3>2. CASE Moved(r, Upd(job[r], "wired", job[r].sess, job[r].armed, job[r].carried,
                            job[r].held, Ports))
      <4> DEFINE k == Upd(job[r], "wired", job[r].sess, job[r].armed, job[r].carried,
                          job[r].held, Ports)
      <4>1. k.pc = "wired" /\ k.sess = job[r].sess /\ k.armed = job[r].armed /\ k.held = job[r].held
        BY DEF Upd
      <4>2. Like(k.sess, job[r].sess)
        BY <4>1 DEF Like
      <4> QED
        BY <1>1, <3>2, <4>1, <4>2, MovedCalm
    <3> QED
      BY <2>1, <3>1, <3>2, HygieneMoves
  <2>2. CASE Reset(r)
    BY <1>1, <2>2, PCs, GoMoves, StayCalm DEF Reset
  <2>3. CASE Prepared(r)
    BY <1>1, <2>3, PCs, GoMoves, StayCalm DEF Prepared
  <2> QED
    BY <2>1, <2>2, <2>3
<1> QED
  BY <1>2, <1>3, <1>4, Still, StepKept DEF Eases

(* One entry of `job` moves on with a record. *)
Enters(r, pc, s) == job' = [job EXCEPT ![r].pc = pc, ![r].sess = s]

(* A launch that enters a step with a record.                              *)
LEMMA EntryFields ==
    ASSUME TypeOK, NEW r \in Runs, NEW pc \in JobPC, NEW s \in State, Enters(r, pc, s)
    PROVE  /\ job'[r].pc = pc /\ job'[r].sess = s /\ job'[r].armed = job[r].armed
           /\ job'[r].held = job[r].held /\ job'[r].carried = job[r].carried
           /\ job'[r].todo = job[r].todo
           /\ \A q \in Runs \ {r} : job'[q] = job[q]
<1>1. /\ job'[r] = [job[r] EXCEPT !.pc = pc, !.sess = s]
      /\ \A q \in Runs \ {r} : job'[q] = job[q]
  BY DEF Enters, TypeOK
<1>2. job'[r] = Note(job[r], pc, s)
  BY <1>1, JobFields DEF Job, Upd, Note
<1> QED
  BY <1>1, <1>2, NoteFields

(* A record with other forwards. *)
LEMMA ForwardTyped ==
    ASSUME NEW s \in State, NEW f \in SUBSET Ports
    PROVE  [s EXCEPT !.fwds = f] \in State
  BY DEF State

(* It owes the same but for them.                                          *)
LEMMA ForwardNoted ==
    ASSUME NEW s \in State, NEW f \in SUBSET Ports
    PROVE  LET t == [s EXCEPT !.fwds = f] IN
           /\ t.fwds = f /\ t.run = s.run
           /\ t.forwards_cleared = s.forwards_cleared /\ t.prev = s.prev
           /\ t.audio_restored = s.audio_restored /\ t.dashboard_closed = s.dashboard_closed
           /\ AudioPending(t) <=> AudioPending(s)
           /\ DashboardPending(t) <=> DashboardPending(s)
  BY DEF State, AudioPending, DashboardPending

(* The port is in hand and on disk before adb adds it.                     *)
LEMMA RecordForwardGuard ==
    ASSUME IInv, OneUp, GuardInv, NEW r \in Runs, RecordForward(r)
    PROVE  GuardInv'
<1> USE DEF IInv, VisibleInv
<1> DEFINE s == [job[r].sess EXCEPT !.fwds = @ \cup {NextPort(r)}]
<1>1. /\ job[r].pc = "wired" /\ job[r].pc \in WithState /\ job[r].pc \in Flight
      /\ job[r].pc \in UnderWay /\ Onward("wired", "reset") /\ job[r].pc \in Undashed \cap Early
      /\ job[r].pc \in HoldsLock \ {"pass"}
  BY DEF RecordForward, At, Onward, UnderWay, Undashed, Early, Unstarted, Flight, HoldsLock, WithState,
         Preparing, Guarding, Running, Ending
<1>2. UNCHANGED <<wine, mac, pass>> /\ pass.pc \notin PassLoaded
  BY <1>1, LockedPass DEF RecordForward
<1>3. CASE job[r].todo = {}
  BY <1>1, <1>2, <1>3, PCs, GoMoves, StayCalm, Still, StepKept DEF RecordForward, Eases
<1>4. CASE job[r].todo # {}
  <2>1. job[r].sess \in State /\ job[r].sess.run = r /\ NextPort(r) \in Ports
    <3>1. NextPort(r) \in job[r].todo
      BY <1>4 DEF NextPort
    <3> QED
      BY <1>1, <3>1, InHand, JobFields
  <2>2. job[r].sess.fwds \in SUBSET Ports
    BY <2>1 DEF State
  <2>3. /\ s \in State /\ s.fwds = job[r].sess.fwds \cup {NextPort(r)} /\ s.run = r
        /\ s.forwards_cleared = job[r].sess.forwards_cleared /\ s.prev = job[r].sess.prev
        /\ s.audio_restored = job[r].sess.audio_restored
        /\ s.dashboard_closed = job[r].sess.dashboard_closed
        /\ AudioPending(s) <=> AudioPending(job[r].sess)
        /\ DashboardPending(s) <=> DashboardPending(job[r].sess)
    <3>1. job[r].sess.fwds \cup {NextPort(r)} \in SUBSET Ports
      BY <2>1, <2>2
    <3> QED
      BY <2>1, <3>1, ForwardTyped, ForwardNoted
  <2> HIDE DEF s
  <2>4. /\ s.prev # BlackHole /\ ~s.forwards_cleared /\ ~s.audio_restored /\ ~s.dashboard_closed
        /\ mac.output = BlackHole => AudioPending(s)
        /\ Open = {}
        /\ Loaded(disk) => Up(disk) \subseteq s.fwds
        /\ job[r].armed # BlackHole /\ r \notin mac.dash /\ wine[r] = "unborn"
    BY <1>1, <2>3 DEF GuardInv, JobInv, SessInv, IdleInv, Unstarted, Open, Sound
  <2>5. Open' = {} /\ PassInv'
    BY <1>2, <2>4 DEF Open, PassInv
  <2>6. ASSUME SaveOk(job[r].proc, s), Enters(r, "wiredAdd", s)
        PROVE  GuardInv'
    <3>1. /\ job'[r].pc = "wiredAdd" /\ job'[r].sess = s /\ job'[r].armed = job[r].armed
          /\ job'[r].held = job[r].held /\ job'[r].todo = job[r].todo
          /\ \A q \in Runs \ {r} : job'[q] = job[q]
      BY <2>3, <2>6, PCs, EntryFields
    <3>2. disk' = s /\ Loaded(disk)'
      BY <2>3, <2>6 DEF SaveOk, Loaded
    <3>3. RecordInv'
      BY <1>2, <2>4, <2>5, <3>2 DEF RecordInv, Sound
    <3>4. JobInv(r)'
      <4>1. IdleInv(r)'
        BY <1>2, <2>4, <3>1 DEF IdleInv, Unstarted
      <4>2. SessInv(r)'
        BY <1>2, <2>4, <2>5, <3>1, <3>2 DEF SessInv, Up, Sound
      <4>3. KeepInv(r)'
        BY <1>2, <2>3, <3>1, <3>2 DEF KeepInv, Up, OnDisk
      <4>4. NextPort(r)' = NextPort(r)
        BY <3>1 DEF NextPort
      <4>5. PlaceInv(r)'
        BY <2>3, <3>1, <3>2, <4>4 DEF PlaceInv
      <4> QED
        BY <4>1, <4>2, <4>3, <4>5 DEF JobInv
    <3> QED
      BY <1>1, <1>2, <2>5, <3>1, <3>3, <3>4, StepInv
  <2>7. ASSUME UNCHANGED disk, Enters(r, "rollback", s)
        PROVE  GuardInv'
    <3>1. /\ job'[r].pc = "rollback" /\ job'[r].sess = s /\ job'[r].armed = job[r].armed
          /\ \A q \in Runs \ {r} : job'[q] = job[q]
      BY <2>3, <2>7, PCs, EntryFields
    <3>2. RecordInv'
      BY <1>2, <2>7, Still, RecordKept DEF Eases, GuardInv
    <3>3. JobInv(r)'
      <4>1. IdleInv(r)'
        BY <1>2, <2>4, <3>1 DEF IdleInv, Unstarted
      <4>2. SessInv(r)'
        BY <1>2, <2>4, <2>5, <2>7, <3>1 DEF SessInv, Up, Sound
      <4>3. KeepInv(r)' /\ PlaceInv(r)'
        BY <3>1 DEF KeepInv, UnderWay, PlaceInv
      <4> QED
        BY <4>1, <4>2, <4>3 DEF JobInv
    <3> QED
      BY <1>1, <1>2, <2>5, <3>1, <3>2, <3>3, StepInv
  <2> QED
    BY <1>4, <2>6, <2>7 DEF RecordForward, SaveErr, Enters, s
<1> QED
  BY <1>3, <1>4

(* The forward that comes up is the one recorded (PlaceInv).               *)
LEMMA AddForwardGuard ==
    ASSUME IInv, OneUp, GuardInv, NEW r \in Runs, AddForward(r)
    PROVE  GuardInv'
<1> USE DEF IInv, VisibleInv
<1> DEFINE made == [mac EXCEPT !.forwards = @ \cup {NextPort(r)}]
           k == Upd(job[r], "wired", job[r].sess, job[r].armed, job[r].carried, job[r].held,
                    job[r].todo \ {NextPort(r)})
<1>1. /\ job[r].pc = "wiredAdd" /\ job[r].pc \in WithState /\ job[r].pc \in Flight
      /\ job[r].pc \in UnderWay /\ job[r].pc \in Undashed \cap Early
      /\ job[r].pc \in HoldsLock \ {"pass"}
  BY DEF AddForward, At, UnderWay, Undashed, Early, Unstarted, Flight, HoldsLock, WithState,
         Preparing, Guarding, Running, Ending
<1>2. UNCHANGED <<disk, wine, pass>> /\ pass.pc \notin PassLoaded
  BY <1>1, LockedPass DEF AddForward
<1>3. /\ mac' \in {mac, made}
      /\ made.output = mac.output /\ made.dash = mac.dash
      /\ made.forwards = mac.forwards \cup {NextPort(r)}
  BY DEF AddForward, TypeOK, Macs
<1> HIDE DEF made
<1>4. Open' = Open /\ Open = {} /\ r \notin mac.dash
  BY <1>1, <1>2, <1>3 DEF Open, GuardInv, JobInv, SessInv, IdleInv, Unstarted
<1>5. /\ job'[r].pc \in {"wired", "rollback"} /\ job'[r].sess = job[r].sess
      /\ job'[r].armed = job[r].armed /\ job'[r].held = job[r].held
      /\ \A q \in Runs \ {r} : job'[q] = job[q]
  <2>1. CASE Moved(r, k)
    <3>1. k.pc = "wired" /\ k.sess = job[r].sess /\ k.armed = job[r].armed /\ k.held = job[r].held
      BY DEF Upd
    <3> QED
      BY <2>1, <3>1 DEF Moved
  <2>2. CASE Moved(r, Stay(job[r], "rollback"))
    BY <2>2, StayFields DEF Moved
  <2> QED
    BY <2>1, <2>2, AddForwardMoves
<1>6. /\ NextPort(r) \in job[r].sess.fwds /\ Loaded(disk) /\ NextPort(r) \in disk.fwds
  BY <1>1 DEF GuardInv, JobInv, PlaceInv
<1>7. RecordInv'
  BY <1>2, <1>3, <1>4 DEF GuardInv, RecordInv
<1>8. PassInv'
  BY <1>2 DEF PassInv
<1>9. JobInv(r)'
  <2>1. IdleInv(r)'
    BY <1>1, <1>2, <1>3, <1>5 DEF GuardInv, JobInv, IdleInv, Unstarted
  <2>2. SessInv(r)'
    BY <1>1, <1>2, <1>3, <1>4, <1>5, <1>6 DEF GuardInv, JobInv, SessInv, Up
  <2>3. KeepInv(r)'
    <3>1. Up(job[r].sess)' \subseteq disk.fwds
      BY <1>1, <1>3, <1>5, <1>6 DEF GuardInv, JobInv, KeepInv, Up
    <3>2. Writes(job'[r]) => Writes(job[r])
      BY <1>5 DEF Writes
    <3> QED
      BY <1>1, <1>2, <1>6, <3>1, <3>2 DEF GuardInv, JobInv, KeepInv, OnDisk
  <2>4. PlaceInv(r)'
    BY <1>5 DEF PlaceInv
  <2> QED
    BY <2>1, <2>2, <2>3, <2>4 DEF JobInv
<1> QED
  BY <1>1, <1>2, <1>3, <1>5, <1>7, <1>8, <1>9, StepInv

(* Forwards that are down again leave the record; those that stay up do not.*)
LEMMA RollbackGuard ==
    ASSUME IInv, OneUp, GuardInv, NEW r \in Runs, Rollback(r)
    PROVE  GuardInv'
<1> USE DEF IInv, VisibleInv
<1>1. /\ job[r].pc \in WithState /\ job[r].pc \in Flight /\ job[r].pc \in Undashed \cap Early
      /\ job[r].pc \in HoldsLock \ {"pass"}
  BY DEF Rollback, At, Undashed, Early, Unstarted, Flight, HoldsLock, WithState,
         Preparing, Guarding, Running, Ending
<1>2. UNCHANGED <<wine, pass>> /\ pass.pc \notin PassLoaded
  BY <1>1, LockedPass DEF Rollback
<1>3. PICK gone \in SUBSET (Ports \cap mac.forwards) :
         /\ mac' = [mac EXCEPT !.forwards = @ \ gone]
         /\ Save(job[r].proc, [job[r].sess EXCEPT !.fwds = @ \ gone])
  BY DEF Rollback
<1>4. /\ mac'.output = mac.output /\ mac'.dash = mac.dash
      /\ mac'.forwards = mac.forwards \ gone
  BY <1>3 DEF TypeOK, Macs
<1>5. job[r].sess \in State /\ job[r].sess.fwds \ gone \in SUBSET Ports
  BY <1>1, InHand DEF State
<1> DEFINE s == [job[r].sess EXCEPT !.fwds = @ \ gone]
<1>6. /\ s \in State /\ s.forwards_cleared = job[r].sess.forwards_cleared
      /\ s.prev = job[r].sess.prev
      /\ AudioPending(s) <=> AudioPending(job[r].sess)
  BY <1>5, ForwardTyped, ForwardNoted
<1>7. disk' \in {disk, s} /\ Loaded(s)
  BY <1>3, <1>6 DEF Save, SaveOk, SaveErr, Loaded
<1> HIDE DEF s
<1>8. Open' = {} /\ Open = {}
  BY <1>1, <1>2, <1>4 DEF Open, GuardInv, JobInv, SessInv, IdleInv, Unstarted
<1>9. RecordInv'
  BY <1>1, <1>4, <1>6, <1>7, <1>8 DEF GuardInv, RecordInv, JobInv, SessInv, Sound
<1>10. Calm(r) /\ \A q \in Runs \ {r} : job'[q] = job[q]
  BY RestMoves, RestCalm DEF Rollback, EndEarly
<1>11. JobInv(r)'
  <2>1. job'[r].pc = "done" /\ job'[r].armed = NoDevice
    <3>1. Moved(r, Rest(job[r]))
      BY RestMoves DEF Rollback, EndEarly
    <3>2. Rest(job[r]).pc = "done" /\ Rest(job[r]).armed = NoDevice
      BY JobFields, RestIsJob
    <3> QED
      BY <3>1, <3>2 DEF Moved
  <2> QED
    BY <2>1 DEF JobInv, IdleInv, SessInv, KeepInv, PlaceInv, UnderWay, Undashed, Early, Unstarted, WithState,
                Preparing, Guarding, Running, Ending, NoDevice, BlackHole
<1> QED
  BY <1>1, <1>2, <1>4, <1>9, <1>10, <1>11, StepInv DEF PassInv

-----------------------------------------------------------------------------
(* The guarded region. *)
LEMMA LikeSelf ==
    ASSUME NEW s
    PROVE  Like(s, s)
  BY DEF Like

(* A launch in flight with the lock, or without. *)
LEMMA GuardedPlace ==
    ASSUME NEW pc \in Guarding \cup Running
    PROVE  /\ pc \in WithState /\ pc \in Flight /\ pc \in UnderWay
           /\ pc # "super" => pc \in HoldsLock \ {"pass"}
           /\ Onward(pc, "tdKill") /\ Onward(pc, "tdDash") /\ Onward(pc, "record")
           /\ Onward(pc, "super") /\ Onward(pc, "tdDetach")
           /\ pc \in Guarding => pc \in Early
           /\ pc \in {"arm", "switch", "dash"} => pc \in Undashed /\ Onward(pc, "dash")
           /\ Onward("dash", "spawn")
  BY DEF Onward, UnderWay, Undashed, Early, Unstarted, Flight, HoldsLock, WithState, Preparing, Guarding,
         Running, Ending

(* A launch that turns to its teardown keeps what it has in hand.          *)
LEMMA TeardownCalm ==
    ASSUME TypeOK, NEW r \in Runs, NEW why, job[r].pc \in Guarding \cup Running,
           Teardown(r, why, job[r])
    PROVE  Calm(r) /\ \A q \in Runs \ {r} : job'[q] = job[q]
<1>1. /\ job[r].pc \in WithState /\ Onward(job[r].pc, "tdKill") /\ Onward(job[r].pc, "tdDash")
      /\ job[r] \in Job
  BY GuardedPlace, JobFields
<1>2. CASE why = "Cancelled"
  <2>1. Moved(r, Stay(job[r], "tdKill"))
    BY <1>1, <1>2, TeardownMoves
  <2> QED
    BY <1>1, <2>1, StayCalm
<1>3. CASE why # "Cancelled"
  <2>1. Moved(r, Stay(job[r], "tdDash"))
    BY <1>1, <1>3, TeardownMoves
  <2> QED
    BY <1>1, <2>1, StayCalm
<1> QED
  BY <1>2, <1>3

(* And so all is kept.                                                     *)
LEMMA TeardownGuard ==
    ASSUME IInv, GuardInv, NEW r \in Runs, NEW why, job[r].pc \in Guarding \cup Running,
           Teardown(r, why, job[r]), Eases, DiskKept, PassLeft
    PROVE  GuardInv'
  BY TeardownCalm, StepKept DEF IInv

(* A Cancel between two guards is such a turn.                             *)
LEMMA CancelGuardedGuard ==
    ASSUME IInv, GuardInv, NEW r \in Runs, CancelGuarded(r)
    PROVE  GuardInv'
<1>1. job[r].pc \in Guarding \cup Running
  BY DEF CancelGuarded, At, Guarding
<1> QED
  BY <1>1, TeardownGuard, Still DEF IInv, CancelGuarded, Eases

(* A record with another device. *)
LEMMA DeviceNoted ==
    ASSUME NEW s \in State, NEW d
    PROVE  LET t == [s EXCEPT !.prev = d] IN
           /\ t.prev = d /\ t.run = s.run /\ t.fwds = s.fwds
           /\ t.forwards_cleared = s.forwards_cleared
           /\ t.audio_restored = s.audio_restored /\ t.dashboard_closed = s.dashboard_closed
           /\ AudioPending(t) <=> d # NoDevice /\ ~s.audio_restored
           /\ DashboardPending(t) <=> DashboardPending(s)
  BY DEF State, AudioPending, DashboardPending

(* A launch before its game is up takes another device down, and has it    *)
(* saved or not.                                                           *)
LEMMA DeviceTaken ==
    ASSUME IInv, OneUp, GuardInv, NEW r \in Runs, job[r].pc \in {"arm", "switch"},
           NEW t \in State, t.run = r, t.prev # BlackHole, t.fwds = job[r].sess.fwds,
           ~t.forwards_cleared, ~t.audio_restored, ~t.dashboard_closed,
           mac.output = BlackHole => AudioPending(t),
           UNCHANGED <<wine, mac, pass>>,
           disk' = t \/ (UNCHANGED disk /\ (Writes(job'[r]) => Writes(job[r]))),
           \A q \in Runs \ {r} : job'[q] = job[q],
           job'[r].sess = t, job'[r].armed # BlackHole,
           job'[r].pc \in {"switch", "dash", "tdDash"},
           job'[r].pc = "switch" => /\ disk' = t /\ AudioPending(t)
                                    /\ ~job'[r].carried => mac.output # BlackHole
    PROVE  GuardInv'
<1> USE DEF IInv, VisibleInv
<1>1. /\ job[r].pc \in WithState /\ job[r].pc \in Flight /\ job[r].pc \in UnderWay
      /\ job[r].pc \in Undashed \cap Early /\ job[r].pc \in HoldsLock \ {"pass"}
  BY GuardedPlace DEF Guarding
<1>2. pass.pc \notin PassLoaded
  BY <1>1, LockedPass
<1>3. Loaded(t)
  BY DEF Loaded
<1>4. /\ Open = {} /\ Open' = {} /\ r \notin mac.dash /\ wine[r] = "unborn"
      /\ Loaded(disk) => Up(disk) \subseteq t.fwds
      /\ Up(t) # {} => Loaded(disk) /\ Up(t) \subseteq disk.fwds
      /\ Writes(job[r]) => OnDisk(r)
  BY <1>1 DEF GuardInv, JobInv, SessInv, IdleInv, Unstarted, KeepInv, Open, Up
<1>5. RecordInv'
  BY <1>3, <1>4 DEF GuardInv, RecordInv, Sound
<1>6. PassInv'
  BY <1>2 DEF PassInv
<1>7. JobInv(r)'
  <2>1. IdleInv(r)'
    BY <1>4 DEF IdleInv, Unstarted
  <2>2. SessInv(r)'
    BY <1>2, <1>4 DEF SessInv, Up, Sound
  <2>3. KeepInv(r)'
    BY <1>2, <1>3, <1>4 DEF KeepInv, Up, OnDisk
  <2>4. PlaceInv(r)'
    BY <1>3 DEF PlaceInv
  <2> QED
    BY <2>1, <2>2, <2>3, <2>4 DEF JobInv
<1> QED
  BY <1>1, <1>5, <1>6, <1>7, StepInv

(* The device that is recorded is the one that plays, or a pass before     *)
(* left it.                                                                *)
LEMMA ArmGuard ==
    ASSUME IInv, OneUp, GuardInv, NEW r \in Runs, Arm(r)
    PROVE  GuardInv'
<1> USE DEF IInv, VisibleInv
<1> DEFINE carried == AudioPending(job[r].sess)
           prev == IF carried THEN job[r].sess.prev ELSE mac.output
           s == [job[r].sess EXCEPT !.prev = prev]
<1>1. /\ job[r].pc = "arm" /\ job[r].pc \in Guarding \cup Running
      /\ job[r].pc \in WithState /\ job[r].pc \in Early
  BY GuardedPlace DEF Arm, At, Guarding
<1>2. /\ job[r].sess \in State /\ job[r].sess.run = r /\ s \in State
  BY <1>1, InHand, ArmMoves
<1> HIDE DEF prev
<1>3. /\ s.prev = prev /\ s.run = r /\ s.fwds = job[r].sess.fwds
      /\ s.forwards_cleared = job[r].sess.forwards_cleared
      /\ s.audio_restored = job[r].sess.audio_restored
      /\ s.dashboard_closed = job[r].sess.dashboard_closed
      /\ AudioPending(s) <=> prev # NoDevice /\ ~job[r].sess.audio_restored
  BY <1>2, DeviceNoted
<1>4. /\ ~s.forwards_cleared /\ ~s.audio_restored /\ ~s.dashboard_closed
      /\ job[r].sess.prev # BlackHole /\ (mac.output = BlackHole => carried)
      /\ job[r].armed # BlackHole
  BY <1>1, <1>3 DEF GuardInv, JobInv, SessInv, IdleInv, Unstarted, Sound
<1>5. prev # BlackHole /\ prev # NoDevice
  BY <1>4 DEF prev, AudioPending, TypeOK, Macs, Devices, NoDevice, BlackHole, Speakers
<1>6. AudioPending(s)
  BY <1>3, <1>4, <1>5
<1>7. CASE Go(r, "dash") /\ UNCHANGED <<disk, lock, phase, budget>>
  <2>1. Onward("arm", "dash") /\ "dash" \in JobPC
    BY GuardedPlace, PCs DEF Guarding
  <2>2. Calm(r) /\ \A q \in Runs \ {r} : job'[q] = job[q]
    BY <1>1, <1>7, <2>1, GoMoves, StayCalm
  <2> QED
    BY <1>7, <2>2, Still, StepKept DEF Arm, Eases
<1>8. CASE /\ SaveOk(job[r].proc, s)
           /\ job' = [job EXCEPT ![r] = [job[r] EXCEPT !.pc = "switch", !.sess = s,
                                                   !.armed = prev, !.carried = carried]]
  <2>1. /\ job'[r].pc = "switch" /\ job'[r].sess = s /\ job'[r].armed = prev
        /\ job'[r].carried = carried
        /\ \A q \in Runs \ {r} : job'[q] = job[q]
    BY <1>8, JobFields DEF TypeOK, Job
  <2>2. disk' = s /\ UNCHANGED <<wine, mac, pass>>
    BY <1>8 DEF SaveOk, Arm
  <2>3. carried \/ mac.output # BlackHole
    BY <1>4
  <2> HIDE DEF s
  <2> QED
    BY <1>1, <1>2, <1>3, <1>4, <1>5, <1>6, <2>1, <2>2, <2>3, DeviceTaken
<1>9. CASE SaveErr(job[r].proc, s) /\ Teardown(r, "Failed", [job[r] EXCEPT !.sess = s])
  <2> DEFINE k == [job[r] EXCEPT !.sess = s]
  <2>1. k \in Job /\ k.sess = s /\ k.armed = job[r].armed /\ k.held = job[r].held
    BY <1>2, JobFields DEF Job
  <2> HIDE DEF k
  <2>2. Moved(r, Stay(k, "tdDash"))
    BY <1>9, <2>1, TeardownMoves DEF k
  <2>3. /\ job'[r].pc = "tdDash" /\ job'[r].sess = s /\ job'[r].armed = job[r].armed
        /\ job'[r].held = job[r].held /\ \A q \in Runs \ {r} : job'[q] = job[q]
    BY <2>1, <2>2, StayFields DEF Moved
  <2>4. Writes(job'[r]) => Writes(job[r])
    BY <2>3 DEF Writes
  <2>5. UNCHANGED <<disk, wine, mac, pass>>
    BY <1>9 DEF SaveErr, Arm
  <2> HIDE DEF s
  <2> QED
    BY <1>1, <1>2, <1>3, <1>4, <1>5, <1>6, <2>3, <2>4, <2>5, DeviceTaken
<1> QED
  BY <1>7, <1>8, <1>9 DEF Arm, prev

(* The switch takes. *)
LEMMA SwitchedGuard ==
    ASSUME IInv, OneUp, GuardInv, NEW r \in Runs, job[r].pc = "switch",
           mac' = [mac EXCEPT !.output = BlackHole], UNCHANGED <<disk, wine, pass>>, Calm(r),
           job'[r].pc \in {"dash", "tdKill"}, \A q \in Runs \ {r} : job'[q] = job[q]
    PROVE  GuardInv'
<1> USE DEF IInv, VisibleInv
<1>1. /\ job[r].pc \in WithState /\ job[r].pc \in Flight /\ job[r].pc \in UnderWay
      /\ job[r].pc \in HoldsLock \ {"pass"} /\ job[r].pc \in Early
  BY GuardedPlace DEF Guarding
<1>2. pass.pc \notin PassLoaded
  BY <1>1, LockedPass
<1>3. mac'.output = BlackHole /\ mac'.dash = mac.dash /\ mac'.forwards = mac.forwards
  BY DEF TypeOK, Macs
<1>4. Open' = Open
  BY <1>3 DEF Open
<1>5. Loaded(disk) /\ AudioPending(disk) /\ AudioPending(job[r].sess)
  BY DEF GuardInv, JobInv, PlaceInv
<1>6. job'[r].pc \in WithState /\ Like(job'[r].sess, job[r].sess)
  BY DEF Calm, WithState, Guarding, Ending
<1>7. /\ AudioPending(job'[r].sess)
      /\ DashboardPending(job'[r].sess) <=> DashboardPending(job[r].sess)
      /\ Sound(job'[r].sess) <=> Sound(job[r].sess)
      /\ job'[r].sess.fwds = job[r].sess.fwds
      /\ job'[r].sess.forwards_cleared = job[r].sess.forwards_cleared
      /\ job'[r].sess.audio_restored = job[r].sess.audio_restored
      /\ job'[r].sess.dashboard_closed = job[r].sess.dashboard_closed
  BY <1>5, <1>6, LikeOwes
<1>8. RecordInv'
  BY <1>3, <1>4, <1>5 DEF GuardInv, RecordInv, OnDisk
<1>9. PassInv'
  BY <1>2 DEF PassInv
<1>10. JobInv(r)'
  <2>1. IdleInv(r)'
    BY <1>3 DEF GuardInv, JobInv, IdleInv, Unstarted, Calm, NoDevice, BlackHole
  <2>2. SessInv(r)'
    BY <1>1, <1>2, <1>3, <1>4, <1>7 DEF GuardInv, JobInv, SessInv, Up
  <2>3. KeepInv(r)'
    BY <1>1, <1>2, <1>3, <1>7 DEF GuardInv, JobInv, KeepInv, Up, OnDisk, Calm
  <2>4. PlaceInv(r)'
    BY DEF PlaceInv
  <2> QED
    BY <2>1, <2>2, <2>3, <2>4 DEF JobInv
<1> QED
  BY <1>1, <1>3, <1>8, <1>9, <1>10, StepInv

(* BlackHole plays only once a device is on record; a switch that fails    *)
(* may drop it.                                                            *)
LEMMA SwitchGuard ==
    ASSUME IInv, OneUp, GuardInv, NEW r \in Runs, Switch(r)
    PROVE  GuardInv'
<1> USE DEF IInv, VisibleInv
<1> DEFINE s == [job[r].sess EXCEPT !.prev = NoDevice]
           j == [job[r] EXCEPT !.sess = s, !.armed = NoDevice]
<1>1. /\ job[r].pc = "switch" /\ job[r].pc \in Guarding \cup Running
      /\ job[r].pc \in WithState /\ job[r].pc \in Early
      /\ Onward("switch", "dash") /\ "dash" \in JobPC
  BY GuardedPlace, PCs DEF Switch, At, Guarding
<1>2. /\ job[r].sess \in State /\ job[r].sess.run = r /\ s \in State
  BY <1>1, InHand, SwitchMoves
<1>3. UNCHANGED <<wine, pass>>
  BY DEF Switch
<1>4. CASE /\ mac' = [mac EXCEPT !.output = BlackHole] /\ UNCHANGED disk
           /\ Go(r, "dash") \/ Teardown(r, "Cancelled", job[r])
  <2>1. CASE Go(r, "dash")
    <3>1. Calm(r) /\ job'[r].pc = "dash" /\ \A q \in Runs \ {r} : job'[q] = job[q]
      BY <1>1, <2>1, GoMoves, StayCalm
    <3> QED
      BY <1>1, <1>3, <1>4, <3>1, SwitchedGuard
  <2>2. CASE Teardown(r, "Cancelled", job[r])
    <3>1. Calm(r) /\ \A q \in Runs \ {r} : job'[q] = job[q]
      BY <1>1, <2>2, TeardownCalm
    <3>2. Moved(r, Stay(job[r], "tdKill"))
      BY <2>2, JobFields, TeardownMoves
    <3>3. job'[r].pc = "tdKill"
      BY <3>2, StayFields DEF Moved
    <3> QED
      BY <1>1, <1>3, <1>4, <3>1, <3>3, SwitchedGuard
  <2> QED
    BY <1>4, <2>1, <2>2
<1>5. CASE /\ ~job[r].cancel /\ job[r].carried
           /\ job' = [job EXCEPT ![r].pc = "dash", ![r].armed = NoDevice]
           /\ UNCHANGED <<disk, mac>>
  <2> DEFINE k == Upd(job[r], "dash", job[r].sess, NoDevice, job[r].carried, job[r].held,
                      job[r].todo)
  <2>1. /\ k.pc = "dash" /\ k.sess = job[r].sess /\ k.armed = NoDevice /\ k.held = job[r].held
    BY DEF Upd
  <2>2. k \in Job
    BY JobFields, PCs, UpdIsJob
  <2>3. job'[r] = [job[r] EXCEPT !.pc = "dash", !.armed = NoDevice]
    BY <1>5 DEF TypeOK
  <2>4. job'[r] = k
    BY <2>3, JobFields DEF Job, Upd
  <2>5. Moved(r, k)
    BY <1>5, <2>2, <2>4 DEF Moved, TypeOK
  <2> HIDE DEF k
  <2>6. Calm(r) /\ \A q \in Runs \ {r} : job'[q] = job[q]
    BY <1>1, <2>1, <2>5, LikeSelf, MovedCalm
  <2> QED
    BY <1>3, <1>5, <2>6, Still, StepKept DEF Eases
<1>6. CASE /\ ~job[r].cancel /\ ~job[r].carried /\ UNCHANGED mac
           /\ \/ SaveOk(job[r].proc, s) /\ job' = [job EXCEPT ![r] = [j EXCEPT !.pc = "dash"]]
              \/ SaveErr(job[r].proc, s) /\ Teardown(r, "Failed", j)
  <2>1. /\ s.prev = NoDevice /\ s.run = r /\ s.fwds = job[r].sess.fwds
        /\ s.forwards_cleared = job[r].sess.forwards_cleared
        /\ s.audio_restored = job[r].sess.audio_restored
        /\ s.dashboard_closed = job[r].sess.dashboard_closed
    BY <1>2, DeviceNoted
  <2>2. /\ ~s.forwards_cleared /\ ~s.audio_restored /\ ~s.dashboard_closed
        /\ mac.output # BlackHole /\ NoDevice # BlackHole
    BY <1>1, <1>6, <2>1 DEF GuardInv, JobInv, SessInv, PlaceInv, NoDevice, BlackHole
  <2>3. /\ j \in Job /\ j.sess = s /\ j.armed = NoDevice /\ j.held = job[r].held
    BY <1>2, JobFields DEF Job
  <2>4. CASE SaveOk(job[r].proc, s) /\ job' = [job EXCEPT ![r] = [j EXCEPT !.pc = "dash"]]
    <3>1. /\ job'[r] = [j EXCEPT !.pc = "dash"] /\ \A q \in Runs \ {r} : job'[q] = job[q]
      BY <2>4 DEF TypeOK
    <3> HIDE DEF j, s
    <3>2. /\ job'[r].pc = "dash" /\ job'[r].sess = s /\ job'[r].armed = NoDevice
      BY <2>3, <3>1 DEF Job
    <3>3. disk' = s
      BY <2>4 DEF SaveOk
    <3> QED
      BY <1>1, <1>2, <1>3, <1>6, <2>1, <2>2, <3>1, <3>2, <3>3, DeviceTaken
  <2>5. CASE SaveErr(job[r].proc, s) /\ Teardown(r, "Failed", j)
    <3> HIDE DEF j, s
    <3>1. Moved(r, Stay(j, "tdDash"))
      BY <2>3, <2>5, TeardownMoves
    <3>2. /\ job'[r].pc = "tdDash" /\ job'[r].sess = s /\ job'[r].armed = NoDevice
          /\ job'[r].held = job[r].held /\ \A q \in Runs \ {r} : job'[q] = job[q]
      BY <2>3, <3>1, StayFields DEF Moved
    <3>3. UNCHANGED disk /\ (Writes(job'[r]) => Writes(job[r]))
      BY <2>5, <3>2 DEF SaveErr, Writes
    <3> QED
      BY <1>1, <1>2, <1>3, <1>6, <2>1, <2>2, <3>2, <3>3, DeviceTaken
  <2> QED
    BY <1>6, <2>4, <2>5
<1> QED
  BY <1>4, <1>5, <1>6 DEF Switch

(* A record with its dashboard. *)
LEMMA DashboardNoted ==
    ASSUME NEW s \in State
    PROVE  LET t == [s EXCEPT !.dashboard = TRUE] IN
           /\ t.run = s.run /\ t.fwds = s.fwds /\ t.prev = s.prev
           /\ t.forwards_cleared = s.forwards_cleared
           /\ t.audio_restored = s.audio_restored /\ t.dashboard_closed = s.dashboard_closed
           /\ AudioPending(t) <=> AudioPending(s)
           /\ DashboardPending(t) <=> ~s.dashboard_closed
  BY DEF State, AudioPending, DashboardPending

(* The dashboard opens for a launch whose game is not up yet.              *)
LEMMA OpenDashboardGuard ==
    ASSUME IInv, OneUp, GuardInv, NEW r \in Runs, OpenDashboard(r)
    PROVE  GuardInv'
<1> USE DEF IInv, VisibleInv
<1> DEFINE s == [job[r].sess EXCEPT !.dashboard = TRUE]
<1>1. /\ job[r].pc = "dash" /\ job[r].pc \in Guarding \cup Running
      /\ job[r].pc \in WithState /\ job[r].pc \in Early /\ job[r].pc \in UnderWay
      /\ job[r].pc \in Flight /\ job[r].pc \in Undashed /\ job[r].pc \in HoldsLock \ {"pass"}
      /\ Onward("dash", "spawn") /\ "spawn" \in JobPC /\ "dashSave" \in JobPC
  BY GuardedPlace, PCs DEF OpenDashboard, At, Guarding
<1>2. UNCHANGED <<disk, wine, pass>> /\ pass.pc \notin PassLoaded
  BY <1>1, LockedPass DEF OpenDashboard
<1>3. CASE Go(r, "spawn") /\ UNCHANGED mac
  <2>1. Calm(r) /\ \A q \in Runs \ {r} : job'[q] = job[q]
    BY <1>1, <1>3, GoMoves, StayCalm
  <2> QED
    BY <1>2, <1>3, <2>1, Still, StepKept DEF Eases
<1>4. CASE Teardown(r, "Failed", job[r]) /\ UNCHANGED mac
  BY <1>1, <1>2, <1>4, Still, TeardownGuard DEF Eases
<1>5. CASE /\ mac' = [mac EXCEPT !.dash = @ \cup {r}]
           /\ job' = [job EXCEPT ![r].pc = "dashSave", ![r].sess.dashboard = TRUE]
  <2>1. job[r].sess \in State /\ s \in State
    BY <1>1, InHand, OpenDashboardMoves
  <2>2. job'[r] = [job[r] EXCEPT !.pc = "dashSave", !.sess.dashboard = TRUE]
        /\ \A q \in Runs \ {r} : job'[q] = job[q]
    BY <1>5 DEF TypeOK
  <2>3. /\ job'[r].pc = "dashSave" /\ job'[r].sess = s /\ job'[r].armed = job[r].armed
        /\ job'[r].held = job[r].held
    BY <2>2, JobFields DEF Job
  <2>4. /\ s.fwds = job[r].sess.fwds /\ s.prev = job[r].sess.prev
        /\ s.forwards_cleared = job[r].sess.forwards_cleared
        /\ s.audio_restored = job[r].sess.audio_restored
        /\ s.dashboard_closed = job[r].sess.dashboard_closed
        /\ AudioPending(s) <=> AudioPending(job[r].sess)
        /\ DashboardPending(s) <=> ~job[r].sess.dashboard_closed
    BY <2>1, DashboardNoted
  <2> HIDE DEF s
  <2>5. mac'.output = mac.output /\ mac'.forwards = mac.forwards /\ mac'.dash = mac.dash \cup {r}
    BY <1>5 DEF TypeOK, Macs
  <2>6. /\ Open = {} /\ wine[r] = "unborn" /\ r \notin mac.dash
        /\ ~job[r].sess.dashboard_closed
    BY <1>1 DEF GuardInv, JobInv, SessInv, IdleInv, Unstarted, Open
  <2>7. Open' = {}
    BY <1>2, <2>5, <2>6 DEF Open
  <2>8. RecordInv'
    BY <1>2, <2>5, <2>7 DEF GuardInv, RecordInv
  <2>9. PassInv'
    BY <1>2 DEF PassInv
  <2>10. JobInv(r)'
    <3>1. IdleInv(r)'
      BY <1>1, <1>2, <2>3, <2>6 DEF GuardInv, JobInv, IdleInv, Unstarted, Undashed
    <3>2. SessInv(r)'
      BY <1>1, <1>2, <2>3, <2>4, <2>5, <2>6, <2>7 DEF GuardInv, JobInv, SessInv, Up, Sound
    <3>3. KeepInv(r)'
      BY <1>1, <1>2, <2>3, <2>4, <2>5 DEF GuardInv, JobInv, KeepInv, Up, OnDisk, Writes
    <3>4. PlaceInv(r)'
      BY <2>3 DEF PlaceInv
    <3> QED
      BY <3>1, <3>2, <3>3, <3>4 DEF JobInv
  <2> QED
    BY <1>1, <1>2, <2>2, <2>5, <2>8, <2>9, <2>10, StepInv
<1> QED
  BY <1>3, <1>4, <1>5 DEF OpenDashboard

(* The dashboard a launch has open is closed again. *)
LEMMA DashboardCloses ==
    ASSUME TypeOK, NEW r \in Runs, mac' = [mac EXCEPT !.dash = @ \ {r}]
    PROVE  MacEases
  BY DEF TypeOK, Macs, MacEases

(* It is on record before the game starts, or it is closed again.          *)
LEMMA SaveDashboardGuard ==
    ASSUME IInv, OneUp, GuardInv, NEW r \in Runs, SaveDashboard(r)
    PROVE  GuardInv'
<1> USE DEF IInv, VisibleInv
<1>1. /\ job[r].pc = "dashSave" /\ job[r].pc \in Guarding \cup Running
      /\ job[r].pc \in WithState /\ job[r].pc \in UnderWay /\ job[r].pc \in HoldsLock \ {"pass"}
      /\ job[r].pc \in Early
  BY GuardedPlace DEF SaveDashboard, At, Guarding
<1>2. UNCHANGED <<wine, pass>> /\ pass.pc \notin PassLoaded /\ PassLeft
  BY <1>1, LockedPass, Still DEF SaveDashboard
<1>3. CASE /\ SaveOk(job[r].proc, job[r].sess) /\ UNCHANGED mac
           /\ job' = [job EXCEPT ![r].pc = "spawn", ![r].held = TRUE]
  <2>1. /\ job'[r] = [job[r] EXCEPT !.pc = "spawn", !.held = TRUE]
        /\ \A q \in Runs \ {r} : job'[q] = job[q]
    BY <1>3 DEF TypeOK
  <2>2. job'[r].pc = "spawn" /\ job'[r].sess = job[r].sess /\ job'[r].armed = job[r].armed
    BY <2>1, JobFields DEF Job
  <2>3. disk' = job[r].sess /\ job[r].sess \in State /\ job[r].sess.run = r
    BY <1>1, <1>3, InHand DEF SaveOk
  <2>4. Loaded(disk') /\ Like(disk', job[r].sess) /\ Like(job'[r].sess, job[r].sess)
    BY <2>2, <2>3, LikeSelf DEF Loaded
  <2>5. "spawn" \in WithState /\ "spawn" \notin Undashed /\ Eases
    BY <1>2, <1>3, Still, GuardedPlace DEF Undashed, Guarding, Eases
  <2> QED
    BY <1>1, <1>2, <2>1, <2>2, <2>3, <2>4, <2>5, SaveKept
<1>4. CASE /\ UNCHANGED disk
           /\ mac' = [mac EXCEPT !.dash = @ \ {r}]
           /\ Teardown(r, "Failed", job[r]) \/ Teardown(r, "Cancelled", job[r])
  <2>1. Eases /\ DiskKept
    BY <1>2, <1>4, Still, DashboardCloses DEF Eases
  <2> QED
    BY <1>1, <1>2, <1>4, <2>1, TeardownGuard
<1> QED
  BY <1>3, <1>4 DEF SaveDashboard, SaveErr

(* The child is up. *)
LEMMA SpawnedGuard ==
    ASSUME IInv, OneUp, GuardInv, NEW r \in Runs, job[r].pc = "spawn",
           wine' = [wine EXCEPT ![r] = "alive"], UNCHANGED <<disk, mac, pass>>,
           NEW s, Like(s, job[r].sess), Moved(r, Note(job[r], "publish", s))
    PROVE  GuardInv'
<1> USE DEF IInv, VisibleInv
<1>1. /\ job[r].pc \in WithState /\ job[r].pc \in Flight /\ job[r].pc \in UnderWay
      /\ job[r].pc \in HoldsLock \ {"pass"}
  BY GuardedPlace DEF Guarding
<1>2. pass.pc \notin PassLoaded
  BY <1>1, LockedPass
<1>3. /\ job'[r].pc = "publish" /\ job'[r].sess = s /\ job'[r].armed = job[r].armed
      /\ job'[r].held = job[r].held /\ \A q \in Runs \ {r} : job'[q] = job[q]
  BY NoteFields DEF Moved
<1>4. /\ wine'[r] = "alive" /\ \A q \in Runs \ {r} : wine'[q] = wine[q]
  BY DEF TypeOK
<1>5. Open' \subseteq {r} /\ (r \in Open' => r \in mac.dash)
  <2>1. Open \subseteq {r} /\ mac.dash \subseteq Runs
    BY <1>1 DEF GuardInv, JobInv, SessInv, TypeOK, Macs
  <2> QED
    BY <1>4, <2>1 DEF Open
<1>6. r \in mac.dash => OnDisk(r) /\ DashboardPending(disk)
  BY DEF GuardInv, JobInv, PlaceInv
<1>7. RecordInv'
  BY <1>5, <1>6 DEF GuardInv, RecordInv, OnDisk
<1>8. PassInv'
  BY <1>2 DEF PassInv
<1>9. JobInv(r)'
  <2>1. IdleInv(r)'
    BY <1>3 DEF GuardInv, JobInv, IdleInv, Early, Unstarted, Undashed, Preparing, Guarding
  <2>2. SessInv(r)'
    BY <1>1, <1>2, <1>3, <1>5, LikeOwes
       DEF GuardInv, JobInv, SessInv, Up, Early, Unstarted, Preparing, Guarding
  <2>3. KeepInv(r)'
    BY <1>1, <1>2, <1>3, LikeOwes DEF GuardInv, JobInv, KeepInv, Up, OnDisk, Writes
  <2>4. PlaceInv(r)'
    BY <1>3 DEF PlaceInv
  <2> QED
    BY <2>1, <2>2, <2>3, <2>4 DEF JobInv
<1> QED
  BY <1>1, <1>3, <1>4, <1>7, <1>8, <1>9, StepInv

(* What a record owes is not in what else it says. *)
LEMMA ChildNoted ==
    ASSUME NEW s \in State, NEW c
    PROVE  Like([s EXCEPT !.child = c], s)
  BY DEF State, Like

(* Nor in whether it was detached.                                         *)
LEMMA DetachNoted ==
    ASSUME NEW s \in State
    PROVE  Like([s EXCEPT !.detached = TRUE], s)
  BY DEF State, Like

(* The game is up, or it is not and the launch turns to its teardown.      *)
LEMMA SpawnGuard ==
    ASSUME IInv, OneUp, GuardInv, NEW r \in Runs, Spawn(r)
    PROVE  GuardInv'
<1> USE DEF IInv
<1>1. job[r].pc = "spawn" /\ job[r].pc \in Guarding \cup Running /\ job[r].pc \in WithState
  BY GuardedPlace DEF Spawn, At, Guarding
<1>2. UNCHANGED <<disk, mac, pass>>
  BY DEF Spawn
<1>3. CASE Teardown(r, "Failed", job[r]) /\ UNCHANGED wine
  BY <1>1, <1>2, <1>3, Still, TeardownGuard DEF Eases
<1>4. CASE /\ wine' = [wine EXCEPT ![r] = "alive"]
           /\ \E c \in {"exact", "unobserved"} :
                 job' = [job EXCEPT ![r].pc = "publish", ![r].sess.child = c]
  <2>1. PICK c \in {"exact", "unobserved"} :
           job' = [job EXCEPT ![r].pc = "publish", ![r].sess.child = c]
    BY <1>4
  <2> DEFINE s == [job[r].sess EXCEPT !.child = c]
             k == Note(job[r], "publish", s)
  <2>2. job[r].sess \in State
    BY <1>1, InHand
  <2>3. s \in State /\ Like(s, job[r].sess)
    BY <2>2, ChildNoted DEF State, ChildStates
  <2>4. job'[r] = [job[r] EXCEPT !.pc = "publish", !.sess.child = c]
    BY <2>1 DEF TypeOK
  <2>5. job'[r] = k
    BY <2>4, JobFields DEF Job, Upd, Note
  <2> HIDE DEF s
  <2>6. k \in Job
    BY <2>3, JobFields, PCs, UpdIsJob DEF Note
  <2>7. Moved(r, k)
    BY <2>1, <2>5, <2>6 DEF Moved, TypeOK
  <2> QED
    BY <1>1, <1>2, <1>4, <2>3, <2>7, SpawnedGuard
<1> QED
  BY <1>3, <1>4 DEF Spawn

(* The slot says nothing of the record.                                    *)
LEMMA PublishLiveGuard ==
    ASSUME IInv, GuardInv, NEW r \in Runs, PublishLive(r)
    PROVE  GuardInv'
<1> USE DEF IInv
<1>1. job[r].pc \in WithState /\ Onward(job[r].pc, "record") /\ "record" \in JobPC
  BY GuardedPlace, PCs DEF PublishLive, At, Running
<1>2. Calm(r) /\ \A q \in Runs \ {r} : job'[q] = job[q]
  BY <1>1, GoMoves, StayCalm DEF PublishLive
<1> QED
  BY <1>2, Still, StepKept DEF PublishLive, Eases

(* The save of the child and the lock given back.                          *)
LEMMA RecordLaunchedGuard ==
    ASSUME IInv, OneUp, GuardInv, NEW r \in Runs, RecordLaunched(r)
    PROVE  GuardInv'
<1> USE DEF IInv, VisibleInv
<1>1. /\ job[r].pc \in WithState /\ job[r].pc \in UnderWay /\ job[r].pc \in HoldsLock \ {"pass"}
      /\ Onward(job[r].pc, "super") /\ "super" \in JobPC /\ "super" \in WithState
      /\ "super" \notin Early /\ "super" \notin Undashed
  BY GuardedPlace, PCs
     DEF RecordLaunched, At, Running, Undashed, Early, Unstarted, Preparing, Guarding
<1>2. UNCHANGED <<wine, mac, pass>> /\ pass.pc \notin PassLoaded /\ PassLeft /\ Eases
  BY <1>1, LockedPass, Still DEF RecordLaunched, Eases
<1>3. /\ Calm(r) /\ \A q \in Runs \ {r} : job'[q] = job[q]
      /\ job'[r].pc = "super" /\ Like(job'[r].sess, job[r].sess)
      /\ job'[r].armed \in {job[r].armed, NoDevice}
  BY <1>1, GoMoves, StayCalm DEF RecordLaunched
<1>4. CASE UNCHANGED disk
  BY <1>2, <1>3, <1>4, Still, StepKept
<1>5. CASE SaveOk(job[r].proc, job[r].sess)
  <2>1. /\ disk' = job[r].sess /\ Loaded(disk') /\ disk'.run = r /\ Like(disk', job[r].sess)
    BY <1>1, <1>5, InHand, LikeSelf DEF SaveOk, Loaded
  <2> QED
    BY <1>1, <1>2, <1>3, <2>1, SaveKept
<1> QED
  BY <1>4, <1>5 DEF RecordLaunched, Save, SaveErr

(* The end of the game, a Stop or a detach.                                *)
LEMMA SuperviseGuard ==
    ASSUME IInv, GuardInv, NEW r \in Runs, Supervise(r)
    PROVE  GuardInv'
<1> USE DEF IInv
<1>1. /\ job[r].pc \in WithState /\ Onward(job[r].pc, "tdDetach") /\ "tdDetach" \in JobPC
      /\ job[r].pc \in Guarding \cup Running
  BY GuardedPlace, PCs DEF Supervise, At, Running
<1>2. UNCHANGED <<disk, wine, mac, pass>>
  BY DEF Supervise
<1>3. CASE Teardown(r, "Cancelled", job[r]) \/ Teardown(r, "Normal", job[r])
  BY <1>1, <1>2, <1>3, Still, TeardownGuard DEF Eases
<1>4. CASE job' = [job EXCEPT ![r].pc = "tdDetach", ![r].sess.detached = TRUE]
  <2> DEFINE s == [job[r].sess EXCEPT !.detached = TRUE]
             k == Note(job[r], "tdDetach", s)
  <2>1. s \in State /\ Like(s, job[r].sess)
    BY <1>1, InHand, SuperviseMoves, DetachNoted
  <2>2. job'[r] = [job[r] EXCEPT !.pc = "tdDetach", !.sess.detached = TRUE]
    BY <1>4 DEF TypeOK
  <2>3. job'[r] = k
    BY <2>2, JobFields DEF Job, Upd, Note
  <2> HIDE DEF s
  <2>4. k \in Job
    BY <1>1, <2>1, JobFields, UpdIsJob DEF Note
  <2>5. Moved(r, k)
    BY <1>4, <2>3, <2>4 DEF Moved, TypeOK
  <2>6. Calm(r) /\ \A q \in Runs \ {r} : job'[q] = job[q]
    BY <1>1, <2>1, <2>5, NoteCalm
  <2> QED
    BY <1>2, <2>6, Still, StepKept DEF Eases
<1> QED
  BY <1>3, <1>4 DEF Supervise
-----------------------------------------------------------------------------
(* Teardown. *)
LEMMA EndingPlace ==
    ASSUME NEW pc \in Ending
    PROVE  /\ pc \in WithState /\ pc \in Flight /\ pc \notin Early /\ pc \notin Undashed
           /\ pc # "tdLive" => /\ pc \in UnderWay /\ Onward(pc, "tdDash") /\ Onward(pc, "tdAudio")
                               /\ Onward(pc, "tdFinish")
           /\ Onward(pc, "tdLive") /\ Onward(pc, "unwind")
  BY DEF Onward, UnderWay, Undashed, Early, Unstarted, Flight, WithState, Preparing, Guarding, Running, Ending

(* A step that changes nothing but where the launch is. *)
LEMMA GoGuard ==
    ASSUME IInv, GuardInv, NEW r \in Runs, NEW pc \in JobPC, Go(r, pc), job[r].pc \in WithState,
           Onward(job[r].pc, pc), Eases, DiskKept, PassLeft
    PROVE  GuardInv'
<1> USE DEF IInv
<1>1. Calm(r) /\ \A q \in Runs \ {r} : job'[q] = job[q]
  BY GoMoves, StayCalm
<1> QED
  BY <1>1, StepKept

(* A launch that will write its record meets no pass over it.              *)
LEMMA WriterAlone ==
    ASSUME GuardInv, NEW r \in Runs, job[r].pc \in UnderWay, Writes(job[r])
    PROVE  OnDisk(r) /\ pass.pc \notin PassLoaded
  BY DEF GuardInv, JobInv, KeepInv

(* A save of the teardown, whatever comes of it. *)
LEMMA TeardownSaves ==
    ASSUME IInv, OneUp, GuardInv, NEW r \in Runs, NEW pc \in JobPC, Go(r, pc),
           job[r].pc \in Ending \ {"tdLive"}, pc \in {"tdAudio", "tdFinish", "tdLive"},
           pc = "tdLive" \/ Writes(job[r]),
           Save(job[r].proc, job[r].sess), UNCHANGED <<wine, mac, pass>>
    PROVE  GuardInv'
<1> USE DEF IInv, VisibleInv
<1>1. /\ job[r].pc \in WithState /\ job[r].pc \in UnderWay /\ Onward(job[r].pc, pc)
      /\ pc \in WithState /\ pc \notin Early /\ pc \notin Undashed
  BY EndingPlace DEF Ending
<1>2. Eases /\ PassLeft
  BY Still DEF Eases
<1>3. CASE UNCHANGED disk
  BY <1>1, <1>2, <1>3, Still, GoGuard
<1>4. CASE SaveOk(job[r].proc, job[r].sess)
  <2>1. /\ disk' = job[r].sess /\ Loaded(disk') /\ disk'.run = r /\ Like(disk', job[r].sess)
    BY <1>1, <1>4, InHand, LikeSelf DEF SaveOk, Loaded
  <2>2. /\ job'[r].pc = pc /\ Like(job'[r].sess, job[r].sess)
        /\ job'[r].armed \in {job[r].armed, NoDevice}
        /\ \A q \in Runs \ {r} : job'[q] = job[q]
    BY <1>1, GoMoves, StayCalm
  <2>3. pass.pc \notin PassLoaded \/ pc = "tdLive"
    BY <1>1, WriterAlone
  <2> QED
    BY <1>1, <1>2, <2>1, <2>2, <2>3, SaveKept
<1> QED
  BY <1>3, <1>4 DEF Save, SaveErr

(* A detach leaves everything taken, and on record.                        *)
LEMMA DetachSaveGuard ==
    ASSUME IInv, OneUp, GuardInv, NEW r \in Runs, DetachSave(r)
    PROVE  GuardInv'
<1> USE DEF IInv, VisibleInv
<1>1. /\ job[r].pc \in Ending /\ job[r].pc \in WithState /\ job[r].pc \in UnderWay
      /\ Onward(job[r].pc, "tdLive") /\ "tdLive" \in JobPC
      /\ "tdLive" \in WithState /\ "tdLive" \notin Early /\ "tdLive" \notin Undashed
  BY EndingPlace, PCs DEF DetachSave, At, Ending
<1>2. Eases /\ PassLeft
  BY Still DEF DetachSave, Eases
<1>3. CASE SaveErr(job[r].proc, job[r].sess) /\ Go(r, "tdLive")
  BY <1>1, <1>2, <1>3, Still, GoGuard DEF SaveErr
<1>4. CASE /\ SaveOk(job[r].proc, job[r].sess)
           /\ job' = [job EXCEPT ![r].pc = "tdLive", ![r].armed = NoDevice, ![r].held = FALSE]
  <2>1. /\ disk' = job[r].sess /\ Loaded(disk') /\ disk'.run = r /\ Like(disk', job[r].sess)
    BY <1>1, <1>4, InHand, LikeSelf DEF SaveOk, Loaded
  <2>2. /\ job'[r] = [job[r] EXCEPT !.pc = "tdLive", !.armed = NoDevice, !.held = FALSE]
        /\ \A q \in Runs \ {r} : job'[q] = job[q]
    BY <1>4 DEF TypeOK
  <2>3. job'[r].pc = "tdLive" /\ job'[r].sess = job[r].sess /\ job'[r].armed = NoDevice
    BY <2>2, JobFields DEF Job
  <2> QED
    BY <1>1, <1>2, <2>1, <2>2, <2>3, LikeSelf, SaveKept
<1> QED
  BY <1>3, <1>4 DEF DetachSave

(* A dashboard that is closed, or could not be.                            *)
LEMMA CloseDashboardGuard ==
    ASSUME IInv, OneUp, GuardInv, NEW r \in Runs, CloseDashboard(r)
    PROVE  GuardInv'
<1> USE DEF IInv, VisibleInv
<1>1. /\ job[r].pc = "tdDash" /\ job[r].pc \in WithState /\ job[r].pc \in UnderWay
      /\ job[r].pc \in Flight /\ Onward(job[r].pc, "tdAudio") /\ "tdAudio" \in JobPC
      /\ job[r].pc \notin Early
  BY EndingPlace, PCs DEF CloseDashboard, At, Ending
<1>2. UNCHANGED <<disk, wine, pass>>
  BY DEF CloseDashboard
<1>3. CASE ~job[r].held
  BY <1>1, <1>2, <1>3, Still, GoGuard DEF CloseDashboard, Eases
<1>4. CASE job[r].held
  <2> DEFINE s == [job[r].sess EXCEPT !.dashboard_closed = TRUE]
             k == Upd(job[r], "tdDashSave", s, job[r].armed, job[r].carried, FALSE, job[r].todo)
  <2>1. Moved(r, k)
    BY <1>4, CloseDashboardMoves
  <2>2. k.pc = "tdDashSave" /\ k.sess = s /\ k.armed = job[r].armed
    BY DEF Upd
  <2>3. /\ job'[r].pc = "tdDashSave" /\ job'[r].sess = s /\ job'[r].armed = job[r].armed
        /\ \A q \in Runs \ {r} : job'[q] = job[q]
    BY <2>1, <2>2 DEF Moved
  <2>4. job[r].sess \in State
    BY <1>1, InHand
  <2>5. /\ s.prev = job[r].sess.prev /\ s.fwds = job[r].sess.fwds
        /\ s.forwards_cleared = job[r].sess.forwards_cleared
        /\ AudioPending(s) <=> AudioPending(job[r].sess)
    BY <2>4 DEF State, AudioPending
  <2> HIDE DEF s, k
  <2>6. mac' = [mac EXCEPT !.dash = @ \ {r}]
    BY <1>4 DEF CloseDashboard
  <2>7. mac'.output = mac.output /\ mac'.forwards = mac.forwards /\ mac'.dash = mac.dash \ {r}
    BY <2>6 DEF TypeOK, Macs
  <2>8. Eases /\ DiskKept /\ PassLeft
    BY <1>2, <2>6, Still, DashboardCloses DEF Eases
  <2>9. RecordInv' /\ PassInv' /\ Open' \subseteq Open
    BY <2>8, RecordKept, PassKept, OpenEases DEF GuardInv
  <2>10. Writes(job[r])
    BY <1>4 DEF Writes
  <2>11. OnDisk(r) /\ pass.pc \notin PassLoaded
    BY <1>1, <2>10, WriterAlone
  <2>12. JobInv(r)'
    <3>1. IdleInv(r)'
      BY <2>3 DEF GuardInv, JobInv, IdleInv, Early, Unstarted, Undashed, Preparing, Guarding
    <3>2. SessInv(r)'
      BY <1>1, <1>2, <2>3, <2>5, <2>7, <2>9, <2>11
         DEF GuardInv, JobInv, SessInv, Up, Sound, Early, Unstarted, Preparing, Guarding
    <3>3. KeepInv(r)'
      BY <1>1, <1>2, <2>3, <2>5, <2>7, <2>11 DEF GuardInv, JobInv, KeepInv, Up, OnDisk
    <3>4. PlaceInv(r)'
      BY <2>3 DEF PlaceInv
    <3> QED
      BY <3>1, <3>2, <3>3, <3>4 DEF JobInv
  <2> QED
    BY <1>1, <1>2, <2>3, <2>7, <2>9, <2>12, StepInv
<1> QED
  BY <1>3, <1>4

(* A device that is given back, or could not be.                           *)
LEMMA RestoreOutputGuard ==
    ASSUME IInv, OneUp, GuardInv, NEW r \in Runs, RestoreOutput(r)
    PROVE  GuardInv'
<1> USE DEF IInv, VisibleInv
<1>1. /\ job[r].pc = "tdAudio" /\ job[r].pc \in WithState /\ job[r].pc \in UnderWay
      /\ job[r].pc \in Flight /\ Onward(job[r].pc, "tdFinish") /\ "tdFinish" \in JobPC
      /\ job[r].pc \notin Early
  BY EndingPlace, PCs DEF RestoreOutput, At, Ending
<1>2. UNCHANGED <<disk, wine, pass>>
  BY DEF RestoreOutput
<1>3. CASE job[r].armed = NoDevice
  BY <1>1, <1>2, <1>3, Still, GoGuard DEF RestoreOutput, Eases
<1>4. CASE job[r].armed # NoDevice
  <2>1. Writes(job[r])
    BY <1>4 DEF Writes
  <2>2. OnDisk(r) /\ pass.pc \notin PassLoaded
    BY <1>1, <2>1, WriterAlone
  <2>3. job[r].armed # BlackHole /\ job[r].armed \in Devices \cup {NoDevice}
        /\ job[r].sess \in State
    BY <1>1, JobFields, InHand DEF GuardInv, JobInv, IdleInv, Unstarted
  <2>4. /\ \/ \E d \in {job[r].armed, Speakers} : mac' = [mac EXCEPT !.output = d]
           \/ UNCHANGED mac
        /\ \/ mac'.output # BlackHole
              /\ job' = [job EXCEPT ![r].pc = "tdAudioSave", ![r].armed = NoDevice,
                                     ![r].sess.audio_restored = TRUE]
           \/ UNCHANGED mac
              /\ job' = [job EXCEPT ![r].pc = "tdAudioSave", ![r].armed = NoDevice]
    BY <1>4, <2>3 DEF RestoreOutput, TypeOK, Macs, BlackHole, Speakers
  <2>5. /\ mac'.dash = mac.dash /\ mac'.forwards = mac.forwards
        /\ mac'.output = BlackHole => mac.output = BlackHole
    BY <2>3, <2>4 DEF TypeOK, Macs, BlackHole, Speakers
  <2>6. \A q \in Runs \ {r} : job'[q] = job[q]
    BY <2>4 DEF TypeOK
  <2>7. /\ job'[r].pc = "tdAudioSave" /\ job'[r].armed = NoDevice
        /\ job'[r].sess.prev = job[r].sess.prev /\ job'[r].sess.fwds = job[r].sess.fwds
        /\ job'[r].sess.forwards_cleared = job[r].sess.forwards_cleared
        /\ mac'.output = BlackHole => job'[r].sess.audio_restored = job[r].sess.audio_restored
        /\ DashboardPending(job'[r].sess) <=> DashboardPending(job[r].sess)
    <3>1. CASE /\ mac'.output # BlackHole
               /\ job' = [job EXCEPT ![r].pc = "tdAudioSave", ![r].armed = NoDevice,
                                      ![r].sess.audio_restored = TRUE]
      <4>1. job'[r] = [job[r] EXCEPT !.pc = "tdAudioSave", !.armed = NoDevice,
                                     !.sess.audio_restored = TRUE]
        BY <3>1 DEF TypeOK
      <4>2. /\ job'[r].pc = "tdAudioSave" /\ job'[r].armed = NoDevice
            /\ job'[r].sess = [job[r].sess EXCEPT !.audio_restored = TRUE]
        BY <4>1, JobFields DEF Job
      <4>3. DashboardPending([job[r].sess EXCEPT !.audio_restored = TRUE])
            <=> DashboardPending(job[r].sess)
        BY <2>3 DEF State, DashboardPending
      <4>4. mac'.output # BlackHole
        BY <3>1
      <4>5. /\ job'[r].sess.prev = job[r].sess.prev /\ job'[r].sess.fwds = job[r].sess.fwds
            /\ job'[r].sess.forwards_cleared = job[r].sess.forwards_cleared
        BY <2>3, <4>2 DEF State
      <4> QED
        BY <4>2, <4>3, <4>4, <4>5
    <3>2. CASE job' = [job EXCEPT ![r].pc = "tdAudioSave", ![r].armed = NoDevice]
      <4>1. job'[r] = [job[r] EXCEPT !.pc = "tdAudioSave", !.armed = NoDevice]
        BY <3>2 DEF TypeOK
      <4> QED
        BY <4>1, JobFields DEF Job
    <3> QED
      BY <2>4, <3>1, <3>2
  <2>8. Eases /\ DiskKept /\ PassLeft
    BY <1>2, <2>5, Still DEF Eases, MacEases
  <2>9. RecordInv' /\ PassInv' /\ Open' \subseteq Open
    BY <2>8, RecordKept, PassKept, OpenEases DEF GuardInv
  <2>10. JobInv(r)'
    <3>1. IdleInv(r)'
      BY <2>7 DEF IdleInv, Early, Unstarted, Undashed, Preparing, Guarding, NoDevice, BlackHole
    <3>2. SessInv(r)'
      BY <1>1, <1>2, <2>2, <2>5, <2>7, <2>9
         DEF GuardInv, JobInv, SessInv, Up, Sound, Early, Unstarted, Preparing, Guarding, AudioPending
    <3>3. KeepInv(r)'
      BY <1>1, <1>2, <2>2, <2>5, <2>7 DEF GuardInv, JobInv, KeepInv, Up, OnDisk
    <3>4. PlaceInv(r)'
      BY <2>7 DEF PlaceInv
    <3> QED
      BY <3>1, <3>2, <3>3, <3>4 DEF JobInv
  <2> QED
    BY <1>1, <1>2, <2>5, <2>6, <2>9, <2>10, StepInv
<1> QED
  BY <1>3, <1>4

(* The last save, before which nothing is forgotten.                       *)
LEMMA FinishRecordGuard ==
    ASSUME IInv, OneUp, GuardInv, NEW r \in Runs, FinishRecord(r)
    PROVE  GuardInv'
<1> USE DEF IInv, VisibleInv
<1>1. /\ job[r].pc = "tdFinish" /\ job[r].pc \in Ending \ {"tdLive"} /\ job[r].pc \in WithState
      /\ job[r].pc \in UnderWay /\ job[r].pc \in Flight /\ job[r].pc \notin Early
      /\ Onward(job[r].pc, "tdLive") /\ "tdLive" \in JobPC /\ "tdClear" \in JobPC
  BY EndingPlace, PCs DEF FinishRecord, At, Ending
<1>2. UNCHANGED <<wine, mac, pass>>
  BY DEF FinishRecord
<1>3. CASE Save(job[r].proc, job[r].sess) /\ Go(r, "tdLive")
  BY <1>1, <1>2, <1>3, TeardownSaves
<1>4. CASE Go(r, "tdLive") /\ UNCHANGED disk
  BY <1>1, <1>2, <1>4, Still, GoGuard DEF Eases
<1>5. CASE /\ ~TeardownPending(job[r].sess) /\ Go(r, "tdClear") /\ UNCHANGED disk
           /\ ~(disk = Absent \/ (Loaded(disk) /\ disk.run # r))
  <2>1. OnDisk(r)
    BY <1>5 DEF OnDisk, Loaded, TypeOK
  <2>2. Moved(r, Stay(job[r], "tdClear"))
    BY <1>1, <1>5, GoMoves
  <2>3. /\ job'[r].pc = "tdClear" /\ job'[r].sess = job[r].sess /\ job'[r].armed = job[r].armed
        /\ \A q \in Runs \ {r} : job'[q] = job[q]
    BY <2>2, StayFields DEF Moved
  <2>4. Eases /\ DiskKept /\ PassLeft
    BY <1>2, <1>5, Still DEF Eases
  <2>5. RecordInv' /\ PassInv' /\ Open' \subseteq Open
    BY <2>4, RecordKept, PassKept, OpenEases DEF GuardInv
  <2>6. JobInv(r)'
    <3>1. IdleInv(r)'
      BY <2>3 DEF GuardInv, JobInv, IdleInv, Early, Unstarted, Undashed, Preparing, Guarding
    <3>2. SessInv(r)'
      BY <1>1, <1>2, <1>5, <2>3, <2>5
         DEF GuardInv, JobInv, SessInv, Up, Early, Unstarted, Preparing, Guarding
    <3>3. KeepInv(r)'
      BY <1>1, <1>2, <1>5, <2>1, <2>3 DEF GuardInv, JobInv, KeepInv, Up, OnDisk
    <3>4. PlaceInv(r)'
      BY <1>5, <2>3 DEF PlaceInv
    <3> QED
      BY <3>1, <3>2, <3>3, <3>4 DEF JobInv
  <2> QED
    BY <1>1, <1>2, <2>3, <2>5, <2>6, StepInv
<1> QED
  BY <1>3, <1>4, <1>5 DEF FinishRecord

(* The record is deleted when nothing of it is pending.                    *)
LEMMA ClearStateGuard ==
    ASSUME IInv, OneUp, GuardInv, NEW r \in Runs, ClearState(r)
    PROVE  GuardInv'
<1> USE DEF IInv, VisibleInv
<1>1. /\ job[r].pc = "tdClear" /\ job[r].pc \in WithState /\ job[r].pc \in Flight
      /\ Onward(job[r].pc, "tdLive") /\ "tdLive" \in JobPC
  BY EndingPlace, PCs DEF ClearState, At, Ending
<1>2. UNCHANGED <<wine, mac, pass>> /\ Go(r, "tdLive")
  BY DEF ClearState
<1>3. CASE UNCHANGED disk
  BY <1>1, <1>2, <1>3, Still, GoGuard DEF Eases
<1>4. CASE disk' = Absent
  <2>1. ~AudioPending(job[r].sess) /\ ~DashboardPending(job[r].sess)
    BY <1>1 DEF GuardInv, JobInv, PlaceInv, TeardownPending
  <2>2. mac.output # BlackHole /\ Open = {} /\ Open' = {} /\ ~Loaded(disk')
    BY <1>1, <1>2, <1>4, <2>1 DEF GuardInv, JobInv, SessInv, Open, Loaded
  <2>3. Moved(r, Stay(job[r], "tdLive"))
    BY <1>1, <1>2, GoMoves
  <2>4. /\ job'[r].pc = "tdLive" /\ job'[r].sess = job[r].sess /\ job'[r].armed = job[r].armed
        /\ \A q \in Runs \ {r} : job'[q] = job[q]
    BY <2>3, StayFields DEF Moved
  <2>5. RecordInv' /\ PassInv'
    BY <1>2, <2>2 DEF GuardInv, RecordInv, PassInv
  <2>6. JobInv(r)'
    <3>1. IdleInv(r)'
      BY <2>4 DEF GuardInv, JobInv, IdleInv, Early, Unstarted, Undashed, Preparing, Guarding
    <3>2. SessInv(r)'
      BY <1>1, <1>2, <2>2, <2>4
         DEF GuardInv, JobInv, SessInv, Up, Early, Unstarted, Preparing, Guarding
    <3>3. KeepInv(r)' /\ PlaceInv(r)'
      BY <2>4 DEF KeepInv, PlaceInv, UnderWay
    <3> QED
      BY <3>1, <3>2, <3>3 DEF JobInv
  <2> QED
    BY <1>1, <1>2, <2>4, <2>5, <2>6, StepInv
<1> QED
  BY <1>3, <1>4 DEF ClearState

(* run() returns: what it still held is undone. *)
LEMMA UnwindGuard ==
    ASSUME IInv, GuardInv, NEW r \in Runs, Unwind(r)
    PROVE  GuardInv'
<1> USE DEF IInv
<1>1. job[r].armed # BlackHole
  BY DEF GuardInv, JobInv, IdleInv, Unstarted
<1>2. MacEases
  BY <1>1 DEF Unwind, MacEases, TypeOK, Macs
<1>3. UNCHANGED <<disk, wine, pass>> /\ Moved(r, Rest(job[r]))
  BY RestMoves DEF Unwind
<1> QED
  BY <1>2, <1>3, RestCalm, Still, StepKept DEF Eases

(* Every step of the teardown.                                             *)
LEMMA TeardownStepGuard ==
    ASSUME IInv, OneUp, GuardInv, NEW r \in Runs, TeardownStep(r)
    PROVE  GuardInv'
<1> USE DEF IInv
<1>1. CASE KillWine(r)
  <2>1. /\ job[r].pc \in WithState /\ Onward(job[r].pc, "tdDash") /\ "tdDash" \in JobPC
        /\ Eases /\ DiskKept /\ PassLeft /\ Go(r, "tdDash")
    BY <1>1, EndingPlace, PCs, Still DEF KillWine, At, Ending, Eases
  <2> QED
    BY <2>1, GoGuard
<1>2. CASE SaveClosed(r)
  <2>1. /\ job[r].pc \in Ending \ {"tdLive"} /\ Writes(job[r]) /\ "tdAudio" \in JobPC
        /\ Go(r, "tdAudio") /\ Save(job[r].proc, job[r].sess) /\ UNCHANGED <<wine, mac, pass>>
    BY <1>2, PCs DEF SaveClosed, At, Ending, Writes
  <2> QED
    BY <2>1, TeardownSaves
<1>3. CASE SaveRestored(r)
  <2>1. /\ job[r].pc \in Ending \ {"tdLive"} /\ Writes(job[r]) /\ "tdFinish" \in JobPC
        /\ Go(r, "tdFinish") /\ Save(job[r].proc, job[r].sess) /\ UNCHANGED <<wine, mac, pass>>
    BY <1>3, PCs DEF SaveRestored, At, Ending, Writes
  <2> QED
    BY <2>1, TeardownSaves
<1>4. CASE LeaveSlot(r)
  <2>1. /\ job[r].pc \in WithState /\ Onward(job[r].pc, "unwind") /\ "unwind" \in JobPC
        /\ Eases /\ DiskKept /\ PassLeft /\ Go(r, "unwind")
    BY <1>4, EndingPlace, PCs, Still DEF LeaveSlot, At, Ending, Eases
  <2> QED
    BY <2>1, GoGuard
<1> QED
  BY <1>1, <1>2, <1>3, <1>4, DetachSaveGuard, CloseDashboardGuard, RestoreOutputGuard,
     FinishRecordGuard, ClearStateGuard, UnwindGuard DEF TeardownStep

(* Every step of a launch.                                                 *)
LEMMA LaunchGuard ==
    ASSUME IInv, OneUp, GuardInv, NEW r \in Runs, LaunchStep(r)
    PROVE  GuardInv'
  BY GateGuard, AbandonGuard, PrepareGuard, RecordForwardGuard, AddForwardGuard, RollbackGuard,
     CancelGuardedGuard, ArmGuard, SwitchGuard, OpenDashboardGuard, SaveDashboardGuard, SpawnGuard,
     PublishLiveGuard, RecordLaunchedGuard, SuperviseGuard, TeardownStepGuard DEF LaunchStep
-----------------------------------------------------------------------------
(* The recovery pass. *)

(* A step that moves only what has no record in it. *)
LEMMA WorldGuard ==
    ASSUME IInv, GuardInv, Eases, DiskKept, PassLeft, UNCHANGED job
    PROVE  GuardInv'
  BY Kept, CalmStill DEF IInv

(* The stop stage before its pass: the bottle is killed, no record         *)
(* touched.                                                                *)
LEMMA BeforeLoadGuard ==
    ASSUME IInv, GuardInv, StopWine \/ StopReap
    PROVE  GuardInv'
<1> USE DEF IInv
<1>1. pass'.pc \in {"reap", "load"} /\ UNCHANGED <<disk, job>>
  BY DEF StopWine, StopReap, PassOn, TypeOK, Pass
<1>2. Eases
  <2>1. CASE StopWine
    BY <2>1, Still DEF StopWine, Eases
  <2>2. CASE StopReap
    <3>1. MacEases
      BY <2>2 DEF StopReap, MacEases, TypeOK, Macs
    <3> QED
      BY <2>2, <3>1, Still DEF StopReap, Eases
  <2> QED
    BY <2>1, <2>2
<1>3. PassLeft /\ DiskKept
  BY <1>1, Still DEF PassLeft, PassLoaded
<1> QED
  BY <1>1, <1>2, <1>3, WorldGuard

(* A pass that ends and leaves the record as it is. *)
LEMMA PassFailsGuard ==
    ASSUME IInv, GuardInv, PassFails, UNCHANGED <<disk, wine, mac>>
    PROVE  GuardInv'
<1> USE DEF IInv
<1>1. Eases /\ DiskKept /\ PassLeft
  BY NoPassIsPass, Still DEF PassFails, EndRecover, RefuseRun, PassLeft, PassLoaded, NoPass, Eases
<1>2. CASE EndRecover
  BY <1>1, <1>2, WorldGuard DEF EndRecover
<1>3. CASE RefuseRun
  <2>1. lock.run \in Runs /\ job' = [job EXCEPT ![lock.run] = Rest(@)]
    BY <1>3 DEF RefuseRun, LockInv
  <2>2. Calm(lock.run) /\ \A q \in Runs \ {lock.run} : job'[q] = job[q]
    BY <2>1, RestMoves, RestCalm
  <2> QED
    BY <1>1, <2>1, <2>2, StepKept
<1> QED
  BY <1>2, <1>3 DEF PassFails

(* A launch goes on with what the pass left, which the record tells.       *)
LEMMA CarriedGuard ==
    ASSUME IInv, OneUp, GuardInv, NEW prev \in Devices \cup {NoDevice}, NEW fwds \in SUBSET Ports,
           CarryOn(prev, fwds), pass.pc # "none", UNCHANGED <<wine, mac>>, RecordInv',
           prev # BlackHole, mac.output = BlackHole => prev # NoDevice, Open = {},
           Loaded(disk') => Up(disk)' \subseteq fwds,
           fwds \cap mac.forwards # {} => Loaded(disk') /\ fwds \cap mac.forwards \subseteq disk'.fwds
    PROVE  GuardInv'
<1> USE DEF IInv, VisibleInv
<1>0. PICK r \in Runs : r = lock.run
  BY DEF CarryOn, LockInv
<1> DEFINE s == NewState(r, lock.proc, prev, fwds)
<1>1. job[r].pc = "pass" /\ job[r].pc \in Flight
  BY <1>0 DEF CarryOn, LockInv, Flight
<1>2. /\ s.prev = prev /\ s.fwds = fwds /\ ~s.forwards_cleared /\ ~s.audio_restored
      /\ ~s.dashboard_closed
  BY DEF NewState
<1> HIDE DEF s
<1>3. /\ job' = [job EXCEPT ![r].pc = "prep", ![r].sess = s] /\ pass' = NoPass
  BY <1>0 DEF CarryOn, s
<1>4. /\ job'[r] = [job[r] EXCEPT !.pc = "prep", !.sess = s]
      /\ \A q \in Runs \ {r} : job'[q] = job[q]
  BY <1>1, <1>3 DEF TypeOK
<1>5. /\ job'[r].pc = "prep" /\ job'[r].sess = s /\ job'[r].armed = job[r].armed
      /\ job'[r].held = job[r].held
  BY <1>1, <1>4, JobFields DEF Job
<1>6. /\ wine[r] = "unborn" /\ r \notin mac.dash /\ job[r].armed # BlackHole /\ ~Writes(job[r])
      /\ ~Writes(job'[r])
  BY <1>1, <1>5 DEF GuardInv, JobInv, IdleInv, Unstarted, Early, Undashed, Writes
<1>7. pass'.pc \notin PassLoaded /\ Open' = {}
  BY <1>3 DEF NoPass, PassLoaded, Open
<1>8. JobInv(r)'
  <2>1. IdleInv(r)'
    BY <1>5, <1>6 DEF IdleInv, Unstarted
  <2>2. SessInv(r)'
    BY <1>2, <1>5, <1>6, <1>7 DEF SessInv, Sound, Up, AudioPending
  <2>3. KeepInv(r)'
    BY <1>2, <1>5, <1>6, <1>7 DEF KeepInv, Up
  <2>4. PlaceInv(r)'
    BY <1>5 DEF PlaceInv
  <2> QED
    BY <2>1, <2>2, <2>3, <2>4 DEF JobInv
<1>9. PassInv'
  BY <1>7 DEF PassInv
<1> QED
  BY <1>1, <1>4, <1>8, <1>9, StepInv

(* No record of a launch under way may be acted on by the one process up.  *)
LEMMA Untouchable ==
    ASSUME IInv, OneUp, NEW r \in Runs, job[r].pc \in UnderWay, pass.pc # "none",
           MayRestore(lock.proc, disk)
    PROVE  disk.run # r
<1> USE DEF IInv, VisibleInv
<1>1. lock.proc \in up
  BY DEF LockInv, TypeOK, Locks
<1>2. job[r].pc \notin {"new", "gate", "unwind", "done"}
  BY DEF UnderWay, WithState, Preparing, Guarding, Running, Ending
<1>3. job[r].proc = lock.proc
  BY <1>1, <1>2 DEF HandInv, OneUp
<1> QED
  BY <1>2, <1>3 DEF InFlightIsVisible, MayRestore, OwnInFlight

(* A pass over the record of an open dashboard is a full one.              *)
LEMMA OpenIsFull ==
    ASSUME TypeOK, RecordInv, NEW x \in Open, NEW p, MayRestore(p, disk)
    PROVE  RestoreMode(Classify(disk, wine)) = "Full"
<1>1. disk.run = x /\ wine[x] \in {"alive", "gone"} /\ disk \in State
  BY DEF RecordInv, OnDisk, Open, TypeOK, Loaded
<1>2. disk.child \in ChildStates
  BY <1>1 DEF State
<1>3. RestoreMode(Classify(disk, wine)) # "None"
  BY DEF MayRestore
<1>4. RestoreMode("Dead") = "Full" /\ RestoreMode("Live") = "None"
      /\ RestoreMode("Unverifiable") = "None"
  BY DEF RestoreMode
<1>5. CASE disk.child = "none"
  <2>1. Classify(disk, wine) = "Dead"
    BY <1>5 DEF Classify, IsSameProcess
  <2> QED
    BY <1>4, <2>1
<1>6. CASE disk.child # "none" /\ wine[x] = "gone"
  <2>1. Classify(disk, wine) = "Dead"
    BY <1>1, <1>6 DEF Classify, IsSameProcess
  <2> QED
    BY <1>4, <2>1
<1>7. CASE disk.child = "exact" /\ wine[x] = "alive"
  <2>1. Classify(disk, wine) = "Live"
    BY <1>1, <1>7 DEF Classify, IsSameProcess
  <2> QED
    BY <1>3, <1>4, <2>1
<1>8. CASE disk.child = "unobserved" /\ wine[x] = "alive"
  <2>1. Classify(disk, wine) = "Unverifiable"
    BY <1>1, <1>8 DEF Classify, IsSameProcess
  <2> QED
    BY <1>3, <1>4, <2>1
<1> QED
  BY <1>1, <1>2, <1>5, <1>6, <1>7, <1>8 DEF ChildStates

(* A pass that moves only itself and what it gives back. *)
LEMMA PassMoves ==
    ASSUME TypeOK, GuardInv, MacEases, PassInv', UNCHANGED <<disk, wine, job>>,
           pass'.pc \in PassLoaded,
           \A r \in Runs : job[r].pc \in WithState => Up(pass.st)' \subseteq job[r].sess.fwds,
           \A r \in Runs : job[r].pc \in UnderWay => pass'.st.run # r /\ ~OnDisk(r)
    PROVE  GuardInv'
<1>1. Eases /\ DiskKept
  BY Still DEF Eases
<1>2. RecordInv' /\ Open' \subseteq Open
  BY <1>1, RecordKept, OpenEases DEF GuardInv
<1>3. ASSUME NEW r \in Runs
      PROVE  JobInv(r)'
  <2>1. IdleInv(r)'
    BY DEF GuardInv, JobInv, IdleInv, MacEases
  <2>2. SessInv(r)'
    BY <1>2 DEF GuardInv, JobInv, SessInv, MacEases, Up
  <2>3. KeepInv(r)'
    BY DEF GuardInv, JobInv, KeepInv, MacEases, Up, OnDisk
  <2>4. PlaceInv(r)'
    <3>1. NextPort(r)' = NextPort(r)
      BY DEF NextPort
    <3> QED
      BY <3>1 DEF GuardInv, JobInv, PlaceInv, MacEases, OnDisk
  <2> QED
    BY <2>1, <2>2, <2>3, <2>4 DEF JobInv
<1> QED
  BY <1>2, <1>3 DEF GuardInv

(* A pass loads the record whole, or ends without one.                     *)
LEMMA LoadGuard ==
    ASSUME IInv, OneUp, GuardInv, Load
    PROVE  GuardInv'
<1> USE DEF IInv
<1>1. pass.pc = "load" /\ UNCHANGED <<disk, wine, mac>>
  BY DEF Load
<1>2. CASE /\ Loaded(disk) /\ MayRestore(lock.proc, disk) /\ UNCHANGED job
           /\ pass' = [pc |-> "audio", st |-> disk, mode |-> RestoreMode(Classify(disk, wine)),
                       todo |-> disk.fwds]
  <2>1. /\ pass'.pc = "audio" /\ pass'.pc \in PassLoaded /\ pass'.st = disk
        /\ pass'.mode = RestoreMode(Classify(disk, wine))
    BY <1>2 DEF PassLoaded
  <2>2. PassInv'
    BY <1>1, <1>2, <2>1, OpenIsFull DEF GuardInv, RecordInv, PassInv, OnDisk, Open, Up
  <2>3. ASSUME NEW r \in Runs, job[r].pc \in WithState
        PROVE  Up(pass.st)' \subseteq job[r].sess.fwds
    BY <1>1, <1>2, <2>1, <2>3 DEF GuardInv, JobInv, SessInv, Up
  <2>4. ASSUME NEW r \in Runs, job[r].pc \in UnderWay
        PROVE  pass'.st.run # r /\ ~OnDisk(r)
    BY <1>1, <1>2, <2>1, <2>4, Untouchable DEF OnDisk
  <2> QED
    BY <1>1, <1>2, <2>1, <2>2, <2>3, <2>4, Still, PassMoves
<1>3. CASE PassFails
  BY <1>1, <1>3, PassFailsGuard
<1>4. CASE ~Loaded(disk) /\ CarryOn(NoDevice, {})
  <2>1. RecordInv'
    BY <1>1 DEF GuardInv, RecordInv, Open, OnDisk
  <2>2. mac.output # BlackHole /\ Open = {} /\ NoDevice # BlackHole
    BY <1>4 DEF GuardInv, RecordInv, OnDisk, NoDevice, BlackHole
  <2> QED
    BY <1>1, <1>4, <2>1, <2>2, CarriedGuard
<1> QED
  BY <1>2, <1>3, <1>4 DEF Load, PassFails

(* What a pass has loaded. *)
LEMMA PassHas ==
    ASSUME IInv, GuardInv, pass.pc \in PassLoaded
    PROVE  /\ pass.st \in State /\ Sound(pass.st)
           /\ mac.output = BlackHole => AudioPending(pass.st)
           /\ Loaded(disk) => Up(disk) \subseteq pass.st.fwds
           /\ \A x \in Open : /\ pass.st.run = x /\ DashboardPending(pass.st)
                              /\ pass.mode = "Full" /\ pass.pc \in {"audio", "audioSave", "dash"}
           /\ \A r \in Runs : /\ job[r].pc \in WithState => Up(pass.st) \subseteq job[r].sess.fwds
                              /\ job[r].pc \in UnderWay => pass.st.run # r /\ ~OnDisk(r)
  BY DEF IInv, HandInv, GuardInv, PassInv, JobInv, SessInv, KeepInv

(* A pass that goes on to its next step.                                   *)
LEMMA PassOnGuard ==
    ASSUME IInv, GuardInv, pass.pc \in PassLoaded, NEW pc \in PassLoaded, PassOn(pc),
           UNCHANGED <<disk, wine, mac, job>>,
           Open # {} => pc \in {"audio", "audioSave", "dash"}
    PROVE  GuardInv'
<1> USE DEF IInv
<1>1. pass'.pc = pc /\ pass'.st = pass.st /\ pass'.mode = pass.mode
  BY DEF PassOn, TypeOK, Pass
<1>2. PassInv'
  BY <1>1, PassHas DEF PassInv, Up, Open
<1>3. \A r \in Runs : job[r].pc \in WithState => Up(pass.st)' \subseteq job[r].sess.fwds
  BY <1>1, PassHas DEF Up
<1>4. \A r \in Runs : job[r].pc \in UnderWay => pass'.st.run # r /\ ~OnDisk(r)
  BY <1>1, PassHas
<1> QED
  BY <1>1, <1>2, <1>3, <1>4, Still, PassMoves

(* The output is given back and the record in hand says so, or it is not.  *)
LEMMA RestoreAudioGuard ==
    ASSUME IInv, GuardInv, RestoreAudio
    PROVE  GuardInv'
<1> USE DEF IInv
<1>1. pass.pc = "audio" /\ pass.pc \in PassLoaded /\ UNCHANGED <<disk, wine, job>>
  BY DEF RestoreAudio, PassLoaded
<1>2. CASE PassOn("dash") /\ UNCHANGED mac
  <2>1. "dash" \in PassLoaded
    BY DEF PassLoaded
  <2> QED
    BY <1>1, <1>2, <2>1, PassOnGuard
<1>3. CASE /\ pass' = [pass EXCEPT !.pc = "audioSave", !.st.audio_restored = TRUE]
           /\ IF mac.output = BlackHole
              THEN \E d \in {pass.st.prev, Speakers} : mac' = [mac EXCEPT !.output = d]
              ELSE UNCHANGED mac
  <2>1. pass.st \in State /\ Sound(pass.st)
    BY <1>1, PassHas
  <2>2. mac'.output # BlackHole /\ mac'.dash = mac.dash /\ mac'.forwards = mac.forwards
    BY <1>3, <2>1 DEF Sound, TypeOK, Macs, BlackHole, Speakers
  <2>3. /\ pass'.pc = "audioSave" /\ pass'.pc \in PassLoaded /\ pass'.mode = pass.mode
        /\ pass'.st = [pass.st EXCEPT !.audio_restored = TRUE]
    BY <1>3 DEF TypeOK, Pass, PassLoaded
  <2>4. /\ pass'.st.prev = pass.st.prev /\ pass'.st.fwds = pass.st.fwds
        /\ pass'.st.forwards_cleared = pass.st.forwards_cleared /\ pass'.st.run = pass.st.run
        /\ DashboardPending(pass'.st) <=> DashboardPending(pass.st)
    BY <2>1, <2>3 DEF State, DashboardPending
  <2>5. MacEases /\ Open' = Open
    BY <1>1, <2>2 DEF MacEases, Open
  <2>6. PassInv'
    BY <1>1, <2>1, <2>2, <2>3, <2>4, <2>5, PassHas DEF PassInv, Sound, Up
  <2>7. \A r \in Runs : job[r].pc \in WithState => Up(pass.st)' \subseteq job[r].sess.fwds
    BY <1>1, <2>2, <2>4, PassHas DEF Up
  <2>8. \A r \in Runs : job[r].pc \in UnderWay => pass'.st.run # r /\ ~OnDisk(r)
    BY <1>1, <2>4, PassHas
  <2> QED
    BY <1>1, <2>3, <2>5, <2>6, <2>7, <2>8, PassMoves
<1> QED
  BY <1>2, <1>3 DEF RestoreAudio

(* So with the dashboard.                                                  *)
LEMMA RestoreDashboardGuard ==
    ASSUME IInv, GuardInv, RestoreDashboard
    PROVE  GuardInv'
<1> USE DEF IInv
<1>1. pass.pc = "dash" /\ pass.pc \in PassLoaded /\ UNCHANGED <<disk, wine, job>>
  BY DEF RestoreDashboard, PassLoaded
<1>2. CASE /\ pass.mode # "Full" \/ ~DashboardPending(pass.st)
           /\ PassOn("fwd") /\ UNCHANGED mac
  <2>1. "fwd" \in PassLoaded
    BY DEF PassLoaded
  <2>2. Open = {}
    BY <1>1, <1>2, PassHas
  <2> QED
    BY <1>1, <1>2, <2>1, <2>2, PassOnGuard
<1>3. CASE /\ mac' = [mac EXCEPT !.dash = @ \ {pass.st.run}]
           /\ pass' = [pass EXCEPT !.pc = "dashSave", !.st.dashboard_closed = TRUE]
  <2>1. pass.st \in State /\ Sound(pass.st)
    BY <1>1, PassHas
  <2>2. /\ mac'.output = mac.output /\ mac'.forwards = mac.forwards
        /\ mac'.dash = mac.dash \ {pass.st.run}
    BY <1>3 DEF TypeOK, Macs
  <2>3. /\ pass'.pc = "dashSave" /\ pass'.pc \in PassLoaded
        /\ pass'.st = [pass.st EXCEPT !.dashboard_closed = TRUE]
    BY <1>3 DEF TypeOK, Pass, PassLoaded
  <2>4. /\ pass'.st.prev = pass.st.prev /\ pass'.st.fwds = pass.st.fwds
        /\ pass'.st.forwards_cleared = pass.st.forwards_cleared /\ pass'.st.run = pass.st.run
        /\ AudioPending(pass'.st) <=> AudioPending(pass.st)
    BY <2>1, <2>3 DEF State, AudioPending
  <2>5. MacEases /\ Open' = {}
    BY <1>1, <2>2, PassHas DEF MacEases, Open
  <2>6. PassInv'
    BY <1>1, <2>1, <2>2, <2>3, <2>4, <2>5, PassHas DEF PassInv, Sound, Up
  <2>7. \A r \in Runs : job[r].pc \in WithState => Up(pass.st)' \subseteq job[r].sess.fwds
    BY <1>1, <2>2, <2>4, PassHas DEF Up
  <2>8. \A r \in Runs : job[r].pc \in UnderWay => pass'.st.run # r /\ ~OnDisk(r)
    BY <1>1, <2>4, PassHas
  <2> QED
    BY <1>1, <2>3, <2>5, <2>6, <2>7, <2>8, PassMoves
<1> QED
  BY <1>2, <1>3 DEF RestoreDashboard

(* What adb lists is what is to be removed.                                *)
LEMMA RestoreForwardsGuard ==
    ASSUME IInv, GuardInv, RestoreForwards
    PROVE  GuardInv'
<1>1. /\ pass.pc = "fwd" /\ pass.pc \in PassLoaded /\ UNCHANGED <<disk, wine, mac, job>>
      /\ PassOn("finish") \/ PassOn("fwdLoop")
      /\ "finish" \in PassLoaded /\ "fwdLoop" \in PassLoaded
  BY DEF RestoreForwards, PassLoaded
<1>2. Open = {}
  BY <1>1, PassHas
<1> QED
  BY <1>1, <1>2, PassOnGuard

(* A forward leaves the record in hand only once it is down.               *)
LEMMA RemoveForwardGuard ==
    ASSUME IInv, GuardInv, RemoveForward
    PROVE  GuardInv'
<1> USE DEF IInv
<1>1. pass.pc = "fwdLoop" /\ pass.pc \in PassLoaded /\ UNCHANGED <<disk, wine, job>>
  BY DEF RemoveForward, PassLoaded
<1>2. pass.st \in State /\ Sound(pass.st) /\ Open = {}
  BY <1>1, PassHas
(* What is left of the forwards on the record. *)
<1>3. ASSUME NEW f, mac'.output = mac.output, mac'.dash = mac.dash, f \subseteq pass.st.fwds,
             mac'.forwards \subseteq mac.forwards, mac'.forwards \cap pass.st.fwds \subseteq f,
             pass'.pc \in PassLoaded, pass'.st.fwds = f,
             pass'.st.forwards_cleared => f = {}, pass'.st.prev = pass.st.prev,
             pass'.st.run = pass.st.run, AudioPending(pass'.st) <=> AudioPending(pass.st)
      PROVE  GuardInv'
  <2>1. MacEases /\ Open' = {}
    BY <1>1, <1>2, <1>3 DEF MacEases, Open
  <2>2. PassInv'
    BY <1>1, <1>2, <1>3, <2>1, PassHas DEF PassInv, Sound, Up
  <2>3. \A r \in Runs : job[r].pc \in WithState => Up(pass.st)' \subseteq job[r].sess.fwds
    BY <1>1, <1>3, PassHas DEF Up
  <2>4. \A r \in Runs : job[r].pc \in UnderWay => pass'.st.run # r /\ ~OnDisk(r)
    BY <1>1, <1>3, PassHas
  <2> QED
    BY <1>1, <1>3, <2>1, <2>2, <2>3, <2>4, PassMoves
<1>4. CASE \E q \in pass.todo :
              /\ mac' = [mac EXCEPT !.forwards = @ \ {q}]
              /\ pass' = [pass EXCEPT !.pc = "fwdSave", !.st.fwds = @ \ {q}, !.todo = @ \ {q}]
  <2>1. PICK q \in pass.todo :
              /\ mac' = [mac EXCEPT !.forwards = @ \ {q}]
              /\ pass' = [pass EXCEPT !.pc = "fwdSave", !.st.fwds = @ \ {q}, !.todo = @ \ {q}]
    BY <1>4
  <2>2. /\ mac'.output = mac.output /\ mac'.dash = mac.dash
        /\ mac'.forwards = mac.forwards \ {q}
    BY <2>1 DEF TypeOK, Macs
  <2>3. /\ pass'.pc \in PassLoaded /\ pass'.st = [pass.st EXCEPT !.fwds = @ \ {q}]
    BY <2>1 DEF TypeOK, Pass, PassLoaded
  <2>4. pass.st.fwds \ {q} \in SUBSET Ports
    BY <1>2 DEF State
  <2>5. /\ pass'.st.fwds = pass.st.fwds \ {q} /\ pass'.st.prev = pass.st.prev
        /\ pass'.st.forwards_cleared = pass.st.forwards_cleared /\ pass'.st.run = pass.st.run
        /\ AudioPending(pass'.st) <=> AudioPending(pass.st)
    BY <1>2, <2>3, <2>4, ForwardNoted
  <2> QED
    BY <1>2, <1>3, <2>2, <2>3, <2>5 DEF Sound
<1>5. CASE (\E q \in pass.todo : pass' = [pass EXCEPT !.todo = @ \ {q}]) /\ UNCHANGED mac
  <2>1. pass'.pc = pass.pc /\ pass'.st = pass.st
    BY <1>5 DEF TypeOK, Pass
  <2> QED
    BY <1>1, <1>2, <1>3, <1>5, <2>1 DEF Sound
<1>6. CASE /\ pass' = [pass EXCEPT !.pc = "lastSave", !.st.forwards_cleared = (pass.st.fwds = {})]
           /\ UNCHANGED mac
  <2>1. /\ pass'.pc \in PassLoaded
        /\ pass'.st = [pass.st EXCEPT !.forwards_cleared = (pass.st.fwds = {})]
    BY <1>6 DEF TypeOK, Pass, PassLoaded
  <2>2. /\ pass'.st.fwds = pass.st.fwds /\ pass'.st.prev = pass.st.prev
        /\ pass'.st.forwards_cleared = (pass.st.fwds = {}) /\ pass'.st.run = pass.st.run
        /\ AudioPending(pass'.st) <=> AudioPending(pass.st)
    BY <1>2, <2>1 DEF State, AudioPending
  <2> QED
    BY <1>2, <1>3, <1>6, <2>1, <2>2
<1> QED
  BY <1>4, <1>5, <1>6 DEF RemoveForward

(* The record a pass wrote, or took away, under a launch that goes on with *)
(* its own.                                                                *)
LEMMA PassStays ==
    ASSUME IInv, GuardInv, NEW r \in Runs, pass.pc \in PassLoaded, job'[r] = job[r],
           UNCHANGED <<wine, mac>>,
           disk' = pass.st \/ (disk' = Absent /\ pass.st.fwds = {}),
           pass'.pc \in PassLoaded => pass'.st = pass.st
    PROVE  JobInv(r)'
<1> USE DEF IInv
<1>1. pass.st \in State /\ Loaded(pass.st) /\ ~Loaded(Absent)
  BY PassHas DEF Loaded
<1>2. job[r].pc \notin {"wiredAdd", "switch", "spawn"}
  <2>1. job[r].pc \notin HoldsLock \ {"pass"}
    BY LockedPass
  <2> QED
    BY <2>1 DEF HoldsLock, Preparing, Guarding
<1>3. IdleInv(r)'
  BY DEF GuardInv, JobInv, IdleInv
<1>4. SessInv(r)'
  BY <1>1, PassHas DEF GuardInv, JobInv, SessInv, Up, Open
<1>5. KeepInv(r)'
  <2> SUFFICES ASSUME job[r].pc \in UnderWay
               PROVE  /\ Up(job[r].sess) # {} => Loaded(disk') /\ Up(job[r].sess) \subseteq disk'.fwds
                      /\ pass'.pc \in PassLoaded => ~OnDisk(r)' /\ pass.st.run # r
                      /\ Writes(job[r]) => OnDisk(r)'
    BY DEF KeepInv, Up
  <2>1. Up(job[r].sess) \subseteq pass.st.fwds
    BY PassHas DEF GuardInv, JobInv, KeepInv, Up
  <2>2. pass.st.run # r /\ ~OnDisk(r) /\ ~Writes(job[r])
    BY PassHas DEF GuardInv, JobInv, KeepInv
  <2> QED
    BY <1>1, <2>1, <2>2 DEF OnDisk
<1>6. PlaceInv(r)'
  BY <1>2 DEF GuardInv, JobInv, PlaceInv
<1> QED
  BY <1>3, <1>4, <1>5, <1>6 DEF JobInv

(* What a pass has undone is saved, or not: both tell what is left.        *)
LEMMA SaveProgressGuard ==
    ASSUME IInv, GuardInv, SaveProgress
    PROVE  GuardInv'
<1> USE DEF IInv
<1>1. /\ pass.pc \in {"audioSave", "dashSave", "fwdSave", "lastSave"} /\ pass.pc \in PassLoaded
      /\ AfterSave[pass.pc] \in PassLoaded /\ (AfterSave[pass.pc] # "dash" => pass.pc # "audioSave")
      /\ UNCHANGED <<wine, mac>>
  BY DEF SaveProgress, AfterSave, PassLoaded
<1>2. CASE SaveErr(lock.proc, pass.st) /\ PassFails
  BY <1>1, <1>2, PassFailsGuard DEF SaveErr
<1>3. CASE SaveOk(lock.proc, pass.st) /\ PassOn(AfterSave[pass.pc]) /\ UNCHANGED job
  <2>1. disk' = pass.st /\ Loaded(disk')
    BY <1>1, <1>3, PassHas DEF SaveOk, Loaded
  <2>2. pass'.pc = AfterSave[pass.pc] /\ pass'.st = pass.st /\ pass'.mode = pass.mode
    BY <1>3 DEF PassOn, TypeOK, Pass
  <2>3. RecordInv'
    BY <1>1, <2>1, PassHas DEF RecordInv, Open, OnDisk
  <2>4. PassInv'
    BY <1>1, <2>1, <2>2, PassHas DEF PassInv, Open, Up
  <2>5. ASSUME NEW r \in Runs
        PROVE  JobInv(r)'
    BY <1>1, <1>3, <2>1, <2>2, PassStays
  <2> QED
    BY <2>3, <2>4, <2>5 DEF GuardInv
<1> QED
  BY <1>2, <1>3 DEF SaveProgress

(* The record goes when all of it is undone; else it stays with the rest.  *)
LEMMA FinishPassGuard ==
    ASSUME IInv, OneUp, GuardInv, FinishPass
    PROVE  GuardInv'
<1> USE DEF IInv
<1> DEFINE s == pass.st
           prev == IF s.audio_restored THEN NoDevice ELSE s.prev
           fwds == IF s.forwards_cleared THEN {} ELSE s.fwds
<1>1. pass.pc = "finish" /\ pass.pc \in PassLoaded /\ UNCHANGED <<wine, mac>>
  BY DEF FinishPass, PassLoaded
<1>2. /\ s \in State /\ Sound(s) /\ Open = {} /\ Loaded(s)
      /\ mac.output = BlackHole => AudioPending(s)
      /\ Loaded(disk) => Up(disk) \subseteq s.fwds
  BY <1>1, PassHas DEF Loaded
<1>3. fwds = s.fwds /\ fwds \in SUBSET Ports /\ prev \in Devices \cup {NoDevice}
      /\ prev # BlackHole /\ (AudioPending(s) => prev # NoDevice)
  BY <1>2 DEF Sound, State, AudioPending, NoDevice, BlackHole
<1>4. CarryForward(s) => CarryOn(prev, fwds)
  BY DEF CarryForward
<1> HIDE DEF prev, fwds
(* A record the pass is done with owes the Mac nothing any more.           *)
<1>5. RestoreComplete(s, pass.mode) => mac.output # BlackHole /\ s.fwds = {}
  BY <1>2 DEF RestoreComplete, HasPendingGuards, AudioPending, ForwardsPending, Sound
<1>6. ASSUME disk' = s \/ (disk' = Absent /\ RestoreComplete(s, pass.mode)),
             EndRecover \/ CarryForward(s)
      PROVE  GuardInv'
  <2>1. RecordInv'
    BY <1>1, <1>2, <1>5, <1>6 DEF RecordInv, Loaded, Open
  <2>2. CASE EndRecover
    <3>1. pass' = NoPass /\ UNCHANGED job /\ pass'.pc \notin PassLoaded
      BY <2>2, NoPassIsPass DEF EndRecover
    <3>2. ASSUME NEW r \in Runs
          PROVE  JobInv(r)'
      BY <1>1, <1>5, <1>6, <3>1, PassStays
    <3> QED
      BY <2>1, <3>1, <3>2 DEF GuardInv, PassInv
  <2>3. CASE CarryForward(s)
    <3>1. Loaded(disk') => Up(disk)' \subseteq fwds
      BY <1>3, <1>6 DEF Up, Loaded
    <3>2. fwds \cap mac.forwards # {} => Loaded(disk') /\ fwds \cap mac.forwards \subseteq disk'.fwds
      BY <1>2, <1>3, <1>5, <1>6
    <3>3. pass.pc # "none" /\ CarryOn(prev, fwds)
      BY <1>1, <1>4, <2>3
    <3> QED
      BY <1>1, <1>2, <1>3, <2>1, <3>1, <3>2, <3>3, CarriedGuard
  <2> QED
    BY <1>6, <2>2, <2>3
<1>7. ASSUME UNCHANGED disk, RestoreComplete(s, pass.mode), CarryForward(s)
      PROVE  GuardInv'
  <2>1. RecordInv'
    BY <1>1, <1>7 DEF GuardInv, RecordInv, Open, OnDisk
  <2>2. Loaded(disk') => Up(disk)' \subseteq fwds
    BY <1>1, <1>2, <1>3, <1>7 DEF Up
  <2>3. fwds \cap mac.forwards = {} /\ mac.output # BlackHole
    BY <1>3, <1>5, <1>7
  <2>4. pass.pc # "none" /\ CarryOn(prev, fwds)
    BY <1>1, <1>4, <1>7
  <2> QED
    BY <1>1, <1>2, <1>3, <2>1, <2>2, <2>3, <2>4, CarriedGuard
<1>8. ASSUME UNCHANGED disk, PassFails
      PROVE  GuardInv'
  BY <1>1, <1>8, PassFailsGuard
<1> QED
  BY <1>6, <1>7, <1>8 DEF FinishPass, SaveOk, SaveErr, PassFails

(* Every step of a pass, and a Cancel of it.                               *)
LEMMA PassGuard ==
    ASSUME IInv, OneUp, GuardInv, PassStep \/ CancelPass
    PROVE  GuardInv'
  BY BeforeLoadGuard, LoadGuard, RestoreAudioGuard, RestoreDashboardGuard, RestoreForwardsGuard,
     RemoveForwardGuard, SaveProgressGuard, FinishPassGuard, PassFailsGuard
     DEF PassStep, CancelPass
-----------------------------------------------------------------------------
(* The front-ends, the games and the user. *)
LEMMA EndsGuard ==
    ASSUME IInv, GuardInv, NEW p \in Procs, Ends(p)
    PROVE  GuardInv'
<1> USE DEF IInv
<1>1. Eases /\ DiskKept
  BY Still DEF Ends, Eases
<1>2. PassLeft
  BY NoPassIsPass DEF Ends, PassLeft, PassLoaded, NoPass
<1>3. ASSUME NEW r \in Runs
      PROVE  Calm(r)
  <2>1. CASE job[r].proc = p
    <3>1. job'[r] = [NoJob EXCEPT !.pc = "done"]
      BY <2>1 DEF Ends
    <3>2. job'[r].pc = "done" /\ job'[r].armed = NoDevice
      BY <3>1 DEF NoJob
    <3>3. "done" \notin Unstarted \cup Early \cup WithState \cup UnderWay
      BY DEF Early, Unstarted, UnderWay, WithState, Preparing, Guarding, Running, Ending
    <3> QED
      BY <3>2, <3>3 DEF Calm, Undashed
  <2>2. CASE job[r].proc # p
    BY <2>2, EndsJobs, CalmStill
  <2> QED
    BY <2>1, <2>2
<1> QED
  BY <1>1, <1>2, <1>3, Kept

(* Front-ends that come and go, and the passes they start.                 *)
LEMMA ProcessGuard ==
    ASSUME IInv, GuardInv, NEW p \in Procs,
           Boot(p) \/ Quit(p) \/ Crash(p) \/ StartReconcile(p) \/ StartStop(p)
    PROVE  GuardInv'
<1> USE DEF IInv
<1>1. CASE Boot(p)
  BY <1>1, Still, WorldGuard DEF Boot, Eases
<1>2. CASE StartReconcile(p) \/ StartStop(p)
  <2>1. /\ UNCHANGED <<disk, wine, mac, job>> /\ pass'.pc \in {"load", "kill"}
    BY <1>2 DEF StartReconcile, StartStop, NoPass
  <2>2. PassLeft
    BY <2>1 DEF PassLeft, PassLoaded
  <2> QED
    BY <2>1, <2>2, Still, WorldGuard DEF Eases
<1> QED
  BY <1>1, <1>2, EndsGuard DEF Quit, Crash

(* A launch that begins has nothing yet.                                   *)
LEMMA BeginGuard ==
    ASSUME IInv, GuardInv, NEW r \in Runs, NEW p \in Procs, Begin(r, p)
    PROVE  GuardInv'
<1> USE DEF IInv
<1>1. /\ job'[r] = [job[r] EXCEPT !.pc = "gate", !.proc = p]
      /\ \A q \in Runs \ {r} : job'[q] = job[q]
      /\ job[r].pc = "new" /\ UNCHANGED <<disk, wine, mac, pass>>
  BY DEF Begin, TypeOK
<1>2. /\ job'[r].pc = "gate" /\ job'[r].armed = job[r].armed /\ job'[r].held = job[r].held
      /\ job'[r].sess = job[r].sess
  BY <1>1, JobFields DEF Job
<1>3. /\ {"new", "gate"} \subseteq Unstarted /\ {"new", "gate"} \subseteq Early
      /\ {"new", "gate"} \subseteq Undashed /\ "gate" \notin WithState \cup UnderWay
  BY DEF Early, Unstarted, Undashed, UnderWay, WithState, Preparing, Guarding, Running, Ending
<1>4. Calm(r)
  BY <1>1, <1>2, <1>3 DEF Calm, Writes
<1> QED
  BY <1>1, <1>4, Still, StepKept DEF Eases

(* A game that exits, a pid that comes back as another process.            *)
LEMMA GameGuard ==
    ASSUME IInv, GuardInv, NEW r \in Runs, WineExits(r) \/ PidReused(r)
    PROVE  GuardInv'
<1> USE DEF IInv
<1>1. UNCHANGED <<disk, mac, pass, job>>
  BY DEF WineExits, PidReused
<1>2. WineEases
  BY DEF WineExits, PidReused, WineEases, TypeOK
<1> QED
  BY <1>1, <1>2, Still, WorldGuard DEF Eases

(* A launch that is asked something keeps what it has.                     *)
LEMMA AskedCalm ==
    ASSUME TypeOK, NEW r \in Runs, Asked(r)
    PROVE  Calm(r) /\ \A q \in Runs \ {r} : job'[q] = job[q]
<1>1. PICK k \in Job :
         /\ Moved(r, k) /\ k.pc = job[r].pc
         /\ k.pc # "done" => /\ k.sess = job[r].sess /\ k.armed = job[r].armed
                             /\ k.carried = job[r].carried /\ k.held = job[r].held
                             /\ k.todo = job[r].todo
         /\ k.pc = "done" => k.armed \in {NoDevice, job[r].armed}
  BY DEF Asked
<1>2. job'[r] = k /\ \A q \in Runs \ {r} : job'[q] = job[q]
  BY <1>1 DEF Moved
<1>3. CASE k.pc = "done"
  <2>1. "done" \notin Unstarted \cup Early \cup WithState \cup UnderWay
    BY DEF Early, Unstarted, UnderWay, WithState, Preparing, Guarding, Running, Ending
  <2> QED
    BY <1>1, <1>2, <1>3, <2>1 DEF Calm, Undashed
<1>4. CASE k.pc # "done"
  BY <1>1, <1>2, <1>4 DEF Calm, Like, Writes, Undashed, UnderWay
<1> QED
  BY <1>2, <1>3, <1>4

(* Cancel, Stop and Detach; mark_detached writes the flag and no other.    *)
LEMMA RequestGuard ==
    ASSUME IInv, GuardInv, NEW r \in Runs, Request(r)
    PROVE  GuardInv'
<1> USE DEF IInv
<1>1. Calm(r) /\ \A q \in Runs \ {r} : job'[q] = job[q]
  BY RequestIsAsked, AskedCalm
<1>2. UNCHANGED <<wine, mac, pass>>
  BY DEF Request, RequestCancel, RequestStop, StopAnswered, RequestDetach, SettleDetach
<1>3. DiskKept
  <2>1. CASE SettleDetach(r)
    <3>1. CASE disk' = disk
      BY <3>1, Still
    <3>2. CASE Loaded(disk) /\ disk' = [disk EXCEPT !.detached = TRUE]
      <4>1. disk \in State
        BY <3>2 DEF Loaded, TypeOK
      <4>2. disk' \in State /\ disk'.run = disk.run
        BY <3>2, <4>1 DEF State
      <4> QED
        BY <3>2, <4>1, <4>2, DetachNoted DEF DiskKept, Loaded
    <3> QED
      BY <2>1, <3>1, <3>2 DEF SettleDetach, MayMarkDetached
  <2>2. CASE ~SettleDetach(r)
    BY <2>2, Still DEF Request, RequestCancel, RequestStop, StopAnswered, RequestDetach
  <2> QED
    BY <2>1, <2>2
<1> QED
  BY <1>1, <1>2, <1>3, Still, StepKept DEF Eases

(* Every step of the session.                                              *)
LEMMA NextGuard ==
    ASSUME IInv, OneUp, GuardInv, Next
    PROVE  GuardInv'
  BY ProcessGuard, BeginGuard, LaunchGuard, GameGuard, RequestGuard, PassGuard DEF Next, Request

(* Nothing is taken to begin with.                                         *)
LEMMA InitGuard ==
    ASSUME Init
    PROVE  GuardInv
<1>1. /\ disk = Absent /\ mac = [output |-> Speakers, dash |-> {}, forwards |-> {}]
      /\ wine = [r \in Runs |-> "unborn"] /\ pass = NoPass /\ job = [r \in Runs |-> NoJob]
  BY DEF Init, BaseInit
<1>2. RecordInv /\ PassInv /\ Open = {}
  BY <1>1, NoPassIsPass DEF RecordInv, PassInv, Loaded, Open, BlackHole, Speakers
<1>3. ASSUME NEW r \in Runs
      PROVE  JobInv(r)
  <2>1. job[r].pc = "new" /\ job[r].armed = NoDevice /\ ~job[r].held /\ job[r].sess = Absent /\ wine[r] = "unborn"
    BY <1>1 DEF NoJob
  <2>2. "new" \notin WithState \cup UnderWay
    BY DEF UnderWay, WithState, Preparing, Guarding, Running, Ending
  <2> QED
    BY <1>1, <2>1, <2>2 DEF JobInv, IdleInv, SessInv, KeepInv, PlaceInv, Writes, NoDevice, BlackHole
<1> QED
  BY <1>2, <1>3 DEF GuardInv
-----------------------------------------------------------------------------
(* Who writes the record.  A launch's save loses no forward that stays up. *)
Keeps(s) == Loaded(disk') /\ \A q \in s.fwds : q \in mac'.forwards => q \in disk'.fwds

(* A save that lands keeps what the record it writes keeps.                *)
LEMMA SavedKeeps ==
    ASSUME NEW p, NEW s \in State, NEW t \in State, Save(p, t),
           \A q \in s.fwds : q \in mac'.forwards => q \in t.fwds
    PROVE  UNCHANGED disk \/ Keeps(s)
  BY DEF Save, SaveOk, SaveErr, Keeps, Loaded

(* What a launch leaves of the record on disk.                             *)
LEMMA LaunchSaves ==
    ASSUME TypeOK, HandInv, NEW r \in Runs, LaunchStep(r)
    PROVE  \/ UNCHANGED disk \/ ClearState(r)
           \/ job[r].pc \in WithState /\ Keeps(job[r].sess)
<1> DEFINE s == job[r].sess
<1>1. CASE RecordForward(r)
  <2>1. job[r].pc \in WithState /\ s \in State
    BY <1>1, InHand DEF RecordForward, At, WithState, Preparing
  <2>2. CASE job[r].todo # {}
    <3> DEFINE t == [s EXCEPT !.fwds = @ \cup {NextPort(r)}]
    <3>1. s.fwds \cup {NextPort(r)} \in SUBSET Ports /\ s.fwds \in SUBSET Ports
      BY <2>1, <2>2, JobFields DEF NextPort, State
    <3>2. t \in State /\ t.fwds = s.fwds \cup {NextPort(r)}
      BY <2>1, <3>1, ForwardTyped, ForwardNoted
    <3> HIDE DEF t
    <3>3. UNCHANGED disk \/ Save(job[r].proc, t)
      BY <1>1, <2>2 DEF RecordForward, Save, t
    <3> QED
      BY <2>1, <3>2, <3>3, SavedKeeps
  <2> QED
    BY <1>1, <2>2 DEF RecordForward
<1>2. CASE Rollback(r)
  <2>1. job[r].pc \in WithState /\ s \in State /\ s.fwds \in SUBSET Ports
    BY <1>2, InHand DEF Rollback, At, WithState, Preparing, State
  <2>2. PICK gone \in SUBSET (Ports \cap mac.forwards) :
           /\ mac' = [mac EXCEPT !.forwards = @ \ gone]
           /\ Save(job[r].proc, [s EXCEPT !.fwds = @ \ gone])
    BY <1>2 DEF Rollback
  <2>3. mac'.forwards = mac.forwards \ gone
    BY <2>2 DEF TypeOK, Macs
  <2> DEFINE t == [s EXCEPT !.fwds = @ \ gone]
  <2>4. t \in State /\ t.fwds = s.fwds \ gone
    <3>1. s.fwds \ gone \in SUBSET Ports
      BY <2>1
    <3> QED
      BY <2>1, <3>1, ForwardTyped, ForwardNoted
  <2>5. Save(job[r].proc, t)
    BY <2>2
  <2> HIDE DEF t
  <2> QED
    BY <2>1, <2>3, <2>4, <2>5, SavedKeeps
<1>3. CASE Arm(r)
  <2>1. job[r].pc \in WithState /\ s \in State
    BY <1>3, InHand DEF Arm, At, WithState, Guarding
  <2> DEFINE prev == IF AudioPending(s) THEN s.prev ELSE mac.output
             t == [s EXCEPT !.prev = prev]
  <2>2. t \in State
    BY <1>3, ArmMoves
  <2>3. UNCHANGED disk \/ Save(job[r].proc, t)
    BY <1>3 DEF Arm, Save
  <2> HIDE DEF prev
  <2>4. t.fwds = s.fwds
    BY <2>1, DeviceNoted
  <2> HIDE DEF t
  <2> QED
    BY <2>1, <2>2, <2>3, <2>4, SavedKeeps
<1>4. CASE Switch(r)
  <2>1. job[r].pc \in WithState /\ s \in State
    BY <1>4, InHand DEF Switch, At, WithState, Guarding
  <2> DEFINE t == [s EXCEPT !.prev = NoDevice]
  <2>2. t \in State /\ t.fwds = s.fwds
    BY <1>4, <2>1, SwitchMoves, DeviceNoted
  <2>3. UNCHANGED disk \/ Save(job[r].proc, t)
    BY <1>4 DEF Switch, Save
  <2> HIDE DEF t
  <2> QED
    BY <2>1, <2>2, <2>3, SavedKeeps
<1>5. CASE \/ SaveDashboard(r) \/ RecordLaunched(r) \/ DetachSave(r) \/ SaveClosed(r)
           \/ SaveRestored(r) \/ FinishRecord(r)
  <2>1. job[r].pc \in WithState
    BY <1>5 DEF SaveDashboard, RecordLaunched, DetachSave, SaveClosed, SaveRestored, FinishRecord,
                At, WithState, Guarding, Running, Ending
  <2>2. s \in State
    BY <2>1, InHand
  <2>3. UNCHANGED disk \/ Save(job[r].proc, s)
    BY <1>5 DEF SaveDashboard, RecordLaunched, DetachSave, SaveClosed, SaveRestored, FinishRecord,
                Save
  <2> QED
    BY <2>1, <2>2, <2>3, SavedKeeps
<1>6. CASE \/ Gate(r) \/ Abandon(r) \/ Hygiene(r) \/ AddForward(r) \/ Reset(r) \/ Prepared(r)
           \/ CancelGuarded(r) \/ OpenDashboard(r) \/ Spawn(r) \/ PublishLive(r) \/ Supervise(r)
           \/ KillWine(r) \/ CloseDashboard(r) \/ RestoreOutput(r) \/ LeaveSlot(r) \/ Unwind(r)
  BY <1>6 DEF Gate, Abandon, Hygiene, AddForward, Reset, Prepared, CancelGuarded, OpenDashboard,
              Spawn, PublishLive, Supervise, KillWine, CloseDashboard, RestoreOutput, LeaveSlot, Unwind
<1> QED
  BY <1>1, <1>2, <1>3, <1>4, <1>5, <1>6 DEF LaunchStep, TeardownStep

(* What a pass leaves of it.                                               *)
LEMMA PassSaves ==
    ASSUME IInv, GuardInv, PassStep \/ CancelPass
    PROVE  \/ UNCHANGED disk
           \/ pass.pc \in PassLoaded /\ Keeps(pass.st)
           \/ pass.pc \in PassLoaded /\ pass.st.fwds = {}
<1>1. CASE SaveProgress
  <2>1. pass.pc \in PassLoaded
    BY <1>1 DEF SaveProgress, AfterSave, PassLoaded
  <2>2. UNCHANGED disk \/ Save(lock.proc, pass.st)
    BY <1>1 DEF SaveProgress, SaveErr, Save
  <2> QED
    BY <2>1, <2>2, PassHas, SavedKeeps
<1>2. CASE FinishPass
  <2>1. pass.pc \in PassLoaded
    BY <1>2 DEF FinishPass, PassLoaded
  <2>2. CASE RestoreComplete(pass.st, pass.mode)
    BY <2>1, <2>2, PassHas
       DEF RestoreComplete, HasPendingGuards, ForwardsPending, Sound
  <2>3. CASE ~RestoreComplete(pass.st, pass.mode)
    <3>1. UNCHANGED disk \/ Save(lock.proc, pass.st)
      BY <1>2, <2>3 DEF FinishPass, SaveErr, Save
    <3> QED
      BY <2>1, <3>1, PassHas, SavedKeeps
  <2> QED
    BY <2>2, <2>3
<1> QED
  BY <1>1, <1>2 DEF PassStep, CancelPass, StopWine, StopReap, Load, RestoreAudio, RestoreDashboard,
                    RestoreForwards, RemoveForward
-----------------------------------------------------------------------------
(* With one front-end the invariants of both modules hold of every         *)
(* behaviour: however the guards of a launch, the teardown and the passes  *)
(* interleave with quits, crashes and requests, each copy of a record      *)
(* keeps what is still to be undone.                                       *)
THEOREM RecordsKeepPace == OneFrontEnd /\ Spec => [](IInv /\ OneUp /\ GuardInv)
<1> SUFFICES ASSUME OneFrontEnd
             PROVE  Spec => [](IInv /\ OneUp /\ GuardInv)
  OBVIOUS
<1>1. Init => IInv /\ OneUp /\ GuardInv
  <2>1. Init => OneUp
    BY DEF Init, BaseInit, OneUp
  <2> QED
    BY <2>1, InitInv, InitGuard
<1>2. IInv /\ OneUp /\ GuardInv /\ [Next]_vars => (IInv /\ OneUp /\ GuardInv)'
  <2> SUFFICES ASSUME IInv, OneUp, GuardInv, [Next]_vars
               PROVE  (IInv /\ OneUp /\ GuardInv)'
    OBVIOUS
  <2>1. CASE Next
    BY <2>1, NextInv, OneUpNext, NextGuard
  <2>2. CASE UNCHANGED vars
    <3>1. IInv' /\ OneUp'
      BY <2>2 DEF vars, IInv, TypeOK, HandInv, LockInv, GameInv, OneGame, GameRunning, VisibleInv,
                  OneFlight, InFlightIsVisible, OneUp
    <3>2. Eases /\ DiskKept /\ PassLeft /\ UNCHANGED job
      BY <2>2, Still DEF vars, Eases, IInv
    <3> QED
      BY <3>1, <3>2, WorldGuard
  <2> QED
    BY <2>1, <2>2
<1> QED
  BY <1>1, <1>2, PTL DEF Spec

(* What a record owes the Mac is a device the user had: Arm (SwitchAudio-  *)
(* Source -c, then the record) never notes BlackHole, and no save, pass or *)
(* teardown puts it there.                                                 *)
THEOREM DevicesAreReal == OneFrontEnd /\ Spec => []RecordedDeviceIsReal
<1>1. TypeOK /\ RecordInv => RecordedDeviceIsReal
  BY DEF TypeOK, RecordInv, Sound, RecordedDeviceIsReal, Loaded, AudioPending, State, Devices
<1> QED
  BY <1>1, RecordsKeepPace, PTL DEF IInv, GuardInv

(* While the Mac plays into BlackHole the record on disk names the real    *)
(* device, through every crash between the switch, the saves, the restore  *)
(* and the deletion: a launch, a teardown or reconcile can put it back.    *)
THEOREM OutputIsRecoverable == OneFrontEnd /\ Spec => []OutputRecoverable
<1>1. TypeOK /\ RecordInv => OutputRecoverable
  BY DEF TypeOK, RecordInv, Sound, OutputRecoverable, Loaded, AudioPending, State, Devices
<1> QED
  BY <1>1, RecordsKeepPace, PTL DEF IInv, GuardInv

(* A dashboard that is open is held by its launch or named on disk, unless *)
(* its game never started or its pid is another process's.                 *)
THEOREM DashboardsAreOnRecord == OneFrontEnd /\ Spec => []DashboardOnRecord
<1>1. TypeOK /\ RecordInv => DashboardOnRecord
  BY DEF TypeOK, Macs, RecordInv, DashboardOnRecord, Open, OnDisk, WineStates
<1> QED
  BY <1>1, RecordsKeepPace, PTL DEF IInv, GuardInv

(* adb reverse --list finds no forward of a launch under way that the      *)
(* record does not name: setup_reverse_ports saves the port before adb     *)
(* adds it.                                                                *)
THEOREM ForwardsRecorded == OneFrontEnd /\ Spec => []ForwardsRecordedFirst
<1>1. GuardInv => ForwardsRecordedFirst
  <2> SUFFICES ASSUME GuardInv,
                      NEW r \in Runs, job[r].pc \in Starting \cup Running, job[r].sess # Absent,
                      NEW q \in Ports, q \in job[r].sess.fwds, q \in mac.forwards
               PROVE  Loaded(disk) /\ q \in disk.fwds
    BY DEF ForwardsRecordedFirst, Running
  <2>1. job[r].pc \notin Unstarted
    BY DEF GuardInv, JobInv, IdleInv
  <2>2. job[r].pc \in UnderWay
    BY <2>1 DEF UnderWay, WithState, Starting, Unstarted, Preparing, Guarding, Running, Ending
  <2>3. q \in Up(job[r].sess)
    BY DEF Up
  <2>4. Up(job[r].sess) # {} => Loaded(disk) /\ Up(job[r].sess) \subseteq disk.fwds
    BY <2>2 DEF GuardInv, JobInv, KeepInv
  <2> QED
    BY <2>3, <2>4
<1> QED
  BY <1>1, RecordsKeepPace, PTL

(* No save drops a forward that stays up: neither a launch's, from the     *)
(* record it has in hand, nor a pass's, from the one it loaded.  Only the  *)
(* teardown of the run on record deletes the record under it.              *)
THEOREM ForwardsAreKept == OneFrontEnd /\ Spec => ForwardsStayOnRecord
<1>1. ASSUME IInv, GuardInv, Next, NEW q \in Ports,
             Loaded(disk), q \in disk.fwds, q \in mac.forwards, q \in mac'.forwards
      PROVE  (Loaded(disk)' /\ q \in disk'.fwds) \/ ClearState(disk.run)
  <2>1. CASE UNCHANGED disk
    BY <1>1, <2>1 DEF Loaded
  <2>2. q \in Up(disk)
    BY <1>1 DEF Up
  <2>3. ASSUME NEW r \in Runs, LaunchStep(r)
        PROVE  (Loaded(disk)' /\ q \in disk'.fwds) \/ ClearState(disk.run)
    <3>1. CASE ClearState(r)
      <4>1. job[r].pc \in UnderWay /\ Writes(job[r])
        BY <3>1 DEF ClearState, At, UnderWay, WithState, Preparing, Guarding, Running, Ending, Writes
      <4>2. OnDisk(r)
        BY <1>1, <4>1 DEF GuardInv, JobInv, KeepInv
      <4> QED
        BY <3>1, <4>2 DEF OnDisk
    <3>2. CASE job[r].pc \in WithState /\ Keeps(job[r].sess)
      <4>1. q \in job[r].sess.fwds
        BY <1>1, <2>2, <3>2 DEF GuardInv, JobInv, SessInv
      <4> QED
        BY <1>1, <3>2, <4>1 DEF Keeps, Loaded
    <3> QED
      BY <1>1, <2>1, <2>3, <3>1, <3>2, LaunchSaves DEF IInv
  <2>4. CASE PassStep \/ CancelPass
    <3>1. CASE pass.pc \in PassLoaded
      <4>1. q \in pass.st.fwds
        BY <1>1, <2>2, <3>1 DEF GuardInv, PassInv
      <4> QED
        BY <1>1, <2>1, <2>4, <4>1, PassSaves DEF Keeps, Loaded
    <3> QED
      BY <1>1, <2>1, <2>4, <3>1, PassSaves
  <2>5. ASSUME NEW r \in Runs, SettleDetach(r)
        PROVE  Loaded(disk)' /\ q \in disk'.fwds
    <3>1. disk \in State
      BY <1>1 DEF IInv, TypeOK, Loaded
    <3>2. disk' \in {disk, [disk EXCEPT !.detached = TRUE]}
      BY <2>5 DEF SettleDetach
    <3>3. [disk EXCEPT !.detached = TRUE] \in State /\ [disk EXCEPT !.detached = TRUE].fwds = disk.fwds
      BY <3>1 DEF State
    <3>4. disk' \in State /\ disk'.fwds = disk.fwds
      BY <3>1, <3>2, <3>3
    <3> QED
      BY <1>1, <3>4, StateAssumption DEF Loaded
  <2>6. CASE \/ \E p \in Procs : Boot(p) \/ Quit(p) \/ Crash(p) \/ StartReconcile(p) \/ StartStop(p)
             \/ \E r \in Runs, p \in Procs : Begin(r, p)
             \/ \E r \in Runs : \/ WineExits(r) \/ PidReused(r) \/ RequestCancel(r)
                                \/ RequestStop(r) \/ StopAnswered(r) \/ RequestDetach(r)
    BY <2>1, <2>6 DEF Boot, Quit, Crash, Ends, StartReconcile, StartStop, Begin, WineExits,
                      PidReused, RequestCancel, RequestStop, StopAnswered, RequestDetach
  <2> QED
    BY <1>1, <2>3, <2>4, <2>5, <2>6 DEF Next
<1> DEFINE StaysOn == \A q \in Ports :
              Loaded(disk) /\ q \in disk.fwds /\ q \in mac.forwards /\ q \in mac'.forwards =>
                 \/ Loaded(disk)' /\ q \in disk'.fwds
                 \/ ClearState(disk.run)
<1>2. IInv /\ GuardInv /\ [Next]_vars => [StaysOn]_vars
  BY <1>1
<1> HIDE DEF StaysOn
<1>3. OneFrontEnd /\ Spec => [][StaysOn]_vars
  BY <1>2, RecordsKeepPace, PTL DEF Spec
<1> QED
  BY <1>3 DEF ForwardsStayOnRecord, StaysOn
-----------------------------------------------------------------------------
(* What a detach leaves running, when no save fails.                       *)

Alive(x) == wine[x] = "alive"

(* A launch whose teardown is the detach, and the games nobody may end:    *)
(* supervised and not asked to stop, or left running by a detach.          *)
Left(j) == j.sess # Absent /\ j.sess.detached

Staying(r) ==
    \/ job[r].pc = "super" /\ ~job[r].cancel
    \/ job[r].pc = "tdDetach"
    \/ Left(job[r]) /\ Alive(r)

SlotInv == \A p \in Procs, r \in Runs : live[p] = r => job[r].proc = p

(* A launch is asked only once its game is up; one whose game is wanted    *)
(* still supervises it or has left it running.                             *)
AskInv(r) ==
    /\ IsLive(r) => job[r].pc \in {"record", "super"} \cup Ending
    /\ job[r].pc \in Early \cup {"publish"} => job[r].detach = "no" /\ job[r].stop = "no"
    /\ job[r].stop = "waiting" => job[r].sess # Absent
    /\ Alive(r) /\ ~job[r].cancel /\ (IsLive(r) \/ job[r].detach = "fired") =>
          job[r].pc \in {"record", "super"} \/ Left(job[r])

ChildInv(r) ==
    /\ job[r].pc \in {"publish", "record", "super", "tdDetach"} => job[r].sess.child # "none"
    /\ Left(job[r]) => job[r].pc \in {"tdDetach", "tdLive", "unwind", "done"}
    /\ job[r].pc = "tdDetach" => Left(job[r])

LeaveInv(r) == AskInv(r) /\ ChildInv(r)

(* Its game is on record, and says that it was left.                       *)
NotedInv(r) ==
    Staying(r) => OnDisk(r) /\ (job[r].pc \notin {"super", "tdDetach"} => disk.detached)

(* A record that was left names its child, as long as that runs; and one   *)
(* under which nothing that was left runs.                                 *)
Sticks(s) == s.detached /\ Alive(s.run) => s.child # "none"
Spares(s) == ~(s.detached /\ Alive(s.run))

(* No record of a launch that has yet to start its game says it was left.  *)
FreshInv(r) ==
    job[r].pc \in Early =>
       /\ OnDisk(r) => ~disk.detached
       /\ pass.pc \in PassLoaded /\ pass.st.run = r => ~pass.st.detached

(* No pass is at work over such a game.                                    *)
SpareInv ==
    pass.pc \in PassLoaded =>
       /\ \A r \in Runs : ~Staying(r)
       /\ Loaded(disk) => Spares(disk)
       /\ Spares(pass.st)

WillInv ==
    /\ Loaded(disk) => Sticks(disk)
    /\ \A r \in Runs : NotedInv(r) /\ FreshInv(r)
    /\ SpareInv

DetachInv ==
    /\ budget.faults = 0
    /\ SlotInv
    /\ \A r \in Runs : LeaveInv(r)
    /\ WillInv

-----------------------------------------------------------------------------
(* What a launch's step does to what was asked of it.                      *)
Same(r) ==
    /\ job'[r].proc = job[r].proc /\ job'[r].cancel = job[r].cancel
    /\ job'[r].detach = job[r].detach /\ job'[r].stop = job[r].stop

Path(r, from, to) == job[r].pc \in from /\ job'[r].pc \in to /\ Same(r)

Holds(r) ==
    /\ Left(job'[r]) => Left(job[r])
    /\ job'[r].pc \notin {"gate", "pass"} => job'[r].sess \in State

Over(r) == job[r].pc \in {"gate", "unwind"} \cup Preparing /\ job'[r] = Rest(job[r])

LaunchPath(r) ==
    \/ Over(r) /\ UNCHANGED live
    \/ Path(r, Early, Early \cup {"tdKill", "tdDash"}) /\ Holds(r) /\ UNCHANGED live
    \/ Path(r, {"spawn"}, {"publish"}) /\ Holds(r) /\ job'[r].sess.child # "none" /\ UNCHANGED live
    \/ /\ Path(r, {"publish"}, {"record"}) /\ job'[r].sess = job[r].sess
       /\ live' = [live EXCEPT ![job[r].proc] = r]
    \/ Path(r, {"record"}, {"super"}) /\ job'[r].sess = job[r].sess /\ UNCHANGED live
    \/ /\ Path(r, {"super"}, {"tdKill", "tdDash"}) /\ (job[r].cancel \/ ~Alive(r))
       /\ job'[r].sess = job[r].sess /\ UNCHANGED live
    \/ /\ Path(r, {"super"}, {"tdDetach"}) /\ ~job[r].cancel /\ Left(job'[r])
       /\ job'[r].sess.child = job[r].sess.child /\ UNCHANGED live
    \/ Path(r, {"tdDetach"}, {"tdLive"}) /\ job'[r].sess = job[r].sess /\ UNCHANGED live
    \/ /\ Path(r, Ending \ {"tdDetach", "tdLive"}, Ending \ {"tdDetach"})
       /\ Holds(r) /\ UNCHANGED live
    \/ Path(r, {"tdLive"}, {"unwind"}) /\ job'[r].sess = job[r].sess /\ ClearLive(job[r].proc, r)

(* A launch that only goes on leaves what was asked of it.                 *)
LEMMA StaySays ==
    ASSUME NEW r \in Runs, NEW pc, Moved(r, Stay(job[r], pc))
    PROVE  Same(r) /\ job'[r].pc = pc /\ job'[r].sess = job[r].sess
  BY DEF Moved, Stay, Upd, Same

(* So does one that takes another record in hand.                          *)
LEMMA NoteSays ==
    ASSUME NEW r \in Runs, NEW pc, NEW s, Moved(r, Note(job[r], pc, s))
    PROVE  Same(r) /\ job'[r].pc = pc /\ job'[r].sess = s
  BY DEF Moved, Note, Upd, Same

(* A record written in other fields was left when it was before.           *)
LEMMA WrittenHolds ==
    ASSUME NEW s \in State
    PROVE  /\ \A f : [s EXCEPT !.fwds = f].detached = s.detached
           /\ \A f : [s EXCEPT !.prev = f].detached = s.detached
           /\ \A f : [s EXCEPT !.dashboard = f].detached = s.detached
           /\ \A f : [s EXCEPT !.dashboard_closed = f].detached = s.detached
           /\ \A f : [s EXCEPT !.audio_restored = f].detached = s.detached
           /\ \A f : [s EXCEPT !.child = f].detached = s.detached /\ [s EXCEPT !.child = f].child = f
           /\ [s EXCEPT !.detached = TRUE].detached /\ [s EXCEPT !.detached = TRUE].child = s.child
  BY DEF State

(* A launch is left when its record was.                                   *)
LEMMA HoldsBy ==
    ASSUME NEW r \in Runs, job[r].sess \in State, job'[r].sess \in State,
           job'[r].sess.detached = job[r].sess.detached
    PROVE  Holds(r)
  BY DEF Holds, Left

(* Every step of a launch takes one of these paths.                        *)
LEMMA LaunchPaths ==
    ASSUME TypeOK, HandInv, NEW r \in Runs, LaunchStep(r)
    PROVE  LaunchPath(r)
<1> DEFINE j == job[r]
           s == j.sess
<1> USE DEF At
<1>a. ASSUME j.pc \in WithState
      PROVE  s \in State
  BY <1>a, InHand
<1>p. /\ Preparing \subseteq WithState \cap Early /\ Guarding \subseteq WithState \cap Early
      /\ Running \subseteq WithState /\ Ending \subseteq WithState
      /\ {"tdKill", "tdDash"} \subseteq Ending \ {"tdDetach"}
      /\ {"gate", "pass"} \subseteq Early
  BY DEF WithState, Early, Unstarted, Ending
<1>1. CASE Gate(r)
  <2>1. j.pc = "gate" /\ UNCHANGED live
    BY <1>1 DEF Gate
  <2>2. CASE Blocked(j.proc)
    BY <1>1, <2>1, <2>2, GateMoves DEF LaunchPath, Over, Moved
  <2>3. CASE ~Blocked(j.proc)
    <3>1. Moved(r, Stay(j, "pass"))
      BY <1>1, <2>3, GateMoves
    <3> QED
      BY <2>1, <3>1, <1>p, StaySays DEF LaunchPath, Path, Holds, Left
  <2> QED
    BY <2>2, <2>3
<1>2. CASE Abandon(r) \/ Rollback(r)
  <2>1. j.pc \in Preparing /\ UNCHANGED live /\ job'[r] = Rest(j)
    BY <1>2 DEF Abandon, Rollback, EndEarly, Preparing, TypeOK
  <2> QED
    BY <2>1 DEF LaunchPath, Over
(* A step before the game is up, of which the record it leaves is known.   *)
<1>3. ASSUME j.pc \in Preparing \cup Guarding, UNCHANGED live,
             NEW pc \in Preparing \cup Guarding \cup {"tdKill", "tdDash"}, NEW t \in State,
             t.detached = s.detached, Same(r), job'[r].pc = pc, job'[r].sess = t
      PROVE  LaunchPath(r)
  BY <1>3, <1>a, <1>p, HoldsBy DEF LaunchPath, Path
<1>4. CASE Hygiene(r)
  <2>1. j.pc \in Preparing /\ UNCHANGED live
    BY <1>4 DEF Hygiene, Preparing
  <2>2. \/ Moved(r, Upd(j, "wired", s, j.armed, j.carried, j.held, Ports))
        \/ Moved(r, Stay(j, "reset"))
    BY <1>4, HygieneMoves
  <2>3. Same(r) /\ job'[r].pc \in Preparing /\ job'[r].sess = s
    BY <2>2 DEF Preparing, Stay, Upd, Moved, Same
  <2> QED
    BY <1>3, <1>a, <1>p, <2>1, <2>3
<1>5. CASE RecordForward(r)
  <2>1. j.pc \in Preparing /\ UNCHANGED live /\ s \in State
    BY <1>5, <1>a, <1>p DEF RecordForward, Preparing
  <2> DEFINE t == [s EXCEPT !.fwds = @ \cup {NextPort(r)}]
  <2>2. t.detached = s.detached
    BY <2>1, WrittenHolds
  <2> HIDE DEF t
  <2>3. CASE job[r].todo = {}
    <3>1. Moved(r, Stay(j, "reset"))
      BY <1>5, <2>3, RecordForwardMoves
    <3> QED
      BY <1>3, <2>1, <3>1, StaySays DEF Preparing
  <2>4. CASE job[r].todo # {}
    <3>1. /\ t \in State
          /\ Moved(r, Note(j, "wiredAdd", t)) \/ Moved(r, Note(j, "rollback", t))
      BY <1>5, <2>4, RecordForwardMoves DEF t
    <3>2. Same(r) /\ job'[r].pc \in Preparing /\ job'[r].sess = t
      BY <3>1, NoteSays DEF Preparing
    <3> QED
      BY <1>3, <2>1, <2>2, <3>1, <3>2
  <2> QED
    BY <2>3, <2>4
<1>6. CASE AddForward(r)
  <2>1. j.pc \in Preparing /\ UNCHANGED live
    BY <1>6 DEF AddForward, Preparing
  <2>2. \/ Moved(r, Upd(j, "wired", s, j.armed, j.carried, j.held, j.todo \ {NextPort(r)}))
        \/ Moved(r, Stay(j, "rollback"))
    BY <1>6, AddForwardMoves
  <2>3. Same(r) /\ job'[r].pc \in Preparing /\ job'[r].sess = s
    BY <2>2 DEF Preparing, Stay, Upd, Moved, Same
  <2> QED
    BY <1>3, <1>a, <1>p, <2>1, <2>3
<1>7. CASE Reset(r) \/ Prepared(r)
  <2>1. j.pc \in Preparing /\ UNCHANGED live /\ (Go(r, "stage") \/ Go(r, "arm"))
    BY <1>7 DEF Reset, Prepared, Preparing
  <2>2. Same(r) /\ job'[r].pc \in Preparing \cup Guarding /\ job'[r].sess = s
    BY <2>1, GoMoves, PCs, StaySays DEF Preparing, Guarding
  <2> QED
    BY <1>3, <1>a, <1>p, <2>1, <2>2
<1>8. CASE CancelGuarded(r)
  <2>1. j.pc \in Guarding /\ UNCHANGED live /\ Teardown(r, "Cancelled", j)
    BY <1>8 DEF CancelGuarded, Guarding
  <2>2. Moved(r, Stay(j, "tdKill"))
    BY <2>1, JobFields, TeardownMoves
  <2> QED
    BY <1>3, <1>a, <1>p, <2>1, <2>2, StaySays
<1>9. CASE Arm(r)
  <2>1. j.pc \in Guarding /\ UNCHANGED live /\ s \in State
    BY <1>9, <1>a, <1>p DEF Arm, Guarding
  <2> DEFINE prev == IF AudioPending(s) THEN s.prev ELSE mac.output
             t == [s EXCEPT !.prev = prev]
  <2>2. /\ t \in State
        /\ \/ Moved(r, Stay(j, "dash"))
           \/ Moved(r, Upd(j, "switch", t, prev, AudioPending(s), j.held, j.todo))
           \/ Moved(r, Note(j, "tdDash", t))
    BY <1>9, ArmMoves
  <2>3. t.detached = s.detached
    BY <2>1, WrittenHolds
  <2> HIDE DEF t
  <2>4. Same(r) /\ job'[r].pc \in {"dash", "switch", "tdDash"} /\ job'[r].sess \in {s, t}
    BY <2>2 DEF Stay, Note, Upd, Moved, Same
  <2> QED
    BY <1>3, <2>1, <2>2, <2>3, <2>4 DEF Guarding
<1>10. CASE Switch(r)
  <2>1. j.pc \in Guarding /\ UNCHANGED live /\ s \in State
    BY <1>10, <1>a, <1>p DEF Switch, Guarding
  <2> DEFINE t == [s EXCEPT !.prev = NoDevice]
  <2>2. /\ t \in State
        /\ \/ Moved(r, Stay(j, "dash"))
           \/ Moved(r, Stay(j, "tdKill"))
           \/ Moved(r, Upd(j, "dash", j.sess, NoDevice, j.carried, j.held, j.todo))
           \/ Moved(r, Upd(j, "dash", t, NoDevice, j.carried, j.held, j.todo))
           \/ Moved(r, Upd(j, "tdDash", t, NoDevice, j.carried, j.held, j.todo))
    BY <1>10, SwitchMoves
  <2>3. t.detached = s.detached
    BY <2>1, WrittenHolds
  <2> HIDE DEF t
  <2>4. Same(r) /\ job'[r].pc \in {"dash", "tdKill", "tdDash"} /\ job'[r].sess \in {s, t}
    BY <2>2 DEF Stay, Note, Upd, Moved, Same
  <2> QED
    BY <1>3, <2>1, <2>2, <2>3, <2>4 DEF Guarding
<1>11. CASE OpenDashboard(r)
  <2>1. j.pc \in Guarding /\ UNCHANGED live /\ s \in State
    BY <1>11, <1>a, <1>p DEF OpenDashboard, Guarding
  <2> DEFINE t == [s EXCEPT !.dashboard = TRUE]
  <2>2. /\ t \in State
        /\ \/ Moved(r, Stay(j, "spawn"))
           \/ Moved(r, Note(j, "dashSave", t))
           \/ Moved(r, Stay(j, "tdDash"))
    BY <1>11, OpenDashboardMoves
  <2>3. t.detached = s.detached
    BY <2>1, WrittenHolds
  <2> HIDE DEF t
  <2>4. Same(r) /\ job'[r].pc \in {"spawn", "dashSave", "tdDash"} /\ job'[r].sess \in {s, t}
    BY <2>2, StaySays, NoteSays
  <2> QED
    BY <1>3, <2>1, <2>2, <2>3, <2>4 DEF Guarding
<1>12. CASE SaveDashboard(r)
  <2>1. j.pc \in Guarding /\ UNCHANGED live
    BY <1>12 DEF SaveDashboard, Guarding
  <2>2. \/ Moved(r, Upd(j, "spawn", s, j.armed, j.carried, TRUE, j.todo))
        \/ Moved(r, Stay(j, "tdDash")) \/ Moved(r, Stay(j, "tdKill"))
    BY <1>12, SaveDashboardMoves
  <2>3. Same(r) /\ job'[r].pc \in {"spawn", "tdKill", "tdDash"} /\ job'[r].sess = s
    BY <2>2 DEF Stay, Upd, Moved, Same
  <2> QED
    BY <1>3, <1>a, <1>p, <2>1, <2>3 DEF Guarding
<1>13. CASE Spawn(r)
  <2>1. j.pc = "spawn" /\ j.pc \in Guarding /\ UNCHANGED live /\ s \in State
    BY <1>13, <1>a, <1>p DEF Spawn, Guarding
  <2>2. CASE Moved(r, Stay(j, "tdDash"))
    BY <1>3, <2>1, <2>2, StaySays
  <2>3. ASSUME NEW c \in {"exact", "unobserved"}, [s EXCEPT !.child = c] \in State,
               Moved(r, Note(j, "publish", [s EXCEPT !.child = c]))
        PROVE  LaunchPath(r)
    <3> DEFINE t == [s EXCEPT !.child = c]
    <3>1. t \in State /\ t.detached = s.detached /\ t.child = c
      BY <2>1, <2>3, WrittenHolds
    <3> HIDE DEF t
    <3>2. Same(r) /\ job'[r].pc = "publish" /\ job'[r].sess = t
      BY <2>3, NoteSays DEF t
    <3> QED
      BY <2>1, <3>1, <3>2, HoldsBy DEF LaunchPath, Path
  <2> QED
    BY <1>13, <2>2, <2>3, SpawnMoves
<1>14. CASE PublishLive(r)
  <2>1. j.pc = "publish" /\ live' = [live EXCEPT ![j.proc] = r] /\ Moved(r, Stay(j, "record"))
    BY <1>14, GoMoves, PCs DEF PublishLive
  <2> QED
    BY <2>1, StaySays DEF LaunchPath, Path
<1>15. CASE RecordLaunched(r)
  <2>1. j.pc = "record" /\ UNCHANGED live /\ Moved(r, Stay(j, "super"))
    BY <1>15, GoMoves, PCs DEF RecordLaunched
  <2> QED
    BY <2>1, StaySays DEF LaunchPath, Path
<1>16. CASE Supervise(r)
  <2>1. j.pc = "super" /\ UNCHANGED live /\ s \in State
    BY <1>16, <1>a, <1>p DEF Supervise, Running
  <2>2. ASSUME NEW why \in {"Cancelled", "Normal"}, Teardown(r, why, j), j.cancel \/ ~Alive(r)
        PROVE  LaunchPath(r)
    <3>1. Moved(r, Stay(j, "tdKill")) \/ Moved(r, Stay(j, "tdDash"))
      BY <2>2, JobFields, TeardownMoves
    <3>2. Same(r) /\ job'[r].pc \in {"tdKill", "tdDash"} /\ job'[r].sess = s
      BY <3>1, StaySays
    <3> QED
      BY <2>1, <2>2, <3>2 DEF LaunchPath, Path
  <2>3. CASE ~j.cancel /\ job' = [job EXCEPT ![r].pc = "tdDetach", ![r].sess.detached = TRUE]
    <3> DEFINE t == [s EXCEPT !.detached = TRUE]
    <3>1. Moved(r, Note(j, "tdDetach", t))
      <4>1. job'[r].pc = "tdDetach"
        BY <2>3 DEF TypeOK, Job
      <4>2. \/ Moved(r, Stay(j, "tdKill")) \/ Moved(r, Stay(j, "tdDash"))
            \/ Moved(r, Note(j, "tdDetach", t))
        BY <1>16, SuperviseMoves
      <4> QED
        BY <4>1, <4>2, StaySays
    <3>2. t \in State /\ t.detached /\ t.child = s.child
      BY <1>16, <2>1, SuperviseMoves, WrittenHolds
    <3> HIDE DEF t
    <3>3. Same(r) /\ job'[r].pc = "tdDetach" /\ job'[r].sess = t
      BY <3>1, NoteSays
    <3> QED
      BY <2>1, <2>3, <3>2, <3>3 DEF LaunchPath, Path, Left
  <2> QED
    BY <1>16, <2>2, <2>3 DEF Supervise, Alive
<1>17. CASE DetachSave(r)
  <2>1. j.pc = "tdDetach" /\ UNCHANGED live
    BY <1>17 DEF DetachSave
  <2>2. \/ Moved(r, Upd(j, "tdLive", s, NoDevice, j.carried, FALSE, j.todo))
        \/ Moved(r, Stay(j, "tdLive"))
    BY <1>17, DetachSaveMoves
  <2>3. Same(r) /\ job'[r].pc = "tdLive" /\ job'[r].sess = s
    BY <2>2 DEF Stay, Upd, Moved, Same
  <2> QED
    BY <2>1, <2>3 DEF LaunchPath, Path
(* A step of the teardown.                                                 *)
<1>18. ASSUME j.pc \in Ending \ {"tdDetach", "tdLive"}, UNCHANGED live,
              NEW pc \in Ending \ {"tdDetach"}, NEW t \in State,
              t.detached = s.detached, Same(r), job'[r].pc = pc, job'[r].sess = t
       PROVE  LaunchPath(r)
  BY <1>18, <1>a, <1>p, HoldsBy DEF LaunchPath, Path
<1>19. CASE KillWine(r) \/ SaveClosed(r) \/ SaveRestored(r) \/ FinishRecord(r) \/ ClearState(r)
  <2>1. /\ j.pc \in Ending \ {"tdDetach", "tdLive"} /\ UNCHANGED live
        /\ Go(r, "tdDash") \/ Go(r, "tdAudio") \/ Go(r, "tdFinish") \/ Go(r, "tdLive") \/ Go(r, "tdClear")
    BY <1>19 DEF KillWine, SaveClosed, SaveRestored, FinishRecord, ClearState, Ending
  <2>2. Same(r) /\ job'[r].pc \in Ending \ {"tdDetach"} /\ job'[r].sess = s
    BY <2>1, GoMoves, PCs, StaySays DEF Ending
  <2> QED
    BY <1>18, <1>a, <1>p, <2>1, <2>2
<1>20. CASE CloseDashboard(r)
  <2>1. j.pc \in Ending \ {"tdDetach", "tdLive"} /\ UNCHANGED live /\ s \in State
    BY <1>20, <1>a, <1>p DEF CloseDashboard, Ending
  <2> DEFINE t == [s EXCEPT !.dashboard_closed = TRUE]
  <2>2. t \in State /\ t.detached = s.detached
    BY <2>1, WrittenHolds DEF State
  <2>3. \/ Moved(r, Upd(j, "tdDashSave", t, j.armed, j.carried, FALSE, j.todo))
        \/ Moved(r, Stay(j, "tdAudio"))
    BY <1>20, CloseDashboardMoves
  <2> HIDE DEF t
  <2>4. Same(r) /\ job'[r].pc \in {"tdDashSave", "tdAudio"} /\ job'[r].sess \in {s, t}
    BY <2>3 DEF Stay, Note, Upd, Moved, Same
  <2> QED
    BY <1>18, <2>1, <2>2, <2>4 DEF Ending
<1>21. CASE RestoreOutput(r)
  <2>1. j.pc \in Ending \ {"tdDetach", "tdLive"} /\ UNCHANGED live /\ s \in State
    BY <1>21, <1>a, <1>p DEF RestoreOutput, Ending
  <2> DEFINE t == [s EXCEPT !.audio_restored = TRUE]
  <2>2. /\ t \in State
        /\ \/ Moved(r, Stay(j, "tdFinish"))
           \/ Moved(r, Upd(j, "tdAudioSave", t, NoDevice, j.carried, j.held, j.todo))
           \/ Moved(r, Upd(j, "tdAudioSave", s, NoDevice, j.carried, j.held, j.todo))
    BY <1>21, RestoreOutputMoves
  <2>3. t.detached = s.detached
    BY <2>1, WrittenHolds
  <2> HIDE DEF t
  <2>4. Same(r) /\ job'[r].pc \in {"tdFinish", "tdAudioSave"} /\ job'[r].sess \in {s, t}
    BY <2>2 DEF Stay, Note, Upd, Moved, Same
  <2> QED
    BY <1>18, <2>1, <2>2, <2>3, <2>4 DEF Ending
<1>22. CASE LeaveSlot(r)
  <2>1. j.pc = "tdLive" /\ ClearLive(j.proc, r) /\ Moved(r, Stay(j, "unwind"))
    BY <1>22, GoMoves, PCs DEF LeaveSlot
  <2> QED
    BY <2>1, StaySays DEF LaunchPath, Path
<1>23. CASE Unwind(r)
  <2>1. j.pc = "unwind" /\ UNCHANGED live /\ job'[r] = Rest(j)
    BY <1>23 DEF Unwind, TypeOK
  <2> QED
    BY <2>1 DEF LaunchPath, Over
<1> QED
  BY <1>1, <1>2, <1>4, <1>5, <1>6, <1>7, <1>8, <1>9, <1>10, <1>11, <1>12, <1>13, <1>14, <1>15,
     <1>16, <1>17, <1>19, <1>20, <1>21, <1>22, <1>23
     DEF LaunchStep, TeardownStep

(* No step makes a game run but the spawn of its own launch.               *)
LEMMA GameComes ==
    ASSUME TypeOK, HandInv, Next, NEW q \in Runs, Alive(q)'
    PROVE  Alive(q) \/ (Spawn(q) /\ job[q].pc = "spawn" /\ job'[q].pc = "publish")
<1>1. CASE UNCHANGED wine \/ StopWine
  BY <1>1, WineKilledType DEF StopWine, WineKilled, Alive
<1>2. ASSUME NEW r \in Runs, Spawn(r), wine' = [wine EXCEPT ![r] = "alive"]
      PROVE  Alive(q) \/ (Spawn(q) /\ job[q].pc = "spawn" /\ job'[q].pc = "publish")
  <2>1. CASE q # r
    BY <1>2, <2>1 DEF TypeOK, Alive
  <2>2. CASE q = r /\ wine[r] # "alive"
    <3>1. wine' # wine /\ job[r].pc = "spawn"
      BY <1>2, <2>2 DEF TypeOK, Spawn, At
    <3>2. PICK c : job' = [job EXCEPT ![r].pc = "publish", ![r].sess.child = c]
      BY <1>2, <3>1 DEF Spawn
    <3>3. job'[r].pc = "publish"
      BY <3>2 DEF TypeOK, Job
    <3> QED
      BY <1>2, <2>2, <3>1, <3>3
  <2> QED
    BY <2>1, <2>2 DEF Alive
<1>3. ASSUME NEW r \in Runs, Reset(r) \/ KillWine(r) \/ WineExits(r) \/ PidReused(r)
      PROVE  Alive(q)
  BY <1>3 DEF Reset, KillWine, WineKilled, WineExits, PidReused, TypeOK, Alive
<1> QED
  BY <1>1, <1>2, <1>3, WineChanges

(* What a launch that returned leaves of itself.                           *)
LEMMA RestLeaves ==
    ASSUME NEW j
    PROVE  /\ Rest(j).pc = "done"
           /\ IF j.detach = "fired" \/ j.stop = "waiting"
              THEN /\ Rest(j).proc = j.proc /\ Rest(j).sess = j.sess /\ Rest(j).cancel = j.cancel
                   /\ Rest(j).detach = j.detach /\ Rest(j).stop = j.stop
              ELSE /\ Rest(j).proc = NoProc /\ Rest(j).sess = Absent /\ ~Rest(j).cancel
                   /\ Rest(j).detach = "no" /\ Rest(j).stop = "no"
  BY DEF Rest, NoJob

(* A launch shows as live once it published itself.                        *)
LEMMA LiveComes ==
    ASSUME TypeOK, NEW r \in Runs, LaunchPath(r), \A q \in Runs \ {r} : job'[q] = job[q],
           NEW q \in Runs, IsLive(q)'
    PROVE  IF q = r THEN \/ IsLive(r) /\ (job[r].pc = "tdLive" => job'[r].pc # "unwind")
                         \/ job'[r].pc = "record"
                    ELSE IsLive(q)
<1>1. job[r].proc \in Procs \cup {NoProc} /\ job[q].proc \in Procs \cup {NoProc}
  BY JobFields
<1>2. CASE q # r
  <2>1. job'[q] = job[q]
    BY <1>2
  <2>2. UNCHANGED live \/ live' = [live EXCEPT ![job[r].proc] = r] \/ ClearLive(job[r].proc, r)
    BY DEF LaunchPath
  <2>3. \A p \in Procs : live'[p] = q => live[p] = q
    BY <1>2, <2>2 DEF ClearLive, TypeOK
  <2> QED
    BY <1>1, <1>2, <2>1, <2>3 DEF IsLive
<1>3. CASE q = r /\ Over(r) /\ UNCHANGED live
  <2>1. job'[r].proc \in {NoProc, job[r].proc}
    BY <1>3, RestLeaves DEF Over
  <2>2. IsLive(r) /\ job[r].pc # "tdLive"
    BY <1>3, <2>1 DEF IsLive, Over, Preparing
  <2> QED
    BY <1>3, <2>2
<1>4. CASE q = r /\ ~(Over(r) /\ UNCHANGED live)
  <2>1. CASE UNCHANGED live /\ Same(r) /\ (job[r].pc = "tdLive" => job'[r].pc # "unwind")
    BY <1>4, <2>1 DEF IsLive, Same
  <2>2. CASE job'[r].pc = "record"
    BY <1>4, <2>2
  <2>3. CASE ClearLive(job[r].proc, r) /\ Same(r)
    <3>1. live'[job'[r].proc] # r
      BY <1>1, <1>4, <2>3 DEF IsLive, Same, ClearLive, TypeOK
    <3> QED
      BY <1>4, <3>1 DEF IsLive
  <2>4. "tdLive" \notin Early
    BY DEF Early, Unstarted, Preparing, Guarding
  <2> QED
    BY <1>4, <2>1, <2>2, <2>3, <2>4 DEF LaunchPath, Path
<1> QED
  BY <1>2, <1>3, <1>4

(* Where a launch is tells the stages apart.                               *)
LEMMA Stages ==
    /\ Early \cap (Running \cup Ending \cup {"unwind", "done"}) = {}
    /\ {"publish", "record", "super"} = Running
    /\ Running \cap (Ending \cup {"unwind", "done"}) = {}
    /\ Ending \cap {"unwind", "done"} = {}
    /\ {"gate", "pass", "spawn"} \cup Preparing \subseteq Early
    /\ {"tdDetach", "tdLive", "tdKill", "tdDash"} \subseteq Ending
  BY DEF Early, Unstarted, Preparing, Guarding, Running, Ending

(* A launch stays one that is asked only while it can answer.              *)
LEMMA LaunchLeaves ==
    ASSUME IInv, NEW r \in Runs, LaunchStep(r), \A q \in Runs : LeaveInv(q)
    PROVE  \A q \in Runs : LeaveInv(q)'
<1> DEFINE j == job[r]
           k == job'[r]
<1>1. LaunchPath(r) /\ (\A q \in Runs \ {r} : job'[q] = job[q]) /\ Next /\ TypeOK /\ HandInv
  BY LaunchPaths, LaunchMovesItsJob DEF IInv, Next
<1>2. ASSUME NEW q \in Runs \ {r}
      PROVE  LeaveInv(q)'
  <2>1. job'[q] = job[q] /\ LeaveInv(q)
    BY <1>1
  <2>2. IsLive(q)' => IsLive(q)
    BY <1>1, LiveComes
  <2>3. Alive(q)' => Alive(q)
    BY <1>1, <2>1, GameComes
  <2> QED
    BY <2>1, <2>2, <2>3 DEF LeaveInv, AskInv, ChildInv, Left
<1> SUFFICES LeaveInv(r)'
  BY <1>2
<1>3. /\ Alive(r)' => Alive(r) \/ (j.pc = "spawn" /\ k.pc = "publish")
      /\ IsLive(r)' => \/ IsLive(r) /\ (j.pc = "tdLive" => k.pc # "unwind")
                       \/ k.pc = "record"
      /\ AskInv(r) /\ ChildInv(r)
  BY <1>1, GameComes, LiveComes DEF LeaveInv
<1>4. CASE Over(r)
  <2>1. j.pc \in {"unwind"} \cup Early /\ j.pc \notin Running \cup Ending
    BY <1>4, Stages DEF Over
  <2>2. k.pc = "done" /\ k.pc \notin Early \cup Running \cup Ending
    BY <1>4, RestLeaves, Stages DEF Over
  <2>3. ~IsLive(r)'
    BY <1>3, <2>1, <2>2, Stages DEF AskInv
  <2>4. CASE j.detach = "fired" \/ j.stop = "waiting"
    <3>1. /\ k.sess = j.sess /\ k.cancel = j.cancel /\ k.detach = j.detach /\ k.stop = j.stop
          /\ Left(k) <=> Left(j)
      BY <1>4, <2>4, RestLeaves DEF Over, Left
    <3> QED
      BY <1>3, <2>1, <2>2, <2>3, <3>1, Stages DEF LeaveInv, AskInv, ChildInv, Left
  <2>5. CASE ~(j.detach = "fired" \/ j.stop = "waiting")
    <3>1. k.detach = "no" /\ k.stop = "no" /\ ~Left(k)
      BY <1>4, <2>5, RestLeaves DEF Over, Left
    <3> QED
      BY <2>2, <2>3, <3>1, Stages DEF LeaveInv, AskInv, ChildInv, Left
  <2> QED
    BY <2>4, <2>5
<1>5. CASE Path(r, Early, Early \cup {"tdKill", "tdDash"}) /\ Holds(r)
  <2>1. j.pc \in Early /\ k.pc \in Early \cup {"tdKill", "tdDash"} /\ k.pc \notin Running
    BY <1>5, Stages DEF Path
  <2>2. k.detach = "no" /\ k.stop = "no" /\ ~Left(k)
    BY <1>3, <1>5, <2>1, Stages DEF Path, Same, Holds, AskInv, ChildInv
  <2>3. ~IsLive(r)'
    BY <1>3, <2>1, Stages DEF AskInv
  <2> QED
    BY <2>1, <2>2, <2>3, Stages DEF LeaveInv, AskInv, ChildInv, Left
<1>6. CASE Path(r, {"spawn"}, {"publish"}) /\ Holds(r) /\ k.sess.child # "none"
  <2>1. j.pc = "spawn" /\ k.pc = "publish" /\ j.pc \in Early
    BY <1>6, Stages DEF Path
  <2>2. k.detach = "no" /\ k.stop = "no" /\ ~Left(k)
    BY <1>3, <1>6, <2>1 DEF Path, Same, Holds, AskInv, ChildInv
  <2>3. ~IsLive(r)'
    BY <1>3, <2>1, Stages DEF AskInv
  <2> QED
    BY <1>6, <2>1, <2>2, <2>3, Stages DEF LeaveInv, AskInv, ChildInv, Left
<1>7. CASE \/ Path(r, {"publish"}, {"record"}) /\ k.sess = j.sess
           \/ Path(r, {"record"}, {"super"}) /\ k.sess = j.sess
  <2>1. /\ j.pc \in {"publish", "record"} /\ k.pc \in {"record", "super"} /\ k.sess = j.sess
        /\ k.stop = j.stop /\ (Left(k) <=> Left(j))
    BY <1>7 DEF Path, Same, Left
  <2> QED
    BY <1>3, <2>1, Stages DEF LeaveInv, AskInv, ChildInv, Left
<1>8. CASE Path(r, {"super"}, {"tdKill", "tdDash"}) /\ (j.cancel \/ ~Alive(r)) /\ k.sess = j.sess
  <2>1. /\ j.pc = "super" /\ k.pc \in {"tdKill", "tdDash"} /\ k.cancel = j.cancel /\ k.stop = j.stop
        /\ k.sess = j.sess /\ (Left(k) <=> Left(j))
    BY <1>8 DEF Path, Same, Left
  <2> QED
    BY <1>3, <1>8, <2>1, Stages DEF LeaveInv, AskInv, ChildInv, Left
<1>9. CASE Path(r, {"super"}, {"tdDetach"}) /\ Left(k) /\ k.sess.child = j.sess.child
  <2>1. j.pc = "super" /\ k.pc = "tdDetach" /\ k.sess # Absent
    BY <1>9 DEF Path, Left
  <2> QED
    BY <1>3, <1>9, <2>1, Stages DEF LeaveInv, AskInv, ChildInv, Left
<1>10. CASE \/ Path(r, {"tdDetach"}, {"tdLive"}) /\ k.sess = j.sess
            \/ Path(r, {"tdLive"}, {"unwind"}) /\ k.sess = j.sess
  <2>1. /\ j.pc \in {"tdDetach", "tdLive"} /\ k.pc \in {"tdLive", "unwind"}
        /\ k.sess = j.sess /\ (Left(k) <=> Left(j)) /\ Same(r)
    BY <1>10 DEF Path, Left
  <2>2. j.pc = "tdDetach" => k.pc = "tdLive"
    BY <1>10 DEF Path
  <2>3. j.pc = "tdLive" => k.pc = "unwind"
    BY <1>10 DEF Path
  <2> QED
    BY <1>3, <2>1, <2>2, <2>3, Stages DEF LeaveInv, AskInv, ChildInv, Left, Same
<1>11. CASE Path(r, Ending \ {"tdDetach", "tdLive"}, Ending \ {"tdDetach"}) /\ Holds(r)
  <2>1. /\ j.pc \in Ending \ {"tdDetach", "tdLive"} /\ k.pc \in Ending \ {"tdDetach"} /\ Same(r)
        /\ ~Left(j) /\ ~Left(k) /\ k.pc \notin Early \cup Running
    BY <1>3, <1>11, Stages DEF Path, Holds, ChildInv
  <2>2. k.sess # Absent
    BY <1>11, <2>1, Stages DEF Holds, Path
  <2> QED
    BY <1>3, <2>1, <2>2, Stages DEF LeaveInv, AskInv, ChildInv, Left, Same
<1> QED
  BY <1>1, <1>4, <1>5, <1>6, <1>7, <1>8, <1>9, <1>10, <1>11 DEF LaunchPath

(* A slot shows a launch of its own process.                               *)
LEMMA LaunchSlots ==
    ASSUME IInv, SlotInv, NEW r \in Runs, LaunchStep(r), \A q \in Runs : LeaveInv(q)
    PROVE  SlotInv'
<1>1. LaunchPath(r) /\ (\A q \in Runs \ {r} : job'[q] = job[q]) /\ TypeOK /\ HandInv
  BY LaunchPaths, LaunchMovesItsJob DEF IInv
<1>2. \A p \in Procs, q \in Runs : live'[p] = q => live[p] = q \/ (q = r /\ p = job'[r].proc)
  BY <1>1 DEF LaunchPath, Path, Same, ClearLive, TypeOK
<1>3. CASE Over(r)
  <2>1. ~IsLive(r)
    BY <1>3, Stages DEF Over, LeaveInv, AskInv
  <2>2. \A p \in Procs : live[p] # r
    BY <2>1 DEF IsLive, SlotInv
  <2>4. job'[r].pc = "done"
    BY <1>3, RestLeaves DEF Over
  <2>3. UNCHANGED live
    BY <1>1, <1>3, <2>4, Stages DEF LaunchPath, Path
  <2> QED
    BY <1>1, <2>2, <2>3 DEF SlotInv
<1>4. CASE ~Over(r)
  <2>1. job'[r].proc = job[r].proc
    BY <1>1, <1>4 DEF LaunchPath, Path, Same
  <2> QED
    BY <1>1, <1>2, <2>1 DEF SlotInv
<1> QED
  BY <1>3, <1>4

-----------------------------------------------------------------------------
(* Who writes the record, and what of a detach it says then.               *)
Tells(s) == disk' \in State /\ disk'.run = s.run /\ disk'.detached = s.detached /\ disk'.child = s.child

(* With one process up and a disk that works a save is not refused.        *)
LEMMA SaveLands ==
    ASSUME TypeOK, OneUp, budget.faults = 0, NEW p \in up, NEW s \in State, Save(p, s)
    PROVE  disk' = s
<1>1. ASSUME Loaded(disk)
      PROVE  ~HasLiveForeignOwner(disk, p, up, wine) /\ IsSupportedVersion(disk, 1)
  <2>1. disk \in State
    BY <1>1 DEF TypeOK, Loaded
  <2> QED
    BY <2>1 DEF OneUp, HasLiveForeignOwner, IsSupportedVersion, State
<1>2. MaySave(disk, s.run, p, 1, up, wine)
  BY <1>1 DEF MaySave
<1> QED
  BY <1>2 DEF Save, SaveOk, SaveErr

(* A launch writes what it has in hand, but for its guards.                *)
LEMMA LaunchTells ==
    ASSUME TypeOK, HandInv, NEW r \in Runs, LaunchStep(r)
    PROVE  \/ UNCHANGED disk
           \/ job[r].pc = "tdClear" /\ disk' = Absent
           \/ job[r].pc \in WithState \ {"tdLive"} /\ Tells(job[r].sess)
<1> DEFINE s == job[r].sess
<1>a. ASSUME job[r].pc \in WithState \ {"tdLive"}, s \in State, NEW p, NEW t \in State,
             t.run = s.run, t.detached = s.detached, t.child = s.child,
             UNCHANGED disk \/ Save(p, t)
      PROVE  UNCHANGED disk \/ (job[r].pc \in WithState \ {"tdLive"} /\ Tells(s))
  BY <1>a DEF Save, SaveOk, SaveErr, Tells
<1>1. CASE RecordForward(r)
  <2>1. job[r].pc \in WithState \ {"tdLive"} /\ s \in State
    BY <1>1, InHand DEF RecordForward, At, WithState, Preparing
  <2>2. CASE job[r].todo # {}
    <3> DEFINE t == [s EXCEPT !.fwds = @ \cup {NextPort(r)}]
    <3>1. t \in State
      BY <1>1, <2>2, RecordForwardMoves
    <3>2. t.run = s.run /\ t.detached = s.detached /\ t.child = s.child
      BY <2>1 DEF State
    <3>3. UNCHANGED disk \/ Save(job[r].proc, t)
      BY <1>1, <2>2 DEF RecordForward, Save
    <3> HIDE DEF t
    <3> QED
      BY <1>a, <2>1, <3>1, <3>2, <3>3
  <2> QED
    BY <1>1, <2>2 DEF RecordForward
<1>2. CASE Rollback(r)
  <2>1. job[r].pc \in WithState \ {"tdLive"} /\ s \in State
    BY <1>2, InHand DEF Rollback, At, WithState, Preparing
  <2>2. PICK gone : Save(job[r].proc, [s EXCEPT !.fwds = @ \ gone])
    BY <1>2 DEF Rollback
  <2> DEFINE t == [s EXCEPT !.fwds = @ \ gone]
  <2>3. t \in State /\ t.run = s.run /\ t.detached = s.detached /\ t.child = s.child
    BY <2>1 DEF State
  <2>4. Save(job[r].proc, t)
    BY <2>2
  <2> HIDE DEF t
  <2> QED
    BY <1>a, <2>1, <2>3, <2>4
<1>3. CASE Arm(r)
  <2>1. job[r].pc \in WithState \ {"tdLive"} /\ s \in State
    BY <1>3, InHand DEF Arm, At, WithState, Guarding
  <2> DEFINE prev == IF AudioPending(s) THEN s.prev ELSE mac.output
             t == [s EXCEPT !.prev = prev]
  <2>2. t \in State
    BY <1>3, ArmMoves
  <2>3. UNCHANGED disk \/ Save(job[r].proc, t)
    BY <1>3 DEF Arm, Save
  <2> HIDE DEF prev
  <2>4. t.run = s.run /\ t.detached = s.detached /\ t.child = s.child
    BY <2>1 DEF State
  <2> HIDE DEF t
  <2> QED
    BY <1>a, <2>1, <2>2, <2>3, <2>4
<1>4. CASE Switch(r)
  <2>1. job[r].pc \in WithState \ {"tdLive"} /\ s \in State
    BY <1>4, InHand DEF Switch, At, WithState, Guarding
  <2> DEFINE t == [s EXCEPT !.prev = NoDevice]
  <2>2. t \in State /\ t.run = s.run /\ t.detached = s.detached /\ t.child = s.child
    BY <1>4, <2>1, SwitchMoves DEF State
  <2>3. UNCHANGED disk \/ Save(job[r].proc, t)
    BY <1>4 DEF Switch, Save
  <2> HIDE DEF t
  <2> QED
    BY <1>a, <2>1, <2>2, <2>3
<1>5. CASE \/ SaveDashboard(r) \/ RecordLaunched(r) \/ DetachSave(r) \/ SaveClosed(r)
           \/ SaveRestored(r) \/ FinishRecord(r)
  <2>1. job[r].pc \in WithState \ {"tdLive"}
    BY <1>5 DEF SaveDashboard, RecordLaunched, DetachSave, SaveClosed, SaveRestored, FinishRecord,
                At, WithState, Guarding, Running, Ending
  <2>2. s \in State
    BY <2>1, InHand
  <2>3. UNCHANGED disk \/ Save(job[r].proc, s)
    BY <1>5 DEF SaveDashboard, RecordLaunched, DetachSave, SaveClosed, SaveRestored, FinishRecord,
                Save
  <2> QED
    BY <1>a, <2>1, <2>2, <2>3
<1>6. CASE \/ Gate(r) \/ Abandon(r) \/ Hygiene(r) \/ AddForward(r) \/ Reset(r) \/ Prepared(r)
           \/ CancelGuarded(r) \/ OpenDashboard(r) \/ Spawn(r) \/ PublishLive(r) \/ Supervise(r)
           \/ KillWine(r) \/ CloseDashboard(r) \/ RestoreOutput(r) \/ LeaveSlot(r) \/ Unwind(r)
           \/ ClearState(r)
  BY <1>6 DEF Gate, Abandon, Hygiene, AddForward, Reset, Prepared, CancelGuarded, OpenDashboard,
              Spawn, PublishLive, Supervise, KillWine, CloseDashboard, RestoreOutput, LeaveSlot, Unwind,
              ClearState, At
<1> QED
  BY <1>1, <1>2, <1>3, <1>4, <1>5, <1>6 DEF LaunchStep, TeardownStep

(* The step a launch takes is told by where it is.                         *)
LEMMA StepAt ==
    ASSUME NEW r \in Runs, LaunchStep(r)
    PROVE  /\ job[r].pc = "record" => RecordLaunched(r)
           /\ job[r].pc = "super" => Supervise(r)
           /\ job[r].pc = "tdDetach" => DetachSave(r)
           /\ job[r].pc = "tdLive" => LeaveSlot(r)
           /\ job[r].pc = "unwind" => Unwind(r)
  BY DEF LaunchStep, TeardownStep, At, Gate, Abandon, Hygiene, RecordForward, AddForward, Rollback,
         Reset, Prepared, CancelGuarded, Arm, Switch, OpenDashboard, SaveDashboard, Spawn, PublishLive,
         RecordLaunched, Supervise, DetachSave, KillWine, CloseDashboard, SaveClosed, RestoreOutput,
         SaveRestored, FinishRecord, ClearState, LeaveSlot, Unwind

(* The record of a game that is up, and of one that is left, are written   *)
(* before the launch goes on.                                              *)
LEMMA LaunchNotes ==
    ASSUME TypeOK, HandInv, OneUp, budget.faults = 0, NEW r \in Runs, LaunchStep(r)
    PROVE  /\ job[r].pc = "record" /\ ~job[r].cancel => disk' = job[r].sess
           /\ job[r].pc = "tdDetach" => disk' = job[r].sess
           /\ job[r].pc \in {"super", "tdLive", "unwind"} => UNCHANGED disk
<1>1. CASE job[r].pc \in {"record", "tdDetach"}
  <2>1. job[r].sess \in State /\ job[r].proc \in up
    BY <1>1, InHand DEF HandInv, WithState, Running, Ending
  <2>2. Save(job[r].proc, job[r].sess) \/ (job[r].pc = "record" /\ job[r].cancel)
    BY <1>1, StepAt DEF RecordLaunched, DetachSave, Save
  <2> QED
    BY <1>1, <2>1, <2>2, SaveLands
<1>2. CASE job[r].pc \in {"super", "tdLive", "unwind"}
  BY <1>2, StepAt DEF Supervise, LeaveSlot, Unwind
<1> QED
  BY <1>1, <1>2

(* A game is wanted from the moment its launch supervises it.              *)
LEMMA LaunchStays ==
    ASSUME IInv, NEW r \in Runs, LaunchStep(r), ChildInv(r), NEW q \in Runs, Staying(q)'
    PROVE  \/ Staying(q) /\ (q # r => job'[q] = job[q])
           \/ q = r /\ job[r].pc = "record" /\ ~job[r].cancel
<1> DEFINE j == job[r]
           k == job'[r]
<1>1. LaunchPath(r) /\ (\A x \in Runs \ {r} : job'[x] = job[x]) /\ Next /\ TypeOK /\ HandInv
  BY LaunchPaths, LaunchMovesItsJob DEF IInv, Next
<1>2. Alive(q)' => Alive(q) \/ (job[q].pc = "spawn" /\ job'[q].pc = "publish")
  BY <1>1, GameComes
<1>3. CASE q # r
  <2>1. job'[q] = job[q]
    BY <1>1, <1>3
  <2> QED
    BY <1>2, <1>3, <2>1 DEF Staying, Left
<1>4. ASSUME q = r, k.pc \notin {"super", "tdDetach", "publish"}, Left(k) => Left(j)
      PROVE  Staying(q)
  BY <1>2, <1>4 DEF Staying, Left
<1>5. CASE q = r /\ Over(r)
  <2>1. k.pc = "done" /\ (Left(k) => Left(j))
    BY <1>5, RestLeaves DEF Over, Left
  <2> QED
    BY <1>4, <1>5, <2>1
<1>6. CASE /\ q = r
           /\ \/ Path(r, Early, Early \cup {"tdKill", "tdDash"}) /\ Holds(r)
              \/ Path(r, Ending \ {"tdDetach", "tdLive"}, Ending \ {"tdDetach"}) /\ Holds(r)
  BY <1>4, <1>6, Stages DEF Path, Holds
<1>7. CASE q = r /\ Path(r, {"spawn"}, {"publish"}) /\ Holds(r)
  BY <1>7 DEF Staying, Left, Path, Holds, ChildInv
<1>8. CASE q = r /\ Path(r, {"record"}, {"super"}) /\ k.sess = j.sess
  BY <1>8 DEF Staying, Left, Path, Same, ChildInv
<1>9. CASE /\ q = r /\ k.sess = j.sess
           /\ \/ Path(r, {"publish"}, {"record"}) \/ Path(r, {"super"}, {"tdKill", "tdDash"})
              \/ Path(r, {"tdDetach"}, {"tdLive"}) \/ Path(r, {"tdLive"}, {"unwind"})
  BY <1>4, <1>9 DEF Path, Left
<1>10. CASE q = r /\ Path(r, {"super"}, {"tdDetach"}) /\ ~j.cancel
  BY <1>10 DEF Staying, Path
<1> QED
  BY <1>1, <1>3, <1>5, <1>6, <1>7, <1>8, <1>9, <1>10 DEF LaunchPath

(* A launch at work meets no game but its own that is wanted.              *)
LEMMA StayingAlone ==
    ASSUME IInv, LoneInv, NEW r \in Runs, NEW q \in Runs, job[r].pc \in Flight, Staying(q)
    PROVE  q = r
<1>1. CASE job[q].pc \in {"super", "tdDetach"}
  <2>1. job[q].pc \in Flight
    BY <1>1 DEF Flight, WithState, Running, Ending
  <2> QED
    BY <2>1, Alone DEF IInv, VisibleInv, LoneInv
<1>2. CASE Alive(q)
  BY <1>2 DEF LoneInv, OnlyGameInv, Alive
<1> QED
  BY <1>1, <1>2 DEF Staying

(* A launch's step leaves the passes be.                                   *)
LEMMA LaunchPass ==
    ASSUME NEW r \in Runs, LaunchStep(r)
    PROVE  PassLeft
<1>1. CASE Gate(r)
  BY <1>1 DEF Gate, NoPass, PassLeft, PassLoaded
<1>2. CASE ~Gate(r)
  <2>1. UNCHANGED pass
    BY <1>2 DEF LaunchStep, TeardownStep, Abandon, Hygiene, RecordForward, AddForward, Rollback,
         Reset, Prepared, CancelGuarded, Arm, Switch, OpenDashboard, SaveDashboard, Spawn, PublishLive,
         RecordLaunched, Supervise, DetachSave, KillWine, CloseDashboard, SaveClosed, RestoreOutput,
         SaveRestored, FinishRecord, ClearState, LeaveSlot, Unwind
  <2> QED
    BY <2>1 DEF PassLeft
<1> QED
  BY <1>1, <1>2

(* A launch's step keeps every wanted game on record and out of the passes.*)
LEMMA LaunchWill ==
    ASSUME IInv, LoneInv, DetachInv, NEW r \in Runs, LaunchStep(r)
    PROVE  WillInv'
<1> DEFINE j == job[r]
           k == job'[r]
<1>1. /\ LaunchPath(r) /\ (\A q \in Runs \ {r} : job'[q] = job[q]) /\ Next /\ TypeOK /\ HandInv
      /\ LockInv /\ OneUp /\ budget.faults = 0 /\ PassLeft
      /\ \A q \in Runs : AskInv(q) /\ ChildInv(q) /\ NotedInv(q) /\ FreshInv(q)
  BY LaunchPaths, LaunchMovesItsJob, LaunchPass DEF IInv, LoneInv, Next, DetachInv, LeaveInv, WillInv
<1>2. ASSUME job[r].pc \in WithState
      PROVE  /\ j.sess \in State /\ j.sess.run = r /\ r \in Runs /\ job[r].pc \in Flight
             /\ j.sess # Absent
  BY <1>1, <1>2, InHand DEF Flight
<1>3. \/ UNCHANGED disk
      \/ job[r].pc = "tdClear" /\ disk' = Absent
      \/ job[r].pc \in WithState \ {"tdLive"} /\ Tells(j.sess)
  BY <1>1, LaunchTells
(* What it writes was left only when it is being left.                     *)
<1>4. ASSUME job[r].pc \in WithState \ {"tdLive"}, Tells(j.sess), disk'.detached
      PROVE  job[r].pc = "tdDetach" /\ disk'.child # "none"
  <2>1. Left(j)
    BY <1>2, <1>4 DEF Left, Tells
  <2>2. job[r].pc = "tdDetach"
    <3>1. job[r].pc \notin {"unwind", "done"}
      BY <1>4, Stages DEF WithState, Early
    <3> QED
      BY <1>1, <1>4, <2>1, <3>1 DEF ChildInv
  <2> QED
    BY <1>1, <1>4, <2>2 DEF ChildInv, Tells
<1>5. ASSUME NEW q \in Runs, Alive(q)', ~Alive(q)
      PROVE  job[q].pc = "spawn" /\ q = r /\ pass.pc \notin PassLoaded
  <2>1. job[q].pc = "spawn" /\ job'[q].pc = "publish"
    BY <1>1, <1>5, GameComes
  <2>2. q = r
    BY <1>1, <2>1
  <2>3. job[r].pc \in HoldsLock \ {"pass"}
    BY <2>1, <2>2 DEF HoldsLock, Guarding
  <2> QED
    BY <1>1, <2>1, <2>2, <2>3, LockedPass
<1>6. ASSUME NEW q \in Runs, job'[q].pc \in Early
      PROVE  job[q].pc \in Early
  <2>1. CASE q = r
    BY <1>1, <1>6, <2>1, RestLeaves, Stages DEF LaunchPath, Path, Over
  <2> QED
    BY <1>1, <1>6, <2>1
<1>7. Loaded(disk') => Sticks(disk)'
  <2>1. CASE UNCHANGED disk
    <3> SUFFICES ASSUME Loaded(disk), disk.detached, wine'[disk.run] = "alive"
                 PROVE  disk.child # "none"
      BY <2>1 DEF Sticks, Alive
    <3>1. disk.run \in Runs
      BY <1>1 DEF TypeOK, Loaded, State
    <3>2. CASE Alive(disk.run)
      BY <3>2 DEF DetachInv, WillInv, Sticks
    <3>3. CASE ~Alive(disk.run)
      BY <1>1, <1>5, <3>1, <3>3, Stages DEF FreshInv, OnDisk, Alive
    <3> QED
      BY <3>2, <3>3
  <2> QED
    BY <1>3, <1>4, <2>1 DEF Loaded, Sticks
<1>8. ASSUME NEW q \in Runs
      PROVE  FreshInv(q)'
  <2> SUFFICES ASSUME job'[q].pc \in Early
               PROVE  /\ OnDisk(q)' => ~disk'.detached
                      /\ pass'.pc \in PassLoaded /\ pass'.st.run = q => ~pass'.st.detached
    BY DEF FreshInv
  <2>1. job[q].pc \in Early
    BY <1>6
  <2>2. OnDisk(q)' => ~disk'.detached
    <3>1. CASE UNCHANGED disk
      BY <1>1, <2>1, <3>1 DEF FreshInv, OnDisk
    <3>2. CASE job[r].pc \in WithState \ {"tdLive"} /\ Tells(j.sess)
      BY <1>2, <1>4, <2>1, <3>2, Stages DEF OnDisk, Tells
    <3> QED
      BY <1>3, <3>1, <3>2 DEF OnDisk, Loaded
  <2> QED
    BY <1>1, <2>1, <2>2 DEF FreshInv, PassLeft
<1>9. ASSUME NEW q \in Runs, Staying(q)'
      PROVE  OnDisk(q)' /\ (job'[q].pc \notin {"super", "tdDetach"} => disk'.detached)
  <2>1. CASE q = r /\ j.pc = "record" /\ ~j.cancel
    <3>1. disk' = j.sess /\ j.sess \in State /\ j.sess.run = r
      BY <1>1, <1>2, <2>1, LaunchNotes DEF WithState, Running
    <3>2. k.pc = "super"
      BY <1>1, <2>1, RestLeaves, Stages DEF LaunchPath, Path, Over, Ending, Early, Unstarted, Preparing, Guarding
    <3> QED
      BY <2>1, <3>1, <3>2 DEF OnDisk, Loaded
  <2>2. CASE Staying(q) /\ q # r
    <3>1. job'[q] = job[q]
      BY <1>1, <2>2
    <3>2. job[r].pc \notin Flight
      BY <2>2, StayingAlone
    <3>3. UNCHANGED disk
      BY <1>3, <3>2 DEF Flight, WithState, Ending
    <3> QED
      BY <1>1, <2>2, <3>1, <3>3 DEF NotedInv, OnDisk
  <2>3. CASE Staying(r) /\ q = r
    <3>1. OnDisk(r) /\ (j.pc \notin {"super", "tdDetach"} => disk.detached)
      BY <1>1, <2>3 DEF NotedInv
    <3>2. j.pc \in {"super", "tdDetach", "tdLive", "unwind", "done"}
      BY <1>1, <2>3 DEF Staying, ChildInv
    <3>3. j.pc # "done"
      BY <1>1, Stages DEF LaunchPath, Path, Over
    <3>4. CASE j.pc = "tdDetach"
      <4>1. disk' = j.sess /\ j.sess \in State /\ j.sess.run = r /\ Left(j)
        BY <1>1, <1>2, <3>4, LaunchNotes DEF WithState, Ending, ChildInv
      <4> QED
        BY <2>3, <4>1 DEF OnDisk, Loaded, Left
    <3>5. CASE j.pc \in {"super", "tdLive", "unwind"}
      <4>1. UNCHANGED disk
        BY <1>1, <3>5, LaunchNotes
      <4>2. CASE j.pc = "super" /\ k.pc \notin {"super", "tdDetach"}
        <5>1. k.sess = j.sess /\ ~Left(j)
          BY <1>1, <4>2, Stages DEF LaunchPath, Path, Over, ChildInv
        <5> QED
          BY <1>9, <2>3, <4>2, <5>1 DEF Staying, Left
      <4>3. CASE ~(j.pc = "super" /\ k.pc \notin {"super", "tdDetach"})
        BY <2>3, <3>1, <3>5, <4>1, <4>3 DEF OnDisk
      <4> QED
        BY <4>2, <4>3
    <3> QED
      BY <3>2, <3>3, <3>4, <3>5
  <2> QED
    BY <1>1, <1>9, <2>1, <2>2, <2>3, LaunchStays
<1>10. SpareInv'
  <2> SUFFICES ASSUME pass'.pc \in PassLoaded
               PROVE  /\ \A q \in Runs : ~Staying(q)'
                      /\ Loaded(disk') => Spares(disk)'
                      /\ Spares(pass.st)'
    BY DEF SpareInv
  <2>1. pass' = pass /\ pass.pc \in PassLoaded
    BY <1>1 DEF PassLeft
  <2>2. /\ \A q \in Runs : ~Staying(q) /\ (Alive(q)' => Alive(q))
        /\ Loaded(disk) => Spares(disk)
        /\ Spares(pass.st)
    BY <1>5, <2>1 DEF DetachInv, WillInv, SpareInv
  <2>3. job[r].pc \notin {"record", "tdDetach"}
    <3>1. ASSUME job[r].pc = "record"
          PROVE  FALSE
      BY <1>1, <2>1, <3>1, LockedPass DEF HoldsLock
    <3> QED
      BY <2>2, <3>1 DEF Staying
  <2>4. \A q \in Runs : ~Staying(q)'
    BY <1>1, <2>2, <2>3, LaunchStays
  <2>5. Loaded(disk') => Spares(disk)'
    <3>1. CASE UNCHANGED disk
      <4>1. Loaded(disk) => disk.run \in Runs
        BY <1>1 DEF TypeOK, Loaded, State
      <4> QED
        BY <2>2, <3>1, <4>1 DEF Spares, Alive
    <3> QED
      BY <1>3, <1>4, <2>3, <3>1 DEF Loaded, Spares
  <2>6. pass.st.run \in Runs
    BY <1>1, <2>1 DEF HandInv, State
  <2> QED
    BY <2>1, <2>2, <2>4, <2>5, <2>6 DEF Spares, Alive
<1> QED
  BY <1>7, <1>8, <1>9, <1>10 DEF WillInv, NotedInv

-----------------------------------------------------------------------------
(* The recovery pass.                                                      *)

(* A pass that ends takes its launch on with a record that was never left, *)
(* or home with none.                                                      *)
LEMMA PassJobs ==
    ASSUME IInv, PassStep \/ CancelPass, NEW q \in Runs, LeaveInv(q)
    PROVE  \/ job'[q] = job[q]
           \/ /\ job[q].pc = "pass" /\ job'[q].pc \in {"prep", "done"} /\ ~Left(job'[q])
              /\ job'[q].detach = "no" /\ job'[q].stop = "no"
              /\ job'[q].proc \in {job[q].proc, NoProc}
<1>1. TypeOK /\ HandInv /\ LockInv /\ pass.pc # "none"
  BY PassPaths DEF IInv
<1>2. ASSUME job[q].pc = "pass"
      PROVE  job[q].detach = "no" /\ job[q].stop = "no"
  BY <1>2, Stages DEF LeaveInv, AskInv
<1>3. CASE UNCHANGED job
  BY <1>3
<1>4. CASE EndRecover
  BY <1>4 DEF EndRecover
<1>5. CASE RefuseRun
  <2>1. job[lock.run].pc = "pass" /\ Moved(lock.run, Rest(job[lock.run]))
    BY <1>1, <1>5, PassHolder, RefuseRunMoves DEF RefuseRun
  <2> QED
    BY <1>2, <2>1, RestLeaves DEF Moved, Left
<1>6. ASSUME NEW prev \in Devices \cup {NoDevice}, NEW fwds \in SUBSET Ports, CarryOn(prev, fwds)
      PROVE  \/ job'[q] = job[q]
             \/ /\ job[q].pc = "pass" /\ job'[q].pc \in {"prep", "done"} /\ ~Left(job'[q])
                /\ job'[q].detach = "no" /\ job'[q].stop = "no"
                /\ job'[q].proc \in {job[q].proc, NoProc}
  <2> DEFINE t == NewState(lock.run, lock.proc, prev, fwds)
  <2>1. job[lock.run].pc = "pass" /\ Moved(lock.run, Note(job[lock.run], "prep", t))
    BY <1>1, <1>6, PassHolder, CarryOnMoves DEF CarryOn
  <2>2. ~t.detached
    BY DEF NewState
  <2> HIDE DEF t
  <2>3. CASE q # lock.run
    BY <2>1, <2>3 DEF Moved
  <2>4. CASE q = lock.run
    BY <1>2, <2>1, <2>2, <2>4 DEF Moved, Note, Upd, Left
  <2> QED
    BY <2>3, <2>4
<1> QED
  BY <1>1, <1>3, <1>4, <1>5, <1>6, PassPaths DEF PassFails

(* A pass leaves what is asked of the launches as it was.                  *)
LEMMA PassLeaves ==
    ASSUME IInv, SlotInv, \A q \in Runs : LeaveInv(q), PassStep \/ CancelPass
    PROVE  SlotInv' /\ \A q \in Runs : LeaveInv(q)'
<1>1. UNCHANGED live /\ wine' \in {wine, WineKilled} /\ TypeOK
  BY PassPaths DEF IInv
<1>2. \A q \in Runs : Alive(q)' => Alive(q)
  BY <1>1, WineFades DEF Fades, Alive
<1>3. ASSUME NEW q \in Runs
      PROVE  LeaveInv(q)' /\ \A p \in Procs : live'[p] = q => job'[q].proc = p
  <2>1. CASE job'[q] = job[q]
    BY <1>1, <1>2, <2>1 DEF LeaveInv, AskInv, ChildInv, IsLive, Left, SlotInv
  <2>2. CASE /\ job[q].pc = "pass" /\ job'[q].pc \in {"prep", "done"} /\ ~Left(job'[q])
             /\ job'[q].detach = "no" /\ job'[q].stop = "no"
             /\ job'[q].proc \in {job[q].proc, NoProc}
    <3>1. ~IsLive(q)
      BY <2>2, Stages DEF LeaveInv, AskInv
    <3>2. ~IsLive(q)'
      BY <1>1, <2>2, <3>1 DEF IsLive
    <3>3. \A p \in Procs : live[p] # q
      BY <3>1 DEF SlotInv, IsLive
    <3> QED
      BY <1>1, <2>2, <3>2, <3>3, Stages DEF LeaveInv, AskInv, ChildInv, Left
  <2> QED
    BY <2>1, <2>2, PassJobs
<1> QED
  BY <1>3 DEF SlotInv

(* What a pass writes is what it loaded, but for its guards.               *)
LEMMA PassTells ==
    ASSUME TypeOK, HandInv, PassStep \/ CancelPass
    PROVE  /\ \/ UNCHANGED disk
              \/ pass.pc \in PassLoaded /\ disk' \in {pass.st, Absent}
           /\ pass'.pc \in PassLoaded =>
                 \/ /\ pass.pc \in PassLoaded /\ pass'.st.run = pass.st.run
                    /\ pass'.st.detached = pass.st.detached
                 \/ /\ Load /\ Loaded(disk) /\ MayRestore(lock.proc, disk) /\ pass'.st = disk
                    /\ UNCHANGED <<disk, wine, job>>
<1>e. PassFails => pass' = NoPass
  BY DEF PassFails, EndRecover, RefuseRun
<1>1. CASE Load
  BY <1>1, NoPassIsPass DEF Load, EndRecover, RefuseRun, CarryOn
<1>2. CASE StopWine \/ StopReap
  BY <1>2 DEF StopWine, StopReap, PassOn, TypeOK, Pass, PassLoaded
<1>3. ASSUME pass.pc \in PassLoaded
      PROVE  pass.st \in State
  BY <1>3 DEF HandInv
<1>4. CASE RestoreAudio
  <2>1. pass.pc \in PassLoaded /\ pass \in Pass /\ UNCHANGED disk
    BY <1>4 DEF RestoreAudio, PassLoaded, TypeOK
  <2>2. PassOn("dash") \/ pass' = [pass EXCEPT !.pc = "audioSave", !.st.audio_restored = TRUE]
    BY <1>4 DEF RestoreAudio
  <2>3. pass'.st = pass.st \/ pass'.st = [pass.st EXCEPT !.audio_restored = TRUE]
    BY <2>1, <2>2 DEF PassOn, Pass
  <2>4. pass'.st.run = pass.st.run /\ pass'.st.detached = pass.st.detached
    BY <1>3, <2>1, <2>3 DEF State
  <2> QED
    BY <2>1, <2>4
<1>5. CASE RestoreDashboard
  <2>1. pass.pc \in PassLoaded /\ pass \in Pass /\ UNCHANGED disk
    BY <1>5 DEF RestoreDashboard, PassLoaded, TypeOK
  <2>2. PassOn("fwd") \/ pass' = [pass EXCEPT !.pc = "dashSave", !.st.dashboard_closed = TRUE]
    BY <1>5 DEF RestoreDashboard
  <2>3. pass'.st = pass.st \/ pass'.st = [pass.st EXCEPT !.dashboard_closed = TRUE]
    BY <2>1, <2>2 DEF PassOn, Pass
  <2>4. pass'.st.run = pass.st.run /\ pass'.st.detached = pass.st.detached
    BY <1>3, <2>1, <2>3 DEF State
  <2> QED
    BY <2>1, <2>4
<1>6. CASE RestoreForwards
  <2>1. pass.pc \in PassLoaded /\ pass \in Pass /\ UNCHANGED disk
    BY <1>6 DEF RestoreForwards, PassLoaded, TypeOK
  <2>2. PassOn("finish") \/ PassOn("fwdLoop")
    BY <1>6 DEF RestoreForwards
  <2> QED
    BY <2>1, <2>2 DEF PassOn, Pass
<1>7. CASE RemoveForward
  <2>1. pass.pc \in PassLoaded /\ pass \in Pass /\ UNCHANGED disk
    BY <1>7 DEF RemoveForward, PassLoaded, TypeOK
  <2>2. \/ \E q : \/ pass' = [pass EXCEPT !.pc = "fwdSave", !.st.fwds = @ \ {q}, !.todo = @ \ {q}]
                  \/ pass' = [pass EXCEPT !.todo = @ \ {q}]
        \/ pass' = [pass EXCEPT !.pc = "lastSave", !.st.forwards_cleared = (pass.st.fwds = {})]
    BY <1>7 DEF RemoveForward
  <2>3. \/ pass'.st = pass.st
        \/ \E f : pass'.st = [pass.st EXCEPT !.fwds = f]
        \/ \E c : pass'.st = [pass.st EXCEPT !.forwards_cleared = c]
    <3>1. ASSUME NEW q, pass' = [pass EXCEPT !.pc = "fwdSave", !.st.fwds = @ \ {q}, !.todo = @ \ {q}]
          PROVE  pass'.st = [pass.st EXCEPT !.fwds = pass.st.fwds \ {q}]
      BY <2>1, <3>1 DEF Pass
    <3>2. ASSUME NEW c, pass' = [pass EXCEPT !.pc = "lastSave", !.st.forwards_cleared = c]
          PROVE  pass'.st = [pass.st EXCEPT !.forwards_cleared = c]
      BY <2>1, <3>2 DEF Pass
    <3> QED
      BY <2>1, <2>2, <3>1, <3>2 DEF Pass
  <2>4. pass'.st.run = pass.st.run /\ pass'.st.detached = pass.st.detached
    BY <1>3, <2>1, <2>3 DEF State
  <2> QED
    BY <2>1, <2>4
<1>8. CASE SaveProgress
  <2>1. pass.pc \in PassLoaded /\ pass \in Pass
    BY <1>8 DEF SaveProgress, AfterSave, PassLoaded, TypeOK
  <2>2. \/ PassFails /\ UNCHANGED disk
        \/ PassOn(AfterSave[pass.pc]) /\ disk' = pass.st
    BY <1>8 DEF SaveProgress, SaveErr, SaveOk
  <2>3. PassFails \/ pass'.st = pass.st
    BY <2>1, <2>2 DEF PassOn, Pass
  <2> QED
    BY <1>e, <2>1, <2>2, <2>3, NoPassIsPass
<1>9. CASE FinishPass
  <2>1. pass.pc \in PassLoaded
    BY <1>9 DEF FinishPass, PassLoaded
  <2>2. pass' = NoPass
    BY <1>9 DEF FinishPass, PassFails, EndRecover, RefuseRun, CarryForward, CarryOn
  <2>3. UNCHANGED disk \/ disk' \in {pass.st, Absent}
    BY <1>9 DEF FinishPass, SaveOk, SaveErr
  <2> QED
    BY <2>1, <2>2, <2>3, NoPassIsPass
<1>10. CASE CancelPass
  BY <1>10, <1>e, NoPassIsPass DEF CancelPass
<1> QED
  BY <1>1, <1>2, <1>4, <1>5, <1>6, <1>7, <1>8, <1>9, <1>10 DEF PassStep

(* A record of a game left running is not acted on: classify_identity      *)
(* finds its child alive, or cannot tell.                                  *)
LEMMA LeftIsUntouched ==
    ASSUME disk \in State, Sticks(disk), NEW p, MayRestore(p, disk)
    PROVE  Spares(disk)
<1> SUFFICES ASSUME disk.detached, wine[disk.run] = "alive"
             PROVE  FALSE
  BY DEF Spares, Alive
<1>1. disk.child \in {"exact", "unobserved"}
  BY DEF Sticks, Alive, State, ChildStates
<1>2. CASE disk.child = "exact"
  BY <1>2 DEF MayRestore, Classify, IsSameProcess, RestoreMode
<1>3. CASE disk.child = "unobserved"
  BY <1>3 DEF MayRestore, Classify, IsSameProcess, RestoreMode
<1> QED
  BY <1>1, <1>2, <1>3

(* A pass loads no record of a wanted game, and none becomes wanted under  *)
(* it.                                                                     *)
LEMMA PassWill ==
    ASSUME IInv, OneUp, DetachInv, PassStep \/ CancelPass
    PROVE  WillInv'
<1>1. /\ TypeOK /\ HandInv /\ LockInv /\ VisibleInv /\ pass.pc # "none" /\ SpareInv
      /\ wine' \in {wine, WineKilled} /\ (Loaded(disk) => Sticks(disk))
      /\ \A q \in Runs : LeaveInv(q) /\ NotedInv(q) /\ FreshInv(q)
  BY PassPaths DEF IInv, DetachInv, WillInv
<1>2. \A q \in Runs : wine'[q] = "alive" => wine[q] = "alive"
  BY <1>1, WineFades DEF Fades
<1>3. ASSUME NEW q \in Runs
      PROVE  /\ Staying(q)' => Staying(q) /\ job'[q] = job[q]
             /\ job'[q].pc \in Early => job[q].pc \in Early
  <2>1. CASE job'[q] = job[q]
    BY <1>2, <2>1 DEF Staying, Left, Alive
  <2>2. CASE job[q].pc = "pass" /\ job'[q].pc \in {"prep", "done"} /\ ~Left(job'[q])
    BY <2>2, Stages DEF Staying, Left
  <2> QED
    BY <1>1, <2>1, <2>2, PassJobs
<1>4. /\ \/ UNCHANGED disk
         \/ pass.pc \in PassLoaded /\ disk' \in {pass.st, Absent}
      /\ pass'.pc \in PassLoaded =>
            \/ /\ pass.pc \in PassLoaded /\ pass'.st.run = pass.st.run
               /\ pass'.st.detached = pass.st.detached
            \/ /\ Load /\ Loaded(disk) /\ MayRestore(lock.proc, disk) /\ pass'.st = disk
               /\ UNCHANGED <<disk, wine, job>>
  BY <1>1, PassTells
<1>5. /\ Loaded(disk) => disk \in State /\ disk.run \in Runs
      /\ pass.pc \in PassLoaded => pass.st \in State /\ pass.st.run \in Runs /\ Loaded(pass.st)
  BY <1>1 DEF TypeOK, HandInv, Loaded, State
<1>6. ASSUME Loaded(disk), MayRestore(lock.proc, disk), NEW q \in Runs
      PROVE  ~Staying(q) /\ Spares(disk)
  <2>1. Spares(disk)
    BY <1>1, <1>5, <1>6, LeftIsUntouched
  <2>2. ASSUME Staying(q), job[q].pc \in {"super", "tdDetach"}
        PROVE  FALSE
    <3>1. disk.run = q /\ live[job[q].proc] = q
      BY <1>1, <2>2 DEF NotedInv, OnDisk, VisibleInv
    <3>2. job[q].proc = lock.proc
      BY <1>1, <2>2, PassHolder DEF HandInv, OneUp
    <3> QED
      BY <1>6, <3>1, <3>2 DEF MayRestore
  <2>3. ASSUME Staying(q), job[q].pc \notin {"super", "tdDetach"}
        PROVE  FALSE
    BY <1>1, <2>1, <2>3 DEF NotedInv, Staying, OnDisk, Spares
  <2> QED
    BY <2>1, <2>2, <2>3
<1>7. Loaded(disk') => Sticks(disk)'
  <2>1. CASE UNCHANGED disk
    BY <1>1, <1>2, <1>5, <2>1 DEF Sticks, Alive
  <2>2. CASE pass.pc \in PassLoaded /\ disk' \in {pass.st, Absent}
    BY <1>1, <1>2, <1>5, <2>2 DEF SpareInv, Spares, Sticks, Alive, Loaded
  <2> QED
    BY <1>4, <2>1, <2>2
<1>8. ASSUME NEW q \in Runs
      PROVE  NotedInv(q)'
  BY <1>1, <1>3, <1>4 DEF NotedInv, OnDisk, SpareInv
<1>9. ASSUME NEW q \in Runs
      PROVE  FreshInv(q)'
  <2> SUFFICES ASSUME job[q].pc \in Early
               PROVE  /\ OnDisk(q)' => ~disk'.detached
                      /\ pass'.pc \in PassLoaded /\ pass'.st.run = q => ~pass'.st.detached
    BY <1>3 DEF FreshInv
  <2>1. OnDisk(q)' => ~disk'.detached
    BY <1>1, <1>4 DEF FreshInv, OnDisk, Loaded
  <2>2. pass'.pc \in PassLoaded /\ pass'.st.run = q => ~pass'.st.detached
    BY <1>1, <1>4 DEF FreshInv, OnDisk
  <2> QED
    BY <2>1, <2>2
<1>10. SpareInv'
  <2> SUFFICES ASSUME pass'.pc \in PassLoaded
               PROVE  /\ \A q \in Runs : ~Staying(q)'
                      /\ Loaded(disk') => Spares(disk)'
                      /\ Spares(pass.st)'
    BY DEF SpareInv
  <2>1. CASE /\ pass.pc \in PassLoaded /\ pass'.st.run = pass.st.run
             /\ pass'.st.detached = pass.st.detached
    <3>1. (\A q \in Runs : ~Staying(q)) /\ (Loaded(disk) => Spares(disk)) /\ Spares(pass.st)
      BY <1>1, <2>1 DEF SpareInv
    <3> QED
      BY <1>2, <1>3, <1>4, <1>5, <2>1, <3>1 DEF Spares, Alive, Loaded
  <2>2. CASE /\ Load /\ Loaded(disk) /\ MayRestore(lock.proc, disk) /\ pass'.st = disk
             /\ UNCHANGED <<disk, wine, job>>
    <3>1. Spares(disk) /\ \A q \in Runs : ~Staying(q)
      BY <1>5, <1>6, <2>2
    <3> QED
      BY <1>3, <2>2, <3>1 DEF Spares, Alive
  <2> QED
    BY <1>4, <2>1, <2>2
<1> QED
  BY <1>7, <1>8, <1>9, <1>10 DEF WillInv

-----------------------------------------------------------------------------
(* The user, the games and the front-ends.                                 *)

(* A step that writes no record, and after which no more games are wanted. *)
LEMMA WillEases ==
    ASSUME TypeOK, HandInv, WillInv, UNCHANGED disk, PassLeft,
           \A q \in Runs : /\ Alive(q)' => Alive(q)
                           /\ Staying(q)' => Staying(q) /\ job'[q].pc = job[q].pc
                           /\ job'[q].pc \in Early => job[q].pc \in Early
    PROVE  WillInv'
<1>1. /\ Loaded(disk) => disk.run \in Runs
      /\ pass.pc \in PassLoaded => pass.st.run \in Runs
  BY DEF TypeOK, HandInv, Loaded, State
<1>2. Loaded(disk') => Sticks(disk)'
  BY <1>1 DEF WillInv, Sticks, Alive
<1>3. \A q \in Runs : NotedInv(q)'
  BY DEF WillInv, NotedInv, OnDisk
<1>4. \A q \in Runs : FreshInv(q)'
  BY DEF WillInv, FreshInv, OnDisk, PassLeft
<1>5. SpareInv'
  BY <1>1 DEF WillInv, SpareInv, Spares, PassLeft, Alive
<1> QED
  BY <1>2, <1>3, <1>4, <1>5 DEF WillInv

(* What is asked of a launch, and how what was asked is forgotten.         *)
AskedOf(r) ==
    LET j == job[r]
        k == job'[r]
    IN
    /\ k.pc = j.pc
    /\ \/ /\ j.pc = "done" /\ k.proc = NoProc /\ k.sess = Absent /\ k.detach = "no" /\ k.stop = "no"
       \/ /\ k.proc = j.proc /\ k.sess = j.sess /\ (j.cancel => k.cancel)
          /\ k.detach # j.detach /\ k.detach = "fired" => IsLive(r) /\ ~j.cancel
          /\ k.stop # j.stop /\ k.stop = "waiting" => IsLive(r)
          /\ j.detach = "no" => k.detach = "no" \/ IsLive(r)
          /\ j.stop = "no" => k.stop = "no" \/ IsLive(r)

(* Every request is of that kind.                                          *)
LEMMA RequestAsks ==
    ASSUME TypeOK, NEW r \in Runs, Request(r)
    PROVE  /\ AskedOf(r) /\ \A q \in Runs \ {r} : job'[q] = job[q]
           /\ UNCHANGED <<up, wine, pass, live, budget>>
           /\ SettleDetach(r) \/ UNCHANGED disk
<1> DEFINE j == job[r]
<1>1. j \in Job
  BY JobFields
<1>2. \A q \in Runs \ {r} : job'[q] = job[q]
  BY RequestIsAsked DEF Asked, Moved
<1>3. UNCHANGED <<up, wine, pass, live, budget>> /\ (SettleDetach(r) \/ UNCHANGED disk)
  BY DEF Request, RequestCancel, RequestStop, StopAnswered, RequestDetach, SettleDetach
<1>4. CASE RequestCancel(r)
  <2>1. job'[r] = [j EXCEPT !.cancel = TRUE]
    BY <1>4 DEF RequestCancel, TypeOK
  <2> QED
    BY <1>1, <1>2, <1>3, <2>1 DEF AskedOf, Job
<1>5. CASE RequestStop(r)
  <2>1. job'[r] = [j EXCEPT !.cancel = TRUE, !.stop = "waiting"] /\ IsLive(r)
    BY <1>5 DEF RequestStop, TypeOK
  <2> QED
    BY <1>1, <1>2, <1>3, <2>1 DEF AskedOf, Job
<1>6. CASE RequestDetach(r)
  <2>1. job'[r] = [j EXCEPT !.detach = "fired"] /\ IsLive(r) /\ ~j.cancel
    BY <1>6 DEF RequestDetach, TypeOK
  <2> QED
    BY <1>1, <1>2, <1>3, <2>1 DEF AskedOf, Job
(* An answer lets go of a launch that is over and owes no other.           *)
<1>7. ASSUME NEW k \in Job, job'[r] = Answer(k), k.pc = j.pc, k.proc = j.proc, k.sess = j.sess,
             k.cancel = j.cancel, k.detach \in {j.detach, "settled"}, j.detach = "no" => k.detach = "no",
             k.stop \in {j.stop, "detached", "stopped"}, j.stop = "no" => k.stop = "no"
      PROVE  AskedOf(r)
  <2>1. CASE k.pc = "done"
    BY <1>7, <2>1, RestLeaves DEF Answer, AskedOf
  <2>2. CASE k.pc # "done"
    BY <1>7, <2>2 DEF Answer, AskedOf
  <2> QED
    BY <2>1, <2>2
<1>8. CASE StopAnswered(r)
  <2> DEFINE v == IF DetachedOnDisk(r) THEN "detached" ELSE "stopped"
             k == [j EXCEPT !.stop = v]
  <2>1. job'[r] = Answer(k)
    BY <1>8 DEF StopAnswered, TypeOK
  <2>2. /\ k \in Job /\ k.pc = j.pc /\ k.proc = j.proc /\ k.sess = j.sess /\ k.cancel = j.cancel
        /\ k.detach = j.detach /\ k.stop \in {"detached", "stopped"} /\ j.stop = "waiting"
    BY <1>1, <1>8 DEF Job, StopAnswered
  <2> HIDE DEF k
  <2> QED
    BY <1>2, <1>3, <1>7, <2>1, <2>2
<1>9. CASE SettleDetach(r)
  <2> DEFINE k == [j EXCEPT !.detach = "settled"]
  <2>1. job'[r] = Answer(k)
    BY <1>9 DEF SettleDetach, TypeOK
  <2>2. /\ k \in Job /\ k.pc = j.pc /\ k.proc = j.proc /\ k.sess = j.sess /\ k.cancel = j.cancel
        /\ k.stop = j.stop /\ k.detach = "settled" /\ j.detach = "fired"
    BY <1>1, <1>9 DEF Job, SettleDetach
  <2> HIDE DEF k
  <2> QED
    BY <1>2, <1>3, <1>7, <2>1, <2>2
<1> QED
  BY <1>2, <1>3, <1>4, <1>5, <1>6, <1>8, <1>9 DEF Request

(* A launch that is live is past its spawn.                                *)
LEMMA LiveHasState ==
    ASSUME HandInv, TypeOK, NEW r \in Runs, LeaveInv(r), IsLive(r)
    PROVE  job[r].sess # Absent /\ job[r].pc \notin Early \cup {"publish", "unwind", "done"}
<1>1. job[r].pc \in {"record", "super"} \cup Ending
  BY DEF LeaveInv, AskInv
<1>2. job[r].pc \in WithState
  BY <1>1 DEF WithState, Running
<1> QED
  BY <1>1, <1>2, InHand, Stages

(* A detach that is settled late finds its game on record as left, or gone.*)
LEMMA SettledLate ==
    ASSUME IInv, DetachInv, NEW r \in Runs, SettleDetach(r), disk' # disk
    PROVE  /\ disk \in State /\ disk.run = r /\ disk' = [disk EXCEPT !.detached = TRUE]
           /\ ~Alive(r) /\ job[r].pc \notin Early
<1>1. /\ job[r].detach = "fired" /\ ~IsLive(r) /\ ~job[r].cancel
      /\ MayMarkDetached(disk, r, job[r].proc, 1, up, wine) /\ disk' = [disk EXCEPT !.detached = TRUE]
  BY DEF SettleDetach
<1>2. disk \in State /\ disk.run = r /\ ~disk.detached
  BY <1>1 DEF MayMarkDetached, IInv, TypeOK, Loaded
<1>3. AskInv(r) /\ ChildInv(r) /\ NotedInv(r)
  BY DEF DetachInv, LeaveInv, WillInv
<1>4. ASSUME Alive(r)
      PROVE  FALSE
  <2>1. job[r].pc \notin {"record", "super", "tdDetach"}
    <3>1. job[r].pc \in {"record", "super", "tdDetach"} => job[r].proc \in Procs
      BY AtUp DEF IInv
    <3> QED
      BY <1>1, <3>1 DEF IInv, VisibleInv, IsLive
  <2>2. Left(job[r])
    BY <1>1, <1>3, <1>4, <2>1 DEF AskInv
  <2> QED
    BY <1>2, <1>3, <1>4, <2>1, <2>2 DEF NotedInv, Staying
<1> QED
  BY <1>1, <1>2, <1>3, <1>4 DEF AskInv

(* A launch that is asked something, or done with what it was asked.       *)
LEMMA RequestLeaves ==
    ASSUME IInv, DetachInv, NEW r \in Runs, Request(r), NEW q \in Runs
    PROVE  /\ LeaveInv(q)' /\ job'[q].pc = job[q].pc /\ (Staying(q)' => Staying(q))
           /\ \A p \in Procs : live'[p] = q => job'[q].proc = p
<1> DEFINE j == job[r]
           k == job'[r]
<1>1. TypeOK /\ HandInv /\ SlotInv /\ \A x \in Runs : LeaveInv(x)
  BY DEF IInv, DetachInv
<1>2. /\ AskedOf(r) /\ \A x \in Runs \ {r} : job'[x] = job[x]
      /\ UNCHANGED <<wine, live>> /\ k.pc = j.pc
  BY <1>1, RequestAsks DEF AskedOf
<1>3. CASE q # r
  <2>1. job'[q] = job[q]
    BY <1>2, <1>3
  <2> QED
    BY <1>1, <1>2, <2>1 DEF LeaveInv, AskInv, ChildInv, IsLive, Left, Alive, Staying, SlotInv
<1>4. CASE q = r /\ j.pc = "done" /\ k.proc = NoProc /\ k.sess = Absent /\ k.detach = "no" /\ k.stop = "no"
  <2>1. ~IsLive(r) /\ ~IsLive(r)' /\ ~Left(k)
    BY <1>1, <1>4, Stages DEF LeaveInv, AskInv, IsLive, Left
  <2>2. LeaveInv(r)' /\ ~Staying(r)'
    BY <1>2, <1>4, <2>1, Stages DEF LeaveInv, AskInv, ChildInv, Staying, Left
  <2>3. \A p \in Procs : live[p] # r
    BY <1>1, <2>1 DEF IsLive, SlotInv
  <2> QED
    BY <1>2, <1>4, <2>2, <2>3
<1>5. CASE /\ q = r /\ k.proc = j.proc /\ k.sess = j.sess /\ (j.cancel => k.cancel)
           /\ k.detach # j.detach /\ k.detach = "fired" => IsLive(r) /\ ~j.cancel
           /\ k.stop # j.stop /\ k.stop = "waiting" => IsLive(r)
           /\ j.detach = "no" => k.detach = "no" \/ IsLive(r)
           /\ j.stop = "no" => k.stop = "no" \/ IsLive(r)
  <2>1. IsLive(r) => j.sess # Absent /\ j.pc \notin Early \cup {"publish"}
    BY <1>1, LiveHasState
  <2>2. AskInv(r)'
    <3>1. (IsLive(r)' <=> IsLive(r)) /\ (Alive(r)' <=> Alive(r)) /\ (Left(job[r])' <=> Left(j))
      BY <1>2, <1>5 DEF IsLive, Alive, Left
    <3>2. AskInv(r)
      BY <1>1 DEF LeaveInv
    <3> QED
      BY <1>2, <1>5, <2>1, <3>1, <3>2 DEF AskInv
  <2>3. ChildInv(r)'
    BY <1>1, <1>2, <1>5 DEF LeaveInv, ChildInv, Left
  <2>4. Staying(r)' => Staying(r)
    BY <1>2, <1>5 DEF Staying, Left, Alive
  <2> QED
    BY <1>1, <1>2, <1>5, <2>2, <2>3, <2>4 DEF LeaveInv, SlotInv
<1> QED
  BY <1>2, <1>3, <1>4, <1>5 DEF AskedOf

(* A request takes no game that is wanted off the record.                  *)
LEMMA RequestWill ==
    ASSUME IInv, DetachInv, NEW r \in Runs, Request(r)
    PROVE  WillInv'
<1>1. /\ TypeOK /\ HandInv /\ WillInv /\ PassLeft /\ UNCHANGED <<wine, pass>>
      /\ SettleDetach(r) \/ UNCHANGED disk
  BY RequestAsks DEF IInv, DetachInv, PassLeft
<1>2. \A q \in Runs : job'[q].pc = job[q].pc /\ (Staying(q)' => Staying(q))
  BY RequestLeaves
<1>3. CASE UNCHANGED disk
  BY <1>1, <1>2, <1>3, WillEases DEF Alive
<1>4. CASE disk' # disk
  <2>1. /\ disk \in State /\ disk.run = r /\ disk' = [disk EXCEPT !.detached = TRUE]
        /\ ~Alive(r) /\ job[r].pc \notin Early
    BY <1>1, <1>4, SettledLate
  <2>2. disk' \in State /\ disk'.run = r /\ disk'.detached
    BY <2>1 DEF State
  <2>3. wine'[r] # "alive" /\ Loaded(disk) /\ Loaded(disk')
    BY <1>1, <2>1, <2>2 DEF Alive, Loaded
  <2>4. Sticks(disk)' /\ Spares(disk)'
    BY <2>2, <2>3 DEF Sticks, Spares, Alive
  <2>5. ASSUME NEW q \in Runs
        PROVE  NotedInv(q)' /\ FreshInv(q)'
    <3>1. OnDisk(q)' <=> OnDisk(q)
      BY <2>1, <2>2, <2>3 DEF OnDisk
    <3>2. NotedInv(q)'
      BY <1>1, <1>2, <2>2, <3>1 DEF WillInv, NotedInv
    <3>3. FreshInv(q)'
      BY <1>1, <1>2, <2>1, <3>1 DEF WillInv, FreshInv, OnDisk
    <3> QED
      BY <3>2, <3>3
  <2>6. SpareInv'
    BY <1>1, <1>2, <2>4 DEF WillInv, SpareInv, Spares, Alive
  <2> QED
    BY <2>4, <2>5, <2>6 DEF WillInv
<1> QED
  BY <1>3, <1>4

(* A launch that begins is asked nothing yet.                              *)
LEMMA BeginDetach ==
    ASSUME IInv, DetachInv, NEW r \in Runs, NEW p \in Procs, Begin(r, p)
    PROVE  SlotInv' /\ (\A q \in Runs : LeaveInv(q)') /\ WillInv'
<1>1. /\ TypeOK /\ HandInv /\ SlotInv /\ WillInv /\ PassLeft /\ UNCHANGED <<disk, wine, live>>
      /\ job[r].pc = "new" /\ \A q \in Runs : LeaveInv(q)
  BY DEF IInv, DetachInv, Begin, PassLeft
<1>2. /\ job'[r].pc = "gate" /\ job'[r].proc = p /\ \A q \in Runs \ {r} : job'[q] = job[q]
      /\ job'[r].sess = job[r].sess /\ job'[r].detach = job[r].detach /\ job'[r].stop = job[r].stop
  <2>1. job' = [job EXCEPT ![r].pc = "gate", ![r].proc = p]
    BY DEF Begin
  <2>2. /\ job'[r].sess = job[r].sess /\ job'[r].detach = job[r].detach
        /\ job'[r].stop = job[r].stop
    BY <1>1, <2>1 DEF TypeOK, Job
  <2> QED
    BY <2>2, BeginTypes DEF IInv
<1>3. {"new", "gate"} \subseteq Early /\ ~IsLive(r) /\ ~Left(job[r])
  <2>1. {"new", "gate"} \subseteq Early
    BY DEF Early, Unstarted
  <2> QED
    BY <1>1, <2>1, Stages DEF LeaveInv, AskInv, ChildInv
<1>4. \A x \in Procs : live[x] # r
  BY <1>1, <1>3 DEF IsLive, SlotInv
<1>5. ASSUME NEW q \in Runs
      PROVE  /\ LeaveInv(q)' /\ (\A x \in Procs : live'[x] = q => job'[q].proc = x)
             /\ Staying(q)' => Staying(q) /\ job'[q] = job[q]
             /\ job'[q].pc \in Early => job[q].pc \in Early
  <2>1. CASE q # r
    <3>1. job'[q] = job[q]
      BY <1>2, <2>1
    <3> QED
      BY <1>1, <3>1 DEF LeaveInv, AskInv, ChildInv, IsLive, Left, Alive, Staying, SlotInv
  <2>2. CASE q = r
    <3>1. ~IsLive(r)' /\ ~Left(job'[r])
      BY <1>1, <1>2, <1>3, <1>4 DEF IsLive, Left
    <3>2. ~Staying(r)'
      BY <1>2, <3>1 DEF Staying, Left
    <3>3. job[r].detach = "no" /\ job[r].stop = "no"
      BY <1>1, <1>3 DEF LeaveInv, AskInv
    <3>4. LeaveInv(r)'
      BY <1>2, <3>1, <3>3, Stages DEF LeaveInv, AskInv, ChildInv, Left
    <3> QED
      BY <1>1, <1>3, <1>4, <2>2, <3>2, <3>4
  <2> QED
    BY <2>1, <2>2
<1>6. WillInv'
  BY <1>1, <1>5, WillEases DEF Alive
<1> QED
  BY <1>5, <1>6 DEF SlotInv

(* A front-end that ends forgets what was asked of its launches.           *)
LEMMA EndsDetach ==
    ASSUME IInv, DetachInv, NEW p \in Procs, Ends(p)
    PROVE  SlotInv' /\ (\A q \in Runs : LeaveInv(q)') /\ WillInv'
<1>1. /\ TypeOK /\ HandInv /\ SlotInv /\ WillInv /\ UNCHANGED <<disk, wine>>
      /\ \A q \in Runs : LeaveInv(q)
  BY DEF IInv, DetachInv, Ends
<1>2. PassLeft
  BY NoPassIsPass DEF Ends, PassLeft
<1>3. live' = [live EXCEPT ![p] = NoRun]
  BY DEF Ends
<1> DEFINE n == [NoJob EXCEPT !.pc = "done"]
<1>4. n.pc = "done" /\ n.proc = NoProc /\ n.sess = Absent /\ n.detach = "no" /\ n.stop = "no"
  BY DEF NoJob
<1> HIDE DEF n
<1>5. \A q \in Runs : job'[q] = IF job[q].proc = p THEN n ELSE job[q]
  BY DEF Ends, n
<1>6. ASSUME NEW q \in Runs
      PROVE  /\ LeaveInv(q)' /\ (\A x \in Procs : live'[x] = q => job'[q].proc = x)
             /\ Staying(q)' => Staying(q) /\ job'[q] = job[q]
             /\ job'[q].pc \in Early => job[q].pc \in Early
  <2>1. CASE job[q].proc = p
    <3>1. job'[q] = n
      BY <1>5, <2>1
    <3>2. ~IsLive(q)' /\ ~Left(n) /\ \A x \in Procs : live'[x] # q
      BY <1>1, <1>3, <1>4, <2>1, <3>1 DEF IsLive, Left, SlotInv, TypeOK
    <3>3. LeaveInv(q)' /\ ~Staying(q)'
      BY <1>4, <3>1, <3>2, Stages DEF LeaveInv, AskInv, ChildInv, Staying, Left
    <3> QED
      BY <1>4, <3>1, <3>2, <3>3, Stages
  <2>2. CASE job[q].proc # p
    <3>1. job'[q] = job[q]
      BY <1>5, <2>2
    <3>2. IsLive(q)' => IsLive(q)
      BY <1>1, <1>3, <2>2, <3>1, JobFields DEF IsLive, TypeOK
    <3>3. LeaveInv(q)' /\ (Staying(q)' => Staying(q))
      BY <1>1, <3>1, <3>2 DEF LeaveInv, AskInv, ChildInv, Left, Alive, Staying
    <3> QED
      BY <1>1, <1>3, <3>1, <3>3 DEF SlotInv, TypeOK
  <2> QED
    BY <2>1, <2>2
<1>7. WillInv'
  BY <1>1, <1>2, <1>6, WillEases DEF Alive
<1> QED
  BY <1>6, <1>7 DEF SlotInv

(* The other steps leave every launch as it is.                            *)
LEMMA IdleDetach ==
    ASSUME IInv, DetachInv, UNCHANGED <<disk, job, live>>, PassLeft,
           \A q \in Runs : Alive(q)' => Alive(q)
    PROVE  SlotInv' /\ (\A q \in Runs : LeaveInv(q)') /\ WillInv'
<1>1. TypeOK /\ HandInv /\ SlotInv /\ WillInv /\ \A q \in Runs : LeaveInv(q)
  BY DEF IInv, DetachInv
<1>2. ASSUME NEW q \in Runs
      PROVE  LeaveInv(q)' /\ (Staying(q)' => Staying(q))
  BY <1>1 DEF LeaveInv, AskInv, ChildInv, IsLive, Left, Staying
<1> QED
  BY <1>1, <1>2, WillEases DEF SlotInv

(* No save fails where none may.                                           *)
LEMMA NoFault ==
    ASSUME IInv, budget.faults = 0, Next
    PROVE  budget'.faults = 0
<1>1. budget \in Budgets
  BY DEF IInv, TypeOK
<1>a. ASSUME NEW p, NEW s, Save(p, s) \/ SaveOk(p, s) \/ SaveErr(p, s)
      PROVE  UNCHANGED budget
  BY <1>a DEF Save, SaveOk, SaveErr
<1>2. ASSUME NEW p \in Procs, Boot(p) \/ Quit(p) \/ Crash(p) \/ StartReconcile(p) \/ StartStop(p)
      PROVE  budget'.faults = 0
  <2>1. \/ UNCHANGED budget
        \/ budget' = [budget EXCEPT !.unborn = @ \ {p}]
        \/ budget' = [budget EXCEPT !.crashes = @ - 1]
    BY <1>2 DEF Boot, Quit, Crash, StartReconcile, StartStop
  <2> QED
    BY <1>1, <2>1 DEF Budgets
<1>3. ASSUME NEW r \in Runs, LaunchStep(r)
      PROVE  UNCHANGED budget
  <2>1. CASE RecordForward(r) \/ Rollback(r) \/ Arm(r) \/ Switch(r) \/ SaveDashboard(r) \/ RecordLaunched(r)
    BY <1>a, <2>1 DEF RecordForward, Rollback, Arm, Switch, SaveDashboard, RecordLaunched
  <2>2. CASE DetachSave(r) \/ SaveClosed(r) \/ SaveRestored(r) \/ FinishRecord(r)
    BY <1>a, <2>2 DEF DetachSave, SaveClosed, SaveRestored, FinishRecord
  <2>3. CASE \/ Gate(r) \/ Abandon(r) \/ Hygiene(r) \/ AddForward(r) \/ Reset(r) \/ Prepared(r)
             \/ CancelGuarded(r) \/ OpenDashboard(r) \/ Spawn(r) \/ PublishLive(r) \/ Supervise(r)
             \/ KillWine(r) \/ CloseDashboard(r) \/ RestoreOutput(r) \/ ClearState(r) \/ LeaveSlot(r)
             \/ Unwind(r)
    BY <2>3 DEF Gate, Abandon, Hygiene, AddForward, Reset, Prepared, CancelGuarded, OpenDashboard,
                Spawn, PublishLive, Supervise, KillWine, CloseDashboard, RestoreOutput, ClearState,
                LeaveSlot, Unwind
  <2> QED
    BY <1>3, <2>1, <2>2, <2>3 DEF LaunchStep, TeardownStep
<1>4. ASSUME PassStep \/ CancelPass
      PROVE  UNCHANGED budget
  <2>1. CASE SaveProgress \/ FinishPass
    BY <1>a, <2>1 DEF SaveProgress, FinishPass
  <2>2. CASE ~(SaveProgress \/ FinishPass)
    BY <1>4, <2>2 DEF PassStep, CancelPass, Load, StopWine, StopReap, RestoreAudio, RestoreDashboard,
                      RestoreForwards, RemoveForward
  <2> QED
    BY <2>1, <2>2
<1>5. ASSUME NEW r \in Runs, \/ WineExits(r) \/ PidReused(r) \/ Request(r)
                             \/ \E p \in Procs : Begin(r, p)
      PROVE  UNCHANGED budget
  BY <1>5 DEF WineExits, PidReused, Request, RequestCancel, RequestStop, StopAnswered,
              RequestDetach, SettleDetach, Begin
<1> QED
  BY <1>2, <1>3, <1>4, <1>5 DEF Next, Request

(* Every step of the session.                                              *)
LEMMA NextDetach ==
    ASSUME IInv, LoneInv, DetachInv, Next
    PROVE  DetachInv'
<1>1. budget'.faults = 0
  BY NoFault DEF DetachInv
<1> DEFINE Goal == SlotInv' /\ (\A q \in Runs : LeaveInv(q)') /\ WillInv'
<1>2. ASSUME NEW p \in Procs, Boot(p) \/ Quit(p) \/ Crash(p) \/ StartReconcile(p) \/ StartStop(p)
      PROVE  Goal
  <2>1. CASE Quit(p) \/ Crash(p)
    BY <2>1, EndsDetach DEF Quit, Crash
  <2>2. CASE Boot(p) \/ StartReconcile(p) \/ StartStop(p)
    <3>1. PassLeft
      BY <2>2 DEF Boot, StartReconcile, StartStop, PassLeft, NoPass, PassLoaded
    <3>2. UNCHANGED <<disk, job, live, wine>>
      BY <2>2 DEF Boot, StartReconcile, StartStop
    <3> QED
      BY <3>1, <3>2, IdleDetach DEF Alive
  <2> QED
    BY <1>2, <2>1, <2>2
<1>3. ASSUME NEW r \in Runs, LaunchStep(r)
      PROVE  Goal
  BY <1>3, LaunchLeaves, LaunchSlots, LaunchWill DEF DetachInv
<1>4. ASSUME PassStep \/ CancelPass
      PROVE  Goal
  BY <1>4, PassLeaves, PassWill DEF DetachInv, LoneInv
<1>5. ASSUME NEW r \in Runs, WineExits(r) \/ PidReused(r)
      PROVE  Goal
  <2>1. PassLeft /\ UNCHANGED <<disk, job, live>>
    BY <1>5 DEF WineExits, PidReused, PassLeft
  <2>2. \A q \in Runs : Alive(q)' => Alive(q)
    BY <1>5 DEF WineExits, PidReused, IInv, TypeOK, Alive
  <2> QED
    BY <2>1, <2>2, IdleDetach
<1>6. ASSUME NEW r \in Runs, Request(r)
      PROVE  Goal
  BY <1>6, RequestLeaves, RequestWill DEF SlotInv
<1>7. ASSUME NEW r \in Runs, NEW p \in Procs, Begin(r, p)
      PROVE  Goal
  BY <1>7, BeginDetach
<1>8. Goal
  <2> HIDE DEF Goal
  <2> QED
    BY <1>2, <1>3, <1>4, <1>5, <1>6, <1>7 DEF Next, Request
<1> QED
  BY <1>1, <1>8 DEF DetachInv

(* To begin with nothing runs and nothing is asked.                        *)
LEMMA InitDetach ==
    ASSUME Init, SaveFaults = 0
    PROVE  DetachInv
<1>1. /\ disk = Absent /\ wine = [r \in Runs |-> "unborn"] /\ pass = NoPass
      /\ job = [r \in Runs |-> NoJob] /\ live = [p \in Procs |-> NoRun]
      /\ budget.faults = 0
  BY DEF Init, BaseInit
<1>2. ~Loaded(disk) /\ pass.pc \notin PassLoaded /\ SlotInv
  BY <1>1, NoPassIsPass DEF Loaded, SlotInv
<1>3. ASSUME NEW r \in Runs
      PROVE  LeaveInv(r) /\ NotedInv(r) /\ FreshInv(r)
  <2>1. /\ job[r].pc = "new" /\ job[r].proc = NoProc /\ job[r].sess = Absent /\ job[r].detach = "no"
        /\ job[r].stop = "no"
    BY <1>1 DEF NoJob
  <2>2. ~IsLive(r) /\ ~Left(job[r]) /\ ~Staying(r)
    BY <2>1 DEF IsLive, Left, Staying
  <2> QED
    BY <1>2, <2>1, <2>2 DEF LeaveInv, AskInv, ChildInv, NotedInv, FreshInv, OnDisk
<1> QED
  BY <1>1, <1>2, <1>3 DEF DetachInv, WillInv, SpareInv

(* With one front-end and no save that fails, who is left running, what    *)
(* was asked of it and what the record and the pass at work say of it keep *)
(* in step.                                                                *)
THEOREM DetachesAreKept == OneFrontEnd /\ SaveFaults = 0 /\ Spec => [](IInv /\ LoneInv /\ DetachInv)
<1> SUFFICES ASSUME OneFrontEnd, SaveFaults = 0
             PROVE  Spec => [](IInv /\ LoneInv /\ DetachInv)
  OBVIOUS
<1>1. Init => IInv /\ LoneInv /\ DetachInv
  <2>1. Init => LoneInv
    BY InitInv DEF Init, BaseInit, LoneInv, OneUp, OnlyGameInv
  <2> QED
    BY <2>1, InitInv, InitDetach
<1>2. IInv /\ LoneInv /\ DetachInv /\ [Next]_vars => (IInv /\ LoneInv /\ DetachInv)'
  <2> SUFFICES ASSUME IInv, LoneInv, DetachInv, [Next]_vars
               PROVE  (IInv /\ LoneInv /\ DetachInv)'
    OBVIOUS
  <2>1. CASE Next
    BY <2>1, NextInv, OneUpNext, OnlyGameNext, NextDetach DEF LoneInv
  <2>2. CASE UNCHANGED vars
    <3>1. (IInv /\ LoneInv)'
      BY <2>2 DEF vars, IInv, TypeOK, HandInv, LockInv, GameInv, OneGame, GameRunning, VisibleInv,
                  OneFlight, InFlightIsVisible, LoneInv, OneUp, OnlyGameInv
    <3>2. budget' = budget /\ UNCHANGED <<disk, job, live, wine>> /\ PassLeft
      BY <2>2 DEF vars, PassLeft
    <3>3. SlotInv' /\ (\A q \in Runs : LeaveInv(q)') /\ WillInv'
      BY <3>2, IdleDetach DEF Alive
    <3> QED
      BY <3>1, <3>2, <3>3 DEF DetachInv
  <2> QED
    BY <2>1, <2>2
<1> QED
  BY <1>1, <1>2, PTL DEF Spec

(* A Stop that a racing Detach beat is told so: once the slot is clear, a  *)
(* game that was left and still runs is on record as left, which is what   *)
(* slot_was_released_by_a_detach asks.                                     *)
THEOREM StopAnswersHonestly == OneFrontEnd /\ SaveFaults = 0 /\ Spec => StopIsHonest
<1>1. ASSUME IInv, LoneInv, DetachInv, NEW r \in Runs, StopAnswered(r), job[r].sess.detached,
             wine[r] = "alive"
      PROVE  DetachedOnDisk(r)
  <2>1. job[r].stop = "waiting" /\ ~IsLive(r) /\ AskInv(r) /\ NotedInv(r)
    BY <1>1 DEF StopAnswered, DetachInv, LeaveInv, WillInv
  <2>2. Left(job[r]) /\ Staying(r)
    BY <1>1, <2>1 DEF AskInv, Left, Staying, Alive
  <2>3. job[r].pc \notin {"super", "tdDetach"}
    <3>1. ASSUME job[r].pc \in {"super", "tdDetach"}
          PROVE  job[r].proc \in Procs
      BY <1>1, <3>1 DEF IInv, TypeOK, HandInv
    <3> QED
      BY <1>1, <2>1, <3>1 DEF IInv, VisibleInv, IsLive
  <2> QED
    BY <2>1, <2>2, <2>3 DEF NotedInv, OnDisk, DetachedOnDisk
<1> DEFINE Honest == \A r \in Runs :
              StopAnswered(r) /\ job[r].sess.detached /\ wine[r] = "alive" => DetachedOnDisk(r)
<1>2. IInv /\ LoneInv /\ DetachInv /\ [Next]_vars => [Honest]_vars
  BY <1>1
<1> HIDE DEF Honest
<1>3. OneFrontEnd /\ SaveFaults = 0 /\ Spec => [][Honest]_vars
  BY <1>2, DetachesAreKept, PTL DEF Spec
<1> QED
  BY <1>3 DEF StopIsHonest, Honest

(* A recovery pass touches neither the output device nor a dashboard nor a *)
(* forward under a game that a launch still supervises, or that a detach   *)
(* left running.                                                           *)
THEOREM PassesSpareGames == OneFrontEnd /\ SaveFaults = 0 /\ Spec => PassSparesRunningGame
<1>1. ASSUME IInv, LoneInv, DetachInv, pass.pc \in {"audio", "dash", "fwdLoop"}, NEW r \in Runs,
             WantedGame(r)
      PROVE  FALSE
  <2>1. /\ pass.pc \in PassLoaded /\ ~Staying(r) /\ (Loaded(disk) => Spares(disk))
        /\ AskInv(r) /\ TypeOK /\ LockInv
    BY <1>1 DEF PassLoaded, DetachInv, WillInv, SpareInv, LeaveInv, IInv
  <2>2. CASE DetachedOnDisk(r)
    BY <1>1, <2>1, <2>2 DEF DetachedOnDisk, WantedGame, Spares, Alive
  <2>3. CASE IsLive(r)
    <3>1. job[r].pc \in {"record", "super"} \/ Left(job[r])
      BY <1>1, <2>1, <2>3 DEF AskInv, WantedGame, Alive
    <3>2. job[r].pc # "record"
      BY <2>1, LockedPass DEF HoldsLock, PassLoaded, LockInv
    <3> QED
      BY <1>1, <2>1, <3>1, <3>2 DEF Staying, WantedGame, Alive
  <2> QED
    BY <1>1, <2>2, <2>3 DEF WantedGame
<1> DEFINE Spared == pass.pc \in {"audio", "dash", "fwdLoop"} /\ mac' # mac =>
                        ~\E r \in Runs : WantedGame(r)
<1>2. IInv /\ LoneInv /\ DetachInv /\ [Next]_vars => [Spared]_vars
  BY <1>1
<1> HIDE DEF Spared
<1>3. OneFrontEnd /\ SaveFaults = 0 /\ Spec => [][Spared]_vars
  BY <1>2, DetachesAreKept, PTL DEF Spec
<1> QED
  BY <1>3 DEF PassSparesRunningGame, Spared
=============================================================================
