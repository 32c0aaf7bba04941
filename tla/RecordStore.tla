----------------------------- MODULE RecordStore -----------------------------
(***************************************************************************)
(* save, clear, clear_run and mark_detached of session/state.rs as the     *)
(* code runs them: take the advisory lock (or give up after two seconds    *)
(* and carry on without it), load the file and compare, then rename or     *)
(* unlink.  Any number of threads of any number of front-ends call them    *)
(* with the SessionState each holds in memory; front-ends die between any  *)
(* two steps and a thread may stall for good, lock in hand.                *)
(***************************************************************************)
EXTENDS RecordRegister

CONSTANTS Threads,      \* tasks that call the store
          FrontEnd,     \* the process each thread runs in
          NoOne,        \* nobody holds the lock
          NoState       \* a thread with no SessionState in memory

ASSUME ThreadAssumption ==
    /\ FrontEnd \in [Threads -> Procs]
    /\ NoOne \notin Threads
    /\ NoState \notin Record

VARIABLES flock,  \* the thread holding <record>.lock, or NoOne
          mem,    \* the SessionState each thread works on
          call,   \* the store call each thread is inside
          hung    \* threads that will never take another step

vars == <<disk, up, wine, flock, mem, call, hung>>

Ops == {"save", "clear", "clear_run", "mark_detached"}

Idle == [op |-> "save", pc |-> "idle", seen |-> Absent]

Runnable(t) == FrontEnd[t] \in up /\ t \notin hung

Init ==
    /\ RegInit
    /\ flock = NoOne
    /\ mem = [t \in Threads |-> NoState]
    /\ call = [t \in Threads |-> Idle]
    /\ hung = {}

-----------------------------------------------------------------------------
(* What the callers do to their SessionState between calls. *)

Minted(r) == wine[r] # "unborn" \/ (\E t \in Threads : mem[t] # NoState /\ mem[t].run = r)
                                \/ (Loaded(disk) /\ disk.run = r)

(* SessionState::new: a fresh run id, this process as owner, nothing yet.  *)
NewSession(t) ==
    /\ Runnable(t)
    /\ call[t].pc = "idle"
    /\ \E r \in Runs :
          /\ ~Minted(r)
          /\ mem' = [mem EXCEPT ![t] = [run |-> r, owner |-> FrontEnd[t], child |-> "none",
                                        version |-> Build[FrontEnd[t]], detached |-> FALSE]]
    /\ UNCHANGED <<disk, up, wine, flock, call, hung>>

(* A reconcile pass reads the record to work on, unless it is untouchable. *)
LoadState(t) ==
    /\ Runnable(t)
    /\ call[t].pc = "idle"
    /\ Loaded(disk)
    /\ ~HasLiveForeignOwner(disk, FrontEnd[t], up, wine)
    /\ IsSupportedVersion(disk, Build[FrontEnd[t]])
    /\ mem' = [mem EXCEPT ![t] = disk]
    /\ UNCHANGED <<disk, up, wine, flock, call, hung>>

(* The launch spawns wine; the identity is exact, or the start_time 0 of   *)
(* observe_with_retry's fallback.                                          *)
SpawnWine(t) ==
    /\ Runnable(t)
    /\ call[t].pc = "idle"
    /\ mem[t] # NoState
    /\ mem[t].owner = FrontEnd[t]
    /\ mem[t].child = "none"
    /\ wine[mem[t].run] = "unborn"
    /\ wine' = [wine EXCEPT ![mem[t].run] = "alive"]
    /\ \E c \in {"exact", "unobserved"} : mem' = [mem EXCEPT ![t].child = c]
    /\ UNCHANGED <<disk, up, flock, call, hung>>

-----------------------------------------------------------------------------
(* One store call. *)

Begin(t) ==
    /\ Runnable(t)
    /\ call[t].pc = "idle"
    /\ mem[t] # NoState
    /\ \E op \in Ops : call' = [call EXCEPT ![t] = [op |-> op, pc |-> "lock", seen |-> Absent]]
    /\ UNCHANGED <<disk, up, wine, flock, mem, hung>>

(* Slip: `let _ = lock_record(..)`, which drops the lock on the spot.      *)
TakeLockAndDropIt(t) ==
    /\ Runnable(t)
    /\ call[t].pc = "lock"
    /\ flock = NoOne
    /\ call' = [call EXCEPT ![t].pc = "check"]
    /\ UNCHANGED <<disk, up, wine, flock, mem, hung>>

(* lock_record: the flock, or None once the deadline has passed. *)
TakeLock(t) ==
    /\ Runnable(t)
    /\ call[t].pc = "lock"
    /\ flock = NoOne
    /\ flock' = t
    /\ call' = [call EXCEPT ![t].pc = "check"]
    /\ UNCHANGED <<disk, up, wine, mem, hung>>

(* Slip: a blocking flock, with no deadline.                               *)
WaitForLock(t) == Runnable(t) /\ call[t].pc = "lock" /\ flock # NoOne /\ UNCHANGED vars

GiveUpLock(t) ==
    /\ Runnable(t)
    /\ call[t].pc = "lock"
    /\ flock # NoOne
    /\ call' = [call EXCEPT ![t].pc = "check"]
    /\ UNCHANGED <<disk, up, wine, flock, mem, hung>>

(* Slip: save compares the owner and not the schema.                       *)
AllowedAnySchema(t) ==
    LET p == FrontEnd[t] IN
    CASE call[t].op = "save" ->
            Loaded(disk) /\ disk.run # mem[t].run => ~HasLiveForeignOwner(disk, p, up, wine)
      [] call[t].op = "clear"         -> MayClear(disk, p, Build[p], up, wine)
      [] call[t].op = "clear_run"     -> MayClearRun(disk, mem[t].run, p, Build[p], up, wine)
      [] call[t].op = "mark_detached" -> MayMarkDetached(disk, mem[t].run, p, Build[p], up, wine)

Allowed(t) ==
    LET p == FrontEnd[t] IN
    CASE call[t].op = "save"          -> MaySave(disk, mem[t].run, p, Build[p], up, wine)
      [] call[t].op = "clear"         -> MayClear(disk, p, Build[p], up, wine)
      [] call[t].op = "clear_run"     -> MayClearRun(disk, mem[t].run, p, Build[p], up, wine)
      [] call[t].op = "mark_detached" -> MayMarkDetached(disk, mem[t].run, p, Build[p], up, wine)

(* Dropping the lock's File handle releases it; a caller that carried on   *)
(* without the lock has none to drop.                                      *)
Unlocked(t) == IF flock = t THEN NoOne ELSE flock

(* load and the refusals: go on to write, or return. *)
Check(t) ==
    /\ Runnable(t)
    /\ call[t].pc = "check"
    /\ \/ /\ Allowed(t)
          /\ call' = [call EXCEPT ![t].pc = "write",
                                  ![t].seen = IF call[t].op = "mark_detached" THEN disk ELSE Absent]
          /\ UNCHANGED flock
       \/ /\ ~Allowed(t)
          /\ call' = [call EXCEPT ![t] = Idle]
          /\ flock' = Unlocked(t)
    /\ UNCHANGED <<disk, up, wine, mem, hung>>

Effect(t) ==
    CASE call[t].op = "save"                   -> mem[t]
      [] call[t].op \in {"clear", "clear_run"} -> Absent
      [] call[t].op = "mark_detached"          -> [call[t].seen EXCEPT !.detached = TRUE]

(* write_record's atomic rename, or remove_file. *)
Write(t) ==
    /\ Runnable(t)
    /\ call[t].pc = "write"
    /\ disk' = Effect(t)
    /\ call' = [call EXCEPT ![t] = Idle]
    /\ flock' = Unlocked(t)
    /\ UNCHANGED <<up, wine, mem, hung>>

-----------------------------------------------------------------------------
(* The world. *)

(* A front-end dies; the kernel drops its locks, its calls never return.   *)
Die(p) ==
    /\ p \in up
    /\ up' = up \ {p}
    /\ call' = [t \in Threads |-> IF FrontEnd[t] = p THEN Idle ELSE call[t]]
    /\ mem' = [t \in Threads |-> IF FrontEnd[t] = p THEN NoState ELSE mem[t]]
    /\ flock' = IF flock # NoOne /\ FrontEnd[flock] = p THEN NoOne ELSE flock
    /\ UNCHANGED <<disk, wine, hung>>

Hang(t) ==
    /\ Runnable(t)
    /\ hung = {}
    /\ hung' = {t}
    /\ UNCHANGED <<disk, up, wine, flock, mem, call>>

WineEnds(r) ==
    /\ wine[r] = "alive"
    /\ wine' = [wine EXCEPT ![r] = "gone"]
    /\ UNCHANGED <<disk, up, flock, mem, call, hung>>

(* A file that does not parse, never in the instant between a call's load  *)
(* and its rename.                                                         *)
Corruption ==
    /\ Loaded(disk)
    /\ \A t \in Threads : call[t].pc # "write"
    /\ disk' = Corrupt
    /\ UNCHANGED <<up, wine, flock, mem, call, hung>>

CallStep(t) == TakeLock(t) \/ Check(t) \/ Write(t)

Next ==
    \/ \E t \in Threads :
          NewSession(t) \/ LoadState(t) \/ SpawnWine(t) \/ Begin(t) \/ CallStep(t)
    \/ \E p \in Procs : Die(p)
    \/ \E r \in Runs : WineEnds(r)
    \/ Corruption

Spec == Init /\ [][Next]_vars

(* And with a holder that stalls for good, or past the deadline: a call    *)
(* goes on without the lock.                                               *)
DegradedNext == Next \/ \E t \in Threads : Hang(t) \/ GiveUpLock(t)

DegradedSpec == Init /\ [][DegradedNext]_vars

(* A runnable thread inside a call keeps being scheduled. *)
StoreFair == \A t \in Threads : WF_vars(CallStep(t) \/ GiveUpLock(t))

-----------------------------------------------------------------------------
Call == [op : Ops, pc : {"idle", "lock", "check", "write"}, seen : Record \cup {Absent, Corrupt}]

(* The types of the file, the lock and the calls in flight. *)
TypeOK ==
    /\ disk \in Record \cup {Absent, Corrupt}
    /\ up \in SUBSET Procs
    /\ wine \in [Runs -> WineStates]
    /\ flock \in Threads \cup {NoOne}
    /\ mem \in [Threads -> Record \cup {NoState}]
    /\ call \in [Threads -> Call]
    /\ hung \in SUBSET Threads

(* A record describing the session another live process runs is never      *)
(* overwritten by a different run's save, nor deleted or relabelled: judged *)
(* on the file as it is when the rename or unlink lands, not as it was when *)
(* the call looked (save, clear, clear_run, mark_detached of state.rs).    *)
ForeignRecordKept ==
    [][\A t \in Threads :
          /\ call[t].pc = "write"
          /\ Loaded(disk)
          /\ HasLiveForeignOwner(disk, FrontEnd[t], up, wine)
          /\ Write(t)
          => call[t].op = "save" /\ disk'.run = disk.run]_vars

(* The lock, the load and the rename together behave like one atomic       *)
(* operation of RecordRegister.                                            *)
AtomicStore == RegSpec

(* lock_record never blocks for good: whatever the current holder does,    *)
(* stalling included, another thread's call still returns (its thread or   *)
(* process dying aside).                                                   *)
CallsReturn ==
    \A t \in Threads : call[t].pc = "lock" ~> (call[t].pc = "idle" \/ t \in hung)
=============================================================================
