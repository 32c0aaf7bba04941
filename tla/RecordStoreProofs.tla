-------------------------- MODULE RecordStoreProofs --------------------------
(***************************************************************************)
(* With a lock that is always obtained, the store calls of RecordStore are *)
(* atomic: every behaviour is one of RecordRegister, for any number of     *)
(* front-ends, threads, runs and schema versions.                          *)
(*                                                                         *)
(* The argument.  A call past its load holds the lock (LockInv), so only   *)
(* the world moves between its load and its rename; and the world only     *)
(* makes a refusal weaker: a dead owner stays dead and a wine child that   *)
(* was recorded is born already (BornInv), so it can stop being "the same  *)
(* process" but never start.  What was allowed at the load is therefore    *)
(* still allowed at the rename (WriteInv).                                 *)
(***************************************************************************)
EXTENDS RecordStore, TLAPS

LockInv == \A t \in Threads : call[t].pc \in {"check", "write"} => flock = t

StateInv == \A t \in Threads : call[t].pc # "idle" => mem[t] # NoState

BornInv ==
    /\ Loaded(disk) /\ disk.child = "exact" => wine[disk.run] # "unborn"
    /\ \A t \in Threads :
          mem[t] # NoState /\ mem[t].child = "exact" => wine[mem[t].run] # "unborn"

WriteInv ==
    \A t \in Threads : call[t].pc = "write" =>
        /\ Allowed(t)
        /\ call[t].op = "mark_detached" => call[t].seen = disk

IInv == TypeOK /\ LockInv /\ StateInv /\ BornInv /\ WriteInv

USE BuildAssumption, RecordAssumption, ThreadAssumption

(* Nobody becomes a live foreign owner by a process dying or a wine child  *)
(* ending: the refusals a call passed at its load it still passes later.   *)
LEMMA ForeignShrinks ==
    ASSUME NEW rec \in Record, NEW p \in Procs,
           NEW u \in SUBSET Procs, NEW v \in SUBSET u,
           NEW w \in [Runs -> WineStates], NEW x \in [Runs -> WineStates],
           rec.child = "exact" /\ x[rec.run] = "alive" => w[rec.run] = "alive",
           HasLiveForeignOwner(rec, p, v, x)
    PROVE  HasLiveForeignOwner(rec, p, u, w)
  BY DEF HasLiveForeignOwner, IsSameProcess, Record

(* Init establishes the inductive invariant. *)
LEMMA InitInv == Init => IInv
  BY DEF Init, RegInit, IInv, TypeOK, LockInv, StateInv, BornInv, WriteInv, Idle, Call, Ops,
         WineStates, Loaded, Record

(* A call that was allowed stays allowed while only the world moves. *)
LEMMA AllowedStable ==
    ASSUME TypeOK, NEW t \in Threads,
           disk' = disk, up' \in SUBSET up, wine' \in [Runs -> WineStates],
           Loaded(disk) /\ disk.child = "exact" /\ wine'[disk.run] = "alive"
               => wine[disk.run] = "alive",
           call'[t].op = call[t].op, mem'[t] = mem[t],
           Allowed(t)
    PROVE  Allowed(t)'
<1> DEFINE p == FrontEnd[t]
<1>1. p \in Procs /\ call[t].op \in Ops
  BY DEF TypeOK, Call
<1>2. CASE ~Loaded(disk)
  BY <1>1, <1>2 DEF Allowed, MaySave, MayClear, MayClearRun, MayMarkDetached, Ops, Loaded
<1>3. CASE Loaded(disk)
  <2>1. disk \in Record
    BY <1>3 DEF TypeOK, Loaded
  <2>2. HasLiveForeignOwner(disk, p, up', wine') => HasLiveForeignOwner(disk, p, up, wine)
    BY <1>1, <1>3, <2>1, ForeignShrinks DEF TypeOK
  <2> HIDE DEF p
  <2>3. QED
    BY <1>1, <1>3, <2>2
    DEF Allowed, MaySave, MayClear, MayClearRun, MayMarkDetached, Ops, Loaded, p
<1>4. QED
  BY <1>2, <1>3

(* Every action keeps the types. *)
LEMMA TypeInv == TypeOK /\ LockInv /\ StateInv /\ BornInv /\ WriteInv /\ [Next]_vars => TypeOK'
<1> SUFFICES ASSUME TypeOK, StateInv, WriteInv, [Next]_vars PROVE TypeOK'
  OBVIOUS
<1> USE DEF TypeOK, Call
<1>1. ASSUME NEW t \in Threads, NewSession(t) PROVE TypeOK'
  BY <1>1 DEF NewSession, Record, ChildStates
<1>2. ASSUME NEW t \in Threads, LoadState(t) PROVE TypeOK'
  BY <1>2 DEF LoadState, Loaded
<1>3. ASSUME NEW t \in Threads, SpawnWine(t) PROVE TypeOK'
  BY <1>3 DEF SpawnWine, Record, ChildStates, WineStates
<1>4. ASSUME NEW t \in Threads, Begin(t) PROVE TypeOK'
  BY <1>4 DEF Begin
<1>5. ASSUME NEW t \in Threads, TakeLock(t) PROVE TypeOK'
  <2>1. call[t] \in Call /\ call' = [call EXCEPT ![t].pc = "check"]
    BY <1>5 DEF TakeLock
  <2>2. call' \in [Threads -> Call]
    BY <2>1
  <2>3. QED
    BY <1>5, <2>2 DEF TakeLock
<1>6. ASSUME NEW t \in Threads, Check(t) PROVE TypeOK'
  BY <1>6 DEF Check, Unlocked, Idle, Ops
<1>7. ASSUME NEW t \in Threads, Write(t) PROVE TypeOK'
  <2>1. Effect(t) \in Record \cup {Absent, Corrupt}
    BY <1>7 DEF Write, Effect, Ops, StateInv, WriteInv, Allowed, MayMarkDetached, Loaded, Record
  <2>2. QED
    BY <1>7, <2>1 DEF Write, Unlocked, Idle, Ops
<1>8. ASSUME NEW p \in Procs, Die(p) PROVE TypeOK'
  BY <1>8 DEF Die, Idle, Ops
<1>9. ASSUME NEW r \in Runs, WineEnds(r) PROVE TypeOK'
  BY <1>9 DEF WineEnds, WineStates
<1>10. CASE Corruption
  BY <1>10 DEF Corruption
<1>11. CASE UNCHANGED vars
  BY <1>11 DEF vars
<1>12. QED
  BY <1>1, <1>2, <1>3, <1>4, <1>5, <1>6, <1>7, <1>8, <1>9, <1>10, <1>11
  DEF Next, CallStep

(* A thread in a call has a SessionState, and past its load it has the     *)
(* lock.                                                                   *)
LEMMA CallInv ==
    ASSUME TypeOK, LockInv, StateInv, [Next]_vars
    PROVE  LockInv' /\ StateInv'
<1> USE DEF TypeOK, LockInv, StateInv, Call
<1>1. ASSUME NEW t \in Threads, NewSession(t) PROVE LockInv' /\ StateInv'
  BY <1>1 DEF NewSession, Record
<1>2. ASSUME NEW t \in Threads, LoadState(t) PROVE LockInv' /\ StateInv'
  BY <1>2 DEF LoadState, Loaded
<1>3. ASSUME NEW t \in Threads, SpawnWine(t) PROVE LockInv' /\ StateInv'
  BY <1>3 DEF SpawnWine, Record
<1>4. ASSUME NEW t \in Threads, Begin(t) PROVE LockInv' /\ StateInv'
  BY <1>4 DEF Begin
<1>5. ASSUME NEW t \in Threads, TakeLock(t) PROVE LockInv' /\ StateInv'
  BY <1>5 DEF TakeLock
<1>6. ASSUME NEW t \in Threads, Check(t) PROVE LockInv' /\ StateInv'
  <2>1. CASE call' = [call EXCEPT ![t] = Idle] /\ flock' = Unlocked(t)
    BY <1>6, <2>1 DEF Check, Unlocked, Idle
  <2>2. CASE flock' = flock /\ \E s \in {disk, Absent} :
                 call' = [call EXCEPT ![t].pc = "write", ![t].seen = s]
    BY <1>6, <2>2 DEF Check
  <2>3. QED
    BY <1>6, <2>1, <2>2 DEF Check
<1>7. ASSUME NEW t \in Threads, Write(t) PROVE LockInv' /\ StateInv'
  BY <1>7 DEF Write, Unlocked, Idle
<1>8. ASSUME NEW p \in Procs, Die(p) PROVE LockInv' /\ StateInv'
  BY <1>8 DEF Die, Idle
<1>9. ASSUME NEW r \in Runs, WineEnds(r) PROVE LockInv' /\ StateInv'
  BY <1>9 DEF WineEnds
<1>10. CASE Corruption
  BY <1>10 DEF Corruption
<1>11. CASE UNCHANGED vars
  BY <1>11 DEF vars
<1>12. QED
  BY <1>1, <1>2, <1>3, <1>4, <1>5, <1>6, <1>7, <1>8, <1>9, <1>10, <1>11
  DEF Next, CallStep

(* A wine child on record, in memory or on disk, has been spawned.         *)
LEMMA BornStep ==
    ASSUME TypeOK, StateInv, BornInv, WriteInv, [Next]_vars
    PROVE  BornInv'
<1> USE DEF TypeOK, BornInv, Record, Loaded
<1>1. ASSUME NEW t \in Threads, NewSession(t) PROVE BornInv'
  BY <1>1 DEF NewSession
<1>2. ASSUME NEW t \in Threads, LoadState(t) PROVE BornInv'
  BY <1>2 DEF LoadState
<1>3. ASSUME NEW t \in Threads, SpawnWine(t) PROVE BornInv'
  <2>1. \A r \in Runs : wine[r] # "unborn" => wine'[r] # "unborn"
    BY <1>3 DEF SpawnWine
  <2>2. wine'[mem[t].run] # "unborn" /\ mem'[t].run = mem[t].run
    BY <1>3 DEF SpawnWine
  <2>3. \A s \in Threads : s # t => mem'[s] = mem[s]
    BY <1>3 DEF SpawnWine
  <2>4. disk' = disk
    BY <1>3 DEF SpawnWine
  <2>5. QED
    BY <2>1, <2>2, <2>3, <2>4
<1>4. ASSUME NEW t \in Threads, Write(t) PROVE BornInv'
  <2>1. mem' = mem /\ wine' = wine /\ disk' = Effect(t)
    BY <1>4 DEF Write
  <2>2. CASE call[t].op = "save"
    BY <1>4, <2>1, <2>2 DEF Write, Effect, StateInv
  <2>3. CASE call[t].op \in {"clear", "clear_run"}
    BY <1>4, <2>1, <2>3 DEF Write, Effect
  <2>4. CASE call[t].op = "mark_detached"
    <3>1. Loaded(disk) /\ disk' = [disk EXCEPT !.detached = TRUE]
      BY <1>4, <2>1, <2>4 DEF Write, Effect, WriteInv, Allowed, MayMarkDetached
    <3>2. QED
      BY <2>1, <3>1
  <2>5. QED
    BY <2>2, <2>3, <2>4 DEF Call, Ops
<1>5. ASSUME NEW p \in Procs, Die(p) PROVE BornInv'
  BY <1>5 DEF Die
<1>6. ASSUME NEW r \in Runs, WineEnds(r) PROVE BornInv'
  BY <1>6 DEF WineEnds
<1>7. CASE Corruption
  BY <1>7 DEF Corruption
<1>8. ASSUME UNCHANGED <<disk, wine, mem>> PROVE BornInv'
  BY <1>8
<1>9. QED
  BY <1>1, <1>2, <1>3, <1>4, <1>5, <1>6, <1>7, <1>8
  DEF Next, CallStep, Begin, TakeLock, Check, vars

(* What a call was allowed to do at its load it is still allowed to do.    *)
LEMMA WriteStep ==
    ASSUME TypeOK, LockInv, StateInv, BornInv, WriteInv, [Next]_vars
    PROVE  WriteInv'
<1> SUFFICES ASSUME NEW t \in Threads, call'[t].pc = "write"
             PROVE  /\ Allowed(t)'
                    /\ call'[t].op = "mark_detached" => call'[t].seen = disk'
  BY DEF WriteInv
<1> DEFINE Kept == /\ Allowed(t)'
                   /\ call'[t].op = "mark_detached" => call'[t].seen = disk'
(* Threads that were past their load keep their call, and see only the     *)
(* world move; only Check brings a new one here.                           *)
<1> DEFINE Keeps == /\ call[t].pc = "write"
                    /\ call'[t] = call[t] /\ mem'[t] = mem[t] /\ disk' = disk
                    /\ up' \in SUBSET up /\ wine' \in [Runs -> WineStates]
                    /\ (Loaded(disk) /\ disk.child = "exact" /\ wine'[disk.run] = "alive")
                          => wine[disk.run] = "alive"
<1>1. ASSUME Keeps PROVE Kept
  <2>1. Allowed(t) /\ (call[t].op = "mark_detached" => call[t].seen = disk)
    BY <1>1 DEF WriteInv
  <2>2. QED
    BY <1>1, <2>1, AllowedStable
<1>2. ASSUME NEW u \in Threads, Check(u) PROVE Kept
  <2>1. CASE u = t
    <3>1. /\ Allowed(t)
          /\ call' = [call EXCEPT ![t].pc = "write",
                                  ![t].seen = IF call[t].op = "mark_detached" THEN disk ELSE Absent]
      BY <1>2, <2>1 DEF Check, TypeOK, Call, Idle
    <3>2. /\ call'[t].op = call[t].op
          /\ call[t].op = "mark_detached" => call'[t].seen = disk
      BY <3>1 DEF TypeOK, Call
    <3>3. disk' = disk /\ up' = up /\ wine' = wine /\ mem' = mem
      BY <1>2 DEF Check
    <3>4. QED
      BY <3>1, <3>2, <3>3, AllowedStable DEF TypeOK
  <2>2. CASE u # t
    <3>1. Keeps
      BY <1>2, <2>2 DEF Check, TypeOK
    <3>2. QED
      BY <1>1, <3>1
  <2>3. QED
    BY <2>1, <2>2
<1>3. ASSUME NEW u \in Threads,
             NewSession(u) \/ LoadState(u) \/ Begin(u) \/ TakeLock(u)
      PROVE Keeps
  BY <1>3 DEF NewSession, LoadState, Begin, TakeLock, TypeOK, Call
<1>4. ASSUME NEW u \in Threads, SpawnWine(u) PROVE Keeps
  BY <1>4 DEF SpawnWine, TypeOK, BornInv, Record, Loaded, WineStates
<1>5. ASSUME NEW u \in Threads, Write(u) PROVE FALSE
  <2>1. CASE u = t
    BY <1>5, <2>1 DEF Write, Idle, TypeOK
  <2>2. CASE u # t
    BY <1>5, <2>2 DEF Write, LockInv, TypeOK
  <2>3. QED
    BY <2>1, <2>2
<1>6. ASSUME NEW p \in Procs, Die(p) PROVE Keeps
  BY <1>6 DEF Die, TypeOK, Idle
<1>7. ASSUME NEW r \in Runs, WineEnds(r) PROVE Keeps
  BY <1>7 DEF WineEnds, TypeOK, WineStates, Loaded, Record
<1>8. ASSUME Corruption PROVE FALSE
  BY <1>8 DEF Corruption
<1>9. ASSUME UNCHANGED vars PROVE Keeps
  BY <1>9 DEF vars, TypeOK
<1> HIDE DEF Keeps
<1>10. Keeps \/ \E u \in Threads : Check(u)
  BY <1>3, <1>4, <1>5, <1>6, <1>7, <1>8, <1>9 DEF Next, CallStep
<1> HIDE DEF Kept
<1>11. Kept
  BY <1>1, <1>2, <1>10
<1>12. QED
  BY <1>11 DEF Kept

(* Every step is one atomic operation of the register, or a stutter.       *)
LEMMA StepRefines ==
    ASSUME TypeOK, StateInv, WriteInv, [Next]_vars
    PROVE  [RegNext]_regVars
<1>1. ASSUME NEW t \in Threads, Write(t) PROVE RegNext
  <2> DEFINE p == FrontEnd[t]
  <2>1. /\ p \in up /\ p \in Procs
        /\ mem[t] \in Record /\ mem[t].run \in Runs
        /\ Allowed(t)
        /\ disk' = Effect(t) /\ UNCHANGED <<up, wine>>
        /\ call[t].op = "mark_detached" => call[t].seen = disk
    BY <1>1 DEF Write, Runnable, TypeOK, StateInv, WriteInv, Record
  <2>2. CASE call[t].op = "save"
    <3>1. RegSave(p, mem[t])
      BY <2>1, <2>2 DEF RegSave, Allowed, Effect
    <3>2. QED
      BY <2>1, <3>1 DEF RegNext
  <2>3. CASE call[t].op = "clear"
    <3>1. RegClear(p)
      BY <2>1, <2>3 DEF RegClear, Allowed, Effect
    <3>2. QED
      BY <2>1, <3>1 DEF RegNext
  <2>4. CASE call[t].op = "clear_run"
    <3>1. RegClearRun(p, mem[t].run)
      BY <2>1, <2>4 DEF RegClearRun, Allowed, Effect
    <3>2. QED
      BY <2>1, <3>1 DEF RegNext
  <2>5. CASE call[t].op = "mark_detached"
    <3>1. RegMarkDetached(p, mem[t].run)
      BY <2>1, <2>5 DEF RegMarkDetached, Allowed, Effect
    <3>2. QED
      BY <2>1, <3>1 DEF RegNext
  <2>6. QED
    BY <2>2, <2>3, <2>4, <2>5 DEF TypeOK, Call, Ops
<1>2. ASSUME NEW t \in Threads, SpawnWine(t) PROVE RegNext
  <2>1. mem[t].run \in Runs /\ "alive" \in WineStates
    BY <1>2 DEF SpawnWine, TypeOK, Record, WineStates
  <2>2. QED
    BY <1>2, <2>1 DEF SpawnWine, RegNext, RegWorld
<1>3. ASSUME NEW p \in Procs, Die(p) PROVE RegNext
  BY <1>3 DEF Die, RegNext, RegWorld
<1>4. ASSUME NEW r \in Runs, WineEnds(r) PROVE RegNext
  BY <1>4 DEF WineEnds, RegNext, RegWorld, WineStates
<1>5. CASE Corruption
  BY <1>5 DEF Corruption, RegNext, RegWorld
<1>6. ASSUME UNCHANGED regVars PROVE [RegNext]_regVars
  BY <1>6
<1>7. QED
  BY <1>1, <1>2, <1>3, <1>4, <1>5, <1>6
  DEF Next, CallStep, NewSession, LoadState, Begin, TakeLock, Check, vars, regVars

(* The inductive invariant holds of every behaviour of Spec, in which the  *)
(* lock is waited for until it is there.                                   *)
LEMMA StoreInvariant == Spec => []IInv
<1>1. IInv /\ [Next]_vars => IInv'
  BY TypeInv, CallInv, BornStep, WriteStep DEF IInv
<1>2. QED
  BY <1>1, InitInv, PTL DEF Spec

(* Types: of the file, the lock and every call, in every behaviour whose   *)
(* lock never fails.                                                       *)
THEOREM StoreTypeOK == Spec => []TypeOK
  BY StoreInvariant, PTL DEF IInv

(* Atomicity: with the record lock in hand, save, clear, clear_run and     *)
(* mark_detached implement the atomic register, whatever the number of     *)
(* front-ends, threads and runs, and whatever dies between two steps.      *)
THEOREM StoreIsAtomic == Spec => AtomicStore
<1>1. Init => RegInit
  BY DEF Init
<1>2. IInv /\ [Next]_vars => [RegNext]_regVars
  BY StepRefines DEF IInv
<1>3. QED
  BY <1>1, <1>2, StoreInvariant, PTL DEF Spec, AtomicStore, RegSpec

(* A live session's record survives everybody else's save, clear and       *)
(* mark_detached, as long as the lock was obtained.                        *)
THEOREM StoreKeepsForeignRecords == Spec => ForeignRecordKept
<1>1. ASSUME IInv, [Next]_vars, NEW t \in Threads,
             call[t].pc = "write", Loaded(disk),
             HasLiveForeignOwner(disk, FrontEnd[t], up, wine), Write(t)
      PROVE  call[t].op = "save" /\ disk'.run = disk.run
  <2>1. Allowed(t) /\ call[t].op \in Ops
    BY <1>1 DEF IInv, WriteInv, TypeOK, Call
  <2>2. call[t].op = "save"
    BY <1>1, <2>1 DEF Allowed, MayClear, MayClearRun, MayMarkDetached, Ops
  <2>3. disk.run = mem[t].run
    BY <1>1, <2>1, <2>2 DEF Allowed, MaySave
  <2>4. QED
    BY <1>1, <2>2, <2>3 DEF Write, Effect
<1> DEFINE A == \A t \in Threads :
                   /\ call[t].pc = "write"
                   /\ Loaded(disk)
                   /\ HasLiveForeignOwner(disk, FrontEnd[t], up, wine)
                   /\ Write(t)
                   => call[t].op = "save" /\ disk'.run = disk.run
<1>2. IInv /\ [Next]_vars => [A]_vars
  BY <1>1
<1> HIDE DEF A
<1>3. Spec => [][A]_vars
  BY <1>2, StoreInvariant, PTL DEF Spec
<1>4. QED
  BY <1>3 DEF ForeignRecordKept, A

=============================================================================
