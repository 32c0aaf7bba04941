-------------------------- MODULE OperationLockProofs --------------------------
(***************************************************************************)
(* What holds of the operation lock for any number of processes and        *)
(* operations.  The inductive invariant says who owns which half: the      *)
(* mutex of a process is held exactly by its one operation between taking  *)
(* it and giving it back, the file by that operation or by a probe, and an *)
(* operation past the file's poll has the file unless its process is one   *)
(* of Unfiled.  NoEditUnderGame is inductive on top of that: only Recheck  *)
(* starts an edit, with no game up, and only a launch that holds the same  *)
(* lock starts a game.                                                     *)
(***************************************************************************)
EXTENDS OperationLock, TLAPS

(* Between taking the mutex and giving it back. *)
Inside == {"file", "recheck", "working", "dropFile", "dropMutex"}

MutexOwned ==
    \A o \in Ops : pc[o] \in Inside => mutex[Home[o]] = o

FileOwned ==
    /\ flock # NoOne => pc[flock] \in Holding \cup {"probing"}
    /\ \A o \in Ops :
          pc[o] = "probing" \/ (pc[o] \in Holding /\ Home[o] \notin Unfiled) => flock = o

IInv == TypeOK /\ MutexOwned /\ FileOwned /\ NoEditUnderGame

LEMMA InitIInv == Init => IInv
BY OpsAssumption DEF Init, IInv, TypeOK, MutexOwned, FileOwned, NoEditUnderGame, Places, Inside,
   Holding, Edits

LEMMA TypeStep == TypeOK /\ [Next]_vars => TypeOK'
<1> SUFFICES ASSUME TypeOK, [Next]_vars PROVE TypeOK'
  OBVIOUS
<1> USE OpsAssumption DEF TypeOK, Places
<1>1. ASSUME NEW o \in Ops, Start(o) PROVE TypeOK'
  BY <1>1 DEF Start, At, Go
<1>2. ASSUME NEW o \in Ops, Probe(o) PROVE TypeOK'
  BY <1>2 DEF Probe, At, Go
<1>3. ASSUME NEW o \in Ops, EndProbe(o) PROVE TypeOK'
  BY <1>3 DEF EndProbe, At, Go
<1>4. ASSUME NEW o \in Ops, TakeMutex(o) PROVE TypeOK'
  BY <1>4 DEF TakeMutex, At, Go
<1>5. ASSUME NEW o \in Ops, TakeFile(o) \/ NoLockFile(o) PROVE TypeOK'
  BY <1>5 DEF TakeFile, NoLockFile, At, Go
<1>6. ASSUME NEW o \in Ops, CancelWait(o) \/ DropMutex(o) PROVE TypeOK'
  BY <1>6 DEF CancelWait, DropMutex, MutexFreed, At, Go
<1>7. ASSUME NEW o \in Ops, Recheck(o) PROVE TypeOK'
  BY <1>7 DEF Recheck, At, Go
<1>8. ASSUME NEW o \in Ops, Work(o) PROVE TypeOK'
  BY <1>8 DEF Work, At, Go, Kinds
<1>9. ASSUME NEW o \in Ops, DropFile(o) PROVE TypeOK'
  BY <1>9 DEF DropFile, At, Go
<1>10. ASSUME NEW o \in Ops, RequestCancel(o) \/ GameEnds(o) PROVE TypeOK'
  BY <1>10 DEF RequestCancel, GameEnds
<1>11. ASSUME NEW p \in Procs, Die(p) PROVE TypeOK'
  BY <1>11 DEF Die
<1>12. CASE UNCHANGED vars
  BY <1>12 DEF vars
<1> QED
  BY <1>1, <1>2, <1>3, <1>4, <1>5, <1>6, <1>7, <1>8, <1>9, <1>10, <1>11, <1>12 DEF Next, Step

LEMMA MutexStep == TypeOK /\ MutexOwned /\ [Next]_vars => MutexOwned'
<1> SUFFICES ASSUME TypeOK, MutexOwned, [Next]_vars PROVE MutexOwned'
  OBVIOUS
<1> USE OpsAssumption DEF TypeOK, MutexOwned, Inside
<1>1. ASSUME NEW o \in Ops, Start(o) \/ Probe(o) \/ EndProbe(o) PROVE MutexOwned'
  BY <1>1 DEF Start, Probe, EndProbe, At, Go
<1>2. ASSUME NEW o \in Ops, TakeMutex(o) PROVE MutexOwned'
  BY <1>2 DEF TakeMutex, At, Go
<1>3. ASSUME NEW o \in Ops, TakeFile(o) \/ NoLockFile(o) \/ Recheck(o) PROVE MutexOwned'
  BY <1>3 DEF TakeFile, NoLockFile, Recheck, At, Go
<1>4. ASSUME NEW o \in Ops, CancelWait(o) \/ DropMutex(o) PROVE MutexOwned'
  BY <1>4 DEF CancelWait, DropMutex, MutexFreed, At, Go
<1>5. ASSUME NEW o \in Ops, Work(o) \/ DropFile(o) PROVE MutexOwned'
  BY <1>5 DEF Work, DropFile, At, Go
<1>6. ASSUME NEW o \in Ops, RequestCancel(o) \/ GameEnds(o) PROVE MutexOwned'
  BY <1>6 DEF RequestCancel, GameEnds
<1>7. ASSUME NEW p \in Procs, Die(p) PROVE MutexOwned'
  BY <1>7 DEF Die
<1>8. CASE UNCHANGED vars
  BY <1>8 DEF vars
<1> QED
  BY <1>1, <1>2, <1>3, <1>4, <1>5, <1>6, <1>7, <1>8 DEF Next, Step

LEMMA FileStep == TypeOK /\ FileOwned /\ [Next]_vars => FileOwned'
<1> SUFFICES ASSUME TypeOK, FileOwned, [Next]_vars PROVE FileOwned'
  OBVIOUS
<1> USE OpsAssumption DEF TypeOK, FileOwned, Holding
<1>1. ASSUME NEW o \in Ops, Start(o) PROVE FileOwned'
  BY <1>1 DEF Start, At, Go
<1>2. ASSUME NEW o \in Ops, Probe(o) \/ EndProbe(o) PROVE FileOwned'
  BY <1>2 DEF Probe, EndProbe, At, Go
<1>3. ASSUME NEW o \in Ops, TakeMutex(o) \/ CancelWait(o) PROVE FileOwned'
  BY <1>3 DEF TakeMutex, CancelWait, At, Go
<1>4. ASSUME NEW o \in Ops, TakeFile(o) \/ NoLockFile(o) PROVE FileOwned'
  BY <1>4 DEF TakeFile, NoLockFile, At, Go
<1>5. ASSUME NEW o \in Ops, Recheck(o) \/ Work(o) PROVE FileOwned'
  BY <1>5 DEF Recheck, Work, At, Go
<1>6. ASSUME NEW o \in Ops, DropFile(o) \/ DropMutex(o) PROVE FileOwned'
  BY <1>6 DEF DropFile, DropMutex, At, Go
<1>7. ASSUME NEW o \in Ops, RequestCancel(o) \/ GameEnds(o) PROVE FileOwned'
  BY <1>7 DEF RequestCancel, GameEnds
<1>8. ASSUME NEW p \in Procs, Die(p) PROVE FileOwned'
  BY <1>8 DEF Die
<1>9. CASE UNCHANGED vars
  BY <1>9 DEF vars
<1> QED
  BY <1>1, <1>2, <1>3, <1>4, <1>5, <1>6, <1>7, <1>8, <1>9 DEF Next, Step

(* One operation inside each process, and one with the file. *)
LEMMA Exclusion ==
    ASSUME TypeOK, MutexOwned, FileOwned, NEW o \in Ops, NEW q \in Ops,
           pc[o] \in Holding, pc[q] \in Holding, o # q
    PROVE  Home[o] # Home[q] /\ {Home[o], Home[q]} \cap Unfiled # {}
BY DEF MutexOwned, FileOwned, Inside, Holding

LEMMA EditStep == IInv /\ [Next]_vars => NoEditUnderGame'
<1> SUFFICES ASSUME IInv, [Next]_vars PROVE NoEditUnderGame'
  OBVIOUS
<1> USE OpsAssumption DEF IInv, TypeOK, NoEditUnderGame, Edits
<1>1. ASSUME NEW o \in Ops, Start(o) \/ Probe(o) \/ EndProbe(o) \/ TakeMutex(o) PROVE NoEditUnderGame'
  BY <1>1 DEF Start, Probe, EndProbe, TakeMutex, At, Go
<1>2. ASSUME NEW o \in Ops, TakeFile(o) \/ NoLockFile(o) \/ CancelWait(o) PROVE NoEditUnderGame'
  BY <1>2 DEF TakeFile, NoLockFile, CancelWait, At, Go
<1>3. ASSUME NEW o \in Ops, Recheck(o) PROVE NoEditUnderGame'
  BY <1>3 DEF Recheck, Refused, At, Go
<1>4. ASSUME NEW o \in Ops, Work(o) PROVE NoEditUnderGame'
  <2> SUFFICES ASSUME NEW e \in Ops, NEW g \in game', Edits(e), pc'[e] = "working"
               PROVE Home[e] # Home[g] /\ {Home[e], Home[g]} \cap Unfiled # {}
    BY DEF NoEditUnderGame
  <2>1. e # o /\ pc[e] = "working" /\ pc[o] = "working"
    BY <1>4 DEF Work, At, Go
  <2>2. CASE g \in game
    BY <2>1, <2>2
  <2>3. CASE g \notin game
    <3>1. g = o
      BY <1>4, <2>3 DEF Work, Kinds
    <3> QED
      BY <2>1, <3>1, Exclusion DEF Holding
  <2> QED
    BY <2>2, <2>3
<1>5. ASSUME NEW o \in Ops, DropFile(o) \/ DropMutex(o) PROVE NoEditUnderGame'
  BY <1>5 DEF DropFile, DropMutex, At, Go
<1>6. ASSUME NEW o \in Ops, RequestCancel(o) \/ GameEnds(o) PROVE NoEditUnderGame'
  BY <1>6 DEF RequestCancel, GameEnds
<1>7. ASSUME NEW p \in Procs, Die(p) PROVE NoEditUnderGame'
  BY <1>7 DEF Die
<1>8. CASE UNCHANGED vars
  BY <1>8 DEF vars
<1> QED
  BY <1>1, <1>2, <1>3, <1>4, <1>5, <1>6, <1>7, <1>8 DEF Next, Step

LEMMA IInvHolds == Spec => []IInv
<1>1. IInv /\ [Next]_vars => IInv'
  BY TypeStep, MutexStep, FileStep, EditStep DEF IInv
<1> QED
  BY InitIInv, <1>1, PTL DEF Spec

-----------------------------------------------------------------------------
(* Whatever operations contend, an install, build, setup, gated fix or     *)
(* Goldberg revert never works while a game a Sabrage launch started runs, *)
(* unless one of the two processes could not establish the file lock       *)
(* (run_stage's refusal after the wait and the launch boundary).           *)
THEOREM NoEditUnderAnyGame == Spec => []NoEditUnderGame
<1>1. IInv => NoEditUnderGame
  BY DEF IInv
<1> QED
  BY IInvHolds, <1>1, PTL

(* The in-process half excludes by itself, file lock or not                *)
(* (OPERATION_LOCK).                                                       *)
THEOREM OneOperationPerProcess == Spec => []OnePerProcess
<1>1. IInv => OnePerProcess
  BY Exclusion DEF IInv, OnePerProcess
<1> QED
  BY IInvHolds, <1>1, PTL

(* The release order of OperationGuard: whoever is handed the mutex finds  *)
(* no guard of its own process on the file.                                *)
THEOREM MutexHandedOverUnlocked == Spec => []HandedOverUnlocked
<1>1. IInv => HandedOverUnlocked
  BY OpsAssumption DEF IInv, TypeOK, MutexOwned, FileOwned, HandedOverUnlocked, Inside, Holding
<1> QED
  BY IInvHolds, <1>1, PTL
=============================================================================
