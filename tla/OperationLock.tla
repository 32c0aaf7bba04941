---------------------------- MODULE OperationLock -----------------------------
(***************************************************************************)
(* The operation lock of stages/mod.rs and the doors behind it: run_stage  *)
(* and the store's Goldberg revert take an in-process tokio Mutex, then an *)
(* flock shared by every Sabrage process, look once more whether a session *)
(* is live, and work.  A launch gives both halves back while its game      *)
(* runs, so what keeps the others from replacing files under the game is   *)
(* the lock and the second look together.                                  *)
(*                                                                         *)
(* Session takes this lock for one variable; here it is the two halves,    *)
(* taken by polling, given back one after the other, and missing (the      *)
(* "Unavailable" of acquire_lock_file) in a process that cannot open it.   *)
(***************************************************************************)
EXTENDS Naturals

CONSTANTS Ops,      \* operations asked for, each once
          Procs,    \* Sabrage processes
          Home,     \* the process an operation runs in
          Kind,     \* what it is
          Unfiled,  \* processes that may fail to establish the file lock
          NoOne

(* "edit": setup, build, install, a gated fix; "revert": the Goldberg      *)
(* revert, which neither looks before the lock nor can be cancelled.       *)
Kinds == {"edit", "revert", "run", "stop"}

ASSUME OpsAssumption ==
    /\ Home \in [Ops -> Procs]
    /\ Kind \in [Ops -> Kinds]
    /\ Unfiled \subseteq Procs
    /\ NoOne \notin Ops

VARIABLES pc,      \* where each operation is
          mutex,   \* OPERATION_LOCK of each process
          flock,   \* the operation whose File has operation.lock locked
          game,    \* launches whose game runs
          cancel,  \* operations whose token fired
          up       \* processes alive

vars == <<pc, mutex, flock, game, cancel, up>>

Waiting == {"mutex", "file"}
Holding == {"recheck", "working", "dropFile"}      \* both halves, as far as there are two

Init ==
    /\ pc = [o \in Ops |-> "new"]
    /\ mutex = [p \in Procs |-> NoOne]
    /\ flock = NoOne
    /\ game = {}
    /\ cancel = {}
    /\ up = Procs

At(o, at) == pc[o] = at /\ Home[o] \in up

Go(o, at) == pc' = [pc EXCEPT ![o] = at]

(* deny_stage_while_session_live and run's own launch_block: only stop is  *)
(* let past a live session.                                                *)
Refused(o) == game # {} /\ Kind[o] # "stop"

-----------------------------------------------------------------------------
(* run_stage: the refusal that saves a pointless wait (a launch has none), *)
(* then the events and the question whether there will be a wait.          *)
Start(o) ==
    /\ At(o, "new")
    /\ CASE Kind[o] = "revert"               -> Go(o, "mutex")
         [] Kind[o] = "edit" /\ game # {}    -> Go(o, "done")
         [] OTHER                            -> Go(o, "probe")
    /\ UNCHANGED <<mutex, flock, game, cancel, up>>

(* operation_in_progress_anywhere: the mutex held, or no file to open, or  *)
(* the file locked; else the probe itself has it for an instant.           *)
Probe(o) ==
    /\ At(o, "probe")
    /\ \/ Go(o, "mutex") /\ UNCHANGED flock
       \/ /\ mutex[Home[o]] = NoOne /\ flock = NoOne
          /\ flock' = o
          /\ Go(o, "probing")
    /\ UNCHANGED <<mutex, game, cancel, up>>

EndProbe(o) ==
    /\ At(o, "probing")
    /\ flock' = NoOne
    /\ Go(o, "mutex")
    /\ UNCHANGED <<mutex, game, cancel, up>>

(* Slip: `let _ = OPERATION_LOCK.lock().await`.                            *)
TakeMutexAndDropIt(o) ==
    /\ At(o, "mutex") /\ o \notin cancel
    /\ mutex[Home[o]] = NoOne
    /\ Go(o, "file")
    /\ UNCHANGED <<mutex, flock, game, cancel, up>>

(* The biased select: the token first, then the mutex.                     *)
TakeMutex(o) ==
    /\ At(o, "mutex") /\ o \notin cancel
    /\ mutex[Home[o]] = NoOne
    /\ mutex' = [mutex EXCEPT ![Home[o]] = o]
    /\ Go(o, "file")
    /\ UNCHANGED <<flock, game, cancel, up>>

(* Slip: the holder is known by its process, as the file's text has it.    *)
TakeFileByPid(o) ==
    /\ At(o, "file") /\ o \notin cancel
    /\ flock = NoOne
    /\ flock' = Home[o]
    /\ Go(o, "recheck")
    /\ UNCHANGED <<mutex, game, cancel, up>>

(* One round of acquire_lock_file's poll that finds the lock free, or that *)
(* cannot lock the file at all and does without.                           *)
TakeFile(o) ==
    /\ At(o, "file") /\ o \notin cancel
    /\ flock = NoOne
    /\ flock' = o
    /\ Go(o, "recheck")
    /\ UNCHANGED <<mutex, game, cancel, up>>

NoLockFile(o) ==
    /\ At(o, "file") /\ Home[o] \in Unfiled
    /\ Go(o, "recheck")
    /\ UNCHANGED <<mutex, flock, game, cancel, up>>

MutexFreed(o) == [mutex EXCEPT ![Home[o]] = IF @ = o THEN NoOne ELSE @]

(* Slip: the poll sleeps without selecting on the token.                   *)
CancelMutexWait(o) ==
    /\ At(o, "mutex") /\ o \in cancel
    /\ Go(o, "done")
    /\ UNCHANGED <<mutex, flock, game, cancel, up>>

(* Either wait ends when the token fires; the mutex, if taken, goes back.  *)
CancelWait(o) ==
    /\ At(o, "mutex") \/ At(o, "file")
    /\ o \in cancel
    /\ mutex' = MutexFreed(o)
    /\ Go(o, "done")
    /\ UNCHANGED <<flock, game, cancel, up>>

(* Slip: the answer from before the wait is still good.                    *)
Proceed(o) ==
    /\ At(o, "recheck")
    /\ Go(o, "working")
    /\ UNCHANGED <<mutex, flock, game, cancel, up>>

(* deny_before_dispatch again, the lock in hand. *)
Recheck(o) ==
    /\ At(o, "recheck")
    /\ Go(o, IF Refused(o) THEN "dropFile" ELSE "working")
    /\ UNCHANGED <<mutex, flock, game, cancel, up>>

-----------------------------------------------------------------------------
(* The operation's own work, for as long as it likes: it ends; a launch    *)
(* has its game up, visible to every process, before it drops the guard; a *)
(* stop takes the games down.                                              *)
Work(o) ==
    /\ At(o, "working")
    /\ game' \in CASE Kind[o] = "run"  -> {game, game \cup {o}}
                   [] Kind[o] = "stop" -> {game, {}}
                   [] OTHER            -> {game}
    /\ Go(o, "dropFile")
    /\ UNCHANGED <<mutex, flock, cancel, up>>

(* Slip: the mutex goes first and the file is left open.                   *)
DropMutexFirst(o) ==
    /\ At(o, "dropFile")
    /\ mutex' = MutexFreed(o)
    /\ Go(o, "dropMutex")
    /\ UNCHANGED <<flock, game, cancel, up>>

(* OperationGuard's fields drop in order: the file, then the mutex.        *)
DropFile(o) ==
    /\ At(o, "dropFile")
    /\ flock' = IF flock = o THEN NoOne ELSE flock
    /\ Go(o, "dropMutex")
    /\ UNCHANGED <<mutex, game, cancel, up>>

DropMutex(o) ==
    /\ At(o, "dropMutex")
    /\ mutex' = MutexFreed(o)
    /\ Go(o, "done")
    /\ UNCHANGED <<flock, game, cancel, up>>

-----------------------------------------------------------------------------
RequestCancel(o) ==
    /\ Kind[o] # "revert" /\ pc[o] # "done" /\ o \notin cancel
    /\ cancel' = cancel \cup {o}
    /\ UNCHANGED <<pc, mutex, flock, game, up>>

GameEnds(o) ==
    /\ o \in game
    /\ game' = game \ {o}
    /\ UNCHANGED <<pc, mutex, flock, cancel, up>>

(* A process dies; the kernel drops its flock, its game plays on.          *)
Die(p) ==
    /\ p \in up
    /\ up' = up \ {p}
    /\ pc' = [o \in Ops |-> IF Home[o] = p THEN "done" ELSE pc[o]]
    /\ mutex' = [mutex EXCEPT ![p] = NoOne]
    /\ flock' = IF flock # NoOne /\ Home[flock] = p THEN NoOne ELSE flock
    /\ UNCHANGED <<game, cancel>>

Step(o) ==
    \/ Start(o) \/ Probe(o) \/ EndProbe(o) \/ TakeMutex(o) \/ TakeFile(o) \/ NoLockFile(o)
    \/ CancelWait(o) \/ Recheck(o) \/ Work(o) \/ DropFile(o) \/ DropMutex(o)

Next ==
    \/ \E o \in Ops : Step(o) \/ RequestCancel(o) \/ GameEnds(o)
    \/ \E p \in Procs : Die(p)

Spec == Init /\ [][Next]_vars

(* Only the waits are scheduled: an operation that holds the lock may work *)
(* for as long as it likes.                                                *)
FairSpec == Spec /\ \A o \in Ops : WF_vars(CancelWait(o))

-----------------------------------------------------------------------------
Places == {"new", "probe", "probing", "mutex", "file", "recheck", "working", "dropFile",
           "dropMutex", "done"}

(* The types of the two halves and of the operations' places. *)
TypeOK ==
    /\ pc \in [Ops -> Places]
    /\ mutex \in [Procs -> Ops \cup {NoOne}]
    /\ flock \in Ops \cup {NoOne}
    /\ game \subseteq Ops
    /\ cancel \subseteq Ops
    /\ up \subseteq Procs

Edits(o) == Kind[o] \in {"edit", "revert"}

(* Files a game has open are never being replaced while it runs: a live    *)
(* session refuses the edit, a launch waits for it -- except between two   *)
(* processes one of which has no file lock (run_stage's second refusal,    *)
(* "with the lock held so the answer cannot go stale again").              *)
NoEditUnderGame ==
    \A o \in Ops, g \in game :
        Edits(o) /\ pc[o] = "working" =>
            Home[o] # Home[g] /\ {Home[o], Home[g]} \cap Unfiled # {}

(* One mutating operation at a time in each process, file lock or not      *)
(* (OPERATION_LOCK).                                                       *)
OnePerProcess ==
    \A o, q \in Ops : pc[o] \in Holding /\ pc[q] \in Holding /\ Home[o] = Home[q] => o = q

(* "a waiter that has just been handed the mutex can never find the file   *)
(* still locked by the process that handed it over" (OperationGuard): a    *)
(* probe aside, which is not the hand-over.                                *)
HandedOverUnlocked ==
    \A o \in Ops : pc[o] = "file" /\ flock # NoOne /\ pc[flock] # "probing" =>
        Home[flock] # Home[o]

(* A Stop reaches an operation that waits, in either wait, whoever holds   *)
(* the lock and for however long (acquire_operation_lock_cancellable).     *)
CancelledWaitEnds ==
    \A o \in Ops : pc[o] \in Waiting /\ o \in cancel ~> pc[o] \notin Waiting
=============================================================================
