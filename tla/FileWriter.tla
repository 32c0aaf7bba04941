------------------------------ MODULE FileWriter ------------------------------
(***************************************************************************)
(* executor.rs: write_atomic, create_new, copy_if_changed and remove_file  *)
(* of the real executor on one path, called by tasks of several processes. *)
(* Each system call is a step; a process may die between any two of them   *)
(* and the power may go.  The directory is a journal of which the disk     *)
(* holds a prefix; a file's bytes are on the disk once it is fsynced.      *)
(***************************************************************************)
EXTENDS Naturals, Sequences

CONSTANTS Callers, Contents, None, Torn,
          MaxJournal  \* bound: calls begin while the journal is shorter than this

ASSUME WriterAssumption == None \notin Contents /\ Torn \notin Contents /\ MaxJournal \in Nat

VARIABLES journal,  \* what the name has been, as inodes: its bytes, its writer, fsynced or not
          flushed,  \* how much of the journal is on the disk
          call,     \* each caller's latest call, and the answer to it
          pc,       \* where the call is
          tmp,      \* the caller's sibling temporary file
          solid     \* the filesystem can sync a directory

writerVars == <<journal, flushed, call, pc, tmp, solid>>

Mapped == [i \in 1 .. Len(journal) |->
              [data |-> journal[i].data, firm |-> journal[i].by # "copy"]]

Abstract == INSTANCE AtomicFile WITH log <- Mapped, floor <- flushed

Rest == [op |-> "none", data |-> None, at |-> 0, said |-> "idle"]

Lost(r) == [op |-> r.op, data |-> r.data, at |-> r.at, said |-> "lost"]

Inode(v, by, synced) == [data |-> v, by |-> by, synced |-> synced]

NoTmp == Inode(None, "none", FALSE)

OnDisk == journal[Len(journal)].data

WriterInit ==
    /\ \E v \in Contents \cup {None} : journal = <<Inode(v, "none", TRUE)>>
    /\ flushed = 1
    /\ call = [c \in Callers |-> Rest]
    /\ pc = [c \in Callers |-> "idle"]
    /\ tmp = [c \in Callers |-> NoTmp]
    /\ solid \in BOOLEAN

Goto(c, label) == pc' = [pc EXCEPT ![c] = label]

(* The call returns; its temporary file is gone by then. *)
Return(c, answer) ==
    /\ call' = [call EXCEPT ![c].said = answer]
    /\ Goto(c, "idle")
    /\ tmp' = [tmp EXCEPT ![c] = NoTmp]

Begin(c, op, v) ==
    /\ pc[c] = "idle"
    /\ Len(journal) < MaxJournal
    /\ call' = [call EXCEPT ![c] = [op |-> op, data |-> v, at |-> 0, said |-> "nothing"]]
    /\ Goto(c, IF op = "remove" THEN "publish" ELSE "open")
    /\ UNCHANGED <<journal, flushed, tmp, solid>>

BeginAny(c) ==
    \/ \E op \in {"write", "create", "copy"}, v \in Contents : Begin(c, op, v)
    \/ Begin(c, "remove", None)

(* copy_if_changed compares first, and copies nothing onto the same bytes. *)
Unchanged(c) ==
    /\ pc[c] = "open"
    /\ call[c].op = "copy"
    /\ OnDisk = call[c].data
    /\ Return(c, "same")
    /\ UNCHANGED <<journal, flushed, solid>>

(* The temporary file is created and filled.  A kill in the middle leaves  *)
(* it under its own name, which nothing reads.                             *)
Stage(c) ==
    /\ pc[c] = "open"
    /\ call[c].op = "copy" => OnDisk # call[c].data
    /\ tmp' = [tmp EXCEPT ![c] = Inode(call[c].data, call[c].op, FALSE)]
    /\ Goto(c, IF call[c].op = "copy" THEN "publish" ELSE "sync")
    /\ UNCHANGED <<journal, flushed, call, solid>>

(* Slip: the temporary file is not fsynced before the rename.              *)
SkipSync(c) ==
    /\ pc[c] = "sync"
    /\ Goto(c, "publish")
    /\ UNCHANGED <<journal, flushed, call, tmp, solid>>

(* fsync of the temporary file, before it gets its name. *)
SyncTmp(c) ==
    /\ pc[c] = "sync"
    /\ tmp' = [tmp EXCEPT ![c].synced = TRUE]
    /\ Goto(c, "publish")
    /\ UNCHANGED <<journal, flushed, call, solid>>

(* rename, link or unlink: the name changes and nothing else does. *)
Publish(c) ==
    /\ pc[c] = "publish"
    /\ call[c].op = "create" => OnDisk = None
    /\ journal' = Append(journal, IF call[c].op = "remove" THEN Inode(None, "remove", TRUE)
                                                            ELSE tmp[c])
    /\ call' = [call EXCEPT ![c].at = Len(journal) + 1]
    /\ tmp' = [tmp EXCEPT ![c] = NoTmp]
    /\ Goto(c, "settle")
    /\ UNCHANGED <<flushed, solid>>

(* link refuses a name that exists: somebody else created the file. *)
LoseCreate(c) ==
    /\ pc[c] = "publish"
    /\ call[c].op = "create"
    /\ OnDisk # None
    /\ Return(c, "exists")
    /\ UNCHANGED <<journal, flushed, solid>>

(* sync_parent_dir for a write and a create; a filesystem that cannot do   *)
(* it is let off.  A copy and a remove return as they are.                 *)
Settle(c) ==
    /\ pc[c] = "settle"
    /\ flushed' = IF call[c].op \in {"write", "create"} /\ solid THEN Len(journal) ELSE flushed
    /\ Return(c, "ok")
    /\ UNCHANGED <<journal, solid>>

(* A cancelled token, a full disk, EIO: any step may fail, the last sync   *)
(* included, and the caller is told even when the new bytes are in place.  *)
Broken(c) ==
    /\ pc[c] \in {"open", "sync", "publish", "settle"}
    /\ Return(c, "err")
    /\ UNCHANGED <<journal, flushed, solid>>

Killed(c) ==
    /\ pc[c] # "idle"
    /\ Return(c, "lost")
    /\ UNCHANGED <<journal, flushed, solid>>

(* The disk keeps a prefix of the journal, no shorter than what was synced; *)
(* a file whose bytes were never synced may read as rubbish.               *)
LosePower ==
    \E keep \in flushed .. Len(journal) :
       \E torn \in SUBSET {i \in 1 .. keep : ~journal[i].synced} :
          /\ journal' = [i \in 1 .. keep |->
                            IF i \in torn THEN Inode(Torn, journal[i].by, FALSE) ELSE journal[i]]
          /\ flushed' = keep
          /\ call' = [c \in Callers |-> IF pc[c] = "idle" THEN call[c] ELSE Lost(call[c])]
          /\ pc' = [c \in Callers |-> "idle"]
          /\ tmp' = [c \in Callers |-> NoTmp]
          /\ UNCHANGED solid

WriterNext ==
    \/ \E c \in Callers :
          \/ BeginAny(c) \/ Unchanged(c) \/ Stage(c) \/ SyncTmp(c) \/ Publish(c)
          \/ LoseCreate(c) \/ Settle(c) \/ Broken(c) \/ Killed(c)
    \/ LosePower

WriterSpec == WriterInit /\ [][WriterNext]_writerVars

Ops == {"write", "create", "copy", "remove"}

Inodes == [data : Contents \cup {None, Torn}, by : Ops \cup {"none"}, synced : BOOLEAN]

Calls == [op : Ops \cup {"none"}, data : Contents \cup {None}, at : Nat,
          said : {"idle", "nothing", "ok", "exists", "same", "err", "lost"}]

WriterTypeOK ==
    /\ journal \in Seq(Inodes)
    /\ flushed \in 1 .. Len(journal)
    /\ call \in [Callers -> Calls]
    /\ pc \in [Callers -> {"idle", "open", "sync", "publish", "settle"}]
    /\ tmp \in [Callers -> Inodes]
    /\ solid \in BOOLEAN

(* A file written through the executor behaves as AtomicFile says: whole   *)
(* values only, one winner of a create, and an answered write or create    *)
(* survives the loss of power.                                             *)
FileIsAtomic == Abstract!FileSpec
=============================================================================
