------------------------------ MODULE AtomicFile ------------------------------
(***************************************************************************)
(* What executor.rs promises of a file it writes.  The file is the log of  *)
(* the values it has had; a call appends to it at one instant, so a reader *)
(* only ever sees a whole value; a process that dies takes nothing back; a *)
(* power loss cuts a tail off the log, but never below the floor, and the  *)
(* answer to a write or a create waits until the floor has passed it.  A   *)
(* copy is held to less: it is answered at once, and a power loss may      *)
(* leave rubbish in its place.  FileWriter is the code that implements     *)
(* this with a temporary file, two fsyncs and a rename or a link.          *)
(***************************************************************************)
EXTENDS Naturals, Sequences

CONSTANTS Callers,   \* tasks, of any process, that write the file
          Contents,  \* what they write
          None,      \* no file of that name
          Torn       \* an unsynced file as a power loss leaves it

Values == Contents \cup {None, Torn}

FileOps == {"write", "create", "copy", "remove"}

(* The calls whose success is a promise about a power loss. *)
Durable == {"write", "create"}

VARIABLES log,    \* the values of the file, the last one is what readers see
          floor,  \* how much of the log a power loss cannot take
          call,   \* each caller's latest call, and the answer to it
          solid   \* the filesystem can sync a directory

fileVars == <<log, floor, call, solid>>

Idle == [op |-> "none", data |-> None, at |-> 0, said |-> "idle"]

Lost(r) == [op |-> r.op, data |-> r.data, at |-> r.at, said |-> "lost"]

Current == log[Len(log)].data

FileInit ==
    /\ \E v \in Contents \cup {None} : log = <<[data |-> v, firm |-> TRUE]>>
    /\ floor = 1
    /\ call = [c \in Callers |-> Idle]
    /\ solid \in BOOLEAN

Running(c) == call[c].said = "nothing"

Says(c, answer) == call' = [call EXCEPT ![c].said = answer]

Ask(c, op, v) ==
    /\ ~Running(c)
    /\ call' = [call EXCEPT ![c] = [op |-> op, data |-> v, at |-> 0, said |-> "nothing"]]
    /\ UNCHANGED <<log, floor, solid>>

TakeEffect(c) ==
    /\ Running(c)
    /\ call[c].at = 0
    /\ call[c].op = "create" => Current = None
    /\ log' = Append(log, [data |-> call[c].data, firm |-> call[c].op # "copy"])
    /\ call' = [call EXCEPT ![c].at = Len(log) + 1]
    /\ UNCHANGED <<floor, solid>>

Succeed(c) ==
    /\ Running(c)
    /\ call[c].at # 0
    /\ floor' \in floor .. Len(log)
    /\ solid /\ call[c].op \in Durable => floor' >= call[c].at
    /\ Says(c, "ok")
    /\ UNCHANGED <<log, solid>>

(* A create that lost to another, a copy of what is there already. *)
Decline(c) ==
    /\ Running(c)
    /\ call[c].at = 0
    /\ \/ call[c].op = "create" /\ Current # None /\ Says(c, "exists")
       \/ call[c].op = "copy" /\ Current = call[c].data /\ Says(c, "same")
    /\ UNCHANGED <<log, floor, solid>>

Fail(c) ==
    /\ Running(c)
    /\ \E answer \in {"err", "lost"} : Says(c, answer)
    /\ UNCHANGED <<log, floor, solid>>

PowerLoss ==
    \E keep \in floor .. Len(log) :
       \E torn \in SUBSET {i \in 1 .. keep : ~log[i].firm} :
          /\ log' = [i \in 1 .. keep |->
                        IF i \in torn THEN [data |-> Torn, firm |-> FALSE] ELSE log[i]]
          /\ floor' = keep
          /\ call' = [c \in Callers |->
                         IF Running(c) THEN Lost(call[c]) ELSE call[c]]
          /\ UNCHANGED solid

FileNext ==
    \/ PowerLoss
    \/ \E c \in Callers :
          \/ TakeEffect(c) \/ Succeed(c) \/ Decline(c) \/ Fail(c)
          \/ \E op \in FileOps, v \in Values : Ask(c, op, v)

FileSpec == FileInit /\ [][FileNext]_fileVars
=============================================================================
