-------------------------------- MODULE Tailer ---------------------------------
(***************************************************************************)
(* logs.rs Tailer and the command that runs it: one log pane's tail of one *)
(* path, polled four times a second while a writer appends, truncates in   *)
(* place, renames the file away and creates it anew, or deletes it.  The   *)
(* system calls of a poll are steps, so the writer comes between any two.  *)
(* A line is its incarnation of the file and its number in it: no two are  *)
(* alike, so the continuity signature is the line before the cursor.       *)
(***************************************************************************)
EXTENDS Naturals, Sequences

CONSTANTS MaxIncarnations,  \* bound: times the file is begun
          MaxFileLines,     \* bound: lines in each
          MaxDeletes,       \* bound: times it is deleted
          Cap,              \* MAX_LINES_PER_POLL
          Budget,           \* POLL_BYTE_BUDGET, in reads of one line
          Preloads          \* tail_lines: 0 for a pane that reads from the start

ASSUME TailAssumption == MaxIncarnations \in Nat \ {0} /\ Cap \in Nat /\ Preloads \subseteq Nat

Inodes == 1 .. MaxIncarnations
NoInode == 0

VARIABLES content,  \* the lines of each inode, named or not
          named,    \* the inode the path names
          age,      \* incarnations so far
          deletes,
          tail,     \* the Tailer, and whether its polling task runs
          poll,     \* the poll in progress
          told,     \* every line sent to the pane
          cleared   \* how many of them it has cleared since

fileVars == <<content, named, age, deletes>>
paneVars == <<told, cleared>>
tailVars == <<fileVars, tail, poll, paneVars>>

(* open and id are None together; the identity is of the stat, the handle  *)
(* of the open after it.                                                   *)
Fresh(ino, id) == [task |-> "runs", open |-> ino, id |-> id, offset |-> 0, sig |-> <<>>,
                   pending |-> <<>>, carry |-> 0, marker |-> FALSE, blended |-> FALSE]

AtRest == [pc |-> "rest", id |-> NoInode, len |-> 0, rotated |-> FALSE, reads |-> 0,
           before |-> 0, sig |-> <<>>, pending |-> 0, mixed |-> FALSE]

(* read_signature: what the file behind a handle has before an offset. *)
Signature(ino, offset) ==
    IF offset = 0 \/ offset > Len(content[ino]) THEN <<>> ELSE <<content[ino][offset]>>

LastOf(s, n) == SubSeq(s, IF Len(s) > n THEN Len(s) - n + 1 ELSE 1, Len(s))

TailInit ==
    /\ content = [i \in Inodes |-> <<>>]
    /\ age \in {0, 1} /\ named = age
    /\ deletes = 0
    /\ tail = [Fresh(NoInode, NoInode) EXCEPT !.task = "none"]
    /\ poll = AtRest
    /\ told = <<>> /\ cleared = 0
-----------------------------------------------------------------------------
AppendLine ==
    /\ named # NoInode
    /\ Len(content[named]) < MaxFileLines
    /\ content' = [content EXCEPT ![named] = Append(@, [inc |-> age, n |-> Len(@) + 1])]
    /\ UNCHANGED <<named, age, deletes, tail, poll, paneVars>>

(* ALVR opens session_log.txt with truncate: the inode stays. *)
TruncateInPlace ==
    /\ named # NoInode /\ content[named] # <<>>
    /\ age < MaxIncarnations
    /\ age' = age + 1
    /\ content' = [content EXCEPT ![named] = <<>>]
    /\ poll' = [poll EXCEPT !.mixed = @ \/ (poll.pc = "read" /\ poll.reads > 0)]
    /\ UNCHANGED <<named, deletes, tail, paneVars>>

(* The runtime renames a full log away; a file where there was none. *)
Recreate ==
    /\ age < MaxIncarnations
    /\ age' = age + 1
    /\ named' = age + 1
    /\ UNCHANGED <<content, deletes, tail, poll, paneVars>>

Delete ==
    /\ named # NoInode
    /\ deletes < MaxDeletes
    /\ named' = NoInode
    /\ deletes' = deletes + 1
    /\ UNCHANGED <<content, age, tail, poll, paneVars>>

WriterStep == AppendLine \/ TruncateInPlace \/ Recreate \/ Delete
-----------------------------------------------------------------------------
(* Tailer::open: a file that is absent is not an error, and a preload      *)
(* starts at the end with the last lines queued.                           *)
OpenTail(preload) ==
    /\ tail.task = "none"
    /\ LET at == IF named = NoInode \/ preload = 0 THEN 0 ELSE Len(content[named]) IN
          tail' = [Fresh(named, named) EXCEPT
                     !.offset = at,
                     !.sig = IF at = 0 THEN <<>> ELSE Signature(named, at),
                     !.pending = IF at = 0 THEN <<>> ELSE LastOf(content[named], preload)]
    /\ UNCHANGED <<fileVars, poll, paneVars>>

(* drain_capped, and the batch goes out: lines of before a rotation and    *)
(* after it are never in one batch.  The pane clears, then appends.        *)
Drained(t) ==
    LET cap == IF t.carry > 0 /\ t.carry < Cap THEN t.carry ELSE Cap
        n == IF Len(t.pending) < cap THEN Len(t.pending) ELSE cap
    IN [lines |-> SubSeq(t.pending, 1, n),
        rest |-> [t EXCEPT !.pending = SubSeq(t.pending, n + 1, Len(t.pending)),
                           !.carry = IF t.carry > n THEN t.carry - n ELSE 0]]

Deliver(t, rotated) ==
    /\ tail' = Drained(t).rest
    /\ told' = told \o Drained(t).lines
    /\ cleared' = IF rotated THEN Len(told) ELSE cleared
    /\ poll' = AtRest

Polling == tail.task = "runs"

(* A poll begins with metadata(path). *)
Stat ==
    /\ Polling /\ poll.pc = "rest"
    /\ IF named = NoInode
       THEN Deliver([tail EXCEPT !.open = NoInode, !.id = NoInode, !.sig = <<>>], FALSE)
       ELSE /\ poll' = [AtRest EXCEPT !.pc = "check", !.id = named, !.len = Len(content[named])]
            /\ UNCHANGED <<tail, paneVars>>
    /\ UNCHANGED fileVars

StartRead(t, rotated) ==
    poll' = [poll EXCEPT !.pc = "read", !.rotated = rotated, !.before = t.offset,
                         !.sig = t.sig, !.pending = Len(t.pending)]

(* Slip: a file that is as long as what was read of it is taken for it.    *)
CheckLength ==
    /\ Polling /\ poll.pc = "check"
    /\ IF tail.open = NoInode \/ tail.id # poll.id \/ poll.len < tail.offset
       THEN poll' = [poll EXCEPT !.pc = "reopen"]
       ELSE StartRead(tail, FALSE)
    /\ UNCHANGED <<fileVars, tail, paneVars>>

(* Another file, a shorter one, or other bytes before the cursor. *)
CheckContinuity ==
    /\ Polling /\ poll.pc = "check"
    /\ IF \/ tail.open = NoInode
          \/ tail.id # poll.id
          \/ poll.len < tail.offset
          \/ Signature(tail.open, tail.offset) # tail.sig
       THEN poll' = [poll EXCEPT !.pc = "reopen"]
       ELSE StartRead(tail, FALSE)
    /\ UNCHANGED <<fileVars, tail, paneVars>>

Reopened == [Fresh(named, poll.id) EXCEPT !.pending = tail.pending, !.carry = tail.carry,
                                          !.marker = tail.marker, !.blended = tail.blended]

(* A rotation: the backlog goes out first, and the marker waits for it.    *)
(* When the path is gone again the open fails, and the task ends.          *)
Reopen ==
    /\ Polling /\ poll.pc = "reopen"
    /\ IF named = NoInode
       THEN tail' = [tail EXCEPT !.task = "ended"] /\ poll' = AtRest /\ UNCHANGED paneVars
       ELSE IF tail.pending # <<>>
       THEN Deliver([Reopened EXCEPT !.carry = Len(tail.pending), !.marker = TRUE], FALSE)
       ELSE tail' = Reopened /\ StartRead(Reopened, TRUE) /\ UNCHANGED paneVars
    /\ UNCHANGED fileVars

(* One read(2) of the loop. *)
ReadChunk ==
    /\ Polling /\ poll.pc = "read"
    /\ poll.reads < Budget /\ Len(tail.pending) < Cap
    /\ LET at == tail.offset + 1 IN
          /\ at <= Len(content[tail.open])
          /\ tail' = [tail EXCEPT !.offset = at, !.sig = <<content[tail.open][at]>>,
                                  !.pending = Append(@, content[tail.open][at])]
    /\ poll' = [poll EXCEPT !.reads = @ + 1]
    /\ UNCHANGED <<fileVars, paneVars>>

(* Slip: after the loop only the file's identity is looked at again.       *)
StraddledFile == tail.open # poll.id

(* The second look, after the loop, at what the first one saw. *)
Straddled ==
    /\ poll.reads > 0
    /\ Signature(tail.open, poll.before) # poll.sig \/ tail.open # poll.id

(* The loop has ended.  A read that straddled a rewrite is undone whole;   *)
(* else a marker that waited is consumed, if the poll did not rotate.      *)
EndRead ==
    /\ Polling /\ poll.pc = "read"
    /\ \/ poll.reads = Budget \/ Len(tail.pending) >= Cap
       \/ tail.offset >= Len(content[tail.open])
    /\ IF Straddled
       THEN Deliver([Fresh(NoInode, NoInode) EXCEPT
                        !.pending = SubSeq(tail.pending, 1, poll.pending),
                        !.carry = tail.carry, !.marker = TRUE, !.blended = tail.blended], FALSE)
       ELSE LET announces == ~poll.rotated /\ tail.carry = 0 IN
            Deliver([tail EXCEPT !.marker = @ /\ ~announces,
                                 !.blended = @ \/ poll.mixed],
                    poll.rotated \/ (announces /\ tail.marker))
    /\ UNCHANGED fileVars

(* stop_log_tail, a reload of the page, or a channel that is gone. *)
StopTail ==
    /\ Polling /\ poll.pc = "rest"
    /\ tail' = [tail EXCEPT !.task = "ended"]
    /\ UNCHANGED <<fileVars, poll, paneVars>>

PollStep == Stat \/ CheckContinuity \/ Reopen \/ ReadChunk \/ EndRead

TailNext == WriterStep \/ (\E n \in Preloads : OpenTail(n)) \/ PollStep \/ StopTail

(* The polling thread is scheduled for as long as its task runs. *)
TailFair == WF_tailVars(PollStep)

TailSpec == TailInit /\ [][TailNext]_tailVars /\ TailFair
-----------------------------------------------------------------------------
Follows(a, b) == \/ b.inc = a.inc /\ b.n = a.n + 1
                 \/ b.inc > a.inc /\ b.n = 1

(* Whatever the writer does between two system calls of a poll, the lines  *)
(* sent to a pane skip none and repeat none: those of one incarnation      *)
(* follow each other and the next one is told from its first line.  But    *)
(* one rewrite is not seen: between two reads of a poll that began at the  *)
(* start of the file, where there is no signature to tell it by.           *)
LinesInOrder ==
    \/ tail.blended
    \/ \A i \in 1 .. Len(told) - 1 : Follows(told[i], told[i + 1])

(* "The lines in THIS batch begin a new incarnation of the file ... The UI *)
(* clears its buffer on this and then appends lines" (logs.rs:135): what a *)
(* pane shows after it cleared starts with the first line of a file.       *)
ClearedPaneStartsTheFile ==
    0 < cleared /\ cleared < Len(told) => told[cleared + 1].n = 1

(* A pane ends up with the last line of the file, unless its task ended.   *)
TailCatchesUp ==
    <>[](\/ ~Polling \/ named = NoInode \/ content[named] = <<>> \/ tail.blended
         \/ told # <<>> /\ LET d == content[named] IN told[Len(told)] = d[Len(d)])
=============================================================================
