----------------------------- MODULE ChildProcess ------------------------------
(***************************************************************************)
(* process.rs: spawn_streamed, which runs a tool in a process group of its *)
(* own, streams what it prints and waits for it, and capture_with, which   *)
(* runs a read-only probe under a deadline.  The leader and its            *)
(* descendants fork, print, leave the group and ignore SIGTERM as they     *)
(* like; the token fires at any time.  One stream of output is modelled,   *)
(* as bytes; a chunk is the number of its letters and its terminator.      *)
(***************************************************************************)
EXTENDS Naturals, Sequences, FiniteSets
FSets == INSTANCE FiniteSetsExt
Seqs == INSTANCE SequencesExt

CONSTANTS Leader, Kids,  \* the child, and the descendants it may have
          MaxBytes,      \* bound: bytes printed
          Modes          \* "stream" and "probe"

Members == Kids \cup {Leader}
Bytes == {"x", "cr", "lf"}

VARIABLES proc,     \* each process: state, in the group or not, ignores SIGTERM, holds the pipe
          printed,  \* the bytes written to the pipe
          pump,     \* the reader: bytes read, its splitter, the chunks it sank, finished or not
          job,      \* the call: its mode, where it is, what it returned
          token     \* the CancellationToken has fired

childVars == <<proc, printed, pump, job, token>>

Unborn == [state |-> "unborn", group |-> FALSE, stubborn |-> FALSE, holds |-> FALSE]

Alive(p) == proc[p].state = "alive"

Remains(p) == proc[p].state \in {"alive", "dying"}

Held == \E p \in Members : Remains(p) /\ proc[p].holds

(* kill(-pgid, 0) *)
GroupAlive == \E p \in Members : Remains(p) /\ proc[p].group

ChildInit ==
    /\ proc = [p \in Members |-> Unborn]
    /\ printed = <<>>
    /\ pump = [read |-> 0, letters |-> 0, pendingCr |-> FALSE, sunk |-> <<>>, done |-> FALSE]
    /\ job \in [mode : Modes, pc : {"spawn"}, result : {"none"}]
    /\ token = FALSE

JobTo(pc) == job' = [job EXCEPT !.pc = pc]

ReturnWith(result) == job' = [job EXCEPT !.pc = "done", !.result = result]

Spawn ==
    /\ job.pc = "spawn"
    /\ \E s \in BOOLEAN :
          proc' = [proc EXCEPT ![Leader] = [state |-> "alive", group |-> TRUE,
                                            stubborn |-> s, holds |-> TRUE]]
    /\ JobTo("wait")
    /\ UNCHANGED <<printed, pump, token>>
-----------------------------------------------------------------------------
(* The processes.                                                          *)

ForkKid(p, k) ==
    /\ Alive(p) /\ proc[k].state = "unborn"
    /\ \E g, h, s \in BOOLEAN :
          /\ (g => proc[p].group) /\ (h => proc[p].holds)
          /\ proc' = [proc EXCEPT ![k] = [state |-> "alive", group |-> g,
                                          stubborn |-> s, holds |-> h]]
    /\ UNCHANGED <<printed, pump, job, token>>

PrintByte(p, b) ==
    /\ Alive(p) /\ proc[p].holds
    /\ Len(printed) < MaxBytes
    /\ printed' = Append(printed, b)
    /\ UNCHANGED <<proc, pump, job, token>>

Ends(p) == proc' = [proc EXCEPT ![p].state = "gone"] /\ UNCHANGED <<printed, pump, job, token>>

ExitByItself(p) == Alive(p) /\ Ends(p)

(* The kernel ends what a signal has hit. *)
DieOfSignal(p) == proc[p].state = "dying" /\ Ends(p)

Fire ==
    /\ ~token /\ job.pc # "done"
    /\ token' = TRUE
    /\ UNCHANGED <<proc, printed, pump, job>>

(* killpg: the members of now; SIGTERM spares who ignores it. *)
Signalled(sig) ==
    [p \in Members |->
        IF Alive(p) /\ proc[p].group /\ (sig = "TERM" => ~proc[p].stubborn)
        THEN [proc[p] EXCEPT !.state = "dying"] ELSE proc[p]]
-----------------------------------------------------------------------------
(* pump and ChunkSplitter: one byte, or the end of the file.  A carriage   *)
(* return waits for the byte behind it.                                    *)

Chunk(letters, end) == [letters |-> letters, end |-> end]

Push(s, b) ==
    LET crlf == s.pendingCr /\ b = "lf"
        base == IF s.pendingCr /\ ~crlf
                THEN [s EXCEPT !.sunk = Append(@, Chunk(s.letters, "cr")), !.letters = 0] ELSE s
    IN [base EXCEPT !.read = @ + 1,
                    !.pendingCr = b = "cr",
                    !.sunk = IF b = "lf" THEN Append(@, Chunk(base.letters, "lf")) ELSE @,
                    !.letters = IF b = "lf" THEN 0 ELSE IF b = "x" THEN @ + 1 ELSE @]

(* Slip: what follows the last line end is dropped.                        *)
FinishAtLastLine(s) == [s EXCEPT !.done = TRUE]

(* The end of the file: what waits is the last chunk. *)
Finish(s) ==
    [s EXCEPT !.done = TRUE,
              !.sunk = IF s.pendingCr THEN Append(@, Chunk(s.letters, "cr"))
                       ELSE IF s.letters > 0 THEN Append(@, Chunk(s.letters, "eof")) ELSE @]

PumpStep ==
    /\ job.pc \notin {"spawn", "done"} /\ ~pump.done
    /\ \/ pump.read < Len(printed) /\ pump' = Push(pump, printed[pump.read + 1])
       \/ pump.read = Len(printed) /\ ~Held /\ pump' = Finish(pump)
    /\ UNCHANGED <<proc, printed, job, token>>
-----------------------------------------------------------------------------
(* spawn_streamed_inner.                                                   *)

LeaderGone == proc[Leader].state = "gone"

Waited ==
    /\ job.mode = "stream" /\ job.pc = "wait"
    /\ LeaderGone
    /\ JobTo("drain")
    /\ UNCHANGED <<proc, printed, pump, token>>

SeeCancel ==
    /\ job.mode = "stream" /\ job.pc = "wait"
    /\ token
    /\ proc' = Signalled("TERM")
    /\ JobTo("grace")
    /\ UNCHANGED <<printed, pump, token>>

ReapInGrace ==
    /\ job.pc = "grace" /\ LeaderGone
    /\ JobTo("poll")
    /\ UNCHANGED <<proc, printed, pump, token>>

(* kill_grace is over with the leader still there: SIGKILL, then wait. *)
GraceOver ==
    /\ job.pc = "grace" /\ ~LeaderGone
    /\ proc' = Signalled("KILL")
    /\ JobTo("reap")
    /\ UNCHANGED <<printed, pump, token>>

Reap ==
    /\ job.pc = "reap" /\ LeaderGone
    /\ JobTo("poll")
    /\ UNCHANGED <<proc, printed, pump, token>>

(* Slip: the group is thought to be gone with its leader.                  *)
PollLeader ==
    /\ job.pc = "poll"
    /\ JobTo("drainKilled")
    /\ UNCHANGED <<proc, printed, pump, token>>

(* The group is polled until it is empty or the same deadline is over, and *)
(* is killed if anything is left in it.                                    *)
PollGroup ==
    /\ job.pc = "poll"
    /\ proc' = IF GroupAlive THEN Signalled("KILL") ELSE proc
    /\ JobTo("drainKilled")
    /\ UNCHANGED <<printed, pump, token>>

Cancelled == job.pc \in {"drainKilled", "drainAgain"}

PumpsDrained ==
    /\ job.pc \in {"drain", "drainKilled", "drainAgain"}
    /\ pump.done
    /\ ReturnWith(IF Cancelled THEN "cancelled" ELSE "ok")
    /\ UNCHANGED <<proc, printed, pump, token>>

(* Slip: only a cancelled call gives up on the pipes.                      *)
DrainOverIfCancelled ==
    /\ job.pc \in {"drainKilled", "drainAgain"}
    /\ Held
    /\ IF job.pc = "drainKilled"
       THEN proc' = Signalled("KILL") /\ JobTo("drainAgain")
       ELSE ReturnWith("cancelled") /\ UNCHANGED proc
    /\ UNCHANGED <<printed, pump, token>>

(* PUMP_DRAIN_GRACE is over: somebody holds the pipe.  After a cancel the  *)
(* group is killed once more; then the pumps are aborted as they are.      *)
DrainOver ==
    /\ job.pc \in {"drain", "drainKilled", "drainAgain"}
    /\ Held
    /\ IF job.pc = "drainKilled"
       THEN proc' = Signalled("KILL") /\ JobTo("drainAgain")
       ELSE ReturnWith(IF Cancelled THEN "cancelled" ELSE "ok") /\ UNCHANGED proc
    /\ UNCHANGED <<printed, pump, token>>

(* capture_with: wait_with_output wants the leader and the end of the      *)
(* output; a cancel or the deadline kills the group at once.               *)
ProbeAnswers ==
    /\ job.mode = "probe" /\ job.pc = "wait"
    /\ LeaderGone /\ pump.done
    /\ ReturnWith("ok")
    /\ UNCHANGED <<proc, printed, pump, token>>

ProbeCut ==
    /\ job.mode = "probe" /\ job.pc = "wait"
    /\ proc' = Signalled("KILL")
    /\ \/ token /\ ReturnWith("cancelled")
       \/ ReturnWith("timeout")
    /\ UNCHANGED <<printed, pump, token>>

JobStep ==
    \/ Waited \/ SeeCancel \/ ReapInGrace \/ GraceOver \/ Reap \/ PollGroup
    \/ PumpsDrained \/ DrainOver \/ ProbeAnswers \/ ProbeCut

ChildNext ==
    \/ Spawn \/ JobStep \/ PumpStep \/ Fire
    \/ \E p \in Members :
          \/ ExitByItself(p) \/ DieOfSignal(p)
          \/ \E b \in Bytes : PrintByte(p, b)
          \/ \E k \in Kids : ForkKid(p, k)

(* The runtime polls the call and its timers fire; the pump reads and the  *)
(* kernel ends what a signal has hit.  A tool need not end by itself.      *)
ChildFair ==
    /\ WF_childVars(JobStep)
    /\ WF_childVars(PumpStep \/ \E p \in Members : DieOfSignal(p))

ChildSpec == ChildInit /\ [][ChildNext]_childVars /\ ChildFair
-----------------------------------------------------------------------------
(* When a cancelled call or a probe that was cut returns, no member of the *)
(* group lives on, whichever of them ignored SIGTERM, let go of the pipes  *)
(* or outlived the leader.                                                 *)
CancelledGroupIsDead ==
    job.result \in {"cancelled", "timeout"} => \A p \in Members : ~(Alive(p) /\ proc[p].group)

(* The chunks of a byte stream: cut after each LF and each CR with no LF   *)
(* behind it; the letters after the last cut are the last chunk.           *)
Cuts(s) == {i \in 1 .. Len(s) : s[i] = "lf" \/ (s[i] = "cr" /\ (i = Len(s) \/ s[i + 1] # "lf"))}

LettersUpTo(s, i) == Cardinality({j \in 1 .. i : s[j] = "x"})

ChunksOf(s) ==
    LET cut == Cuts(s)
        before(i) == FSets!Max({j \in cut : j < i} \cup {0})
        piece(i) == Chunk(LettersUpTo(s, i) - LettersUpTo(s, before(i)), s[i])
        nth(k) == CHOOSE i \in cut : Cardinality({j \in cut : j <= i}) = k
        tail == LettersUpTo(s, Len(s)) - LettersUpTo(s, FSets!Max(cut \cup {0}))
    IN [k \in 1 .. Cardinality(cut) |-> piece(nth(k))]
         \o (IF tail > 0 THEN <<Chunk(tail, "eof")>> ELSE <<>>)

(* The sink gets the chunks of what was printed, in order and wherever the *)
(* reads happened to cut it, and all of them before the call returns,      *)
(* unless a descendant kept the pipe: the last words of a tool that failed *)
(* are not lost to the race between its exit and its output.               *)
OutputIsComplete ==
    /\ Seqs!IsPrefix(pump.sunk, ChunksOf(printed))
    /\ pump.done => pump.sunk = ChunksOf(printed)
    /\ job.mode = "stream" /\ job.pc = "done" /\ ~pump.done => \E k \in Kids : proc[k].holds

(* A call whose leader ended or whose token fired returns, though a        *)
(* descendant such as wineserver keeps the pipes for good; a probe returns *)
(* by its deadline.                                                        *)
ChildReturns ==
    (job.pc # "spawn" /\ (token \/ LeaderGone \/ job.mode = "probe")) ~> (job.pc = "done")
=============================================================================
