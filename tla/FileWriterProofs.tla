--------------------------- MODULE FileWriterProofs ---------------------------
(***************************************************************************)
(* The executor's writer implements AtomicFile, for any callers, contents  *)
(* and bound: what is in the journal under a durable call was fsynced      *)
(* before it was published (SyncedInv), and a call that has published      *)
(* knows where (CallInv).  From that every step of FileWriter is a step of *)
(* AtomicFile or leaves the mapped file as it is.                          *)
(***************************************************************************)
EXTENDS FileWriter, SequenceTheorems, TLAPS

SyncedInv == \A i \in 1 .. Len(journal) : journal[i].by # "copy" => journal[i].synced

CallInv(c) ==
    /\ pc[c] # "idle" <=> call[c].said = "nothing"
    /\ pc[c] # "idle" => call[c].op \in {"write", "create", "copy", "remove"}
    /\ pc[c] \in {"open", "sync", "publish"} => call[c].at = 0
    /\ pc[c] \in {"open", "sync"} => call[c].op # "remove"
    /\ pc[c] = "settle" => call[c].at \in 1 .. Len(journal)
    /\ call[c].op = "remove" => call[c].data = None

TmpInv(c) ==
    /\ pc[c] = "sync" =>
          tmp[c].data = call[c].data /\ tmp[c].by = call[c].op /\ call[c].op # "copy"
    /\ pc[c] = "publish" /\ call[c].op # "remove" =>
          /\ tmp[c].data = call[c].data
          /\ tmp[c].by = call[c].op
          /\ call[c].op # "copy" => tmp[c].synced

IInv == WriterTypeOK /\ SyncedInv /\ \A c \in Callers : CallInv(c) /\ TmpInv(c)

USE WriterAssumption

(* Init establishes the inductive invariant. *)
LEMMA InitInv == WriterInit => IInv
  BY DEF WriterInit, IInv, WriterTypeOK, Inodes, Calls, Ops, SyncedInv, CallInv, TmpInv, Rest, NoTmp, Inode

(* A journal is a function into inodes, and can be built as one. *)
LEMMA JournalFacts ==
    ASSUME WriterTypeOK
    PROVE  /\ Len(journal) \in Nat \ {0}
           /\ \A i \in 1 .. Len(journal) : journal[i] \in Inodes
<1>1. journal \in Seq(Inodes) /\ flushed \in 1 .. Len(journal)
  BY DEF WriterTypeOK
<1>2. Len(journal) \in Nat
  BY <1>1, LenProperties
<1> QED
  BY <1>1, <1>2, ElementOfSeq

LEMMA BuiltSeq ==
    ASSUME NEW S, NEW n \in Nat, NEW s, s \in [1 .. n -> S]
    PROVE  s \in Seq(S) /\ Len(s) = n
<1>1. s \in Seq(S)
  BY SeqDef
<1>2. DOMAIN s = 1 .. Len(s) /\ Len(s) \in Nat
  BY <1>1, LenProperties
<1> QED
  BY <1>1, <1>2

(* A call that returns leaves call, pc and tmp well typed. *)
LEMMA ReturnTypes ==
    ASSUME WriterTypeOK, NEW c \in Callers, NEW answer \in {"ok", "exists", "same", "err", "lost"},
           Return(c, answer)
    PROVE  /\ call' \in [Callers -> Calls]
           /\ pc' \in [Callers -> {"idle", "open", "sync", "publish", "settle"}]
           /\ tmp' \in [Callers -> Inodes]
<1>1. call' \in [Callers -> Calls]
  <2>1. [call[c] EXCEPT !.said = answer] \in Calls
    BY DEF WriterTypeOK, Calls
  <2> QED
    BY <2>1 DEF WriterTypeOK, Return
<1>2. NoTmp \in Inodes
  BY DEF NoTmp, Inode, Inodes
<1> QED
  BY <1>1, <1>2 DEF WriterTypeOK, Return, Goto

(* Every step keeps it. *)
LEMMA NextInv == IInv /\ [WriterNext]_writerVars => IInv'
<1> SUFFICES ASSUME IInv, [WriterNext]_writerVars PROVE IInv'
  OBVIOUS
<1>1. ASSUME NEW c \in Callers, BeginAny(c) PROVE IInv'
  <2>1. WriterTypeOK'
    <3>1. PICK op \in Ops, v \in Contents \cup {None} : Begin(c, op, v)
      BY <1>1 DEF BeginAny, Ops
    <3>2. [op |-> op, data |-> v, at |-> 0, said |-> "nothing"] \in Calls
      BY DEF Calls
    <3> QED
      BY <3>1, <3>2 DEF Begin, Goto, IInv, WriterTypeOK
  <2>2. SyncedInv'
    BY <1>1 DEF BeginAny, Begin, Goto, NoTmp, Inode, IInv, WriterTypeOK, SyncedInv, TmpInv
  <2>3. ASSUME NEW d \in Callers PROVE CallInv(d)' /\ TmpInv(d)'
    BY <1>1 DEF BeginAny, Begin, Goto, NoTmp, Inode, IInv, WriterTypeOK, Calls, Inodes, CallInv, TmpInv
  <2> QED
    BY <2>1, <2>2, <2>3 DEF IInv
<1>2. ASSUME NEW c \in Callers, Unchanged(c) PROVE IInv'
  <2>1. WriterTypeOK'
    <3>1. \E answer \in {"ok", "exists", "same", "err", "lost"} : Return(c, answer)
      BY <1>2 DEF Unchanged
    <3>2. journal' = journal /\ flushed' \in {flushed, Len(journal)} /\ solid' = solid
      BY <1>2 DEF Unchanged
    <3> QED
      BY <3>1, <3>2, ReturnTypes DEF IInv, WriterTypeOK
  <2>2. SyncedInv'
    BY <1>2 DEF Unchanged, Return, Goto, NoTmp, Inode, IInv, WriterTypeOK, SyncedInv, TmpInv
  <2>3. ASSUME NEW d \in Callers PROVE CallInv(d)' /\ TmpInv(d)'
    BY <1>2 DEF Unchanged, Return, Goto, NoTmp, Inode, IInv, WriterTypeOK, Calls, Inodes, CallInv, TmpInv
  <2> QED
    BY <2>1, <2>2, <2>3 DEF IInv
<1>3. ASSUME NEW c \in Callers, Stage(c) PROVE IInv'
  <2>1. WriterTypeOK'
    BY <1>3 DEF Stage, Goto, NoTmp, Inode, IInv, WriterTypeOK, Inodes, Calls, Ops
  <2>2. SyncedInv'
    BY <1>3 DEF Stage, Goto, NoTmp, Inode, IInv, WriterTypeOK, SyncedInv, TmpInv
  <2>3. ASSUME NEW d \in Callers PROVE CallInv(d)' /\ TmpInv(d)'
    BY <1>3 DEF Stage, Goto, NoTmp, Inode, IInv, WriterTypeOK, Calls, Inodes, CallInv, TmpInv
  <2> QED
    BY <2>1, <2>2, <2>3 DEF IInv
<1>4. ASSUME NEW c \in Callers, SyncTmp(c) PROVE IInv'
  <2>1. WriterTypeOK'
    BY <1>4 DEF SyncTmp, Goto, NoTmp, Inode, IInv, WriterTypeOK, Inodes, Calls, Ops
  <2>2. SyncedInv'
    BY <1>4 DEF SyncTmp, Goto, NoTmp, Inode, IInv, WriterTypeOK, SyncedInv, TmpInv
  <2>3. ASSUME NEW d \in Callers PROVE CallInv(d)' /\ TmpInv(d)'
    BY <1>4 DEF SyncTmp, Goto, NoTmp, Inode, IInv, WriterTypeOK, Calls, Inodes, CallInv, TmpInv
  <2> QED
    BY <2>1, <2>2, <2>3 DEF IInv
<1>5. ASSUME NEW c \in Callers, Publish(c) PROVE IInv'
  <2>1. WriterTypeOK'
    <3>1. NoTmp \in Inodes /\ Inode(None, "remove", TRUE) \in Inodes
      BY DEF NoTmp, Inode, Inodes, Ops
    <3>2. call' \in [Callers -> Calls]
      <4>1. Len(journal) + 1 \in Nat
        BY JournalFacts DEF IInv
      <4> DEFINE n == Len(journal) + 1
      <4>2. n \in Nat /\ call' = [call EXCEPT ![c].at = n]
        BY <1>5, <4>1 DEF Publish
      <4> HIDE DEF n
      <4> QED
        BY <4>2 DEF IInv, WriterTypeOK, Calls
    <3>3. journal' \in Seq(Inodes) /\ Len(journal') = Len(journal) + 1
      <4> DEFINE e == IF call[c].op = "remove" THEN Inode(None, "remove", TRUE) ELSE tmp[c]
      <4>1. e \in Inodes
        BY <3>1 DEF IInv, WriterTypeOK
      <4>2. journal \in Seq(Inodes) /\ journal' = Append(journal, e)
        BY <1>5 DEF Publish, IInv, WriterTypeOK
      <4> HIDE DEF e
      <4> QED
        BY <4>1, <4>2, AppendProperties
    <3>4. flushed' \in 1 .. Len(journal')
      BY <1>5, <3>3, JournalFacts DEF Publish, IInv, WriterTypeOK
    <3>5. tmp' \in [Callers -> Inodes] /\ solid' \in BOOLEAN
           /\ pc' \in [Callers -> {"idle", "open", "sync", "publish", "settle"}]
      BY <1>5, <3>1 DEF Publish, Goto, IInv, WriterTypeOK
    <3> QED
      BY <3>2, <3>3, <3>4, <3>5 DEF WriterTypeOK
  <2>2. SyncedInv'
    BY <1>5 DEF Publish, Goto, NoTmp, Inode, IInv, WriterTypeOK, SyncedInv, TmpInv
  <2>3. ASSUME NEW d \in Callers PROVE CallInv(d)' /\ TmpInv(d)'
    BY <1>5 DEF Publish, Goto, NoTmp, Inode, IInv, WriterTypeOK, Calls, Inodes, CallInv, TmpInv
  <2> QED
    BY <2>1, <2>2, <2>3 DEF IInv
<1>6. ASSUME NEW c \in Callers, LoseCreate(c) PROVE IInv'
  <2>1. WriterTypeOK'
    <3>1. \E answer \in {"ok", "exists", "same", "err", "lost"} : Return(c, answer)
      BY <1>6 DEF LoseCreate
    <3>2. journal' = journal /\ flushed' \in {flushed, Len(journal)} /\ solid' = solid
      BY <1>6 DEF LoseCreate
    <3> QED
      BY <3>1, <3>2, ReturnTypes DEF IInv, WriterTypeOK
  <2>2. SyncedInv'
    BY <1>6 DEF LoseCreate, Return, Goto, NoTmp, Inode, IInv, WriterTypeOK, SyncedInv, TmpInv
  <2>3. ASSUME NEW d \in Callers PROVE CallInv(d)' /\ TmpInv(d)'
    BY <1>6 DEF LoseCreate, Return, Goto, NoTmp, Inode, IInv, WriterTypeOK, Calls, Inodes, CallInv, TmpInv
  <2> QED
    BY <2>1, <2>2, <2>3 DEF IInv
<1>7. ASSUME NEW c \in Callers, Settle(c) PROVE IInv'
  <2>1. WriterTypeOK'
    <3>1. \E answer \in {"ok", "exists", "same", "err", "lost"} : Return(c, answer)
      BY <1>7 DEF Settle
    <3>2. journal' = journal /\ flushed' \in {flushed, Len(journal)} /\ solid' = solid
      BY <1>7 DEF Settle
    <3> QED
      BY <3>1, <3>2, ReturnTypes DEF IInv, WriterTypeOK
  <2>2. SyncedInv'
    BY <1>7 DEF Settle, Return, Goto, NoTmp, Inode, IInv, WriterTypeOK, SyncedInv, TmpInv
  <2>3. ASSUME NEW d \in Callers PROVE CallInv(d)' /\ TmpInv(d)'
    BY <1>7 DEF Settle, Return, Goto, NoTmp, Inode, IInv, WriterTypeOK, Calls, Inodes, CallInv, TmpInv
  <2> QED
    BY <2>1, <2>2, <2>3 DEF IInv
<1>8. ASSUME NEW c \in Callers, Broken(c) PROVE IInv'
  <2>1. WriterTypeOK'
    <3>1. \E answer \in {"ok", "exists", "same", "err", "lost"} : Return(c, answer)
      BY <1>8 DEF Broken
    <3>2. journal' = journal /\ flushed' \in {flushed, Len(journal)} /\ solid' = solid
      BY <1>8 DEF Broken
    <3> QED
      BY <3>1, <3>2, ReturnTypes DEF IInv, WriterTypeOK
  <2>2. SyncedInv'
    BY <1>8 DEF Broken, Return, Goto, NoTmp, Inode, IInv, WriterTypeOK, SyncedInv, TmpInv
  <2>3. ASSUME NEW d \in Callers PROVE CallInv(d)' /\ TmpInv(d)'
    BY <1>8 DEF Broken, Return, Goto, NoTmp, Inode, IInv, WriterTypeOK, Calls, Inodes, CallInv, TmpInv
  <2> QED
    BY <2>1, <2>2, <2>3 DEF IInv
<1>9. ASSUME NEW c \in Callers, Killed(c) PROVE IInv'
  <2>1. WriterTypeOK'
    <3>1. \E answer \in {"ok", "exists", "same", "err", "lost"} : Return(c, answer)
      BY <1>9 DEF Killed
    <3>2. journal' = journal /\ flushed' \in {flushed, Len(journal)} /\ solid' = solid
      BY <1>9 DEF Killed
    <3> QED
      BY <3>1, <3>2, ReturnTypes DEF IInv, WriterTypeOK
  <2>2. SyncedInv'
    BY <1>9 DEF Killed, Return, Goto, NoTmp, Inode, IInv, WriterTypeOK, SyncedInv, TmpInv
  <2>3. ASSUME NEW d \in Callers PROVE CallInv(d)' /\ TmpInv(d)'
    BY <1>9 DEF Killed, Return, Goto, NoTmp, Inode, IInv, WriterTypeOK, Calls, Inodes, CallInv, TmpInv
  <2> QED
    BY <2>1, <2>2, <2>3 DEF IInv
<1>10. CASE LosePower
  <2>1. WriterTypeOK'
    <3>1. NoTmp \in Inodes
      BY DEF NoTmp, Inode, Inodes
    <3>2. \A c \in Callers : Lost(call[c]) \in Calls
      BY DEF IInv, WriterTypeOK, Calls, Lost
    <3>3. \A i \in 1 .. Len(journal) : journal[i] \in Inodes /\ Inode(Torn, journal[i].by, FALSE) \in Inodes
      BY JournalFacts DEF IInv, Inode, Inodes
    <3>4. flushed' \in 1 .. Len(journal) /\ journal' \in [1 .. flushed' -> Inodes]
      <4>1. PICK keep \in flushed .. Len(journal) :
               \E torn \in SUBSET {i \in 1 .. keep : ~journal[i].synced} :
                  /\ journal' = [i \in 1 .. keep |->
                                    IF i \in torn THEN Inode(Torn, journal[i].by, FALSE) ELSE journal[i]]
                  /\ flushed' = keep
        BY <1>10 DEF LosePower
      <4>2. keep \in 1 .. Len(journal) /\ \A i \in 1 .. keep : i \in 1 .. Len(journal)
        BY JournalFacts DEF IInv, WriterTypeOK
      <4> QED
        BY <3>3, <4>1, <4>2
    <3>5. journal' \in Seq(Inodes) /\ Len(journal') = flushed'
      BY <3>4, JournalFacts, BuiltSeq DEF IInv
    <3>6. /\ call' \in [Callers -> Calls] /\ tmp' \in [Callers -> Inodes] /\ solid' \in BOOLEAN
          /\ pc' \in [Callers -> {"idle", "open", "sync", "publish", "settle"}]
      BY <1>10, <3>1, <3>2 DEF LosePower, IInv, WriterTypeOK
    <3> QED
      BY <3>4, <3>5, <3>6, JournalFacts DEF WriterTypeOK, IInv
  <2>2. SyncedInv'
    BY <1>10 DEF LosePower, Lost, NoTmp, Inode, IInv, WriterTypeOK, SyncedInv
  <2>3. ASSUME NEW d \in Callers PROVE CallInv(d)' /\ TmpInv(d)'
    BY <1>10 DEF LosePower, Lost, NoTmp, Inode, IInv, WriterTypeOK, Calls, CallInv, TmpInv
  <2> QED
    BY <2>1, <2>2, <2>3 DEF IInv
<1>11. CASE UNCHANGED writerVars
  BY <1>11 DEF writerVars, IInv, WriterTypeOK, SyncedInv, CallInv, TmpInv
<1> QED
  BY <1>1, <1>2, <1>3, <1>4, <1>5, <1>6, <1>7, <1>8, <1>9, <1>10, <1>11 DEF WriterNext

(* What readers see is the last value of the mapped log. *)
LEMMA CurrentIsOnDisk == WriterTypeOK => Len(Mapped) = Len(journal) /\ Abstract!Current = OnDisk
  BY DEF WriterTypeOK, Mapped, Abstract!Current, OnDisk

(* Publishing an inode appends its value to the mapped log. *)
LEMMA MappedAppends ==
    ASSUME WriterTypeOK,
           NEW e \in Inodes,
           journal' = Append(journal, e)
    PROVE  Mapped' = Append(Mapped, [data |-> e.data, firm |-> e.by # "copy"])
  BY DEF WriterTypeOK, Mapped

(* The initial states map to initial states. *)
LEMMA InitRefines == WriterInit => Abstract!FileInit
<1> SUFFICES ASSUME WriterInit PROVE Abstract!FileInit
  OBVIOUS
<1>1. PICK v \in Contents \cup {None} : journal = <<Inode(v, "none", TRUE)>>
  BY DEF WriterInit
<1>2. Mapped = <<[data |-> v, firm |-> TRUE]>>
  <2>1. Len(journal) = 1 /\ journal[1] = [data |-> v, by |-> "none", synced |-> TRUE]
    BY <1>1 DEF Inode
  <2> DEFINE S == [data : Contents \cup {None}, firm : BOOLEAN]
             e == [data |-> v, firm |-> TRUE]
  <2>2. (journal[1].by # "copy") = TRUE
    BY <2>1
  <2>3. DOMAIN Mapped = 1 .. 1 /\ Mapped[1] = e
    <3>1. DOMAIN Mapped = 1 .. 1
      BY <2>1 DEF Mapped
    <3> DEFINE firm == journal[1].by # "copy"
    <3>2. Mapped[1] = [data |-> journal[1].data, firm |-> firm]
      BY <2>1 DEF Mapped
    <3>3. firm = TRUE /\ journal[1].data = v
      BY <2>1, <2>2
    <3> HIDE DEF firm
    <3> QED
      BY <3>1, <3>2, <3>3, Zenon
  <2>4. Mapped = [i \in 1 .. 1 |-> Mapped[i]]
    BY <2>1 DEF Mapped
  <2>5. Mapped \in [1 .. 1 -> S]
    <3>1. e \in S
      OBVIOUS
    <3> HIDE DEF S, e
    <3>2. \A i \in 1 .. 1 : i = 1
      OBVIOUS
    <3>3. \A i \in 1 .. 1 : Mapped[i] \in S
      BY <2>3, <3>1, <3>2, Zenon
    <3> QED
      BY <2>4, <3>3
  <2>6. Mapped \in Seq(S) /\ Len(Mapped) = 1
    BY <2>5, BuiltSeq
  <2>7. <<e>> \in Seq(S) /\ Len(<<e>>) = 1 /\ <<e>>[1] = e
    OBVIOUS
  <2> HIDE DEF S, e
  <2>8. \A i \in 1 .. Len(Mapped) : Mapped[i] = <<e>>[i]
    BY <2>3, <2>6, <2>7
  <2> QED
    BY <2>6, <2>7, <2>8, SeqEqual DEF e
<1> QED
  BY <1>2 DEF WriterInit, Rest, Abstract!FileInit, Abstract!Idle

(* Every step maps to a step or a stutter. *)
LEMMA NextRefines ==
    IInv /\ [WriterNext]_writerVars => [Abstract!FileNext]_(Abstract!fileVars)
<1> SUFFICES ASSUME IInv, [WriterNext]_writerVars
             PROVE  Abstract!FileNext \/ UNCHANGED Abstract!fileVars
  OBVIOUS
<1>0. Len(Mapped) = Len(journal) /\ Abstract!Current = OnDisk
  BY CurrentIsOnDisk DEF IInv
<1> USE DEF IInv, WriterTypeOK, CallInv
<1>1. ASSUME NEW c \in Callers, BeginAny(c) PROVE Abstract!FileNext
  <2>1. PICK op \in {"write", "create", "copy", "remove"}, v \in Contents \cup {None} : Begin(c, op, v)
    BY <1>1 DEF BeginAny
  <2>2. Abstract!Ask(c, op, v)
    BY <2>1 DEF Begin, Abstract!Ask, Abstract!Running, Mapped
  <2> QED
    BY <2>2 DEF Abstract!FileNext, Abstract!FileOps, Abstract!Values
<1>2. ASSUME NEW c \in Callers, Unchanged(c) PROVE Abstract!FileNext
  <2>1. Abstract!Decline(c)
    BY <1>0, <1>2 DEF Unchanged, Return, Goto, Abstract!Decline, Abstract!Running, Abstract!Says, Mapped
  <2> QED
    BY <2>1 DEF Abstract!FileNext
<1>3. ASSUME NEW c \in Callers, Stage(c) \/ SyncTmp(c) PROVE UNCHANGED Abstract!fileVars
  BY <1>3 DEF Stage, SyncTmp, Abstract!fileVars, Mapped
<1>4. ASSUME NEW c \in Callers, Publish(c) PROVE Abstract!FileNext
  <2> DEFINE e == IF call[c].op = "remove" THEN Inode(None, "remove", TRUE) ELSE tmp[c]
  <2>1. e \in Inodes
    <3>1. Inode(None, "remove", TRUE) \in Inodes
      BY DEF Inode, Inodes, Ops
    <3> QED
      BY <3>1
  <2>2. e.data = call[c].data /\ e.by = call[c].op
    BY <1>4 DEF Publish, TmpInv, Inode
  <2>3. Mapped' = Append(Mapped, [data |-> call[c].data, firm |-> call[c].op # "copy"])
    BY <1>4, <2>1, <2>2, MappedAppends DEF Publish
  <2>4. Abstract!TakeEffect(c)
    BY <1>0, <1>4, <2>3 DEF Publish, Goto, Abstract!TakeEffect, Abstract!Running
  <2> QED
    BY <2>4 DEF Abstract!FileNext
<1>5. ASSUME NEW c \in Callers, LoseCreate(c) PROVE Abstract!FileNext
  <2>1. Abstract!Decline(c)
    BY <1>0, <1>5 DEF LoseCreate, Return, Goto, Abstract!Decline, Abstract!Running, Abstract!Says, Mapped
  <2> QED
    BY <2>1 DEF Abstract!FileNext
<1>6. ASSUME NEW c \in Callers, Settle(c) PROVE Abstract!FileNext
  <2>1. Abstract!Succeed(c)
    BY <1>0, <1>6 DEF Settle, Return, Goto, Abstract!Succeed, Abstract!Running, Abstract!Says,
                      Abstract!Durable, Mapped
  <2> QED
    BY <2>1 DEF Abstract!FileNext
<1>7. ASSUME NEW c \in Callers, Broken(c) \/ Killed(c) PROVE Abstract!FileNext
  <2>1. Abstract!Fail(c)
    BY <1>7 DEF Broken, Killed, Return, Goto, Abstract!Fail, Abstract!Running, Abstract!Says, Mapped
  <2> QED
    BY <2>1 DEF Abstract!FileNext
<1>8. CASE LosePower
  <2>1. PICK keep \in flushed .. Len(journal) :
          \E torn \in SUBSET {i \in 1 .. keep : ~journal[i].synced} :
             /\ journal' = [i \in 1 .. keep |-> IF i \in torn THEN Inode(Torn, journal[i].by, FALSE)
                                                              ELSE journal[i]]
             /\ flushed' = keep
             /\ call' = [c \in Callers |-> IF pc[c] = "idle" THEN call[c] ELSE Lost(call[c])]
             /\ solid' = solid
    BY <1>8 DEF LosePower
  <2>2. PICK torn \in SUBSET {i \in 1 .. keep : ~journal[i].synced} :
             journal' = [i \in 1 .. keep |-> IF i \in torn THEN Inode(Torn, journal[i].by, FALSE)
                                                           ELSE journal[i]]
    BY <2>1
  <2>a. torn \in SUBSET {i \in 1 .. keep : ~Mapped[i].firm}
    <3>1. ASSUME NEW i \in torn PROVE i \in 1 .. keep /\ ~Mapped[i].firm
      <4>1. i \in 1 .. Len(journal) /\ i \in 1 .. keep /\ ~journal[i].synced
        BY <2>1, <2>2
      <4>2. journal[i].by = "copy"
        BY <4>1 DEF SyncedInv
      <4>3. \A j \in 1 .. keep : j \in 1 .. Len(journal)
        BY JournalFacts DEF IInv, WriterTypeOK
      <4> QED
        BY <4>1, <4>2, <4>3 DEF Mapped
    <3> QED
      BY <3>1
  <2>3. Len(journal') = keep
    BY <2>1, <2>2
  <2>4. Mapped' = [i \in 1 .. keep |-> IF i \in torn THEN [data |-> Torn, firm |-> FALSE]
                                                     ELSE Mapped[i]]
    <3>1. \A i \in 1 .. keep :
             [data |-> journal'[i].data, firm |-> journal'[i].by # "copy"]
                = IF i \in torn THEN [data |-> Torn, firm |-> FALSE] ELSE Mapped[i]
      <4>1. ASSUME NEW i \in 1 .. keep, i \in torn
            PROVE  ~Mapped[i].firm /\ journal'[i].data = Torn /\ journal'[i].by = "copy"
        <5>1. i \in 1 .. Len(journal) /\ ~Mapped[i].firm
          BY <2>a, <4>1, JournalFacts DEF IInv
        <5>2. journal'[i] = Inode(Torn, journal[i].by, FALSE) /\ journal[i].by = "copy"
          BY <2>2, <4>1, <5>1 DEF Mapped
        <5> QED
          BY <5>1, <5>2 DEF Inode
      <4>2. ASSUME NEW i \in 1 .. keep, i \notin torn PROVE journal'[i] = journal[i]
        BY <2>1, <2>2, <4>2
      <4>3. \A i \in 1 .. keep : i \in 1 .. Len(journal)
        BY JournalFacts DEF IInv, WriterTypeOK
      <4> QED
        BY <4>1, <4>2, <4>3 DEF Mapped
    <3> QED
      BY <2>3, <3>1 DEF Mapped
  <2>5. call' = [c \in Callers |-> IF Abstract!Running(c) THEN Abstract!Lost(call[c]) ELSE call[c]]
    BY <2>1 DEF Lost, Abstract!Lost, Abstract!Running
  <2>6. Abstract!PowerLoss
    BY <1>0, <2>1, <2>a, <2>4, <2>5 DEF Abstract!PowerLoss
  <2> QED
    BY <2>6 DEF Abstract!FileNext
<1>9. CASE UNCHANGED writerVars
  BY <1>9 DEF writerVars, Abstract!fileVars, Mapped
<1> QED
  BY <1>1, <1>2, <1>3, <1>4, <1>5, <1>6, <1>7, <1>8, <1>9 DEF WriterNext

(* The writer's variables keep their types. *)
THEOREM WriterTypes == WriterSpec => []WriterTypeOK
<1>1. IInv => WriterTypeOK
  BY DEF IInv
<1> QED
  BY InitInv, NextInv, <1>1, PTL DEF WriterSpec

(* Files written through the executor are atomic and, once a write or a    *)
(* create is answered, durable: executor.rs implements AtomicFile.         *)
THEOREM WriterImplementsFile == WriterSpec => FileIsAtomic
  BY InitInv, NextInv, InitRefines, NextRefines, PTL DEF WriterSpec, FileIsAtomic, Abstract!FileSpec
=============================================================================
