------------------------------ MODULE QuitProofs -------------------------------
(***************************************************************************)
(* What an answered Stop and an exit promise, for any number of calls,     *)
(* any timeout and any number of Cancels.                                  *)
(*                                                                         *)
(* The slot is cleared by the supervisor alone, once the game is over or   *)
(* left with its record and guards in order (SlotInv), and nothing fills   *)
(* it again, so what a call saw when it looked stays so (CallInv).  A quit *)
(* is approved when nothing is supervised any more, when the session was   *)
(* told to stop, or when a wait ran out (ApprovedInv).                     *)
(***************************************************************************)
EXTENDS Quit, TLAPS

Sessions == [slot : {"empty", "live"}, game : {"none", "runs", "ending", "left", "over"},
             cancel : BOOLEAN, detach : BOOLEAN, record : {"none", "live", "detached"},
             guards : {"none", "armed", "disarmed", "released", "dropped"}]

Call == [pc : {"idle", "stopping", "look", "detaching", "approve", "told"},
         kind : {"none", "quit", "command"},
         answer : {"none", "NothingLive", "TimedOut", "Detached", "Cleared"}]

QuitTypeOK ==
    /\ app \in {"closed", "open", "exiting", "detaching", "gone"}
    /\ approved \in BOOLEAN /\ outwaited \in BOOLEAN
    /\ session \in Sessions
    /\ calls \in [Calls -> Call]

ClosedInv ==
    app = "closed" => /\ session.game = "none" /\ session.slot = "empty"
                      /\ ~approved /\ \A c \in Calls : calls[c] = NoCall

SlotInv ==
    /\ session.slot = "live" => session.game # "none"
    /\ session.slot = "empty" => session.game \in {"none", "left", "over"}
    /\ session.game = "left" => session.record = "detached" /\ session.guards = "disarmed"
    /\ session.game = "over" => session.record = "none"

Over == session.slot = "empty" /\ session.game \in {"left", "over"}

CallInv ==
    \A c \in Calls :
       /\ calls[c].pc \in {"stopping", "detaching"} => session.game # "none"
       /\ calls[c].pc = "stopping" => session.cancel
       /\ calls[c].pc = "look" => Over
       /\ calls[c].answer = "Cleared" => Over /\ session.game = "over"

MayGo == ~Live \/ session.cancel \/ outwaited

ApprovedInv ==
    /\ approved => MayGo
    /\ \A c \in Calls : calls[c].pc = "approve" => MayGo

IInv == QuitTypeOK /\ ClosedInv /\ SlotInv /\ CallInv /\ ApprovedInv /\ ExitSparesTheGame

(* No application and no session to begin with.                            *)
LEMMA InitInv == QuitInit => IInv
<1> SUFFICES ASSUME QuitInit PROVE IInv
  OBVIOUS
<1>1. \A c \in Calls : calls[c] = NoCall
  BY DEF QuitInit
<1>2. calls \in [Calls -> Call]
  BY DEF QuitInit, NoCall, Call
<1>3. QuitTypeOK
  BY <1>2 DEF QuitInit, QuitTypeOK, Sessions
<1>4. ClosedInv /\ SlotInv /\ ExitSparesTheGame
  BY <1>1 DEF QuitInit, ClosedInv, SlotInv, ExitSparesTheGame
<1>5. CallInv
  <2>1. \A c \in Calls : calls[c].pc = "idle" /\ calls[c].answer = "none"
    <3>1. NoCall.pc = "idle" /\ NoCall.answer = "none"
      BY DEF NoCall
    <3> QED
      BY <1>1, <3>1
  <2> QED
    BY <2>1 DEF CallInv
<1>6. ApprovedInv
  BY <1>1 DEF QuitInit, ApprovedInv, NoCall
<1> QED
  BY <1>3, <1>4, <1>5, <1>6 DEF IInv

(* A step of the application that leaves the session, the calls and the    *)
(* approval alone keeps the invariant, as long as it does not end it.      *)
LEMMA ShellStep ==
    ASSUME IInv, UNCHANGED <<approved, outwaited, session, calls>>,
           app' \in {"open", "exiting", "detaching"}
    PROVE  IInv'
  BY DEF IInv, QuitTypeOK, ClosedInv, SlotInv, CallInv, ApprovedInv, ExitSparesTheGame,
         MayGo, Live, Over

(* The process may end when nothing is supervised, when a Stop was asked   *)
(* for or when a wait ran out.                                             *)
LEMMA GoneStep ==
    ASSUME IInv, NEW s \in {session, MarkedDetached}, Gone(s),
           outwaited' \in BOOLEAN, outwaited => outwaited',
           ~Live \/ session.cancel \/ outwaited'
    PROVE  IInv'
<1>1. /\ s \in Sessions
      /\ s.slot = session.slot /\ s.game = session.game /\ s.cancel = session.cancel
      /\ s.guards = session.guards
      /\ session.record # "live" => s.record = session.record
      /\ session.record = "live" => s.record \in {"live", "detached"}
  <2>1. CASE s = session
    BY <2>1 DEF IInv, QuitTypeOK
  <2>2. CASE s = [session EXCEPT !.record = "detached"] /\ session.record = "live"
    BY <2>2 DEF IInv, QuitTypeOK, Sessions
  <2> QED
    BY <2>1, <2>2 DEF MarkedDetached
<1>2. PICK g \in {"none", "armed", "disarmed", "released", "dropped"} :
         /\ session' = [s EXCEPT !.guards = g]
         /\ s.guards # "armed" => g = s.guards
  BY <1>1 DEF Gone, Sessions
<1>3. /\ session' \in Sessions
      /\ session'.slot = s.slot /\ session'.game = s.game /\ session'.cancel = s.cancel
      /\ session'.record = s.record /\ session'.guards = g
  BY <1>1, <1>2 DEF Sessions
<1>4. app' = "gone" /\ approved' = approved /\ \A c \in Calls : calls'[c] = NoCall
  BY DEF Gone
<1>5. calls' \in [Calls -> Call]
  BY DEF Gone, NoCall, Call
<1>6. QuitTypeOK'
  BY <1>3, <1>4, <1>5 DEF IInv, QuitTypeOK
<1>7. SlotInv
  BY DEF IInv
<1>8. SlotInv'
  BY <1>1, <1>2, <1>3, <1>7 DEF SlotInv
<1>9. CallInv' /\ ClosedInv'
  BY <1>4 DEF NoCall, CallInv, ClosedInv
<1>10. ApprovedInv'
  BY <1>1, <1>3, <1>4 DEF ApprovedInv, MayGo, Live, NoCall
<1>11. ExitSparesTheGame'
  BY <1>1, <1>3, <1>4, <1>8 DEF ExitSparesTheGame, SlotInv, Live, Sessions
<1> QED
  BY <1>6, <1>8, <1>9, <1>10, <1>11 DEF IInv

(* What the invariant asks of one call.                                    *)
CallOK(c) ==
    /\ calls[c].pc \in {"stopping", "detaching"} => session.game # "none"
    /\ calls[c].pc = "stopping" => session.cancel
    /\ calls[c].pc = "look" => Over
    /\ calls[c].answer = "Cleared" => Over /\ session.game = "over"
    /\ calls[c].pc = "approve" => MayGo

(* A step that leaves the slot and the game alone, asks for a Stop or a    *)
(* detach, or marks the record, keeps the invariant if the calls it moves  *)
(* are in order after it.                                                  *)
LEMMA CallStep ==
    ASSUME IInv, app # "closed", app' \in {"open", "exiting", "detaching"},
           session' \in Sessions,
           session'.slot = session.slot, session'.game = session.game,
           session'.guards = session.guards, session.cancel => session'.cancel,
           session.record # "live" => session'.record = session.record,
           outwaited' \in BOOLEAN, outwaited => outwaited',
           approved' \in BOOLEAN, approved' => approved \/ MayGo',
           calls' \in [Calls -> Call],
           \A c \in Calls : calls'[c] = calls[c] \/ CallOK(c)'
    PROVE  IInv'
<1>1. QuitTypeOK' /\ ClosedInv' /\ ExitSparesTheGame'
  BY DEF QuitTypeOK, ClosedInv, ExitSparesTheGame
<1>2. SlotInv'
  BY DEF IInv, SlotInv
<1>3. MayGo => MayGo'
  BY DEF MayGo, Live
<1>4. Over => Over'
  BY DEF Over
<1>5. \A c \in Calls : CallOK(c)
  BY DEF IInv, CallInv, ApprovedInv, CallOK
<1>6. \A c \in Calls : CallOK(c)'
  BY <1>3, <1>4, <1>5 DEF CallOK
<1>7. CallInv' /\ ApprovedInv'
  BY <1>3, <1>6 DEF IInv, CallInv, ApprovedInv, CallOK
<1> QED
  BY <1>1, <1>2, <1>7 DEF IInv

(* While a session is supervised no call has seen its slot empty.          *)
LEMMA SupervisorStep ==
    ASSUME IInv, Supervised, UNCHANGED <<app, approved, calls, outwaited>>,
           session' \in Sessions, session'.game # "none",
           session'.cancel = session.cancel, SlotInv'
    PROVE  IInv'
<1>1. QuitTypeOK' /\ ClosedInv' /\ ExitSparesTheGame'
  BY DEF IInv, QuitTypeOK, ClosedInv, ExitSparesTheGame, Supervised
<1>2. CallInv'
  BY DEF IInv, CallInv, Over, Supervised, Live
<1>3. MayGo => MayGo'
  BY DEF MayGo, Supervised
<1>4. ApprovedInv'
  BY <1>3 DEF IInv, ApprovedInv
<1> QED
  BY <1>1, <1>2, <1>4 DEF IInv

(* Opening, asking and the main loop keep the inductive invariant.         *)
LEMMA ShellInv ==
    ASSUME IInv, Opened \/ UserQuits \/ Terminate \/ Tick \/ MainLoop \/ PageReloads
    PROVE  IInv'
<1>1. CASE Opened
  <2>1. app = "closed" /\ app' = "open" /\ UNCHANGED <<approved, calls, outwaited>>
    BY <1>1 DEF Opened
  <2>2. CASE session' = session
    BY <2>1, <2>2, ShellStep
  <2>3. CASE session' = [session EXCEPT !.slot = "live", !.game = "runs", !.record = "live",
                                        !.guards = "armed"]
    <3>1. /\ session' \in Sessions
          /\ session'.slot = "live" /\ session'.game = "runs"
      BY <2>3 DEF IInv, QuitTypeOK, Sessions
    <3>2. ~approved /\ \A c \in Calls : calls[c] = NoCall
      BY <2>1 DEF IInv, ClosedInv
    <3>3. NoCall.pc = "idle" /\ NoCall.answer = "none"
      BY DEF NoCall
    <3>4. CallInv' /\ ApprovedInv'
      BY <2>1, <3>2, <3>3 DEF CallInv, ApprovedInv
    <3>5. SlotInv'
      BY <3>1 DEF SlotInv
    <3> QED
      BY <2>1, <3>1, <3>4, <3>5 DEF IInv, QuitTypeOK, ClosedInv, ExitSparesTheGame
  <2> QED
    BY <1>1, <2>2, <2>3 DEF Opened
<1>2. CASE UserQuits \/ ExitRequested \/ Terminate \/ Tick \/ PageReloads
  <2>1. UNCHANGED <<approved, outwaited, session, calls>>
    BY <1>2 DEF UserQuits, ExitRequested, Terminate, Tick, PageReloads, appVars
  <2>2. app' \in {"open", "exiting", "detaching"}
    <3>1. CASE UserQuits \/ ExitRequested
      BY <3>1 DEF UserQuits, ExitRequested, Requested
    <3>2. CASE Terminate \/ Tick \/ PageReloads
      BY <3>2 DEF Terminate, Tick, PageReloads, appVars
    <3> QED
      BY <1>2, <3>1, <3>2
  <2> QED
    BY <2>1, <2>2, ShellStep
<1>3. CASE ExitEvent
  <2>1. CASE Gone(session)
    <3>1. app = "exiting" /\ outwaited' = outwaited
      BY <1>3 DEF ExitEvent
    <3>2. approved \/ ~Live \/ session.cancel
      BY <1>3, <2>1, <3>1 DEF ExitEvent, Gone
    <3>3. ~Live \/ session.cancel \/ outwaited'
      BY <3>1, <3>2 DEF IInv, ApprovedInv, MayGo
    <3>4. outwaited \in BOOLEAN
      BY DEF IInv, QuitTypeOK
    <3> QED
      BY <2>1, <3>1, <3>3, <3>4, GoneStep
  <2>2. CASE /\ app' = "detaching" /\ session' = [session EXCEPT !.detach = TRUE]
             /\ UNCHANGED <<approved, calls, outwaited>>
    <3>1. /\ session' \in Sessions /\ session'.slot = session.slot
          /\ session'.game = session.game /\ session'.guards = session.guards
          /\ session'.cancel = session.cancel /\ session'.record = session.record
      BY <2>2 DEF IInv, QuitTypeOK, Sessions
    <3>2. app # "closed" /\ approved' \in BOOLEAN /\ outwaited' \in BOOLEAN
          /\ calls' \in [Calls -> Call]
      BY <1>3, <2>2 DEF ExitEvent, IInv, QuitTypeOK
    <3> QED
      BY <2>2, <3>1, <3>2, CallStep
  <2> QED
    BY <1>3, <2>1, <2>2 DEF ExitEvent
<1>4. CASE ExitDetached
  <2>1. outwaited' \in BOOLEAN /\ (outwaited => outwaited') /\ (~Live \/ outwaited')
    BY <1>4 DEF ExitDetached, IInv, QuitTypeOK
  <2> QED
    BY <1>4, <2>1, GoneStep DEF ExitDetached
<1> QED
  BY <1>1, <1>2, <1>3, <1>4 DEF MainLoop

(* The supervisor keeps the inductive invariant.                           *)
LEMMA SupervisorInv ==
    ASSUME IInv, SeesEnd \/ SeesDetach \/ TeardownDone \/ ClearsSlot
    PROVE  IInv'
<1>1. Supervised /\ UNCHANGED <<app, approved, calls, outwaited>>
  BY DEF SeesEnd, SeesDetach, TeardownDone, ClearsSlot, appVars
<1>2. session \in Sessions /\ SlotInv /\ session.slot = "live"
  BY <1>1 DEF IInv, QuitTypeOK, Supervised, Live
<1>3. CASE SeesEnd
  <2>1. session' \in Sessions /\ session'.slot = "live" /\ session'.game = "ending"
        /\ session'.cancel = session.cancel
    BY <1>2, <1>3 DEF SeesEnd, Sessions
  <2> QED
    BY <1>1, <2>1, SupervisorStep DEF SlotInv
<1>4. CASE SeesDetach
  <2>1. session' \in Sessions /\ session'.slot = "live" /\ session'.game = "left"
        /\ session'.record = "detached" /\ session'.guards = "disarmed"
        /\ session'.cancel = session.cancel
    BY <1>2, <1>4 DEF SeesDetach, Sessions
  <2> QED
    BY <1>1, <2>1, SupervisorStep DEF SlotInv
<1>5. CASE TeardownDone
  <2>1. session' \in Sessions /\ session'.slot = "live" /\ session'.game = "over"
        /\ session'.record = "none" /\ session'.cancel = session.cancel
    BY <1>2, <1>5 DEF TeardownDone, Sessions
  <2> QED
    BY <1>1, <2>1, SupervisorStep DEF SlotInv
<1>6. CASE ClearsSlot
  <2>1. session' \in Sessions /\ session'.slot = "empty" /\ session.game \in {"left", "over"}
        /\ session'.game = session.game /\ session'.record = session.record
        /\ session'.guards = session.guards /\ session'.cancel = session.cancel
    BY <1>2, <1>6 DEF ClearsSlot, Sessions
  <2>2. SlotInv'
    BY <1>2, <2>1 DEF SlotInv
  <2> QED
    BY <1>1, <2>1, <2>2, SupervisorStep
<1> QED
  BY <1>3, <1>4, <1>5, <1>6

(* What a call may do to the session: ask, and mark the record.            *)
Asks ==
    /\ session' \in Sessions
    /\ session'.slot = session.slot /\ session'.game = session.game
    /\ session'.guards = session.guards
    /\ session.cancel => session'.cancel
    /\ session.record # "live" => session'.record = session.record

(* What the invariant asks of a call that becomes r.                       *)
MoveOK(r) ==
    /\ r.pc \in {"stopping", "detaching"} => session.game # "none"
    /\ r.pc = "stopping" => session'.cancel
    /\ r.pc = "look" => Over
    /\ r.answer = "Cleared" => Over /\ session.game = "over"
    /\ r.pc = "approve" => MayGo'

(* One call's move.                                                        *)
LEMMA MoveStep ==
    ASSUME IInv, NEW c \in Calls, NEW r \in Call, calls' = [calls EXCEPT ![c] = r],
           app' = app, app \in {"open", "exiting", "detaching"}, Asks, MoveOK(r),
           outwaited' \in BOOLEAN, outwaited => outwaited',
           approved' \in BOOLEAN, approved' => approved \/ MayGo'
    PROVE  IInv'
<1>1. calls \in [Calls -> Call]
  BY DEF IInv, QuitTypeOK
<1>2. calls' \in [Calls -> Call] /\ calls'[c] = r
  BY <1>1
<1>3. \A d \in Calls \ {c} : calls'[d] = calls[d]
  BY <1>1
<1>4. CallOK(c)'
  BY <1>2 DEF Asks, MoveOK, CallOK, Over
<1>5. \A d \in Calls : calls'[d] = calls[d] \/ CallOK(d)'
  BY <1>3, <1>4
<1>6. app # "closed" /\ app' \in {"open", "exiting", "detaching"}
  OBVIOUS
<1> QED
  BY <1>2, <1>5, <1>6, CallStep DEF Asks

(* A session left alone was asked nothing.                                 *)
LEMMA NothingAsked == ASSUME IInv, session' = session PROVE Asks
  BY DEF IInv, QuitTypeOK, Asks

(* The dialog's answers keep the inductive invariant.                      *)
LEMMA AnswersInv ==
    ASSUME IInv, NEW c \in Calls, NEW choice \in {"Stop", "Keep", "Cancel"}, Answers(c, choice)
    PROVE  IInv'
<1>1. app = "open" /\ app' = app /\ outwaited' = outwaited
  BY DEF Answers
<1>2. session \in Sessions /\ approved \in BOOLEAN /\ outwaited \in BOOLEAN
      /\ calls \in [Calls -> Call] /\ SlotInv
  BY DEF IInv, QuitTypeOK
<1>3. CASE choice = "Cancel"
  <2>1. approved' = FALSE /\ UNCHANGED <<calls, session>>
    BY <1>3 DEF Answers
  <2> QED
    BY <1>1, <1>2, <2>1, CallStep
<1>4. CASE choice = "Stop"
  <2> DEFINE r == IF Live THEN [pc |-> "stopping", kind |-> "quit", answer |-> "none"]
                  ELSE [pc |-> "approve", kind |-> "quit", answer |-> "NothingLive"]
  <2>1. /\ calls' = [calls EXCEPT ![c] = r]
        /\ session' = [session EXCEPT !.cancel = @ \/ Live]
        /\ approved' = approved
    BY <1>4 DEF Answers
  <2>2. Asks /\ (Live => session'.cancel)
    BY <1>2, <2>1 DEF Asks, Sessions, Live
  <2>3. r \in Call
    BY DEF Call
  <2>4. MoveOK(r)
    <3>1. CASE Live
      <4>1. r.pc = "stopping" /\ r.answer = "none"
        BY <3>1
      <4> QED
        BY <1>2, <2>2, <3>1, <4>1 DEF MoveOK, SlotInv, Live
    <3>2. CASE ~Live
      <4>1. r.pc = "approve" /\ r.answer = "NothingLive"
        BY <3>2
      <4>2. ~Live'
        BY <2>2, <3>2 DEF Asks, Live
      <4> QED
        BY <4>1, <4>2 DEF MoveOK, MayGo
    <3> QED
      BY <3>1, <3>2
  <2> HIDE DEF r
  <2> QED
    BY <1>1, <1>2, <2>1, <2>2, <2>3, <2>4, MoveStep
<1>5. CASE choice = "Keep"
  <2> DEFINE asked == Live /\ ~session.cancel
             r == [pc |-> IF asked THEN "detaching" ELSE "approve",
                   kind |-> "quit", answer |-> "none"]
  <2>1. /\ calls' = [calls EXCEPT ![c] = r]
        /\ session' = [session EXCEPT !.detach = @ \/ asked]
        /\ approved' = approved
    BY <1>5 DEF Answers
  <2>2. Asks /\ session'.cancel = session.cancel
    BY <1>2, <2>1 DEF Asks, Sessions, Live
  <2>3. r \in Call
    BY DEF Call
  <2>4. MoveOK(r)
    <3>1. CASE asked
      <4>1. r.pc = "detaching" /\ r.answer = "none"
        BY <3>1
      <4> QED
        BY <1>2, <3>1, <4>1 DEF MoveOK, SlotInv, Live
    <3>2. CASE ~asked
      <4>1. r.pc = "approve" /\ r.answer = "none"
        BY <3>2
      <4>2. ~Live' \/ session'.cancel
        BY <2>2, <3>2 DEF Asks, Live
      <4> QED
        BY <4>1, <4>2 DEF MoveOK, MayGo
    <3> QED
      BY <3>1, <3>2
  <2> HIDE DEF r
  <2> QED
    BY <1>1, <1>2, <2>1, <2>2, <2>3, <2>4, MoveStep
<1> QED
  BY <1>3, <1>4, <1>5

(* stop_session and detach_session keep the inductive invariant.           *)
LEMMA CommandsInv ==
    ASSUME IInv, NEW c \in Calls, NEW what \in {"stop", "detach"}, Commands(c, what)
    PROVE  IInv'
<1>1. app = "open" /\ app' = app /\ outwaited' = outwaited /\ approved' = approved
      /\ session.slot = "live"
  BY DEF Commands, appVars, Live
<1>2. session \in Sessions /\ approved \in BOOLEAN /\ outwaited \in BOOLEAN
      /\ session.game # "none"
  BY <1>1 DEF IInv, QuitTypeOK, SlotInv
<1>3. CASE what = "stop"
  <2> DEFINE r == [pc |-> "stopping", kind |-> "command", answer |-> "none"]
  <2>1. calls' = [calls EXCEPT ![c] = r] /\ session' = [session EXCEPT !.cancel = TRUE]
    BY <1>3 DEF Commands
  <2>2. r \in Call
    BY DEF Call
  <2>3. Asks /\ session'.cancel
    BY <1>2, <2>1 DEF Asks, Sessions
  <2>4. MoveOK(r)
    BY <1>2, <2>3 DEF MoveOK
  <2> HIDE DEF r
  <2> QED
    BY <1>1, <1>2, <2>1, <2>2, <2>3, <2>4, MoveStep
<1>4. CASE what = "detach"
  <2> DEFINE r == [pc |-> "detaching", kind |-> "command", answer |-> "none"]
  <2>1. calls' = [calls EXCEPT ![c] = r] /\ session' = [session EXCEPT !.detach = TRUE]
    BY <1>4 DEF Commands
  <2>2. r \in Call
    BY DEF Call
  <2>3. Asks
    BY <1>2, <2>1 DEF Asks, Sessions
  <2>4. MoveOK(r)
    BY <1>2 DEF MoveOK
  <2> HIDE DEF r
  <2> QED
    BY <1>1, <1>2, <2>1, <2>2, <2>3, <2>4, MoveStep
<1> QED
  BY <1>3, <1>4

(* A call's waits and its last lines keep the inductive invariant.         *)
LEMMA AnswerStepInv ==
    ASSUME IInv, NEW c \in Calls, AnswerStep(c)
    PROVE  IInv'
<1> DEFINE k == calls[c]
<1>1. k \in Call /\ calls \in [Calls -> Call] /\ session \in Sessions
      /\ approved \in BOOLEAN /\ outwaited \in BOOLEAN /\ SlotInv
  BY DEF IInv, QuitTypeOK
<1>2. app' = app /\ app \in {"open", "exiting", "detaching"}
  <2>1. app' = app /\ app # "gone" /\ k.pc # "idle"
    BY DEF AnswerStep, StopWaited, Looked, DetachWaited, Approves, Told, appVars
  <2>2. app # "closed"
    BY <2>1 DEF IInv, ClosedInv, NoCall
  <2> QED
    BY <2>1, <2>2 DEF IInv, QuitTypeOK
<1>3. /\ k.pc \in {"stopping", "detaching"} => session.game # "none"
      /\ k.pc = "stopping" => session.cancel
      /\ k.pc = "look" => Over
      /\ k.answer = "Cleared" => Over /\ session.game = "over"
      /\ k.pc = "approve" => MayGo
  BY DEF IInv, CallInv, ApprovedInv
<1>4. After(c) \in {"approve", "told"}
  BY DEF After
<1>5. CASE StopWaited(c)
  <2>1. k.pc = "stopping" /\ UNCHANGED <<approved, outwaited, session>>
    BY <1>5 DEF StopWaited, appVars
  <2>2. Asks
    BY <2>1, NothingAsked
  <2>3. CASE Live
    <3> DEFINE r == [k EXCEPT !.pc = After(c), !.answer = "TimedOut"]
    <3>1. calls' = [calls EXCEPT ![c] = r]
      BY <1>5, <2>3 DEF StopWaited
    <3>2. r \in Call /\ r.pc = After(c) /\ r.answer = "TimedOut"
      BY <1>1, <1>4 DEF Call
    <3>3. MayGo'
      BY <1>3, <2>1 DEF MayGo, Live
    <3>4. MoveOK(r)
      BY <1>4, <3>2, <3>3 DEF MoveOK
    <3> HIDE DEF r
    <3> QED
      BY <1>1, <1>2, <2>1, <2>2, <3>1, <3>2, <3>4, MoveStep
  <2>4. CASE ~Live
    <3> DEFINE r == [k EXCEPT !.pc = "look"]
    <3>1. calls' = [calls EXCEPT ![c] = r]
      BY <1>5, <2>4 DEF StopWaited
    <3>2. r \in Call /\ r.pc = "look" /\ r.answer = k.answer
      BY <1>1 DEF Call
    <3>3. Over
      BY <1>1, <1>3, <2>1, <2>4 DEF Over, SlotInv, Live, Sessions
    <3>4. MoveOK(r)
      BY <1>3, <3>2, <3>3 DEF MoveOK
    <3> HIDE DEF r
    <3> QED
      BY <1>1, <1>2, <2>1, <2>2, <3>1, <3>2, <3>4, MoveStep
  <2> QED
    BY <2>3, <2>4
<1>6. CASE Looked(c)
  <2> DEFINE a == IF session.record = "detached" THEN "Detached" ELSE "Cleared"
             r == [k EXCEPT !.pc = After(c), !.answer = a]
  <2>1. k.pc = "look" /\ UNCHANGED <<approved, outwaited, session>>
        /\ calls' = [calls EXCEPT ![c] = r]
    BY <1>6 DEF Looked, appVars
  <2>2. r \in Call /\ r.pc = After(c) /\ r.answer = a
    BY <1>1, <1>4 DEF Call
  <2>3. Over /\ MayGo'
    BY <1>3, <2>1 DEF Over, MayGo, Live
  <2>4. a = "Cleared" => session.game = "over"
    BY <1>1, <2>3 DEF SlotInv, Over
  <2>5. MoveOK(r)
    BY <1>4, <2>2, <2>3, <2>4 DEF MoveOK
  <2>6. Asks
    BY <2>1, NothingAsked
  <2> HIDE DEF r
  <2> QED
    BY <1>1, <1>2, <2>1, <2>2, <2>5, <2>6, MoveStep
<1>7. CASE DetachWaited(c)
  <2> DEFINE r == [k EXCEPT !.pc = After(c)]
  <2>1. /\ k.pc = "detaching" /\ approved' = approved /\ session' = MarkedDetached
        /\ outwaited' = (outwaited \/ Live) /\ calls' = [calls EXCEPT ![c] = r]
    BY <1>7 DEF DetachWaited, appVars
  <2>2. r \in Call /\ r.pc = After(c) /\ r.answer = k.answer
    BY <1>1, <1>4 DEF Call
  <2>3. Asks
    BY <1>1, <2>1 DEF Asks, MarkedDetached, Sessions
  <2>4. MayGo'
    BY <2>1, <2>3 DEF MayGo, Live, Asks
  <2>5. MoveOK(r)
    BY <1>3, <1>4, <2>2, <2>4 DEF MoveOK
  <2> HIDE DEF r
  <2> QED
    BY <1>1, <1>2, <2>1, <2>2, <2>3, <2>5, MoveStep
<1>8. CASE Approves(c)
  <2> DEFINE r == [k EXCEPT !.pc = "told"]
  <2>1. /\ k.pc = "approve" /\ approved' = TRUE /\ UNCHANGED <<session, outwaited>>
        /\ calls' = [calls EXCEPT ![c] = r]
    BY <1>8 DEF Approves
  <2>2. r \in Call /\ r.pc = "told" /\ r.answer = k.answer
    BY <1>1 DEF Call
  <2>3. MayGo'
    BY <1>3, <2>1 DEF MayGo, Live
  <2>4. MoveOK(r)
    BY <1>3, <2>2 DEF MoveOK
  <2>5. Asks
    BY <2>1, NothingAsked
  <2> HIDE DEF r
  <2> QED
    BY <1>1, <1>2, <2>1, <2>2, <2>3, <2>4, <2>5, MoveStep
<1>9. CASE Told(c)
  <2>1. UNCHANGED <<approved, session, outwaited>> /\ calls' = [calls EXCEPT ![c] = NoCall]
    BY <1>9 DEF Told, appVars
  <2>2. NoCall \in Call /\ NoCall.pc = "idle" /\ NoCall.answer = "none"
    BY DEF Call, NoCall
  <2>3. MoveOK(NoCall)
    BY <2>2 DEF MoveOK
  <2>4. Asks
    BY <2>1, NothingAsked
  <2> QED
    BY <1>1, <1>2, <2>1, <2>2, <2>3, <2>4, MoveStep
<1> QED
  BY <1>5, <1>6, <1>7, <1>8, <1>9 DEF AnswerStep

(* Every step keeps the inductive invariant.                               *)
LEMMA NextInv == IInv /\ [QuitNext]_quitVars => IInv'
<1> SUFFICES ASSUME IInv, [QuitNext]_quitVars PROVE IInv'
  OBVIOUS
<1>1. CASE Opened \/ UserQuits \/ Terminate \/ Tick \/ MainLoop \/ PageReloads
  BY <1>1, ShellInv
<1>2. ASSUME NEW c \in Calls, NEW choice \in {"Stop", "Keep", "Cancel"}, Answers(c, choice)
      PROVE  IInv'
  BY <1>2, AnswersInv
<1>3. ASSUME NEW c \in Calls, NEW what \in {"stop", "detach"}, Commands(c, what)
      PROVE  IInv'
  BY <1>3, CommandsInv
<1>4. ASSUME NEW c \in Calls, AnswerStep(c)
      PROVE  IInv'
  BY <1>4, AnswerStepInv
<1>5. CASE SeesEnd \/ SeesDetach \/ TeardownDone \/ ClearsSlot
  BY <1>5, SupervisorInv
<1>6. CASE UNCHANGED quitVars
  BY <1>6 DEF quitVars, IInv, QuitTypeOK, ClosedInv, SlotInv, CallInv, ApprovedInv,
              ExitSparesTheGame, MayGo, Live, Over
<1> QED
  BY <1>1, <1>2, <1>3, <1>4, <1>5, <1>6 DEF QuitNext

(* The inductive invariant holds in every reachable state.                 *)
LEMMA QuitInvariant == QuitSpec => []IInv
  BY InitInv, NextInv, PTL DEF QuitSpec

(* A game that still runs when the application is gone, and that nobody    *)
(* stopped, was detached from, or a bounded wait ran out on its            *)
(* supervisor (detach_on_terminate).                                       *)
THEOREM ExitIsHonest == QuitSpec => []ExitSparesTheGame
<1>1. IInv => ExitSparesTheGame
  BY DEF IInv
<1> QED
  BY <1>1, QuitInvariant, PTL

(* A Stop that answers that the session was cleared answers so of a        *)
(* session that was torn down to the end (TeardownWait).                   *)
THEOREM StopIsTrue == QuitSpec => []StopAnswersAreTrue
<1>1. IInv => StopAnswersAreTrue
  BY DEF IInv, CallInv, Over, StopAnswersAreTrue, Live
<1> QED
  BY <1>1, QuitInvariant, PTL
=============================================================================
