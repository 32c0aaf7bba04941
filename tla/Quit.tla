---------------------------------- MODULE Quit ----------------------------------
(***************************************************************************)
(* Quitting the desktop application over a live session (lib.rs and        *)
(* commands.rs): the intercept of an exit or close request, the dialog in  *)
(* the page, the calls that answer it or stop and detach from elsewhere,   *)
(* the exit itself, and the supervisor that obeys the session's two        *)
(* tokens.  Calls run on the runtime's threads, so the main loop, the page *)
(* and the supervisor come between any two of their steps.  A session is   *)
(* live or there is none; starting one is Launch's.                        *)
(***************************************************************************)
EXTENDS Naturals

CONSTANTS Calls,        \* bound: answers and commands in flight
          QuitTimeout,  \* QUIT_DIALOG_TIMEOUT, in ticks of the clock
          MaxCancels    \* bound: times the user answers Cancel

NotAsked == QuitTimeout + 1

VARIABLES app,          \* closed, open, exiting (RunEvent::Exit being handled) or gone
          approved,     \* QuitApproved
          pending,      \* PendingQuit: ticks the dialog is unanswered, or NotAsked
          exitAsked,    \* app.exit(0) called and not yet handled
          page,         \* the webview: the dialog is up, its Stop is under way
          calls,        \* resolve_quit, stop_session, detach_session
          session,      \* the slot's handle, its game, guards and record
          cancels, outwaited

quitVars == <<app, approved, pending, exitAsked, page, calls, session, cancels, outwaited>>
appVars == <<app, approved, pending, exitAsked>>

Live == session.slot = "live"
NoCall == [pc |-> "idle", kind |-> "none", answer |-> "none"]
BlankPage == [dialog |-> FALSE, stopping |-> FALSE]

QuitInit ==
    /\ app = "closed" /\ approved = FALSE /\ pending = NotAsked /\ exitAsked = FALSE
    /\ page = BlankPage
    /\ calls = [c \in Calls |-> NoCall]
    /\ session = [slot |-> "empty", game |-> "none", cancel |-> FALSE, detach |-> FALSE,
                  record |-> "none", guards |-> "none"]
    /\ cancels = 0 /\ outwaited = FALSE

(* The user has the application open, and may have a session live in it. *)
Opened ==
    /\ app = "closed"
    /\ app' = "open"
    /\ session' \in {session, [session EXCEPT !.slot = "live", !.game = "runs",
                                             !.record = "live", !.guards = "armed"]}
    /\ UNCHANGED <<approved, pending, exitAsked, page, calls, cancels, outwaited>>
-----------------------------------------------------------------------------
(* should_intercept_quit, quit_intercept_decision. *)
QuitDecision ==
    IF approved \/ ~Live THEN "PassThrough"
    ELSE IF pending = QuitTimeout THEN "GiveUp" ELSE "Ask"

(* Slip: every request restarts the clock.                                 *)
MarkedAnew == 0

(* PendingQuit::mark keeps the first instant. *)
Marked == IF pending = NotAsked THEN 0 ELSE pending

(* One ExitRequested or CloseRequested: quit_decision, then ask_to_quit; a *)
(* request that is let through reaches RunEvent::Exit.                     *)
Requested ==
    \/ /\ QuitDecision = "Ask"
       /\ pending' = Marked
       /\ page' = [page EXCEPT !.dialog = TRUE]
       /\ UNCHANGED app
    \/ /\ QuitDecision # "Ask"
       /\ app' = "exiting"
       /\ UNCHANGED <<pending, page>>

(* Cmd-Q, the menu's Quit, or the window's close button. *)
UserQuits ==
    /\ app = "open"
    /\ Requested
    /\ UNCHANGED <<approved, exitAsked, calls, session, cancels, outwaited>>

(* The request an answer's own app.exit(0) makes. *)
ExitRequested ==
    /\ app = "open" /\ exitAsked
    /\ exitAsked' = FALSE
    /\ Requested
    /\ UNCHANGED <<approved, calls, session, cancels, outwaited>>

(* AppKit's terminate: (Dock, logout) cannot be intercepted. *)
Terminate ==
    /\ app = "open"
    /\ app' = "exiting"
    /\ UNCHANGED <<approved, pending, exitAsked, page, calls, session, cancels, outwaited>>

Tick ==
    /\ app = "open" /\ pending < QuitTimeout
    /\ pending' = pending + 1
    /\ UNCHANGED <<app, approved, exitAsked, page, calls, session, cancels, outwaited>>

(* The process ends: what is still supervised has its guards dropped. *)
Gone(s) ==
    /\ app' = "gone"
    /\ session' = [s EXCEPT !.guards = IF @ = "armed" THEN "dropped" ELSE @]
    /\ calls' = [c \in Calls |-> NoCall] /\ page' = BlankPage
    /\ pending' = NotAsked /\ exitAsked' = FALSE
    /\ UNCHANGED <<approved, cancels>>

(* Slip: an exit that was not intercepted ends the process there.          *)
ExitAtOnce == app = "exiting" /\ Gone(session) /\ UNCHANGED outwaited

(* detach_on_terminate, then detach_with's first half. *)
ExitEvent ==
    /\ app = "exiting"
    /\ IF approved \/ ~Live \/ session.cancel
       THEN Gone(session)
       ELSE /\ app' = "detaching"
            /\ session' = [session EXCEPT !.detach = TRUE]
            /\ UNCHANGED <<approved, pending, exitAsked, page, calls, cancels>>
    /\ UNCHANGED outwaited

(* state::mark_detached, the safety net: it creates no record. *)
MarkedDetached ==
    IF ~Live /\ ~session.cancel /\ session.record = "live"
    THEN [session EXCEPT !.record = "detached"] ELSE session

(* The exit waits, bounded, for the supervisor to let go. *)
ExitDetached ==
    /\ app = "detaching"
    /\ outwaited' = (outwaited \/ Live)
    /\ Gone(MarkedDetached)
-----------------------------------------------------------------------------
(* QuitDialog's buttons: all three are disabled while a Stop is under way. *)
Answers(c, choice) ==
    /\ app = "open" /\ calls[c].pc = "idle"
    /\ page.dialog /\ ~page.stopping
    /\ pending' = NotAsked
    /\ \/ /\ choice = "Cancel"
          /\ cancels < MaxCancels /\ cancels' = cancels + 1
          /\ approved' = FALSE
          /\ page' = [page EXCEPT !.dialog = FALSE]
          /\ UNCHANGED <<calls, session>>
       \/ /\ choice = "Stop"
          /\ page' = [page EXCEPT !.stopping = TRUE]
          /\ calls' = [calls EXCEPT ![c] =
                 IF Live THEN [pc |-> "stopping", kind |-> "quit", answer |-> "none"]
                 ELSE [pc |-> "approve", kind |-> "quit", answer |-> "NothingLive"]]
          /\ session' = [session EXCEPT !.cancel = @ \/ Live]
          /\ UNCHANGED <<approved, cancels>>
       \/ /\ choice = "Keep"
          /\ calls' = [calls EXCEPT ![c] =
                 [pc |-> IF Live /\ ~session.cancel THEN "detaching" ELSE "approve",
                  kind |-> "quit", answer |-> "none"]]
          /\ session' = [session EXCEPT !.detach = @ \/ (Live /\ ~session.cancel)]
          /\ UNCHANGED <<approved, cancels, page>>
    /\ UNCHANGED <<app, exitAsked, outwaited>>

(* stop_session on the live session, and detach_session. *)
Commands(c, what) ==
    /\ app = "open" /\ calls[c].pc = "idle"
    /\ Live
    /\ \/ /\ what = "stop"
          /\ session' = [session EXCEPT !.cancel = TRUE]
          /\ calls' = [calls EXCEPT ![c] = [pc |-> "stopping", kind |-> "command", answer |-> "none"]]
       \/ /\ what = "detach" /\ ~session.cancel
          /\ session' = [session EXCEPT !.detach = TRUE]
          /\ calls' = [calls EXCEPT ![c] = [pc |-> "detaching", kind |-> "command", answer |-> "none"]]
    /\ UNCHANGED <<appVars, page, cancels, outwaited>>

After(c) == IF calls[c].kind = "quit" THEN "approve" ELSE "told"

(* Slip: a wait that ran out is taken for one that ended.                  *)
StopWaitedOut(c) ==
    /\ app # "gone" /\ calls[c].pc = "stopping"
    /\ calls' = [calls EXCEPT ![c].pc = "look"]
    /\ UNCHANGED <<appVars, page, session, cancels, outwaited>>

(* wait_for_slot_clear: the slot is empty, or the deadline passes. *)
StopWaited(c) ==
    /\ app # "gone" /\ calls[c].pc = "stopping"
    /\ calls' = [calls EXCEPT ![c] =
           IF Live THEN [@ EXCEPT !.pc = After(c), !.answer = "TimedOut"]
           ELSE [@ EXCEPT !.pc = "look"]]
    /\ UNCHANGED <<appVars, page, session, cancels, outwaited>>

(* slot_was_released_by_a_detach reads the record. *)
Looked(c) ==
    /\ app # "gone" /\ calls[c].pc = "look"
    /\ calls' = [calls EXCEPT ![c] =
           [@ EXCEPT !.pc = After(c),
                     !.answer = IF session.record = "detached" THEN "Detached" ELSE "Cleared"]]
    /\ UNCHANGED <<appVars, page, session, cancels, outwaited>>

(* detach_with's second half, for Keep and detach_session. *)
DetachWaited(c) ==
    /\ app # "gone" /\ calls[c].pc = "detaching"
    /\ outwaited' = (outwaited \/ Live)
    /\ session' = MarkedDetached
    /\ calls' = [calls EXCEPT ![c].pc = After(c)]
    /\ UNCHANGED <<appVars, page, cancels>>

(* Stop's and Keep's last lines: the quit is approved whatever happened. *)
Approves(c) ==
    /\ app # "gone" /\ calls[c].pc = "approve"
    /\ approved' = TRUE /\ exitAsked' = TRUE
    /\ calls' = [calls EXCEPT ![c].pc = "told"]
    /\ UNCHANGED <<app, pending, page, session, cancels, outwaited>>

(* The page's promise settles: the dialog closes. *)
Told(c) ==
    /\ app = "open" /\ calls[c].pc = "told"
    /\ calls' = [calls EXCEPT ![c] = NoCall]
    /\ page' = IF calls[c].kind = "quit"
               THEN [page EXCEPT !.dialog = FALSE, !.stopping = FALSE] ELSE page
    /\ UNCHANGED <<appVars, session, cancels, outwaited>>

(* A page that loads again knows of no dialog; one whose webview has died  *)
(* shows it to nobody, which is a dialog that is never answered.           *)
PageReloads ==
    /\ app = "open" /\ page # BlankPage
    /\ page' = BlankPage
    /\ UNCHANGED <<appVars, calls, session, cancels, outwaited>>
-----------------------------------------------------------------------------
Supervised == app \notin {"closed", "gone"} /\ Live

(* The select: Stop first, then the game's own exit, then the detach. *)
SeesEnd ==
    /\ Supervised /\ session.game = "runs"
    /\ session' = [session EXCEPT !.game = "ending"]
    /\ UNCHANGED <<appVars, page, calls, cancels, outwaited>>

SeesDetach ==
    /\ Supervised /\ session.game = "runs" /\ session.detach /\ ~session.cancel
    /\ session' = [session EXCEPT !.game = "left", !.record = "detached", !.guards = "disarmed"]
    /\ UNCHANGED <<appVars, page, calls, cancels, outwaited>>

(* The teardown clears the record, then either arm clears the slot. *)
TeardownDone ==
    /\ Supervised /\ session.game = "ending"
    /\ session' = [session EXCEPT !.game = "over", !.record = "none", !.guards = "released"]
    /\ UNCHANGED <<appVars, page, calls, cancels, outwaited>>

ClearsSlot ==
    /\ Supervised /\ session.game \in {"left", "over"}
    /\ session' = [session EXCEPT !.slot = "empty"]
    /\ UNCHANGED <<appVars, page, calls, cancels, outwaited>>

AnswerStep(c) == StopWaited(c) \/ Looked(c) \/ DetachWaited(c) \/ Approves(c) \/ Told(c)
MainLoop == ExitRequested \/ ExitEvent \/ ExitDetached

QuitNext ==
    \/ Opened
    \/ UserQuits \/ Terminate \/ Tick \/ MainLoop
    \/ \E c \in Calls : \/ \E choice \in {"Stop", "Keep", "Cancel"} : Answers(c, choice)
                        \/ \E what \in {"stop", "detach"} : Commands(c, what)
                        \/ AnswerStep(c)
    \/ PageReloads
    \/ SeesEnd \/ SeesDetach \/ TeardownDone \/ ClearsSlot

QuitSpec == QuitInit /\ [][QuitNext]_quitVars

(* The clock and the main loop go on, and the user asks again; nothing is  *)
(* assumed of the page, of the calls, of the supervisor or of the game.    *)
QuitFair == WF_quitVars(UserQuits) /\ WF_quitVars(Tick) /\ WF_quitVars(MainLoop)
-----------------------------------------------------------------------------
(* A user who keeps asking and no longer answers Cancel gets out, though   *)
(* the page is dead or reloads for ever, the teardown hangs or nobody      *)
(* answers: QUIT_DIALOG_TIMEOUT's reason (commands.rs), "the user must     *)
(* never be left unable to quit".                                          *)
QuitGoesThrough == app = "open" ~> app = "gone"

(* detach_on_terminate: a game that still runs when the application is     *)
(* gone, and that nobody stopped, was detached from, so that no guard's    *)
(* Drop yanks its audio; unless a bounded wait ran out on the supervisor.  *)
ExitSparesTheGame ==
    (app = "gone" /\ session.game \in {"runs", "left"} /\ ~session.cancel)
        => (session.record = "detached" /\ session.guards = "disarmed") \/ outwaited

(* TeardownWait: an answer never calls a session stopped that detached or  *)
(* that still tears down when the wait ran out (stop_session's ok, and     *)
(* quit_stop_refusal's silence).                                           *)
StopAnswersAreTrue ==
    \A c \in Calls : calls[c].answer = "Cleared" => session.game = "over" /\ ~Live
=============================================================================
