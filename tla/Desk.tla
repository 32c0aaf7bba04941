---------------------------------- MODULE Desk ----------------------------------
(***************************************************************************)
(* What the person at the desk waits for: Session's launches, stops and    *)
(* detaches, and Quit's dialog over a live session.  Quit follows its      *)
(* session only as far as the tokens, the slot and the record go and the   *)
(* two share no state, so a behaviour exercises one of them, its workload; *)
(* the other is at rest, where none of its fair steps is enabled.          *)
(***************************************************************************)
EXTENDS Session, Quit

CONSTANT Workloads  \* bound: the components exercised

VARIABLE workload

deskVars == <<workload, vars, quitVars>>

DeskInit == workload \in Workloads /\ Init /\ QuitInit

DeskNext ==
    /\ UNCHANGED workload
    /\ \/ workload = "session" /\ Next /\ UNCHANGED quitVars
       \/ workload = "quit" /\ QuitNext /\ UNCHANGED vars

DeskSpec ==
    /\ DeskInit /\ [][DeskNext]_deskVars
    /\ WF_vars(PassStep \/ CancelPass)
    /\ \A r \in Runs : WF_vars(LaunchStep(r)) /\ WF_vars(StopAnswered(r))
    /\ QuitFair
=============================================================================
