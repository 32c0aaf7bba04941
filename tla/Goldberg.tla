------------------------------- MODULE Goldberg -------------------------------
(***************************************************************************)
(* stages/run/actions.rs goldberg_stage and store/goldberg.rs: a launch    *)
(* puts the Goldberg dll in the place of the game's steam_api64.dll, after *)
(* backing that up once, and a revert copies the backup back.  Both hold   *)
(* the operation lock, so one is at work at a time; the front-end may die  *)
(* between any two files.  Steam's own update or repair writes the real    *)
(* dll back, and the payload of the checkout may change.                   *)
(***************************************************************************)
EXTENDS Naturals

CONSTANTS MaxLaunches,  \* bound: launches that reach the Goldberg stage
          MaxChanges    \* bound: updates of the game and changes of the payload

Pin == "pin"       \* the Goldberg build the contract pins
Other == "other"   \* a Goldberg build it does not
Steam == "steam"   \* the real dll
Dlls == {Steam, Pin, Other}
Nothing == "nothing"
Folder == "folder" \* not a regular file

VARIABLES api,      \* the dll the game loads
          backup,   \* <api>.orig-steam
          marker,   \* goldberg-provenance: that backup is a Goldberg
          payload,  \* the checkout's gbe_dll
          work,     \* where the stage is
          launches, changes

dllVars == <<api, backup, marker, payload, work, launches, changes>>

DllInit ==
    /\ api \in Dlls \cup {Nothing}
    /\ backup \in {Nothing, Folder}
    /\ marker = FALSE
    /\ payload \in {Pin, Other}
    /\ work = "idle"
    /\ launches = 0 /\ changes = 0

(* Slip: every launch makes its backup anew.                               *)
BeginWithBackup ==
    /\ work = "idle"
    /\ launches < MaxLaunches
    /\ launches' = launches + 1
    /\ work' = IF api = Nothing \/ backup = Folder THEN "idle" ELSE "mint"
    /\ UNCHANGED <<api, backup, marker, payload, changes>>

(* The stage begins; without a dll, or with something else under the       *)
(* backup's name, the launch ends here.                                    *)
BeginGoldberg ==
    /\ work = "idle"
    /\ launches < MaxLaunches
    /\ launches' = launches + 1
    /\ work' = IF api = Nothing \/ backup = Folder THEN "idle"
               ELSE IF backup = Nothing THEN "mint" ELSE "install"
    /\ UNCHANGED <<api, backup, marker, payload, changes>>

(* The backup is made once; whether it is Goldberg is judged by the        *)
(* payload of the day.                                                     *)
Mint ==
    /\ work = "mint"
    /\ backup' = api
    /\ work' = IF api = payload THEN "record" ELSE "install"
    /\ UNCHANGED <<api, marker, payload, launches, changes>>

(* record_goldberg_backup is best effort: the launch goes on without. *)
Record ==
    /\ work = "record"
    /\ marker' \in BOOLEAN
    /\ work' = "install"
    /\ UNCHANGED <<api, backup, payload, launches, changes>>

Install ==
    /\ work = "install"
    /\ api' = payload
    /\ work' = "idle"
    /\ UNCHANGED <<backup, marker, payload, launches, changes>>

(* A copy fails, the token fires or the front-end dies. *)
LeaveGoldberg ==
    /\ work # "idle"
    /\ work' = "idle"
    /\ UNCHANGED <<api, backup, marker, payload, launches, changes>>

LooksGoldberg == backup = Pin \/ backup = payload \/ marker

(* revert_probed, behind the lock and with no game: one copy or none. *)
Revert ==
    /\ work = "idle"
    /\ backup \in Dlls
    /\ ~LooksGoldberg
    /\ api # backup
    /\ api' = backup
    /\ UNCHANGED <<backup, marker, payload, work, launches, changes>>

GameUpdate ==
    /\ changes < MaxChanges
    /\ api # Steam
    /\ api' = Steam
    /\ changes' = changes + 1
    /\ UNCHANGED <<backup, marker, payload, work, launches>>

PayloadChange ==
    /\ changes < MaxChanges
    /\ payload' \in {Pin, Other} \ {payload}
    /\ changes' = changes + 1
    /\ UNCHANGED <<api, backup, marker, work, launches>>

DllNext ==
    \/ BeginGoldberg \/ Mint \/ Record \/ Install \/ LeaveGoldberg
    \/ Revert \/ GameUpdate \/ PayloadChange

DllSpec == DllInit /\ [][DllNext]_dllVars
-----------------------------------------------------------------------------
(* No step of Sabrage takes the last real Steam dll, unless the backup was *)
(* made of a Goldberg before Steam put its own dll back: the name is taken *)
(* then, and the stage does not look at what it holds.                     *)
SteamDllSurvives ==
    [][(Steam \in {api, backup} /\ backup \notin {Pin, Other}) =>
          Steam \in {api', backup'}]_dllVars
=============================================================================
