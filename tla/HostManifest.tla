----------------------------- MODULE HostManifest ------------------------------
(***************************************************************************)
(* privilege.rs: the one write that needs an administrator, the host       *)
(* OpenXR manifest.  The bytes are staged in a file of Sabrage's own, and  *)
(* an elevated `install`, which Sabrage can neither signal nor always wait *)
(* for, copies them over the manifest.  The installs run one at a time,    *)
(* behind the operation lock; the elevated commands do not.                *)
(***************************************************************************)
EXTENDS Naturals, FiniteSets

CONSTANTS Checkouts,    \* each has its own runtime dylib, and so its own manifest
          MaxInstalls,  \* bound: installs that reach this layer
          MaxHours      \* bound: hours that pass

NoManifest == "no manifest"
Partial == "partial"    \* the manifest while `install` copies

VARIABLES manifest,  \* what the OpenXR loader reads
          staging,   \* staging files: number, bytes, an hour old or not
          elevated,  \* elevated commands that run: the file they copy, copying or not yet
          installer, \* the install at work: where, for which checkout, its file
          outcome,   \* how its elevated command ended
          installs, hours

manifestVars == <<manifest, staging, elevated, installer, outcome, installs, hours>>

NoInstall == [pc |-> "idle", checkout |-> NoManifest, file |-> 0]

ManifestInit ==
    /\ manifest \in Checkouts \cup {NoManifest}
    /\ staging = {} /\ elevated = {}
    /\ installer = NoInstall
    /\ outcome = "none"
    /\ installs = 0 /\ hours = 0

InstallerTo(pc) == installer' = [installer EXCEPT !.pc = pc]

EndInstall == installer' = NoInstall /\ outcome' = "none"

(* Nothing to do when the manifest is current. *)
BeginInstall(c) ==
    /\ installer.pc = "idle"
    /\ installs < MaxInstalls
    /\ manifest # c
    /\ installs' = installs + 1
    /\ installer' = [pc |-> "stage", checkout |-> c, file |-> installs + 1]
    /\ UNCHANGED <<manifest, staging, elevated, outcome, hours>>

(* sweep_stale_staging, then StagedTemp::create under a name of its own. *)
SweepAndStage ==
    /\ installer.pc = "stage"
    /\ staging' = {f \in staging : ~f.old}
                     \cup {[file |-> installer.file, of |-> installer.checkout, old |-> FALSE]}
    /\ InstallerTo("ask")
    /\ UNCHANGED <<manifest, elevated, outcome, installs, hours>>

(* The prompt: osascript's command, or sudo's second. *)
Elevate ==
    /\ installer.pc = "ask"
    /\ elevated' = elevated \cup {[file |-> installer.file, copying |-> FALSE]}
    /\ InstallerTo("wait")
    /\ UNCHANGED <<manifest, staging, outcome, installs, hours>>

Ending(e, how) ==
    /\ elevated' = elevated \ {e}
    /\ outcome' = IF e.file = installer.file /\ installer.pc = "wait" THEN how ELSE outcome

(* The user declines, or it fails; a source that is gone is a failure. *)
ElevatedFails(e) ==
    /\ ~e.copying
    /\ Ending(e, "failed")
    /\ UNCHANGED <<manifest, staging, installer, installs, hours>>

BeginCopy(e) ==
    /\ ~e.copying
    /\ \E f \in staging : f.file = e.file
    /\ manifest' = Partial
    /\ elevated' = (elevated \ {e}) \cup {[e EXCEPT !.copying = TRUE]}
    /\ UNCHANGED <<staging, installer, outcome, installs, hours>>

(* A source that goes in the middle leaves the copy as it is. *)
EndCopy(e) ==
    /\ e.copying
    /\ IF \E f \in staging : f.file = e.file
       THEN /\ manifest' = (CHOOSE f \in staging : f.file = e.file).of
            /\ Ending(e, "done")
       ELSE Ending(e, "failed") /\ UNCHANGED manifest
    /\ UNCHANGED <<staging, installer, installs, hours>>

Unstaged == {f \in staging : f.file # installer.file}

(* verify_written, or the error; the staging file is dropped either way. *)
Verify ==
    /\ installer.pc = "wait" /\ outcome # "none"
    /\ staging' = Unstaged
    /\ EndInstall
    /\ UNCHANGED <<manifest, elevated, installs, hours>>

(* Slip: the staging file is dropped with the call, command or not.        *)
CancelAndUnstage ==
    /\ \/ installer.pc \in {"stage", "ask"}
       \/ installer.pc = "wait" /\ outcome = "none"
    /\ staging' = Unstaged
    /\ EndInstall
    /\ UNCHANGED <<manifest, elevated, installs, hours>>

(* Cancelled, before the prompt or while it is there: then the file is     *)
(* left, for the command may run on.                                       *)
CancelInstall ==
    /\ \/ installer.pc \in {"stage", "ask"} /\ staging' = Unstaged
       \/ installer.pc = "wait" /\ outcome = "none" /\ UNCHANGED staging
    /\ EndInstall
    /\ UNCHANGED <<manifest, elevated, installs, hours>>

InstallerDies ==
    /\ installer.pc # "idle"
    /\ EndInstall
    /\ UNCHANGED <<manifest, staging, elevated, installs, hours>>

AnHour ==
    /\ hours < MaxHours
    /\ hours' = hours + 1
    /\ staging' = {[f EXCEPT !.old = TRUE] : f \in staging}
    /\ UNCHANGED <<manifest, elevated, installer, outcome, installs>>

ManifestNext ==
    \/ \E c \in Checkouts : BeginInstall(c)
    \/ SweepAndStage \/ Elevate \/ Verify \/ CancelInstall \/ InstallerDies \/ AnHour
    \/ \E e \in elevated : ElevatedFails(e) \/ BeginCopy(e) \/ EndCopy(e)

ManifestSpec == ManifestInit /\ [][ManifestNext]_manifestVars
-----------------------------------------------------------------------------
(* Whatever was cancelled, killed or begun again, Sabrage removes no       *)
(* staging file under an elevated command that may still copy it, short of *)
(* one that has stood for an hour.                                         *)
StagingOutlivesItsCopy ==
    [][\A f \in staging : (\E e \in elevated : e.file = f.file) /\ ~f.old =>
          \E g \in staging' : g.file = f.file]_manifestVars
=============================================================================
