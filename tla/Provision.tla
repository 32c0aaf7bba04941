------------------------------- MODULE Provision --------------------------------
(***************************************************************************)
(* The stages that put the bridge on disk: setup, build and install, real  *)
(* or dry, one at a time (OperationLock's OnePerProcess), each cut short   *)
(* at any step by a Stop or by the death of the process and run again      *)
(* later, while the checkout is pulled to another pin, CrossOver is        *)
(* updated, another writer makes the config and ./demo.sh, which takes no  *)
(* lock, installs or leaves a backup half made.  Content is the pin it was *)
(* made from; a copied file is whole (FileWriter).  The host manifest,     *)
(* install's last layer, is HostManifest's.                                *)
(***************************************************************************)
EXTENDS Naturals

CONSTANTS Files,    \* the contract's dxmt.files
          Pins,     \* the pins a checkout can carry
          Offers,   \* bound: the sets of stages one behaviour runs
          Missing, Truncated, Stock, NoBackup

ASSUME ProvisionAssumption ==
    /\ Missing \notin Pins
    /\ NoBackup \notin [files : [Files -> Pins \cup {Missing, Truncated, Stock}],
                       by : {"stage", "shell"}]

VARIABLES pin,      \* the pin of the checkout's contract
          tree,     \* whether its submodules are there (at which commit, no gate asks)
          gbe,      \* the Goldberg dll: missing, pinned or foreign
          art, shaMarker,  \* ext/dxmt-artifacts and its .sha256
          config,   \* oxr-runtime.toml: none, template or other
          outputs,  \* what build makes
          helper,   \* the staged encoder helper and whether it is executable
          dxmt,     \* lib/dxmt in CrossOver
          stockBackup, partials,  \* dxmt.stock-backup, the uncommitted copies of it
          bridge,   \* wineopenxr in lib/wine and in the bottle
          registry, \* ActiveRuntime as wine and as system.reg have it
          job,      \* the stage in progress
          offer     \* the stages this behaviour runs

setupVars == <<tree, gbe, art, shaMarker, config>>
buildVars == <<outputs, helper>>
installVars == <<dxmt, stockBackup, partials, bridge, registry>>
provisionVars == <<pin, setupVars, buildVars, installVars, job, offer>>

NoJob == [stage |-> "none", dry |-> FALSE, pc |-> "none"]
Products == {"oxrsys", "helper", "wineopenxr", "dashboard"}

(* What the offer leaves out was done before: the artifacts without setup, *)
(* the products without build, the bridge when there is more than install. *)
(* Without submodules setup or build runs, and nothing else.               *)
ProvisionInit ==
    /\ pin \in Pins /\ offer \in Offers
    /\ tree \in {TRUE, offer \notin {{"setup"}, {"build"}}}
    /\ gbe = IF offer = {"setup"} THEN "missing" ELSE "foreign"
    /\ config = IF offer = {"setup"} THEN "none" ELSE "other"
    /\ shaMarker = IF "setup" \in offer THEN Missing ELSE pin
    /\ art = [f \in Files |-> shaMarker]
    /\ outputs = [p \in Products |-> IF "build" \in offer THEN Missing ELSE pin]
    /\ helper = [of |-> outputs["helper"], usable |-> outputs["helper"] # Missing]
    /\ dxmt = [f \in Files |-> Stock]
    /\ stockBackup = NoBackup /\ partials = {}
    /\ bridge = IF offer = {"install"} THEN [lib |-> Missing, bottle |-> Missing]
                ELSE [lib |-> pin, bottle |-> pin]
    /\ registry = [wine |-> offer # {"install"}, disk |-> offer # {"install"}]
    /\ job = NoJob

(* dxmt_files_ok: present is all it asks; dxmt_ok asks for the marker too. *)
FilesOk == \A f \in Files : art[f] # Missing
DxmtOk == shaMarker = pin /\ FilesOk

At(stage, pc) == job.stage = stage /\ job.pc = pc
Proceed(pc) == job' = [job EXCEPT !.pc = pc]
Done == job' = NoJob

(* RealExecutor carries an operation out, DryRunExecutor only plans it. *)
Effect(new, old) == IF job.dry THEN old ELSE new

BeginStage(stage, dry) ==
    /\ job = NoJob /\ stage \in offer
    /\ job' = [stage |-> stage, dry |-> dry,
               pc |-> CASE stage = "setup" -> "submodules"
                        [] stage = "build" -> "tools"
                        [] stage = "install" -> "gate"]
    /\ UNCHANGED <<offer, pin, setupVars, buildVars, installVars>>

(* A Stop between two operations, an operation that fails, or the end of   *)
(* the process: the stage is over where it stands.  In the middle of an    *)
(* operation there are the actions named Cut.                              *)
Stopped ==
    /\ job # NoJob
    /\ Done
    /\ UNCHANGED <<offer, pin, setupVars, buildVars, installVars>>
-----------------------------------------------------------------------------
(* setup_submodules: the three submodules and their own, then what they     *)
(* must have brought.  An update cut short or refused leaves what was there *)
(* (Stopped).                                                              *)
SetupSubmodules ==
    /\ At("setup", "submodules")
    /\ tree' = Effect(TRUE, tree)
    /\ Proceed("pinned")
    /\ UNCHANGED <<offer, pin, gbe, art, shaMarker, config, buildVars, installVars>>

(* download: nothing over a file whose hash is the pin's; else fetched to a *)
(* temporary name, verified and renamed.                                    *)
Download(old) == IF old = "pinned" THEN old ELSE Effect("pinned", old)

(* setup_pinned: a Goldberg dll of another hash is kept, and artifacts that *)
(* are whole are not fetched; the archive downloaded is always the pin's.   *)
SetupPinned ==
    /\ At("setup", "pinned")
    /\ gbe' = IF gbe = "foreign" THEN gbe ELSE Download(gbe)
    /\ Proceed(IF DxmtOk THEN "config" ELSE "remove")
    /\ UNCHANGED <<offer, pin, tree, art, shaMarker, config, buildVars, installVars>>

(* remove_dir_all, before the extraction. *)
RemoveOld ==
    /\ At("setup", "remove")
    /\ art' = Effect([f \in Files |-> Missing], art)
    /\ shaMarker' = Effect(Missing, shaMarker)
    /\ Proceed("extract")
    /\ UNCHANGED <<offer, pin, tree, gbe, config, buildVars, installVars>>

(* remove_dir_all takes the entries in no known order. *)
CutRemove ==
    /\ At("setup", "remove") /\ ~job.dry
    /\ \E gone \in SUBSET Files :
           art' = [f \in Files |-> IF f \in gone THEN Missing ELSE art[f]]
    /\ shaMarker' \in {shaMarker, Missing}
    /\ Done
    /\ UNCHANGED <<offer, pin, tree, gbe, config, buildVars, installVars>>

Extract ==
    /\ At("setup", "extract")
    /\ art' = Effect([f \in Files |-> pin], art)
    /\ Proceed("verify")
    /\ UNCHANGED <<offer, pin, tree, gbe, shaMarker, config, buildVars, installVars>>

(* tar dies with some files out and at most one of them truncated. *)
CutExtract ==
    /\ At("setup", "extract") /\ ~job.dry
    /\ \E out \in SUBSET Files : \E last \in Files :
           art' = [f \in Files |-> IF f = last THEN Truncated
                                   ELSE IF f \in out THEN pin ELSE art[f]]
    /\ Done
    /\ UNCHANGED <<offer, pin, tree, gbe, shaMarker, config, buildVars, installVars>>

(* The postcondition, then the marker: last, and atomically. *)
WriteMarker ==
    /\ At("setup", "verify")
    /\ IF FilesOk \/ job.dry
       THEN /\ shaMarker' = Effect(pin, shaMarker)
            /\ Proceed("config")
       ELSE /\ Done /\ UNCHANGED shaMarker
    /\ UNCHANGED <<offer, pin, tree, gbe, art, config, buildVars, installVars>>

(* setup_config's probe, then O_EXCL: the other writer comes between. *)
ProbeConfig ==
    /\ At("setup", "config")
    /\ Proceed(IF config = "none" THEN "create" ELSE "game")
    /\ UNCHANGED <<offer, pin, setupVars, buildVars, installVars>>

CreateConfig ==
    /\ At("setup", "create")
    /\ config' = IF config = "none" THEN Effect("template", config) ELSE config
    /\ Proceed("game")
    /\ UNCHANGED <<offer, pin, tree, gbe, art, shaMarker, buildVars, installVars>>

(* setup_game only looks. *)
SetupGame ==
    /\ At("setup", "game")
    /\ Done
    /\ UNCHANGED <<offer, pin, setupVars, buildVars, installVars>>
-----------------------------------------------------------------------------
AfterBuild(p) == CASE p = "oxrsys" -> "helper" [] p = "helper" -> "staging"
                   [] p = "wineopenxr" -> "dashboard" [] p = "dashboard" -> "outputs"

(* The gates: the tools, the x86_64 target, a runtime to build. *)
BuildGate ==
    /\ At("build", "tools")
    /\ IF tree THEN Proceed("oxrsys") ELSE Done
    /\ UNCHANGED <<offer, pin, setupVars, buildVars, installVars>>

(* configure_spec and build_spec, or cargo: one product. *)
BuildProduct(p) ==
    /\ At("build", p)
    /\ outputs' = [outputs EXCEPT ![p] = Effect(pin, @)]
    /\ Proceed(AfterBuild(p))
    /\ UNCHANGED <<offer, pin, setupVars, helper, installVars>>

(* stage_encoder_helper: the copy compares bytes alone, so a copy that     *)
(* lost its mode is removed and made again.                                *)
StageHelper ==
    /\ At("build", "staging")
    /\ IF ~job.dry /\ outputs["helper"] = Missing THEN Done ELSE Proceed("repair")
    /\ helper' = IF outputs["helper"] = Missing \/ helper.of = outputs["helper"] THEN helper
                 ELSE Effect([of |-> outputs["helper"], usable |-> TRUE], helper)
    /\ UNCHANGED <<offer, pin, setupVars, outputs, installVars>>

RepairHelper ==
    /\ At("build", "repair")
    /\ helper' = IF helper.usable THEN helper
                 ELSE Effect([of |-> outputs["helper"], usable |-> TRUE], helper)
    /\ Proceed("wineopenxr")
    /\ UNCHANGED <<offer, pin, setupVars, outputs, installVars>>

CutRepair ==
    /\ At("build", "repair") /\ ~job.dry /\ ~helper.usable
    /\ helper' = [of |-> Missing, usable |-> FALSE]
    /\ Done
    /\ UNCHANGED <<offer, pin, setupVars, outputs, installVars>>

(* The sweep over the outputs, skipped by a dry run. *)
BuildOutputs ==
    /\ At("build", "outputs")
    /\ Done
    /\ UNCHANGED <<offer, pin, setupVars, buildVars, installVars>>
-----------------------------------------------------------------------------
(* install's gates, then sweep_partial_backups. *)
InstallGate ==
    /\ At("install", "gate")
    /\ IF outputs["oxrsys"] # Missing /\ outputs["wineopenxr"] # Missing /\ FilesOk
       THEN /\ partials' = Effect({}, partials)
            /\ Proceed(IF stockBackup = NoBackup THEN "copy" ELSE "overlay")
       ELSE /\ Done /\ UNCHANGED partials
    /\ UNCHANGED <<offer, pin, setupVars, buildVars, dxmt, stockBackup, bridge, registry>>

(* dir_copy to a partial name of this run's own. *)
CopyStock ==
    /\ At("install", "copy")
    /\ partials' = Effect(partials \cup {dxmt}, partials)
    /\ Proceed(IF job.dry THEN "overlay" ELSE "commit")
    /\ UNCHANGED <<offer, pin, setupVars, buildVars, dxmt, stockBackup, bridge, registry>>

(* cp -R cut short: a Stop discards the partial copy, a crash leaves it. *)
CutCopy ==
    /\ At("install", "copy") /\ ~job.dry
    /\ \E got \in SUBSET Files :
           partials' \in {partials, {[f \in Files |-> IF f \in got THEN dxmt[f] ELSE Missing]}}
    /\ Done
    /\ UNCHANGED <<offer, pin, setupVars, buildVars, dxmt, stockBackup, bridge, registry>>

(* Slip: mv without the second look.                                       *)
CommitOverAnother ==
    /\ At("install", "commit")
    /\ \E p \in partials :
           /\ stockBackup' = [files |-> p, by |-> "stage"]
           /\ partials' = partials \ {p}
    /\ Proceed("overlay")
    /\ UNCHANGED <<offer, pin, setupVars, buildVars, dxmt, bridge, registry>>

(* mv gives the copy the name that is trusted, unless another writer has   *)
(* taken it since the test: then the copy is dropped.                      *)
CommitBackup ==
    /\ At("install", "commit")
    /\ \E p \in partials :
           /\ stockBackup' = IF stockBackup = NoBackup THEN [files |-> p, by |-> "stage"]
                             ELSE stockBackup
           /\ partials' = partials \ {p}
    /\ Proceed("overlay")
    /\ UNCHANGED <<offer, pin, setupVars, buildVars, dxmt, bridge, registry>>

(* install_if_changed, one file after another. *)
OverlayFile(f) ==
    /\ At("install", "overlay")
    /\ dxmt[f] # art[f] /\ ~job.dry
    /\ dxmt' = [dxmt EXCEPT ![f] = art[f]]
    /\ UNCHANGED <<offer, pin, setupVars, buildVars, stockBackup, partials, bridge, registry, job>>

Overlaid ==
    /\ At("install", "overlay")
    /\ dxmt = art \/ job.dry
    /\ Proceed("lib")
    /\ UNCHANGED <<offer, pin, setupVars, buildVars, installVars>>

(* Layers two and three: the same build goes to both places. *)
InstallBridge(layer, next) ==
    /\ At("install", layer)
    /\ bridge' = [bridge EXCEPT ![layer] = Effect(outputs["wineopenxr"], @)]
    /\ Proceed(next)
    /\ UNCHANGED <<offer, pin, setupVars, buildVars, dxmt, stockBackup, partials, registry>>

RegAdd ==
    /\ At("install", "registry")
    /\ registry' = IF registry.disk THEN registry ELSE Effect([registry EXCEPT !.wine = TRUE], registry)
    /\ Proceed("flush")
    /\ UNCHANGED <<offer, pin, setupVars, buildVars, dxmt, stockBackup, partials, bridge>>

(* wait_for_registry_flush is bounded: the stage ends either way. *)
FlushWaited ==
    /\ At("install", "flush")
    /\ Done
    /\ UNCHANGED <<offer, pin, setupVars, buildVars, installVars>>

WineFlushes ==
    /\ registry.wine /\ ~registry.disk
    /\ registry' = [registry EXCEPT !.disk = TRUE]
    /\ UNCHANGED <<offer, pin, setupVars, buildVars, dxmt, stockBackup, partials, bridge, job>>
-----------------------------------------------------------------------------
(* git pull or checkout: another pin, either way. *)
Pull ==
    /\ job = NoJob
    /\ pin' \in Pins \ {pin}
    /\ UNCHANGED <<offer, setupVars, buildVars, installVars, job>>

(* The bundle is replaced: stock DXMT, no backup, no bridge in lib. *)
CrossOverUpdated ==
    /\ job = NoJob /\ "install" \in offer
    /\ dxmt' = [f \in Files |-> Stock]
    /\ stockBackup' = NoBackup /\ partials' = {}
    /\ bridge' = [bridge EXCEPT !.lib = Missing]
    /\ UNCHANGED <<offer, pin, setupVars, buildVars, registry, job>>

(* ./demo.sh install, which takes no lock: cp -R straight to the trusted   *)
(* name, where it may die, then the overlay.                               *)
ShellInstalls ==
    /\ "install" \in offer /\ stockBackup = NoBackup
    /\ job = NoJob \/ At("install", "copy") \/ At("install", "commit")
    /\ \E got \in SUBSET Files :
           /\ stockBackup' = [files |-> [f \in Files |-> IF f \in got THEN dxmt[f] ELSE Missing],
                              by |-> "shell"]
           /\ dxmt' = IF got = Files /\ FilesOk THEN art ELSE dxmt
    /\ UNCHANGED <<offer, pin, setupVars, buildVars, partials, bridge, registry, job>>

OtherWritesConfig ==
    /\ "setup" \in offer /\ config = "none"
    /\ config' = "other"
    /\ UNCHANGED <<offer, pin, tree, gbe, art, shaMarker, buildVars, installVars, job>>

HelperLosesMode ==
    /\ job = NoJob /\ "build" \in offer /\ helper.usable
    /\ helper' = [helper EXCEPT !.usable = FALSE]
    /\ UNCHANGED <<offer, pin, setupVars, outputs, installVars, job>>

SetupStage == SetupSubmodules \/ SetupPinned \/ RemoveOld \/ CutRemove \/ Extract \/ CutExtract
            \/ WriteMarker \/ ProbeConfig \/ CreateConfig \/ SetupGame
BuildStage == BuildGate \/ (\E p \in Products : BuildProduct(p)) \/ StageHelper \/ RepairHelper \/ CutRepair
            \/ BuildOutputs
InstallStage == InstallGate \/ CopyStock \/ CutCopy \/ CommitBackup \/ (\E f \in Files : OverlayFile(f))
            \/ Overlaid \/ InstallBridge("lib", "bottle") \/ InstallBridge("bottle", "registry")
            \/ RegAdd \/ FlushWaited

ProvisionNext ==
    \/ \E stage \in {"setup", "build", "install"}, dry \in BOOLEAN : BeginStage(stage, dry)
    \/ Stopped \/ SetupStage \/ BuildStage \/ InstallStage
    \/ WineFlushes \/ Pull \/ CrossOverUpdated \/ ShellInstalls \/ OtherWritesConfig
    \/ HelperLosesMode

ProvisionSpec == ProvisionInit /\ [][ProvisionNext]_provisionVars
-----------------------------------------------------------------------------
(* After any history of interrupted stages, what is trusted by its name    *)
(* alone is whole: a committed stock backup is the complete stock ("a      *)
(* backup this stage committed is complete by construction"; what the      *)
(* shell left may lack files but never holds the fork's), and artifacts    *)
(* whose marker matches the pin are that pin's, none truncated or of       *)
(* another pin (dxmt_ok skips the download and the extraction on it).      *)
TrustedIsWhole ==
    /\ stockBackup # NoBackup =>
           \A f \in Files : \/ stockBackup.files[f] = Stock
                            \/ stockBackup.by = "shell" /\ stockBackup.files[f] = Missing
    /\ DxmtOk => \A f \in Files : art[f] = pin
=============================================================================
