------------------------------- MODULE Preflight --------------------------------
(***************************************************************************)
(* The launch's preflight and the Fix button.  The preflight walks its     *)
(* gates under the operation lock, repairs two of them on the way, resets  *)
(* the bottle's wineserver and starts the game; a fix waits for the same   *)
(* lock and repairs one thing.  What they judge and repair also has other  *)
(* writers: CrossOver and the ALVR server read a file when they start and  *)
(* write it back when they end, ./demo.sh takes no lock, and the user      *)
(* edits, updates and rebuilds at any time.                                *)
(***************************************************************************)
EXTENDS Naturals, Sequences

CONSTANT MaxDoors, MaxUpsets  \* bounds: launches and fixes; what outsiders do

Fixes == {"backend", "helper", "session-json"}

(* The gating slugs in contract order: the gates that only look are the   *)
(* Goldberg dll (which a launch only wants present), one for the overlay, *)
(* the bottle and the host registrations, and the device of --wired.      *)
Walk == <<"backend", "goldberg", "helper-staged", "helper-arm64", "overlay", "protocol", "wired">>
Looks == {"goldberg", "overlay", "wired"}

VARIABLES conf,      \* CX_GRAPHICS_BACKEND in cxbottle.conf: dxmt, odd (in no shape the rewrite
                     \* knows) or auto (any other value, or not there)
          crossover, \* what CrossOver has loaded of it, or gone
          staged, built,  \* the encoder helper: none, bad, arm64
          cfg,       \* oxr-runtime.toml as the runtime reads it
          look,      \* what the other gates' evaluators find
          pins,      \* ALVR's session.json: none, or whose client pins it holds
          pinsBackups,
          game,      \* gone, starting (a wineserver only), up; who started it; what its server loaded
          opLock,    \* free, launch, fix
          launch, fixer,
          sticks,    \* what a fix has reported done and nobody has since changed on purpose
          doors, upsets

machine == <<conf, crossover, staged, built, cfg, look, pins, pinsBackups, game>>
preflightVars == <<machine, opLock, launch, fixer, sticks, doors, upsets>>

Configs == [protocol : {"alvr", "oxrsys", "missing"}, inproc : BOOLEAN]
Good == [protocol |-> "alvr", inproc |-> FALSE]

NoGame == [state |-> "gone", by |-> "nobody", pins |-> "none"]
NoLaunch == [pc |-> "idle", at |-> 0, dry |-> FALSE, wired |-> FALSE, facts |-> Good, read |-> "none", moved |-> {}]
NoFix == [pc |-> "idle", fix |-> "none", read |-> "none", late |-> FALSE]

(* Of the helper, the config and the other gates, one may be amiss. *)
PreflightInit ==
    /\ conf \in {"dxmt", "auto", "odd"} /\ crossover = "gone"
    /\ pins = "stale" /\ pinsBackups = {}
    /\ \E amiss \in {"helper", "config"} \cup Looks, found \in {"pass", "fail", "unknown"} :
           /\ look = [s \in Looks |-> IF s = amiss THEN found ELSE "pass"]
           /\ staged \in IF amiss = "helper" THEN {"none", "bad", "arm64"} ELSE {"arm64"}
           /\ built \in IF amiss = "helper" THEN {"bad", "arm64"} ELSE {"arm64"}
           /\ cfg \in IF amiss = "config" THEN Configs ELSE {Good}
    /\ game = NoGame /\ opLock = "free"
    /\ launch = NoLaunch /\ fixer = NoFix
    /\ sticks = {} /\ doors = 0 /\ upsets = 0

(* scan_wineservers: one with the prefix, or one that cannot be ruled out. *)
WineserverLive == crossover # "gone" \/ game.state # "gone"

(* live_session_block: this process's launch, a record, or Beat Saber.exe. *)
SessionBlocks == launch.pc # "idle" \/ game.state = "up"

(* An outsider moves what a gate of the launch in progress judges.         *)
Moves(slugs) ==
    launch' = IF launch.pc = "idle" THEN launch ELSE [launch EXCEPT !.moved = @ \cup slugs]
Upset(slugs) ==
    /\ upsets < MaxUpsets /\ upsets' = upsets + 1
    /\ Moves(slugs)
-----------------------------------------------------------------------------
(* What the evaluators say. *)
Verdict(slug) ==
    CASE slug = "backend" -> IF conf = "dxmt" THEN "pass" ELSE "fail"
      [] slug = "helper-staged" -> IF staged # "none" THEN "pass" ELSE "fail"
      [] slug = "helper-arm64" -> [arm64 |-> "pass", bad |-> "fail", none |-> "unknown"][staged]
      [] slug = "protocol" -> IF launch.facts.protocol = "alvr" THEN "pass" ELSE "fail"
      [] OTHER -> look[slug]

Autofixed == {"backend", "helper-staged", "helper-arm64"}

(* inproc needs no helper; the adb probe is --wired's. *)
Applies(slug) ==
    /\ slug \in {"helper-staged", "helper-arm64"} => ~launch.facts.inproc
    /\ slug = "wired" => launch.wired

Go(pc) == launch' = [launch EXCEPT !.pc = pc]
Give == opLock' = "free"

(* Die, Stop or the end of the process: the launch is over where it stands *)
(* and what it repaired stays repaired.                                    *)
LaunchEnds ==
    /\ launch.pc # "idle"
    /\ launch' = NoLaunch /\ Give
    /\ UNCHANGED <<machine, fixer, sticks, doors, upsets>>

BeginLaunch(dry, wired) ==
    /\ launch.pc = "idle" /\ opLock = "free" /\ doors < MaxDoors
    /\ ~(dry /\ wired)
    /\ ~SessionBlocks
    /\ doors' = doors + 1 /\ opLock' = "launch"
    /\ launch' = [NoLaunch EXCEPT !.pc = "facts", !.dry = dry, !.wired = wired]
    /\ UNCHANGED <<machine, fixer, sticks, upsets>>

(* read_toml_facts: once, before the walk. *)
ReadFacts ==
    /\ launch.pc = "facts"
    /\ launch' = [launch EXCEPT !.pc = "walk", !.at = 1, !.facts = cfg]
    /\ UNCHANGED <<machine, opLock, fixer, sticks, doors, upsets>>

(* The next gate, or after the last one the launch actions. *)
Onward == launch' = [launch EXCEPT !.pc = IF launch.at = Len(Walk) THEN "reset" ELSE "walk",
                                   !.at = IF @ = Len(Walk) THEN @ ELSE @ + 1]

(* gate, autofix: a failed check that can be repaired is, any other and a  *)
(* check that reached no verdict kills the launch (LaunchEnds).            *)
Gate ==
    /\ launch.pc = "walk"
    /\ LET slug == Walk[launch.at] IN
       \/ ~Applies(slug) /\ Onward
       \/ Applies(slug) /\ Verdict(slug) \in {"pass", "warn"} /\ Onward
       \/ Applies(slug) /\ slug \in Autofixed /\ Verdict(slug) = "fail" /\ Go("fix")
    /\ UNCHANGED <<machine, opLock, fixer, sticks, doors, upsets>>

(* set_graphics_backend_for_launch reads, a wineserver or not; an odd line *)
(* survives the rewrite and the fix dies before it writes (LaunchEnds).    *)
LaunchReadsConf ==
    /\ launch.pc = "fix" /\ Walk[launch.at] = "backend" /\ conf # "odd"
    /\ launch' = [launch EXCEPT !.pc = "write", !.read = conf]
    /\ UNCHANGED <<machine, opLock, fixer, sticks, doors, upsets>>

LaunchWritesConf ==
    /\ launch.pc = "write"
    /\ conf' = IF launch.dry \/ launch.read = "dxmt" THEN conf ELSE "dxmt"
    /\ Go("recheck")
    /\ UNCHANGED <<crossover, staged, built, cfg, look, pins, pinsBackups, game, opLock, fixer,
                   sticks, doors, upsets>>

(* restage_helper: nothing over a good one; dies when the build is no      *)
(* better (LaunchEnds).                                                    *)
Restaged == IF staged = "arm64" THEN staged ELSE built
LaunchRestages ==
    /\ launch.pc = "fix" /\ Walk[launch.at] # "backend"
    /\ staged = "arm64" \/ built = "arm64"
    /\ staged' = IF launch.dry THEN staged ELSE Restaged
    /\ Go("recheck")
    /\ UNCHANGED <<conf, crossover, built, cfg, look, pins, pinsBackups, game, opLock, fixer,
                   sticks, doors, upsets>>

(* The check again; a dry run has only planned the repair. *)
Recheck ==
    /\ launch.pc = "recheck"
    /\ \/ Verdict(Walk[launch.at]) = "pass"
       \/ Verdict(Walk[launch.at]) = "fail" /\ launch.dry
    /\ Onward
    /\ UNCHANGED <<machine, opLock, fixer, sticks, doors, upsets>>

(* Slip: a wineserver that outlives the wait is waved through, as in stop. *)
ResetAdvisory ==
    /\ launch.pc = "reset"
    /\ \E down \in BOOLEAN : /\ crossover' = IF launch.dry \/ ~down THEN crossover ELSE "gone"
                             /\ game' = IF launch.dry \/ ~down THEN game ELSE NoGame
    /\ Go("spawn")
    /\ UNCHANGED <<conf, staged, built, cfg, look, pins, pinsBackups, opLock, fixer, sticks, doors,
                   upsets>>

(* wineserver_reset: -k gives nobody the time to write.  A wineserver that *)
(* outlives the wait kills the launch (LaunchEnds).                        *)
Reset ==
    /\ launch.pc = "reset"
    /\ crossover' = IF launch.dry THEN crossover ELSE "gone"
    /\ game' = IF launch.dry THEN game ELSE NoGame
    /\ Go("spawn")
    /\ UNCHANGED <<conf, staged, built, cfg, look, pins, pinsBackups, opLock, fixer, sticks, doors,
                   upsets>>

Spawn ==
    /\ launch.pc = "spawn" /\ ~launch.dry
    /\ game' = [state |-> "up", by |-> "launch", pins |-> pins]
    /\ launch' = NoLaunch /\ Give
    /\ UNCHANGED <<conf, crossover, staged, built, cfg, look, pins, pinsBackups, fixer, sticks,
                   doors, upsets>>
-----------------------------------------------------------------------------
(* fixes::apply: refused under a session, before the wait and after it. *)
AskFix(f) ==
    /\ fixer.pc = "idle" /\ doors < MaxDoors
    /\ ~SessionBlocks
    /\ doors' = doors + 1
    /\ fixer' = [NoFix EXCEPT !.pc = "wait", !.fix = f]
    /\ UNCHANGED <<machine, opLock, launch, sticks, upsets>>

LockFix ==
    /\ fixer.pc = "wait" /\ opLock = "free" /\ ~SessionBlocks
    /\ opLock' = "fix"
    /\ fixer' = [fixer EXCEPT !.pc = "look"]
    /\ UNCHANGED <<machine, launch, sticks, doors, upsets>>

(* Refused, cancelled, failed, dead, or done. *)
FixEnds ==
    /\ fixer.pc # "idle"
    /\ fixer' = NoFix
    /\ opLock' = IF fixer.pc = "wait" THEN opLock ELSE "free"
    /\ UNCHANGED <<machine, launch, sticks, doors, upsets>>

(* The file is read first; then the wineserver is looked for. *)
ReadConf ==
    /\ fixer.pc = "look" /\ fixer.fix = "backend"
    /\ conf \notin {"dxmt", "odd"}
    /\ fixer' = [fixer EXCEPT !.pc = "probe", !.read = conf]
    /\ UNCHANGED <<machine, opLock, launch, sticks, doors, upsets>>

(* Slip: the button uses the launch's variant, which edits anyway.         *)
EditAnyway ==
    /\ fixer.pc = "probe"
    /\ fixer' = [fixer EXCEPT !.pc = "edit"]
    /\ UNCHANGED <<machine, opLock, launch, sticks, doors, upsets>>

ProbeWineserver ==
    /\ fixer.pc = "probe" /\ ~WineserverLive
    /\ fixer' = [fixer EXCEPT !.pc = "edit"]
    /\ UNCHANGED <<machine, opLock, launch, sticks, doors, upsets>>

WriteConf ==
    /\ fixer.pc = "edit" /\ fixer.fix = "backend"
    /\ conf' = "dxmt"
    /\ sticks' = IF fixer.late THEN sticks ELSE sticks \cup {"backend"}
    /\ fixer' = [fixer EXCEPT !.pc = "done"]
    /\ UNCHANGED <<crossover, staged, built, cfg, look, pins, pinsBackups, game, opLock, launch,
                   doors, upsets>>

RestageHelper ==
    /\ fixer.pc = "look" /\ fixer.fix = "helper"
    /\ staged # "arm64" /\ built = "arm64"
    /\ staged' = Restaged
    /\ fixer' = [fixer EXCEPT !.pc = "done"]
    /\ UNCHANGED <<conf, crossover, built, cfg, look, pins, pinsBackups, game, opLock, launch,
                   sticks, doors, upsets>>

(* delete_session_json: any wineserver refuses it; then read, copied to a  *)
(* new name, removed.                                                      *)
FindPins ==
    /\ fixer.pc = "look" /\ fixer.fix = "session-json"
    /\ pins # "none"
    /\ fixer' = [fixer EXCEPT !.pc = "probe"]
    /\ UNCHANGED <<machine, opLock, launch, sticks, doors, upsets>>

ReadPins ==
    /\ fixer.pc = "edit" /\ fixer.fix = "session-json" /\ pins # "none"
    /\ fixer' = [fixer EXCEPT !.pc = "backup", !.read = pins]
    /\ UNCHANGED <<machine, opLock, launch, sticks, doors, upsets>>

BackUpPins ==
    /\ fixer.pc = "backup"
    /\ pinsBackups' = pinsBackups \cup {fixer.read}
    /\ fixer' = [fixer EXCEPT !.pc = "remove"]
    /\ UNCHANGED <<conf, crossover, staged, built, cfg, look, pins, game, opLock, launch, sticks,
                   doors, upsets>>

RemovePins ==
    /\ fixer.pc = "remove"
    /\ pins' = "none"
    /\ sticks' = IF fixer.late THEN sticks ELSE sticks \cup {fixer.read}
    /\ fixer' = [fixer EXCEPT !.pc = "done"]
    /\ UNCHANGED <<conf, crossover, staged, built, cfg, look, pinsBackups, game, opLock, launch,
                   doors, upsets>>
-----------------------------------------------------------------------------
(* Somebody comes up between a fix's look at the wineservers and its edit. *)
Late == [fixer EXCEPT !.late = @ \/ fixer.pc \in {"edit", "backup", "remove"}]

CrossOverOpens ==
    /\ crossover = "gone"
    /\ crossover' = conf
    /\ fixer' = Late
    /\ Upset({})
    /\ UNCHANGED <<conf, staged, built, cfg, look, pins, pinsBackups, game, opLock, sticks, doors>>

(* On its exit it writes what it has in memory.  Before the reset that is  *)
(* a race the launch has lost; after the reset nobody is left to do it.    *)
CrossOverCloses ==
    /\ crossover # "gone"
    /\ conf' = crossover /\ crossover' = "gone"
    /\ Moves(IF launch.pc = "spawn" THEN {} ELSE {"backend"})
    /\ UNCHANGED <<staged, built, cfg, look, pins, pinsBackups, game, opLock, fixer, sticks, doors,
                   upsets>>

(* The user opens CrossOver's window and picks another backend.            *)
UserPicksBackend ==
    /\ conf' = "auto" /\ crossover' = "auto"
    /\ sticks' = sticks \ {"backend"}
    /\ fixer' = Late
    /\ Upset({"backend"})
    /\ UNCHANGED <<staged, built, cfg, look, pins, pinsBackups, game, opLock, doors>>

(* ./demo.sh run: no lock; its wineserver comes up before Beat Saber.      *)
ShellStarts ==
    /\ game.state = "gone"
    /\ game' = [state |-> "starting", by |-> "shell", pins |-> pins]
    /\ fixer' = Late
    /\ Upset({})
    /\ UNCHANGED <<conf, crossover, staged, built, cfg, look, pins, pinsBackups, opLock, sticks,
                   doors>>

ShellUp ==
    /\ game.state = "starting"
    /\ game' = [game EXCEPT !.state = "up"]
    /\ UNCHANGED <<conf, crossover, staged, built, cfg, look, pins, pinsBackups, opLock, launch,
                   fixer, sticks, doors, upsets>>

(* The server writes the pins it loaded, or new ones when it found none.   *)
GameEnds ==
    /\ game.state # "gone"
    /\ pins' = IF game.pins = "none" THEN "new" ELSE game.pins
    /\ game' = NoGame
    /\ UNCHANGED <<conf, crossover, staged, built, cfg, look, pinsBackups, opLock, launch, fixer,
                   sticks, doors, upsets>>

(* The config, the helper or what the other gates look at changes. *)
UserEdits ==
    \/ /\ cfg' \in {[cfg EXCEPT !.protocol = "oxrsys"], [cfg EXCEPT !.inproc = ~@]} \ {cfg}
       /\ Upset({"protocol", "helper-staged", "helper-arm64"})
       /\ UNCHANGED <<staged, look>>
    \/ /\ staged' \in {"none", "bad"} \ {staged}
       /\ Upset({"helper-staged", "helper-arm64"})
       /\ UNCHANGED <<cfg, look>>
    \/ /\ \E s \in Looks : /\ look' = [look EXCEPT ![s] = "fail"]
                           /\ look # look' /\ Upset({s})
       /\ UNCHANGED <<cfg, staged>>
Outsider ==
    /\ UserEdits
    /\ UNCHANGED <<conf, crossover, built, pins, pinsBackups, game, opLock, fixer, sticks, doors>>

LaunchStep == ReadFacts \/ Gate \/ LaunchReadsConf \/ LaunchWritesConf \/ LaunchRestages \/ Recheck
           \/ Reset \/ Spawn \/ LaunchEnds
FixStep == LockFix \/ ReadConf \/ ProbeWineserver \/ WriteConf \/ RestageHelper \/ FindPins
        \/ ReadPins \/ BackUpPins \/ RemovePins \/ FixEnds

PreflightNext ==
    \/ \E dry, wired \in BOOLEAN : BeginLaunch(dry, wired)
    \/ \E f \in Fixes : AskFix(f)
    \/ LaunchStep \/ FixStep
    \/ CrossOverOpens \/ CrossOverCloses \/ UserPicksBackend
    \/ ShellStarts \/ ShellUp \/ GameEnds \/ Outsider

PreflightSpec == PreflightInit /\ [][PreflightNext]_preflightVars
-----------------------------------------------------------------------------
(* Whether the machine really is as a gate wants it. *)
Holds(slug) ==
    CASE slug = "backend" -> conf = "dxmt"
      [] slug \in {"helper-staged", "helper-arm64"} -> cfg.inproc \/ staged = "arm64"
      [] slug = "protocol" -> cfg.protocol = "alvr"
      [] slug = "wired" -> launch.wired => look[slug] \in {"pass", "warn"}
      [] OTHER -> look[slug] \in {"pass", "warn"}

(* A game starts on a machine that is as every gate of the preflight wants *)
(* it, repaired gates included, unless an outsider has changed that very   *)
(* thing during the launch: "launching on an unverified gate is how a      *)
(* black window happens", and the edit of cxbottle.conf beside a running   *)
(* CrossOver holds because the reset comes "before anything reads the file *)
(* again".                                                                 *)
LaunchIsVerified ==
    [][Spawn => \A i \in 1 .. Len(Walk) : Walk[i] \in launch.moved \/ Holds(Walk[i])]_preflightVars

(* A fix that reported success is not undone by a program that had read    *)
(* the file before ("would silently clobber the edit"), one that came up   *)
(* between the fix's look and its edit aside; and what it deleted is in    *)
(* the backups.                                                            *)
FixesHold ==
    /\ "backend" \in sticks => conf = "dxmt"
    /\ "stale" \in sticks => pins # "stale"
    /\ sticks \ {"backend"} \subseteq pinsBackups
=============================================================================
