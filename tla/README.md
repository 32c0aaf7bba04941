# Sabrage in TLA+

Sabrage (`sabrage/`) launches a PC VR game under CrossOver on a Mac and streams it to a headset:
a Rust library (`crates/sabrage-core`), a Tauri app (`src-tauri`, `ui`) and a command-line
front-end (`crates/sabrage-cli`), ported from the shell pipeline in `scripts/demo`. This
directory holds TLA+ models of the part of it that is hard to test: what several front-ends,
their launches, a game nobody controls, a crash-recovery record on disk and files with other
writers do to one another.

Below, paths are relative to `sabrage/crates/sabrage-core/src/` unless they say otherwise.

## 1. The system

### Components, their state and their operations

| component | state | operations | modelled in |
|---|---|---|---|
| session record, `session/state.rs` | `session-state.json`, its `.lock` file | `save`, `clear`, `clear_run`, `mark_detached`, each lock, load, compare, rename or unlink | `SessionRecord`, `RecordRegister`, `RecordStore` |
| slots, `session/mod.rs` | `LIVE_SESSION`, `RUN_PHASE`, one of each per process | publish, clear (for its own run only), `session_block_at` | `SessionBase`, `Launch` |
| reconcile, `session/reconcile.rs` | a record in hand while it works | classify, restore audio, dashboard and forwards, finish; `detach` | `Recovery`, `Session` |
| run stage, `stages/run/` | one task per launch with its guards | gate, reconcile, preflight, forwards, wineserver reset, guards, spawn, supervise, teardown | `Launch`; the preflight in `Preflight` |
| stop stage, `stages/stop.rs` | | kill wine, reap leftovers, recovery pass | `Recovery` |
| operation lock, `stages/mod.rs` | `OPERATION_LOCK` (per process), `operation.lock` (per machine) | `run_stage`, cancellable acquisition, `OperationGuard`'s release | `OperationLock` |
| session commands, `src-tauri/src/commands.rs`, `lib.rs` | `RunRegistry`, `PendingQuit`, `QuitApproved` | stop, detach, cancel, reconcile; quit, its dialog and the exit | `Session`; `Quit` |
| store commands | `LIBRARY_LOCK`, `SETTINGS_LOCK`, `SettingsPathsCache` | add, edit, remove a game, record its last session; save settings, snapshot | `Stores` |
| executor, `executor.rs` | | write, create, copy, remove, on one path; download, extract; the dry run's plan | `AtomicFile`, `FileWriter`; `Provision` |
| process layer, `process.rs` | the child, its group, its pipes | `spawn_streamed`, `capture`, cancel, drain | `ChildProcess` |
| runtime config, `config/runtime_toml.rs` | `oxrsys-runtime.toml`, its backups | read as the runtime does, patch as TOML, back up, replace, prune | `RuntimeToml` |
| Goldberg stage and revert, `stages/run/actions.rs`, `store/goldberg.rs` | the dll, its backup and provenance | back up, mark, install; revert | `Goldberg` |
| privilege, `privilege.rs` | the host manifest, staging files | stage, elevate, verify, sweep | `HostManifest` |
| setup, build, install, `stages/*.rs` | submodules, artifacts and marker, products, CrossOver's overlay and its stock backup, the bottle | each operation of the three stages | `Provision` |
| fixes, `fixes/*.rs` | `cxbottle.conf`, the encoder helper, ALVR's `session.json` | the Fix button's door and three fixes | `Preflight` |
| watcher, `session/watcher.rs` | what a monitor keeps between snapshots | one snapshot, read by read | `Watcher` |
| logs, `logs.rs` | a tail's cursor, carry and signature | one poll, system call by system call | `Tailer` |
| doctor checks, command line, UI, shell pipeline, utilities | | | where they meet the above |
| contract, tap, parity checks, probes, patches | | | left out |

### How they interact

Everything that changes the machine passes the operation lock; a launch gives it back as soon as
its game is up, so for the hours of a session other operations are kept out by what the launch has
published: the live slot and the phase (seen by its own process), the record on disk (seen by every
process) and the game in the process table. `stop_session` on a live session and `detach` do not
take the lock at all: they fire one of the session's two tokens and wait for the slot to clear,
while the launch's own task tears down without the lock. A front-end that dies leaves the record;
the next launch, stop or `reconcile_session` works it off. Below this, every file is written through
the executor, and every tool runs through the process layer. Beside it are writers that take no lock:
`./demo.sh`, CrossOver and the ALVR server (which write a file back from memory on exit), Steam,
an elevated command that outlives its stage, text editors.

What is hard: the two tokens race (the supervising `select!` is biased); a teardown runs beside the
next front-end's operations; each guard is undone in one step and recorded in the next, with a
crash, a failed write or another actor in between; `wineserver -k` takes down every game of the
bottle; pids are reused and may be unobservable; locks degrade (the record lock after two seconds,
the operation lock when its file cannot be opened); a quit's dialog is answered late, twice or by a
page that has gone; a file is looked at, and is another one when it is written; a log is rewritten
between two reads; a child is dead and its output is not.

### What makes each component correct

* record store: its calls behave like one atomic compare-and-swap; another live front-end's session is never lost;
  a stuck holder blocks nobody for good.
* run stage and reconcile: a Mac left on BlackHole can always be put back, to the device the user had;
  forwards and the dashboard stay on record until undone; no guard is undone under a running game.
* slots and lock: two games never run; no launch kills another's game; a launch is visible from its gate to its end; files are
  not edited under a game.
* commands: Stop is answered, and honestly; a cancelled launch ends; the lock comes back; a quit goes through, and
  leaves no armed guard over a running game.
* preflight and fixes: a game starts only on a machine every gate would pass; a fix that reported success stays.
* executor: a reader sees the old file or the new one, through crashes and power loss.
* config, stores: nothing replaced is lost; the runtime reads the value saved; edits of two tasks do not undo each other; the
  cache is never older than the file.
* Goldberg, setup, install, privilege: the last real dll survives; what is trusted by its name is whole; an elevated copy
  finds the bytes it was told to copy.
* watcher, logs, processes: what is shown is of the session it is shown for; a pane shows lines in order; a
  child's group is dead when its cancellation returns, its output complete when it ends, and the wait for it bounded.

`PROJECT.json` lists every hazard at its line with the properties that cover it.

## 2. The modules

```
SessionRecord ── RecordRegister ── RecordStore ── MCRecordStore, RecordStoreProofs
      └───────── SessionBase ── Recovery ── Launch ── Session ── MCSession
                                                       └── SessionProofs ── SessionGuardProofs
OperationLock ── MCOperationLock, OperationLockProofs
AtomicFile ══ FileWriter (INSTANCE ... WITH) ── FileWriterProofs
FileWriter, RuntimeToml, Goldberg, Stores, HostManifest, Provision, Preflight ── Files ── MCFiles
Goldberg, Stores, HostManifest, Provision, Preflight ── FilesProofs
Tailer, ChildProcess, RecordStore ── Waits ── MCWaits
Watcher, Tailer, ChildProcess ── ObserverProofs
Session, Quit ── Desk ── MCDesk
Quit ── QuitProofs
```

**SessionRecord** holds the constant operators over one record: `HasLiveForeignOwner`,
the refusals of the four calls, `Classify` (classify_identity) and `RestoreMode`. Both stacks above
it use the same definitions. A wine child is `none`, `exact` or `unobserved` (start_time 0); the
process itself is `unborn`, `alive`, `gone` or `recycled`. Records written before
`owner_started_at` existed, and owner pid reuse, which that field catches, are not distinguished.

**RecordRegister** is the abstract specification: each call acts at one instant on the file as it is. **RecordStore**
is the code: `TakeLock` or `GiveUpLock` (the deadline), `Check` (load and compare), `Write` (rename
or unlink), with `Die` and `Corruption` between any two; `DegradedNext` adds a holder that stalls (`Hang`) and the call that gives up on it. `AtomicStore` states that the second implements the
first, under the identity mapping, and is both checked and proved.

**SessionBase** is the state of the session lifecycle, with the record's calls as atomic steps (what
`AtomicStore` licenses). `mac` is what guards change: the output device, open dashboards, adb
forwards. `job[r]` is the task of launch `r`: `pc` names the await point it is at, `sess` is its
`SessionState`, `armed`/`carried`/`held` its guards, `cancel`/`detach` its tokens. `budget` bounds
failed writes and crashes.

**Recovery** is a reconcile pass, one step per guard and one per save, run by the
holder of the operation lock on its own, as the head of a launch or as the tail of the stop stage
(`lock.as` says which). **Launch** is `stages::run::run`: `Gate` to `Prepared` before the
guards, `Arm` to `Supervise` the guarded region, `DetachSave` to `Unwind` the teardown.
**Session** adds front-ends that boot, quit and crash, the game, and the user's requests.

**OperationLock** takes apart what Session uses as one variable: the mutex and the flock, polled
and released one after the other, the "is somebody waiting" probe, cancellation in either wait, the
second look after the wait, and a process whose lock file is unavailable.

**AtomicFile** is what the executor promises of a file: a log of values, appended to at one instant, of which a power loss may take a
tail but nothing below the floor that every answered write has raised. **FileWriter** is the code: a temporary file,
its fsync, the rename (or the hard link of `create_new`), the fsync of the directory, each failing or cut short. Its refinement
maps the journal of directory entries to the log, and what the disk holds of it to the floor (`Mapped`, `FileIsAtomic`).

**RuntimeToml** has two readers of one document. A document is the sequence of the lines that assign an editable key, in the
shapes they tell apart: bare, inside a multi-line string, behind a byte-order mark, under a quoted key, unparsable; a value is its
body, its quotes and what follows it. What a reader finds of a key is a set of positions (`Physical`, `Parsed`), and the backups directory maps a name, a second and a suffix, to a document,
so that a file is removed by its name, whoever wrote it. Saves are the code's steps: open or create, patch (with every refusal), compare, back up,
compare again, commit, prune. **Stores** is the library's transactions and the settings with their cache. **Goldberg** and **HostManifest**
follow one write each through repeated, interrupted operations; content is whose dll or whose checkout it is.

**Provision** is setup, build and install, operation by operation, each real or dry, each ending anywhere (`Stopped`, and the actions named `Cut`
for an operation that dies in the middle); content is the pin it was made from.

**Preflight** is a launch's walk over its gates with the two repairs it makes, and the Fix button's three fixes, beside CrossOver,
`./demo.sh run`, the ALVR server and the user. `launch.moved` is what outsiders have changed since the walk began.

**Watcher** takes one snapshot read by read. A session is a number, which also serves as its timestamps. **Tailer** takes one
poll system call by system call; a line is its incarnation of the file and its number. **ChildProcess** has a leader and descendants that fork, print,
leave the group and ignore SIGTERM. **Quit** is the quit intercept, the dialog, the calls that answer it and the exit event, with the supervisor
reduced to its two tokens, its slot and its record.

TLC's coverage shows every action of the parts of Files and Waits, and of Quit, taken within the bounds below; those of Session are taken by its own runs.

**Files**, **Waits** and **Desk** put components that share no state side by side: each behaviour exercises one of them (`workload`), so a
run's states are the sum of theirs. They are compositions of convenience, for checking; the compositions that matter are made by EXTENDS: Recovery, Launch
and Session over one record, and SessionRecord under both the store and the lifecycle.

Names follow the code: `CarryForward` is `carry_forward`, `ClearState` is `clear_state`, `DetachSave`
the detach arm's save. `PROJECT.json` "map" gives the lines of each. Definitions introduced by a comment that begins with "Slip:" are plausible bugs, not
the code: each is a variant of the definition after it, and substituting it makes one property fail.

## 3. The runs

| run | question | bounds |
|---|---|---|
| RecordStore | are the record's calls atomic, and do they spare a live session of the other front-end? | one thread in each of two front-ends of different schema versions, 2 runs |
| SessionRestart | can a Mac on BlackHole always be put back on the real device? | 2 launches, an app and its successor, 1 crash, 1 failed save, Cancel, Detach, quit, stop stage, reconcile |
| SessionOneApp | does one app keep its launches apart, visible and honestly answered? | 2 launches, Cancel, Stop, Detach, stop stage |
| SessionWired | do forwards and the dashboard stay on record? | 2 launches, 2 ports, app and successor, 1 crash, 1 failed save, pid reuse |
| SessionRivals | can two front-ends start two games? | app and CLI, 2 launches shared between them in every way, Cancel, stop stage |
| SessionLateTeardown | *violation*: a late teardown and a newer record | app and CLI, no request, no fault |
| OperationLock | do the two halves of the lock do what `run_stage` needs? | 3 processes (one without the lock file), 2 launches, a build, a revert |
| Files | what do the parts that write files promise when cut short, overtaken or run again? | seven workloads, below |
| Watcher | is what a snapshot shows of the session it is shown for? | 2 sessions |
| Waits | do a tail, a child and a record call return, with the truth? | three workloads, below |
| Desk | does a quit go through, and do stops, cancels and the lock come to an end? | quit: one session, 2 calls, dialog timeout of 2 ticks, 1 Cancel; session: 1 launch, 1 failed save, every request |
| TailLosesLines | *violation*: a marker left over from an older rotation | the tail of Waits |

The workloads of **Files**: the writers (2 callers, 2 contents, 2 journalled writes, one power loss at any moment); config saves (2
writers, 6 documents in which the two readers disagree or nearly do, 2 saves, 1 foreign edit, `Keep` = 1 instead of the code's
`BACKUP_KEEP`, 2 backups of one second); Goldberg (2 launches, 2 changes by Steam or another build); the stores (2 tasks, 2 games, 4 transactions); the manifest
(2 checkouts, 3 installs, staging files aged past the sweep's hour at most once); provisioning (2 pins; the stages a behaviour may use are setup, setup and install, build, or install;
one thing is missing or wrong initially); the preflight (1 outside change, the Fix button twice, a dry and a `--wired` launch, not both at once).

The workloads of **Waits**: a tail over 3 incarnations of a file of at most 2 lines, deleted at most once, with a chunk of 2 lines and a budget of 2; a leader with one
descendant and 2 bytes of output, streamed and probed; RecordStore under `DegradedNext`, with one run.

Why the bounds are enough. Two launches show what one run can do to the next (carry forward, overwrite, clear, kill);
a third adds only a longer chain of the same relation. One crash and one failed save put a fault
between any two steps; two of each only repeat the argument on a smaller record. The two stream
ports are the code's. Audio and wired/dashboard launches are separate runs because the guards
touch disjoint fields of the record and of `mac`. Three incarnations are one before, one inside and one after the read a rotation cuts; two saves and one foreign edit
put a writer between any two looks of another (a second edit lets the document come back to what it was: section 4, `ReplacedIsKept`). One descendant is what distinguishes a group from its leader. What a third pin, writer or session would add is the same pair again.
The type invariants are checked where no theorem has them; the store's, the lock's and the file writers' are parts of proved invariants. Symmetry (runs, apps; callers, writers and tasks) is used
for safety only. Deadlock is not checked: every system here stops for good once its bounds are used up, or all its processes are dead.

**Fairness.** Session asks weak fairness of the recovery pass, of each launch's own
steps and of the answer to a waiting Stop: tokio tasks that are ready are polled, and every wait in
them is bounded (probes, the wine exit wait, the wineserver budgets). Nothing is asked of users, of the
game or of the operating system. A launch whose game runs is not obliged to do anything, because no step of `Supervise`
is enabled until a token fires or the game exits. RecordStore's fairness (in Waits) is per thread and does not
cover a thread that stalls; OperationLock's is only that a waiter whose token fired is polled. Quit's is of the clock, of the main loop and of a user who asks again: `QuitGoesThrough`
must hold though the page is dead, the calls hang, the supervisor never tears down and the game never ends. Tailer's is that the thread that polls runs; ChildProcess's that the call and its pumps are polled and that the kernel ends what a signal has hit
(a tool need not end by itself, and its descendants may keep the pipes for ever).

### Exceptions inside properties

Where the code has a limit, the property says so:

* `DashboardOnRecord` lets off a dashboard whose wine was never started or whose pid was recycled (`SafeOnly` signals no pid).
* `NoEditUnderGame` lets off two processes of which one has no lock file.
* `OnlyItsOwnGame` is checked for one app: with two front-ends the bottle-wide kill of an INT teardown, which runs without the lock, can reach the other's newer game.
* So are `OutputRecoverable`, `DashboardOnRecord`, `ForwardsRecordedFirst` and `ForwardsStayOnRecord`, for an app and its successors. With a CLI beside the app each fails: the app's launch could not
  record its game, which has exited; the CLI launches, switches the output and is killed; then the app's late detach writes its own record over that of an owner that is no more, and the output stays.
* `NoIdleOverAGame` says nothing while the snapshot's base is a stale record: a dead record with a game the shell started shows Exited.
* `StatusIsOfItsRun` takes the watcher's own premise that no session starts within one poll of the one before it (`Quiet`).
* `SavedValueIsRead`, `SteamDllSurvives`, `LinesInOrder` and `TailCatchesUp` leave out the cases of findings 7, 8, 12 and 11.
* `FixesHold` leaves out CrossOver or the ALVR server starting between a fix's look and its edit; `LaunchIsVerified` what an outsider changed while the launch was on its way (`launch.moved`).
* `ExitSparesTheGame` lets off an exit whose bounded wait for the supervisor ran out (`outwaited`).
* `ReplacedIsBackedUp` is checked for writes that answer truthfully (`CommitOutcomes`, finding 6); section 4 says what writers that give up waiting may break.

### Findings

1. `clear_state` compares the run before, and outside, the call that clears; it can delete a newer
   launch's record when that launch's child has the start_time 0 identity (SessionLateTeardown).
2. A tail that rotates while an older rotation's marker waits announces the new file twice; the pane clears its first lines (TailLosesLines).
3. `lock_record` gives up after two seconds, and its comment trusts a compare-and-swap in `save` and
   `clear`; those load, compare and rename in separate steps. (RecordStore.cfg with `DegradedSpec` for its specification violates `ForeignRecordKept`.)
4. A detach whose save fails clears the slot and leaves the game running with nothing on disk; a
   waiting Stop reads that as "stopped". (SessionOneApp.cfg with `SaveFaults = 1` violates `StopIsHonest`.)
5. `observe_with_retry`'s doc says a start_time 0 session is reconciled as an identity mismatch; `classify_identity` calls it
   `Unverifiable` and nothing is restored.
6. `write_atomic` answers an error when only the fsync of the directory failed, after the rename. The config editor then deletes the backup of what it did replace, and `save_settings`
   leaves its cache stale. (Files.cfg with `"late"` in `CommitOutcomes` violates `ReplacedIsBackedUp`.)
7. `line_document_mismatch` compares counts: one key hidden in a multi-line string and one behind a byte-order mark cancel out, and the value saved is not the one read (`Disguised`).
8. `goldberg_stage` keeps any regular file as its backup. When the backup is itself a Goldberg and Steam has put its own dll back since, the next launch replaces the only copy.
9. `resolve_quit` forgets the pending quit before it awaits: a later Cancel is overridden, and a second Cmd-Q during a Stop may exit in the middle of its teardown.
10. `install` refuses on files that are missing, not on files that are cut short; a setup that died in `tar` can be overlaid in part.
11. A log deleted between `metadata` and `open` ends its tail's task; away at `metadata` it does not.
12. A poll that begins at offset 0 has no signature and can join the head of one incarnation to the tail of the next.

Findings 5 to 12 are readings of the lines `PROJECT.json` names, met while modelling; the exceptions above mark where the model shows them.
Not findings, for no text claims otherwise: a cancelled elevated write may land after a later install has verified its own; `revert_original_steam_dll` reads the library before it holds the lock; `LIBRARY_LOCK` is of one process.

## 4. What is proved

By TLAPS, for any sets of processes, threads, runs, operations, callers and contents:

* `RecordStoreProofs`: `StoreTypeOK`, `StoreIsAtomic` and `StoreKeepsForeignRecords`, of
  `Spec`, in which `lock_record` waits until it has its lock. The inductive invariant adds to the types that a thread between its load and
  its rename holds the record lock and that what it was allowed to do when it looked is still
  allowed now. The environment can only remove obstacles to a call: a death of an owner or of a wine child never
  turns an allowed call into a refused one, and no other thread writes meanwhile. A `Write` is then a register operation on the
  current file, every other step a stutter or a step of the world; `ForeignRecordKept` follows from the same fact at the write.
* `OperationLockProofs`: `NoEditUnderAnyGame`, `OneOperationPerProcess`, `MutexHandedOverUnlocked`
  from `IInv == TypeOK /\ MutexOwned /\ FileOwned /\ NoEditUnderGame`. `MutexOwned` (every
  operation past the first wait owns its process's mutex) and `FileOwned` (every operation with both
  halves owns the flock, unless its process may lack it) are what makes `NoEditUnderGame` inductive:
  a launch that puts its game up and an edit that passes its second look both hold the lock, so not
  both at once.
* `FileWriterProofs`: `WriterTypes` and `WriterImplementsFile`, that FileWriter implements AtomicFile under `Mapped`. The invariant adds to the types that every
  entry of the journal made by a call that fsyncs was fsynced before it was published (`SyncedInv`), and what each call has in its temporary file at each of its steps
  (`CallInv`, `TmpInv`). Then what a reader finds is the last value of the log (`CurrentIsOnDisk`), a rename or link appends one value to it (`MappedAppends`), a power loss takes a tail above the floor, and
  every other step leaves the log alone or raises the floor (`NextRefines`). The copy, which does not fsync its bytes, is why entries carry whether they are firm.
* `SessionProofs`: `NeverTwoGames`, `LaunchesShow` and, for one front-end, `NoGameTakenDown`. The chain is: the operation lock is a launch's from its gate to the record of its game (`LockInv`); so from
  the gate's look at the process table to the spawn nobody else starts a game (`GameInv`, which holds `OneGame`); whoever is past the gate shows in its process's slots (`VisibleInv`), and so that
  process starts no second launch. `HandInv` adds to the types which record a launch and a pass have in hand. The hypothesis `OneFrontEnd` says that all processes are instances of one front-end, of which one
  is up at a time: an app that quits, crashes and is started again.
* `SessionGuardProofs`: under `OneFrontEnd`, `OutputIsRecoverable`, `DevicesAreReal`, `DashboardsAreOnRecord`, `ForwardsRecorded` and `ForwardsAreKept`. There are three copies of a record, on disk, in a recovery pass and in
  a launch's hands, and each may be the next one written; so what is taken from the Mac and not given back must be owed in all three. `GuardInv` says so part by part: `RecordInv` and `PassInv` of the first two, and of each launch `IdleInv` (before its first guard it has nothing), `SessInv`
  (what it has in hand owes enough), `KeepInv` (if it may write again, the record on disk is its own and no pass has it) and `PlaceInv`. Without the hypothesis these are false (section 3), so it is not a convenience.
  Then `StopAnswersHonestly` and `PassesSpareGames`, under `SaveFaults = 0` besides. A game nobody may end is one that a launch supervises and nobody is stopping, or one that a detach left running (`Staying`). `DetachInv` says that such a game is on record, and as left once its launch has
  let go of it (`NotedInv`); that a record that says so names its child while that runs (`Sticks`), so that `classify_identity` finds it alive or cannot tell and no pass loads it; that no pass is at work while there is such a game (`SpareInv`: a pass has the operation lock, a launch lets go of that only with its record written); and that nothing
  is asked of a launch before its game is up, nor remembered once its front-end is gone (`LeaveInv`). Both are false with one failed save: the detach's own is finding 4, and a failed `record_launched_session` (best effort) leaves the record of the run before, which a pass then works off under the new game.
* `FilesProofs`, one section per component:
  `SavedIsRead`: a save past its patch holds a document that is not refused and a patch that changes it (`Informed`). Where nothing is refused nor disguised both readers find the same lines of the key (`SameLines`: one set contains the other, and they are as many), so
  the last that toml_edit rewrites, or the one it appends, is the last the runtime reads, and lines of other keys stay where they are (`PatchReads`).
  `ReplacedIsKept`: a save past its backup has a file of its own in the directory, with what it is about to replace, and whoever changes the document marks the saves that have compared (`PutBy`); the name is new because a free suffix is always found (`FreeSuffixFacts`, a pigeonhole).
  Its hypotheses are that a rename answers truthfully (finding 6) and `Spared`, that no prune hits the backup of a save under way. `ReplacedIsKeptUnderTheLock` discharges the second for writers that wait for the lock as long as it takes (`PatientSpec`): whoever is past the wait has it (`TomlLockInv`).
  A writer that gives up after two seconds may break it: with `Keep` = 1 and 2 edits (Files.cfg has one) TLC finds a save that slept while its backup was pruned and the document came back to what it had read; with the code's `BACKUP_KEEP` = 10 that takes nine newer backups.
  `SteamDllIsKept`: the stage writes over the live dll only with a backup in place, and makes one only where there is none (`WorkInv`), whatever Steam or a build do between its steps.
  `StagingIsKept`: staging files are numbered; commands that may still copy are those of earlier numbers and that of an install still waiting (`ElevatedInv`, `AnsweredInv`), and an install drops its own number only, once it is answered.
  `LibraryIsSerial`: a transaction past its lock holds `LIBRARY_LOCK` (`LockInv`) and so saves over what it loaded (`LoadedInv`). `CacheIsFresh`: what a snapshot holds and what the cache keeps are the file unless a save has written and
  not yet invalidated (`FreshInv`), and the invalidate waits for the snapshot.
  `WhatIsTrustedIsWhole`: while a marker is there every artifact is missing or of the marker's pin, and setup extracts and verifies without one (`MarkerInv`); without a backup CrossOver's files are the stock ones, and install
  overlays them only with one (`BackupInv`).
  `FixesAreHeld`: a fix holds the operation lock while it works (`HoldInv`) and edits only when no wineserver lives that could write back (`EditInv`); what sticks is in the file and in every copy a live process holds (`StickInv`).
  `LaunchesAreVerified`: at each point of the walk the gates behind it hold, but for those in `launch.moved`, and a repair is followed by another look.
* `ObserverProofs`, the components that watch what they do not control:
  `StatusIsItsRuns` and `NoGameIsIdle`: game, handle and launch are always the newest session's (`SessionInv`); a snapshot of a session under way is of the newest there was when it began (`ShotInv`); and a log line on its way
  when a session starts would break the premise (`LogInv`).
  `LinesAreInOrder`: the lines sent are a prefix of the file the cursor stands in, short of what the carry holds (`CursorInv`), and a read across a rewrite is told by its signature at the next poll, unless it has none (finding 12).
  `OutputArrives`: what is in the sink and in the line under way is determined by the bytes read so far and the line ends among them (`Reading`, `PumpInv`), which each byte and each end of a read extends by one step, so that no induction over the output is needed; a call
  past its wait has a dead leader, and a pipe that is not drained then has a holder (`LeaveInv`).
  `CancelKillsTheGroup`: the last signal a cancel sends is SIGKILL to the group, or one that finds nobody.
* `QuitProofs`: `ExitIsHonest` and `StopIsTrue`. Only the supervisor clears the slot, when the game is over or left with its record and guards in order (`SlotInv`), and nothing fills it again, so
  what a call saw when it looked is still so (`CallInv`); a quit is approved only when nothing is supervised, the session was told to stop or a wait ran out (`ApprovedInv`). The calls may be any number.

The assumptions are the named ASSUMEs beside the constants: `BuildAssumption` (versions are numbers), `RecordAssumption`, `StateAssumption`, `WriterAssumption` and `StoreAssumption` (the null values are none of the real ones),
`ThreadAssumption` and `OpsAssumption` (where each thread and operation lives), `BaseAssumption` (the bounds of faults and crashes are numbers; an empty slot is no run), `ProvisionAssumption` (of the pins), `TailAssumption`
(a file there at first; offsets are numbers) and `TomlAssumption` (the documents are sequences of assignments, and no writer is called "nobody").

Model-checked only: liveness (`WF_`, `SF_` and leads-to are out of the prover's reach), and `ReplacedIsBackedUp` of writers that give up waiting, which holds at the bounds of Files.cfg and not at every bound (above). Every other property of the runs is a theorem, those of
`Session` under the hypotheses stated.

## 5. What is not modelled

* Of the launch: log wording, the runtime's environment, `wineserver`'s budgets, serial numbers (one headset), device names beyond "BlackHole" and "the real device". The
  record's corrupt states are in RecordStore and not in Session. A launch that `session_block_at` refuses is refused by the recovery pass at the next step, with nothing changed in between. A game started outside Sabrage in the instant before its process can be seen is not seen. Reuse of a process
  group id after its leader was reaped is not modelled.
* Of the stop stage, how leftovers are matched to processes. Of the executor, symlink repair and mode bits. Of the process layer, the process table as such, which is an input everywhere. Of privilege, the choice of method and shell quoting.
* Of the preflight and doctor, the evaluators that only read: an answer of `Looks`. Fix `remove_adb_forwards`, which is two commands with no state between them.
* The command line's argument parsing, exit codes, counting of signals and its chain of all stages: sequential code over the operations modelled. The desktop UI beyond its quit dialog and its log pane. The tap, which copies a stream to a file.
* `./demo.sh` beyond what meets the Rust pipeline (its install and its run, which take no lock).
* The contract, its generator, the parity checks, probes, smoke tools and patches: constants, generated code, text comparison and stand-alone experiments with no state to check.

## 6. Plan

Done: the components of section 2, their runs, and the proofs of section 4.

Next: how many newer backups a sleeping save can lose its own to, as a bound on `Keep` in place of `Spared`; the command line's signals.
