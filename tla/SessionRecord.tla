---------------------------- MODULE SessionRecord ----------------------------
(***************************************************************************)
(* session-state.json, the crash-recovery record both Sabrage front-ends   *)
(* (the app and the `sabrage` CLI) keep at one shared path: what one       *)
(* record says about ownership, and when the compare-and-refuse calls of   *)
(* session/state.rs may replace or delete it.  Everything here is a        *)
(* constant operator over a record, the asking front-end and the processes *)
(* alive; RecordRegister, RecordStore and Session build on it.             *)
(*                                                                         *)
(* A record is any TLA+ record with at least the fields                    *)
(*   run      the RunId of the launch that wrote it                        *)
(*   owner    the front-end process (owner_pid + owner_started_at)         *)
(*   child    the recorded wine child: "none" before the spawn, "exact"    *)
(*            when pid and start time were observed, "unobserved" when     *)
(*            the spawn fell back to start_time 0                          *)
(*   version  the schema of the build that wrote it                        *)
(* `up` is the set of live front-ends, `wine` maps a run to its wine child *)
(* ("unborn", "alive", "gone", or "recycled": gone and its pid reused).    *)
(***************************************************************************)
EXTENDS Naturals

CONSTANTS Absent,   \* no file at the record's path
          Corrupt   \* a file that does not parse

ChildStates == {"none", "exact", "unobserved"}
WineStates  == {"unborn", "alive", "gone", "recycled"}

(* load: a record only when there is a file and it parses. *)
Loaded(disk) == disk \notin {Absent, Corrupt}

(* ProcInfo::is_same_process on the recorded wine child: the pid is alive  *)
(* and its start time is the recorded one, which start_time 0 never is.    *)
IsSameProcess(rec, wine) == rec.child = "exact" /\ wine[rec.run] = "alive"

HasLiveForeignOwner(rec, p, up, wine) ==
    /\ rec.owner # p
    /\ rec.owner \in up
    /\ rec.child = "none" \/ IsSameProcess(rec, wine)

IsSupportedVersion(rec, build) == rec.version <= build

(* save's refusals: a different run another live process owns, a newer     *)
(* schema. A missing or unreadable file refuses nothing.                   *)
MaySave(disk, run, p, build, up, wine) ==
    Loaded(disk) =>
        /\ disk.run # run => ~HasLiveForeignOwner(disk, p, up, wine)
        /\ IsSupportedVersion(disk, build)

(* clear's refusals (clear_inner without an expected run). *)
MayClear(disk, p, build, up, wine) ==
    Loaded(disk) =>
        /\ ~HasLiveForeignOwner(disk, p, up, wine)
        /\ IsSupportedVersion(disk, build)

(* clear_run removes only the run it names; another run's record is left   *)
(* in place and reported as success.                                       *)
MayClearRun(disk, run, p, build, up, wine) ==
    /\ MayClear(disk, p, build, up, wine)
    /\ Loaded(disk) => disk.run = run

(* mark_detached writes only over the same run's record, once, and never   *)
(* creates one.                                                            *)
MayMarkDetached(disk, run, p, build, up, wine) ==
    /\ Loaded(disk)
    /\ disk.run = run
    /\ ~disk.detached
    /\ MayClear(disk, p, build, up, wine)

(* Slip: an unobserved start time read as "some other process".            *)
ClassifyUnobservedAsOther(rec, wine) ==
    CASE rec.child = "none" \/ wine[rec.run] \in {"unborn", "gone"} -> "Dead"
      [] rec.child = "exact" /\ wine[rec.run] = "alive"             -> "Live"
      [] OTHER                                                      -> "IdentityMismatch"

(* classify_identity: what the recorded wine child is now. *)
Classify(rec, wine) ==
    CASE rec.child = "none"                                    -> "Dead"
      [] IsSameProcess(rec, wine)                              -> "Live"
      [] rec.child # "none" /\ wine[rec.run] \in {"unborn", "gone"} -> "Dead"
      [] rec.child = "unobserved" /\ wine[rec.run] \in {"alive", "recycled"}
                                                               -> "Unverifiable"
      [] OTHER                                                 -> "IdentityMismatch"

(* restore_mode: what a classification licenses. *)
RestoreMode(class) ==
    CASE class = "Dead"             -> "Full"
      [] class = "IdentityMismatch" -> "SafeOnly"
      [] OTHER                      -> "None"
=============================================================================
