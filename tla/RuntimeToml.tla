----------------------------- MODULE RuntimeToml ------------------------------
(***************************************************************************)
(* config/runtime_toml.rs: the patch of oxrsys-runtime.toml.  Writers of   *)
(* several processes read the file, patch one key, back the old bytes up   *)
(* and replace it, comparing the file with what they read before each of   *)
(* the last two; a text editor saves whenever it likes, and a game may     *)
(* start.                                                                  *)
(*                                                                         *)
(* A document is the sequence of its lines that assign an editable key, as *)
(* two readers see them: the runtime goes by physical lines, toml_edit by  *)
(* the grammar.  A "bare" line is seen by both, a "hidden" one (inside a   *)
(* multi-line string) by the runtime alone, a "bom" one (behind a byte     *)
(* order mark) by toml_edit alone, a "quoted" key by neither (toml_edit    *)
(* decodes it, and key_is_bare passes it over), and a "broken" line is     *)
(* read by the runtime but keeps toml_edit from parsing the file.  A value *)
(* is its body, its quotes, and what follows: nothing, a comment, or junk  *)
(* (80abc, 1_0).                                                           *)
(***************************************************************************)
EXTENDS Naturals, Sequences, FiniteSets

CONSTANTS Writers,         \* tasks that save the runtime config
          Accepted,        \* for each editable key, the bodies the runtime takes
          Numeric,         \* the keys it reads with stoi or stof
          Offered,         \* bodies a patch may carry
          Docs,            \* documents an editor saves or that are there at first
          Template,        \* what an absent file is created from
          Keep,            \* BACKUP_KEEP
          CommitOutcomes,  \* how write_atomic may end: "ok", "early" before its rename, "late" after
          MaxSaves,        \* bound: saves begun
          MaxEdits,        \* bound: saves by the editor, and games that start
          MaxClock,        \* bound: seconds on the clock
          MaxPerSecond     \* bound: backups made in one second

NoFile == <<[key |-> "no file"]>>

Nobody == "nobody"

VARIABLES toml,       \* the file
          backups,    \* the backups directory: of a second and a suffix, the document
          saver,      \* each writer's save in progress
          locked,     \* who holds .oxrsys-runtime.toml.lock
          streaming,  \* a session is live: session_block_at says so
          seconds,    \* the clock that names backups
          made,       \* backups made in this second
          saves, edits  \* counts, for the bounds

tomlVars == <<toml, backups, saver, locked, streaming, seconds, made, saves, edits>>

Keys == DOMAIN Accepted

Assignments == [key : Keys, form : {"bare", "hidden", "bom", "quoted", "broken"}, body : STRING,
                quote : {"none", "single", "double"}, tail : {"none", "comment", "junk"}]

ASSUME TomlAssumption ==
    /\ Docs \cup {Template} \subseteq Seq(Assignments)
    /\ \A key \in Keys : Accepted[key] \subseteq STRING
    /\ Nobody \notin Writers

(* unquote takes one pair of double quotes off and no others; stoi and     *)
(* stof stop at the first character that does not belong to the number; a  *)
(* comment is stripped from every line.                                    *)
ReadRaw(line) ==
    IF /\ line.quote # "single"
       /\ line.tail = "junk" => line.key \in Numeric
       /\ line.body \in Accepted[line.key]
    THEN {line.body} ELSE {}

(* Where the lines of a key are, as one of the readers sees them. *)
Lines(doc, key, forms) == {i \in 1 .. Len(doc) : doc[i].key = key /\ doc[i].form \in forms}

Physical(doc, key) == Lines(doc, key, {"bare", "hidden", "broken"})

Parsed(doc, key) == Lines(doc, key, {"bare", "bom"})

(* read_lines_like_the_runtime: the last line with a value that counts. *)
RuntimeReads(doc, key) ==
    LET good == {i \in Physical(doc, key) : ReadRaw(doc[i]) # {}}
    IN UNION {ReadRaw(doc[i]) : i \in {j \in good : \A k \in good : k <= j}}

Has(doc, key, form) == Lines(doc, key, {form}) # {}

(* Slip: only the assignments the runtime does not see are looked for.     *)
MismatchOneWay(doc) ==
    \E key \in Keys : Cardinality(Physical(doc, key)) < Cardinality(Parsed(doc, key))

(* line_document_mismatch looks at every editable key, patched or not. *)
Mismatch(doc) ==
    \E key \in Keys : Cardinality(Physical(doc, key)) # Cardinality(Parsed(doc, key))

(* insert_into_streaming does not add a key that is there quoted. *)
Refused(doc, key) ==
    \/ \E k \in Keys : Has(doc, k, "broken")
    \/ Mismatch(doc)
    \/ Parsed(doc, key) = {} /\ Has(doc, key, "quoted")

(* Sabrage's spelling: strings in double quotes, numbers bare. *)
Line(key, body) ==
    [key |-> key, form |-> "bare", body |-> body, tail |-> "none",
     quote |-> IF key \in Numeric THEN "none" ELSE "double"]

(* same_to_the_runtime compares texts, without the comment beside them. *)
SameText(line, new) ==
    line.body = new.body /\ line.quote = new.quote /\ line.tail # "junk"

LastParsed(doc, key) == CHOOSE i \in Parsed(doc, key) : \A j \in Parsed(doc, key) : j <= i

(* apply_patch on a document it does not refuse: the last line of the key  *)
(* is rewritten unless its text is the same, or a line is added.           *)
Patched(doc, key, body) ==
    LET new == Line(key, body)
        last == LastParsed(doc, key)
    IN IF Parsed(doc, key) = {} THEN Append(doc, new)
       ELSE IF SameText(doc[last], new) THEN doc
       ELSE [doc EXCEPT ![last] = [new EXCEPT !.form = doc[last].form]]

NoSave == [pc |-> "idle", key |-> "", body |-> "", base |-> NoFile, created |-> FALSE,
           reserved |-> {}, stale |-> {}, raced |-> FALSE]

Outcome(s) == Patched(s.base, s.key, s.body)

TomlInit ==
    /\ toml \in Docs \cup {NoFile}
    /\ backups = <<>>
    /\ saver = [w \in Writers |-> NoSave]
    /\ locked = Nobody
    /\ streaming = FALSE
    /\ seconds = 0 /\ made = 0 /\ saves = 0 /\ edits = 0

Leave(w) ==
    /\ saver' = [saver EXCEPT ![w] = NoSave]
    /\ locked' = IF locked = w THEN Nobody ELSE locked

StepTo(w, pc) == saver' = [saver EXCEPT ![w].pc = pc]

(* Writers have raced with whatever happens after their last comparison. *)
Raced(s) == [s EXCEPT !.raced = @ \/ s.pc = "commit"]

(* write: validate, then the refusal while a session is live. *)
AskSave(w, key, body) ==
    /\ saver[w].pc = "idle"
    /\ saves < MaxSaves
    /\ body \in Accepted[key]
    /\ ~streaming
    /\ saver' = [saver EXCEPT ![w].pc = "lock", ![w].key = key, ![w].body = body]
    /\ saves' = saves + 1
    /\ UNCHANGED <<toml, backups, locked, streaming, seconds, made, edits>>

LockToml(w) ==
    /\ saver[w].pc = "lock"
    /\ locked = Nobody
    /\ locked' = w
    /\ StepTo(w, "open")
    /\ UNCHANGED <<toml, backups, streaming, seconds, made, saves, edits>>

(* Two seconds pass and the lock is still somebody's: go on without. *)
GiveUpToml(w) ==
    /\ saver[w].pc = "lock"
    /\ locked # Nobody
    /\ StepTo(w, "open")
    /\ UNCHANGED <<toml, backups, locked, streaming, seconds, made, saves, edits>>

OpenToml(w) ==
    /\ saver[w].pc = "open"
    /\ saver' = [saver EXCEPT ![w].pc = IF toml = NoFile THEN "create" ELSE "patch",
                              ![w].base = toml]
    /\ UNCHANGED <<toml, backups, locked, streaming, seconds, made, saves, edits>>

(* create_new: the loser of the race goes on with the other's bytes. *)
CreateToml(w) ==
    /\ saver[w].pc = "create"
    /\ toml' = IF toml = NoFile THEN Template ELSE toml
    /\ saver' = [saver EXCEPT ![w].pc = "patch", ![w].base = toml',
                              ![w].created = toml = NoFile]
    /\ UNCHANGED <<backups, locked, streaming, seconds, made, saves, edits>>

(* still_safe_to_replace *)
Safe(w) == ~streaming /\ toml = saver[w].base

(* A refusal, nothing to change, or a file that moved: the save ends here. *)
DropSave(w) ==
    /\ saver[w].pc = "patch"
    /\ LET s == saver[w] IN
          Refused(s.base, s.key) \/ Outcome(s) = s.base \/ ~Safe(w)
    /\ Leave(w)
    /\ UNCHANGED <<toml, backups, streaming, seconds, made, saves, edits>>

(* list_backups: by the seconds in the name, then by its suffix. *)
NewerName(a, b) == a[1] > b[1] \/ (a[1] = b[1] /\ a[2] > b[2])

(* The prune list, from the listing before the new backup is in it. *)
Stale ==
    LET names == DOMAIN backups
    IN {b \in names : Cardinality({a \in names : NewerName(a, b)}) >= Keep - 1}

PatchToml(w) ==
    /\ saver[w].pc = "patch"
    /\ ~Refused(saver[w].base, saver[w].key)
    /\ Outcome(saver[w]) # saver[w].base
    /\ Safe(w)
    /\ saver' = [saver EXCEPT ![w].pc = IF saver[w].created THEN "compare" ELSE "backup",
                              ![w].stale = IF saver[w].created THEN {} ELSE Stale]
    /\ UNCHANGED <<toml, backups, locked, streaming, seconds, made, saves, edits>>

(* next_backup_path: the first suffix that is free in this second. *)
FreeSuffix ==
    CHOOSE n \in 1 .. Cardinality(DOMAIN backups) + 1 :
       /\ <<seconds, n>> \notin DOMAIN backups
       /\ \A m \in 1 .. n - 1 : <<seconds, m>> \in DOMAIN backups

(* reserve_backup_path: create_new, so a name is never taken twice. *)
BackUp(w) ==
    /\ saver[w].pc = "backup"
    /\ made < MaxPerSecond
    /\ LET name == <<seconds, FreeSuffix>> IN
          /\ backups' = [b \in DOMAIN backups \cup {name} |->
                            IF b = name THEN saver[w].base ELSE backups[b]]
          /\ saver' = [saver EXCEPT ![w].pc = "compare", ![w].reserved = {name}]
    /\ made' = made + 1
    /\ UNCHANGED <<toml, locked, streaming, seconds, saves, edits>>

(* A file is removed by its name, whoever wrote it. *)
Without(names) == [b \in DOMAIN backups \ names |-> backups[b]]

(* Slip: the backup is made and the file is not compared again.            *)
CompareOnce(w) ==
    /\ saver[w].pc = "compare"
    /\ StepTo(w, "commit")
    /\ UNCHANGED <<toml, backups, locked, streaming, seconds, made, saves, edits>>

(* The second comparison, after the backup: the wide window is closed. *)
CompareAgain(w) ==
    /\ saver[w].pc = "compare"
    /\ IF Safe(w)
       THEN StepTo(w, "commit") /\ UNCHANGED <<backups, locked>>
       ELSE Leave(w) /\ backups' = Without(saver[w].reserved)
    /\ UNCHANGED <<toml, streaming, seconds, made, saves, edits>>

(* write_atomic.  An error takes the reservation back, whether the rename  *)
(* was before it or after.                                                 *)
CommitToml(w) ==
    /\ saver[w].pc = "commit"
    /\ \E end \in CommitOutcomes :
          /\ toml' = IF end = "early" THEN toml ELSE Outcome(saver[w])
          /\ backups' = IF end = "ok" THEN backups ELSE Without(saver[w].reserved)
          /\ saver' = [v \in Writers |->
                          IF v # w THEN (IF end = "early" THEN saver[v] ELSE Raced(saver[v]))
                          ELSE IF end = "ok" THEN [saver[w] EXCEPT !.pc = "prune"] ELSE NoSave]
          /\ locked' = IF end # "ok" /\ locked = w THEN Nobody ELSE locked
    /\ UNCHANGED <<streaming, seconds, made, saves, edits>>

Prune(w) ==
    /\ saver[w].pc = "prune"
    /\ backups' = Without(saver[w].stale)
    /\ Leave(w)
    /\ UNCHANGED <<toml, streaming, seconds, made, saves, edits>>

(* An editor, demo.sh's setup or a copy in the Finder; a game that starts. *)
Outside ==
    /\ edits < MaxEdits
    /\ \/ toml' \in Docs \ {toml} /\ UNCHANGED streaming
       \/ streaming' = TRUE /\ UNCHANGED toml
    /\ saver' = [w \in Writers |-> Raced(saver[w])]
    /\ edits' = edits + 1
    /\ UNCHANGED <<backups, locked, seconds, made, saves>>

Tick ==
    /\ seconds < MaxClock
    /\ seconds' = seconds + 1
    /\ made' = 0
    /\ UNCHANGED <<toml, backups, saver, locked, streaming, saves, edits>>

(* The process dies; or, before the reservation, a read or a write fails. *)
KillSaver(w) ==
    /\ saver[w].pc # "idle"
    /\ Leave(w)
    /\ UNCHANGED <<toml, backups, streaming, seconds, made, saves, edits>>

TomlNext ==
    \/ \E w \in Writers :
          \/ \E key \in Keys, body \in Offered : AskSave(w, key, body)
          \/ LockToml(w) \/ GiveUpToml(w) \/ OpenToml(w) \/ CreateToml(w) \/ DropSave(w)
          \/ PatchToml(w) \/ BackUp(w) \/ CompareAgain(w) \/ CommitToml(w) \/ Prune(w)
          \/ KillSaver(w)
    \/ Outside \/ Tick

TomlSpec == TomlInit /\ [][TomlNext]_tomlVars
-----------------------------------------------------------------------------
Saving(w) == saver[w].pc = "commit" /\ saver'[w].pc # "commit" /\ toml' # toml

(* What a save replaces is in the backups directory, unless the save made  *)
(* it itself from the template; only bytes that arrived between the last   *)
(* comparison and the rename can be lost.                                  *)
ReplacedIsBackedUp ==
    [][\A w \in Writers :
          Saving(w) => \/ saver[w].created \/ saver[w].raced
                       \/ \E b \in DOMAIN backups' : backups'[b] = toml]_tomlVars

(* A key both behind a byte order mark and in a multi-line string is       *)
(* counted once by each reader, and slips through the comparison.          *)
Disguised(doc, key) == Has(doc, key, "bom") /\ Has(doc, key, "hidden")

(* The runtime, which does not read TOML, finds in a saved file the value  *)
(* that was asked for, and of the other keys what it found before.         *)
SavedValueIsRead ==
    [][\A w \in Writers :
          Saving(w) /\ ~Disguised(saver[w].base, saver[w].key) =>
             \A key \in Keys :
                RuntimeReads(toml', key) = IF key = saver[w].key THEN {saver[w].body}
                                           ELSE RuntimeReads(saver[w].base, key)]_tomlVars
=============================================================================
