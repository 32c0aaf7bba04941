-------------------------------- MODULE Stores ---------------------------------
(***************************************************************************)
(* store/library.rs and store/settings.rs as the app's commands drive      *)
(* them: library.json, edited in read-modify-write transactions from the   *)
(* Library screen and from a launch that has ended, and settings.json with *)
(* the app's cache of it.  One process; the two locks are its own.         *)
(***************************************************************************)
EXTENDS Naturals

CONSTANTS Tasks,     \* commands in flight
          Games,     \* ids of library entries
          Forms,     \* what the user may change of an entry, or of the settings
          Sessions,  \* last sessions a launch may record
          MaxTxns    \* bound: commands begun

Gone == [form |-> "gone", session |-> "none"]
Damaged == "damaged"   \* library.json does not parse, or is of a newer version
Free == "free"
Empty == "empty"

ASSUME StoreAssumption == Free \notin Tasks \cup Forms /\ Empty \notin Forms

VARIABLES library,     \* library.json: an entry for each game
          health,      \* whether it loads
          libHeld,     \* LIBRARY_LOCK
          txn,         \* each task's command and where it is
          settings,    \* settings.json
          setHeld,     \* SETTINGS_LOCK
          cache,       \* SettingsPathsCache
          cacheHeld,   \* its mutex, and what was loaded under it
          txns

storeVars == <<library, health, libHeld, txn, settings, setHeld, cache, cacheHeld, txns>>

libVars == <<library, health, libHeld>>
setVars == <<settings, setHeld, cache, cacheHeld>>

NoTxn == [pc |-> "idle", op |-> "none", game |-> "none", form |-> "none", before |-> Empty]

StoreInit ==
    /\ library = [g \in Games |-> Gone]
    /\ health = "fine"
    /\ libHeld = Free /\ setHeld = Free /\ cacheHeld = Free
    /\ txn = [t \in Tasks |-> NoTxn]
    /\ settings \in Forms
    /\ cache = Empty
    /\ txns = 0

TxnTo(t, pc) == txn' = [txn EXCEPT ![t].pc = pc]

(* save_game, remove_game, record_last_session; save_settings. *)
AskStore(t, op, game, form) ==
    /\ txn[t].pc = "idle"
    /\ txns < MaxTxns
    /\ txn' = [txn EXCEPT ![t] = [pc |-> "lock", op |-> op, game |-> game, form |-> form,
                                     before |-> Empty]]
    /\ txns' = txns + 1
    /\ UNCHANGED <<libVars, setVars>>

AskLibrary(t) ==
    \E g \in Games :
       \/ \E f \in Forms : AskStore(t, "save", g, f)
       \/ AskStore(t, "remove", g, "none")
       \/ \E s \in Sessions : AskStore(t, "record", g, s)

AskSettings(t) == \E f \in Forms : AskStore(t, "settings", "none", f)

(* transact, under LIBRARY_LOCK; a file that does not load is refused. *)
LockLibrary(t) ==
    /\ txn[t].pc = "lock" /\ txn[t].op # "settings"
    /\ libHeld = Free
    /\ libHeld' = t
    /\ TxnTo(t, "load")
    /\ UNCHANGED <<library, health, txns, setVars>>

LoadLibrary(t) ==
    /\ txn[t].pc = "load"
    /\ IF health = Damaged
       THEN libHeld' = Free /\ txn' = [txn EXCEPT ![t] = NoTxn]
       ELSE /\ txn' = [txn EXCEPT ![t].pc = "save", ![t].before = library]
            /\ UNCHANGED libHeld
    /\ UNCHANGED <<library, health, txns, setVars>>

(* Slip: the entry of the form replaces the stored one.                    *)
UpsertWhole(lib, g, form) == [lib EXCEPT ![g] = [form |-> form, session |-> "none"]]

(* upsert_editable: the session of the stored entry is kept. *)
UpsertEditable(lib, g, form) == [lib EXCEPT ![g] = [form |-> form, session |-> @.session]]

RecordLastSession(lib, g, s) ==
    IF lib[g] = Gone THEN lib ELSE [lib EXCEPT ![g].session = s]

Edited(c) ==
    CASE c.op = "save" -> UpsertEditable(c.before, c.game, c.form)
      [] c.op = "remove" -> [c.before EXCEPT ![c.game] = Gone]
      [] c.op = "record" -> RecordLastSession(c.before, c.game, c.form)

(* save, if the closure changed anything; or write_atomic fails. *)
SaveLibrary(t) ==
    /\ txn[t].pc = "save"
    /\ \/ library' = Edited(txn[t]) /\ health' = "fine"
       \/ UNCHANGED <<library, health>>
    /\ libHeld' = Free
    /\ txn' = [txn EXCEPT ![t] = NoTxn]
    /\ UNCHANGED <<txns, setVars>>

(* A hand edit that does not parse, or a newer Sabrage; and its repair. *)
DamageLibrary ==
    /\ libHeld = Free
    /\ health' = IF health = "fine" THEN Damaged ELSE "fine"
    /\ UNCHANGED <<library, libHeld, txn, txns, setVars>>

LockSettings(t) ==
    /\ txn[t].pc = "lock" /\ txn[t].op = "settings"
    /\ setHeld = Free
    /\ setHeld' = t
    /\ TxnTo(t, "write")
    /\ UNCHANGED <<settings, cache, cacheHeld, txns, libVars>>

(* write_atomic; a failure before its rename leaves the cache as it was. *)
WriteSettings(t) ==
    /\ txn[t].pc = "write"
    /\ \/ settings' = txn[t].form /\ TxnTo(t, "invalidate") /\ UNCHANGED setHeld
       \/ setHeld' = Free /\ txn' = [txn EXCEPT ![t] = NoTxn] /\ UNCHANGED settings
    /\ UNCHANGED <<cache, cacheHeld, txns, libVars>>

(* Slip: the cache's mutex is not held while the file is loaded.           *)
InvalidateMeanwhile(t) ==
    /\ txn[t].pc = "invalidate"
    /\ cache' = Empty
    /\ setHeld' = Free
    /\ txn' = [txn EXCEPT ![t] = NoTxn]
    /\ UNCHANGED <<settings, cacheHeld, txns, libVars>>

(* invalidate waits for a snapshot that is being taken. *)
Invalidate(t) ==
    /\ txn[t].pc = "invalidate"
    /\ cacheHeld = Free
    /\ cache' = Empty
    /\ setHeld' = Free
    /\ txn' = [txn EXCEPT ![t] = NoTxn]
    /\ UNCHANGED <<settings, cacheHeld, txns, libVars>>

(* snapshot on a miss: load and fill, under the cache's mutex. *)
BeginSnapshot ==
    /\ cache = Empty
    /\ cacheHeld = Free
    /\ cacheHeld' = settings
    /\ UNCHANGED <<settings, setHeld, cache, txn, txns, libVars>>

FillSnapshot ==
    /\ cacheHeld # Free
    /\ cache' = cacheHeld
    /\ cacheHeld' = Free
    /\ UNCHANGED <<settings, setHeld, txn, txns, libVars>>

StoreNext ==
    \/ \E t \in Tasks :
          \/ AskLibrary(t) \/ LockLibrary(t) \/ LoadLibrary(t) \/ SaveLibrary(t)
          \/ AskSettings(t) \/ LockSettings(t) \/ WriteSettings(t) \/ Invalidate(t)
    \/ DamageLibrary \/ BeginSnapshot \/ FillSnapshot

StoreSpec == StoreInit /\ [][StoreNext]_storeVars
-----------------------------------------------------------------------------
(* What one library command does leaves what another did: it touches its   *)
(* own game only, an edit of the form keeps the session a launch recorded  *)
(* while the form was open, a recorded session keeps the form and brings   *)
(* no removed game back, and a file that does not load is not rewritten.   *)
LibraryEditsAreSerial ==
    [][library' # library =>
          /\ health = "fine"
          /\ \E t \in Tasks :
                /\ txn[t].pc = "save"
                /\ \A g \in Games \ {txn[t].game} : library'[g] = library[g]
                /\ LET old == library[txn[t].game] new == library'[txn[t].game] IN
                      \/ txn[t].op = "save" /\ new.session = old.session
                      \/ txn[t].op = "record" /\ old # Gone /\ new.form = old.form
                      \/ txn[t].op = "remove" /\ new = Gone]_storeVars

(* What the commands read of the settings is what is on disk, but for the  *)
(* moment between a write and its invalidate.                              *)
CacheNotStale ==
    (\A t \in Tasks : txn[t].pc # "invalidate") => cache \in {Empty, settings}
=============================================================================
