------------------------------- MODULE FilesProofs ------------------------------
(***************************************************************************)
(* The components that keep something on disk, each on its own: the        *)
(* runtime config and its backups, the Steam dll and its backup, the       *)
(* staging files of the host manifest, the library and the settings, what  *)
(* setup, build and install leave, and what the preflight and the fixes    *)
(* judge and repair.                                                       *)
(***************************************************************************)
EXTENDS RuntimeToml, Goldberg, HostManifest, Stores, Provision, Preflight,
        FiniteSetTheorems, WellFoundedInduction, TLAPS

-----------------------------------------------------------------------------
(* The patch of a document, for any document and any keys.  A document     *)
(* that is not refused and has no disguised assignment of the key has the  *)
(* same lines of it for both readers, so the one that toml_edit rewrites,  *)
(* or appends, is the last the runtime reads.                              *)
LEMMA LinesFacts ==
    ASSUME NEW doc \in Seq(Assignments), NEW key
    PROVE  /\ \A forms : /\ Lines(doc, key, forms) \subseteq 1 .. Len(doc)
                         /\ IsFiniteSet(Lines(doc, key, forms))
           /\ Physical(doc, key) = Lines(doc, key, {"bare"}) \cup Lines(doc, key, {"hidden"})
                                     \cup Lines(doc, key, {"broken"})
           /\ Parsed(doc, key) = Lines(doc, key, {"bare"}) \cup Lines(doc, key, {"bom"})
<1>1. \A forms : Lines(doc, key, forms) \subseteq 1 .. Len(doc)
  BY DEF Lines
<1>2. IsFiniteSet(1 .. Len(doc))
  BY FS_Interval
<1>3. \A forms : IsFiniteSet(Lines(doc, key, forms))
  BY <1>1, <1>2, FS_Subset
<1> QED
  BY <1>1, <1>3 DEF Physical, Parsed, Lines

(* The lines of a key, as both readers see them.                           *)
LEMMA SameLines ==
    ASSUME NEW doc \in Seq(Assignments), NEW key \in Keys,
           ~Refused(doc, key), ~Disguised(doc, key)
    PROVE  /\ Physical(doc, key) = Parsed(doc, key)
           /\ \A i \in Physical(doc, key) : doc[i].form = "bare"
<1>1. Lines(doc, key, {"broken"}) = {}
  BY DEF Refused, Has
<1>2. Cardinality(Physical(doc, key)) = Cardinality(Parsed(doc, key))
  BY DEF Refused, Mismatch
<1>3. Lines(doc, key, {"bom"}) = {} \/ Lines(doc, key, {"hidden"}) = {}
  BY DEF Disguised, Has
<1>4. /\ Physical(doc, key) = Lines(doc, key, {"bare"}) \cup Lines(doc, key, {"hidden"})
      /\ Parsed(doc, key) = Lines(doc, key, {"bare"}) \cup Lines(doc, key, {"bom"})
  BY <1>1, LinesFacts
<1>5. IsFiniteSet(Physical(doc, key)) /\ IsFiniteSet(Parsed(doc, key))
  BY LinesFacts DEF Physical, Parsed
<1>6. Physical(doc, key) \subseteq Parsed(doc, key) \/ Parsed(doc, key) \subseteq Physical(doc, key)
  BY <1>3, <1>4
<1>7. Physical(doc, key) = Parsed(doc, key)
  BY <1>2, <1>5, <1>6, FS_Subset
<1>8. Lines(doc, key, {"bare"}) \cap Lines(doc, key, {"hidden"}) = {}
  BY DEF Lines
<1>9. Lines(doc, key, {"bare"}) \cap Lines(doc, key, {"bom"}) = {}
  BY DEF Lines
<1>10. Physical(doc, key) = Lines(doc, key, {"bare"})
  BY <1>3, <1>4, <1>7, <1>8, <1>9
<1> QED
  BY <1>7, <1>10 DEF Lines

(* A nonempty set of positions has a last one.                             *)
LEMMA LastExists ==
    ASSUME NEW n \in Nat, NEW S, S \subseteq 1 .. n, S # {}
    PROVE  \E i \in S : \A j \in S : j <= i
<1> DEFINE T == {n - i : i \in S}
           R == OpToRel(<, Nat)
<1>1. T \subseteq Nat /\ T # {}
  <2>1. \A i \in S : i \in Nat /\ i <= n
    OBVIOUS
  <2>2. \A i \in Nat : i <= n => n - i \in Nat
    OBVIOUS
  <2> QED
    BY <2>1, <2>2
<1>2. IsWellFoundedOn(R, Nat)
  BY NatLessThanWellFounded
<1>3. PICK x \in T : \A y \in T : ~ (<<y, x>> \in R)
  <2> HIDE DEF T, R
  <2> QED
    BY <1>1, <1>2, WFMin
<1>4. PICK i \in S : x = n - i
  BY <1>3
<1>5. ASSUME NEW j \in S PROVE j <= i
  <2>1. n - j \in T /\ n - j \in Nat /\ x \in Nat
    BY <1>1, <1>3
  <2>2. ~ (n - j < x)
    BY <2>1, <1>3 DEF OpToRel
  <2> QED
    BY <2>2, <1>4
<1> QED
  BY <1>5

(* LastParsed is one of the lines, and after the others.                   *)
LEMMA LastFacts ==
    ASSUME NEW doc \in Seq(Assignments), NEW key, Parsed(doc, key) # {}
    PROVE  /\ LastParsed(doc, key) \in Parsed(doc, key)
           /\ \A j \in Parsed(doc, key) : j <= LastParsed(doc, key)
<1>1. Parsed(doc, key) \subseteq 1 .. Len(doc) /\ Len(doc) \in Nat
  BY LinesFacts DEF Parsed
<1>2. \E i \in Parsed(doc, key) : \A j \in Parsed(doc, key) : j <= i
  BY <1>1, LastExists
<1> QED
  BY <1>2 DEF LastParsed

(* A document may be read by its last counting line.                       *)
LEMMA ReadsLast ==
    ASSUME NEW doc \in Seq(Assignments), NEW key, NEW i \in Physical(doc, key),
           ReadRaw(doc[i]) # {}, \A j \in Physical(doc, key) : j <= i
    PROVE  RuntimeReads(doc, key) = ReadRaw(doc[i])
<1> DEFINE good == {j \in Physical(doc, key) : ReadRaw(doc[j]) # {}}
<1>1. Physical(doc, key) \subseteq Nat
  BY LinesFacts DEF Physical
<1>2. {j \in good : \A k \in good : k <= j} = {i}
  <2>1. i \in good /\ \A k \in good : k <= i
    OBVIOUS
  <2>2. good \subseteq Nat
    BY <1>1
  <2> HIDE DEF good
  <2>3. ASSUME NEW j \in good, \A k \in good : k <= j PROVE j = i
    <3>1. i <= j /\ j <= i /\ i \in Nat /\ j \in Nat
      BY <2>1, <2>2, <2>3
    <3> QED
      BY <3>1
  <2> QED
    BY <2>1, <2>3
<1>3. RuntimeReads(doc, key) = UNION {ReadRaw(doc[j]) : j \in {i}}
  BY <1>2 DEF RuntimeReads
<1> QED
  BY <1>3

(* Documents with the same lines of a key are read alike.                  *)
LEMMA ReadsAlike ==
    ASSUME NEW doc \in Seq(Assignments), NEW other \in Seq(Assignments), NEW key,
           Physical(doc, key) = Physical(other, key),
           \A i \in Physical(doc, key) : doc[i] = other[i]
    PROVE  RuntimeReads(doc, key) = RuntimeReads(other, key)
<1> DEFINE good == {j \in Physical(doc, key) : ReadRaw(doc[j]) # {}}
           last == {i \in good : \A k \in good : k <= i}
           good2 == {j \in Physical(other, key) : ReadRaw(other[j]) # {}}
<1>1. good = good2
  OBVIOUS
<1>2. RuntimeReads(doc, key) = UNION {ReadRaw(doc[i]) : i \in last}
  BY DEF RuntimeReads
<1>3. RuntimeReads(other, key) = UNION {ReadRaw(other[i]) : i \in last}
  BY <1>1 DEF RuntimeReads
<1>4. \A i \in last : ReadRaw(doc[i]) = ReadRaw(other[i])
  OBVIOUS
<1>5. {ReadRaw(doc[i]) : i \in last} = {ReadRaw(other[i]) : i \in last}
  BY <1>4
<1> QED
  BY <1>2, <1>3, <1>5

(* The line a patch writes, which the runtime reads as what was asked.     *)
LEMMA LineFacts ==
    ASSUME NEW key \in Keys, NEW body \in Accepted[key]
    PROVE  /\ Line(key, body) \in Assignments
           /\ Line(key, body).key = key
           /\ Line(key, body).form = "bare"
           /\ ReadRaw(Line(key, body)) = {body}
  BY TomlAssumption DEF Line, ReadRaw, Assignments

(* The document a patch makes of one it does not refuse and that does not  *)
(* have the value already.                                                 *)
LEMMA PatchReads ==
    ASSUME NEW doc \in Seq(Assignments), NEW key \in Keys, NEW body \in Accepted[key],
           ~Refused(doc, key), ~Disguised(doc, key), Patched(doc, key, body) # doc,
           NEW other \in Keys
    PROVE  /\ Patched(doc, key, body) \in Seq(Assignments)
           /\ RuntimeReads(Patched(doc, key, body), other)
                 = IF other = key THEN {body} ELSE RuntimeReads(doc, other)
<1> DEFINE new == Line(key, body)
           res == Patched(doc, key, body)
           last == LastParsed(doc, key)
<1>1. /\ new \in Assignments /\ new.key = key /\ new.form = "bare"
      /\ ReadRaw(new) = {body}
  BY LineFacts
<1>2. /\ Physical(doc, key) = Parsed(doc, key)
      /\ \A i \in Physical(doc, key) : doc[i].form = "bare"
  BY SameLines
<1>3. CASE Parsed(doc, key) = {}
  <2>1. res = Append(doc, new)
    BY <1>3 DEF Patched
  <2> HIDE DEF new, res, last
  <2>2. /\ res \in Seq(Assignments)
        /\ Len(doc) \in Nat /\ Len(res) = Len(doc) + 1 /\ res[Len(doc) + 1] = new
        /\ \A i \in 1 .. Len(doc) : res[i] = doc[i]
    BY <2>1, <1>1
  <2>3. CASE other = key
    <3>1. Physical(res, key) = {Len(doc) + 1}
      BY <2>2, <1>1, <1>2, <1>3 DEF Physical, Lines
    <3>2. RuntimeReads(res, key) = ReadRaw(res[Len(doc) + 1])
      <4> DEFINE i == Len(doc) + 1
      <4>1. i \in Physical(res, key) /\ \A j \in Physical(res, key) : j <= i
        BY <3>1, <2>2
      <4>2. ReadRaw(res[i]) # {}
        BY <2>2, <1>1
      <4> HIDE DEF i
      <4>3. RuntimeReads(res, key) = ReadRaw(res[i])
        BY <4>1, <4>2, <2>2, ReadsLast
      <4> QED
        BY <4>3 DEF i
    <3> QED
      BY <3>2, <2>2, <2>3, <1>1 DEF res
  <2>4. CASE other # key
    <3>1. Physical(doc, other) = Physical(res, other)
      BY <2>2, <2>4, <1>1 DEF Physical, Lines
    <3>2. \A i \in Physical(doc, other) : doc[i] = res[i]
      BY <2>2 DEF Physical, Lines
    <3>3. RuntimeReads(doc, other) = RuntimeReads(res, other)
      BY <3>1, <3>2, <2>2, ReadsAlike
    <3> QED
      BY <3>3, <2>2, <2>4 DEF res
  <2> QED
    BY <2>3, <2>4
<1>4. CASE Parsed(doc, key) # {}
  <2>1. last \in Parsed(doc, key) /\ \A j \in Parsed(doc, key) : j <= last
    BY <1>4, LastFacts
  <2>2. last \in 1 .. Len(doc) /\ doc[last].key = key /\ doc[last].form = "bare"
    BY <2>1, <1>2 DEF Physical, Lines
  <2>3. res = [doc EXCEPT ![last] = [new EXCEPT !.form = doc[last].form]]
    BY <1>4 DEF Patched
  <2>4. [new EXCEPT !.form = doc[last].form] = new
    BY <2>2 DEF Line
  <2>5. res = [doc EXCEPT ![last] = new]
    BY <2>3, <2>4
  <2> HIDE DEF new, res, last
  <2>6. /\ res \in Seq(Assignments) /\ Len(res) = Len(doc) /\ res[last] = new
        /\ \A i \in 1 .. Len(doc) : i # last => res[i] = doc[i]
    BY <2>5, <2>2, <1>1
  <2>7. CASE other = key
    <3>1. Physical(res, key) = Physical(doc, key)
      BY <2>6, <2>2, <1>1 DEF Physical, Lines
    <3>2. last \in Physical(res, key) /\ \A j \in Physical(res, key) : j <= last
      BY <3>1, <2>1, <1>2
    <3>3. RuntimeReads(res, key) = ReadRaw(res[last])
      BY <3>2, <2>6, <1>1, ReadsLast
    <3> QED
      BY <3>3, <2>6, <2>7, <1>1 DEF res
  <2>8. CASE other # key
    <3>1. Physical(doc, other) = Physical(res, other)
      BY <2>6, <2>2, <2>8, <1>1 DEF Physical, Lines
    <3>2. \A i \in Physical(doc, other) : doc[i] = res[i]
      BY <2>6, <2>2, <2>8 DEF Physical, Lines
    <3>3. RuntimeReads(doc, other) = RuntimeReads(res, other)
      BY <3>1, <3>2, <2>6, ReadsAlike
    <3> QED
      BY <3>3, <2>6, <2>8 DEF res
  <2> QED
    BY <2>7, <2>8
<1> QED
  BY <1>3, <1>4

(* What a save knows at each of its steps: a value the runtime takes, from *)
(* the lock on; a document, from the patch on; and past it, that the patch *)
(* is neither refused nor empty.                                           *)
Names == Nat \X Nat

Bodies == UNION {Accepted[key] : key \in Keys}

Saves ==
    [pc : {"idle", "lock", "open", "create", "patch", "backup", "compare", "commit", "prune"},
     key : Keys \cup {""}, body : Bodies \cup {""}, base : Seq(Assignments) \cup {NoFile},
     created : BOOLEAN, reserved : SUBSET Names, stale : SUBSET Names, raced : BOOLEAN]

TomlTypeOK ==
    /\ toml \in Seq(Assignments) \cup {NoFile}
    /\ DOMAIN backups \subseteq Names /\ IsFiniteSet(DOMAIN backups)
    /\ saver \in [Writers -> Saves]
    /\ seconds \in Nat

Informed(s) ==
    /\ s.pc # "idle" => s.key \in Keys /\ s.body \in Accepted[s.key]
    /\ s.pc \in {"patch", "backup", "compare", "commit"} => s.base \in Seq(Assignments)
    /\ s.pc \in {"backup", "compare", "commit"} =>
          ~Refused(s.base, s.key) /\ Outcome(s) # s.base

TomlInv == TomlTypeOK /\ \A w \in Writers : Informed(saver[w])

(* The reservation of a save that may still replace the file.              *)
Held(s) == IF s.pc \in {"compare", "commit"} THEN s.reserved ELSE {}

(* No prune takes the backup of a save under way.                          *)
Spared == \A v, w \in Writers : saver[v].pc = "prune" => saver[v].stale \cap Held(saver[w]) = {}

(* What a save under way has put by: nothing before its backup, then a     *)
(* file of its own with what it is about to replace.                       *)
BackedUp(s, files, doc) ==
    /\ s.pc \in {"idle", "lock", "open", "create", "patch", "backup"} => s.reserved = {}
    /\ Held(s) \subseteq DOMAIN files
    /\ s.pc \in {"compare", "commit"} /\ ~s.created =>
          \E b \in Held(s) : files[b] = s.base
    /\ s.pc = "commit" /\ ~s.raced => doc = s.base

Apart == \A v, w \in Writers : v # w => Held(saver[v]) \cap Held(saver[w]) = {}

PutBy == Apart /\ \A w \in Writers : BackedUp(saver[w], backups, toml)

(* Whoever is past the wait has the lock, when nobody gives up waiting.    *)
TomlLockInv == \A w \in Writers : saver[w].pc \notin {"idle", "lock"} => locked = w

(* A suffix that is free is found, so a reserved name is a new one.        *)
LEMMA FreeSuffixFacts ==
    ASSUME IsFiniteSet(DOMAIN backups)
    PROVE  FreeSuffix \in Nat /\ <<seconds, FreeSuffix>> \notin DOMAIN backups
<1> DEFINE D == DOMAIN backups
           N == 1 .. Cardinality(D) + 1
           T == {n \in N : <<seconds, n>> \notin D}
           R == OpToRel(<, Nat)
           f == [n \in N |-> <<seconds, n>>]
<1>1. Cardinality(D) \in Nat
  BY FS_CardinalityType
<1>2. IsFiniteSet(N) /\ Cardinality(N) = Cardinality(D) + 1
  <2>1. /\ Cardinality(D) + 1 \in Int /\ ~(1 > Cardinality(D) + 1)
        /\ Cardinality(D) + 1 - 1 + 1 = Cardinality(D) + 1
    BY <1>1
  <2> HIDE DEF D
  <2> QED
    BY <2>1, FS_Interval
<1>3. T # {}
  <2>1. SUFFICES ASSUME T = {} PROVE FALSE
    OBVIOUS
  <2>2. f \in [N -> D]
    BY <2>1
  <2>3. Cardinality(D) < Cardinality(N)
    BY <1>1, <1>2
  <2>4. \A x, y \in N : f[x] = f[y] => x = y
    OBVIOUS
  <2> HIDE DEF f, N, D
  <2>5. IsFiniteSet(D)
    BY DEF D
  <2> QED
    BY <1>2, <2>2, <2>3, <2>4, <2>5, FS_PigeonHole
<1>4. T \subseteq Nat
  BY <1>1
<1>5. PICK x \in T : \A y \in T : ~ (<<y, x>> \in R)
  <2>1. IsWellFoundedOn(R, Nat)
    BY NatLessThanWellFounded
  <2> HIDE DEF T, R
  <2> QED
    BY <2>1, <1>3, <1>4, WFMin
<1>6. ASSUME NEW m \in 1 .. x - 1 PROVE <<seconds, m>> \in D
  <2>1. m \in Nat /\ x \in Nat /\ m < x /\ m \in N
    BY <1>1
  <2>2. m \notin T
    BY <2>1, <1>5 DEF OpToRel
  <2> QED
    BY <2>1, <2>2
<1>7. x \in N /\ <<seconds, x>> \notin D
  OBVIOUS
<1>8. FreeSuffix \in N /\ <<seconds, FreeSuffix>> \notin D
  BY <1>6, <1>7 DEF FreeSuffix
<1> QED
  BY <1>8, <1>1

(* A file that is not there is no document.                                *)
LEMMA NoFileIsNone == NoFile \notin Seq(Assignments)
<1> SUFFICES ASSUME NoFile \in Seq(Assignments) PROVE FALSE
  OBVIOUS
<1>1. NoFile[1] = [key |-> "no file"]
  BY DEF NoFile
<1>0. Len(NoFile) = 1
  BY DEF NoFile
<1>2. NoFile[1] \in Assignments
  <2>1. ASSUME NEW S, NEW s \in Seq(S), NEW i \in 1 .. Len(s) PROVE s[i] \in S
    BY <2>1
  <2>2. 1 \in 1 .. Len(NoFile)
    BY <1>0
  <2> QED
    BY <2>1, <2>2
<1>3. "form" \in DOMAIN NoFile[1]
  BY <1>2 DEF Assignments
<1>4. "form" \notin DOMAIN NoFile[1]
  BY <1>1
<1> QED
  BY <1>3, <1>4

(* A patch makes a document of a document.                                 *)
LEMMA PatchedType ==
    ASSUME NEW doc \in Seq(Assignments), NEW key \in Keys, NEW body \in Accepted[key]
    PROVE  Patched(doc, key, body) \in Seq(Assignments)
<1> DEFINE new == Line(key, body)
           last == LastParsed(doc, key)
           old == [new EXCEPT !.form = doc[last].form]
<1>1. new \in Assignments
  BY LineFacts
<1>2. CASE Parsed(doc, key) = {}
  BY <1>1, <1>2 DEF Patched
<1>3. CASE Parsed(doc, key) # {}
  <2>1. last \in 1 .. Len(doc)
    BY <1>3, LastFacts DEF Parsed, Lines
  <2>2. doc[last] \in Assignments
    BY <2>1
  <2>3. old \in Assignments
    BY <1>1, <2>2 DEF Assignments
  <2>4. Patched(doc, key, body) \in {doc, [doc EXCEPT ![last] = old]}
    BY <1>3 DEF Patched
  <2> HIDE DEF old, last
  <2> QED
    BY <2>1, <2>3, <2>4
<1> QED
  BY <1>2, <1>3

(* What is left of the directory when files are removed.                   *)
LEMMA WithoutFacts ==
    ASSUME NEW names, IsFiniteSet(DOMAIN backups)
    PROVE  /\ DOMAIN Without(names) = DOMAIN backups \ names
           /\ IsFiniteSet(DOMAIN Without(names))
           /\ \A b \in DOMAIN backups \ names : Without(names)[b] = backups[b]
<1>1. DOMAIN Without(names) = DOMAIN backups \ names
  BY DEF Without
<1>2. IsFiniteSet(DOMAIN backups \ names)
  BY FS_Subset
<1> QED
  BY <1>1, <1>2 DEF Without

(* A writer that saves nothing.                                            *)
LEMMA NoSaveFacts == NoSave \in Saves /\ Informed(NoSave)
<1>1. NoSave \in Saves
  BY DEF NoSave, Saves
<1>2. NoSave.pc = "idle"
  BY DEF NoSave
<1> QED
  BY <1>1, <1>2 DEF Informed

(* No save under way to begin with.                                        *)
LEMMA TomlInitInv == TomlInit => TomlInv
<1> SUFFICES ASSUME TomlInit PROVE TomlInv
  OBVIOUS
<1>1. NoSave \in Saves /\ Informed(NoSave)
  BY NoSaveFacts
<1>2. DOMAIN backups = {}
  BY DEF TomlInit
<1>3. IsFiniteSet(DOMAIN backups)
  BY <1>2, FS_EmptySet
<1>4. saver = [w \in Writers |-> NoSave]
  BY DEF TomlInit
<1>5. saver \in [Writers -> Saves] /\ \A w \in Writers : Informed(saver[w])
  BY <1>1, <1>4
<1>6. toml \in Seq(Assignments) \cup {NoFile} /\ seconds \in Nat
  BY TomlAssumption DEF TomlInit
<1> QED
  BY <1>2, <1>3, <1>5, <1>6 DEF TomlInv, TomlTypeOK

(* A step that changes one save.                                           *)
LEMMA OneSaver ==
    ASSUME TomlInv, NEW w \in Writers, NEW r \in Saves, Informed(r),
           saver' = [saver EXCEPT ![w] = r]
    PROVE  saver' \in [Writers -> Saves] /\ \A v \in Writers : Informed(saver'[v])
<1>1. saver \in [Writers -> Saves] /\ \A v \in Writers : Informed(saver[v])
  BY DEF TomlInv, TomlTypeOK
<1> QED
  BY <1>1

(* A save that ends.                                                       *)
LEMMA LeaveFacts ==
    ASSUME TomlInv, NEW w \in Writers, Leave(w)
    PROVE  saver' \in [Writers -> Saves] /\ \A v \in Writers : Informed(saver'[v])
<1>1. NoSave \in Saves /\ Informed(NoSave)
  BY NoSaveFacts
<1>2. saver' = [saver EXCEPT ![w] = NoSave]
  BY DEF Leave
<1> QED
  BY <1>1, <1>2, OneSaver

(* The races a save is in say nothing of what it knows.                    *)
LEMMA RacedFacts ==
    ASSUME NEW s \in Saves
    PROVE  /\ Raced(s) \in Saves
           /\ Informed(s) => Informed(Raced(s))
           /\ Held(Raced(s)) = Held(s)
           /\ Raced(s).pc = s.pc /\ Raced(s).key = s.key /\ Raced(s).body = s.body
           /\ Raced(s).base = s.base /\ Raced(s).created = s.created
           /\ Raced(s).reserved = s.reserved /\ Raced(s).stale = s.stale
           /\ Raced(s).raced = (s.raced \/ s.pc = "commit")
<1>1. Raced(s) = [s EXCEPT !.raced = s.raced \/ s.pc = "commit"]
  BY DEF Raced
<1> DEFINE b == s.raced \/ s.pc = "commit"
<1>2. b \in BOOLEAN
  OBVIOUS
<1> HIDE DEF b
<1>3. Raced(s) = [s EXCEPT !.raced = b]
  BY <1>1 DEF b
<1>4. Raced(s) \in Saves
  BY <1>2, <1>3 DEF Saves
<1>5. /\ Raced(s).pc = s.pc /\ Raced(s).key = s.key /\ Raced(s).body = s.body
      /\ Raced(s).base = s.base /\ Raced(s).created = s.created
      /\ Raced(s).reserved = s.reserved /\ Raced(s).stale = s.stale
      /\ Raced(s).raced = b
  BY <1>3 DEF Saves
<1>6. Informed(s) => Informed(Raced(s))
  BY <1>5 DEF Informed, Outcome
<1> QED
  BY <1>4, <1>5, <1>6 DEF Held, b

(* A save that begins has a key and a body that the runtime takes.         *)
LEMMA AskInv ==
    ASSUME TomlInv, NEW w \in Writers, NEW key \in Keys, NEW body, AskSave(w, key, body)
    PROVE  TomlInv'
<1> DEFINE q == saver[w]
           r == [q EXCEPT !.pc = "lock", !.key = key, !.body = body]
<1>1. q \in Saves /\ saver \in [Writers -> Saves]
  BY DEF TomlInv, TomlTypeOK
<1>2. saver' = [saver EXCEPT ![w] = r]
  BY <1>1 DEF AskSave
<1>3. body \in Accepted[key] /\ body \in Bodies
  BY DEF AskSave, Bodies
<1> HIDE DEF q
<1>4. r \in Saves /\ r.pc = "lock" /\ r.key = key /\ r.body = body
  BY <1>1, <1>3 DEF Saves
<1>5. Informed(r)
  BY <1>3, <1>4 DEF Informed
<1> HIDE DEF r
<1>6. saver' \in [Writers -> Saves] /\ \A v \in Writers : Informed(saver'[v])
  BY <1>2, <1>4, <1>5, OneSaver
<1> QED
  BY <1>6 DEF TomlInv, TomlTypeOK, AskSave

(* A step that only moves the save on, to where it need know no more.      *)
LEMMA StepToInv ==
    ASSUME TomlInv, NEW w \in Writers, NEW pc, StepTo(w, pc),
           \/ pc = "open" /\ saver[w].pc = "lock"
           \/ pc = "commit" /\ saver[w].pc = "compare"
    PROVE  saver' \in [Writers -> Saves] /\ \A v \in Writers : Informed(saver'[v])
<1> DEFINE q == saver[w]
           r == [q EXCEPT !.pc = pc]
<1>1. q \in Saves /\ Informed(q) /\ saver \in [Writers -> Saves]
  BY DEF TomlInv, TomlTypeOK
<1>2. saver' = [saver EXCEPT ![w] = r]
  BY <1>1 DEF StepTo
<1>3. \/ pc = "open" /\ q.pc = "lock"
      \/ pc = "commit" /\ q.pc = "compare"
  OBVIOUS
<1> HIDE DEF q
<1>4. r \in Saves /\ r.pc = pc /\ r.key = q.key /\ r.body = q.body /\ r.base = q.base
  BY <1>1, <1>3 DEF Saves
<1>5. Informed(r)
  BY <1>1, <1>3, <1>4 DEF Informed, Outcome
<1> HIDE DEF r
<1> QED
  BY <1>2, <1>4, <1>5, OneSaver

(* The lock, and the wait for it that is given up.                         *)
LEMMA LockTomlInv ==
    ASSUME TomlInv, NEW w \in Writers, LockToml(w) \/ GiveUpToml(w)
    PROVE  TomlInv'
<1>1. saver' \in [Writers -> Saves] /\ \A v \in Writers : Informed(saver'[v])
  BY StepToInv DEF LockToml, GiveUpToml
<1> QED
  BY <1>1 DEF TomlInv, TomlTypeOK, LockToml, GiveUpToml

(* A file is read as a document, or there is none and one is to be made.   *)
LEMMA OpenTomlInv ==
    ASSUME TomlInv, NEW w \in Writers, OpenToml(w)
    PROVE  TomlInv'
<1> DEFINE q == saver[w]
           pc == IF toml = NoFile THEN "create" ELSE "patch"
           r == [q EXCEPT !.pc = pc, !.base = toml]
<1>1. q \in Saves /\ Informed(q) /\ q.pc = "open" /\ saver \in [Writers -> Saves]
  BY DEF TomlInv, TomlTypeOK, OpenToml
<1>2. saver' = [saver EXCEPT ![w] = r]
  BY <1>1 DEF OpenToml
<1>3. pc \in {"create", "patch"} /\ (pc = "patch" => toml \in Seq(Assignments))
      /\ toml \in Seq(Assignments) \cup {NoFile}
  BY DEF TomlInv, TomlTypeOK
<1> HIDE DEF q, pc
<1>4. r \in Saves /\ r.pc = pc /\ r.key = q.key /\ r.body = q.body /\ r.base = toml
  BY <1>1, <1>3 DEF Saves
<1>5. Informed(r)
  BY <1>1, <1>3, <1>4 DEF Informed
<1> HIDE DEF r
<1>6. saver' \in [Writers -> Saves] /\ \A v \in Writers : Informed(saver'[v])
  BY <1>2, <1>4, <1>5, OneSaver
<1> QED
  BY <1>6 DEF TomlInv, TomlTypeOK, OpenToml

(* The template, or what another writer put there first, is a document.    *)
LEMMA CreateTomlInv ==
    ASSUME TomlInv, NEW w \in Writers, CreateToml(w)
    PROVE  TomlInv'
<1> DEFINE q == saver[w]
           doc == IF toml = NoFile THEN Template ELSE toml
           r == [q EXCEPT !.pc = "patch", !.base = doc, !.created = toml = NoFile]
<1>1. q \in Saves /\ Informed(q) /\ q.pc = "create" /\ saver \in [Writers -> Saves]
  BY DEF TomlInv, TomlTypeOK, CreateToml
<1>2. saver' = [saver EXCEPT ![w] = r] /\ toml' = doc
  BY <1>1 DEF CreateToml
<1>3. doc \in Seq(Assignments)
  BY TomlAssumption DEF TomlInv, TomlTypeOK
<1> HIDE DEF q, doc
<1>4. r \in Saves /\ r.pc = "patch" /\ r.key = q.key /\ r.body = q.body /\ r.base = doc
  BY <1>1, <1>3 DEF Saves
<1>5. Informed(r)
  BY <1>1, <1>3, <1>4 DEF Informed
<1> HIDE DEF r
<1>6. saver' \in [Writers -> Saves] /\ \A v \in Writers : Informed(saver'[v])
  BY <1>2, <1>4, <1>5, OneSaver
<1>7. toml' \in Seq(Assignments)
  BY <1>2, <1>3
<1> QED
  BY <1>6, <1>7 DEF TomlInv, TomlTypeOK, CreateToml

(* The ways a save ends without a rename, or after one.                    *)
LEMMA LeaveTomlInv ==
    ASSUME TomlInv, NEW w \in Writers, DropSave(w) \/ KillSaver(w) \/ Prune(w)
    PROVE  TomlInv'
<1>1. saver' \in [Writers -> Saves] /\ \A v \in Writers : Informed(saver'[v])
  BY LeaveFacts DEF DropSave, KillSaver, Prune
<1>2. DOMAIN backups' \subseteq DOMAIN backups /\ IsFiniteSet(DOMAIN backups')
  <2>1. IsFiniteSet(DOMAIN backups)
    BY DEF TomlInv, TomlTypeOK
  <2>2. backups' = backups \/ backups' = Without(saver[w].stale)
    BY DEF DropSave, KillSaver, Prune
  <2> QED
    BY <2>1, <2>2, WithoutFacts
<1> QED
  BY <1>1, <1>2 DEF TomlInv, TomlTypeOK, DropSave, KillSaver, Prune

(* A patch goes on only when it is neither refused nor empty.              *)
LEMMA PatchTomlInv ==
    ASSUME TomlInv, NEW w \in Writers, PatchToml(w)
    PROVE  TomlInv'
<1> DEFINE q == saver[w]
           pc == IF q.created THEN "compare" ELSE "backup"
           st == IF q.created THEN {} ELSE Stale
           r == [q EXCEPT !.pc = pc, !.stale = st]
<1>1. q \in Saves /\ Informed(q) /\ q.pc = "patch" /\ saver \in [Writers -> Saves]
  BY DEF TomlInv, TomlTypeOK, PatchToml
<1>2. saver' = [saver EXCEPT ![w] = r]
  BY <1>1 DEF PatchToml
<1>3. pc \in {"compare", "backup"} /\ st \subseteq Names
  BY DEF Stale, TomlInv, TomlTypeOK
<1>4. ~Refused(q.base, q.key) /\ Outcome(q) # q.base
  BY DEF PatchToml
<1> HIDE DEF q, pc, st
<1>5. r \in Saves /\ r.pc = pc /\ r.key = q.key /\ r.body = q.body /\ r.base = q.base
  BY <1>1, <1>3 DEF Saves
<1>6. Informed(r)
  BY <1>1, <1>3, <1>4, <1>5 DEF Informed, Outcome
<1> HIDE DEF r
<1>7. saver' \in [Writers -> Saves] /\ \A v \in Writers : Informed(saver'[v])
  BY <1>2, <1>5, <1>6, OneSaver
<1> QED
  BY <1>7 DEF TomlInv, TomlTypeOK, PatchToml

(* A reservation is a name of this second.                                 *)
LEMMA BackUpInv ==
    ASSUME TomlInv, NEW w \in Writers, BackUp(w)
    PROVE  TomlInv'
<1> DEFINE q == saver[w]
           name == <<seconds, FreeSuffix>>
           r == [q EXCEPT !.pc = "compare", !.reserved = {name}]
<1>1. q \in Saves /\ Informed(q) /\ q.pc = "backup" /\ saver \in [Writers -> Saves]
  BY DEF TomlInv, TomlTypeOK, BackUp
<1>2. saver' = [saver EXCEPT ![w] = r]
  BY <1>1 DEF BackUp
<1>3. name \in Names
  BY FreeSuffixFacts DEF TomlInv, TomlTypeOK, Names
<1>4. DOMAIN backups' = DOMAIN backups \cup {name}
  BY DEF BackUp
<1> HIDE DEF q, name
<1>5. r \in Saves /\ r.pc = "compare" /\ r.key = q.key /\ r.body = q.body /\ r.base = q.base
  BY <1>1, <1>3 DEF Saves
<1>6. Informed(r)
  BY <1>1, <1>5 DEF Informed, Outcome
<1> HIDE DEF r
<1>7. saver' \in [Writers -> Saves] /\ \A v \in Writers : Informed(saver'[v])
  BY <1>2, <1>5, <1>6, OneSaver
<1>8. IsFiniteSet(DOMAIN backups \cup {name})
  BY FS_AddElement DEF TomlInv, TomlTypeOK
<1> QED
  BY <1>3, <1>4, <1>7, <1>8 DEF TomlInv, TomlTypeOK, BackUp

(* The second comparison, with either answer.                              *)
LEMMA CompareAgainInv ==
    ASSUME TomlInv, NEW w \in Writers, CompareAgain(w)
    PROVE  TomlInv'
<1>1. CASE Safe(w)
  <2>1. StepTo(w, "commit") /\ UNCHANGED <<toml, backups, seconds>> /\ saver[w].pc = "compare"
    BY <1>1 DEF CompareAgain
  <2>2. saver' \in [Writers -> Saves] /\ \A v \in Writers : Informed(saver'[v])
    BY <2>1, StepToInv
  <2> QED
    BY <2>1, <2>2 DEF TomlInv, TomlTypeOK
<1>2. CASE ~Safe(w)
  <2>1. Leave(w) /\ backups' = Without(saver[w].reserved) /\ UNCHANGED <<toml, seconds>>
    BY <1>2 DEF CompareAgain
  <2>2. saver' \in [Writers -> Saves] /\ \A v \in Writers : Informed(saver'[v])
    BY <2>1, LeaveFacts
  <2>3. IsFiniteSet(DOMAIN backups)
    BY DEF TomlInv, TomlTypeOK
  <2>4. DOMAIN backups' \subseteq DOMAIN backups /\ IsFiniteSet(DOMAIN backups')
    BY <2>1, <2>3, WithoutFacts
  <2> QED
    BY <2>1, <2>2, <2>4 DEF TomlInv, TomlTypeOK
<1> QED
  BY <1>1, <1>2

(* A rename, as it may end.                                                *)
LEMMA CommitTomlInv ==
    ASSUME TomlInv, NEW w \in Writers, CommitToml(w)
    PROVE  TomlInv'
<1> DEFINE q == saver[w]
           r == [q EXCEPT !.pc = "prune"]
<1>1. PICK end \in CommitOutcomes :
          /\ toml' = IF end = "early" THEN toml ELSE Outcome(saver[w])
          /\ backups' = IF end = "ok" THEN backups ELSE Without(saver[w].reserved)
          /\ saver' = [v \in Writers |->
                          IF v # w THEN (IF end = "early" THEN saver[v] ELSE Raced(saver[v]))
                          ELSE IF end = "ok" THEN r ELSE NoSave]
  BY DEF CommitToml
<1>2. q \in Saves /\ Informed(q) /\ q.pc = "commit" /\ saver \in [Writers -> Saves]
      /\ \A v \in Writers : saver[v] \in Saves /\ Informed(saver[v])
  BY DEF TomlInv, TomlTypeOK, CommitToml
<1>3. Outcome(q) \in Seq(Assignments)
  <2>1. q.base \in Seq(Assignments) /\ q.key \in Keys /\ q.body \in Accepted[q.key]
    BY <1>2 DEF Informed
  <2> HIDE DEF q
  <2> QED
    BY <2>1, PatchedType DEF Outcome
<1>4. toml' \in Seq(Assignments) \cup {NoFile}
  BY <1>1, <1>3 DEF TomlInv, TomlTypeOK
<1>5. DOMAIN backups' \subseteq DOMAIN backups /\ IsFiniteSet(DOMAIN backups')
  <2>1. IsFiniteSet(DOMAIN backups)
    BY DEF TomlInv, TomlTypeOK
  <2>2. backups' = backups \/ backups' = Without(saver[w].reserved)
    BY <1>1
  <2> QED
    BY <2>1, <2>2, WithoutFacts
<1>6. r \in Saves /\ Informed(r)
  <2> HIDE DEF q
  <2>1. r \in Saves /\ r.pc = "prune" /\ r.key = q.key /\ r.body = q.body
    BY <1>2 DEF Saves
  <2> QED
    BY <1>2, <2>1 DEF Informed
<1>7. ASSUME NEW v \in Writers PROVE saver'[v] \in Saves /\ Informed(saver'[v])
  <2>1. saver'[v] \in {saver[v], Raced(saver[v]), r, NoSave}
    BY <1>1
  <2> HIDE DEF r
  <2> QED
    BY <1>2, <1>6, <2>1, RacedFacts, NoSaveFacts
<1>8. saver' \in [Writers -> Saves]
  <2>1. saver' = [v \in Writers |-> saver'[v]]
    BY <1>1
  <2> QED
    BY <1>7, <2>1
<1> QED
  BY <1>4, <1>5, <1>7, <1>8 DEF TomlInv, TomlTypeOK, CommitToml

(* An editor saves documents, and a game that starts saves none.           *)
LEMMA OutsideInv ==
    ASSUME TomlInv, Outside
    PROVE  TomlInv'
<1>1. \A v \in Writers : saver[v] \in Saves /\ Informed(saver[v])
  BY DEF TomlInv, TomlTypeOK
<1>2. \A v \in Writers : saver'[v] = Raced(saver[v])
  BY DEF Outside
<1>3. \A v \in Writers : saver'[v] \in Saves /\ Informed(saver'[v])
  BY <1>1, <1>2, RacedFacts
<1>4. saver' \in [Writers -> Saves]
  <2>1. saver' = [v \in Writers |-> Raced(saver[v])]
    BY DEF Outside
  <2> QED
    BY <1>2, <1>3, <2>1
<1>5. toml' \in Seq(Assignments) \cup {NoFile}
  BY TomlAssumption DEF Outside, TomlInv, TomlTypeOK
<1> QED
  BY <1>3, <1>4, <1>5 DEF TomlInv, TomlTypeOK, Outside

(* Every action keeps what each save knows.                                *)
LEMMA TomlNextInv == TomlInv /\ [TomlNext]_tomlVars => TomlInv'
<1> SUFFICES ASSUME TomlInv, [TomlNext]_tomlVars PROVE TomlInv'
  OBVIOUS
<1>1. ASSUME NEW w \in Writers, NEW key \in Keys, NEW body \in Offered, AskSave(w, key, body)
      PROVE  TomlInv'
  BY <1>1, AskInv
<1>2. ASSUME NEW w \in Writers, LockToml(w) \/ GiveUpToml(w) \/ OpenToml(w) \/ CreateToml(w)
      PROVE  TomlInv'
  BY <1>2, LockTomlInv, OpenTomlInv, CreateTomlInv
<1>3. ASSUME NEW w \in Writers, DropSave(w) \/ KillSaver(w) \/ Prune(w)
      PROVE  TomlInv'
  BY <1>3, LeaveTomlInv
<1>4. ASSUME NEW w \in Writers, PatchToml(w) \/ BackUp(w) \/ CompareAgain(w) \/ CommitToml(w)
      PROVE  TomlInv'
  BY <1>4, PatchTomlInv, BackUpInv, CompareAgainInv, CommitTomlInv
<1>5. CASE Outside
  BY <1>5, OutsideInv
<1>6. CASE Tick
  BY <1>6 DEF Tick, TomlInv, TomlTypeOK, Informed
<1>7. CASE UNCHANGED tomlVars
  BY <1>7 DEF tomlVars, TomlInv, TomlTypeOK, Informed
<1> QED
  BY <1>1, <1>2, <1>3, <1>4, <1>5, <1>6, <1>7 DEF TomlNext

(* What each save knows, of every behaviour.                               *)
LEMMA TomlInvariant == TomlSpec => []TomlInv
  BY TomlInitInv, TomlNextInv, PTL DEF TomlSpec

(* A save that replaces the file is one that commits, and what it puts     *)
(* there is the patch of what it read.                                     *)
LEMMA SavingFacts ==
    ASSUME TomlInv, [TomlNext]_tomlVars, NEW w \in Writers, Saving(w)
    PROVE  /\ toml' = Outcome(saver[w])
           /\ CommitToml(w)
<1>1. saver \in [Writers -> Saves] /\ saver[w].pc = "commit" /\ saver'[w].pc # "commit"
      /\ toml' # toml
  BY DEF TomlInv, TomlTypeOK, Saving
<1>2. CASE Outside
  <2>1. saver'[w] = Raced(saver[w])
    BY <1>2 DEF Outside
  <2> QED
    BY <1>1, <2>1, RacedFacts
<1>3. ASSUME NEW v \in Writers, CommitToml(v), v # w PROVE FALSE
  <2>1. saver'[w] = saver[w] \/ saver'[w] = Raced(saver[w])
    BY <1>3 DEF CommitToml
  <2> QED
    BY <1>1, <2>1, RacedFacts
<1>4. ASSUME NEW v \in Writers, CreateToml(v) PROVE FALSE
  <2>1. saver[v].pc = "create" /\ v # w
    BY <1>1, <1>4 DEF CreateToml
  <2>2. saver'[w] = saver[w]
    BY <1>1, <1>4, <2>1 DEF CreateToml
  <2> QED
    BY <1>1, <2>2
<1>5. CommitToml(w)
  BY <1>1, <1>2, <1>3, <1>4 DEF TomlNext, tomlVars, AskSave, LockToml, GiveUpToml, OpenToml,
     DropSave, PatchToml, BackUp, CompareAgain, Prune, KillSaver, Tick
<1> QED
  BY <1>1, <1>5 DEF CommitToml

(* The runtime, which goes by physical lines, finds in a saved file the    *)
(* value asked for, and of the other keys what it found before, for any    *)
(* documents, keys, writers and ends of a rename (runtime_toml.rs,         *)
(* apply_patch and line_document_mismatch).                                *)
THEOREM SavedIsRead == TomlSpec => SavedValueIsRead
<1> DEFINE Right(w) ==
       Saving(w) /\ ~Disguised(saver[w].base, saver[w].key) =>
          \A key \in Keys :
             RuntimeReads(toml', key) = IF key = saver[w].key THEN {saver[w].body}
                                        ELSE RuntimeReads(saver[w].base, key)
<1>1. ASSUME TomlInv, [TomlNext]_tomlVars, NEW w \in Writers,
             Saving(w), ~Disguised(saver[w].base, saver[w].key), NEW key \in Keys
      PROVE  RuntimeReads(toml', key) = IF key = saver[w].key THEN {saver[w].body}
                                        ELSE RuntimeReads(saver[w].base, key)
  <2>1. toml' = Outcome(saver[w])
    BY <1>1, SavingFacts
  <2>2. saver[w].pc = "commit" /\ Informed(saver[w])
    BY <1>1 DEF Saving, TomlInv
  <2>3. /\ saver[w].base \in Seq(Assignments) /\ saver[w].key \in Keys
        /\ saver[w].body \in Accepted[saver[w].key]
        /\ ~Refused(saver[w].base, saver[w].key) /\ Outcome(saver[w]) # saver[w].base
    BY <2>2 DEF Informed
  <2> DEFINE doc == saver[w].base
             ours == saver[w].key
             body == saver[w].body
  <2>4. /\ toml' = Patched(doc, ours, body) /\ Patched(doc, ours, body) # doc
        /\ ~Disguised(doc, ours)
    BY <1>1, <2>1, <2>3 DEF Outcome
  <2> HIDE DEF doc, ours, body
  <2>5. doc \in Seq(Assignments) /\ ours \in Keys /\ body \in Accepted[ours] /\ ~Refused(doc, ours)
    BY <2>3 DEF doc, ours, body
  <2>6. RuntimeReads(Patched(doc, ours, body), key)
           = IF key = ours THEN {body} ELSE RuntimeReads(doc, key)
    BY <2>4, <2>5, PatchReads
  <2> QED
    BY <2>4, <2>6 DEF doc, ours, body
<1>2. TomlInv /\ [TomlNext]_tomlVars => [\A w \in Writers : Right(w)]_tomlVars
  BY <1>1
<1> QED
  BY <1>2, TomlInvariant, PTL DEF TomlSpec, SavedValueIsRead

(* What a save has put by stays while its own files do.                    *)
LEMMA KeepsBackup ==
    ASSUME NEW s \in Saves, NEW r, r \in {s, Raced(s)}, NEW old, NEW new, NEW doc, NEW next,
           BackedUp(s, old, doc),
           Held(s) \subseteq DOMAIN new, \A b \in Held(s) : new[b] = old[b],
           r.pc = "commit" /\ ~r.raced => next = doc
    PROVE  BackedUp(r, new, next) /\ Held(r) = Held(s)
<1>1. /\ Held(r) = Held(s) /\ r.pc = s.pc /\ r.base = s.base /\ r.created = s.created
      /\ r.reserved = s.reserved
      /\ r.pc = "commit" /\ ~r.raced => ~s.raced
  BY RacedFacts
<1> QED
  BY <1>1 DEF BackedUp

(* A step of one save that leaves the files of the others alone, and the   *)
(* document of those it does not race with.                                *)
LEMMA StepPutsBy ==
    ASSUME TomlInv, PutBy, NEW w \in Writers,
           \A u \in Writers \ {w} :
              /\ saver'[u] \in {saver[u], Raced(saver[u])}
              /\ Held(saver[u]) \subseteq DOMAIN backups'
              /\ \A b \in Held(saver[u]) : backups'[b] = backups[b]
              /\ saver'[u].pc = "commit" /\ ~saver'[u].raced => toml' = toml
              /\ Held(saver'[w]) \cap Held(saver[u]) = {},
           BackedUp(saver'[w], backups', toml')
    PROVE  PutBy'
<1>1. ASSUME NEW u \in Writers \ {w}
      PROVE  BackedUp(saver'[u], backups', toml') /\ Held(saver'[u]) = Held(saver[u])
  <2> DEFINE s == saver[u]
             r == saver'[u]
             new == backups'
             next == toml'
  <2>1. s \in Saves /\ BackedUp(s, backups, toml)
    BY DEF TomlInv, TomlTypeOK, PutBy
  <2>2. /\ r \in {s, Raced(s)}
        /\ Held(s) \subseteq DOMAIN new /\ \A b \in Held(s) : new[b] = backups[b]
        /\ r.pc = "commit" /\ ~r.raced => next = toml
    OBVIOUS
  <2> HIDE DEF s, r, new, next
  <2>3. BackedUp(r, new, next) /\ Held(r) = Held(s)
    BY <2>1, <2>2, KeepsBackup
  <2> QED
    BY <2>3 DEF s, r, new, next
<1>2. ASSUME NEW u \in Writers, NEW v \in Writers, u # v
      PROVE  Held(saver'[u]) \cap Held(saver'[v]) = {}
  <2>1. CASE u # w /\ v # w
    <3>1. Held(saver[u]) \cap Held(saver[v]) = {}
      BY <1>2 DEF PutBy, Apart
    <3> QED
      BY <1>1, <2>1, <3>1
  <2>2. CASE u = w
    BY <1>1, <1>2, <2>2
  <2>3. CASE v = w
    BY <1>1, <1>2, <2>3
  <2> QED
    BY <2>1, <2>2, <2>3
<1>3. \A u \in Writers : BackedUp(saver'[u], backups', toml')
  BY <1>1
<1> QED
  BY <1>2, <1>3 DEF PutBy, Apart

(* Nothing put by to begin with.                                           *)
LEMMA PutByInit == TomlInit => PutBy
<1> SUFFICES ASSUME TomlInit PROVE PutBy
  OBVIOUS
<1>1. \A w \in Writers : saver[w] = NoSave
  BY DEF TomlInit
<1>2. NoSave.pc = "idle" /\ NoSave.reserved = {}
  BY DEF NoSave
<1>3. Held(NoSave) = {}
  BY <1>2 DEF Held
<1> QED
  BY <1>1, <1>2, <1>3 DEF PutBy, Apart, BackedUp

(* The others, in a step that changes neither their records nor the files. *)
LEMMA QuietStep ==
    ASSUME TomlInv, PutBy, NEW w \in Writers, NEW r, saver' = [saver EXCEPT ![w] = r],
           r.reserved = {}, r.pc # "commit", r.pc = "compare" => r.created,
           backups' = backups, toml' = toml
    PROVE  PutBy'
<1>1. saver \in [Writers -> Saves]
  BY DEF TomlInv, TomlTypeOK
<1>2. saver'[w] = r /\ \A u \in Writers \ {w} : saver'[u] = saver[u]
  BY <1>1
<1>3. Held(r) = {}
  BY DEF Held
<1>4. BackedUp(saver'[w], backups', toml')
  BY <1>2, <1>3 DEF BackedUp
<1>5. ASSUME NEW u \in Writers \ {w}
      PROVE  Held(saver[u]) \subseteq DOMAIN backups'
  BY DEF PutBy, BackedUp
<1> QED
  BY <1>2, <1>3, <1>4, <1>5, StepPutsBy

(* The steps before a backup.                                              *)
LEMMA EarlyPutsBy ==
    ASSUME TomlInv, PutBy, NEW w \in Writers,
           \/ \E key \in Keys, body \in Offered : AskSave(w, key, body)
           \/ LockToml(w) \/ GiveUpToml(w) \/ OpenToml(w) \/ PatchToml(w)
    PROVE  PutBy'
<1> DEFINE q == saver[w]
<1>1. q \in Saves /\ saver \in [Writers -> Saves] /\ BackedUp(q, backups, toml)
  BY DEF TomlInv, TomlTypeOK, PutBy
<1>2. q.pc \in {"idle", "lock", "open", "patch"} /\ UNCHANGED <<toml, backups>>
  BY DEF AskSave, LockToml, GiveUpToml, OpenToml, PatchToml
<1>3. q.reserved = {}
  BY <1>1, <1>2 DEF BackedUp
<1>4. ASSUME NEW key \in Keys, NEW body \in Offered, AskSave(w, key, body) PROVE PutBy'
  <2> DEFINE r == [q EXCEPT !.pc = "lock", !.key = key, !.body = body]
  <2>1. saver' = [saver EXCEPT ![w] = r]
    BY <1>1, <1>4 DEF AskSave
  <2> HIDE DEF q
  <2>2. r.reserved = {} /\ r.pc = "lock"
    BY <1>1, <1>3 DEF Saves
  <2> HIDE DEF r
  <2> QED
    BY <1>2, <2>1, <2>2, QuietStep
<1>5. CASE LockToml(w) \/ GiveUpToml(w)
  <2> DEFINE r == [q EXCEPT !.pc = "open"]
  <2>1. saver' = [saver EXCEPT ![w] = r]
    BY <1>1, <1>5 DEF LockToml, GiveUpToml, StepTo
  <2> HIDE DEF q
  <2>2. r.reserved = {} /\ r.pc = "open"
    BY <1>1, <1>3 DEF Saves
  <2> HIDE DEF r
  <2> QED
    BY <1>2, <2>1, <2>2, QuietStep
<1>6. CASE OpenToml(w)
  <2> DEFINE pc == IF toml = NoFile THEN "create" ELSE "patch"
             r == [q EXCEPT !.pc = pc, !.base = toml]
  <2>1. saver' = [saver EXCEPT ![w] = r]
    BY <1>1, <1>6 DEF OpenToml
  <2>2. pc \in {"create", "patch"}
    OBVIOUS
  <2> HIDE DEF q, pc
  <2>3. r.reserved = {} /\ r.pc = pc
    BY <1>1, <1>3 DEF Saves
  <2> HIDE DEF r
  <2> QED
    BY <1>2, <2>1, <2>2, <2>3, QuietStep
<1>7. CASE PatchToml(w)
  <2> DEFINE pc == IF q.created THEN "compare" ELSE "backup"
             st == IF q.created THEN {} ELSE Stale
             r == [q EXCEPT !.pc = pc, !.stale = st]
  <2>1. saver' = [saver EXCEPT ![w] = r]
    BY <1>1, <1>7 DEF PatchToml
  <2>2. pc \in {"compare", "backup"} /\ (pc = "compare" => q.created)
    BY <1>1 DEF Saves
  <2> HIDE DEF q, pc, st
  <2>3. r.reserved = {} /\ r.pc = pc /\ r.created = q.created
    BY <1>1, <1>3 DEF Saves
  <2> HIDE DEF r
  <2> QED
    BY <1>2, <2>1, <2>2, <2>3, QuietStep
<1> QED
  BY <1>4, <1>5, <1>6, <1>7

(* A save that ends before its backup, or whose process dies.              *)
LEMMA DropPutsBy ==
    ASSUME TomlInv, PutBy, NEW w \in Writers, DropSave(w) \/ KillSaver(w)
    PROVE  PutBy'
<1>1. saver' = [saver EXCEPT ![w] = NoSave] /\ UNCHANGED <<toml, backups>>
  BY DEF DropSave, KillSaver, Leave
<1>2. NoSave.reserved = {} /\ NoSave.pc = "idle"
  BY DEF NoSave
<1> QED
  BY <1>1, <1>2, QuietStep

(* The template goes in where no file was, so under no save that read one. *)
LEMMA CreatePutsBy ==
    ASSUME TomlInv, PutBy, NEW w \in Writers, CreateToml(w)
    PROVE  PutBy'
<1> DEFINE q == saver[w]
           doc == IF toml = NoFile THEN Template ELSE toml
           new == toml = NoFile
           r == [q EXCEPT !.pc = "patch", !.base = doc, !.created = new]
<1>1. q \in Saves /\ saver \in [Writers -> Saves] /\ BackedUp(q, backups, toml) /\ q.pc = "create"
  BY DEF TomlInv, TomlTypeOK, PutBy, CreateToml
<1>2. saver' = [saver EXCEPT ![w] = r] /\ backups' = backups
      /\ (toml # NoFile => toml' = toml)
  BY <1>1 DEF CreateToml
<1>3. q.reserved = {}
  BY <1>1 DEF BackedUp
<1> HIDE DEF q, doc, new
<1>4. r.reserved = {} /\ r.pc = "patch"
  BY <1>1, <1>3 DEF Saves
<1> HIDE DEF r
<1>5. saver'[w] = r /\ \A u \in Writers \ {w} : saver'[u] = saver[u]
  BY <1>1, <1>2
<1>6. Held(r) = {}
  BY <1>4 DEF Held
<1>7. BackedUp(saver'[w], backups', toml')
  BY <1>4, <1>5, <1>6 DEF BackedUp
<1>8. ASSUME NEW u \in Writers \ {w}
      PROVE  /\ Held(saver[u]) \subseteq DOMAIN backups'
             /\ saver'[u].pc = "commit" /\ ~saver'[u].raced => toml' = toml
  <2>1. BackedUp(saver[u], backups, toml) /\ Informed(saver[u])
    BY DEF PutBy, TomlInv
  <2>2. saver[u].pc = "commit" /\ ~saver[u].raced => toml # NoFile
    BY <2>1, NoFileIsNone DEF BackedUp, Informed
  <2> QED
    BY <1>2, <1>5, <2>1, <2>2 DEF BackedUp
<1> QED
  BY <1>2, <1>5, <1>6, <1>7, <1>8, StepPutsBy

(* A backup has a name no other save has, and what the save has read.      *)
LEMMA BackUpPutsBy ==
    ASSUME TomlInv, PutBy, NEW w \in Writers, BackUp(w)
    PROVE  PutBy'
<1> DEFINE q == saver[w]
           name == <<seconds, FreeSuffix>>
           r == [q EXCEPT !.pc = "compare", !.reserved = {name}]
<1>1. q \in Saves /\ saver \in [Writers -> Saves] /\ q.pc = "backup"
  BY DEF TomlInv, TomlTypeOK, BackUp
<1>2. saver' = [saver EXCEPT ![w] = r] /\ toml' = toml
  BY <1>1 DEF BackUp
<1>3. name \notin DOMAIN backups
  BY FreeSuffixFacts DEF TomlInv, TomlTypeOK
<1>4. backups' = [b \in DOMAIN backups \cup {name} |-> IF b = name THEN q.base ELSE backups[b]]
  BY DEF BackUp
<1> HIDE DEF q, name
<1>5. r.reserved = {name} /\ r.pc = "compare" /\ r.base = q.base
  BY <1>1 DEF Saves
<1> HIDE DEF r
<1>6. saver'[w] = r /\ \A u \in Writers \ {w} : saver'[u] = saver[u]
  BY <1>1, <1>2
<1>7. Held(r) = {name}
  BY <1>5 DEF Held
<1>8. DOMAIN backups' = DOMAIN backups \cup {name} /\ backups'[name] = q.base
      /\ \A b \in DOMAIN backups : backups'[b] = backups[b]
  BY <1>3, <1>4
<1>9. BackedUp(saver'[w], backups', toml')
  BY <1>5, <1>6, <1>7, <1>8 DEF BackedUp
<1>10. \A u \in Writers \ {w} : Held(saver[u]) \subseteq DOMAIN backups
  BY DEF PutBy, BackedUp
<1> QED
  BY <1>2, <1>3, <1>6, <1>7, <1>8, <1>9, <1>10, StepPutsBy

(* A save that ends and takes some files with it, of no other save.        *)
LEMMA LeavePutsBy ==
    ASSUME TomlInv, PutBy, NEW w \in Writers, Leave(w), NEW names,
           backups' = Without(names), toml' = toml,
           \A u \in Writers \ {w} : names \cap Held(saver[u]) = {}
    PROVE  PutBy'
<1>1. saver \in [Writers -> Saves] /\ IsFiniteSet(DOMAIN backups)
  BY DEF TomlInv, TomlTypeOK
<1>2. saver'[w] = NoSave /\ \A u \in Writers \ {w} : saver'[u] = saver[u]
  BY <1>1 DEF Leave
<1>3. NoSave.reserved = {} /\ NoSave.pc = "idle"
  BY DEF NoSave
<1>4. Held(NoSave) = {}
  BY <1>3 DEF Held
<1>5. BackedUp(saver'[w], backups', toml')
  BY <1>2, <1>3, <1>4 DEF BackedUp
<1>6. /\ DOMAIN backups' = DOMAIN backups \ names
      /\ \A b \in DOMAIN backups \ names : backups'[b] = backups[b]
  BY <1>1, WithoutFacts
<1>7. \A u \in Writers \ {w} : Held(saver[u]) \subseteq DOMAIN backups \ names
  BY DEF PutBy, BackedUp
<1> QED
  BY <1>2, <1>4, <1>5, <1>6, <1>7, StepPutsBy

(* A second comparison that fails takes the save's own reservation.        *)
LEMMA ComparePutsBy ==
    ASSUME TomlInv, PutBy, NEW w \in Writers, CompareAgain(w)
    PROVE  PutBy'
<1> DEFINE q == saver[w]
           r == [q EXCEPT !.pc = "commit"]
<1>1. /\ q \in Saves /\ saver \in [Writers -> Saves] /\ q.pc = "compare"
      /\ BackedUp(q, backups, toml)
  BY DEF TomlInv, TomlTypeOK, PutBy, CompareAgain
<1>2. CASE Safe(w)
  <2>1. saver' = [saver EXCEPT ![w] = r] /\ UNCHANGED <<toml, backups>> /\ toml = q.base
    BY <1>1, <1>2 DEF CompareAgain, StepTo, Safe
  <2> HIDE DEF q
  <2>2. r.reserved = q.reserved /\ r.pc = "commit" /\ r.base = q.base /\ r.created = q.created
    BY <1>1 DEF Saves
  <2> HIDE DEF r
  <2>3. saver'[w] = r /\ \A u \in Writers \ {w} : saver'[u] = saver[u]
    BY <1>1, <2>1
  <2>4. Held(r) = Held(q)
    BY <1>1, <2>2 DEF Held
  <2>5. BackedUp(saver'[w], backups', toml')
    BY <1>1, <2>1, <2>2, <2>3, <2>4 DEF BackedUp
  <2>6. \A u \in Writers \ {w} : Held(saver[u]) \subseteq DOMAIN backups
                                 /\ Held(q) \cap Held(saver[u]) = {}
    BY DEF PutBy, BackedUp, Apart, q
  <2> QED
    BY <2>1, <2>3, <2>4, <2>5, <2>6, StepPutsBy
<1>3. CASE ~Safe(w)
  <2>1. Leave(w) /\ backups' = Without(q.reserved) /\ toml' = toml
    BY <1>3 DEF CompareAgain
  <2>2. q.reserved = Held(q)
    BY <1>1 DEF Held
  <2>3. \A u \in Writers \ {w} : q.reserved \cap Held(saver[u]) = {}
    BY <2>2 DEF PutBy, Apart
  <2> QED
    BY <2>1, <2>3, LeavePutsBy
<1> QED
  BY <1>2, <1>3

(* A commit: whoever has compared races with it.                           *)
LEMMA CommitPutsBy ==
    ASSUME TomlInv, PutBy, NEW w \in Writers, CommitToml(w)
    PROVE  PutBy'
<1> DEFINE q == saver[w]
           r == [q EXCEPT !.pc = "prune"]
<1>1. PICK end \in CommitOutcomes :
          /\ toml' = IF end = "early" THEN toml ELSE Outcome(saver[w])
          /\ backups' = IF end = "ok" THEN backups ELSE Without(saver[w].reserved)
          /\ saver' = [v \in Writers |->
                          IF v # w THEN (IF end = "early" THEN saver[v] ELSE Raced(saver[v]))
                          ELSE IF end = "ok" THEN r ELSE NoSave]
  BY DEF CommitToml
<1>2. /\ q \in Saves /\ saver \in [Writers -> Saves] /\ q.pc = "commit"
      /\ IsFiniteSet(DOMAIN backups)
  BY DEF TomlInv, TomlTypeOK, CommitToml
<1>3. Held(r) = {} /\ r.pc = "prune"
  <2> HIDE DEF q
  <2>1. r.pc = "prune"
    BY <1>2 DEF Saves
  <2> QED
    BY <2>1 DEF Held
<1>4. Held(NoSave) = {} /\ NoSave.pc = "idle" /\ NoSave.reserved = {}
  BY DEF NoSave, Held
<1>5. saver'[w] \in {r, NoSave}
  BY <1>1
<1>6. BackedUp(saver'[w], backups', toml') /\ Held(saver'[w]) = {}
  <2> HIDE DEF r
  <2> QED
    BY <1>3, <1>4, <1>5 DEF BackedUp
<1>7. ASSUME NEW u \in Writers \ {w}
      PROVE  /\ saver'[u] \in {saver[u], Raced(saver[u])}
             /\ Held(saver[u]) \subseteq DOMAIN backups'
             /\ \A b \in Held(saver[u]) : backups'[b] = backups[b]
             /\ saver'[u].pc = "commit" /\ ~saver'[u].raced => toml' = toml
  <2>1. saver'[u] = IF end = "early" THEN saver[u] ELSE Raced(saver[u])
    BY <1>1
  <2>2. saver[u] \in Saves
    BY <1>2
  <2>3. end # "early" /\ saver'[u].pc = "commit" => saver'[u].raced
    BY <2>1, <2>2, RacedFacts
  <2>4. end = "early" => toml' = toml
    BY <1>1
  <2>5. Held(saver[u]) \subseteq DOMAIN backups /\ saver[w].reserved \cap Held(saver[u]) = {}
    <3>1. Held(saver[w]) = saver[w].reserved
      BY <1>2 DEF Held
    <3>2. Held(saver[w]) \cap Held(saver[u]) = {}
      BY DEF PutBy, Apart
    <3> QED
      BY <3>1, <3>2 DEF PutBy, BackedUp
  <2>6. backups' = backups \/ backups' = Without(saver[w].reserved)
    BY <1>1
  <2>7. /\ DOMAIN Without(saver[w].reserved) = DOMAIN backups \ saver[w].reserved
        /\ \A b \in DOMAIN backups \ saver[w].reserved :
              Without(saver[w].reserved)[b] = backups[b]
    BY <1>2, WithoutFacts
  <2>8. /\ Held(saver[u]) \subseteq DOMAIN backups'
        /\ \A b \in Held(saver[u]) : backups'[b] = backups[b]
    BY <2>5, <2>6, <2>7
  <2> QED
    BY <2>1, <2>3, <2>4, <2>8
<1> QED
  BY <1>6, <1>7, StepPutsBy

(* A prune, when it spares the saves under way.                            *)
LEMMA PrunePutsBy ==
    ASSUME TomlInv, PutBy, Spared, NEW w \in Writers, Prune(w)
    PROVE  PutBy'
<1>1. Leave(w) /\ backups' = Without(saver[w].stale) /\ toml' = toml
  BY DEF Prune
<1>2. \A u \in Writers \ {w} : saver[w].stale \cap Held(saver[u]) = {}
  BY DEF Prune, Spared
<1> QED
  BY <1>1, <1>2, LeavePutsBy

(* A save from outside races with every save that has compared.            *)
LEMMA OutsidePutsBy ==
    ASSUME TomlInv, PutBy, Outside
    PROVE  PutBy'
<1>1. ASSUME NEW u \in Writers
      PROVE  BackedUp(saver'[u], backups', toml') /\ Held(saver'[u]) = Held(saver[u])
  <2>1. saver[u] \in Saves /\ BackedUp(saver[u], backups, toml)
    BY DEF TomlInv, TomlTypeOK, PutBy
  <2>2. saver'[u] = Raced(saver[u]) /\ backups' = backups
    BY DEF Outside
  <2>3. saver'[u].pc = "commit" => saver'[u].raced
    BY <2>1, <2>2, RacedFacts
  <2>4. Held(saver[u]) \subseteq DOMAIN backups'
    BY <2>1, <2>2 DEF BackedUp
  <2> QED
    BY <2>1, <2>2, <2>3, <2>4, KeepsBackup
<1>2. \A u, v \in Writers : u # v => Held(saver'[u]) \cap Held(saver'[v]) = {}
  BY <1>1 DEF PutBy, Apart
<1> QED
  BY <1>1, <1>2 DEF PutBy, Apart

(* Every action keeps what is put by, when the prunes spare it.            *)
LEMMA PutByNext == TomlInv /\ PutBy /\ Spared /\ [TomlNext]_tomlVars => PutBy'
<1> SUFFICES ASSUME TomlInv, PutBy, Spared, [TomlNext]_tomlVars PROVE PutBy'
  OBVIOUS
<1>1. ASSUME NEW w \in Writers, NEW key \in Keys, NEW body \in Offered, AskSave(w, key, body)
      PROVE  PutBy'
  BY <1>1, EarlyPutsBy
<1>2. ASSUME NEW w \in Writers,
             LockToml(w) \/ GiveUpToml(w) \/ OpenToml(w) \/ PatchToml(w) \/ CreateToml(w)
      PROVE  PutBy'
  BY <1>2, EarlyPutsBy, CreatePutsBy
<1>3. ASSUME NEW w \in Writers, DropSave(w) \/ KillSaver(w) \/ Prune(w)
      PROVE  PutBy'
  BY <1>3, DropPutsBy, PrunePutsBy
<1>4. ASSUME NEW w \in Writers, BackUp(w) \/ CompareAgain(w) \/ CommitToml(w)
      PROVE  PutBy'
  BY <1>4, BackUpPutsBy, ComparePutsBy, CommitPutsBy
<1>5. CASE Outside
  BY <1>5, OutsidePutsBy
<1>6. CASE Tick \/ UNCHANGED tomlVars
  BY <1>6 DEF Tick, tomlVars, PutBy, Apart, BackedUp, Held
<1> QED
  BY <1>1, <1>2, <1>3, <1>4, <1>5, <1>6 DEF TomlNext

(* What a save replaces is in the backups directory, when a rename is      *)
(* answered truthfully (CommitOutcomes) and no prune takes the backup of   *)
(* a save under way: a writer that gave up waiting for the lock may prune  *)
(* that of one that slept while BACKUP_KEEP newer ones were made.          *)
THEOREM ReplacedIsKept ==
    ASSUME CommitOutcomes \subseteq {"ok", "early"}
    PROVE  TomlSpec /\ []Spared => ReplacedIsBackedUp
<1> DEFINE Kept(w) ==
       Saving(w) => \/ saver[w].created \/ saver[w].raced
                    \/ \E b \in DOMAIN backups' : backups'[b] = toml
<1>1. ASSUME TomlInv, PutBy, [TomlNext]_tomlVars, NEW w \in Writers PROVE Kept(w)
  <2>1. SUFFICES ASSUME Saving(w), ~saver[w].created, ~saver[w].raced
                 PROVE  \E b \in DOMAIN backups' : backups'[b] = toml
    OBVIOUS
  <2>2. CommitToml(w) /\ saver[w].pc = "commit" /\ toml' # toml
    BY <1>1, <2>1, SavingFacts DEF Saving
  <2>3. backups' = backups
    BY <2>2 DEF CommitToml
  <2>4. BackedUp(saver[w], backups, toml)
    BY <1>1 DEF PutBy
  <2>5. PICK b \in Held(saver[w]) : backups[b] = saver[w].base
    BY <2>1, <2>2, <2>4 DEF BackedUp
  <2>6. toml = saver[w].base /\ b \in DOMAIN backups
    BY <2>1, <2>2, <2>4 DEF BackedUp
  <2> QED
    BY <2>3, <2>5, <2>6
<1>2. TomlInv /\ PutBy /\ [TomlNext]_tomlVars => [\A w \in Writers : Kept(w)]_tomlVars
  BY <1>1
<1>3. TomlSpec /\ []Spared => []PutBy
  BY PutByInit, PutByNext, TomlInvariant, PTL DEF TomlSpec
<1> QED
  BY <1>2, <1>3, TomlInvariant, PTL DEF TomlSpec, ReplacedIsBackedUp

(* Writers that wait for the lock as long as it takes.                     *)
PatientSpec == TomlInit /\ [][TomlNext /\ \A w \in Writers : ~GiveUpToml(w)]_tomlVars

(* Then the lock is that of whoever is past the wait for it.               *)
LEMMA LockOwned == PatientSpec => []TomlLockInv
<1>1. TomlInit => TomlLockInv
  <2>1. NoSave.pc = "idle"
    BY DEF NoSave
  <2>2. TomlInit => \A w \in Writers : saver[w] = NoSave
    BY DEF TomlInit
  <2> QED
    BY <2>1, <2>2 DEF TomlLockInv
<1>2. ASSUME TomlInv, TomlLockInv, [TomlNext /\ \A w \in Writers : ~GiveUpToml(w)]_tomlVars
      PROVE  TomlLockInv'
  <2>1. saver \in [Writers -> Saves] /\ \A v \in Writers : saver[v] \in Saves
    BY <1>2 DEF TomlInv, TomlTypeOK
  <2>2. ASSUME NEW w \in Writers, Leave(w) PROVE TomlLockInv'
    BY <1>2, <2>1, <2>2 DEF Leave, NoSave, TomlLockInv
  <2>3. ASSUME NEW w \in Writers, saver[w].pc \notin {"idle", "lock"}, locked' = locked,
               \A u \in Writers \ {w} : saver'[u] = saver[u]
        PROVE  TomlLockInv'
    BY <1>2, <2>3 DEF TomlLockInv
  <2>4. ASSUME NEW w \in Writers, NEW key \in Keys, NEW body \in Offered, AskSave(w, key, body)
        PROVE  TomlLockInv'
    BY <1>2, <2>1, <2>4 DEF AskSave, TomlLockInv, Saves
  <2>5. ASSUME NEW w \in Writers, LockToml(w) PROVE TomlLockInv'
    BY <1>2, <2>1, <2>5, TomlAssumption DEF LockToml, StepTo, TomlLockInv, Saves
  <2>6. ASSUME NEW w \in Writers, OpenToml(w) \/ CreateToml(w) \/ PatchToml(w) \/ BackUp(w)
        PROVE  TomlLockInv'
    <3>1. saver[w].pc \notin {"idle", "lock"} /\ locked' = locked
      BY <2>6 DEF OpenToml, CreateToml, PatchToml, BackUp
    <3>2. \A u \in Writers \ {w} : saver'[u] = saver[u]
      BY <2>1, <2>6 DEF OpenToml, CreateToml, PatchToml, BackUp
    <3> QED
      BY <2>3, <3>1, <3>2
  <2>7. ASSUME NEW w \in Writers, CompareAgain(w) PROVE TomlLockInv'
    <3>1. CASE Safe(w)
      BY <2>1, <2>3, <2>7, <3>1 DEF CompareAgain, StepTo
    <3>2. CASE ~Safe(w)
      BY <2>2, <2>7, <3>2 DEF CompareAgain
    <3> QED
      BY <3>1, <3>2
  <2>8. ASSUME NEW w \in Writers, CommitToml(w) PROVE TomlLockInv'
    <3>1. locked = w /\ saver[w].pc = "commit"
      BY <1>2, <2>8 DEF CommitToml, TomlLockInv
    <3>2. ASSUME NEW u \in Writers \ {w} PROVE saver'[u].pc \in {"idle", "lock"}
      <4>1. saver[u].pc \in {"idle", "lock"}
        BY <1>2, <3>1 DEF TomlLockInv
      <4>2. saver'[u] \in {saver[u], Raced(saver[u])}
        BY <2>8 DEF CommitToml
      <4> QED
        BY <2>1, <4>1, <4>2, RacedFacts
    <3>3. locked' = w \/ saver'[w] = NoSave
      BY <2>8, <3>1 DEF CommitToml
    <3>4. NoSave.pc = "idle"
      BY DEF NoSave
    <3> QED
      BY <3>2, <3>3, <3>4 DEF TomlLockInv
  <2>9. ASSUME NEW w \in Writers, DropSave(w) \/ KillSaver(w) \/ Prune(w) PROVE TomlLockInv'
    BY <2>2, <2>9 DEF DropSave, KillSaver, Prune
  <2>10. CASE Outside
    <3>1. \A u \in Writers : saver'[u] = Raced(saver[u]) /\ locked' = locked
      BY <2>10 DEF Outside
    <3> QED
      BY <1>2, <2>1, <3>1, RacedFacts DEF TomlLockInv
  <2>11. CASE Tick \/ UNCHANGED tomlVars
    BY <1>2, <2>11 DEF Tick, tomlVars, TomlLockInv
  <2> QED
    BY <1>2, <2>4, <2>5, <2>6, <2>7, <2>8, <2>9, <2>10, <2>11 DEF TomlNext
<1>3. PatientSpec => TomlSpec
  BY PTL DEF PatientSpec, TomlSpec
<1> QED
  BY <1>1, <1>2, <1>3, TomlInvariant, PTL DEF PatientSpec

(* Under the lock, which every writer has from its look to its prune, no   *)
(* other save is under way when one prunes, and nothing replaced is lost.  *)
THEOREM ReplacedIsKeptUnderTheLock ==
    ASSUME CommitOutcomes \subseteq {"ok", "early"}
    PROVE  PatientSpec => ReplacedIsBackedUp
<1>1. TomlLockInv => Spared
  <2> SUFFICES ASSUME TomlLockInv, NEW v \in Writers, NEW w \in Writers, saver[v].pc = "prune"
               PROVE  saver[v].stale \cap Held(saver[w]) = {}
    BY DEF Spared
  <2>1. saver[w].pc \in {"compare", "commit"} => v = w
    BY DEF TomlLockInv
  <2> QED
    BY <2>1 DEF Held
<1>2. PatientSpec => TomlSpec
  BY PTL DEF PatientSpec, TomlSpec
<1> QED
  BY <1>1, <1>2, LockOwned, ReplacedIsKept, PTL

-----------------------------------------------------------------------------
(* The last real Steam dll, for any number of launches, reverts, updates   *)
(* of the game and changes of the payload.  The stage writes over the live *)
(* dll only when a backup is there, and makes a backup only where there is *)
(* none (WorkInv).                                                         *)
DllTypeOK ==
    /\ api \in Dlls \cup {Nothing}
    /\ backup \in Dlls \cup {Nothing, Folder}
    /\ marker \in BOOLEAN
    /\ payload \in {Pin, Other}
    /\ work \in {"idle", "mint", "record", "install"}

WorkInv ==
    /\ work # "idle" => api \in Dlls
    /\ work = "mint" => backup = Nothing
    /\ work \in {"record", "install"} => backup \in Dlls

DllInv == DllTypeOK /\ WorkInv

USE DEF Pin, Other, Steam, Dlls, Nothing, Folder

(* No stage at work to begin with.                                         *)
LEMMA DllInitInv == DllInit => DllInv
  BY DEF DllInit, DllInv, DllTypeOK, WorkInv

(* Every action keeps the inductive invariant.                             *)
LEMMA DllNextInv == DllInv /\ [DllNext]_dllVars => DllInv'
<1> SUFFICES ASSUME DllInv, [DllNext]_dllVars PROVE DllInv'
  OBVIOUS
<1> USE DEF DllInv, DllTypeOK, WorkInv
<1>1. CASE BeginGoldberg
  BY <1>1 DEF BeginGoldberg
<1>2. CASE Mint \/ Record
  BY <1>2 DEF Mint, Record
<1>3. CASE Install \/ LeaveGoldberg
  BY <1>3 DEF Install, LeaveGoldberg
<1>4. CASE Revert
  BY <1>4 DEF Revert
<1>5. CASE GameUpdate \/ PayloadChange
  BY <1>5 DEF GameUpdate, PayloadChange
<1>6. CASE UNCHANGED dllVars
  BY <1>6 DEF dllVars
<1> QED
  BY <1>1, <1>2, <1>3, <1>4, <1>5, <1>6 DEF DllNext

(* The inductive invariant holds of every behaviour.                       *)
LEMMA DllInvariant == DllSpec => []DllInv
  BY DllInitInv, DllNextInv, PTL DEF DllSpec

(* Neither the stage of a launch nor a revert takes the last real Steam    *)
(* dll, cut short or not, unless the backup is a Goldberg (actions.rs      *)
(* goldberg_stage, goldberg.rs).                                           *)
THEOREM SteamDllIsKept == DllSpec => SteamDllSurvives
<1> DEFINE Kept == (Steam \in {api, backup} /\ backup \notin {Pin, Other}) =>
                      Steam \in {api', backup'}
<1>1. ASSUME DllInv, DllNext PROVE Kept
  <2>1. CASE Install
    <3>1. backup \in Dlls /\ backup' = backup
      BY <1>1, <2>1 DEF Install, DllInv, WorkInv
    <3> QED
      BY <3>1
  <2>2. CASE Mint
    BY <1>1, <2>2 DEF Mint, DllInv, WorkInv
  <2>3. CASE Revert
    BY <2>3 DEF Revert
  <2>4. CASE GameUpdate
    BY <2>4 DEF GameUpdate
  <2>5. CASE BeginGoldberg \/ Record \/ LeaveGoldberg \/ PayloadChange
    BY <2>5 DEF BeginGoldberg, Record, LeaveGoldberg, PayloadChange
  <2> QED
    BY <1>1, <2>1, <2>2, <2>3, <2>4, <2>5 DEF DllNext
<1>2. DllInv /\ [DllNext]_dllVars => [Kept]_dllVars
  BY <1>1
<1> HIDE DEF Kept
<1>3. DllSpec => [][Kept]_dllVars
  BY <1>2, DllInvariant, PTL DEF DllSpec
<1> QED
  BY <1>3 DEF SteamDllSurvives, Kept

HIDE DEF Pin, Other, Steam, Dlls, Nothing, Folder

-----------------------------------------------------------------------------
(* The staging file of an elevated copy, for any number of checkouts,      *)
(* installs and hours.  An install drops the staging file of its own       *)
(* number and no other.  The commands that may still copy are those of     *)
(* earlier numbers (ElevatedInv) and, while it waits without an answer,    *)
(* its own: so it never drops a file that a command may copy (AnsweredInv). *)
StagingFile == [file : Nat, of : Checkouts \cup {NoManifest}, old : BOOLEAN]
Command == [file : Nat, copying : BOOLEAN]

ManifestTypeOK ==
    /\ staging \in SUBSET StagingFile
    /\ elevated \in SUBSET Command
    /\ installer \in [pc : {"idle", "stage", "ask", "wait"},
                      checkout : Checkouts \cup {NoManifest}, file : Nat]
    /\ outcome \in {"none", "failed", "done"}
    /\ installs \in Nat

(* One command of each number, none of a number not given out; the install *)
(* at work has the last one.                                               *)
ElevatedInv ==
    /\ \A e \in elevated : e.file <= installs
    /\ \A e, d \in elevated : e.file = d.file => e = d
    /\ installer.pc # "idle" => installer.file = installs

AnsweredInv ==
    /\ outcome # "none" => installer.pc = "wait"
    /\ installer.pc \in {"stage", "ask"} \/ outcome # "none" =>
          \A e \in elevated : e.file # installer.file

ManifestInv == ManifestTypeOK /\ ElevatedInv /\ AnsweredInv

(* No install, no staging file and no command to begin with.               *)
LEMMA ManifestInitInv == ManifestInit => ManifestInv
  BY DEF ManifestInit, ManifestInv, ManifestTypeOK, ElevatedInv, AnsweredInv, NoInstall

(* Every action keeps the inductive invariant.                             *)
LEMMA ManifestNextInv == ManifestInv /\ [ManifestNext]_manifestVars => ManifestInv'
<1> SUFFICES ASSUME ManifestInv, [ManifestNext]_manifestVars PROVE ManifestInv'
  OBVIOUS
<1> USE DEF ManifestInv, ManifestTypeOK, ElevatedInv, AnsweredInv
<1>1. ASSUME NEW c \in Checkouts, BeginInstall(c) PROVE ManifestInv'
  <2>1. /\ installer.pc = "idle" /\ installs' = installs + 1
        /\ installer' = [pc |-> "stage", checkout |-> c, file |-> installs + 1]
        /\ UNCHANGED <<staging, elevated, outcome>>
    BY <1>1 DEF BeginInstall
  <2>2. ManifestTypeOK'
    BY <2>1
  <2>3. outcome = "none" /\ \A e \in elevated : e.file \in Nat /\ e.file < installs + 1
    BY <2>1 DEF Command
  <2>4. ElevatedInv' /\ AnsweredInv'
    BY <2>1, <2>3
  <2> QED
    BY <2>2, <2>4
<1>2. CASE SweepAndStage
  <2>1. installer' = [pc |-> "ask", checkout |-> installer.checkout, file |-> installer.file]
    BY <1>2 DEF SweepAndStage, InstallerTo
  <2>2. [file |-> installer.file, of |-> installer.checkout, old |-> FALSE] \in StagingFile
    BY DEF StagingFile
  <2>3. staging' \in SUBSET StagingFile
    BY <1>2, <2>2 DEF SweepAndStage
  <2>4. /\ elevated' = elevated /\ outcome' = outcome /\ installs' = installs
        /\ installer.pc = "stage"
    BY <1>2 DEF SweepAndStage
  <2>5. ManifestTypeOK'
    BY <2>1, <2>3, <2>4
  <2>6. ElevatedInv' /\ AnsweredInv'
    BY <2>1, <2>4
  <2> QED
    BY <2>5, <2>6
<1>3. CASE Elevate
  <2>1. installer' = [pc |-> "wait", checkout |-> installer.checkout, file |-> installer.file]
    BY <1>3 DEF Elevate, InstallerTo
  <2>2. PICK d \in Command : d.file = installer.file /\ elevated' = elevated \cup {d}
    BY <1>3 DEF Elevate, Command
  <2>3. \A e \in elevated : e.file # d.file
    BY <1>3, <2>2 DEF Elevate
  <2>4. outcome' = outcome /\ staging' = staging /\ installs' = installs /\ installer.pc = "ask"
    BY <1>3 DEF Elevate
  <2>5. ManifestTypeOK'
    BY <2>1, <2>2, <2>4
  <2>6. ElevatedInv'
    BY <2>1, <2>2, <2>3, <2>4
  <2>7. AnsweredInv'
    BY <2>1, <2>4, <1>3 DEF Elevate
  <2> QED
    BY <2>5, <2>6, <2>7
<1>4. CASE Verify
  BY <1>4 DEF Verify, Unstaged, EndInstall, NoInstall
<1>5. CASE CancelInstall
  BY <1>5 DEF CancelInstall, Unstaged, EndInstall, NoInstall
<1>6. CASE InstallerDies
  BY <1>6 DEF InstallerDies, EndInstall, NoInstall
<1>7. CASE AnHour
  <2>1. \A f \in StagingFile : [f EXCEPT !.old = TRUE] \in StagingFile
    BY DEF StagingFile
  <2>2. staging' \in SUBSET StagingFile
    BY <1>7, <2>1 DEF AnHour
  <2> QED
    BY <1>7, <2>2 DEF AnHour
<1>8. ASSUME NEW e \in elevated, ElevatedFails(e) PROVE ManifestInv'
  BY <1>8 DEF ElevatedFails, Ending
<1>9. ASSUME NEW e \in elevated, BeginCopy(e) PROVE ManifestInv'
  <2>1. [e EXCEPT !.copying = TRUE] \in Command /\ [e EXCEPT !.copying = TRUE].file = e.file
    BY DEF Command
  <2> DEFINE d == [e EXCEPT !.copying = TRUE]
  <2> HIDE DEF d
  <2>2. d \in Command /\ d.file = e.file /\ elevated' = (elevated \ {e}) \cup {d}
    BY <1>9, <2>1 DEF BeginCopy, d
  <2> QED
    BY <1>9, <2>2 DEF BeginCopy
<1>10. ASSUME NEW e \in elevated, EndCopy(e) PROVE ManifestInv'
  BY <1>10 DEF EndCopy, Ending
<1>11. CASE UNCHANGED manifestVars
  BY <1>11 DEF manifestVars
<1> QED
  BY <1>1, <1>2, <1>3, <1>4, <1>5, <1>6, <1>7, <1>8, <1>9, <1>10, <1>11 DEF ManifestNext

(* The inductive invariant holds of every behaviour.                       *)
LEMMA ManifestInvariant == ManifestSpec => []ManifestInv
  BY ManifestInitInv, ManifestNextInv, PTL DEF ManifestSpec

(* Whatever is cancelled, killed or begun again, Sabrage removes no        *)
(* staging file that a running elevated command may copy, short of one     *)
(* that has stood for an hour (privilege.rs).                              *)
THEOREM StagingIsKept == ManifestSpec => StagingOutlivesItsCopy
<1> DEFINE Kept == \A f \in staging : (\E e \in elevated : e.file = f.file) /\ ~f.old =>
                      \E g \in staging' : g.file = f.file
<1>1. ASSUME ManifestInv, [ManifestNext]_manifestVars,
             NEW f \in staging, NEW e \in elevated, e.file = f.file, ~f.old
      PROVE  \E g \in staging' : g.file = f.file
  <2>1. CASE SweepAndStage
    BY <1>1, <2>1 DEF SweepAndStage
  <2>2. CASE Verify \/ CancelInstall
    <3>1. CASE f.file = installer.file
      BY <1>1, <2>2, <3>1 DEF Verify, CancelInstall, ManifestInv, AnsweredInv
    <3>2. CASE f.file # installer.file
      BY <1>1, <2>2, <3>2 DEF Verify, CancelInstall, Unstaged
    <3> QED
      BY <3>1, <3>2
  <2>3. CASE AnHour
    <3>1. [f EXCEPT !.old = TRUE] \in staging' /\ [f EXCEPT !.old = TRUE].file = f.file
      BY <1>1, <2>3 DEF AnHour, ManifestInv, ManifestTypeOK, StagingFile
    <3> QED
      BY <3>1
  <2>4. CASE UNCHANGED staging
    BY <1>1, <2>4
  <2> QED
    BY <1>1, <2>1, <2>2, <2>3, <2>4
    DEF ManifestNext, manifestVars, BeginInstall, Elevate, InstallerDies, ElevatedFails,
        BeginCopy, EndCopy
<1>2. ManifestInv /\ [ManifestNext]_manifestVars => [Kept]_manifestVars
  BY <1>1
<1> HIDE DEF Kept
<1>3. ManifestSpec => [][Kept]_manifestVars
  BY <1>2, ManifestInvariant, PTL DEF ManifestSpec
<1> QED
  BY <1>3 DEF StagingOutlivesItsCopy, Kept

-----------------------------------------------------------------------------
(* The two stores for any number of commands, games and values.            *)
(*                                                                         *)
(* The library: a transaction past its lock holds LIBRARY_LOCK (LockInv),  *)
(* so what it loaded is still the file when it saves (LoadedInv).          *)
(*                                                                         *)
(* The settings: what a snapshot has loaded and what the cache keeps are   *)
(* the file, unless a save stands between its write and its invalidate     *)
(* (FreshInv).  The invalidate waits for the snapshot, which is what makes *)
(* it the last word on what was loaded before the write.                   *)
Value == Forms \cup Sessions \cup {"none", "gone"}
Library == [Games -> [form : Value, session : Value]]

Txn == [pc : {"idle", "lock", "load", "save", "write", "invalidate"},
        op : {"none", "save", "remove", "record", "settings"},
        game : Games \cup {"none"}, form : Value, before : Library \cup {Empty}]

StoreTypeOK ==
    /\ library \in Library
    /\ health \in {"fine", Damaged}
    /\ libHeld \in Tasks \cup {Free}
    /\ txn \in [Tasks -> Txn]
    /\ settings \in Forms
    /\ cache \in Forms \cup {Empty}
    /\ cacheHeld \in Forms \cup {Free}

(* A library command's operation and game, a settings command's form.      *)
AskedInv ==
    \A t \in Tasks :
       /\ txn[t].pc \in {"lock", "load", "save"} /\ txn[t].op # "settings" =>
             txn[t].op \in {"save", "remove", "record"} /\ txn[t].game \in Games
       /\ txn[t].pc \in {"load", "save"} => txn[t].op # "settings"
       /\ txn[t].pc \in {"lock", "write"} /\ txn[t].op = "settings" => txn[t].form \in Forms
       /\ txn[t].pc = "write" => txn[t].op = "settings"

LockInv == \A t \in Tasks : txn[t].pc \in {"load", "save"} => libHeld = t

LoadedInv == \A t \in Tasks : txn[t].pc = "save" => txn[t].before = library /\ health = "fine"

FreshInv ==
    (\A t \in Tasks : txn[t].pc # "invalidate") =>
       cache \in {Empty, settings} /\ cacheHeld \in {Free, settings}

StoreInv == StoreTypeOK /\ AskedInv /\ LockInv /\ LoadedInv /\ FreshInv

USE StoreAssumption

(* The two files, their locks and the cache as the application starts.     *)
LEMMA StoreInitInv == StoreInit => StoreInv
  BY DEF StoreInit, StoreInv, StoreTypeOK, AskedInv, LockInv, LoadedInv, FreshInv, Library, Value,
         Txn, NoTxn, Gone

(* What a command makes of the library is a library, and differs from it   *)
(* in the one way the command may make it differ.                          *)
LEMMA EditedFacts ==
    ASSUME NEW c \in Txn, c.before \in Library, c.game \in Games,
           c.op \in {"save", "remove", "record"}
    PROVE  /\ Edited(c) \in Library
           /\ \A g \in Games \ {c.game} : Edited(c)[g] = c.before[g]
           /\ LET old == c.before[c.game] new == Edited(c)[c.game] IN
                 \/ Edited(c) = c.before
                 \/ c.op = "save" /\ new.session = old.session
                 \/ c.op = "record" /\ old # Gone /\ new.form = old.form
                 \/ c.op = "remove" /\ new = Gone
<1>1. c.form \in Value
  BY DEF Txn
<1>2. CASE c.op = "save"
  <2>1. Edited(c) = [c.before EXCEPT ![c.game] =
                        [form |-> c.form, session |-> c.before[c.game].session]]
    BY <1>2 DEF Edited, UpsertEditable, Library
  <2> QED
    BY <1>1, <1>2, <2>1 DEF Library
<1>3. CASE c.op = "remove"
  <2>1. Edited(c) = [c.before EXCEPT ![c.game] = Gone]
    BY <1>3 DEF Edited
  <2>2. Gone \in [form : Value, session : Value]
    BY DEF Gone, Value
  <2> QED
    BY <1>3, <2>1, <2>2 DEF Library
<1>4. CASE c.op = "record"
  <2>1. Edited(c) = IF c.before[c.game] = Gone THEN c.before
                    ELSE [c.before EXCEPT ![c.game].session = c.form]
    BY <1>4 DEF Edited, RecordLastSession
  <2> QED
    BY <1>1, <1>4, <2>1 DEF Library
<1> QED
  BY <1>2, <1>3, <1>4

(* Every action keeps the inductive invariant.                             *)
LEMMA StoreNextInv == StoreInv /\ [StoreNext]_storeVars => StoreInv'
<1> SUFFICES ASSUME StoreInv, [StoreNext]_storeVars PROVE StoreInv'
  OBVIOUS
<1> USE DEF StoreInv, StoreTypeOK, AskedInv, LockInv, LoadedInv, FreshInv, libVars, setVars
<1>1. ASSUME NEW t \in Tasks, AskLibrary(t) \/ AskSettings(t) PROVE StoreInv'
  <2>1. PICK op \in {"save", "remove", "record", "settings"}, g \in Games \cup {"none"},
             form \in Value : /\ AskStore(t, op, g, form)
                              /\ op # "settings" => g \in Games
                              /\ op = "settings" => form \in Forms
    BY <1>1 DEF AskLibrary, AskSettings, Value
  <2>2. txn' = [txn EXCEPT ![t] = [pc |-> "lock", op |-> op, game |-> g, form |-> form,
                                   before |-> Empty]]
    BY <2>1 DEF AskStore
  <2>3. txn' \in [Tasks -> Txn]
    BY <2>2 DEF Txn
  <2>4. /\ \A s \in Tasks : s # t => txn'[s] = txn[s]
        /\ txn'[t].pc = "lock" /\ txn'[t].op = op /\ txn'[t].game = g /\ txn'[t].form = form
        /\ UNCHANGED <<library, health, libHeld, settings, cache, cacheHeld>>
    BY <2>1, <2>2 DEF AskStore
  <2>5. txn[t].pc = "idle"
    BY <2>1 DEF AskStore
  <2>6. AskedInv'
    BY <2>1, <2>4
  <2>7. LockInv' /\ LoadedInv'
    BY <2>4
  <2>8. FreshInv'
    BY <2>4, <2>5
  <2> QED
    BY <2>3, <2>4, <2>6, <2>7, <2>8
<1>2. ASSUME NEW t \in Tasks, LockLibrary(t) PROVE StoreInv'
  BY <1>2 DEF LockLibrary, TxnTo, Txn
<1>3. ASSUME NEW t \in Tasks, LoadLibrary(t) PROVE StoreInv'
  <2>1. CASE health = Damaged
    BY <1>3, <2>1 DEF LoadLibrary, NoTxn, Txn, Value
  <2>2. CASE health # Damaged
    BY <1>3, <2>2 DEF LoadLibrary, Txn
  <2> QED
    BY <2>1, <2>2
<1>4. ASSUME NEW t \in Tasks, SaveLibrary(t) PROVE StoreInv'
  <2>1. /\ txn[t] \in Txn /\ txn[t].before \in Library
        /\ txn[t].game \in Games /\ txn[t].op \in {"save", "remove", "record"}
    BY <1>4 DEF SaveLibrary
  <2>2. Edited(txn[t]) \in Library
    BY <2>1, EditedFacts
  <2>3. \A s \in Tasks : s # t => txn[s].pc \notin {"load", "save"}
    BY <1>4 DEF SaveLibrary
  <2> QED
    BY <1>4, <2>2, <2>3 DEF SaveLibrary, NoTxn, Txn, Value
<1>5. CASE DamageLibrary
  BY <1>5 DEF DamageLibrary, Damaged
<1>6. ASSUME NEW t \in Tasks, LockSettings(t) PROVE StoreInv'
  BY <1>6 DEF LockSettings, TxnTo, Txn
<1>7. ASSUME NEW t \in Tasks, WriteSettings(t) PROVE StoreInv'
  BY <1>7 DEF WriteSettings, TxnTo, NoTxn, Txn, Value
<1>8. ASSUME NEW t \in Tasks, Invalidate(t) PROVE StoreInv'
  BY <1>8 DEF Invalidate, NoTxn, Txn, Value
<1>9. CASE BeginSnapshot \/ FillSnapshot
  BY <1>9 DEF BeginSnapshot, FillSnapshot
<1>10. CASE UNCHANGED storeVars
  BY <1>10 DEF storeVars
<1> QED
  BY <1>1, <1>2, <1>3, <1>4, <1>5, <1>6, <1>7, <1>8, <1>9, <1>10 DEF StoreNext

(* The inductive invariant holds of every behaviour of the stores.         *)
LEMMA StoreInvariant == StoreSpec => []StoreInv
  BY StoreInitInv, StoreNextInv, PTL DEF StoreSpec

(* The settings a snapshot answers are those on disk, but for the moment   *)
(* between a write and its invalidate (SettingsPathsCache, commands.rs).   *)
THEOREM CacheIsFresh == StoreSpec => []CacheNotStale
<1>1. StoreInv => CacheNotStale
  BY DEF StoreInv, FreshInv, CacheNotStale
<1> QED
  BY <1>1, StoreInvariant, PTL

(* No library command undoes what another did (library.rs transact).       *)
THEOREM LibraryIsSerial == StoreSpec => LibraryEditsAreSerial
<1> DEFINE Serial ==
       library' # library =>
          /\ health = "fine"
          /\ \E t \in Tasks :
                /\ txn[t].pc = "save"
                /\ \A g \in Games \ {txn[t].game} : library'[g] = library[g]
                /\ LET old == library[txn[t].game] new == library'[txn[t].game] IN
                      \/ txn[t].op = "save" /\ new.session = old.session
                      \/ txn[t].op = "record" /\ old # Gone /\ new.form = old.form
                      \/ txn[t].op = "remove" /\ new = Gone
<1>1. ASSUME StoreInv, [StoreNext]_storeVars, library' # library PROVE Serial
  <2>1. PICK t \in Tasks : SaveLibrary(t)
    BY <1>1 DEF StoreNext, storeVars, libVars, setVars, AskLibrary, AskSettings, AskStore,
               LockLibrary, LoadLibrary, DamageLibrary, LockSettings, WriteSettings, Invalidate,
               BeginSnapshot, FillSnapshot
  <2>2. txn[t].pc = "save" /\ library' = Edited(txn[t])
    BY <1>1, <2>1 DEF SaveLibrary
  <2>3. /\ txn[t] \in Txn /\ txn[t].before = library /\ library \in Library /\ health = "fine"
        /\ txn[t].game \in Games /\ txn[t].op \in {"save", "remove", "record"}
    BY <1>1, <2>2 DEF StoreInv, StoreTypeOK, AskedInv, LoadedInv
  <2> QED
    BY <1>1, <2>2, <2>3, EditedFacts
<1>2. StoreInv /\ [StoreNext]_storeVars => [Serial]_storeVars
  BY <1>1 DEF storeVars
<1> HIDE DEF Serial
<1>3. StoreSpec => [][Serial]_storeVars
  BY <1>2, StoreInvariant, PTL DEF StoreSpec
<1> QED
  BY <1>3 DEF LibraryEditsAreSerial, Serial
-----------------------------------------------------------------------------
(* What the stages trust by its name, for any files and pins and however   *)
(* often setup, build and install are cut short.                           *)
(*                                                                         *)
(* The marker of the artifacts is gone before an extraction begins and is  *)
(* written after it, so what is there under a marker is of its pin         *)
(* (MarkerInv).  lib/dxmt is stock for as long as there is no backup, so   *)
(* what is copied then is stock; and nothing is laid over it before there  *)
(* is one (BackupInv).                                                     *)

(* What a file may hold; the stage in progress.                            *)
Content == Pins \cup {Missing, Truncated, Stock}
StagePCs == {"none", "submodules", "pinned", "remove", "extract", "verify", "config", "create",
             "game", "tools", "staging", "repair", "outputs", "gate", "copy", "commit", "overlay",
             "lib", "bottle", "registry", "flush"} \cup Products
StageJob == [stage : {"none", "setup", "build", "install"}, dry : BOOLEAN, pc : StagePCs]
Backups == [files : [Files -> Content], by : {"stage", "shell"}]

ProvisionTypeOK ==
    /\ pin \in Pins
    /\ art \in [Files -> Pins \cup {Missing, Truncated}]
    /\ shaMarker \in Pins \cup {Missing}
    /\ dxmt \in [Files -> Content]
    /\ stockBackup \in Backups \cup {NoBackup}
    /\ partials \in SUBSET [Files -> Content]
    /\ job \in StageJob

(* A stage that is really carried out.                                     *)
Really(stage, pc) == At(stage, pc) /\ ~job.dry

MarkerInv ==
    /\ shaMarker # Missing => \A f \in Files : art[f] \in {Missing, shaMarker}
    /\ Really("setup", "extract") \/ Really("setup", "verify") => shaMarker = Missing
    /\ Really("setup", "verify") => \A f \in Files : art[f] = pin

IsStock(files) == \A f \in Files : files[f] = Stock

BackupInv ==
    /\ stockBackup = NoBackup => IsStock(dxmt)
    /\ stockBackup # NoBackup =>
          \A f \in Files : \/ stockBackup.files[f] = Stock
                           \/ stockBackup.by = "shell" /\ stockBackup.files[f] = Missing
    /\ Really("install", "copy") => partials = {}
    /\ At("install", "commit") /\ stockBackup = NoBackup => \A p \in partials : IsStock(p)
    /\ Really("install", "overlay") => stockBackup # NoBackup
    /\ At("install", "commit") => ~job.dry

ProvisionInv == ProvisionTypeOK /\ MarkerInv /\ BackupInv

USE ProvisionAssumption

(* Before any stage has run: whole artifacts or none, stock DXMT.          *)
LEMMA ProvisionInitInv == ProvisionInit => ProvisionInv
<1> SUFFICES ASSUME ProvisionInit PROVE ProvisionInv
  OBVIOUS
<1>1. /\ pin \in Pins /\ shaMarker \in {Missing, pin} /\ art = [f \in Files |-> shaMarker]
      /\ dxmt = [f \in Files |-> Stock] /\ stockBackup = NoBackup /\ partials = {}
      /\ job = NoJob
  BY DEF ProvisionInit
<1>2. ProvisionTypeOK
  BY <1>1 DEF ProvisionTypeOK, StageJob, Content, NoJob, StagePCs
<1>3. MarkerInv /\ BackupInv
  BY <1>1 DEF MarkerInv, BackupInv, IsStock, Really, At, NoJob
<1> QED
  BY <1>2, <1>3 DEF ProvisionInv

(* A step that leaves the trusted files alone and enters none of the steps *)
(* that rely on them.                                                      *)
LEMMA Elsewhere ==
    ASSUME ProvisionInv, UNCHANGED <<pin, art, shaMarker, dxmt, stockBackup, partials>>,
           job' \in StageJob,
           job'.pc \notin {"extract", "verify", "copy", "commit", "overlay"} \/ job' = job
    PROVE  ProvisionInv'
<1>1. ProvisionTypeOK'
  BY DEF ProvisionInv, ProvisionTypeOK
<1>2. MarkerInv'
  BY DEF ProvisionInv, MarkerInv, Really, At
<1>3. BackupInv'
  BY DEF ProvisionInv, BackupInv, IsStock, Really, At
<1> QED
  BY <1>1, <1>2, <1>3 DEF ProvisionInv

(* Where a stage goes on, and that it stays one.                           *)
LEMMA ProceedFacts ==
    ASSUME ProvisionTypeOK, NEW pc \in StagePCs, Proceed(pc)
    PROVE  job' \in StageJob /\ job'.pc = pc /\ job'.stage = job.stage /\ job'.dry = job.dry
  BY DEF Proceed, ProvisionTypeOK, StageJob

LEMMA DoneFacts ==
    ASSUME Done
    PROVE  job' \in StageJob /\ job'.pc = "none" /\ job'.stage = "none"
  BY DEF Done, NoJob, StageJob, StagePCs

(* setup: the marker goes with the old artifacts, before the new ones come. *)
LEMMA SetupInv ==
    ASSUME ProvisionInv, SetupStage
    PROVE  ProvisionInv'
<1> USE DEF ProvisionInv
<1>1. CASE SetupSubmodules \/ SetupPinned \/ ProbeConfig \/ CreateConfig
  <2>1. UNCHANGED <<pin, art, shaMarker, dxmt, stockBackup, partials>>
    <3>1. CASE SetupSubmodules
      BY <3>1 DEF SetupSubmodules, installVars
    <3>2. CASE SetupPinned
      BY <3>2 DEF SetupPinned, installVars
    <3>3. CASE ProbeConfig
      BY <3>3 DEF ProbeConfig, setupVars, installVars
    <3>4. CASE CreateConfig
      BY <3>4 DEF CreateConfig, installVars
    <3> QED
      BY <1>1, <3>1, <3>2, <3>3, <3>4
  <2>2. \/ Proceed("pinned") \/ Proceed("config") \/ Proceed("remove") \/ Proceed("create")
        \/ Proceed("game")
    BY <1>1 DEF SetupSubmodules, SetupPinned, ProbeConfig, CreateConfig
  <2>3. job' \in StageJob /\ job'.pc \in {"pinned", "config", "remove", "create", "game"}
    BY <2>2, ProceedFacts DEF StagePCs
  <2> QED
    BY <2>1, <2>3, Elsewhere
<1>2. CASE SetupGame
  BY <1>2, DoneFacts, Elsewhere DEF SetupGame, setupVars, installVars
<1>3. CASE RemoveOld
  <2>1. /\ job' \in StageJob /\ job'.pc = "extract" /\ job'.stage = "setup" /\ job'.dry = job.dry
        /\ UNCHANGED <<pin, dxmt, stockBackup, partials>>
    BY <1>3, ProceedFacts DEF RemoveOld, At, installVars, StagePCs
  <2>2. IF job.dry THEN UNCHANGED <<art, shaMarker>>
        ELSE art' = [f \in Files |-> Missing] /\ shaMarker' = Missing
    BY <1>3 DEF RemoveOld, Effect
  <2>3. ProvisionTypeOK'
    BY <2>1, <2>2 DEF ProvisionTypeOK
  <2>4. MarkerInv' /\ BackupInv'
    BY <2>1, <2>2 DEF MarkerInv, BackupInv, IsStock, Really, At
  <2> QED
    BY <2>3, <2>4
<1>4. CASE CutRemove
  <2>1. /\ job' \in StageJob /\ job'.pc = "none"
        /\ UNCHANGED <<pin, dxmt, stockBackup, partials>>
    BY <1>4, DoneFacts DEF CutRemove, installVars
  <2>2. /\ shaMarker' \in {shaMarker, Missing} /\ art' \in [Files -> Pins \cup {Missing, Truncated}]
        /\ \A f \in Files : art'[f] \in {Missing, art[f]}
    BY <1>4 DEF CutRemove, ProvisionTypeOK
  <2>3. ProvisionTypeOK'
    BY <2>1, <2>2 DEF ProvisionTypeOK
  <2>4. MarkerInv' /\ BackupInv'
    BY <2>1, <2>2 DEF MarkerInv, BackupInv, IsStock, Really, At
  <2> QED
    BY <2>3, <2>4
<1>5. CASE Extract
  <2>1. /\ job' \in StageJob /\ job'.pc = "verify" /\ job'.stage = "setup" /\ job'.dry = job.dry
        /\ UNCHANGED <<pin, shaMarker, dxmt, stockBackup, partials>>
    BY <1>5, ProceedFacts DEF Extract, At, installVars, StagePCs
  <2>2. art' = IF job.dry THEN art ELSE [f \in Files |-> pin]
    BY <1>5 DEF Extract, Effect
  <2>3. ProvisionTypeOK'
    BY <2>1, <2>2 DEF ProvisionTypeOK
  <2>4. MarkerInv' /\ BackupInv'
    BY <1>5, <2>1, <2>2 DEF Extract, MarkerInv, BackupInv, IsStock, Really, At
  <2> QED
    BY <2>3, <2>4
<1>6. CASE CutExtract
  <2>1. /\ job' \in StageJob /\ job'.pc = "none" /\ shaMarker = Missing
        /\ UNCHANGED <<pin, shaMarker, dxmt, stockBackup, partials>>
    BY <1>6, DoneFacts DEF CutExtract, installVars, MarkerInv, Really
  <2>2. art' \in [Files -> Pins \cup {Missing, Truncated}]
    BY <1>6 DEF CutExtract, ProvisionTypeOK
  <2>3. ProvisionTypeOK'
    BY <2>1, <2>2 DEF ProvisionTypeOK
  <2>4. MarkerInv' /\ BackupInv'
    BY <2>1, <2>2 DEF MarkerInv, BackupInv, IsStock, Really, At
  <2> QED
    BY <2>3, <2>4
<1>7. CASE WriteMarker
  <2>1. /\ job' \in StageJob /\ job'.pc \in {"none", "config"}
        /\ UNCHANGED <<pin, art, dxmt, stockBackup, partials>>
    BY <1>7, DoneFacts, ProceedFacts DEF WriteMarker, installVars, StagePCs
  <2>2. UNCHANGED shaMarker \/ (~job.dry /\ shaMarker' = pin)
    BY <1>7 DEF WriteMarker, Effect
  <2>3. ProvisionTypeOK'
    BY <2>1, <2>2 DEF ProvisionTypeOK
  <2>4. MarkerInv' /\ BackupInv'
    BY <1>7, <2>1, <2>2 DEF WriteMarker, MarkerInv, BackupInv, IsStock, Really, At
  <2> QED
    BY <2>3, <2>4
<1> QED
  BY <1>1, <1>2, <1>3, <1>4, <1>5, <1>6, <1>7 DEF SetupStage

(* build touches neither.                                                  *)
LEMMA BuildInv ==
    ASSUME ProvisionInv, BuildStage
    PROVE  ProvisionInv'
<1> USE DEF ProvisionInv
<1>1. UNCHANGED <<pin, art, shaMarker, dxmt, stockBackup, partials>>
  BY DEF BuildStage, BuildGate, BuildProduct, StageHelper, RepairHelper, CutRepair, BuildOutputs,
         setupVars, installVars
<1>2. ASSUME NEW p \in Products, BuildProduct(p)
      PROVE  Proceed("helper") \/ Proceed("staging") \/ Proceed("dashboard") \/ Proceed("outputs")
  BY <1>2 DEF BuildProduct, AfterBuild, Products
<1>3. \/ Done \/ Proceed("helper") \/ Proceed("staging") \/ Proceed("dashboard") \/ Proceed("outputs")
      \/ Proceed("oxrsys") \/ Proceed("repair") \/ Proceed("wineopenxr")
  BY <1>2 DEF BuildStage, BuildGate, StageHelper, RepairHelper, CutRepair, BuildOutputs
<1>4. /\ {"helper", "staging", "dashboard", "outputs", "oxrsys", "repair", "wineopenxr"} \subseteq StagePCs
      /\ job' \in StageJob
      /\ job'.pc \in {"none", "helper", "staging", "dashboard", "outputs", "oxrsys", "repair", "wineopenxr"}
  BY <1>3, DoneFacts, ProceedFacts DEF StagePCs, Products
<1> QED
  BY <1>1, <1>4, Elsewhere

(* install: stock is copied, the copy committed where no backup is, and    *)
(* only then is anything laid over.                                        *)
LEMMA InstallInv ==
    ASSUME ProvisionInv, InstallStage
    PROVE  ProvisionInv'
<1> USE DEF ProvisionInv
<1>1. CASE InstallGate
  <2>1. /\ job' \in StageJob
        /\ UNCHANGED <<pin, art, shaMarker, dxmt, stockBackup>>
        /\ \/ job'.pc = "none" /\ UNCHANGED partials
           \/ /\ job'.pc = "copy" /\ stockBackup = NoBackup
              /\ job'.stage = "install" /\ job'.dry = job.dry
              /\ partials' = IF job.dry THEN partials ELSE {}
           \/ /\ job'.pc = "overlay" /\ stockBackup # NoBackup
              /\ job'.stage = "install" /\ partials' \in {partials, {}}
    BY <1>1, DoneFacts, ProceedFacts DEF InstallGate, setupVars, At, Effect, StagePCs
  <2>2. ProvisionTypeOK'
    BY <2>1 DEF ProvisionTypeOK
  <2>3. MarkerInv' /\ BackupInv'
    BY <2>1 DEF MarkerInv, BackupInv, IsStock, Really, At
  <2> QED
    BY <2>2, <2>3
<1>2. CASE CopyStock
  <2>1. /\ job' \in StageJob /\ job'.stage = "install" /\ job'.dry = job.dry
        /\ UNCHANGED <<pin, art, shaMarker, dxmt, stockBackup>>
        /\ IF job.dry THEN job'.pc = "overlay" /\ UNCHANGED partials
           ELSE job'.pc = "commit" /\ partials' = partials \cup {dxmt}
    BY <1>2, ProceedFacts DEF CopyStock, setupVars, At, Effect, StagePCs
  <2>2. ProvisionTypeOK'
    BY <2>1 DEF ProvisionTypeOK
  <2>3. MarkerInv' /\ BackupInv'
    BY <1>2, <2>1 DEF CopyStock, MarkerInv, BackupInv, IsStock, Really, At
  <2> QED
    BY <2>2, <2>3
<1>3. CASE CutCopy
  <2>1. /\ job' \in StageJob /\ job'.pc = "none"
        /\ UNCHANGED <<pin, art, shaMarker, dxmt, stockBackup>>
    BY <1>3, DoneFacts DEF CutCopy, setupVars
  <2>2. partials' \in SUBSET [Files -> Content]
    BY <1>3 DEF CutCopy, ProvisionTypeOK, Content
  <2>3. ProvisionTypeOK'
    BY <2>1, <2>2 DEF ProvisionTypeOK
  <2>4. MarkerInv' /\ BackupInv'
    BY <2>1 DEF MarkerInv, BackupInv, IsStock, Really, At
  <2> QED
    BY <2>3, <2>4
<1>4. CASE CommitBackup
  <2>1. PICK p \in partials :
           /\ stockBackup' = IF stockBackup = NoBackup THEN [files |-> p, by |-> "stage"]
                             ELSE stockBackup
           /\ partials' = partials \ {p}
    BY <1>4 DEF CommitBackup
  <2>2. /\ job' \in StageJob /\ job'.stage = "install" /\ job'.pc = "overlay"
        /\ UNCHANGED <<pin, art, shaMarker, dxmt>>
    BY <1>4, ProceedFacts DEF CommitBackup, setupVars, At, StagePCs
  <2>3. p \in [Files -> Content] /\ [files |-> p, by |-> "stage"] \in Backups
    BY <2>1 DEF ProvisionTypeOK, Backups
  <2>4. stockBackup' # NoBackup /\ stockBackup' \in Backups
    BY <2>1, <2>3 DEF ProvisionTypeOK, Backups, Content
  <2>5. \A f \in Files : \/ stockBackup'.files[f] = Stock
                         \/ stockBackup'.by = "shell" /\ stockBackup'.files[f] = Missing
    BY <1>4, <2>1 DEF CommitBackup, BackupInv, IsStock
  <2>6. ProvisionTypeOK'
    BY <2>1, <2>2, <2>4 DEF ProvisionTypeOK
  <2>7. MarkerInv' /\ BackupInv'
    BY <2>2, <2>4, <2>5 DEF MarkerInv, BackupInv, IsStock, Really, At
  <2> QED
    BY <2>6, <2>7
<1>5. ASSUME NEW f \in Files, OverlayFile(f)
      PROVE  ProvisionInv'
  <2>1. /\ UNCHANGED <<pin, art, shaMarker, stockBackup, partials, job>>
        /\ dxmt' = [dxmt EXCEPT ![f] = art[f]] /\ stockBackup # NoBackup
    BY <1>5 DEF OverlayFile, setupVars, BackupInv, Really
  <2>2. ProvisionTypeOK'
    BY <2>1 DEF ProvisionTypeOK, Content
  <2>3. MarkerInv' /\ BackupInv'
    BY <2>1 DEF MarkerInv, BackupInv, IsStock, Really, At
  <2> QED
    BY <2>2, <2>3
<1>6. CASE Overlaid \/ FlushWaited
  BY <1>6, DoneFacts, ProceedFacts, Elsewhere DEF Overlaid, FlushWaited, setupVars, installVars, StagePCs
<1>7. CASE InstallBridge("lib", "bottle") \/ InstallBridge("bottle", "registry") \/ RegAdd
  BY <1>7, ProceedFacts, Elsewhere DEF InstallBridge, RegAdd, setupVars, StagePCs
<1> QED
  BY <1>1, <1>2, <1>3, <1>4, <1>5, <1>6, <1>7 DEF InstallStage

(* Every step: the other writers come while no stage is at work, or find   *)
(* the backup not made yet and lib/dxmt stock.                             *)
LEMMA ProvisionNextInv == ProvisionInv /\ [ProvisionNext]_provisionVars => ProvisionInv'
<1> SUFFICES ASSUME ProvisionInv, [ProvisionNext]_provisionVars PROVE ProvisionInv'
  OBVIOUS
<1> USE DEF ProvisionInv
<1>1. ASSUME NEW stage \in {"setup", "build", "install"}, NEW dry \in BOOLEAN, BeginStage(stage, dry)
      PROVE  ProvisionInv'
  <2>1. /\ UNCHANGED <<pin, art, shaMarker, dxmt, stockBackup, partials>>
        /\ job' \in StageJob /\ job'.pc \in {"submodules", "tools", "gate"}
    BY <1>1 DEF BeginStage, setupVars, installVars, StageJob, StagePCs
  <2> QED
    BY <2>1, Elsewhere
<1>2. CASE Stopped
  BY <1>2, DoneFacts, Elsewhere DEF Stopped, setupVars, installVars
<1>3. CASE Pull
  BY <1>3 DEF Pull, NoJob, setupVars, installVars, ProvisionTypeOK, MarkerInv, BackupInv, IsStock,
              Really, At
<1>4. CASE CrossOverUpdated
  <2>1. /\ UNCHANGED <<pin, art, shaMarker, job>> /\ job = NoJob
        /\ dxmt' = [f \in Files |-> Stock] /\ stockBackup' = NoBackup /\ partials' = {}
    BY <1>4 DEF CrossOverUpdated, setupVars
  <2> QED
    BY <2>1 DEF NoJob, ProvisionTypeOK, Content, MarkerInv, BackupInv, IsStock, Really, At
<1>5. CASE ShellInstalls
  <2>1. PICK got \in SUBSET Files :
           /\ stockBackup' = [files |-> [f \in Files |-> IF f \in got THEN dxmt[f] ELSE Missing],
                              by |-> "shell"]
           /\ dxmt' = IF got = Files /\ FilesOk THEN art ELSE dxmt
    BY <1>5 DEF ShellInstalls
  <2> DEFINE copy == [f \in Files |-> IF f \in got THEN dxmt[f] ELSE Missing]
  <2>2. UNCHANGED <<pin, art, shaMarker, partials, job>> /\ IsStock(dxmt)
    BY <1>5 DEF ShellInstalls, setupVars, BackupInv
  <2>3. copy \in [Files -> Content] /\ \A f \in Files : copy[f] \in {Stock, Missing}
    BY <2>2 DEF ProvisionTypeOK, Content, IsStock
  <2> HIDE DEF copy
  <2>4. stockBackup' = [files |-> copy, by |-> "shell"]
    BY <2>1 DEF copy
  <2>5. stockBackup' \in Backups /\ stockBackup' # NoBackup
    BY <2>3, <2>4 DEF Backups, Content
  <2>6. \A f \in Files : \/ stockBackup'.files[f] = Stock
                         \/ stockBackup'.by = "shell" /\ stockBackup'.files[f] = Missing
    BY <2>3, <2>4
  <2>7. dxmt' \in [Files -> Content]
    BY <2>1 DEF ProvisionTypeOK, Content
  <2>8. ProvisionTypeOK'
    BY <2>2, <2>5, <2>7 DEF ProvisionTypeOK
  <2>9. MarkerInv' /\ BackupInv'
    BY <2>2, <2>5, <2>6 DEF MarkerInv, BackupInv, IsStock, Really, At
  <2> QED
    BY <2>8, <2>9
<1>6. CASE WineFlushes \/ OtherWritesConfig \/ HelperLosesMode
  BY <1>6, Elsewhere DEF WineFlushes, OtherWritesConfig, HelperLosesMode, setupVars, installVars,
                         ProvisionTypeOK
<1>7. CASE UNCHANGED provisionVars
  BY <1>7, Elsewhere DEF provisionVars, setupVars, installVars, ProvisionTypeOK
<1> QED
  BY <1>1, <1>2, <1>3, <1>4, <1>5, <1>6, <1>7, SetupInv, BuildInv, InstallInv DEF ProvisionNext

(* dxmt_ok, which lets setup skip the download, and the stock backup, which *)
(* install never makes again, are right about what they name, after any    *)
(* history of stages cut short, pulls, updates of CrossOver and installs by *)
(* ./demo.sh (setup.rs, install.rs).                                       *)
THEOREM WhatIsTrustedIsWhole == ProvisionSpec => []TrustedIsWhole
<1>1. ProvisionInv => TrustedIsWhole
  BY DEF ProvisionInv, ProvisionTypeOK, MarkerInv, BackupInv, TrustedIsWhole, DxmtOk, FilesOk
<1> QED
  BY <1>1, ProvisionInitInv, ProvisionNextInv, PTL DEF ProvisionSpec

HIDE ProvisionAssumption
-----------------------------------------------------------------------------
(* The preflight and the Fix button, for any number of launches, fixes and *)
(* outsiders' moves.                                                       *)
(*                                                                         *)
(* Whoever works holds the operation lock (HoldInv), so a launch never     *)
(* starts a game beside a fix that edits; a fix nobody surprised edits     *)
(* with nobody running (EditInv), and after it whoever comes up reads what *)
(* it wrote (StickInv).  A gate a launch is past holds for as long as      *)
(* nobody moves what it judged (PastInv); the walk judges the config as it *)
(* was read (FactsInv), and after the reset nobody is left that would      *)
(* write cxbottle.conf back (ResetInv).                                    *)
Backends == {"dxmt", "auto", "odd"}
PinSets == {"none", "stale", "new"}
Slugs == {"backend", "helper-staged", "helper-arm64", "protocol"} \cup Looks
GameState == [state : {"gone", "starting", "up"}, by : {"nobody", "launch", "shell"}, pins : PinSets]
LaunchState == [pc : {"idle", "facts", "walk", "fix", "write", "recheck", "reset", "spawn"},
                at : 0 .. 7, dry : BOOLEAN, wired : BOOLEAN, facts : Configs,
                read : Backends \cup {"none"}, moved : SUBSET Slugs]
FixState == [pc : {"idle", "wait", "look", "probe", "edit", "backup", "remove", "done"},
             fix : Fixes \cup {"none"}, read : Backends \cup PinSets, late : BOOLEAN]

PreflightTypeOK ==
    /\ conf \in Backends /\ crossover \in Backends \cup {"gone"}
    /\ staged \in {"none", "bad", "arm64"} /\ built \in {"bad", "arm64"}
    /\ cfg \in Configs
    /\ look \in [Looks -> {"pass", "fail", "unknown"}]
    /\ pins \in PinSets /\ pinsBackups \in SUBSET PinSets
    /\ game \in GameState
    /\ opLock \in {"free", "launch", "fix"}
    /\ launch \in LaunchState
    /\ fixer \in FixState

HoldInv ==
    /\ launch.pc # "idle" => opLock = "launch"
    /\ fixer.pc \notin {"idle", "wait"} => opLock = "fix"

Editing == fixer.pc \in {"edit", "backup", "remove"}
EditInv ==
    /\ Editing /\ ~fixer.late => ~WineserverLive
    /\ fixer.pc = "backup" => fixer.read \in PinSets
    /\ fixer.pc = "remove" => fixer.read \in pinsBackups

StickInv ==
    /\ "backend" \in sticks => conf = "dxmt" /\ crossover \in {"gone", "dxmt"}
    /\ "stale" \in sticks => pins # "stale" /\ (game.state # "gone" => game.pins # "stale")
    /\ sticks \ {"backend"} \subseteq pinsBackups

FixInv == PreflightTypeOK /\ HoldInv /\ EditInv /\ StickInv

(* The gates up to k are behind the launch. *)
Past(k) == \/ launch.pc \in {"walk", "fix", "write", "recheck"} /\ launch.at > k
           \/ launch.pc \in {"reset", "spawn"}
Seen(slug) == look[slug] \in {"pass", "warn"}

PastInv ==
    ~launch.dry =>
        /\ Past(1) => "backend" \in launch.moved \/ conf = "dxmt"
        /\ Past(2) => "goldberg" \in launch.moved \/ Seen("goldberg")
        /\ Past(4) => "helper-arm64" \in launch.moved \/ launch.facts.inproc \/ staged = "arm64"
        /\ Past(5) => "overlay" \in launch.moved \/ Seen("overlay")
        /\ Past(6) => "protocol" \in launch.moved \/ launch.facts.protocol = "alvr"
        /\ Past(7) => "wired" \in launch.moved \/ (launch.wired => Seen("wired"))

FactsInv ==
    /\ launch.pc \notin {"idle", "facts"} =>
           launch.facts = cfg \/ {"protocol", "helper-staged", "helper-arm64"} \subseteq launch.moved
    /\ "helper-arm64" \in launch.moved => "helper-staged" \in launch.moved

ResetInv ==
    launch.pc = "spawn" /\ ~launch.dry =>
        "backend" \in launch.moved \/ (conf = "dxmt" /\ crossover \in {"gone", "dxmt"})

GatesInv == PastInv /\ FactsInv /\ ResetInv

(* The gates in their order.                                               *)
LEMMA WalkFacts ==
    /\ Len(Walk) = 7
    /\ Walk[1] = "backend" /\ Walk[2] = "goldberg" /\ Walk[3] = "helper-staged"
    /\ Walk[4] = "helper-arm64" /\ Walk[5] = "overlay" /\ Walk[6] = "protocol" /\ Walk[7] = "wired"
  BY DEF Walk

(* Nothing has been launched, fixed or moved.                              *)
LEMMA PreflightInitInv == PreflightInit => FixInv /\ GatesInv
<1> SUFFICES ASSUME PreflightInit PROVE FixInv /\ GatesInv
  OBVIOUS
<1>1. /\ conf \in Backends /\ crossover = "gone" /\ pins = "stale" /\ pinsBackups = {}
      /\ game = NoGame /\ opLock = "free" /\ launch = NoLaunch /\ fixer = NoFix /\ sticks = {}
  BY DEF PreflightInit, Backends
<1>2. PICK amiss \in {"helper", "config"} \cup Looks, found \in {"pass", "fail", "unknown"} :
         /\ look = [s \in Looks |-> IF s = amiss THEN found ELSE "pass"]
         /\ staged \in IF amiss = "helper" THEN {"none", "bad", "arm64"} ELSE {"arm64"}
         /\ built \in IF amiss = "helper" THEN {"bad", "arm64"} ELSE {"arm64"}
         /\ cfg \in IF amiss = "config" THEN Configs ELSE {Good}
  BY DEF PreflightInit
<1>3. Good \in Configs
  BY DEF Good, Configs
<1>4. look \in [Looks -> {"pass", "fail", "unknown"}]
  BY <1>2
<1>5. staged \in {"none", "bad", "arm64"} /\ built \in {"bad", "arm64"} /\ cfg \in Configs
  BY <1>2, <1>3
<1>6. game \in GameState /\ launch \in LaunchState /\ fixer \in FixState
  BY <1>1, <1>3 DEF GameState, LaunchState, FixState, NoGame, NoLaunch, NoFix, PinSets, Backends
<1>7. PreflightTypeOK
  BY <1>1, <1>4, <1>5, <1>6 DEF PreflightTypeOK, PinSets
<1>8. HoldInv /\ EditInv /\ StickInv
  BY <1>1 DEF HoldInv, EditInv, StickInv, Editing, NoLaunch, NoFix, NoGame
<1>9. GatesInv
  BY <1>1 DEF GatesInv, PastInv, Past, FactsInv, ResetInv, NoLaunch
<1> QED
  BY <1>7, <1>8, <1>9 DEF FixInv

(* A step of the launch that touches no file.                              *)
LEMMA LaunchOnly ==
    ASSUME FixInv, launch' \in LaunchState, UNCHANGED <<machine, fixer, sticks>>,
           \/ launch.pc # "idle" /\ UNCHANGED opLock
           \/ launch.pc # "idle" /\ launch'.pc = "idle" /\ opLock' = "free"
           \/ opLock = "free" /\ opLock' = "launch"
    PROVE  FixInv'
<1>1. UNCHANGED <<conf, crossover, staged, built, cfg, look, pins, pinsBackups, game, fixer, sticks>>
  BY DEF machine
<1>2. opLock' \in {"free", "launch", "fix"}
  BY DEF FixInv, PreflightTypeOK
<1>3. PreflightTypeOK'
  BY <1>1, <1>2 DEF FixInv, PreflightTypeOK
<1>4. HoldInv'
  BY <1>1 DEF FixInv, HoldInv
<1>5. EditInv' /\ StickInv'
  BY <1>1 DEF FixInv, EditInv, StickInv, Editing, WineserverLive
<1> QED
  BY <1>3, <1>4, <1>5 DEF FixInv

(* The next gate is a gate.                                                *)
LEMMA OnwardFacts ==
    ASSUME launch \in LaunchState, Onward
    PROVE  /\ launch' \in LaunchState
           /\ \/ launch.at = 7 /\ launch'.pc = "reset" /\ launch'.at = 7
              \/ launch.at # 7 /\ launch'.pc = "walk" /\ launch'.at = launch.at + 1
           /\ launch'.dry = launch.dry /\ launch'.wired = launch.wired
           /\ launch'.facts = launch.facts /\ launch'.moved = launch.moved
<1>1. Len(Walk) = 7
  BY WalkFacts
<1>2. launch' = [launch EXCEPT !.pc = IF launch.at = 7 THEN "reset" ELSE "walk",
                               !.at = IF launch.at = 7 THEN launch.at ELSE launch.at + 1]
  BY <1>1 DEF Onward
<1>3. CASE launch.at = 7
  BY <1>2, <1>3 DEF LaunchState
<1>4. CASE launch.at # 7
  <2>1. launch.at + 1 \in 0 .. 7
    BY <1>4 DEF LaunchState
  <2> QED
    BY <1>2, <1>4, <2>1 DEF LaunchState
<1> QED
  BY <1>3, <1>4

(* The launch: it holds the lock, so no fix edits beside it, and what it   *)
(* writes over cxbottle.conf is what a fix would have.                     *)
LEMMA LaunchKeepsFixes ==
    ASSUME FixInv, LaunchStep
    PROVE  FixInv'
<1>1. launch \in LaunchState /\ cfg \in Configs
  BY DEF FixInv, PreflightTypeOK
<1>2. CASE ReadFacts
  <2>1. launch' = [launch EXCEPT !.pc = "walk", !.at = 1, !.facts = cfg] /\ 1 \in 0 .. 7
    BY <1>2 DEF ReadFacts
  <2>2. launch' \in LaunchState
    BY <1>1, <2>1 DEF LaunchState
  <2> QED
    BY <1>2, <2>2, LaunchOnly DEF ReadFacts
<1>3. CASE Gate
  <2>1. Onward \/ Go("fix")
    BY <1>3 DEF Gate
  <2>2. launch' \in LaunchState
    BY <1>1, <2>1, OnwardFacts DEF Go, LaunchState
  <2> QED
    BY <1>3, <2>2, LaunchOnly DEF Gate
<1>4. CASE LaunchReadsConf
  <2>1. launch' \in LaunchState
    BY <1>1, <1>4 DEF LaunchReadsConf, LaunchState, FixInv, PreflightTypeOK
  <2> QED
    BY <1>4, <2>1, LaunchOnly DEF LaunchReadsConf
<1>5. CASE LaunchWritesConf
  <2>1. conf' \in {conf, "dxmt"} /\ launch' \in LaunchState /\ launch.pc # "idle"
    BY <1>1, <1>5 DEF LaunchWritesConf, Go, LaunchState
  <2>2. UNCHANGED <<crossover, staged, built, cfg, look, pins, pinsBackups, game, opLock, fixer,
                    sticks>>
    BY <1>5 DEF LaunchWritesConf
  <2>3. PreflightTypeOK'
    BY <2>1, <2>2 DEF FixInv, PreflightTypeOK, Backends
  <2>4. HoldInv' /\ EditInv' /\ StickInv'
    BY <2>1, <2>2 DEF FixInv, HoldInv, EditInv, StickInv, Editing, WineserverLive
  <2> QED
    BY <2>3, <2>4 DEF FixInv
<1>6. CASE LaunchRestages
  <2>1. staged' \in {"none", "bad", "arm64"} /\ launch' \in LaunchState /\ launch.pc # "idle"
    BY <1>1, <1>6 DEF LaunchRestages, Restaged, Go, LaunchState, FixInv, PreflightTypeOK
  <2>2. UNCHANGED <<conf, crossover, built, cfg, look, pins, pinsBackups, game, opLock, fixer,
                    sticks>>
    BY <1>6 DEF LaunchRestages
  <2>3. PreflightTypeOK'
    BY <2>1, <2>2 DEF FixInv, PreflightTypeOK
  <2>4. HoldInv' /\ EditInv' /\ StickInv'
    BY <2>1, <2>2 DEF FixInv, HoldInv, EditInv, StickInv, Editing, WineserverLive
  <2> QED
    BY <2>3, <2>4 DEF FixInv
<1>7. CASE Recheck
  <2>1. launch' \in LaunchState
    BY <1>1, <1>7, OnwardFacts DEF Recheck
  <2> QED
    BY <1>7, <2>1, LaunchOnly DEF Recheck
<1>8. CASE Reset
  <2>1. crossover' \in {crossover, "gone"} /\ game' \in {game, NoGame} /\ launch.pc # "idle"
    BY <1>8 DEF Reset
  <2>2. launch' \in LaunchState
    BY <1>1, <1>8 DEF Reset, Go, LaunchState
  <2>3. UNCHANGED <<conf, staged, built, cfg, look, pins, pinsBackups, opLock, fixer, sticks>>
    BY <1>8 DEF Reset
  <2>4. NoGame \in GameState /\ NoGame.state = "gone"
    BY DEF NoGame, GameState, PinSets
  <2>5. PreflightTypeOK'
    BY <2>1, <2>2, <2>3, <2>4 DEF FixInv, PreflightTypeOK
  <2>6. HoldInv' /\ EditInv' /\ StickInv'
    BY <2>1, <2>3, <2>4 DEF FixInv, HoldInv, EditInv, StickInv, Editing, WineserverLive
  <2> QED
    BY <2>5, <2>6 DEF FixInv
<1>9. CASE Spawn
  <2>1. /\ game' = [state |-> "up", by |-> "launch", pins |-> pins] /\ launch.pc # "idle"
        /\ launch' = NoLaunch /\ opLock' = "free"
        /\ UNCHANGED <<conf, crossover, staged, built, cfg, look, pins, pinsBackups, fixer, sticks>>
    BY <1>9 DEF Spawn, Give
  <2>2. launch' \in LaunchState /\ launch'.pc = "idle"
    BY <2>1 DEF NoLaunch, LaunchState, Good, Configs
  <2>3. game' \in GameState /\ game'.pins = pins
    BY <2>1 DEF GameState, FixInv, PreflightTypeOK
  <2>4. ~Editing
    BY <2>1 DEF Editing, FixInv, HoldInv
  <2>5. PreflightTypeOK'
    BY <2>1, <2>2, <2>3 DEF FixInv, PreflightTypeOK
  <2>6. HoldInv'
    BY <2>1, <2>2 DEF FixInv, HoldInv
  <2>7. EditInv' /\ StickInv'
    BY <2>1, <2>3, <2>4 DEF FixInv, EditInv, StickInv, Editing
  <2> QED
    BY <2>5, <2>6, <2>7 DEF FixInv
<1>10. CASE LaunchEnds
  <2>1. launch' \in LaunchState /\ launch'.pc = "idle"
    BY <1>10 DEF LaunchEnds, NoLaunch, LaunchState, Good, Configs
  <2> QED
    BY <1>10, <2>1, LaunchOnly DEF LaunchEnds, Give
<1> QED
  BY <1>2, <1>3, <1>4, <1>5, <1>6, <1>7, <1>8, <1>9, <1>10 DEF LaunchStep

(* A step of a fix that touches no file, and does not go on to an edit.    *)
LEMMA FixerOnly ==
    ASSUME FixInv, fixer' \in FixState, UNCHANGED <<machine, launch, sticks>>,
           \/ fixer.pc \notin {"idle", "wait"} /\ UNCHANGED opLock
           \/ fixer'.pc \in {"idle", "wait"} /\ UNCHANGED opLock
           \/ fixer.pc \notin {"idle", "wait"} /\ fixer'.pc = "idle" /\ opLock' = "free"
           \/ opLock = "free" /\ opLock' = "fix",
           \/ fixer'.pc \notin {"edit", "backup", "remove"}
           \/ fixer'.pc = "edit" /\ ~WineserverLive
           \/ /\ fixer'.pc = "backup" /\ fixer.pc = "edit"
              /\ fixer'.late = fixer.late /\ fixer'.read \in PinSets
    PROVE  FixInv'
<1>1. UNCHANGED <<conf, crossover, staged, built, cfg, look, pins, pinsBackups, game, launch, sticks>>
  BY DEF machine
<1>2. opLock' \in {"free", "launch", "fix"}
  BY DEF FixInv, PreflightTypeOK
<1>3. PreflightTypeOK'
  BY <1>1, <1>2 DEF FixInv, PreflightTypeOK
<1>4. HoldInv'
  BY <1>1 DEF FixInv, HoldInv
<1>5. EditInv'
  BY <1>1 DEF FixInv, EditInv, Editing, WineserverLive
<1>6. StickInv'
  BY <1>1 DEF FixInv, StickInv
<1> QED
  BY <1>3, <1>4, <1>5, <1>6 DEF FixInv

(* The fix: nobody runs while it edits, unless it is noted as late, so     *)
(* what it reports done is neither in memory nor on disk as it was before. *)
LEMMA FixerKeepsFixes ==
    ASSUME FixInv, FixStep
    PROVE  FixInv'
<1>1. fixer \in FixState /\ conf \in Backends /\ pins \in PinSets
  BY DEF FixInv, PreflightTypeOK
<1>2. CASE LockFix
  <2>1. fixer' = [fixer EXCEPT !.pc = "look"] /\ fixer' \in FixState /\ fixer'.pc = "look"
    BY <1>1, <1>2 DEF LockFix, FixState
  <2> QED
    BY <1>2, <2>1, FixerOnly DEF LockFix
<1>3. CASE ReadConf
  <2>1. fixer' \in FixState /\ fixer'.pc = "probe"
    BY <1>1, <1>3 DEF ReadConf, FixState
  <2> QED
    BY <1>3, <2>1, FixerOnly DEF ReadConf
<1>4. CASE ProbeWineserver
  <2>1. fixer' \in FixState /\ fixer'.pc = "edit"
    BY <1>1, <1>4 DEF ProbeWineserver, FixState
  <2> QED
    BY <1>4, <2>1, FixerOnly DEF ProbeWineserver
<1>5. CASE WriteConf
  <2>1. /\ fixer' \in FixState /\ fixer'.pc = "done" /\ conf' = "dxmt" /\ fixer.pc = "edit"
        /\ sticks' = IF fixer.late THEN sticks ELSE sticks \cup {"backend"}
        /\ UNCHANGED <<crossover, staged, built, cfg, look, pins, pinsBackups, game, opLock, launch>>
    BY <1>1, <1>5 DEF WriteConf, FixState
  <2>2. PreflightTypeOK'
    BY <2>1 DEF FixInv, PreflightTypeOK, Backends
  <2>3. HoldInv' /\ EditInv'
    BY <2>1 DEF FixInv, HoldInv, EditInv, Editing
  <2>4. StickInv'
    BY <2>1 DEF FixInv, StickInv, EditInv, Editing, WineserverLive
  <2> QED
    BY <2>2, <2>3, <2>4 DEF FixInv
<1>6. CASE RestageHelper
  <2>1. /\ fixer' \in FixState /\ fixer'.pc = "done" /\ fixer.pc = "look"
        /\ staged' \in {"none", "bad", "arm64"}
        /\ UNCHANGED <<conf, crossover, built, cfg, look, pins, pinsBackups, game, opLock, launch,
                       sticks>>
    BY <1>1, <1>6 DEF RestageHelper, Restaged, FixState
  <2>2. PreflightTypeOK'
    BY <2>1 DEF FixInv, PreflightTypeOK
  <2>3. HoldInv' /\ EditInv' /\ StickInv'
    BY <2>1 DEF FixInv, HoldInv, EditInv, Editing, StickInv
  <2> QED
    BY <2>2, <2>3 DEF FixInv
<1>7. CASE FindPins
  <2>1. fixer' \in FixState /\ fixer'.pc = "probe"
    BY <1>1, <1>7 DEF FindPins, FixState
  <2> QED
    BY <1>7, <2>1, FixerOnly DEF FindPins
<1>8. CASE ReadPins
  <2>1. fixer' \in FixState /\ fixer'.pc = "backup" /\ fixer'.late = fixer.late
        /\ fixer'.read \in PinSets
    BY <1>1, <1>8 DEF ReadPins, FixState
  <2> QED
    BY <1>8, <2>1, FixerOnly DEF ReadPins
<1>9. CASE BackUpPins
  <2>1. /\ fixer' \in FixState /\ fixer'.pc = "remove" /\ fixer.pc = "backup"
        /\ fixer'.late = fixer.late /\ fixer'.read = fixer.read
        /\ pinsBackups' = pinsBackups \cup {fixer.read}
        /\ UNCHANGED <<conf, crossover, staged, built, cfg, look, pins, game, opLock, launch, sticks>>
    BY <1>1, <1>9 DEF BackUpPins, FixState
  <2>2. fixer.read \in PinSets
    BY <1>9 DEF BackUpPins, FixInv, EditInv
  <2>3. PreflightTypeOK'
    BY <2>1, <2>2 DEF FixInv, PreflightTypeOK
  <2>4. HoldInv' /\ EditInv' /\ StickInv'
    BY <2>1 DEF FixInv, HoldInv, EditInv, Editing, StickInv, WineserverLive
  <2> QED
    BY <2>3, <2>4 DEF FixInv
<1>10. CASE RemovePins
  <2>1. /\ fixer' \in FixState /\ fixer'.pc = "done" /\ fixer.pc = "remove" /\ pins' = "none"
        /\ sticks' = IF fixer.late THEN sticks ELSE sticks \cup {fixer.read}
        /\ UNCHANGED <<conf, crossover, staged, built, cfg, look, pinsBackups, game, opLock, launch>>
    BY <1>1, <1>10 DEF RemovePins, FixState
  <2>2. fixer.read \in pinsBackups /\ fixer.read # "backend"
    BY <2>1 DEF FixInv, EditInv, PreflightTypeOK, PinSets
  <2>3. PreflightTypeOK'
    BY <2>1 DEF FixInv, PreflightTypeOK, PinSets
  <2>4. HoldInv' /\ EditInv'
    BY <2>1 DEF FixInv, HoldInv, EditInv, Editing
  <2>5. ~fixer.late => game.state = "gone"
    BY <2>1 DEF FixInv, EditInv, Editing, WineserverLive
  <2>6. StickInv'
    BY <2>1, <2>2, <2>5 DEF FixInv, StickInv
  <2> QED
    BY <2>3, <2>4, <2>6 DEF FixInv
<1>11. CASE FixEnds
  <2>1. fixer' \in FixState /\ fixer'.pc = "idle"
    BY <1>11 DEF FixEnds, NoFix, FixState, PinSets
  <2> QED
    BY <1>11, <2>1, FixerOnly DEF FixEnds
<1> QED
  BY <1>2, <1>3, <1>4, <1>5, <1>6, <1>7, <1>8, <1>9, <1>10, <1>11 DEF FixStep

(* The note a fix carries that somebody came up under its edit.            *)
LEMMA LateFacts ==
    ASSUME fixer \in FixState, fixer' = Late
    PROVE  /\ fixer' \in FixState /\ fixer'.pc = fixer.pc /\ fixer'.read = fixer.read
           /\ Editing => fixer'.late
<1>1. fixer' = [fixer EXCEPT !.late = fixer.late \/ fixer.pc \in {"edit", "backup", "remove"}]
  BY DEF Late
<1>2. (fixer.late \/ fixer.pc \in {"edit", "backup", "remove"}) \in BOOLEAN
  BY DEF FixState
<1> DEFINE late == fixer.late \/ fixer.pc \in {"edit", "backup", "remove"}
<1>3. fixer' = [fixer EXCEPT !.late = late] /\ late \in BOOLEAN /\ (Editing => late)
  BY <1>1, <1>2 DEF Editing
<1> HIDE DEF late
<1> QED
  BY <1>3 DEF FixState

(* An outsider leaves a launch where it is.                                *)
LEMMA MovesFacts ==
    ASSUME launch \in LaunchState, NEW slugs \in SUBSET Slugs, Moves(slugs)
    PROVE  /\ launch' \in LaunchState
           /\ launch'.pc = launch.pc /\ launch'.at = launch.at /\ launch'.dry = launch.dry
           /\ launch'.wired = launch.wired /\ launch'.facts = launch.facts
           /\ launch'.moved = IF launch.pc = "idle" THEN launch.moved ELSE launch.moved \cup slugs
<1>1. CASE launch.pc = "idle"
  BY <1>1 DEF Moves
<1>2. CASE launch.pc # "idle"
  <2>1. launch' = [launch EXCEPT !.moved = launch.moved \cup slugs]
    BY <1>2 DEF Moves
  <2>2. launch.moved \cup slugs \in SUBSET Slugs
    BY DEF LaunchState
  <2> QED
    BY <1>2, <2>1, <2>2 DEF LaunchState
<1> QED
  BY <1>1, <1>2

(* The doors are opened under no game of the sort they ask about.          *)
LEMMA DoorsKeepFixes ==
    ASSUME FixInv,
           \/ \E dry, wired \in BOOLEAN : BeginLaunch(dry, wired)
           \/ \E f \in Fixes : AskFix(f)
    PROVE  FixInv'
<1>1. ASSUME NEW dry \in BOOLEAN, NEW wired \in BOOLEAN, BeginLaunch(dry, wired)
      PROVE  FixInv'
  <2>1. launch' = [NoLaunch EXCEPT !.pc = "facts", !.dry = dry, !.wired = wired]
    BY <1>1 DEF BeginLaunch
  <2>2. NoLaunch \in LaunchState
    BY DEF NoLaunch, LaunchState, Good, Configs
  <2>3. launch' \in LaunchState
    BY <2>1, <2>2 DEF LaunchState
  <2> QED
    BY <1>1, <2>3, LaunchOnly DEF BeginLaunch
<1>2. ASSUME NEW f \in Fixes, AskFix(f)
      PROVE  FixInv'
  <2>1. fixer' = [NoFix EXCEPT !.pc = "wait", !.fix = f]
    BY <1>2 DEF AskFix
  <2>2. fixer' \in FixState /\ fixer'.pc = "wait"
    BY <2>1 DEF NoFix, FixState, PinSets
  <2> QED
    BY <1>2, <2>2, FixerOnly DEF AskFix
<1> QED
  BY <1>1, <1>2

(* Who comes up reads what the fix wrote, or is noted as late; who ends    *)
(* writes what it read.                                                    *)
LEMMA OutsidersKeepFixes ==
    ASSUME FixInv,
           \/ CrossOverOpens \/ CrossOverCloses \/ UserPicksBackend
           \/ ShellStarts \/ ShellUp \/ GameEnds \/ Outsider
    PROVE  FixInv'
<1>1. /\ launch \in LaunchState /\ fixer \in FixState /\ game \in GameState
      /\ conf \in Backends /\ pins \in PinSets
  BY DEF FixInv, PreflightTypeOK
<1>2. ASSUME NEW slugs \in SUBSET Slugs, Moves(slugs)
      PROVE  launch' \in LaunchState /\ launch'.pc = launch.pc
  BY <1>1, <1>2, MovesFacts
<1>3. {} \in SUBSET Slugs /\ {"backend"} \in SUBSET Slugs
  BY DEF Slugs
<1>4. CASE CrossOverOpens
  <2>1. /\ launch' \in LaunchState /\ launch'.pc = launch.pc
        /\ crossover' = conf
        /\ UNCHANGED <<conf, staged, built, cfg, look, pins, pinsBackups, game, opLock, sticks>>
    BY <1>2, <1>3, <1>4 DEF CrossOverOpens, Upset
  <2>2. /\ fixer' \in FixState /\ fixer'.pc = fixer.pc /\ fixer'.read = fixer.read
        /\ Editing => fixer'.late
    BY <1>1, <1>4, LateFacts DEF CrossOverOpens
  <2>3. PreflightTypeOK'
    BY <2>1, <2>2 DEF FixInv, PreflightTypeOK
  <2>4. HoldInv' /\ EditInv' /\ StickInv'
    BY <2>1, <2>2 DEF FixInv, HoldInv, EditInv, Editing, StickInv
  <2> QED
    BY <2>3, <2>4 DEF FixInv
<1>5. CASE CrossOverCloses
  <2>1. /\ launch' \in LaunchState /\ launch'.pc = launch.pc
        /\ conf' = crossover /\ crossover' = "gone" /\ crossover # "gone"
        /\ UNCHANGED <<staged, built, cfg, look, pins, pinsBackups, game, opLock, fixer, sticks>>
    BY <1>2, <1>3, <1>5 DEF CrossOverCloses
  <2>2. PreflightTypeOK'
    BY <2>1 DEF FixInv, PreflightTypeOK
  <2>3. HoldInv' /\ EditInv' /\ StickInv'
    BY <2>1 DEF FixInv, HoldInv, EditInv, Editing, StickInv, WineserverLive
  <2> QED
    BY <2>2, <2>3 DEF FixInv
<1>6. CASE UserPicksBackend
  <2>1. /\ launch' \in LaunchState /\ launch'.pc = launch.pc
        /\ conf' = "auto" /\ crossover' = "auto" /\ sticks' = sticks \ {"backend"}
        /\ UNCHANGED <<staged, built, cfg, look, pins, pinsBackups, game, opLock>>
    BY <1>2, <1>3, <1>6 DEF UserPicksBackend, Upset
  <2>2. /\ fixer' \in FixState /\ fixer'.pc = fixer.pc /\ fixer'.read = fixer.read
        /\ Editing => fixer'.late
    BY <1>1, <1>6, LateFacts DEF UserPicksBackend
  <2>3. PreflightTypeOK'
    BY <2>1, <2>2 DEF FixInv, PreflightTypeOK, Backends
  <2>4. HoldInv' /\ EditInv' /\ StickInv'
    BY <2>1, <2>2 DEF FixInv, HoldInv, EditInv, Editing, StickInv
  <2> QED
    BY <2>3, <2>4 DEF FixInv
<1>7. CASE ShellStarts
  <2>1. /\ launch' \in LaunchState /\ launch'.pc = launch.pc
        /\ game' = [state |-> "starting", by |-> "shell", pins |-> pins]
        /\ UNCHANGED <<conf, crossover, staged, built, cfg, look, pins, pinsBackups, opLock, sticks>>
    BY <1>2, <1>3, <1>7 DEF ShellStarts, Upset
  <2>2. /\ fixer' \in FixState /\ fixer'.pc = fixer.pc /\ fixer'.read = fixer.read
        /\ Editing => fixer'.late
    BY <1>1, <1>7, LateFacts DEF ShellStarts
  <2>3. game' \in GameState /\ game'.pins = pins
    BY <1>1, <2>1 DEF GameState
  <2>4. PreflightTypeOK'
    BY <2>1, <2>2, <2>3 DEF FixInv, PreflightTypeOK
  <2>5. HoldInv' /\ EditInv' /\ StickInv'
    BY <2>1, <2>2, <2>3 DEF FixInv, HoldInv, EditInv, Editing, StickInv
  <2> QED
    BY <2>4, <2>5 DEF FixInv
<1>8. CASE ShellUp
  <2>1. /\ game' \in GameState /\ game'.pins = game.pins /\ game.state = "starting"
        /\ UNCHANGED <<conf, crossover, staged, built, cfg, look, pins, pinsBackups, opLock, launch,
                       fixer, sticks>>
    BY <1>1, <1>8 DEF ShellUp, GameState
  <2>2. PreflightTypeOK'
    BY <2>1 DEF FixInv, PreflightTypeOK
  <2>3. HoldInv' /\ EditInv' /\ StickInv'
    BY <2>1 DEF FixInv, HoldInv, EditInv, Editing, StickInv, WineserverLive
  <2> QED
    BY <2>2, <2>3 DEF FixInv
<1>9. CASE GameEnds
  <2>1. /\ game' = NoGame /\ game.state # "gone"
        /\ pins' = IF game.pins = "none" THEN "new" ELSE game.pins
        /\ UNCHANGED <<conf, crossover, staged, built, cfg, look, pinsBackups, opLock, launch, fixer,
                       sticks>>
    BY <1>9 DEF GameEnds
  <2>2. game' \in GameState /\ game'.state = "gone" /\ pins' \in PinSets
    BY <1>1, <2>1 DEF GameState, NoGame, PinSets
  <2>3. PreflightTypeOK'
    BY <2>1, <2>2 DEF FixInv, PreflightTypeOK
  <2>4. HoldInv' /\ EditInv' /\ StickInv'
    BY <2>1, <2>2 DEF FixInv, HoldInv, EditInv, Editing, StickInv, WineserverLive
  <2> QED
    BY <2>3, <2>4 DEF FixInv
<1>10. CASE Outsider
  <2>1. /\ launch' \in LaunchState /\ launch'.pc = launch.pc
    <3>1. \/ Moves({"protocol", "helper-staged", "helper-arm64"})
          \/ Moves({"helper-staged", "helper-arm64"})
          \/ \E s \in Looks : Moves({s})
      BY <1>10 DEF Outsider, UserEdits, Upset
    <3>2. /\ {"protocol", "helper-staged", "helper-arm64"} \in SUBSET Slugs
          /\ {"helper-staged", "helper-arm64"} \in SUBSET Slugs
          /\ \A s \in Looks : {s} \in SUBSET Slugs
      BY DEF Slugs
    <3> QED
      BY <1>2, <3>1, <3>2
  <2>2. UNCHANGED <<conf, crossover, built, pins, pinsBackups, game, opLock, fixer, sticks>>
    BY <1>10 DEF Outsider, UserEdits
  <2>3. cfg' \in Configs /\ staged' \in {"none", "bad", "arm64"}
    <3>1. cfg \in Configs /\ staged \in {"none", "bad", "arm64"}
      BY DEF FixInv, PreflightTypeOK
    <3>2. [cfg EXCEPT !.protocol = "oxrsys"] \in Configs /\ [cfg EXCEPT !.inproc = ~cfg.inproc] \in Configs
      BY <3>1 DEF Configs
    <3> QED
      BY <1>10, <3>1, <3>2 DEF Outsider, UserEdits
  <2>4. look' \in [Looks -> {"pass", "fail", "unknown"}]
    BY <1>10 DEF Outsider, UserEdits, FixInv, PreflightTypeOK
  <2>5. PreflightTypeOK'
    BY <2>1, <2>2, <2>3, <2>4 DEF FixInv, PreflightTypeOK
  <2>6. HoldInv' /\ EditInv' /\ StickInv'
    BY <2>1, <2>2 DEF FixInv, HoldInv, EditInv, Editing, StickInv, WineserverLive
  <2> QED
    BY <2>5, <2>6 DEF FixInv
<1> QED
  BY <1>4, <1>5, <1>6, <1>7, <1>8, <1>9, <1>10

(* Every step keeps what the fixes rest on.                                *)
LEMMA FixNextInv == FixInv /\ [PreflightNext]_preflightVars => FixInv'
<1> SUFFICES ASSUME FixInv, [PreflightNext]_preflightVars PROVE FixInv'
  OBVIOUS
<1>1. CASE UNCHANGED preflightVars
  BY <1>1 DEF preflightVars, machine, FixInv, PreflightTypeOK, HoldInv, EditInv, Editing, StickInv,
              WineserverLive
<1> QED
  BY <1>1, DoorsKeepFixes, LaunchKeepsFixes, FixerKeepsFixes, OutsidersKeepFixes DEF PreflightNext

(* A fix that said done stays done: CrossOver and the ALVR server, which   *)
(* write back on their exit what they read on their start, do not undo it, *)
(* and what it deleted is in a backup (fixes.rs, executor.rs).             *)
THEOREM FixesAreHeld == PreflightSpec => []FixesHold
<1>1. FixInv => FixesHold
  BY DEF FixInv, StickInv, FixesHold
<1>2. PreflightInit => FixInv
  BY PreflightInitInv
<1> QED
  BY <1>1, <1>2, FixNextInv, PTL DEF PreflightSpec

(* What a passed gate has found.                                           *)
LEMMA JudgedFacts ==
    ASSUME launch \in LaunchState,
           ~Applies(Walk[launch.at]) \/ Verdict(Walk[launch.at]) \in {"pass", "warn"},
           staged \in {"none", "bad", "arm64"}
    PROVE  /\ launch.at = 1 => conf = "dxmt"
           /\ launch.at = 2 => Seen("goldberg")
           /\ launch.at = 4 => launch.facts.inproc \/ staged = "arm64"
           /\ launch.at = 5 => Seen("overlay")
           /\ launch.at = 6 => launch.facts.protocol = "alvr"
           /\ launch.at = 7 => (launch.wired => Seen("wired"))
<1>1. ASSUME launch.at = 1 PROVE conf = "dxmt"
  <2>1. Walk[launch.at] = "backend"
    BY <1>1, WalkFacts
  <2> QED
    BY <2>1 DEF Applies, Verdict
<1>2. ASSUME launch.at = 2 PROVE Seen("goldberg")
  <2>1. Walk[launch.at] = "goldberg"
    BY <1>2, WalkFacts
  <2> QED
    BY <2>1 DEF Applies, Verdict, Seen
<1>3. ASSUME launch.at = 4 PROVE launch.facts.inproc \/ staged = "arm64"
  <2>1. Walk[launch.at] = "helper-arm64"
    BY <1>3, WalkFacts
  <2> QED
    BY <2>1 DEF Applies, Verdict
<1>4. ASSUME launch.at = 5 PROVE Seen("overlay")
  <2>1. Walk[launch.at] = "overlay"
    BY <1>4, WalkFacts
  <2> QED
    BY <2>1 DEF Applies, Verdict, Seen
<1>5. ASSUME launch.at = 6 PROVE launch.facts.protocol = "alvr"
  <2>1. Walk[launch.at] = "protocol"
    BY <1>5, WalkFacts
  <2> QED
    BY <2>1 DEF Applies, Verdict
<1>6. ASSUME launch.at = 7, launch.wired PROVE Seen("wired")
  <2>1. Walk[launch.at] = "wired"
    BY <1>6, WalkFacts
  <2> QED
    BY <1>6, <2>1 DEF Applies, Verdict, Seen
<1> QED
  BY <1>1, <1>2, <1>3, <1>4, <1>5, <1>6

(* Onward past a gate that was passed.                                     *)
LEMMA OnwardKeepsGates ==
    ASSUME FixInv, GatesInv, launch.pc \in {"walk", "recheck"}, Onward,
           UNCHANGED <<conf, crossover, staged, cfg, look>>,
           launch.dry \/ ~Applies(Walk[launch.at]) \/ Verdict(Walk[launch.at]) \in {"pass", "warn"}
    PROVE  GatesInv'
<1>1. launch \in LaunchState /\ staged \in {"none", "bad", "arm64"}
  BY DEF FixInv, PreflightTypeOK
<1>2. /\ \/ launch.at = 7 /\ launch'.pc = "reset" /\ launch'.at = 7
         \/ launch.at # 7 /\ launch'.pc = "walk" /\ launch'.at = launch.at + 1
      /\ launch'.dry = launch.dry /\ launch'.wired = launch.wired
      /\ launch'.facts = launch.facts /\ launch'.moved = launch.moved
  BY <1>1, OnwardFacts
<1>3. launch.at \in 0 .. 7
  BY <1>1 DEF LaunchState
<1>4. \A k \in 1 .. 7 : Past(k)' => Past(k) \/ launch.at = k
  BY <1>2, <1>3 DEF Past
<1>5. 1 \in 1 .. 7 /\ 2 \in 1 .. 7 /\ 4 \in 1 .. 7 /\ 5 \in 1 .. 7 /\ 6 \in 1 .. 7 /\ 7 \in 1 .. 7
  OBVIOUS
<1>6. /\ Past(1)' => Past(1) \/ launch.at = 1
      /\ Past(2)' => Past(2) \/ launch.at = 2
      /\ Past(4)' => Past(4) \/ launch.at = 4
      /\ Past(5)' => Past(5) \/ launch.at = 5
      /\ Past(6)' => Past(6) \/ launch.at = 6
      /\ Past(7)' => Past(7) \/ launch.at = 7
  BY <1>4, <1>5
<1>7. ~launch.dry =>
           /\ launch.at = 1 => conf = "dxmt"
           /\ launch.at = 2 => Seen("goldberg")
           /\ launch.at = 4 => launch.facts.inproc \/ staged = "arm64"
           /\ launch.at = 5 => Seen("overlay")
           /\ launch.at = 6 => launch.facts.protocol = "alvr"
           /\ launch.at = 7 => (launch.wired => Seen("wired"))
  BY <1>1, JudgedFacts
<1>8. Seen("goldberg")' = Seen("goldberg") /\ Seen("overlay")' = Seen("overlay") /\ Seen("wired")' = Seen("wired")
  BY DEF Seen
<1>9. PastInv'
  BY <1>2, <1>6, <1>7, <1>8 DEF GatesInv, PastInv
<1>10. FactsInv' /\ ResetInv'
  BY <1>2 DEF GatesInv, FactsInv, ResetInv
<1> QED
  BY <1>9, <1>10 DEF GatesInv

(* A step that passes no gate: what it changes of what a gate has judged   *)
(* is as the gate wants it, or noted as moved.                             *)
LEMMA MovedKeepsGates ==
    ASSUME GatesInv,
           \/ launch'.pc = launch.pc
           \/ launch.pc \in {"walk", "fix", "write", "recheck"} /\ launch'.pc \in {"fix", "write", "recheck"},
           launch'.at = launch.at, launch'.dry = launch.dry, launch'.wired = launch.wired,
           launch'.facts = launch.facts, launch.moved \subseteq launch'.moved,
           launch.pc = "idle" \/ \A s \in Looks : look'[s] = look[s] \/ s \in launch'.moved,
           \/ launch.pc = "idle" \/ launch.dry
           \/ conf' \in {conf, "dxmt"} /\ crossover' \in {crossover, conf, "gone"}
           \/ launch.pc = "spawn" /\ conf' = crossover /\ crossover # "gone" /\ crossover' = "gone"
           \/ "backend" \in launch'.moved,
           launch.pc = "idle" \/ staged' \in {staged, "arm64"} \/ "helper-arm64" \in launch'.moved,
           \/ launch.pc = "idle" \/ cfg' = cfg
           \/ {"protocol", "helper-staged", "helper-arm64"} \subseteq launch'.moved,
           "helper-arm64" \in launch'.moved \ launch.moved => "helper-staged" \in launch'.moved
    PROVE  GatesInv'
<1>1. CASE launch.pc = "idle"
  BY <1>1 DEF GatesInv, PastInv, Past, FactsInv, ResetInv
<1>2. CASE launch.pc # "idle"
  <2>1. \A k \in 1 .. 7 : Past(k)' <=> Past(k)
    BY <1>2 DEF Past
  <2>2. 1 \in 1 .. 7 /\ 2 \in 1 .. 7 /\ 4 \in 1 .. 7 /\ 5 \in 1 .. 7 /\ 6 \in 1 .. 7 /\ 7 \in 1 .. 7
    OBVIOUS
  <2>3. /\ Past(1)' <=> Past(1)
        /\ Past(2)' <=> Past(2)
        /\ Past(4)' <=> Past(4)
        /\ Past(5)' <=> Past(5)
        /\ Past(6)' <=> Past(6)
        /\ Past(7)' <=> Past(7)
    BY <2>1, <2>2
  <2>4. /\ Seen("goldberg") => Seen("goldberg")' \/ "goldberg" \in launch'.moved
        /\ Seen("overlay") => Seen("overlay")' \/ "overlay" \in launch'.moved
        /\ Seen("wired") => Seen("wired")' \/ "wired" \in launch'.moved
    BY <1>2 DEF Seen, Looks
  <2>5. ASSUME ~launch.dry, Past(1), launch.pc = "spawn"
        PROVE  "backend" \in launch'.moved \/ (conf' = "dxmt" /\ crossover' \in {"gone", "dxmt"})
    BY <1>2, <2>5 DEF GatesInv, ResetInv
  <2>6. ASSUME ~launch.dry, Past(1)
        PROVE  "backend" \in launch'.moved \/ conf' = "dxmt"
    BY <1>2, <2>5, <2>6 DEF GatesInv, PastInv
  <2>7. ASSUME ~launch.dry
        PROVE  /\ Past(2) => "goldberg" \in launch'.moved \/ Seen("goldberg")'
               /\ Past(5) => "overlay" \in launch'.moved \/ Seen("overlay")'
               /\ Past(7) => "wired" \in launch'.moved \/ (launch.wired => Seen("wired")')
    BY <2>4, <2>7 DEF GatesInv, PastInv
  <2>8. ASSUME ~launch.dry
        PROVE  /\ Past(4) => "helper-arm64" \in launch'.moved \/ launch.facts.inproc \/ staged' = "arm64"
               /\ Past(6) => "protocol" \in launch'.moved \/ launch.facts.protocol = "alvr"
    BY <1>2, <2>8 DEF GatesInv, PastInv
  <2>9. PastInv'
    BY <2>3, <2>6, <2>7, <2>8 DEF PastInv
  <2>10. FactsInv'
    BY <1>2 DEF GatesInv, FactsInv
  <2>11. ResetInv'
    <3>1. ASSUME launch'.pc = "spawn" PROVE launch.pc = "spawn" /\ Past(1)
      BY <3>1 DEF Past
    <3> QED
      BY <2>5, <3>1 DEF ResetInv
  <2> QED
    BY <2>9, <2>10, <2>11 DEF GatesInv
<1> QED
  BY <1>1, <1>2

(* A launch that ends, or begins, is past no gate.                         *)
LEMMA FreshLaunch ==
    ASSUME launch'.pc \in {"idle", "facts"}, launch'.moved = {}
    PROVE  GatesInv'
  BY DEF GatesInv, PastInv, Past, FactsInv, ResetInv

(* The launch.                                                             *)
LEMMA LaunchKeepsGates ==
    ASSUME FixInv, GatesInv, LaunchStep
    PROVE  GatesInv'
<1>1. launch \in LaunchState /\ cfg \in Configs
  BY DEF FixInv, PreflightTypeOK
<1>2. CASE ReadFacts
  <2>1. launch' = [launch EXCEPT !.pc = "walk", !.at = 1, !.facts = cfg]
    BY <1>2 DEF ReadFacts
  <2>2. /\ launch'.pc = "walk" /\ launch'.at = 1 /\ launch'.facts = cfg
        /\ launch'.moved = launch.moved /\ cfg' = cfg
    BY <1>1, <1>2, <2>1 DEF LaunchState, ReadFacts, machine
  <2> QED
    BY <2>2 DEF GatesInv, PastInv, Past, FactsInv, ResetInv
<1>3. CASE Gate
  <2>1. UNCHANGED <<conf, crossover, staged, cfg, look>> /\ launch.pc = "walk"
    BY <1>3 DEF Gate, machine
  <2>2. CASE Onward /\ (~Applies(Walk[launch.at]) \/ Verdict(Walk[launch.at]) \in {"pass", "warn"})
    BY <2>1, <2>2, OnwardKeepsGates
  <2>3. CASE Go("fix")
    <3>1. /\ launch'.pc = "fix" /\ launch'.at = launch.at /\ launch'.dry = launch.dry
          /\ launch'.wired = launch.wired /\ launch'.facts = launch.facts
          /\ launch'.moved = launch.moved
      BY <1>1, <2>3 DEF Go, LaunchState
    <3> QED
      BY <2>1, <3>1, MovedKeepsGates
  <2> QED
    BY <1>3, <2>2, <2>3 DEF Gate
<1>4. CASE LaunchReadsConf
  <2>1. /\ launch'.pc = "write" /\ launch'.at = launch.at /\ launch'.dry = launch.dry
        /\ launch'.wired = launch.wired /\ launch'.facts = launch.facts
        /\ launch'.moved = launch.moved /\ launch.pc = "fix"
        /\ UNCHANGED <<conf, crossover, staged, cfg, look>>
    BY <1>1, <1>4 DEF LaunchReadsConf, LaunchState, machine
  <2> QED
    BY <2>1, MovedKeepsGates
<1>5. CASE LaunchWritesConf
  <2>1. /\ launch'.pc = "recheck" /\ launch'.at = launch.at /\ launch'.dry = launch.dry
        /\ launch'.wired = launch.wired /\ launch'.facts = launch.facts
        /\ launch'.moved = launch.moved /\ launch.pc = "write"
        /\ conf' \in {conf, "dxmt"} /\ UNCHANGED <<crossover, staged, cfg, look>>
    BY <1>1, <1>5 DEF LaunchWritesConf, Go, LaunchState
  <2> QED
    BY <2>1, MovedKeepsGates
<1>6. CASE LaunchRestages
  <2>1. /\ launch'.pc = "recheck" /\ launch'.at = launch.at /\ launch'.dry = launch.dry
        /\ launch'.wired = launch.wired /\ launch'.facts = launch.facts
        /\ launch'.moved = launch.moved /\ launch.pc = "fix"
    BY <1>1, <1>6 DEF LaunchRestages, Go, LaunchState
  <2>2. staged' \in {staged, "arm64"} /\ UNCHANGED <<conf, crossover, cfg, look>>
    BY <1>6 DEF LaunchRestages, Restaged
  <2> QED
    BY <2>1, <2>2, MovedKeepsGates
<1>7. CASE Recheck
  <2>1. /\ launch.pc = "recheck" /\ Onward /\ UNCHANGED <<conf, crossover, staged, cfg, look>>
        /\ launch.dry \/ Verdict(Walk[launch.at]) = "pass"
    BY <1>7 DEF Recheck, machine
  <2> QED
    BY <2>1, OnwardKeepsGates
<1>8. CASE Reset
  <2>1. /\ launch'.pc = "spawn" /\ launch'.at = launch.at /\ launch'.dry = launch.dry
        /\ launch'.wired = launch.wired /\ launch'.facts = launch.facts
        /\ launch'.moved = launch.moved /\ launch.pc = "reset"
    BY <1>1, <1>8 DEF Reset, Go, LaunchState
  <2>2. UNCHANGED <<conf, staged, cfg, look>> /\ (~launch.dry => crossover' = "gone")
    BY <1>8 DEF Reset
  <2>3. PastInv'
    BY <2>1, <2>2 DEF GatesInv, PastInv, Past, Seen
  <2>4. FactsInv'
    BY <2>1, <2>2 DEF GatesInv, FactsInv
  <2>5. ResetInv'
    BY <2>1, <2>2 DEF GatesInv, PastInv, Past, ResetInv
  <2> QED
    BY <2>3, <2>4, <2>5 DEF GatesInv
<1>9. CASE Spawn \/ LaunchEnds
  <2>1. launch' = NoLaunch
    BY <1>9 DEF Spawn, LaunchEnds
  <2> QED
    BY <2>1, FreshLaunch DEF NoLaunch
<1> QED
  BY <1>2, <1>3, <1>4, <1>5, <1>6, <1>7, <1>8, <1>9 DEF LaunchStep

(* A fix: it writes no other backend, and restages no worse helper.        *)
LEMMA FixerKeepsGates ==
    ASSUME GatesInv, FixStep
    PROVE  GatesInv'
<1>1. UNCHANGED <<launch, crossover, cfg, look>>
  BY DEF FixStep, LockFix, ReadConf, ProbeWineserver, WriteConf, RestageHelper, FindPins, ReadPins,
         BackUpPins, RemovePins, FixEnds, machine
<1>2. conf' \in {conf, "dxmt"} /\ staged' \in {staged, "arm64"}
  BY DEF FixStep, LockFix, ReadConf, ProbeWineserver, WriteConf, RestageHelper, Restaged, FindPins,
         ReadPins, BackUpPins, RemovePins, FixEnds, machine
<1> QED
  BY <1>1, <1>2, MovedKeepsGates

(* Nothing a gate judges is touched.                                       *)
LEMMA UntouchedGates ==
    ASSUME GatesInv, UNCHANGED <<launch, conf, crossover, staged, cfg, look>>
    PROVE  GatesInv'
  BY MovedKeepsGates

(* The backend is changed under the launch.                                *)
LEMMA BackendMoved ==
    ASSUME FixInv, GatesInv, Moves({"backend"}), UNCHANGED <<staged, cfg, look>>
    PROVE  GatesInv'
<1>1. launch \in LaunchState /\ {"backend"} \in SUBSET Slugs
  BY DEF FixInv, PreflightTypeOK, Slugs
<1>2. /\ launch'.pc = launch.pc /\ launch'.at = launch.at /\ launch'.dry = launch.dry
      /\ launch'.wired = launch.wired /\ launch'.facts = launch.facts
      /\ launch'.moved = IF launch.pc = "idle" THEN launch.moved ELSE launch.moved \cup {"backend"}
  BY <1>1, MovesFacts
<1>3. /\ launch.moved \subseteq launch'.moved
      /\ "helper-arm64" \notin launch'.moved \ launch.moved
      /\ launch.pc = "idle" \/ "backend" \in launch'.moved
  BY <1>2
<1> QED
  BY <1>2, <1>3, MovedKeepsGates

(* An outsider: what it changes under a launch is noted as moved.          *)
LEMMA OutsidersKeepGates ==
    ASSUME FixInv, GatesInv,
           \/ CrossOverOpens \/ CrossOverCloses \/ UserPicksBackend
           \/ ShellStarts \/ ShellUp \/ GameEnds \/ Outsider
    PROVE  GatesInv'
<1>1. launch \in LaunchState /\ staged \in {"none", "bad", "arm64"}
      /\ look \in [Looks -> {"pass", "fail", "unknown"}]
  BY DEF FixInv, PreflightTypeOK
<1>2. ASSUME NEW slugs \in SUBSET Slugs, Moves(slugs)
      PROVE  /\ launch'.pc = launch.pc /\ launch'.at = launch.at /\ launch'.dry = launch.dry
             /\ launch'.wired = launch.wired /\ launch'.facts = launch.facts
             /\ launch'.moved = IF launch.pc = "idle" THEN launch.moved ELSE launch.moved \cup slugs
  BY <1>1, <1>2, MovesFacts
<1>3. CASE CrossOverOpens
  <2>1. /\ Moves({}) /\ crossover' = conf /\ UNCHANGED <<conf, staged, cfg, look>>
    BY <1>3 DEF CrossOverOpens, Upset
  <2> QED
    BY <1>2, <2>1, MovedKeepsGates
<1>4. CASE CrossOverCloses
  <2>1. /\ Moves(IF launch.pc = "spawn" THEN {} ELSE {"backend"})
        /\ conf' = crossover /\ crossover' = "gone" /\ crossover # "gone"
        /\ UNCHANGED <<staged, cfg, look>>
    BY <1>4 DEF CrossOverCloses
  <2>2. CASE launch.pc = "spawn"
    BY <1>2, <2>1, <2>2, MovedKeepsGates
  <2>3. CASE launch.pc # "spawn"
    <3>1. Moves({"backend"})
      BY <2>1, <2>3
    <3> QED
      BY <2>1, <3>1, BackendMoved
  <2> QED
    BY <2>2, <2>3
<1>5. CASE UserPicksBackend
  <2>1. Moves({"backend"}) /\ UNCHANGED <<staged, cfg, look>>
    BY <1>5 DEF UserPicksBackend, Upset
  <2> QED
    BY <2>1, BackendMoved
<1>6. CASE ShellStarts
  <2>1. Moves({}) /\ UNCHANGED <<conf, crossover, staged, cfg, look>>
    BY <1>6 DEF ShellStarts, Upset
  <2> QED
    BY <1>2, <2>1, MovedKeepsGates
<1>7. CASE ShellUp \/ GameEnds
  <2>1. UNCHANGED <<launch, conf, crossover, staged, cfg, look>>
    BY <1>7 DEF ShellUp, GameEnds
  <2> QED
    BY <2>1, UntouchedGates
<1>8. CASE Outsider
  <2>1. UNCHANGED <<conf, crossover>>
    BY <1>8 DEF Outsider
  <2>2. CASE Moves({"protocol", "helper-staged", "helper-arm64"}) /\ UNCHANGED <<staged, look>>
    <3>1. {"protocol", "helper-staged", "helper-arm64"} \in SUBSET Slugs
      BY DEF Slugs
    <3>2. /\ launch'.pc = launch.pc /\ launch'.at = launch.at /\ launch'.dry = launch.dry
          /\ launch'.wired = launch.wired /\ launch'.facts = launch.facts
          /\ launch.moved \subseteq launch'.moved
      BY <1>2, <2>2, <3>1
    <3>3. launch.pc = "idle" \/ {"protocol", "helper-staged", "helper-arm64"} \subseteq launch'.moved
      BY <1>2, <2>2, <3>1
    <3>4. "helper-arm64" \in launch'.moved \ launch.moved => "helper-staged" \in launch'.moved
      BY <1>2, <2>2, <3>1
    <3> QED
      BY <2>1, <2>2, <3>2, <3>3, <3>4, MovedKeepsGates
  <2>3. CASE Moves({"helper-staged", "helper-arm64"}) /\ UNCHANGED <<cfg, look>>
    <3>1. {"helper-staged", "helper-arm64"} \in SUBSET Slugs
      BY DEF Slugs
    <3>2. /\ launch'.pc = launch.pc /\ launch'.at = launch.at /\ launch'.dry = launch.dry
          /\ launch'.wired = launch.wired /\ launch'.facts = launch.facts
          /\ launch.moved \subseteq launch'.moved
      BY <1>2, <2>3, <3>1
    <3>3. launch.pc = "idle" \/ "helper-arm64" \in launch'.moved
      BY <1>2, <2>3, <3>1
    <3>4. "helper-arm64" \in launch'.moved \ launch.moved => "helper-staged" \in launch'.moved
      BY <1>2, <2>3, <3>1
    <3> QED
      BY <2>1, <2>3, <3>2, <3>3, <3>4, MovedKeepsGates
  <2>4. ASSUME NEW s \in Looks, look' = [look EXCEPT ![s] = "fail"], Moves({s}), UNCHANGED <<cfg, staged>>
        PROVE  GatesInv'
    <3>1. \A t \in Looks : look'[t] = look[t] \/ t = s
      BY <1>1, <2>4
    <3>2. s \notin {"helper-arm64", "helper-staged"} /\ {s} \in SUBSET Slugs
      BY DEF Looks, Slugs
    <3> QED
      BY <1>2, <2>1, <2>4, <3>1, <3>2, MovedKeepsGates
  <2> QED
    BY <1>8, <2>2, <2>3, <2>4 DEF Outsider, UserEdits, Upset
<1> QED
  BY <1>3, <1>4, <1>5, <1>6, <1>7, <1>8

(* Every step.                                                             *)
LEMMA GatesNextInv ==
    FixInv /\ GatesInv /\ [PreflightNext]_preflightVars => FixInv' /\ GatesInv'
<1> SUFFICES ASSUME FixInv, GatesInv, [PreflightNext]_preflightVars PROVE FixInv' /\ GatesInv'
  OBVIOUS
<1>1. FixInv'
  BY FixNextInv
<1>2. ASSUME NEW dry \in BOOLEAN, NEW wired \in BOOLEAN, BeginLaunch(dry, wired)
      PROVE  GatesInv'
  <2>1. launch' = [NoLaunch EXCEPT !.pc = "facts", !.dry = dry, !.wired = wired]
    BY <1>2 DEF BeginLaunch
  <2> QED
    BY <2>1, FreshLaunch DEF NoLaunch
<1>3. ASSUME NEW f \in Fixes, AskFix(f) PROVE GatesInv'
  <2>1. UNCHANGED <<launch, conf, crossover, staged, cfg, look>>
    BY <1>3 DEF AskFix, machine
  <2> QED
    BY <2>1, UntouchedGates
<1>4. ASSUME UNCHANGED preflightVars PROVE GatesInv'
  <2>1. UNCHANGED <<launch, conf, crossover, staged, cfg, look>>
    BY <1>4 DEF preflightVars, machine
  <2> QED
    BY <2>1, UntouchedGates
<1> QED
  BY <1>1, <1>2, <1>3, <1>4, LaunchKeepsGates, FixerKeepsGates, OutsidersKeepGates DEF PreflightNext

(* A game starts on a machine that is as every gate wants it, the repaired *)
(* ones included, but for what an outsider has changed under that launch   *)
(* (preflight.rs, run/mod.rs).                                             *)
THEOREM LaunchesAreVerified == PreflightSpec => LaunchIsVerified
<1> DEFINE Verified == Spawn => \A i \in 1 .. Len(Walk) : Walk[i] \in launch.moved \/ Holds(Walk[i])
<1>1. ASSUME FixInv, GatesInv, Spawn, NEW i \in 1 .. Len(Walk)
      PROVE  Walk[i] \in launch.moved \/ Holds(Walk[i])
  <2>1. ~launch.dry /\ launch.pc = "spawn" /\ \A k \in 1 .. 7 : Past(k)
    BY <1>1 DEF Spawn, Past
  <2>2. /\ "backend" \in launch.moved \/ conf = "dxmt"
        /\ "goldberg" \in launch.moved \/ Seen("goldberg")
        /\ "helper-arm64" \in launch.moved \/ launch.facts.inproc \/ staged = "arm64"
        /\ "overlay" \in launch.moved \/ Seen("overlay")
        /\ "protocol" \in launch.moved \/ launch.facts.protocol = "alvr"
        /\ "wired" \in launch.moved \/ (launch.wired => Seen("wired"))
    BY <1>1, <2>1 DEF GatesInv, PastInv
  <2>3. /\ launch.facts = cfg \/ {"protocol", "helper-staged", "helper-arm64"} \subseteq launch.moved
        /\ "helper-arm64" \in launch.moved => "helper-staged" \in launch.moved
    BY <1>1, <2>1 DEF GatesInv, FactsInv
  <2>4. CASE Walk[i] = "backend"
    BY <2>2, <2>4 DEF Holds
  <2>5. CASE Walk[i] \in Looks
    BY <2>2, <2>5 DEF Holds, Seen, Looks
  <2>6. CASE Walk[i] \in {"helper-staged", "helper-arm64"}
    BY <2>2, <2>3, <2>6 DEF Holds
  <2>7. CASE Walk[i] = "protocol"
    BY <2>2, <2>3, <2>7 DEF Holds
  <2>8. Walk[i] \in {"backend", "helper-staged", "helper-arm64", "protocol"} \cup Looks
    BY <1>1, WalkFacts DEF Looks
  <2> QED
    BY <2>4, <2>5, <2>6, <2>7, <2>8
<1>2. FixInv /\ GatesInv => [Verified]_preflightVars
  BY <1>1
<1> HIDE DEF Verified
<1>3. PreflightSpec => [][Verified]_preflightVars
  BY <1>2, PreflightInitInv, GatesNextInv, PTL DEF PreflightSpec
<1> QED
  BY <1>3 DEF LaunchIsVerified, Verified
=============================================================================
