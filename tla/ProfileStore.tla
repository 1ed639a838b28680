---------------------------- MODULE ProfileStore ----------------------------
(***************************************************************************)
(* The opcode profile file and everything that rewrites it: calibration    *)
(* (update_profile, reset_profile), the promotion of learned companion     *)
(* families, the Agris, XP and character sections, and the installation of *)
(* a profile fetched from a server.  Writers are processes: each reads the *)
(* file, merges its own section, backs the file up and replaces it by a    *)
(* temporary file.  A step may fail with an I/O error, a process may die.  *)
(*                                                                         *)
(* A document keeps one value per section; a layout is a model value, with *)
(* the message lengths it decodes.  Formatting, hashing and the transport  *)
(* are left out: a fetched document is any document of Fetched.            *)
(***************************************************************************)
EXTENDS Naturals, FiniteSets, Sequences

CONSTANTS
    Writers,    \* the processes that rewrite the file
    Layouts,    \* decodable layouts of an event
    Bare,       \* layouts without the fields the decoder requires
    Lengths,    \* the message lengths each layout decodes
    Families,   \* learned companion families
    Updates,    \* the calls of update_profile that are made
    Fetched,    \* the documents a server may answer with
    Files,      \* the profile files the project may start from
    None, Broken,   \* no value or no file; a file no loader accepts
    MaxOps, MaxFaults   \* bounds: operations begun, failures and crashes

VARIABLES
    file,       \* what the path holds: a document, None or Broken
    backups,    \* opcodes_backups: for each name, what was copied and whether it is whole
    clock,      \* the stamp of the last backup name
    temp,       \* the temporary file of each writer: None, "partial" or "whole"
    litter,     \* temporary files dead processes left
    op, pc,     \* the operation of each writer and where it stands
    orig, data, \* what it read and what it will write
    name,       \* the backup name it chose
    fresh,      \* history: nobody replaced the file since the writer last looked at it
    count, faults

vars == <<file, backups, clock, temp, litter, op, pc, orig, data, name, fresh, count, faults>>
local == <<op, orig, data>>

-----------------------------------------------------------------------------
(* Documents and what the loaders accept of them.                          *)

Events == {"LOOT_PREVIEW", "INVENTORY_TRANSFER", "SOURCE_STACK_DECREMENT", "STORAGE_ITEM_DELTA"}
TransferEvents == Events \ {"LOOT_PREVIEW"}
Sections == {"specs", "families", "agris", "xp", "characters"}

\* What the loader accepts in each section.  A character layout it cannot read
\* does not spoil the rest of the document: it is kept as an error.
Entries == SUBSET (Layouts \cup Bare)
FamilySection == SUBSET Families
AgrisSection == Layouts \cup {None}
XpSection == Layouts \cup {None}
CharacterSection == Layouts \cup {None, Broken}

Document == [active : BOOLEAN, specs : [Events -> Entries], families : FamilySection,
             agris : AgrisSection, xp : XpSection, characters : CharacterSection]

Loads(d) == d \notin {None, Broken}

Empty == [active |-> TRUE, specs |-> [e \in Events |-> {}], families |-> {},
          agris |-> None, xp |-> None, characters |-> None]

\* an entry without the offsets its event needs gives the decoder no layout
Undecodable(entries) == entries \cap Bare # {}

\* one message of a loot opcode must select one layout
LootClear(entries) ==
    /\ ~ Undecodable(entries)
    /\ \A a, b \in entries : a # b => Lengths[a] \cap Lengths[b] = {}

Decodable(d) ==
    /\ \A e \in TransferEvents : ~ Undecodable(d.specs[e])
    /\ LootClear(d.specs["LOOT_PREVIEW"])

Runs(d) == Loads(d) /\ d.active /\ Decodable(d)

\* the loot layouts of an active document are told apart
Sound(d) == d.active => LootClear(d.specs["LOOT_PREVIEW"])

StoreAssumption ==
    /\ None \notin Layouts \cup Bare
    /\ None \notin Document /\ Broken \notin Document /\ None # Broken
    /\ Lengths \in [Layouts -> SUBSET Nat]
    /\ Fetched \subseteq Document \cup {Broken}
    /\ Files \subseteq {d \in Document : Sound(d)} \cup {None, Broken}
    /\ {MaxOps, MaxFaults} \subseteq Nat

-----------------------------------------------------------------------------
(* What each operation makes of the document it read.                      *)

ActionEvents(action) ==
    CASE action = "loot-preview" -> {"LOOT_PREVIEW"}
      [] action = "storage-to-inventory" -> {"INVENTORY_TRANSFER"}
      [] action = "inventory-to-storage" -> {"SOURCE_STACK_DECREMENT", "STORAGE_ITEM_DELTA"}
      [] OTHER -> TransferEvents

\* the families an automatic calibration may not leave out
Incomplete(u) ==
    LET observed == {s[1] : s \in u.specs}
    IN /\ u.calibrated
       /\ u.action = "auto"
       /\ observed \cap TransferEvents # {}
       /\ ~ TransferEvents \subseteq observed

ReplacedEvents(u) ==
    IF ~ u.replace THEN {}
    ELSE IF u.entire THEN ActionEvents(u.action) ELSE {s[1] : s \in u.specs}

Updated(u, d) ==
    [d EXCEPT !.active = TRUE,
              !.specs = [e \in Events |->
                            (IF e \in ReplacedEvents(u) THEN {} ELSE d.specs[e])
                                \cup {l \in Layouts \cup Bare : <<e, l>> \in u.specs}]]

\* nothing was added and no family with entries was cleared
Unchanged(u, d) ==
    /\ \A s \in u.specs : s[2] \in d.specs[s[1]] /\ s[1] \notin ReplacedEvents(u)
    /\ \A e \in ReplacedEvents(u) : d.specs[e] = {}

UpdateUnchecked(u, d) == Incomplete(u) \/ u.specs = {} \/ Unchanged(u, d)

UpdateRefused(u, d) ==
    \/ Incomplete(u)
    \/ u.specs = {}
    \/ Unchanged(u, d)
    \/ ~ LootClear(Updated(u, d).specs["LOOT_PREVIEW"])

\* a missing file is an empty, inactive document to update_profile and an
\* empty active one to update_character_profile; the other writers need a file
Opened(o, d) ==
    IF d = None THEN [Empty EXCEPT !.active = o.kind = "characters"] ELSE d

Merged(o, d) ==
    CASE o.kind = "update" -> Updated(o.update, d)
      [] o.kind = "promote" -> [d EXCEPT !.families = @ \cup o.value]
      [] o.kind = "agris" -> [d EXCEPT !.agris = o.value]
      [] o.kind = "xp" -> [d EXCEPT !.xp = o.value]
      [] o.kind = "characters" -> [d EXCEPT !.characters = o.value]

PromotionRefused(o, d) == d = None \/ o.value \subseteq d.families

\* calibrate_agris_and_update expects the file its calibration started from
AgrisRefused(o, d) == ~ Runs(d) \/ o.expected \notin {None, d} \/ d.agris = o.value

XpRefused(o, d) == ~ Runs(d) \/ o.expected \notin {None, d} \/ d.xp = o.value

CharactersRefused(o, d) == Opened(o, d).characters = o.value

Refused(o, d) ==
    \/ d = Broken
    \/ o.kind = "update" /\ UpdateRefused(o.update, Opened(o, d))
    \/ o.kind = "promote" /\ PromotionRefused(o, d)
    \/ o.kind = "agris" /\ AgrisRefused(o, d)
    \/ o.kind = "xp" /\ XpRefused(o, d)
    \/ o.kind = "characters" /\ CharactersRefused(o, d)

\* the envelope arrives, decodes and has the digest it declares
EnvelopeOK(answer) == answer # Broken

\* the writers that read the file again before they save
Rechecks(o) == o.kind \in {"agris", "xp", "characters"}

Owned(o) ==
    CASE o.kind = "update" -> {"specs"}
      [] o.kind = "promote" -> {"families"}
      [] o.kind \in {"agris", "xp", "characters"} -> {o.kind}
      [] OTHER -> Sections

-----------------------------------------------------------------------------
(* The operations that are begun.                                          *)

Operations ==
    [kind : {"update"}, update : Updates, backup : BOOLEAN]
    \cup [kind : {"reset"}, backup : BOOLEAN]
    \cup [kind : {"promote"}, value : SUBSET Families \ {{}}, backup : BOOLEAN]
    \cup [kind : {"agris"}, value : Layouts, expected : {None, file}, backup : BOOLEAN]
    \cup [kind : {"xp"}, value : Layouts, expected : {None, file}, backup : {TRUE}]
    \cup [kind : {"characters"}, value : Layouts, backup : {TRUE}]
    \cup [kind : {"fetch"}, value : Fetched, backup : BOOLEAN]

NoOp == [kind |-> "none", backup |-> FALSE]

Init ==
    /\ file \in Files
    /\ backups = [n \in {} |-> None]
    /\ clock = 0
    /\ temp = [w \in Writers |-> None]
    /\ op = [w \in Writers |-> NoOp]
    /\ pc = [w \in Writers |-> "idle"]
    /\ orig = [w \in Writers |-> None]
    /\ data = [w \in Writers |-> None]
    /\ name = [w \in Writers |-> None]
    /\ litter = 0
    /\ fresh = [w \in Writers |-> FALSE]
    /\ count = 0
    /\ faults = 0

\* the operation returns or raises: its locals are gone
Return(w) ==
    /\ pc' = [pc EXCEPT ![w] = "idle"]
    /\ op' = [op EXCEPT ![w] = NoOp]
    /\ orig' = [orig EXCEPT ![w] = None]
    /\ data' = [data EXCEPT ![w] = None]
    /\ name' = [name EXCEPT ![w] = None]

Goto(w, label) == pc' = [pc EXCEPT ![w] = label]

\* calibrate_agris_and_update remembers the digest of the file it started from;
\* a fetch and a reset do not read the file at all
Begin(w, o) ==
    /\ pc[w] = "idle"
    /\ count < MaxOps
    /\ count' = count + 1
    /\ o.kind = "fetch" => EnvelopeOK(o.value)
    /\ op' = [op EXCEPT ![w] = o]
    /\ CASE o.kind = "fetch" -> data' = [data EXCEPT ![w] = o.value] /\ Goto(w, "temp")
         [] o.kind = "reset" -> data' = [data EXCEPT ![w] = Empty] /\ Goto(w, "backup")
         [] OTHER -> Goto(w, "read") /\ UNCHANGED data
    /\ UNCHANGED <<file, backups, clock, temp, litter, orig, name, faults>>
    /\ fresh' = [fresh EXCEPT ![w] = TRUE]

Read(w) ==
    /\ pc[w] = "read"
    /\ IF Refused(op[w], file) THEN Return(w)
       ELSE /\ orig' = [orig EXCEPT ![w] = file]
            /\ data' = [data EXCEPT ![w] = Merged(op[w], Opened(op[w], file))]
            /\ Goto(w, IF Rechecks(op[w]) THEN "recheck" ELSE "backup")
            /\ UNCHANGED <<op, name>>
    /\ fresh' = [fresh EXCEPT ![w] = TRUE]
    /\ UNCHANGED <<file, backups, clock, temp, litter, count, faults>>

Recheck(w) ==
    /\ pc[w] = "recheck"
    /\ IF file # orig[w] THEN Return(w)
       ELSE Goto(w, "backup") /\ UNCHANGED <<op, orig, data, name>>
    /\ fresh' = [fresh EXCEPT ![w] = TRUE]
    /\ UNCHANGED <<file, backups, clock, temp, litter, count, faults>>

\* a fetch validates its temporary file first and so has only the replacement left
AfterBackup(o) == IF o.kind = "fetch" THEN "replace" ELSE "temp"

\* next_backup_path takes the first free suffix of the stamp
FreeName(stamp) ==
    <<stamp, CHOOSE k \in 0 .. MaxOps : <<stamp, k>> \notin DOMAIN backups
                 /\ \A j \in 0 .. k - 1 : <<stamp, j>> \in DOMAIN backups>>

\* _unique_backup_path does not look at what exists
BackupName(o, stamp) == IF o.kind = "promote" THEN <<stamp, 0>> ELSE FreeName(stamp)

\* The clock may not have moved since the last backup, but operations that
\* overlap take different stamps.  update_character_profile decides by
\* the file it read, the others by the file that is there.
Backup(w) ==
    /\ pc[w] = "backup"
    /\ IF op[w].backup /\ (IF op[w].kind = "characters" THEN orig[w] ELSE file) # None
       THEN \E stamp \in {clock, clock + 1} :
              /\ stamp = clock => \A v \in Writers \ {w} : pc[v] = "idle"
              /\ clock' = stamp
              /\ name' = [name EXCEPT ![w] = BackupName(op[w], stamp)]
              /\ Goto(w, "copy")
       ELSE Goto(w, AfterBackup(op[w])) /\ UNCHANGED <<clock, name>>
    /\ UNCHANGED <<file, backups, temp, litter, local, fresh, count, faults>>

Put(n, copy) == backups' = [m \in DOMAIN backups \cup {n} |-> IF m = n THEN copy ELSE backups[m]]

\* shutil.copy2 is not atomic: the copy is partial until it is complete
Copy(w) ==
    /\ pc[w] = "copy"
    /\ Put(name[w], [of |-> file, whole |-> FALSE])
    /\ Goto(w, "copying")
    /\ UNCHANGED <<file, clock, temp, litter, local, name, fresh, count, faults>>

Copied(w) ==
    /\ pc[w] = "copying"
    /\ Put(name[w], [backups[name[w]] EXCEPT !.whole = TRUE])
    /\ Goto(w, AfterBackup(op[w]))
    /\ UNCHANGED <<file, clock, temp, litter, local, name, fresh, count, faults>>

OpenInPlace(w) ==
    /\ pc[w] = "temp"
    /\ file' = Broken
    /\ temp' = [temp EXCEPT ![w] = "partial"]
    /\ Goto(w, "write")
    /\ UNCHANGED <<backups, clock, litter, local, name, fresh, count, faults>>

OpenTemp(w) ==
    /\ pc[w] = "temp"
    /\ temp' = [temp EXCEPT ![w] = "partial"]
    /\ Goto(w, "write")
    /\ UNCHANGED <<file, backups, clock, litter, local, name, fresh, count, faults>>

\* write, flush and fsync
WriteTemp(w) ==
    /\ pc[w] = "write"
    /\ temp' = [temp EXCEPT ![w] = "whole"]
    /\ Goto(w, IF op[w].kind = "fetch" THEN "validate" ELSE "replace")
    /\ UNCHANGED <<file, backups, clock, litter, local, name, fresh, count, faults>>

Acceptable(d) == Runs(d)

\* fetch_opcode_profile loads the temporary file as the runtime would
Validate(w) ==
    /\ pc[w] = "validate"
    /\ IF Acceptable(data[w]) THEN Goto(w, "backup") /\ UNCHANGED <<temp, op, orig, data, name>>
       ELSE Return(w) /\ temp' = [temp EXCEPT ![w] = None]
    /\ UNCHANGED <<file, backups, clock, litter, fresh, count, faults>>

\* os.replace
Replace(w) ==
    /\ pc[w] = "replace"
    /\ file' = IF temp[w] = "whole" THEN data[w] ELSE Broken
    /\ temp' = [temp EXCEPT ![w] = None]
    /\ fresh' = [v \in Writers |-> FALSE]
    /\ Return(w)
    /\ UNCHANGED <<backups, clock, litter, count, faults>>

\* an I/O error: the finally block removes the temporary file
Fail(w) ==
    /\ pc[w] \in {"copy", "copying", "temp", "write", "replace"}
    /\ faults < MaxFaults
    /\ faults' = faults + 1
    /\ temp' = [temp EXCEPT ![w] = None]
    /\ Return(w)
    /\ UNCHANGED <<file, backups, clock, litter, fresh, count>>

\* the process dies and its temporary file stays, under a name of its own
Crash(w) ==
    /\ pc[w] # "idle"
    /\ faults < MaxFaults
    /\ faults' = faults + 1
    /\ litter' = litter + (IF temp[w] = None THEN 0 ELSE 1)
    /\ temp' = [temp EXCEPT ![w] = None]
    /\ Return(w)
    /\ UNCHANGED <<file, backups, clock, fresh, count>>

Next ==
    \E w \in Writers :
        \/ \E o \in Operations : Begin(w, o)
        \/ Read(w) \/ Recheck(w) \/ Backup(w) \/ Copy(w) \/ Copied(w)
        \/ OpenTemp(w) \/ WriteTemp(w) \/ Validate(w) \/ Replace(w)
        \/ Fail(w) \/ Crash(w)

Spec == Init /\ [][Next]_vars

-----------------------------------------------------------------------------
(* What the store promises.                                                *)

Labels == {"idle", "read", "recheck", "backup", "copy", "copying", "temp", "write",
           "validate", "replace"}

\* The file is a document, absent or what the project started with, and a
\* temporary file belongs to a writer that is at work (atomic_write_text,
\* fetch_opcode_profile): only a dead process leaves one.
StoreTypeOK ==
    /\ file \in Document \cup {None, Broken}
    /\ \A n \in DOMAIN backups : n \in Nat \X Nat /\ backups[n].of \in Document \cup {Broken}
    /\ clock \in Nat /\ litter \in 0 .. faults
    /\ pc \in [Writers -> Labels]
    /\ data \in [Writers -> Document \cup {None}]
    /\ \A w \in Writers : temp[w] # None => pc[w] \notin {"idle", "read", "recheck", "temp"}

\* An active profile never has two loot layouts that decode messages of one
\* length: whichever of the writers wrote it, merged it or activated it
\* (persistence.py _validate_loot_profile_entries before the backup, fetch's
\* validation of the temporary file).
LootDecidable ==
    Loads(file) => Sound(file)

\* A profile that loads never becomes one that does not: whatever the writers
\* interleave, fail at or die at, the path holds the old document or a whole
\* new one (_profile_io.py atomic_write_text, remote_profiles.py os.replace).
KeepsLoading == Loads(file) => Loads(file')

\* this step is the writer's replacement of the file
Saves(w) == pc[w] = "replace" /\ pc'[w] = "idle" /\ file' # file

\* A writer that merges one section keeps the others as they are in the file:
\* if nobody replaced the file since the writer last looked at it, nothing but
\* its section changes.  For the writers that read the file again before they
\* save, the last look is that second read.
MergesOnly ==
    \A w \in Writers :
        (Saves(w) /\ fresh[w]) =>
            \A s \in Sections \ Owned(op[w]) : file'[s] = Opened(op[w], file)[s]

\* What a writer with a backup replaces is in a complete backup, and a complete
\* backup is never written again, except by a promotion that falls on the same
\* stamp: _unique_backup_path does not look for a free name.
BacksUp ==
    /\ \A w \in Writers :
           (Saves(w) /\ file # None /\ fresh[w] /\ op[w].backup) =>
               \E n \in DOMAIN backups : backups[n] = [of |-> file, whole |-> TRUE]
    /\ \A n \in DOMAIN backups :
           backups[n].whole =>
               \/ backups'[n] = backups[n]
               \/ \E w \in Writers : op[w].kind = "promote" /\ name[w] = n
=============================================================================
