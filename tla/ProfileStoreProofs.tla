-------------------------- MODULE ProfileStoreProofs --------------------------
(***************************************************************************)
(* For any number of processes that rewrite a profile, any layouts and any *)
(* number of failures and crashes: a file that loads stays one, and one    *)
(* that is active never has two loot layouts for messages of one length.   *)
(*                                                                         *)
(* What is in the file depends on what the writers carry, so the invariant *)
(* follows a document from where it is read, or fetched, to where it       *)
(* replaces the file: it is sound from the moment it was merged from a     *)
(* sound one or was validated, and whole before it can replace anything.   *)
(***************************************************************************)
EXTENDS ProfileStore, TLAPS

Mergers == {"update", "promote", "agris", "xp", "characters"}

Typed(o) ==
    /\ o.kind = "promote" => o.value \subseteq Families
    /\ o.kind \in {"agris", "xp", "characters"} => o.value \in Layouts

Good(d) == d \in Document /\ Sound(d)

(* What a writer carries, by its label.                                     *)
Carries(w) ==
    /\ Typed(op[w])
    /\ pc[w] \in {"read", "recheck"} => op[w].kind \in Mergers
    /\ pc[w] \in {"recheck", "backup", "copy", "copying"} => Good(data[w])
    /\ pc[w] \in {"temp", "write"} =>
         data[w] \in Document /\ (op[w].kind # "fetch" => Good(data[w]))
    /\ pc[w] = "validate" =>
         op[w].kind = "fetch" /\ data[w] \in Document /\ temp[w] = "whole"
    /\ pc[w] \in {"backup", "copy", "copying"} /\ op[w].kind = "fetch" => temp[w] = "whole"
    /\ pc[w] = "replace" => Good(data[w]) /\ temp[w] = "whole"

Local == DOMAIN pc = Writers /\ DOMAIN op = Writers /\ DOMAIN data = Writers /\ DOMAIN temp = Writers

Inv ==
    /\ file \in Document \cup {None, Broken} /\ LootDecidable
    /\ Local
    /\ \A w \in Writers : Carries(w)

-----------------------------------------------------------------------------
(* A document without layouts is sound.                                     *)
LEMMA EmptyGood == Good(Empty) /\ \A a \in BOOLEAN : Good([Empty EXCEPT !.active = a])
  BY DEF Good, Sound, Document, Empty, LootClear, Undecodable, Entries, FamilySection,
         AgrisSection, XpSection, CharacterSection, Events

(* What a writer merges into a sound document, or into none, is sound, as   *)
(* long as it refuses what it must (persistence.py                          *)
(* _validate_loot_profile_entries).                                         *)
LEMMA MergedGood ==
  ASSUME NEW o, Typed(o), o.kind \in Mergers,
         NEW d \in Document \cup {None}, d # None => Sound(d),
         None \notin Document,
         ~Refused(o, d)
  PROVE  Good(Merged(o, Opened(o, d)))
<1> DEFINE e == Opened(o, d)
<1>1. Good(e)
  <2>1. CASE d = None
    BY <2>1, EmptyGood DEF Opened
  <2>2. CASE d # None
    BY <2>2 DEF Opened, Good
  <2> QED BY <2>1, <2>2
<1> HIDE DEF e
<1>2. CASE o.kind = "update"
  <2>1. Merged(o, e) = Updated(o.update, e)
    BY <1>2 DEF Merged
  <2>2. LootClear(Updated(o.update, e).specs["LOOT_PREVIEW"])
    BY <1>2 DEF Refused, UpdateRefused, e
  <2>3. Updated(o.update, e) \in Document
    BY <1>1 DEF Good, Updated, Document, Entries
  <2> QED BY <2>1, <2>2, <2>3 DEF Good, Sound, e
<1>3. CASE o.kind = "promote"
  <2>1. Merged(o, e) = [e EXCEPT !.families = e.families \cup o.value]
    BY <1>3 DEF Merged
  <2>2. [e EXCEPT !.families = e.families \cup o.value] \in Document
    BY <1>1, <1>3 DEF Good, Document, FamilySection, Typed
  <2>3. Sound([e EXCEPT !.families = e.families \cup o.value])
    BY <1>1 DEF Good, Sound, Document
  <2> QED BY <2>1, <2>2, <2>3 DEF Good, e
<1>4. CASE o.kind = "agris"
  <2>1. Merged(o, e) = [e EXCEPT !.agris = o.value]
    BY <1>4 DEF Merged
  <2>2. [e EXCEPT !.agris = o.value] \in Document
    BY <1>1, <1>4 DEF Good, Document, AgrisSection, Typed
  <2>3. Sound([e EXCEPT !.agris = o.value])
    BY <1>1 DEF Good, Sound, Document
  <2> QED BY <2>1, <2>2, <2>3 DEF Good, e
<1>5. CASE o.kind = "xp"
  <2>1. Merged(o, e) = [e EXCEPT !.xp = o.value]
    BY <1>5 DEF Merged
  <2>2. [e EXCEPT !.xp = o.value] \in Document
    BY <1>1, <1>5 DEF Good, Document, XpSection, Typed
  <2>3. Sound([e EXCEPT !.xp = o.value])
    BY <1>1 DEF Good, Sound, Document
  <2> QED BY <2>1, <2>2, <2>3 DEF Good, e
<1>6. CASE o.kind = "characters"
  <2>1. Merged(o, e) = [e EXCEPT !.characters = o.value]
    BY <1>6 DEF Merged
  <2>2. [e EXCEPT !.characters = o.value] \in Document
    BY <1>1, <1>6 DEF Good, Document, CharacterSection, Typed
  <2>3. Sound([e EXCEPT !.characters = o.value])
    BY <1>1 DEF Good, Sound, Document
  <2> QED BY <2>1, <2>2, <2>3 DEF Good, e
<1> QED BY <1>2, <1>3, <1>4, <1>5, <1>6 DEF Mergers, e

-----------------------------------------------------------------------------
LEMMA InvInit == StoreAssumption /\ Init => Inv
<1> SUFFICES ASSUME StoreAssumption, Init PROVE Inv
  OBVIOUS
<1>1. file \in Document \cup {None, Broken} /\ LootDecidable
  BY DEF StoreAssumption, Init, LootDecidable, Loads
<1>2. Local
  BY DEF Init, Local
<1>3. ASSUME NEW w \in Writers PROVE Carries(w)
  BY DEF Init, Carries, Typed, NoOp
<1> QED BY <1>1, <1>2, <1>3 DEF Inv

(* A writer that touches nothing but its own operation leaves what the      *)
(* others carry.                                                            *)
LEMMA OthersKeep ==
  ASSUME NEW w \in Writers, NEW v \in Writers, v # w, Carries(v),
         op'[v] = op[v], pc'[v] = pc[v], data'[v] = data[v], temp'[v] = temp[v]
  PROVE  Carries(v)'
  BY DEF Carries, Good

LEMMA ReturnKeeps ==
  ASSUME NEW w \in Writers, Local, Return(w)
  PROVE  /\ Carries(w)'
         /\ DOMAIN pc' = Writers /\ DOMAIN op' = Writers /\ DOMAIN data' = Writers
         /\ \A v \in Writers \ {w} : op'[v] = op[v] /\ pc'[v] = pc[v] /\ data'[v] = data[v]
  BY DEF Local, Return, Carries, Typed, NoOp, Good, Mergers

(* The step of one writer that leaves the file.                             *)
LEMMA WriterKeeps ==
  ASSUME Inv, NEW w \in Writers, file' = file, Local', Carries(w)',
         \A v \in Writers \ {w} : op'[v] = op[v] /\ pc'[v] = pc[v]
                                  /\ data'[v] = data[v] /\ temp'[v] = temp[v]
  PROVE  Inv'
<1>1. file' \in Document \cup {None, Broken} /\ LootDecidable'
  BY DEF Inv, LootDecidable
<1>2. ASSUME NEW v \in Writers PROVE Carries(v)'
  <2>1. CASE v = w
    BY <2>1
  <2>2. CASE v # w
    BY <2>2, OthersKeep DEF Inv
  <2> QED BY <2>1, <2>2
<1> QED BY <1>1, <1>2 DEF Inv

-----------------------------------------------------------------------------
LEMMA OperationsTyped ==
  ASSUME NEW o \in Operations
  PROVE  /\ Typed(o)
         /\ o.kind \in Mergers \cup {"fetch", "reset"}
         /\ o.kind = "fetch" => o.value \in Fetched
  BY DEF Operations, Typed, Mergers

LEMMA BeginKeeps ==
  ASSUME StoreAssumption, Inv, NEW w \in Writers, NEW o \in Operations, Begin(w, o)
  PROVE  Inv'
<1>1. op' = [op EXCEPT ![w] = o] /\ UNCHANGED <<file, temp>> /\ Typed(o)
  BY OperationsTyped DEF Begin
<1>2. CASE o.kind = "fetch"
  <2>1. data' = [data EXCEPT ![w] = o.value] /\ pc' = [pc EXCEPT ![w] = "temp"]
    BY <1>2 DEF Begin, Goto
  <2>2. o.value \in Document
    BY <1>2, OperationsTyped DEF Begin, EnvelopeOK, StoreAssumption
  <2>3. Carries(w)'
    BY <1>1, <1>2, <2>1, <2>2 DEF Carries, Inv, Local, Typed
  <2> QED BY <1>1, <2>1, <2>3, WriterKeeps DEF Inv, Local
<1>3. CASE o.kind = "reset"
  <2>1. data' = [data EXCEPT ![w] = Empty] /\ pc' = [pc EXCEPT ![w] = "backup"]
    BY <1>3 DEF Begin, Goto
  <2>2. Good(Empty)
    BY EmptyGood
  <2>3. Carries(w)'
    BY <1>1, <1>3, <2>1, <2>2 DEF Carries, Inv, Local, Typed, Good
  <2> QED BY <1>1, <2>1, <2>3, WriterKeeps DEF Inv, Local
<1>4. CASE o.kind \in Mergers
  <2>1. data' = data /\ pc' = [pc EXCEPT ![w] = "read"]
    BY <1>4 DEF Begin, Goto, Mergers
  <2>2. Carries(w)'
    BY <1>1, <1>4, <2>1 DEF Carries, Inv, Local, Typed
  <2> QED BY <1>1, <2>1, <2>2, WriterKeeps DEF Inv, Local
<1> QED BY <1>2, <1>3, <1>4, OperationsTyped

LEMMA ReadKeeps ==
  ASSUME StoreAssumption, Inv, NEW w \in Writers, Read(w)
  PROVE  Inv'
<1>1. CASE Refused(op[w], file)
  <2>1. Return(w) /\ UNCHANGED <<file, temp>>
    BY <1>1 DEF Read
  <2> QED BY <2>1, ReturnKeeps, WriterKeeps DEF Inv, Local
<1>2. CASE ~Refused(op[w], file)
  <2> DEFINE merged == Merged(op[w], Opened(op[w], file))
             next == IF Rechecks(op[w]) THEN "recheck" ELSE "backup"
  <2>1. data' = [data EXCEPT ![w] = merged] /\ pc' = [pc EXCEPT ![w] = next]
        /\ UNCHANGED <<file, temp, op>>
    BY <1>2 DEF Read, Goto
  <2>2. Typed(op[w]) /\ op[w].kind \in Mergers
    BY DEF Read, Inv, Carries
  <2>3. file \in Document \cup {None} /\ (file # None => Sound(file)) /\ None \notin Document
    BY <1>2 DEF Inv, LootDecidable, Loads, Refused, StoreAssumption
  <2>4. Good(merged)
    BY <1>2, <2>2, <2>3, MergedGood
  <2>5. next \in {"recheck", "backup"} /\ op[w].kind # "fetch"
    BY <2>2 DEF Mergers
  <2> HIDE DEF merged, next
  <2>6. Carries(w)'
    BY <2>1, <2>2, <2>4, <2>5 DEF Carries, Inv, Local, Good, Typed
  <2> QED BY <2>1, <2>6, WriterKeeps DEF Inv, Local
<1> QED BY <1>1, <1>2

LEMMA RecheckKeeps ==
  ASSUME StoreAssumption, Inv, NEW w \in Writers, Recheck(w)
  PROVE  Inv'
<1>1. CASE file # orig[w]
  <2>1. Return(w) /\ UNCHANGED <<file, temp>>
    BY <1>1 DEF Recheck
  <2> QED BY <2>1, ReturnKeeps, WriterKeeps DEF Inv, Local
<1>2. CASE file = orig[w]
  <2>1. pc[w] = "recheck" /\ pc' = [pc EXCEPT ![w] = "backup"] /\ UNCHANGED <<file, temp, op, data>>
    BY <1>2 DEF Recheck, Goto
  <2>2. Carries(w)'
    BY <2>1 DEF Carries, Inv, Local, Good, Typed, Mergers
  <2> QED BY <2>1, <2>2, WriterKeeps DEF Inv, Local
<1> QED BY <1>1, <1>2

(* The backup and the temporary file: the writer moves to its next label    *)
(* with what it carries.                                                    *)
LEMMA MovesKeep ==
  ASSUME StoreAssumption, Inv, NEW w \in Writers,
         Backup(w) \/ Copy(w) \/ Copied(w) \/ OpenTemp(w) \/ WriteTemp(w)
  PROVE  Inv'
<1> DEFINE after == AfterBackup(op[w])
           last == IF op[w].kind = "fetch" THEN "validate" ELSE "replace"
<1>1. UNCHANGED <<file, op, data>>
  BY DEF Backup, Copy, Copied, OpenTemp, WriteTemp, local
<1>2. CASE Backup(w) \/ Copy(w) \/ Copied(w)
  <2>1. /\ pc[w] \in {"backup", "copy", "copying"} /\ temp' = temp
        /\ \/ pc' = [pc EXCEPT ![w] = "copy"]
           \/ pc' = [pc EXCEPT ![w] = "copying"]
           \/ pc' = [pc EXCEPT ![w] = after]
    BY <1>2 DEF Backup, Copy, Copied, Goto
  <2>2. after = IF op[w].kind = "fetch" THEN "replace" ELSE "temp"
    BY DEF AfterBackup
  <2> HIDE DEF after
  <2>3. Carries(w)'
    BY <1>1, <2>1, <2>2 DEF Carries, Inv, Local, Good, Typed
  <2> QED BY <1>1, <2>1, <2>3, WriterKeeps DEF Inv, Local
<1>3. CASE OpenTemp(w)
  <2>1. pc[w] = "temp" /\ pc' = [pc EXCEPT ![w] = "write"]
        /\ temp' = [temp EXCEPT ![w] = "partial"]
    BY <1>3 DEF OpenTemp, Goto
  <2>2. Carries(w)'
    BY <1>1, <2>1 DEF Carries, Inv, Local, Good, Typed
  <2> QED BY <1>1, <2>1, <2>2, WriterKeeps DEF Inv, Local
<1>4. CASE WriteTemp(w)
  <2>1. pc[w] = "write" /\ pc' = [pc EXCEPT ![w] = last]
        /\ temp' = [temp EXCEPT ![w] = "whole"]
    BY <1>4 DEF WriteTemp, Goto
  <2>2. Carries(w)'
    BY <1>1, <2>1 DEF Carries, Inv, Local, Good, Typed
  <2> QED BY <1>1, <2>1, <2>2, WriterKeeps DEF Inv, Local
<1> QED BY <1>2, <1>3, <1>4

LEMMA ValidateKeeps ==
  ASSUME StoreAssumption, Inv, NEW w \in Writers, Validate(w)
  PROVE  Inv'
<1>1. CASE Acceptable(data[w])
  <2>1. pc[w] = "validate" /\ pc' = [pc EXCEPT ![w] = "backup"] /\ UNCHANGED <<file, temp, op, data>>
    BY <1>1 DEF Validate, Goto
  <2>2. Good(data[w])
    BY <1>1, <2>1 DEF Inv, Carries, Good, Acceptable, Runs, Decodable, Sound
  <2>3. Carries(w)'
    BY <2>1, <2>2 DEF Carries, Inv, Local, Good, Typed
  <2> QED BY <2>1, <2>3, WriterKeeps DEF Inv, Local
<1>2. CASE ~Acceptable(data[w])
  <2>1. Return(w) /\ file' = file /\ temp' = [temp EXCEPT ![w] = None]
    BY <1>2 DEF Validate
  <2> QED BY <2>1, ReturnKeeps, WriterKeeps DEF Inv, Local
<1> QED BY <1>1, <1>2

(* What replaces the file is whole and sound.                               *)
LEMMA Replaces ==
  ASSUME Inv, NEW w \in Writers, Replace(w)
  PROVE  Good(file') /\ Return(w) /\ temp' = [temp EXCEPT ![w] = None]
  BY DEF Replace, Inv, Carries

LEMMA ReplaceKeeps ==
  ASSUME StoreAssumption, Inv, NEW w \in Writers, Replace(w)
  PROVE  Inv'
<1>1. file' \in Document \cup {None, Broken} /\ LootDecidable'
  BY Replaces DEF Good, LootDecidable, Loads
<1>2. Local'
  BY Replaces, ReturnKeeps DEF Inv, Local
<1>3. ASSUME NEW v \in Writers PROVE Carries(v)'
  <2>1. CASE v = w
    BY <2>1, Replaces, ReturnKeeps DEF Inv
  <2>2. CASE v # w
    <3>1. op'[v] = op[v] /\ pc'[v] = pc[v] /\ data'[v] = data[v] /\ temp'[v] = temp[v]
      BY <2>2, Replaces, ReturnKeeps DEF Inv, Local
    <3> QED BY <3>1, <2>2, OthersKeep DEF Inv
  <2> QED BY <2>1, <2>2
<1> QED BY <1>1, <1>2, <1>3 DEF Inv

LEMMA FaultKeeps ==
  ASSUME StoreAssumption, Inv, NEW w \in Writers, Fail(w) \/ Crash(w)
  PROVE  Inv'
<1>1. Return(w) /\ file' = file /\ temp' = [temp EXCEPT ![w] = None]
  BY DEF Fail, Crash
<1> QED BY <1>1, ReturnKeeps, WriterKeeps DEF Inv, Local

-----------------------------------------------------------------------------
LEMMA InvNext == StoreAssumption /\ Inv /\ [Next]_vars => Inv'
<1> SUFFICES ASSUME StoreAssumption, Inv, [Next]_vars PROVE Inv'
  OBVIOUS
<1>1. CASE Next
  <2> PICK w \in Writers :
        \/ \E o \in Operations : Begin(w, o)
        \/ Read(w) \/ Recheck(w) \/ Backup(w) \/ Copy(w) \/ Copied(w)
        \/ OpenTemp(w) \/ WriteTemp(w) \/ Validate(w) \/ Replace(w)
        \/ Fail(w) \/ Crash(w)
    BY <1>1 DEF Next
  <2> QED BY BeginKeeps, ReadKeeps, RecheckKeeps, MovesKeep, ValidateKeeps,
             ReplaceKeeps, FaultKeeps
<1>2. CASE UNCHANGED vars
  BY <1>2 DEF Inv, vars, Local, Carries, LootDecidable, Good
<1> QED BY <1>1, <1>2

LEMMA InvAlways == ASSUME StoreAssumption PROVE Spec => []Inv
  BY InvInit, InvNext, PTL DEF Spec

(* For any writers, layouts, lengths, faults and crashes: an active profile *)
(* never has two loot layouts that decode messages of one length            *)
(* (persistence.py _validate_loot_profile_entries before the backup, the    *)
(* validation of a fetched temporary file).                                 *)
THEOREM ProfileLootDecidable == ASSUME StoreAssumption PROVE Spec => []LootDecidable
<1>1. Inv => LootDecidable
  BY DEF Inv
<1> QED BY <1>1, InvAlways, PTL

(* Only the replacement changes the file.                                   *)
LEMMA StepKeepsLoading == StoreAssumption /\ Inv /\ [Next]_vars => [KeepsLoading]_vars
<1> SUFFICES ASSUME StoreAssumption, Inv, [Next]_vars PROVE KeepsLoading \/ UNCHANGED vars
  OBVIOUS
<1>1. CASE \E w \in Writers : Replace(w)
  BY <1>1, Replaces DEF KeepsLoading, Loads, Good, StoreAssumption
<1>2. CASE Next /\ ~\E w \in Writers : Replace(w)
  <2>1. file' = file
    BY <1>2 DEF Next, Begin, Read, Recheck, Backup, Copy, Copied, OpenTemp, WriteTemp,
                Validate, Fail, Crash
  <2> QED BY <2>1 DEF KeepsLoading, Loads
<1> QED BY <1>1, <1>2

(* For any interleaving of any number of writers, with failures and crashes *)
(* at any of their steps: a file that loads is never replaced by one that   *)
(* does not (_profile_io.py atomic_write_text, remote_profiles.py           *)
(* os.replace).                                                             *)
THEOREM ProfileKeepsLoading == ASSUME StoreAssumption PROVE Spec => [][KeepsLoading]_vars
  BY InvInit, InvNext, StepKeepsLoading, PTL DEF Spec
=============================================================================
