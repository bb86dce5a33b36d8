------------------------------- MODULE Settings -------------------------------
(***************************************************************************)
(* The settings of the application: entries in RAM, loaded from one flash  *)
(* sector at power-on and saved to it whole                                *)
(* (rp/src/settings/settings.c, rp/src/aconfig.c and the part of           *)
(* rp/src/main.c that starts from them).                                   *)
(*                                                                         *)
(* Saving erases the sector and then programs it page by page.  A power    *)
(* cut during either leaves in every entry it touched anything from its    *)
(* old to its new bytes, and the loader takes an entry for good whose key  *)
(* and type read: its value may then be neither.                           *)
(***************************************************************************)
EXTENDS Integers, Sequences

CONSTANTS
  NumKeys,       \* entries of defaultEntries, in the order of the array
  Value,         \* what an entry may hold
  Default,       \* defaultEntries
  Noise,         \* values that a power cut may leave in an entry
  PageBytes,     \* bytes the flash programs at a time
  EntryBytes,    \* sizeof(SettingsConfigEntry)
  NumPages,      \* pages that settings_save programs
  MaxCuts        \* bound: power cuts explored

Key == 1 .. NumKeys
Config == [Key -> Value]
Missing == "missing"   \* a key that is not in configData

(* The sector as the loader reads it.  magic: the value of entry 0 spells  *)
(* the version.  An entry holds the value of its setting, or Blank when    *)
(* its key or type does not read, or Nobody when its key is no setting's,  *)
(* as that of entry 0.                                                     *)
Cell == 0 .. NumKeys
Blank == "blank"
Nobody == "nobody"
Content == Value \union {Blank, Nobody}
Sector == [magic : BOOLEAN, cells : [Cell -> Content]]

ASSUME SettingsAssumption ==
  /\ NumKeys \in Nat
  /\ Default \in Config
  /\ Value \intersect {Missing, Blank, Nobody} = {} /\ Noise \subseteq Value
  /\ PageBytes \in Nat \ {0} /\ EntryBytes \in Nat \ {0}
  /\ NumPages \in Nat
  /\ MaxCuts \in Nat

VARIABLES
  sector,        \* the flash sector
  ram,           \* gSettingsCtx.configData
  store,         \* what is being done, see SettingsTypeOK
  page,          \* pages programmed so far
  promise,       \* history: the settings last loaded or saved whole or, in a save
                 \* that has not finished, the old ones until the erase has ended,
                 \* and then the new ones
  torn,          \* history: a save was begun and has not finished, and nothing
                 \* has been loaded since
  starved,       \* history: an allocation failed since power-on
  cuts           \* power cuts so far

storeVars == <<sector, ram, store, page, promise, torn, starved, cuts>>

(* A sector whose version does not read is not read any further, and the   *)
(* next save erases it: Erased stands for it, whatever else is in it.      *)
Erased == [magic |-> FALSE, cells |-> [i \in Cell |-> Blank]]
Written(c, i) == IF i = 0 THEN Nobody ELSE c[i]
Image(c) == [magic |-> TRUE, cells |-> [i \in Cell |-> Written(c, i)]]
Held(s) == [k \in Key |-> s.cells[k]]

(* Entry i is in the first p pages, or at least its first byte is.         *)
Done(i, p) == (i + 1) * EntryBytes <= p * PageBytes
Begun(i, p) == i * EntryBytes < p * PageBytes

(* The pages hold all of them.                                             *)
ASSUME SectorAssumption == Done(NumKeys, NumPages)

(* An entry reads once all of it is programmed; one that goes on in the    *)
(* next page does not, its key still erased at the end.                    *)
Programmed(c, p) ==
  [magic |-> Done(0, p),
   cells |-> [i \in Cell |-> IF Done(i, p) THEN Written(c, i) ELSE Blank]]

-----------------------------------------------------------------------------
(* settingsLoadAllEntries: the defaults, and over them what the sector     *)
(* holds for the same key, up to the first entry that does not read.       *)
IsStored(s, k) ==
  /\ s.magic
  /\ \A i \in 0 .. k : s.cells[i] # Blank
  /\ s.cells[k] # Nobody
Loaded(s) == [k \in Key |-> IF IsStored(s, k) THEN s.cells[k] ELSE Default[k]]

NoConfig == [k \in Key |-> Missing]
Counted == {k \in Key : ram[k] # Missing}

(* main.c: settings that cannot be loaded are saved first (ram holds the   *)
(* defaults), or else the Booster is entered.                              *)
BoosterOnNoMagic == IF sector.magic THEN "idle" ELSE "failed"      \* a mutant
AfterLoad == IF sector.magic THEN "idle" ELSE "save"

Load ==
  /\ store = "off"
  /\ ram' = Loaded(sector)
  /\ store' = AfterLoad
  /\ promise' = Loaded(sector) /\ torn' = FALSE
  /\ UNCHANGED <<sector, page, starved, cuts>>

(* settings_init runs out of memory: no entry is there, and main.c saves   *)
(* that.                                                                   *)
LoadStarves ==
  /\ store = "off"
  /\ ram' = NoConfig
  /\ store' = "save"
  /\ starved' = TRUE
  /\ UNCHANGED <<sector, page, promise, torn, cuts>>

(* settings_put_* and settings_save, on a key that is there.               *)
PutEntry(k, v) == ram' = [ram EXCEPT ![k] = v]

Change(k, v) ==
  /\ store = "idle"
  /\ ram[k] # Missing
  /\ PutEntry(k, v)
  /\ store' = "resave"
  /\ UNCHANGED <<sector, page, promise, torn, starved, cuts>>

EraseFirst == sector' = Erased                                     \* a mutant
KeepSector == UNCHANGED sector

(* The buffer is allocated before anything is erased.                      *)
SaveStarves ==
  /\ store \in {"save", "resave"}
  /\ Counted # {}
  /\ KeepSector
  /\ \/ store = "save" /\ store' = "failed"
     \/ store = "resave" /\ store' = "idle"
  /\ starved' = TRUE
  /\ UNCHANGED <<ram, page, promise, torn, cuts>>

(* flash_range_erase takes its time; from now on the old settings may be   *)
(* read only in part.                                                      *)
Erase ==
  /\ store \in {"save", "resave"}
  /\ store' = "erase"
  /\ promise' = Held(sector) /\ torn' = TRUE
  /\ UNCHANGED <<sector, ram, page, starved, cuts>>

EraseNothing == UNCHANGED sector                                   \* a mutant
EraseSector == sector' = Erased

EraseDone ==
  /\ store = "erase"
  /\ EraseSector
  /\ \/ Counted # {} /\ store' = "program"
     \/ Counted = {} /\ store' = "idle"
  /\ page' = 0
  /\ promise' = ram
  /\ UNCHANGED <<ram, torn, starved, cuts>>

ProgramPage ==
  /\ store = "program" /\ page < NumPages
  /\ page' = page + 1
  /\ sector' = Programmed(ram, page + 1)
  /\ \/ page' < NumPages /\ UNCHANGED <<store, torn>>
     \/ page' = NumPages /\ store' = "idle" /\ torn' = FALSE
  /\ UNCHANGED <<ram, promise, starved, cuts>>

(* What may be left of an entry whose bytes were being changed: the erase  *)
(* only sets bits and programming only clears them, so it names its own    *)
(* setting, with any value, or nothing that is looked for.                 *)
Damage(i) == {Blank, Nobody} \union (IF i = 0 THEN {} ELSE Noise)

(* The sector is erased all at once; of a page, the entries that are whole *)
(* when it is may be so already.                                           *)
HalfErased(i) == {sector.cells[i]} \union Damage(i)
HalfProgrammed(i) ==
  IF Begun(i, page + 1) /\ ~Done(i, page)
    THEN Damage(i) \union (IF Done(i, page + 1) THEN {Written(ram, i)} ELSE {})
    ELSE {sector.cells[i]}

CutErase ==
  \/ sector' = Erased
  \/ /\ sector.magic
     /\ \E cells \in [Cell -> Content] :
          /\ \A i \in Cell : cells[i] \in HalfErased(i)
          /\ sector' = [magic |-> TRUE, cells |-> cells]

CutPage ==
  \/ ~sector.magic /\ sector' = Erased
  \/ \E cells \in [Cell -> Content] :
       /\ \A i \in Cell : cells[i] \in HalfProgrammed(i)
       /\ sector' = [magic |-> TRUE, cells |-> cells]

PowerCut ==
  /\ cuts < MaxCuts
  /\ cuts' = cuts + 1
  /\ \/ store \notin {"erase", "program"} /\ UNCHANGED sector
     \/ store = "erase" /\ CutErase
     \/ store = "program" /\ CutPage
  /\ store' = "off"
  /\ ram' = NoConfig
  /\ page' = 0
  /\ starved' = FALSE
  /\ UNCHANGED <<promise, torn>>

-----------------------------------------------------------------------------
(* A sector that was never used or belongs to another version, or one that *)
(* this version has saved.                                                 *)
StoreInit ==
  /\ sector \in {Erased} \union {Image(c) : c \in Config}
  /\ ram = NoConfig
  /\ store = "off"
  /\ page = 0
  /\ promise = Loaded(sector)
  /\ torn = FALSE
  /\ starved = FALSE
  /\ cuts = 0

Start == Load \/ LoadStarves
Save == SaveStarves \/ Erase \/ EraseDone \/ ProgramPage

StoreNext ==
  \/ Start \/ Save
  \/ \E k \in Key, v \in Value : Change(k, v)
  \/ PowerCut

StoreSpec == StoreInit /\ [][StoreNext]_storeVars

-----------------------------------------------------------------------------
SettingsTypeOK ==
  /\ sector \in Sector
  /\ ram \in Config \union {NoConfig}
  /\ store \in {"off", "save", "idle", "resave", "erase", "program", "failed"}
  /\ page \in 0 .. NumPages
  /\ promise \in [Key -> Content \union {Missing}]
  /\ torn \in BOOLEAN /\ starved \in BOOLEAN
  /\ cuts \in 0 .. MaxCuts

(* What the next power-on will find is what was last saved whole or        *)
(* loaded: nothing puts it at risk but a save under way or cut short, or   *)
(* the one that main.c does when it had no memory to load it.  A save that *)
(* fails for want of memory does not (settings.c:300-362).                 *)
KeepsSettings == ~torn => Loaded(sector) = promise

(* A save under way or cut short does not mix old and new: what is read of *)
(* the sector is, until the erase has ended, the old settings, and from    *)
(* then on the new ones, but for those that are back at their default or   *)
(* that the cut has damaged.                                               *)
NeverMixes ==
  torn => \A k \in Key : Loaded(sector)[k] \in {promise[k], Default[k]} \union Noise
==============================================================================
