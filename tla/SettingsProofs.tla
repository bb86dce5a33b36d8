---------------------------- MODULE SettingsProofs ----------------------------
(***************************************************************************)
(* Proofs about Settings, for any number of entries, any values and any    *)
(* size of the entries and the pages, with power cuts while the flash is   *)
(* erased or programmed and allocations that fail.                         *)
(***************************************************************************)
EXTENDS Settings, TLAPS

(* While a save is under way or cut short, an entry that names a setting   *)
(* holds what it is to, or what a power cut has made of that.              *)
TornInv ==
  torn => \A k \in Key : sector.cells[k] \in {promise[k], Blank, Nobody} \union Noise

(* While the sector is programmed it holds the entries of the pages done.  *)
SaveInv ==
  /\ store = "erase" => torn
  /\ store = "program" =>
       ram \in Config /\ promise = ram /\ torn /\ sector = Programmed(ram, page)

StoreInv == SettingsTypeOK /\ KeepsSettings /\ TornInv /\ SaveInv

-----------------------------------------------------------------------------
(* The entries.                                                            *)
LEMMA Entries ==
  /\ Key \subseteq Cell
  /\ 0 \in Cell
  /\ \A k \in Key : k # 0
  /\ \A k \in Key : 0 .. k \subseteq Cell
BY SettingsAssumption DEF Key, Cell

LEMMA ValuesReadable ==
  /\ \A v \in Value : v # Blank /\ v # Nobody
  /\ Blank # Nobody
  /\ Noise \subseteq Value
BY SettingsAssumption DEF Blank, Nobody

LEMMA WrittenTyped ==
  ASSUME NEW c \in Config, NEW i \in Cell
  PROVE  Written(c, i) \in Content /\ Written(c, i) # Blank
<1>1. CASE i = 0
  BY <1>1, ValuesReadable DEF Written, Content
<1>2. CASE i # 0
  <2>1. i \in Key
    BY <1>2, SettingsAssumption DEF Cell, Key
  <2>2. c[i] \in Value /\ Written(c, i) = c[i]
    BY <1>2, <2>1 DEF Config, Written
  <2> QED
    BY <2>2, ValuesReadable DEF Content
<1> QED
  BY <1>1, <1>2

LEMMA ErasedTyped == Erased \in Sector
BY DEF Erased, Sector, Content

LEMMA ProgrammedTyped ==
  ASSUME NEW c \in Config, NEW p
  PROVE  Programmed(c, p) \in Sector
<1>1. Done(0, p) \in BOOLEAN
  BY DEF Done
<1>2. \A i \in Cell : (IF Done(i, p) THEN Written(c, i) ELSE Blank) \in Content
  BY WrittenTyped DEF Content
<1> QED
  BY <1>1, <1>2 DEF Programmed, Sector

(* What the loader makes of any sector, and of one that was saved whole.   *)
LEMMA LoadedTyped ==
  ASSUME NEW s \in Sector
  PROVE  Loaded(s) \in Config
<1>1. ASSUME NEW k \in Key, IsStored(s, k)
      PROVE  s.cells[k] \in Value
  <2>1. k \in Cell /\ k \in 0 .. k
    BY SettingsAssumption, Entries DEF Key
  <2>2. s.cells[k] \in Content /\ s.cells[k] # Blank /\ s.cells[k] # Nobody
    BY <1>1, <2>1 DEF Sector, IsStored
  <2> QED
    BY <2>2 DEF Content
<1>2. \A k \in Key : (IF IsStored(s, k) THEN s.cells[k] ELSE Default[k]) \in Value
  BY <1>1, SettingsAssumption DEF Config
<1> QED
  BY <1>2 DEF Loaded, Config

LEMMA ImageLoads ==
  ASSUME NEW c \in Config
  PROVE  Loaded(Image(c)) = c
<1> DEFINE s == Image(c)
<1>1. s.magic = TRUE /\ \A i \in Cell : s.cells[i] = Written(c, i)
  BY DEF Image
<1> HIDE DEF s
<1>2. ASSUME NEW k \in Key
      PROVE  IsStored(s, k) /\ s.cells[k] = c[k]
  <2>1. k \in Cell /\ k # 0 /\ 0 .. k \subseteq Cell
    BY Entries
  <2>2. s.cells[k] = c[k] /\ c[k] \in Value
    BY <1>1, <2>1 DEF Written, Config
  <2>3. \A i \in 0 .. k : s.cells[i] # Blank
    BY <1>1, <2>1, WrittenTyped
  <2> QED
    BY <1>1, <2>2, <2>3, ValuesReadable DEF IsStored
<1>3. Loaded(s) = [k \in Key |-> c[k]]
  BY <1>2 DEF Loaded
<1> QED
  BY <1>3 DEF s, Config

(* The sector before the first page and after the last.                    *)
LEMMA NothingProgrammed ==
  ASSUME NEW c
  PROVE  Programmed(c, 0) = Erased
<1>1. \A i \in Cell : ~Done(i, 0)
  <2> SUFFICES ASSUME NEW i \in Cell PROVE ~Done(i, 0)
    OBVIOUS
  <2>1. i \in Nat
    BY SettingsAssumption DEF Cell
  <2>2. PICK b \in Nat : b = i * EntryBytes
    BY <2>1, SettingsAssumption
  <2>3. (i + 1) * EntryBytes = b + EntryBytes /\ 0 * PageBytes = 0
    BY <2>1, <2>2, SettingsAssumption
  <2> QED
    BY <2>2, <2>3, SettingsAssumption DEF Done
<1>2. Done(0, 0) = FALSE
  BY <1>1, Entries DEF Done
<1> QED
  BY <1>1, <1>2 DEF Programmed, Erased

LEMMA AllProgrammed ==
  ASSUME NEW c
  PROVE  Programmed(c, NumPages) = Image(c)
<1>1. \A i \in Cell : Done(i, NumPages)
  <2> SUFFICES ASSUME NEW i \in Cell PROVE Done(i, NumPages)
    OBVIOUS
  <2>1. i \in Nat /\ NumKeys - i \in Nat
    BY SettingsAssumption DEF Cell
  <2>2. PICK b \in Nat : b = (i + 1) * EntryBytes
    BY <2>1, SettingsAssumption
  <2>3. PICK r \in Nat : r = (NumKeys - i) * EntryBytes
    BY <2>1, SettingsAssumption
  <2>4. PICK t \in Nat : t = (NumKeys + 1) * EntryBytes
    BY SettingsAssumption
  <2>5. t = b + r
    BY <2>1, <2>2, <2>3, <2>4, SettingsAssumption
  <2>6. t <= NumPages * PageBytes
    BY <2>4, SectorAssumption DEF Done
  <2>7. b <= NumPages * PageBytes
    <3>1. NumPages * PageBytes \in Nat
      BY SettingsAssumption
    <3> QED
      BY <2>2, <2>3, <2>4, <2>5, <2>6, <3>1
  <2> QED
    BY <2>2, <2>7 DEF Done
<1>2. Done(0, NumPages) = TRUE
  BY <1>1, Entries DEF Done
<1> QED
  BY <1>1, <1>2 DEF Programmed, Image

-----------------------------------------------------------------------------
LEMMA StoreStarts == StoreInit => StoreInv
<1> SUFFICES ASSUME StoreInit PROVE StoreInv
  OBVIOUS
<1>1. sector \in Sector
  <2>1. ASSUME NEW c \in Config PROVE Image(c) \in Sector
    BY <2>1, ProgrammedTyped, AllProgrammed
  <2> QED
    BY <2>1, ErasedTyped DEF StoreInit
<1>2. promise \in [Key -> Content \union {Missing}]
  BY <1>1, LoadedTyped DEF StoreInit, Config, Content
<1>3. 0 \in 0 .. NumPages /\ 0 \in 0 .. MaxCuts
  BY SettingsAssumption
<1>4. SettingsTypeOK
  BY <1>1, <1>2, <1>3 DEF StoreInit, SettingsTypeOK
<1> QED
  BY <1>4 DEF StoreInit, StoreInv, KeepsSettings, TornInv, SaveInv

(* The steps that leave the sector alone, and what is known of it.         *)
LEMMA SameSector ==
  ASSUME StoreInv, UNCHANGED <<sector, promise, torn>>
  PROVE  KeepsSettings' /\ TornInv'
BY DEF StoreInv, KeepsSettings, TornInv

LEMMA LoadStep == StoreInv /\ Start => StoreInv'
<1> SUFFICES ASSUME StoreInv, Start PROVE StoreInv'
  OBVIOUS
<1>1. Loaded(sector) \in Config
  BY LoadedTyped DEF StoreInv, SettingsTypeOK
<1>2. CASE Load
  <2>1. /\ UNCHANGED <<sector, page, starved, cuts>> /\ store' \in {"idle", "save"}
        /\ ram' = Loaded(sector) /\ promise' = Loaded(sector) /\ torn' = FALSE
    BY <1>2 DEF Load, AfterLoad
  <2>2. promise' \in [Key -> Content \union {Missing}]
    BY <1>1, <2>1 DEF Config, Content
  <2>3. SettingsTypeOK'
    BY <1>1, <2>1, <2>2 DEF StoreInv, SettingsTypeOK
  <2> QED
    BY <2>1, <2>3 DEF StoreInv, KeepsSettings, TornInv, SaveInv
<1>3. CASE LoadStarves
  <2>1. /\ UNCHANGED <<sector, page, promise, torn, cuts>> /\ store' = "save"
        /\ ram' = NoConfig /\ starved' = TRUE
    BY <1>3 DEF LoadStarves
  <2>2. SettingsTypeOK'
    BY <2>1 DEF StoreInv, SettingsTypeOK
  <2> QED
    BY <2>1, <2>2, SameSector DEF StoreInv, SaveInv
<1> QED
  BY <1>2, <1>3 DEF Start

LEMMA ChangeStep ==
  ASSUME StoreInv, NEW k \in Key, NEW v \in Value, Change(k, v)
  PROVE  StoreInv'
<1>1. /\ UNCHANGED <<sector, page, promise, torn, starved, cuts>>
      /\ store' = "resave" /\ ram' = [ram EXCEPT ![k] = v] /\ ram[k] # Missing
  BY DEF Change, PutEntry
<1>2. ram \in Config
  BY <1>1 DEF StoreInv, SettingsTypeOK, NoConfig
<1>3. ram' \in Config
  BY <1>1, <1>2 DEF Config
<1>4. SettingsTypeOK'
  BY <1>1, <1>3 DEF StoreInv, SettingsTypeOK
<1> QED
  BY <1>1, <1>4, SameSector DEF StoreInv, SaveInv

LEMMA StarveStep == StoreInv /\ SaveStarves => StoreInv'
<1> SUFFICES ASSUME StoreInv, SaveStarves PROVE StoreInv'
  OBVIOUS
<1>1. /\ UNCHANGED <<sector, ram, page, promise, torn, cuts>>
      /\ store' \in {"failed", "idle"} /\ starved' = TRUE
  BY DEF SaveStarves, KeepSector
<1>2. SettingsTypeOK'
  BY <1>1 DEF StoreInv, SettingsTypeOK
<1> QED
  BY <1>1, <1>2, SameSector DEF StoreInv, SaveInv

LEMMA EraseStep == StoreInv /\ Erase => StoreInv'
<1> SUFFICES ASSUME StoreInv, Erase PROVE StoreInv'
  OBVIOUS
<1>1. /\ UNCHANGED <<sector, ram, page, starved, cuts>> /\ store' = "erase"
      /\ promise' = Held(sector) /\ torn' = TRUE
  BY DEF Erase
<1>2. promise' \in [Key -> Content \union {Missing}]
  <2>1. \A k \in Key : sector.cells[k] \in Content
    BY Entries DEF StoreInv, SettingsTypeOK, Sector
  <2> QED
    BY <1>1, <2>1 DEF Held
<1>3. SettingsTypeOK'
  BY <1>1, <1>2 DEF StoreInv, SettingsTypeOK
<1>4. TornInv'
  BY <1>1 DEF TornInv, Held
<1> QED
  BY <1>1, <1>3, <1>4 DEF StoreInv, KeepsSettings, SaveInv

LEMMA EraseDoneStep == StoreInv /\ EraseDone => StoreInv'
<1> SUFFICES ASSUME StoreInv, EraseDone PROVE StoreInv'
  OBVIOUS
<1>1. /\ UNCHANGED <<ram, torn, starved, cuts>> /\ torn
      /\ sector' = Erased /\ page' = 0 /\ promise' = ram
      /\ store' \in {"program", "idle"}
      /\ store' = "program" => Counted # {}
  BY DEF EraseDone, EraseSector, StoreInv, SaveInv
<1>2. SettingsTypeOK'
  <2>1. page' \in 0 .. NumPages
    BY <1>1, SettingsAssumption
  <2>2. promise' \in [Key -> Content \union {Missing}]
    BY <1>1 DEF StoreInv, SettingsTypeOK, Config, NoConfig, Content
  <2> QED
    BY <1>1, <2>1, <2>2, ErasedTyped DEF StoreInv, SettingsTypeOK
<1>3. TornInv'
  BY <1>1, Entries DEF TornInv, Erased
<1>4. SaveInv'
  <2>1. store' = "program" => ram \in Config
    BY <1>1 DEF StoreInv, SettingsTypeOK, Counted, NoConfig
  <2>2. sector' = Programmed(ram, 0)
    BY <1>1, NothingProgrammed
  <2> QED
    BY <1>1, <2>1, <2>2 DEF SaveInv
<1> QED
  BY <1>1, <1>2, <1>3, <1>4 DEF StoreInv, KeepsSettings

LEMMA ProgramStep == StoreInv /\ ProgramPage => StoreInv'
<1> SUFFICES ASSUME StoreInv, ProgramPage PROVE StoreInv'
  OBVIOUS
<1>1. /\ UNCHANGED <<ram, promise, starved, cuts>>
      /\ page' = page + 1 /\ page + 1 \in 0 .. NumPages
      /\ sector' = Programmed(ram, page + 1)
      /\ ram \in Config /\ promise = ram /\ torn
  BY SettingsAssumption DEF StoreInv, SettingsTypeOK, SaveInv, ProgramPage
<1>2. sector' \in Sector
  BY <1>1, ProgrammedTyped
<1>3. CASE page' < NumPages
  <2>1. UNCHANGED <<store, torn>>
    BY <1>3 DEF ProgramPage
  <2>2. SettingsTypeOK'
    BY <1>1, <1>2, <2>1 DEF StoreInv, SettingsTypeOK
  <2>3. TornInv'
    <3>1. \A k \in Key : sector'.cells[k] \in {ram[k], Blank}
      BY <1>1, Entries DEF Programmed, Written
    <3> QED
      BY <1>1, <2>1, <3>1 DEF TornInv
  <2>4. KeepsSettings' /\ SaveInv'
    BY <1>1, <2>1 DEF KeepsSettings, SaveInv, ProgramPage
  <2> QED
    BY <2>2, <2>3, <2>4 DEF StoreInv
<1>4. CASE ~(page' < NumPages)
  <2>1. page' = NumPages /\ store' = "idle" /\ torn' = FALSE
    BY <1>4 DEF ProgramPage
  <2>2. SettingsTypeOK'
    BY <1>1, <1>2, <2>1 DEF StoreInv, SettingsTypeOK
  <2>3. Loaded(sector') = ram
    BY <1>1, <2>1, AllProgrammed, ImageLoads
  <2> QED
    BY <1>1, <2>1, <2>2, <2>3 DEF StoreInv, KeepsSettings, TornInv, SaveInv
<1> QED
  BY <1>3, <1>4

(* What a power cut leaves while the flash is erased or programmed.        *)
LEMMA CutLeaves ==
  ASSUME StoreInv, store \in {"erase", "program"}, PowerCut
  PROVE  /\ sector' \in Sector
         /\ \A k \in Key : sector'.cells[k] \in {promise[k], Blank, Nobody} \union Noise
<1>1. CASE sector' = Erased
  BY <1>1, ErasedTyped, Entries DEF Erased
<1>2. CASE sector' # Erased
  <2>1. PICK cells \in [Cell -> Content] :
          /\ sector' = [magic |-> TRUE, cells |-> cells]
          /\ \/ store = "erase" /\ \A i \in Cell : cells[i] \in HalfErased(i)
             \/ store = "program" /\ \A i \in Cell : cells[i] \in HalfProgrammed(i)
    BY <1>2 DEF PowerCut, CutErase, CutPage
  <2>2. sector' \in Sector
    BY <2>1 DEF Sector
  <2>3. ASSUME NEW k \in Key
        PROVE  cells[k] \in {promise[k], Blank, Nobody} \union Noise
    <3>1. k \in Cell /\ k # 0
      BY Entries
    <3>2. sector.cells[k] \in {promise[k], Blank, Nobody} \union Noise
      BY DEF StoreInv, TornInv, SaveInv
    <3>3. Damage(k) = {Blank, Nobody} \union Noise
      BY <3>1 DEF Damage
    <3>4. CASE store = "erase"
      BY <2>1, <3>1, <3>2, <3>3, <3>4 DEF HalfErased
    <3>5. CASE store = "program"
      <4>1. Written(ram, k) = promise[k]
        BY <3>1, <3>5 DEF Written, StoreInv, SaveInv
      <4> QED
        BY <2>1, <3>1, <3>2, <3>3, <3>5, <4>1 DEF HalfProgrammed
    <3> QED
      BY <3>4, <3>5
  <2> QED
    BY <2>1, <2>2, <2>3
<1> QED
  BY <1>1, <1>2

LEMMA CutStep == StoreInv /\ PowerCut => StoreInv'
<1> SUFFICES ASSUME StoreInv, PowerCut PROVE StoreInv'
  OBVIOUS
<1>1. /\ UNCHANGED <<promise, torn>>
      /\ cuts' \in 0 .. MaxCuts /\ page' = 0 /\ page' \in 0 .. NumPages
      /\ starved' = FALSE
      /\ store' = "off" /\ ram' = NoConfig
  BY SettingsAssumption DEF StoreInv, SettingsTypeOK, PowerCut
<1>2. CASE store \notin {"erase", "program"}
  <2>1. sector' = sector
    BY <1>2 DEF PowerCut
  <2>2. SettingsTypeOK'
    BY <1>1, <2>1 DEF StoreInv, SettingsTypeOK
  <2> QED
    BY <1>1, <2>1, <2>2, SameSector DEF StoreInv, SaveInv
<1>3. CASE store \in {"erase", "program"}
  <2>1. torn
    BY <1>3 DEF StoreInv, SaveInv
  <2>2. SettingsTypeOK'
    BY <1>1, <1>3, CutLeaves DEF StoreInv, SettingsTypeOK
  <2>3. TornInv'
    BY <1>1, <1>3, CutLeaves DEF TornInv
  <2> QED
    BY <1>1, <2>1, <2>2, <2>3 DEF StoreInv, KeepsSettings, SaveInv
<1> QED
  BY <1>2, <1>3

LEMMA StoreStep == StoreInv /\ [StoreNext]_storeVars => StoreInv'
<1> SUFFICES ASSUME StoreInv, [StoreNext]_storeVars PROVE StoreInv'
  OBVIOUS
<1>1. CASE UNCHANGED storeVars
  <2>1. UNCHANGED <<sector, ram, store, page, promise, torn, starved, cuts>>
    BY <1>1 DEF storeVars
  <2>2. SettingsTypeOK' /\ SaveInv'
    BY <2>1 DEF StoreInv, SettingsTypeOK, SaveInv
  <2> QED
    BY <2>1, <2>2, SameSector DEF StoreInv
<1> QED
  BY <1>1, LoadStep, ChangeStep, StarveStep, EraseStep, EraseDoneStep, ProgramStep, CutStep
     DEF StoreNext, Save

-----------------------------------------------------------------------------
LEMMA StoreInvariant == StoreSpec => []StoreInv
BY StoreStarts, StoreStep, PTL DEF StoreSpec

(* Every variable of the settings store has its type.                      *)
THEOREM StoreTyped == StoreSpec => []SettingsTypeOK
<1>1. StoreInv => SettingsTypeOK
  BY DEF StoreInv
<1> QED
  BY <1>1, StoreInvariant, PTL

(* What the next power-on loads is what was last saved whole, as long as   *)
(* no save is under way or was cut short (settings_save).                  *)
THEOREM SettingsKept == StoreSpec => []KeepsSettings
<1>1. StoreInv => KeepsSettings
  BY DEF StoreInv
<1> QED
  BY <1>1, StoreInvariant, PTL

(* A save that is cut short, while the sector is erased or while it is     *)
(* programmed, does not mix old and new settings: what is read of it are   *)
(* those of one side, defaults, and values that the cut has damaged, for   *)
(* the loader does not tell these from good ones (settings_save,           *)
(* settingsLoadAllEntries).                                                *)
THEOREM CutNeverMixes == StoreSpec => []NeverMixes
<1>1. StoreInv => NeverMixes
  <2> SUFFICES ASSUME StoreInv, torn, NEW k \in Key
               PROVE  Loaded(sector)[k] \in {promise[k], Default[k]} \union Noise
    BY DEF NeverMixes
  <2>1. sector.cells[k] \in {promise[k], Blank, Nobody} \union Noise
    BY DEF StoreInv, TornInv
  <2>2. Loaded(sector)[k] = IF IsStored(sector, k) THEN sector.cells[k] ELSE Default[k]
    BY DEF Loaded
  <2>3. IsStored(sector, k) => sector.cells[k] # Blank /\ sector.cells[k] # Nobody
    <3>1. k \in 0 .. k
      BY SettingsAssumption DEF Key
    <3> QED
      BY <3>1 DEF IsStored
  <2> QED
    BY <2>1, <2>2, <2>3
<1> QED
  BY <1>1, StoreInvariant, PTL
===============================================================================
