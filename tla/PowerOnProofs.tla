---------------------------- MODULE PowerOnProofs ----------------------------
(***************************************************************************)
(* Proofs about PowerOn: what LaunchProofs and SettingsProofs say of each  *)
(* part holds of the two together, across power cycles, and the hook that  *)
(* the menu shows is the one that was saved.                               *)
(***************************************************************************)
EXTENDS PowerOn, LaunchProofs, SettingsProofs

(* As long as memory has not run out: the entries are there from the load  *)
(* on, they are what the sector holds whenever no save is due, and the     *)
(* hook follows its entry.                                                 *)
RamInv == ~starved /\ store # "off" => ram \in Config
SavedInv == ~starved /\ store = "idle" => Loaded(sector) = ram
HookInv ==
  ~starved /\ rpPc \notin {"boot", "init", "booster"} => HookOf(ram[ModeKey]) = hook

ShownInv == RamInv /\ SavedInv /\ HookInv

-----------------------------------------------------------------------------
(* The store.                                                              *)
LEMMA StoreRefined == [PowerOnNext]_allVars => [StoreNext]_storeVars
<1> SUFFICES ASSUME [PowerOnNext]_allVars PROVE [StoreNext]_storeVars
  OBVIOUS
<1>1. CASE \/ BootBooster \/ AnySt \/ UserResets \/ HoldSelect
           \/ LoadHook \/ OtherRp \/ UNCHANGED allVars
  BY <1>1 DEF BootBooster, AnySt, UserResets, HoldSelect, LoadHook, OtherRp, Running,
              allVars
<1>2. CASE BootLoad \/ SaveStep \/ PowerCycle
  BY <1>2 DEF BootLoad, SaveStep, PowerCycle, StoreNext
<1>3. CASE ToggleHook
  <2>1. hook' \in {"VBL", "ETV"} => ModeOf(hook') \in Value /\ ModeKey \in Key
    BY EntriesAssumption DEF ModeOf, Mode
  <2>2. hook' \in {"VBL", "ETV"}
    BY <1>3 DEF ToggleHook, MenuTurn, Hook
  <2> QED
    BY <1>3, <2>1, <2>2 DEF ToggleHook, SaveMode, StoreNext
<1> QED
  BY <1>1, <1>2, <1>3 DEF PowerOnNext, AnyRp

(* The launch with its settings uses the store as the store wants.         *)
THEOREM UsesStore == PowerOnSpec => StoreSpec
<1>1. PowerOnInit => StoreInit
  BY DEF PowerOnInit
<1> QED
  BY <1>1, StoreRefined, PTL DEF PowerOnSpec, StoreSpec

-----------------------------------------------------------------------------
(* The launch.                                                             *)
LEMMA CycleStep ==
  ASSUME LaunchInv, PowerCycle
  PROVE  LaunchInv'
<1>1. /\ rpPc' = "boot" /\ turn' = 0 /\ hook' = "VBL"
      /\ sentinel' \in Sentinel /\ hookFlag' \in Hook
      /\ command' = "none" /\ answered' = FALSE
      /\ stPc' = "boot" /\ attempts' = 0
      /\ installed' = FALSE /\ hooks' = << >> /\ UNCHANGED resets
  BY DEF PowerCycle
<1>2. turn' \in 0 .. HoldTurns - 1 /\ attempts' \in 0 .. Attempts
  BY <1>1, LaunchAssumption
<1>3. hooks' \in HookChain /\ hook' \in Hook /\ command' \in Command /\ ~Waiting'
  BY <1>1 DEF HookChain, Hook, Command, Waiting
<1>4. TypeOK'
  BY <1>1, <1>2, <1>3 DEF TypeOK, LaunchInv
<1>5. SentinelInv' /\ PublishedInv' /\ GuardInv' /\ OrderInv'
  BY <1>1 DEF SentinelInv, PublishedInv, GuardInv, OrderInv, InMenu
<1> QED
  BY <1>4, <1>5 DEF LaunchInv

LEMMA PowerOnLaunchStep ==
  ASSUME LaunchInv, [PowerOnNext]_allVars
  PROVE  LaunchInv'
<1>1. CASE BootBooster
  BY <1>1 DEF BootBooster, stVars, LaunchInv, TypeOK, SentinelInv, PublishedInv,
              GuardInv, OrderInv, InMenu, Waiting
<1>2. CASE BootLoad \/ SaveStep \/ HoldSelect \/ UNCHANGED allVars
  BY <1>2 DEF BootLoad, SaveStep, HoldSelect, allVars, LaunchInv, TypeOK, SentinelInv,
              PublishedInv, GuardInv, OrderInv, InMenu, Waiting, vars, rpVars, stVars
<1>3. CASE LoadHook \/ ToggleHook \/ OtherRp
  <2>1. Rp
    BY <1>3 DEF LoadHook, ToggleHook, OtherRp, Rp
  <2> QED
    BY <2>1, RpStep
<1>4. CASE AnySt \/ UserResets
  BY <1>4, StStep DEF AnySt, UserResets
<1>5. CASE PowerCycle
  BY <1>5, CycleStep
<1> QED
  BY <1>1, <1>2, <1>3, <1>4, <1>5 DEF PowerOnNext, AnyRp

LEMMA PowerOnLaunch == PowerOnSpec => []LaunchInv
<1>1. PowerOnInit => LaunchInv
  BY LaunchInit DEF PowerOnInit
<1> QED
  BY <1>1, PowerOnLaunchStep, PTL DEF PowerOnSpec

(* One grabber, on the vector chosen in the menu, for any settings, resets *)
(* and power cycles (main.s, rom_function; emul.c, exitToDesktop).         *)
THEOREM PowerOnHook == PowerOnSpec => []HookOnDesktop
<1>1. LaunchInv => HookOnDesktop
  BY DEF LaunchInv, GuardInv, HookOnDesktop
<1> QED
  BY <1>1, PowerOnLaunch, PTL

(* And nothing happens on the Atari before the RP says so (emul.c,         *)
(* emul_start), whatever its RAM holds after a power cycle.                *)
THEOREM PowerOnOrdered == PowerOnSpec => []NothingSpurious
<1>1. LaunchInv => NothingSpurious
  BY DEF LaunchInv, OrderInv, InMenu, NothingSpurious
<1> QED
  BY <1>1, PowerOnLaunch, PTL

(* The settings are kept (settings_save), however the menu and the boot    *)
(* use them.                                                               *)
THEOREM PowerOnKeeps == PowerOnSpec => []KeepsSettings
BY UsesStore, SettingsKept, PTL

(* And a save of theirs that is cut short (settings_save) leaves settings  *)
(* of one side, defaults and damaged values, never old ones beside new.    *)
THEOREM PowerOnNeverMixes == PowerOnSpec => []NeverMixes
BY UsesStore, CutNeverMixes, PTL

(* Every variable has its type (main.c, emul.c, settings.c).               *)
THEOREM PowerOnTyped == PowerOnSpec => []PowerOnTypeOK
<1>1. PowerOnSpec => [](registered \in BOOLEAN /\ held \in BOOLEAN)
  <2>1. PowerOnInit => registered \in BOOLEAN /\ held \in BOOLEAN
    BY DEF PowerOnInit
  <2>2. (registered \in BOOLEAN /\ held \in BOOLEAN) /\ [PowerOnNext]_allVars
          => (registered \in BOOLEAN /\ held \in BOOLEAN)'
    <3> SUFFICES ASSUME registered \in BOOLEAN, held \in BOOLEAN, [PowerOnNext]_allVars
                 PROVE  registered' \in BOOLEAN /\ held' \in BOOLEAN
      OBVIOUS
    <3> QED
      BY DEF PowerOnNext, AnyRp, BootBooster, BootLoad, SaveStep, LoadHook, ToggleHook,
             OtherRp, Running, AnySt, UserResets, HoldSelect, PowerCycle, bootVars, allVars
  <2> QED
    BY <2>1, <2>2, PTL DEF PowerOnSpec
<1>2. LaunchInv => TypeOK
  BY DEF LaunchInv
<1>3. LaunchInv /\ SettingsTypeOK /\ registered \in BOOLEAN /\ held \in BOOLEAN
        => PowerOnTypeOK
  BY <1>2 DEF PowerOnTypeOK
<1> QED
  BY <1>1, <1>3, PowerOnLaunch, UsesStore, StoreTyped, PTL

-----------------------------------------------------------------------------
(* The hook and its entry.                                                 *)
LEMMA ModeRoundTrip ==
  ASSUME NEW h \in Hook
  PROVE  HookOf(ModeOf(h)) = h
BY DEF Hook, HookOf, ModeOf

LEMMA SomethingToSave ==
  ASSUME ram \in Config
  PROVE  Counted # {}
<1>1. ModeKey \in Key /\ ram[ModeKey] \in Value
  BY EntriesAssumption DEF Config
<1> QED
  BY <1>1, SettingsAssumption DEF Counted

(* The RP goes about its business and the store rests.                     *)
LEMMA RestStep ==
  ASSUME ShownInv, UNCHANGED <<storeVars, hook>>,
         rpPc' \notin {"boot", "init", "booster"} => rpPc \notin {"boot", "init", "booster"}
  PROVE  ShownInv'
<1>1. UNCHANGED <<sector, ram, store, starved>>
  BY DEF storeVars
<1> QED
  BY <1>1 DEF ShownInv, RamInv, SavedInv, HookInv

LEMMA StartStep ==
  ASSUME StoreInv, BootLoad
  PROVE  ShownInv'
<1>1. rpPc' = "boot"
  BY DEF BootLoad, vars, rpVars
<1>2. \/ ram' = Loaded(sector) /\ UNCHANGED sector
      \/ starved'
  BY DEF BootLoad, Start, Load, LoadStarves
<1>3. Loaded(sector) \in Config
  BY LoadedTyped DEF StoreInv, SettingsTypeOK
<1> QED
  BY <1>1, <1>2, <1>3 DEF ShownInv, RamInv, SavedInv, HookInv

LEMMA WriteStep ==
  ASSUME StoreInv, ShownInv, SaveStep
  PROVE  ShownInv'
<1>1. Save /\ UNCHANGED <<rpPc, hook>>
  BY DEF SaveStep, vars, rpVars
<1>2. UNCHANGED ram /\ store # "off"
  BY <1>1 DEF Save, SaveStarves, Erase, EraseDone, ProgramPage
<1>3. CASE SaveStarves
  BY <1>3 DEF SaveStarves, ShownInv, RamInv, SavedInv, HookInv
<1>4. CASE Erase
  <2>1. UNCHANGED starved /\ store' # "idle"
    BY <1>4 DEF Erase
  <2> QED
    BY <1>1, <1>2, <2>1 DEF ShownInv, RamInv, SavedInv, HookInv
<1>5. CASE EraseDone
  <2>1. UNCHANGED starved
    BY <1>5 DEF EraseDone
  <2>2. ~starved => store' # "idle"
    BY <1>2, <1>5, SomethingToSave DEF EraseDone, ShownInv, RamInv
  <2> QED
    BY <1>1, <1>2, <2>1, <2>2 DEF ShownInv, RamInv, SavedInv, HookInv
<1>6. CASE ProgramPage
  <2>1. UNCHANGED starved
    BY <1>6 DEF ProgramPage
  <2>2. store' = "idle" => promise' = ram /\ torn' = FALSE
    BY <1>6 DEF ProgramPage, StoreInv, SaveInv
  <2>3. KeepsSettings'
    BY <1>6, ProgramStep DEF StoreInv
  <2>4. store' = "idle" => Loaded(sector') = ram'
    BY <1>2, <2>2, <2>3 DEF KeepsSettings
  <2> QED
    BY <1>1, <1>2, <2>1, <2>4 DEF ShownInv, RamInv, SavedInv, HookInv
<1> QED
  BY <1>1, <1>3, <1>4, <1>5, <1>6 DEF Save

LEMMA ToggleStep ==
  ASSUME LaunchInv, StoreInv, ShownInv, ToggleHook
  PROVE  ShownInv'
<1>1. hook' \in Hook /\ store = "idle"
  BY DEF ToggleHook, MenuTurn, SaveMode, Change, LaunchInv, TypeOK
<1>2. CASE SaveMode(hook')
  <2>1. /\ ram' = [ram EXCEPT ![ModeKey] = ModeOf(hook')]
        /\ store' = "resave" /\ UNCHANGED starved
    BY <1>2 DEF SaveMode, Change, PutEntry
  <2>2. ~starved => ram \in Config
    BY <1>1 DEF ShownInv, RamInv
  <2>3. ModeOf(hook') \in Value /\ ModeKey \in Key
    BY EntriesAssumption DEF ModeOf, Mode
  <2>4. ~starved => ram' \in Config /\ ram'[ModeKey] = ModeOf(hook')
    BY <2>1, <2>2, <2>3 DEF Config
  <2> QED
    BY <1>1, <2>1, <2>4, ModeRoundTrip DEF ShownInv, RamInv, SavedInv, HookInv
<1>3. CASE ram[ModeKey] = Missing /\ UNCHANGED storeVars
  <2>1. UNCHANGED <<sector, ram, store, starved>>
    BY <1>3 DEF storeVars
  <2>2. ram \notin Config
    BY <1>3, EntriesAssumption, SettingsAssumption DEF Config
  <2>3. starved
    BY <1>1, <2>2 DEF ShownInv, RamInv
  <2> QED
    BY <2>1, <2>3 DEF ShownInv, RamInv, SavedInv, HookInv
<1> QED
  BY <1>2, <1>3 DEF ToggleHook

LEMMA ShownStep ==
  ASSUME LaunchInv, StoreInv, ShownInv, [PowerOnNext]_allVars
  PROVE  ShownInv'
<1>1. CASE \/ BootBooster \/ AnySt \/ UserResets \/ HoldSelect \/ OtherRp
           \/ UNCHANGED allVars
  <2>1. UNCHANGED <<storeVars, hook>>
    BY <1>1 DEF BootBooster, AnySt, UserResets, HoldSelect, OtherRp, Running, allVars, vars, rpVars,
       BringUp, LeaveMenu, HoldStart, HoldBootGem, Hold, DesktopTurn, GotoBooster, Jump,
       St, BootCartridge, BootPlain, SyncDone, SyncTimeout, PollStart, PollBootGem,
       PollReset, PollKey, ColdBoot, StReset
  <2>2. rpPc' \notin {"boot", "init", "booster"} => rpPc \notin {"boot", "init", "booster"}
    BY <1>1 DEF BootBooster, AnySt, UserResets, HoldSelect, OtherRp, allVars, vars, rpVars,
       BringUp, MenuTurn, LeaveMenu, HoldStart, HoldBootGem, Hold, DesktopTurn,
       GotoBooster, Jump, St, BootCartridge, BootPlain, SyncDone, SyncTimeout,
       PollStart, PollBootGem, PollReset, PollKey, ColdBoot, StReset
  <2> QED
    BY <2>1, <2>2, RestStep
<1>2. CASE BootLoad
  BY <1>2, StartStep
<1>3. CASE SaveStep
  BY <1>3, WriteStep
<1>4. CASE LoadHook
  <2>1. UNCHANGED <<sector, ram, store, starved>> /\ hook' = HookOf(ram[ModeKey])
    BY <1>4 DEF LoadHook, Running, storeVars
  <2> QED
    BY <2>1 DEF ShownInv, RamInv, SavedInv, HookInv
<1>5. CASE ToggleHook
  BY <1>5, ToggleStep
<1>6. CASE PowerCycle
  BY <1>6 DEF PowerCycle, PowerCut, ShownInv, RamInv, SavedInv, HookInv
<1> QED
  BY <1>1, <1>2, <1>3, <1>4, <1>5, <1>6 DEF PowerOnNext, AnyRp

(* The hook that the menu shows, and the desktop gets, is the one that the *)
(* next power-on loads (emul.c, loadHookMode and saveHookMode), for any    *)
(* number of toggles, of saves cut short and of repairs.                   *)
THEOREM ShownCorrect == PowerOnSpec => []ShownIsSaved
<1>1. PowerOnInit => ShownInv
  BY DEF PowerOnInit, Init, StoreInit, ShownInv, RamInv, SavedInv, HookInv
<1>2. LaunchInv /\ StoreInv /\ ShownInv /\ [PowerOnNext]_allVars => ShownInv'
  BY ShownStep
<1>3. ShownInv => ShownIsSaved
  BY DEF ShownInv, SavedInv, HookInv, ShownIsSaved
<1> QED
  BY <1>1, <1>2, <1>3, PowerOnLaunch, UsesStore, StoreInvariant, PTL DEF PowerOnSpec
=============================================================================
