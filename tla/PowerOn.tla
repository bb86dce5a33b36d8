------------------------------- MODULE PowerOn --------------------------------
(***************************************************************************)
(* Launch together with the settings it starts from: the boot decision of  *)
(* main (rp/src/main.c), the hook that the menu loads from the settings    *)
(* and saves to them (rp/src/emul.c: loadHookMode, saveHookMode), and the  *)
(* power going off and on.                                                 *)
(***************************************************************************)
EXTENDS Launch, Settings

VARIABLES
  registered,    \* does the global configuration name this application?
  held           \* is SELECT held at power-on?

bootVars == <<registered, held>>
allVars == <<vars, storeVars, bootVars>>

FolderKey == 1   \* ACONFIG_PARAM_FOLDER in defaultEntries
ModeKey == 2     \* ACONFIG_PARAM_MODE
Mode == {"255", "0", "1"}
HookOf(mode) == IF mode = "1" THEN "ETV" ELSE "VBL"
ModeOf(h) == IF h = "ETV" THEN "1" ELSE "0"

ASSUME EntriesAssumption ==
  {FolderKey, ModeKey} \subseteq Key /\ Mode \subseteq Value

-----------------------------------------------------------------------------
(* main.c, up to emul_start.                                               *)
BootBooster ==
  /\ rpPc = "boot"
  /\ \/ store = "off" /\ (held \/ ~registered)
     \/ store = "failed"
  /\ rpPc' = "booster"
  /\ UNCHANGED <<turn, hook, sentinel, hookFlag, command, answered, stVars,
                 storeVars, bootVars>>

BootLoad ==
  /\ rpPc = "boot" /\ ~held /\ registered
  /\ Start
  /\ UNCHANGED <<vars, bootVars>>

(* Interrupts are off while the flash is written, and the caller waits.    *)
SaveStep ==
  /\ Save
  /\ UNCHANGED <<vars, bootVars>>

Running == store = "idle" /\ UNCHANGED <<storeVars, bootVars>>

LoadHook ==
  /\ EnterMenu
  /\ hook' = HookOf(ram[ModeKey])
  /\ Running

(* The H key: the hook is toggled in any case, and saved if MODE is there. *)
SaveOldMode(h) == Change(ModeKey, ModeOf(hook))              \* a mutant
SaveMode(h) == Change(ModeKey, ModeOf(h))

ToggleHook ==
  /\ MenuTurn
  /\ hook' # hook
  /\ \/ SaveMode(hook')
     \/ /\ store = "idle" /\ ram[ModeKey] = Missing
        /\ UNCHANGED storeVars
  /\ UNCHANGED bootVars

OtherRp ==
  /\ \/ BringUp
     \/ MenuTurn /\ UNCHANGED hook
     \/ LeaveMenu \/ HoldStart \/ HoldBootGem \/ DesktopTurn
     \/ GotoBooster \/ Jump
  /\ Running

AnyRp ==
  BootBooster \/ BootLoad \/ SaveStep \/ LoadHook \/ ToggleHook \/ OtherRp

AnySt == St /\ UNCHANGED <<storeVars, bootVars>>

UserResets == StReset /\ UNCHANGED <<storeVars, bootVars>>

(* SELECT is read once, early in main.                                     *)
HoldSelect ==
  /\ rpPc = "boot" /\ store = "off" /\ ~held
  /\ held' = TRUE
  /\ UNCHANGED <<vars, storeVars, registered>>

(* Both computers lose power, and everything but the flash with it.        *)
PowerCycle ==
  /\ PowerCut
  /\ rpPc' = "boot" /\ turn' = 0
  /\ hook' = "VBL"
  /\ sentinel' \in Sentinel
  /\ hookFlag' \in Hook
  /\ command' = "none" /\ answered' = FALSE
  /\ stPc' = "boot" /\ attempts' = 0
  /\ installed' = FALSE /\ hooks' = << >>
  /\ held' = FALSE
  /\ UNCHANGED <<resets, registered>>

PowerOnInit ==
  /\ Init /\ hook = "VBL"
  /\ StoreInit
  /\ Held(sector)[ModeKey] \in Mode \union {Blank}
  /\ Held(sector)[FolderKey] \notin {Default[FolderKey]} \union Mode \union Noise
  /\ registered \in BOOLEAN /\ held = FALSE

PowerOnNext == AnyRp \/ AnySt \/ UserResets \/ HoldSelect \/ PowerCycle

PowerOnSpec ==
  PowerOnInit /\ [][PowerOnNext]_allVars /\ WF_allVars(AnyRp) /\ WF_allVars(AnySt)

-----------------------------------------------------------------------------
PowerOnTypeOK ==
  /\ TypeOK
  /\ SettingsTypeOK
  /\ registered \in BOOLEAN /\ held \in BOOLEAN

(* The hook that the menu shows and the desktop gets is the one the next   *)
(* power-on brings, after any number of toggles, of saves cut short and of *)
(* repairs, unless memory ran out.                                         *)
ShownIsSaved ==
  rpPc \notin {"boot", "init", "booster"} /\ store = "idle" /\ ~starved
    => HookOf(Loaded(sector)[ModeKey]) = hook

(* No state of the sector keeps the application from starting: its menu    *)
(* comes up unless the user or the Booster's configuration says otherwise, *)
(* or memory runs out.                                                     *)
BootsToMenu ==
  (rpPc = "boot" /\ registered /\ ~held) ~> (rpPc = "menu" \/ starved \/ held)
==============================================================================
