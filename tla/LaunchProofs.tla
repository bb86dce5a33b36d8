---------------------------- MODULE LaunchProofs -----------------------------
(***************************************************************************)
(* Proofs about Launch, for any length of the holds, any number of         *)
(* attempts and any number of resets.                                      *)
(***************************************************************************)
EXTENDS Launch, TLAPS

InMenu == rpPc \in {"boot", "init", "menu"}

(* What the sentinel can say at each stage of the RP, once it can be read. *)
SentinelInv ==
  /\ rpPc \in {"init", "menu"} => sentinel = "NOP"
  /\ rpPc = "start" => sentinel \in {"NOP", "START"}
  /\ rpPc = "continue" => sentinel \in {"START", "BOOT_GEM"}
  /\ rpPc = "desktop" => sentinel = "BOOT_GEM"
  /\ rpPc = "reset" => sentinel = "RESET"

(* The installer finds the choice of the menu in slot 4 whenever it runs.  *)
PublishedInv == rpPc \in {"start", "continue", "desktop"} => hookFlag = hook

(* The guard of rom_function says whether the grabber is installed.        *)
GuardInv ==
  /\ stPc \in {"boot", "plain"} => hooks = << >>
  /\ stPc \notin {"boot", "plain"} =>
       hooks = IF installed THEN <<hook>> ELSE << >>
  /\ stPc = "desktop" => installed

(* The Atari stays behind the RP.                                          *)
OrderInv ==
  /\ rpPc = "boot" => stPc \in {"boot", "plain"}
  /\ InMenu => hooks = << >> /\ stPc # "desktop"
  /\ stPc = "resetting" => rpPc \in {"reset", "booster"}

LaunchInv == TypeOK /\ SentinelInv /\ PublishedInv /\ GuardInv /\ OrderInv

-----------------------------------------------------------------------------
LEMMA LaunchTypeInit == Init => TypeOK
<1> SUFFICES ASSUME Init PROVE TypeOK
  OBVIOUS
<1>1. hooks \in HookChain /\ ~Waiting
  BY DEF Init, HookChain, Waiting
<1>2. turn \in 0 .. HoldTurns - 1 /\ attempts \in 0 .. Attempts /\ resets \in 0 .. MaxResets
  BY LaunchAssumption DEF Init
<1> QED
  BY <1>1, <1>2 DEF Init, TypeOK, Command

LEMMA LaunchInit == Init => LaunchInv
<1> SUFFICES ASSUME Init PROVE LaunchInv
  OBVIOUS
<1>1. SentinelInv /\ PublishedInv /\ GuardInv /\ OrderInv
  BY DEF Init, SentinelInv, PublishedInv, GuardInv, OrderInv, InMenu
<1> QED
  BY <1>1, LaunchTypeInit DEF LaunchInv

(* The RP's steps leave the Atari alone, and with it what is installed.    *)
LEMMA RpStep == LaunchInv /\ Rp => LaunchInv'
<1> SUFFICES ASSUME LaunchInv, Rp PROVE LaunchInv'
  OBVIOUS
<1> USE LaunchAssumption
    DEF LaunchInv, TypeOK, SentinelInv, PublishedInv, GuardInv, OrderInv, InMenu,
        Waiting, rpVars, stVars
<1>1. CASE BringUp
  BY <1>1 DEF BringUp, ClearSentinel, Sentinel
<1>2. CASE EnterMenu
  BY <1>2 DEF EnterMenu, Sentinel
<1>3. CASE MenuTurn
  BY <1>3 DEF MenuTurn, Serve, Command
<1>4. CASE LeaveMenu
  BY <1>4 DEF LeaveMenu, PublishHook
<1>5. CASE HoldStart
  BY <1>5 DEF HoldStart, Hold, Serve, Command, Sentinel
<1>6. CASE HoldBootGem
  BY <1>6 DEF HoldBootGem, Hold, Serve, Command, Sentinel
<1>7. CASE DesktopTurn
  BY <1>7 DEF DesktopTurn, Serve, Command
<1>8. CASE GotoBooster
  BY <1>8 DEF GotoBooster, Sentinel
<1>9. CASE Jump
  BY <1>9 DEF Jump
<1> QED
  BY <1>1, <1>2, <1>3, <1>4, <1>5, <1>6, <1>7, <1>8, <1>9 DEF Rp

(* One run of rom_function leaves one grabber, on the vector of slot 4.    *)
LEMMA InstallOnce ==
  ASSUME GuardInv, stPc = "loop", hookFlag = hook, RomFunction
  PROVE  installed' /\ hooks' = <<hook>>
<1>1. CASE installed
  BY <1>1 DEF GuardInv, RomFunction
<1>2. CASE ~installed
  BY <1>2 DEF GuardInv, RomFunction
<1> QED
  BY <1>1, <1>2

LEMMA StTypeStep == TypeOK /\ SentinelInv /\ GuardInv /\ (St \/ StReset) => TypeOK'
<1> SUFFICES ASSUME TypeOK, SentinelInv, GuardInv, St \/ StReset PROVE TypeOK'
  OBVIOUS
<1> USE LaunchAssumption DEF TypeOK, rpVars
<1>1. CASE BootCartridge
  <2>1. attempts' \in 0 .. Attempts /\ attempts' > 0
    BY <1>1 DEF BootCartridge, Send
  <2> QED
    BY <1>1, <2>1 DEF BootCartridge, Send, Command
<1>2. CASE BootPlain \/ SyncDone \/ PollReset
  BY <1>2 DEF BootPlain, SyncDone, PollReset, Waiting
<1>3. CASE SyncTimeout
  <2>1. attempts' \in 0 .. Attempts /\ (Waiting' => attempts' > 0)
    BY <1>3 DEF SyncTimeout, Waiting
  <2>2. stPc' \in {stPc, "loop"} /\ command' \in Command
    BY <1>3 DEF SyncTimeout, Waiting, Command
  <2> QED
    BY <1>3, <2>1, <2>2 DEF SyncTimeout
<1>4. CASE PollStart \/ PollBootGem
  <2>1. RomFunction /\ stPc' \in {"loop", "desktop"} /\ stPc = "loop"
    BY <1>4 DEF PollStart, PollBootGem
  <2>2. CASE installed
    BY <1>4, <2>1, <2>2 DEF PollStart, PollBootGem, RomFunction, Waiting
  <2>3. CASE ~installed
    <3>1. hooks = << >>
      BY <2>1, <2>3 DEF GuardInv
    <3>2. hooks' = <<hookFlag>>
      BY <2>1, <2>3, <3>1 DEF RomFunction
    <3>3. hooks' \in HookChain
      BY <3>2 DEF HookChain
    <3>4. installed' \in BOOLEAN
      BY <2>1, <2>3 DEF RomFunction
    <3> QED
      BY <1>4, <2>1, <3>3, <3>4 DEF PollStart, PollBootGem, Waiting
  <2> QED
    BY <2>2, <2>3
<1>5. CASE PollKey
  <2>1. attempts' \in 0 .. Attempts /\ attempts' > 0
    BY <1>5 DEF PollKey, Send
  <2> QED
    BY <1>5, <2>1 DEF PollKey, Send, Command
<1>6. CASE ColdBoot \/ StReset
  <2>1. hooks' \in HookChain
    BY <1>6 DEF ColdBoot, StReset, HookChain
  <2>2. resets' \in 0 .. MaxResets
    BY <1>6 DEF ColdBoot, StReset
  <2> QED
    BY <1>6, <2>1, <2>2 DEF ColdBoot, StReset, Waiting
<1> QED
  BY <1>1, <1>2, <1>3, <1>4, <1>5, <1>6 DEF St

(* The Atari installs what slot 4 says, once.                              *)
LEMMA StStep == LaunchInv /\ (St \/ StReset) => LaunchInv'
<1> SUFFICES ASSUME LaunchInv, St \/ StReset PROVE LaunchInv'
  OBVIOUS
<1>0. TypeOK' /\ SentinelInv' /\ PublishedInv'
  <2>1. UNCHANGED rpVars
    BY DEF St, BootCartridge, BootPlain, SyncDone, SyncTimeout, PollStart,
           PollBootGem, PollReset, PollKey, ColdBoot, StReset
  <2> QED
    BY <2>1, StTypeStep DEF LaunchInv, SentinelInv, PublishedInv, rpVars
<1> SUFFICES GuardInv' /\ OrderInv'
  BY <1>0 DEF LaunchInv
<1> USE DEF LaunchInv, SentinelInv, PublishedInv, GuardInv, OrderInv, InMenu,
        BusUp, rpVars
<1>1. CASE BootCartridge
  BY <1>1 DEF BootCartridge, Send, Command
<1>2. CASE BootPlain
  BY <1>2 DEF BootPlain
<1>3. CASE SyncDone
  BY <1>3 DEF SyncDone, Waiting
<1>4. CASE SyncTimeout
  BY <1>4 DEF SyncTimeout, Waiting, Command
<1>5. CASE PollStart
  <2>1. rpPc \in {"start", "continue"} /\ hookFlag = hook
    BY <1>5 DEF PollStart, TypeOK
  <2>2. installed' /\ hooks' = <<hook>>
    BY <1>5, <2>1, InstallOnce DEF PollStart
  <2> QED
    BY <1>5, <2>1, <2>2 DEF PollStart
<1>6. CASE PollBootGem
  <2>1. rpPc \in {"continue", "desktop"} /\ hookFlag = hook
    BY <1>6 DEF PollBootGem, TypeOK
  <2>2. installed' /\ hooks' = <<hook>>
    BY <1>6, <2>1, InstallOnce DEF PollBootGem
  <2> QED
    BY <1>6, <2>1, <2>2 DEF PollBootGem
<1>7. CASE PollReset
  BY <1>7 DEF PollReset, TypeOK
<1>8. CASE PollKey
  BY <1>8 DEF PollKey, Send, Command
<1>9. CASE ColdBoot \/ StReset
  BY <1>9 DEF ColdBoot, StReset
<1> QED
  BY <1>1, <1>2, <1>3, <1>4, <1>5, <1>6, <1>7, <1>8, <1>9 DEF St

LEMMA LaunchInvariant == Spec => []LaunchInv
<1>1. LaunchInv /\ UNCHANGED vars => LaunchInv'
  BY DEF LaunchInv, TypeOK, SentinelInv, PublishedInv, GuardInv, OrderInv, InMenu,
         Waiting, vars, rpVars, stVars
<1> QED
  BY <1>1, LaunchInit, RpStep, StStep, PTL DEF Spec, Next

(* Every variable of the launch has its type (emul.c, main.s).             *)
THEOREM LaunchTyped == Spec => []TypeOK
<1>1. LaunchInv => TypeOK
  BY DEF LaunchInv
<1> QED
  BY <1>1, LaunchInvariant, PTL

(* The desktop is never reached with no grabber, two of them, or one on    *)
(* the wrong vector (main.s, rom_function and boot_gem).                   *)
THEOREM HookCorrect == Spec => []HookOnDesktop
<1>1. LaunchInv => HookOnDesktop
  BY DEF LaunchInv, GuardInv, HookOnDesktop
<1> QED
  BY <1>1, LaunchInvariant, PTL

(* Nothing is installed, booted or reset before the RP says so, whatever   *)
(* its RAM held at power-on (emul.c, emul_start).                          *)
THEOREM LaunchOrdered == Spec => []NothingSpurious
<1>1. LaunchInv => NothingSpurious
  BY DEF LaunchInv, OrderInv, InMenu, NothingSpurious
<1> QED
  BY <1>1, LaunchInvariant, PTL
=============================================================================
