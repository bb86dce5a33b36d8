------------------------------- MODULE Launch -------------------------------
(***************************************************************************)
(* From power-on to the desktop, and back to Booster: the command sentinel *)
(* through which the RP (rp/src/emul.c: emul_start, exitToDesktop,         *)
(* gotoBooster) steers the Atari's boot code (target/atarist/src/main.s),  *)
(* which polls it once per frame.                                          *)
(*                                                                         *)
(* Neither side knows what the other has seen: the RP holds a value for a  *)
(* while and moves on, BOOT_GEM stays for the rest of the session, and the *)
(* Atari may be booting, or waiting in the synchronous transport, or reset,*)
(* at any of these moments.                                                *)
(***************************************************************************)
EXTENDS Integers, Sequences

CONSTANTS
  HoldTurns,     \* turns the RP holds START, and then BOOT_GEM
  Attempts,      \* CMD_RETRIES_COUNT + 1, attempts of the send_sync macro
  MaxResets      \* bound: resets of the Atari explored

ASSUME LaunchAssumption ==
  /\ HoldTurns \in Nat \ {0}
  /\ Attempts \in Nat \ {0}
  /\ MaxResets \in Nat

Sentinel == {"NOP", "RESET", "BOOT_GEM", "TERMINAL", "START"}
Hook == {"VBL", "ETV"}
Command == {"none", "rez", "key"}

VARIABLES
  rpPc,          \* where the RP is; the cartridge bus is up from "init" on
  turn,          \* turns done of the current hold
  hook,          \* g_hookEtv
  sentinel,      \* $FA2000
  hookFlag,      \* shared variable 4
  command,       \* the command in the ROM3 ring
  answered,      \* has the Atari's current request been answered?
  stPc,          \* where the Atari is
  attempts,      \* attempts its send_sync has left
  installed,     \* userfw_installed, in the relocated copy of the boot code
  hooks,         \* the resident blocks on its vectors, newest last
  resets         \* resets so far

rpVars == <<rpPc, turn, hook, sentinel, hookFlag>>
stVars == <<stPc, attempts, installed, hooks, resets>>
vars == <<rpVars, command, answered, stVars>>

BusUp == rpPc \notin {"boot", "booster"}

-----------------------------------------------------------------------------
(* The RP.                                                                 *)

StaleSentinel == UNCHANGED sentinel                                \* a mutant
ClearSentinel == sentinel' = "NOP"

(* emul_start up to chandler_init: the sentinel is cleared, then the bus   *)
(* comes up.                                                               *)
BringUp ==
  /\ rpPc = "boot"
  /\ ClearSentinel
  /\ rpPc' = "init"
  /\ UNCHANGED <<turn, hook, hookFlag, command, answered, stVars>>

(* The SD card, the hook (loadHookMode, see PowerOn) and the terminal are  *)
(* set up: each set-up of the display writes NOP.                          *)
EnterMenu ==
  /\ rpPc = "init"
  /\ sentinel' = "NOP"
  /\ hook' \in Hook
  /\ rpPc' = "menu"
  /\ UNCHANGED <<turn, hookFlag, command, answered, stVars>>

(* chandler_loop, as far as the Atari's transport sees it.                 *)
Serve ==
  /\ command' = "none"
  /\ answered' = (answered \/ command # "none")

(* A turn of the menu loop: a key may be the one that toggles the hook.    *)
MenuTurn ==
  /\ rpPc = "menu"
  /\ Serve
  /\ \/ UNCHANGED hook
     \/ command = "key" /\ hook' \in Hook
  /\ UNCHANGED <<rpPc, turn, sentinel, hookFlag, stVars>>

(* exitToDesktop: the hook is published before the sentinel moves.         *)
PublishHook == hookFlag' = hook

LeaveMenu ==
  /\ rpPc = "menu"
  /\ PublishHook
  /\ rpPc' = "start" /\ turn' = 0
  /\ UNCHANGED <<hook, sentinel, command, answered, stVars>>

Hold(pc, value, next) ==
  /\ rpPc = pc
  /\ sentinel' = value
  /\ Serve
  /\ IF turn + 1 = HoldTurns THEN rpPc' = next /\ turn' = 0
                             ELSE rpPc' = pc /\ turn' = turn + 1
  /\ UNCHANGED <<hook, hookFlag, stVars>>

HoldStart == Hold("start", "START", "continue")
ReleaseBootGem ==                                                  \* a mutant
  Hold("continue", IF turn + 1 = HoldTurns THEN "NOP" ELSE "BOOT_GEM", "desktop")
HoldBootGem == Hold("continue", "BOOT_GEM", "desktop")

DesktopTurn ==
  /\ rpPc = "desktop"
  /\ Serve
  /\ UNCHANGED <<rpVars, stVars>>

(* gotoBooster: RESET is held for 250 ms, in which nothing is served.      *)
GotoBooster ==
  /\ rpPc \in {"menu", "desktop"}
  /\ sentinel' = "RESET"
  /\ rpPc' = "reset"
  /\ UNCHANGED <<turn, hook, hookFlag, command, answered, stVars>>

(* An Atari in its print loop, or about to return to it, polls within that *)
(* time; one that waits for an answer does not: a single attempt takes     *)
(* longer.                                                                 *)
Waiting == stPc \in {"rez", "key"}
Polling == stPc = "loop" \/ (Waiting /\ answered)

Jump ==
  /\ rpPc = "reset"
  /\ ~Polling
  /\ rpPc' = "booster"
  /\ UNCHANGED <<turn, hook, sentinel, hookFlag, command, answered, stVars>>

-----------------------------------------------------------------------------
(* The Atari.                                                              *)

(* send_sync: a request that the Atari then waits for.                     *)
Send(c) ==
  /\ command' = c
  /\ answered' = FALSE
  /\ attempts' = Attempts
  /\ stPc' = c

(* pre_auto, if the bus is up when TOS looks for a cartridge: a fresh copy *)
(* of the code in RAM, and the resolution sent to the RP.                  *)
BootCartridge ==
  /\ stPc = "boot" /\ BusUp
  /\ Send("rez")
  /\ installed' = FALSE
  /\ UNCHANGED <<rpVars, hooks, resets>>

BootPlain ==
  /\ stPc = "boot" /\ ~BusUp
  /\ stPc' = "plain"
  /\ UNCHANGED <<rpVars, command, answered, attempts, installed, hooks, resets>>

SyncDone ==
  /\ Waiting /\ answered
  /\ stPc' = "loop"
  /\ UNCHANGED <<rpVars, command, answered, attempts, installed, hooks, resets>>

(* The macro resends the same request, and goes on after the last attempt. *)
SyncTimeout ==
  /\ Waiting /\ ~answered /\ BusUp
  /\ attempts' = attempts - 1
  /\ IF attempts > 1
       THEN command' = stPc /\ UNCHANGED stPc
       ELSE stPc' = "loop" /\ UNCHANGED command
  /\ UNCHANGED <<rpVars, answered, installed, hooks, resets>>

(* rom_function, guarded; the installer reads the hook from slot 4.        *)
InstallAlways == hooks' = Append(hooks, hookFlag) /\ installed' = TRUE  \* a mutant
RomFunction ==
  IF installed
    THEN UNCHANGED <<installed, hooks>>
    ELSE hooks' = Append(hooks, hookFlag) /\ installed' = TRUE

PollStart ==
  /\ stPc = "loop" /\ BusUp /\ sentinel = "START"
  /\ RomFunction
  /\ UNCHANGED <<rpVars, command, answered, stPc, attempts, resets>>

PollBootGemOnly ==                                                 \* a mutant
  /\ stPc = "loop" /\ BusUp /\ sentinel = "BOOT_GEM"
  /\ stPc' = "desktop"
  /\ UNCHANGED <<rpVars, command, answered, attempts, installed, hooks, resets>>

PollBootGem ==
  /\ stPc = "loop" /\ BusUp /\ sentinel = "BOOT_GEM"
  /\ RomFunction
  /\ stPc' = "desktop"
  /\ UNCHANGED <<rpVars, command, answered, attempts, resets>>

PollReset ==
  /\ stPc = "loop" /\ BusUp /\ sentinel = "RESET"
  /\ stPc' = "resetting"
  /\ UNCHANGED <<rpVars, command, answered, attempts, installed, hooks, resets>>

PollKey ==
  /\ stPc = "loop" /\ BusUp /\ sentinel \in {"NOP", "TERMINAL"}
  /\ Send("key")
  /\ UNCHANGED <<rpVars, installed, hooks, resets>>

(* PRE_RESET_WAIT, ten times as long as the RP stays, and the reset vector *)
(* after it: a cold boot.                                                  *)
ColdBoot ==
  /\ stPc = "resetting" /\ rpPc = "booster"
  /\ stPc' = "boot"
  /\ hooks' = << >>
  /\ UNCHANGED <<rpVars, command, answered, attempts, installed, resets>>

(* Someone resets the Atari: TOS sets its vectors up afresh.               *)
StReset ==
  /\ resets < MaxResets
  /\ resets' = resets + 1
  /\ stPc' = "boot"
  /\ hooks' = << >>
  /\ UNCHANGED <<rpVars, command, answered, attempts, installed>>

-----------------------------------------------------------------------------
(* The RAM behind the sentinel and the slots holds anything at first.      *)
Init ==
  /\ rpPc = "boot" /\ turn = 0
  /\ hook \in Hook
  /\ sentinel \in Sentinel
  /\ hookFlag \in Hook
  /\ command = "none" /\ answered = FALSE
  /\ stPc = "boot"
  /\ attempts = 0
  /\ installed = FALSE
  /\ hooks = << >>
  /\ resets = 0

Rp ==
  \/ BringUp \/ EnterMenu \/ MenuTurn \/ LeaveMenu
  \/ HoldStart \/ HoldBootGem \/ DesktopTurn
  \/ GotoBooster \/ Jump

St ==
  \/ BootCartridge \/ BootPlain
  \/ SyncDone \/ SyncTimeout
  \/ PollStart \/ PollBootGem \/ PollReset \/ PollKey \/ ColdBoot

Next == Rp \/ St \/ StReset

Spec == Init /\ [][Next]_vars

(* The RP's loops turn, and the Atari's processor runs.                    *)
FairSpec == Spec /\ WF_vars(Rp) /\ WF_vars(St)

-----------------------------------------------------------------------------
HookChain == {<< >>} \union {<<h>> : h \in Hook}

(* Every variable has its type; one resident block at most is ever on the  *)
(* vectors, and the transport never counts below its last attempt.         *)
TypeOK ==
  /\ rpPc \in {"boot", "init", "menu", "start", "continue", "desktop", "reset",
               "booster"}
  /\ turn \in 0 .. HoldTurns - 1
  /\ hook \in Hook /\ hookFlag \in Hook
  /\ sentinel \in Sentinel
  /\ command \in Command /\ answered \in BOOLEAN
  /\ stPc \in {"boot", "rez", "key", "loop", "desktop", "resetting", "plain"}
  /\ attempts \in 0 .. Attempts
  /\ Waiting => attempts > 0
  /\ installed \in BOOLEAN
  /\ hooks \in HookChain
  /\ resets \in 0 .. MaxResets

(* Whoever gets to the desktop through the cartridge has exactly one       *)
(* resident grabber, on the vector chosen in the menu, whether START was   *)
(* seen or missed, and after any number of resets.                         *)
HookOnDesktop == stPc = "desktop" => hooks = <<hook>>

(* The Atari never leaves its menu loop before the RP has left the menu:   *)
(* nothing is installed, booted or reset by a value the sentinel happened  *)
(* to hold at power-on (emul.c:563-567).                                   *)
NothingSpurious ==
  /\ stPc = "desktop" \/ hooks # << >> => rpPc \notin {"boot", "init", "menu"}
  /\ stPc = "resetting" => rpPc \in {"reset", "booster"}

(* Once the RP leaves the menu for the desktop, the Atari gets there too,  *)
(* unless the user goes to Booster, the bus was down when it booted or the *)
(* power goes off (rpPc is "boot" again, see PowerOn).                     *)
ReachesDesktop ==
  rpPc = "start" ~>
    (stPc \in {"desktop", "plain"} \/ rpPc \in {"reset", "booster", "boot"})

(* gotoBooster "resets the m68k" and "waits for it to act" before it jumps *)
(* (emul.c:469-485): an Atari on the desktop is reset.                     *)
BoosterResetsDesktop == rpPc = "booster" => stPc # "desktop"
=============================================================================
